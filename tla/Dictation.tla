------------------------------- MODULE Dictation -------------------------------
(***************************************************************************)
(* The audio websocket's handlers from the handshake to the text in the    *)
(* focused application: handleIOSAudioStream with its streaming and its    *)
(* buffering path and the key press (internal/app/ios_websocket.go), the   *)
(* buffered session (ios_session.go), the text of a pipeline (pipeline.go, *)
(* llm/ollama_provider.go), the goroutine that inserts it, the latency     *)
(* traces of all of them (latency_trace.go) and the shutdown that closes   *)
(* the connections (app.go).                                               *)
(*                                                                         *)
(* What the messages carry is left to SecureChannel, the life of the       *)
(* pipeline to PipelineLifecycle and the clipboard to PasteInjector.  Here *)
(* a read fails, a deadline passes, the phone goes away and the service    *)
(* stops at any point of a handler.                                        *)
(***************************************************************************)
EXTENDS Integers, Sequences, SequencesExt

CONSTANTS
    Conns,         \* connections, each with its handler
    TraceLimit,    \* defaultLatencyTraceLimit
    BufferLimit    \* iosWebSocketMaxBufferedMessages

ASSUME DictationAssumption == TraceLimit \in Nat \ {0} /\ BufferLimit \in Nat \ {0}

VARIABLES
    session,       \* the device has a session in a.iosSessions
    pipeline,      \* what a.pipeline.asr can do
    app,           \* the service's shutdown
    registered,    \* a.iosAudioConns
    victims,       \* connections closeIOSAudioConns has yet to close
    open,          \* connections the Mac has not closed
    expired,       \* running handlers past iosWebSocketSessionTimeout
    pc,            \* where each handler is
    buffered,      \* len(messages) of the buffering path
    path,          \* the path the handler took
    text,          \* what PrepareASRResult made of the recording
    answer,        \* what the handler wrote back
    insertion,     \* the goroutine of queueIOSFinalTextInsertion
    traces, index, \* LatencyRecorder
    completed      \* traces with a CompletedAt

connVars == <<registered, victims, open, expired>>
handlerVars == <<pc, buffered, path, text, answer>>
traceVars == <<traces, index, completed>>
vars == <<session, pipeline, app, connVars, handlerVars, insertion, traceVars>>

Reading == {"first", "streaming", "buffering"}
Running == Reading \union {"hijacked", "finishing", "cleaning", "answering", "key"}
Spoken == {"raw", "clean"}

TypeOK ==
    /\ session \in BOOLEAN
    /\ pipeline \in {"none", "batch", "streaming"}
    /\ app \in {"serving", "stopping", "sweeping", "exited"}
    /\ registered \subseteq Conns /\ victims \subseteq Conns
    /\ open \subseteq Conns /\ expired \subseteq Conns
    /\ pc \in [Conns -> Running \union {"idle", "over"}]
    /\ buffered \in [Conns -> 0..BufferLimit]
    /\ path \in [Conns -> {"none", "streaming", "buffering", "key"}]
    /\ text \in [Conns -> Spoken \union {"none", "empty"}]
    /\ answer \in [Conns -> {"none", "ok", "unclosed", "failed", "error"}]
    /\ insertion \in [Conns -> {"none", "queued", "done", "failed"}]
    /\ traces \in Seq(Conns) /\ Len(traces) <= TraceLimit
    /\ \A c \in DOMAIN index : c \in Conns /\ index[c] \in 1..TraceLimit
    /\ completed \subseteq Conns

Init ==
    /\ session \in BOOLEAN
    /\ pipeline \in {"none", "batch", "streaming"}
    /\ app = "serving"
    /\ registered = {} /\ victims = {} /\ open = {} /\ expired = {}
    /\ pc = [c \in Conns |-> "idle"]
    /\ buffered = [c \in Conns |-> 0]
    /\ path = [c \in Conns |-> "none"]
    /\ text = [c \in Conns |-> "none"]
    /\ answer = [c \in Conns |-> "none"]
    /\ insertion = [c \in Conns |-> "none"]
    /\ traces = <<>> /\ index = <<>> /\ completed = {}

Goto(c, stage) == pc' = [pc EXCEPT ![c] = stage]
At(c, stage) == pc[c] = stage /\ app # "exited"

-----------------------------------------------------------------------------
(* LatencyRecorder: the newest trace first, and its position by name.      *)

NotShifted(ts) ==                         \* fault: indexes the new trace only
    [c \in {ts[1]} \union DOMAIN index |-> IF c = ts[1] THEN 1 ELSE index[c]]
Reindexed(ts) == [c \in ToSet(ts) |-> CHOOSE i \in DOMAIN ts : ts[i] = c]

KeepsAll(ts) == ts                        \* fault: the list is not cut
Kept(ts) == IF Len(ts) > TraceLimit THEN SubSeq(ts, 1, TraceLimit) ELSE ts

\* Start: the oldest trace makes room, finished or not.
StartTrace(c) ==
    /\ traces' = Kept(<<c>> \o traces)
    /\ index' = Reindexed(traces')
    /\ completed' = completed \intersect ToSet(traces')

\* Update of CompletedAt; nothing for a trace that has made room.
Completed(c) == IF c \in DOMAIN index THEN completed \union {traces[index[c]]} ELSE completed

LeavesTrace(c) == UNCHANGED traceVars     \* fault: CompletedAt is not set
Complete(c) == completed' = Completed(c) /\ UNCHANGED <<traces, index>>

-----------------------------------------------------------------------------
(* The connection.                                                         *)

\* Reads and writes need an open connection and the time.  They may fail all
\* the same: the phone goes away without a word.
Usable(c) == c \in open \ expired

\* acceptIOSWebSocket: the connection is the handler's, and server.Shutdown
\* neither knows it nor waits for it.
Hijack(c) ==
    /\ At(c, "idle") /\ app \in {"serving", "stopping"}
    /\ Goto(c, "hijacked")
    /\ open' = open \union {c}
    /\ UNCHANGED <<session, pipeline, app, registered, victims, expired,
                   buffered, path, text, answer, insertion, traceVars>>

\* registerIOSAudioConn, latencyRecorder.Start, SetDeadline.
Register(c) ==
    /\ At(c, "hijacked")
    /\ Goto(c, "first")
    /\ registered' = registered \union {c}
    /\ StartTrace(c)
    /\ UNCHANGED <<session, pipeline, app, victims, open, expired,
                   buffered, path, text, answer, insertion>>

\* The deferred calls of handleIOSAudioStream.
LeaksConn(c) == registered                \* fault: no unregisterIOSAudioConn
Unregistered(c) == registered \ {c}

Return(c, a) ==
    /\ Goto(c, "over")
    /\ answer' = [answer EXCEPT ![c] = a]
    /\ registered' = Unregistered(c)
    /\ open' = open \ {c} /\ expired' = expired \ {c}
    /\ buffered' = [buffered EXCEPT ![c] = 0]
    /\ UNCHANGED <<session, pipeline, app, victims>>

\* writeIOSWebSocketError: its own failure is ignored.
ReturnError(c) ==
    /\ \/ Usable(c) /\ Return(c, "error")
       \/ Return(c, "failed")
    /\ Complete(c)
    /\ UNCHANGED <<path, text, insertion>>

-----------------------------------------------------------------------------
(* Reading.                                                                *)

\* A frame that cannot be read, decoded or decrypted, or that the recognizer
\* refuses: the phone may send one at any time.
ReadFails(c) == pc[c] \in Reading /\ app # "exited" /\ ReturnError(c)

\* Opcode 8.
PhoneCloses(c) ==
    /\ pc[c] \in Reading /\ app # "exited" /\ Usable(c)
    /\ Return(c, "none")
    /\ Complete(c)
    /\ UNCHANGED <<path, text, insertion>>

Take(c, p, stage) ==
    /\ At(c, "first") /\ Usable(c)
    /\ path' = [path EXCEPT ![c] = p]
    /\ Goto(c, stage)
    /\ UNCHANGED <<session, pipeline, app, connVars, text, answer, insertion, traceVars>>

\* handleIOSKeyPressWireMessage, with iosKeyPressResources.
FirstIsKeyPress(c) ==
    /\ session /\ pipeline # "none"
    /\ Take(c, "key", "key")
    /\ UNCHANGED buffered

KeyPressRefused(c) ==
    /\ At(c, "first") /\ Usable(c)
    /\ ~(session /\ pipeline # "none")
    /\ ReturnError(c)

\* iosStreamingAudioResources has a provider: the frames go to the recognizer
\* as they come.
Streams == session /\ pipeline = "streaming"

FirstIsStreamed(c) == Streams /\ Take(c, "streaming", "streaming") /\ UNCHANGED buffered

\* It has not: the messages are kept, whether there is a session or not.
FirstIsBuffered(c) ==
    /\ ~Streams
    /\ Take(c, "buffering", "buffering")
    /\ buffered' = [buffered EXCEPT ![c] = 1]

\* Another message, within iosWebSocketCanBuffer.
Buffer(c) ==
    /\ At(c, "buffering") /\ Usable(c)
    /\ IF buffered[c] < BufferLimit
          THEN /\ buffered' = [buffered EXCEPT ![c] = @ + 1]
               /\ UNCHANGED <<session, pipeline, app, connVars, pc, path, text,
                              answer, insertion, traceVars>>
          ELSE ReturnError(c)

\* A key press among the messages of a streamed recording.
StreamIsKeyPress(c) ==
    /\ At(c, "streaming") /\ Usable(c)
    /\ Goto(c, "key")
    /\ UNCHANGED <<session, pipeline, app, connVars, buffered, path, text,
                   answer, insertion, traceVars>>

\* audio_stop, which the buffering path buffers too.
Stop(c) ==
    /\ Usable(c)
    /\ At(c, "streaming") \/ (At(c, "buffering") /\ buffered[c] < BufferLimit)
    /\ Goto(c, "finishing")
    /\ UNCHANGED <<session, pipeline, app, connVars, buffered, path, text,
                   answer, insertion, traceVars>>

-----------------------------------------------------------------------------
(* The text.                                                               *)

\* stream.Finish, or processEncryptedIOSAudioSession up to Transcribe, fails.
RecognitionFails(c) == At(c, "finishing") /\ ReturnError(c)

\* The buffered recording's session and pipeline are looked up when it is over.
Available(c) == path[c] = "streaming" \/ (session /\ pipeline # "none")

Recognise(c) ==
    /\ At(c, "finishing") /\ Available(c)
    /\ \/ /\ Goto(c, "cleaning")
          /\ UNCHANGED <<text, traceVars>>
       \/ /\ text' = [text EXCEPT ![c] = "empty"]    \* nothing to clean
          /\ Goto(c, "answering") /\ Complete(c)
    /\ UNCHANGED <<session, pipeline, app, connVars, buffered, path, answer, insertion>>

\* OllamaProvider.Cleanup: a chat that fails, comes back empty or runs out of
\* time leaves the transcript as it is.
FallsBack(c) == {"raw"}

CleanUp(c) ==
    /\ At(c, "cleaning")
    /\ \E t \in FallsBack(c) \union (IF c \in expired THEN {} ELSE {"clean"}) :
          text' = [text EXCEPT ![c] = t]
    /\ Goto(c, "answering")
    /\ Complete(c)
    /\ UNCHANGED <<session, pipeline, app, connVars, buffered, path, answer, insertion>>

-----------------------------------------------------------------------------
(* The answer, and the insertion after it.                                 *)

NoBlank(c) == text[c] \in Spoken

\* queueIOSFinalTextInsertion
Queue(c) == insertion' = IF NoBlank(c) THEN [insertion EXCEPT ![c] = "queued"] ELSE insertion

\* The response and the close frame are written.
AnswerOK(c) ==
    /\ At(c, "answering") /\ Usable(c)
    /\ Return(c, "ok")
    /\ Queue(c)
    /\ UNCHANGED <<path, text, traceVars>>

\* One of them is not: the streaming path returns, the other one goes on.
InsertsAnyway(c) == TRUE                  \* fault: the streaming path goes on too
GoesOn(c) == path[c] = "buffering"

AnswerFails(c) ==
    /\ At(c, "answering")
    /\ \/ Return(c, "failed")
       \/ Usable(c) /\ Return(c, "unclosed")
    /\ IF GoesOn(c) THEN Queue(c) ELSE UNCHANGED insertion
    /\ UNCHANGED <<path, text, traceVars>>

\* handleIOSKeyPress succeeds, and the phone is told.
KeyPressed(c) ==
    /\ At(c, "key") /\ Usable(c)
    /\ Return(c, "ok")
    /\ Complete(c)
    /\ UNCHANGED <<path, text, insertion>>

KeyPressFails(c) == At(c, "key") /\ ReturnError(c)

\* The key has been pressed and the answer cannot be written: the trace is not
\* completed.
KeyAnswerFails(c) ==
    /\ At(c, "key")
    /\ \/ Return(c, "failed")
       \/ Usable(c) /\ Return(c, "unclosed")
    /\ UNCHANGED <<path, text, insertion, traceVars>>

\* InsertText on the goroutine, within iosInsertTimeout.
Insert(c) ==
    /\ insertion[c] = "queued" /\ app # "exited"
    /\ \E r \in {"done", "failed"} : insertion' = [insertion EXCEPT ![c] = r]
    /\ UNCHANGED <<session, pipeline, app, connVars, handlerVars, traceVars>>

-----------------------------------------------------------------------------
(* Around the handlers.                                                    *)

\* iosWebSocketSessionTimeout
NeverExpires(c) == FALSE                  \* fault: the deadline is not set
HasDeadline(c) == pc[c] \in Running \ {"hijacked"}

DeadlinePasses(c) ==
    /\ HasDeadline(c) /\ c \notin expired
    /\ expired' = expired \union {c}
    /\ UNCHANGED <<session, pipeline, app, registered, victims, open,
                   handlerVars, insertion, traceVars>>

\* A pairing or a resume adds the device's session.
SessionStarts ==
    /\ ~session /\ session' = TRUE
    /\ UNCHANGED <<pipeline, app, connVars, handlerVars, insertion, traceVars>>

\* server.Shutdown, then closeIOSAudioConns: the connections of the moment ...
StopServing ==
    /\ app = "serving" /\ app' = "stopping"
    /\ UNCHANGED <<session, pipeline, connVars, handlerVars, insertion, traceVars>>

Sweep ==
    /\ app = "stopping" /\ app' = "sweeping"
    /\ victims' = registered
    /\ registered' = {}
    /\ UNCHANGED <<session, pipeline, open, expired, handlerVars,
                   insertion, traceVars>>

\* ... are closed one after the other, while their handlers run on.
CloseVictim(c) ==
    /\ app = "sweeping" /\ c \in victims
    /\ victims' = victims \ {c}
    /\ open' = open \ {c}
    /\ UNCHANGED <<session, pipeline, app, registered, expired,
                   handlerVars, insertion, traceVars>>

\* App.Shutdown has closed the pipelines, and the process ends with whatever
\* still runs in it.
Exit ==
    /\ app = "sweeping" /\ victims = {}
    /\ app' = "exited"
    /\ UNCHANGED <<session, pipeline, connVars, handlerVars, insertion, traceVars>>

-----------------------------------------------------------------------------

Handler(c) ==
    \/ Hijack(c) \/ Register(c)
    \/ ReadFails(c) \/ PhoneCloses(c)
    \/ FirstIsKeyPress(c) \/ KeyPressRefused(c)
    \/ FirstIsStreamed(c) \/ FirstIsBuffered(c) \/ Buffer(c)
    \/ StreamIsKeyPress(c) \/ Stop(c)
    \/ RecognitionFails(c) \/ Recognise(c) \/ CleanUp(c)
    \/ AnswerOK(c) \/ AnswerFails(c)
    \/ KeyPressed(c) \/ KeyPressFails(c) \/ KeyAnswerFails(c)

Next ==
    \/ \E c \in Conns : Handler(c) \/ Insert(c) \/ DeadlinePasses(c)
    \/ SessionStarts \/ StopServing \/ Sweep \/ Exit
    \/ \E c \in Conns : CloseVictim(c)

Spec == Init /\ [][Next]_vars

\* What a handler does on its own: it waits for the phone only to read.
Proceeds(c) ==
    \/ Register(c)
    \/ RecognitionFails(c) \/ Recognise(c) \/ CleanUp(c)
    \/ AnswerOK(c) \/ AnswerFails(c)
    \/ KeyPressed(c) \/ KeyPressFails(c) \/ KeyAnswerFails(c)
    \/ ~Usable(c) /\ ReadFails(c)

\* The handlers and the insertions run, recognition and paste return, and the
\* clock goes on; the phone need not send anything more.
FairSpec ==
    /\ Spec
    /\ \A c \in Conns : WF_vars(Proceeds(c)) /\ WF_vars(Insert(c)) /\ WF_vars(DeadlinePasses(c))

-----------------------------------------------------------------------------
(* Correctness.                                                            *)

\* A text is inserted only when it was recognised, and a streamed one only
\* after the phone was told so with a complete answer; and what the phone was
\* told completely is inserted.  The streaming and the buffering path order
\* the answer and queueIOSFinalTextInsertion differently.
QueuedWhenAnswered ==
    \A c \in Conns :
        /\ insertion[c] # "none" =>
              /\ pc[c] = "over" /\ text[c] \in Spoken
              /\ path[c] = "streaming" => answer[c] = "ok"
        /\ pc[c] = "over" /\ answer[c] = "ok" /\ path[c] # "key" /\ text[c] \in Spoken =>
              insertion[c] # "none"

\* Every trace is found under its own name at its own place, however many
\* handlers start theirs meanwhile: an update never lands on another's trace.
TraceIndexExact ==
    /\ DOMAIN index = ToSet(traces)
    /\ \A c \in DOMAIN index : index[c] \in DOMAIN traces /\ traces[index[c]] = c

\* The trace of a handler that is over is completed, unless it had made room
\* for a newer one, or the key was pressed and the answer could not be written.
OverIsCompleted ==
    \A c \in DOMAIN index :
        pc[c] = "over" => \/ c \in completed
                          \/ text[c] = "none" /\ answer[c] \in {"failed", "unclosed"}

\* iosAudioConns is what closeIOSAudioConns goes by: it holds no connection of
\* a handler that is over, and while the service runs every open connection but
\* one that is just being accepted.
RegisteredIsServed ==
    /\ registered \subseteq {c \in Conns : pc[c] \in Running \ {"hijacked"}}
    /\ app = "serving" => \A c \in open : pc[c] = "hijacked" \/ c \in registered

\* Every text that was recognised is inserted, the phone being told or not
\* (docs/product-design.md).
RecognisedIsInserted ==
    \A c \in Conns : pc[c] = "over" /\ text[c] \in Spoken => insertion[c] # "none"

\* A handler ends, whatever the phone does: its deadline and the close at
\* shutdown see to that, at every point where it waits for the phone.
HandlersEnd ==
    \A c \in Conns : pc[c] \in Running ~> pc[c] = "over" \/ app = "exited"
================================================================================
