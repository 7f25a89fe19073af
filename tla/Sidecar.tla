-------------------------------- MODULE Sidecar --------------------------------
(***************************************************************************)
(* A recording sent to a recognizer in a process of its own: the client    *)
(* (internal/asr/client.go) behind ManagedSidecarProvider (provider.go),   *)
(* the websocket both ends speak (websocket.go), and the runtimes of the   *)
(* repository, the fake one (fake_runtime.go) and the one that crashes     *)
(* (crash_runtime.go).                                                     *)
(*                                                                         *)
(* The client does not know when an answer is due.  After audio_start and  *)
(* after every frame it reads until nothing has come for 20 ms, and the    *)
(* deadline may pass anywhere: also between the header and the payload of  *)
(* a message, which the runtime writes with two calls.  What arrives at    *)
(* the client is therefore a sequence of headers and payloads.             *)
(***************************************************************************)
EXTENDS Integers, Sequences, SequencesExt

CONSTANT MaxFrames      \* the longest recording

ASSUME SidecarAssumption == MaxFrames \in Nat

VARIABLES
    \* What is running, and what it is asked.
    runtime, ready, encodingOK, frames, alive,
    \* The client: its call, where it is in it, the frames it has sent, the
    \* StreamResult, a header read without its payload, and the error.
    call, pc, sent, result, half, err,
    \* The connection, and the runtime's session on it with what it is about
    \* to write.
    link, up, down, session, outbox,
    \* History: the partials the runtime has given, the error it has reported,
    \* and whether a deadline has ever cut a message in two.
    issued, complaint, torn

setting == <<runtime, ready, encodingOK, frames>>
connVars == <<link, up, down>>
runtimeVars == <<session, outbox>>
history == <<issued, complaint, torn>>
vars == <<setting, alive, call, pc, sent, result, half, err, connVars,
          runtimeVars, history>>

Texts == {1, 2}         \* the short and the long text of the fake runtime
Complaints == {"unready", "encoding", "not_started", "order", "unexpected"}
Answers == [type : {"hello", "error"}] \union [type : {"partial", "final", "text"}, text : Texts]
Tokens == {<<"header">>} \union ({"payload"} \X Answers)
Requests == [type : {"hello", "start", "stop"}] \union [type : {"frame"}, seq : Nat]
Reading == {"hello", "drain", "finish"}
Over == pc \in {"ok", "failed"}

TypeOK ==
    /\ runtime \in {"fake", "crash"}
    /\ {ready, encodingOK, alive, half, torn} \subseteq BOOLEAN
    /\ frames \in 0..MaxFrames /\ sent \in 0..frames
    /\ call \in {"health", "transcribe"}
    /\ pc \in Reading \union {"dial", "handshake", "next", "ok", "failed"}
    /\ result \in [partials : Seq(Texts), finals : Seq(Texts), text : Texts \union {0}]
    /\ err \in {"none", "transport", "timeout", "garbage", "refused"}
    /\ link \in {"none", "dialing", "open", "shut"}
    /\ up \in Seq(Requests) /\ down \in Seq(Tokens)
    /\ session \in [started : BOOLEAN, received : Nat]
    /\ outbox \in Seq(Tokens \union {<<"close">>})
    /\ issued \in Seq(Texts)
    /\ complaint \in Complaints \union {"none"}

NoSession == [started |-> FALSE, received |-> 0]

Init ==
    /\ runtime \in {"fake", "crash"}
    /\ ready \in BOOLEAN /\ encodingOK \in BOOLEAN
    /\ frames \in 0..MaxFrames
    /\ alive = TRUE
    /\ call = "health" /\ pc = "dial" /\ sent = 0
    /\ result = [partials |-> <<>>, finals |-> <<>>, text |-> 0]
    /\ half = FALSE /\ err = "none"
    /\ link = "none" /\ up = <<>> /\ down = <<>>
    /\ session = NoSession /\ outbox = <<>>
    /\ issued = <<>> /\ complaint = "none" /\ torn = FALSE

-----------------------------------------------------------------------------
(* The connection.                                                         *)

\* The client closes the connection, and what is on it is lost.
Hangup ==
    /\ link' = "none" /\ up' = <<>> /\ down' = <<>> /\ half' = FALSE
    /\ session' = NoSession /\ outbox' = <<>>

Fail(e) ==
    /\ pc' = "failed" /\ err' = e
    /\ Hangup
    /\ UNCHANGED <<setting, alive, call, sent, result, history>>

\* writeFrame: to a connection the runtime has closed it may succeed all the
\* same, and reach nobody.
Write(m, next) ==
    /\ pc' = next
    /\ up' = IF link = "open" THEN Append(up, m) ELSE up
    /\ UNCHANGED <<link, err>>

NextIs(part) == down # <<>> /\ Head(down)[1] = part

-----------------------------------------------------------------------------
(* The client.                                                             *)

\* dialWebSocket: the connection, and the upgrade request on it.
Dial ==
    /\ pc = "dial"
    /\ IF alive
          THEN /\ pc' = "handshake" /\ link' = "dialing"
               /\ UNCHANGED <<setting, alive, call, sent, result, half, err,
                              up, down, runtimeVars, history>>
          ELSE Fail("transport")

\* The handshake is over, and client_hello is sent.  The answer to the
\* handshake is awaited without a deadline.
Greet ==
    /\ pc = "handshake" /\ link = "open"
    /\ Write([type |-> "hello"], "hello")
    /\ UNCHANGED <<setting, alive, call, sent, result, half, down, runtimeVars, history>>

ReadHeader ==
    /\ pc \in Reading /\ ~half /\ NextIs("header")
    /\ half' = TRUE
    /\ down' = Tail(down)
    /\ UNCHANGED <<setting, alive, call, pc, sent, result, err, link, up,
                   runtimeVars, history>>

\* A payload that comes with its header.
Payload(type) ==
    /\ pc \in Reading /\ half /\ NextIs("payload")
    /\ Head(down)[2].type = type

Consume ==
    /\ half' = FALSE
    /\ down' = Tail(down)
    /\ UNCHANGED <<setting, alive, sent, runtimeVars, history>>

\* HealthCheck returns, and NewStream dials again.
Healthy ==
    /\ Payload("hello") /\ pc = "hello" /\ call = "health"
    /\ call' = "transcribe" /\ pc' = "dial"
    /\ Hangup
    /\ UNCHANGED <<setting, alive, sent, result, err, history>>

\* NewStream consumes server_hello and sends audio_start.
StartStream ==
    /\ Payload("hello") /\ pc = "hello" /\ call = "transcribe"
    /\ Write([type |-> "start"], "drain")
    /\ Consume
    /\ UNCHANGED <<call, result>>

\* consumeMessageWithDone
ConsumePartial ==
    /\ Payload("partial")
    /\ result' = [result EXCEPT !.partials = Append(@, Head(down)[2].text)]
    /\ Consume
    /\ UNCHANGED <<call, pc, err, link, up>>

ConsumeFinal ==
    /\ Payload("final")
    /\ result' = [result EXCEPT !.finals = Append(@, Head(down)[2].text)]
    /\ Consume
    /\ UNCHANGED <<call, pc, err, link, up>>

\* Finish returns the result, and Transcribe closes the stream.
ConsumeText ==
    /\ Payload("text") /\ pc = "finish"
    /\ result' = [result EXCEPT !.text = Head(down)[2].text]
    /\ pc' = "ok"
    /\ Hangup
    /\ UNCHANGED <<setting, alive, call, sent, err, history>>

ConsumeError == Payload("error") /\ Fail("refused")

\* A payload whose header an earlier read took away: its first byte is no
\* opcode the client knows.
SkipsGarbage ==                           \* fault: reads on after it
    /\ pc \in Reading /\ ~half /\ NextIs("payload")
    /\ Consume
    /\ UNCHANGED <<call, pc, result, err, link, up>>
ReadGarbage == pc \in Reading /\ ~half /\ NextIs("payload") /\ Fail("garbage")

ReadEOF ==
    /\ \/ pc \in Reading /\ down = <<>>
       \/ pc = "handshake"
    /\ link = "shut"
    /\ Fail("transport")

\* drainUntilQuiet: a deadline that passes means that there is nothing to read.
TimeoutIsError == pc = "drain" /\ Fail("transport")              \* fault
QuietEnds ==
    /\ pc = "drain"
    /\ pc' = "next"
    /\ half' = FALSE
    /\ torn' = (torn \/ half)
    /\ UNCHANGED <<setting, alive, call, sent, result, err, connVars,
                   runtimeVars, issued, complaint>>

\* The other reads have the context's deadline, or the readTimeout.
NoReadTimeout == {"hello"}                \* fault: Finish without a deadline
Deadlined == {"hello", "finish"}
ReadTimesOut == pc \in Deadlined /\ Fail("timeout")

\* AcceptFrame numbers the frame.
NextSequence == sent + 1

OffByOne == sent <= frames                \* fault: one frame too many
MoreFrames == sent < frames

SendFrame ==
    /\ pc = "next" /\ MoreFrames
    /\ Write([type |-> "frame", seq |-> NextSequence], "drain")
    /\ sent' = sent + 1
    /\ UNCHANGED <<setting, alive, call, result, half, down, runtimeVars, history>>

SendStop ==
    /\ pc = "next" /\ ~MoreFrames
    /\ Write([type |-> "stop"], "finish")
    /\ UNCHANGED <<setting, alive, call, sent, result, half, down, runtimeVars, history>>

\* The runtime has closed the connection, and the client notices as it writes.
WriteFails == pc = "next" /\ link = "shut" /\ Fail("transport")

-----------------------------------------------------------------------------
(* The runtime.                                                            *)

\* acceptWebSocket
Accept ==
    /\ link = "dialing"
    /\ link' = "open"
    /\ UNCHANGED <<setting, alive, call, pc, sent, result, half, err, up, down,
                   runtimeVars, history>>

Message(m) == <<<<"header">>, <<"payload", m>>>>
Says(type, text) == Message([type |-> type, text |-> text])

\* fakePartialForFrame and fakeFinalForFrames
Partials(n) == IF n \in Texts THEN <<n>> ELSE <<>>
Final(n) == IF n < 2 THEN 1 ELSE 2

\* The runtime takes the next message, and reads no other before it has
\* written its answer.
Receives(type) ==
    /\ link = "open" /\ outbox = <<>> /\ up # <<>>
    /\ Head(up).type = type
    /\ up' = Tail(up)

\* writeProtocolError, and the end of the session.
Complain(c) ==
    /\ outbox' = Message([type |-> "error"]) \o <<<<"close">>>>
    /\ complaint' = c
    /\ UNCHANGED <<session, issued>>

clientVars == <<call, pc, sent, result, half, err>>

ServeHello ==
    /\ Receives("hello")
    /\ IF runtime = "fake" /\ ~ready
          THEN Complain("unready")
          ELSE /\ outbox' = Message([type |-> "hello"])
               /\ UNCHANGED <<session, issued, complaint>>
    /\ UNCHANGED <<setting, alive, clientVars, link, down, torn>>

ServeStart ==
    /\ Receives("start")
    /\ IF ~encodingOK
          THEN Complain("encoding")
          ELSE /\ session' = [session EXCEPT !.started = TRUE]
               /\ UNCHANGED <<outbox, issued, complaint>>
    /\ UNCHANGED <<setting, alive, clientVars, link, down, torn>>

ServeFrame ==
    /\ runtime = "fake"
    /\ Receives("frame")
    /\ LET n == session.received + 1
       IN  IF ~session.started THEN Complain("not_started")
           ELSE IF Head(up).seq # n THEN Complain("order")
           ELSE /\ session' = [session EXCEPT !.received = n]
                /\ issued' = issued \o Partials(n)
                /\ outbox' = IF n \in Texts THEN Says("partial", n) ELSE <<>>
                /\ UNCHANGED complaint
    /\ UNCHANGED <<setting, alive, clientVars, link, down, torn>>

\* audio_stop: whatever has been started, the final and the text.
ServeStop ==
    /\ Receives("stop")
    /\ IF runtime = "crash"
          THEN Complain("unexpected")
          ELSE LET t == Final(session.received)
               IN  /\ outbox' = Says("final", t) \o Says("text", t) \o <<<<"close">>>>
                   /\ UNCHANGED <<session, issued, complaint>>
    /\ UNCHANGED <<setting, alive, clientVars, link, down, torn>>

\* conn.Write of a header or of a payload, and the deferred Close.
WriteNext ==
    /\ link = "open" /\ outbox # <<>>
    /\ outbox' = Tail(outbox)
    /\ IF Head(outbox) = <<"close">>
          THEN link' = "shut" /\ UNCHANGED down
          ELSE down' = Append(down, Head(outbox)) /\ UNCHANGED link
    /\ UNCHANGED <<setting, alive, clientVars, up, session, history>>

\* The process ends: at any time, and the crashing runtime's at the first frame.
Dies ==
    /\ alive
    /\ alive' = FALSE
    /\ link' = IF link = "none" THEN "none" ELSE "shut"
    /\ outbox' = <<>> /\ up' = <<>>
    /\ UNCHANGED <<setting, clientVars, down, session, history>>

CrashOnFrame ==
    /\ runtime = "crash" /\ link = "open"
    /\ outbox = <<>> /\ up # <<>> /\ Head(up).type = "frame"
    /\ Dies

-----------------------------------------------------------------------------

Client ==
    \/ Dial \/ Greet
    \/ ReadHeader \/ ReadGarbage \/ ReadEOF \/ QuietEnds \/ ReadTimesOut
    \/ Healthy \/ StartStream
    \/ ConsumePartial \/ ConsumeFinal \/ ConsumeText \/ ConsumeError
    \/ SendFrame \/ SendStop \/ WriteFails

Runtime ==
    \/ Accept \/ ServeHello \/ ServeStart \/ ServeFrame \/ ServeStop
    \/ WriteNext \/ CrashOnFrame \/ Dies

Next == Client \/ Runtime

Spec == Init /\ [][Next]_vars

\* The client's goroutine runs, and its deadlines pass.  Of the runtime only
\* the answer to the handshake is assumed: it may fall silent after it.
FairSpec == Spec /\ WF_vars(Client) /\ WF_vars(Accept)

-----------------------------------------------------------------------------
(* Correctness.                                                            *)

\* A transcription that succeeds is the runtime's, of the whole recording: the
\* partials and the final in order, none lost to a deadline that fell inside a
\* message.  Transcribe and resultFromStreamResult rely on it.
ResultIsTheRuntimes ==
    /\ IsPrefix(result.partials, issued)
    /\ pc = "ok" =>
          /\ complaint = "none" /\ runtime = "fake" /\ ready /\ encodingOK
          /\ result = [partials |-> issued, finals |-> <<Final(frames)>>,
                       text |-> Final(frames)]

\* A transcription fails only for what went wrong: a reply is unreadable only
\* when a quiet deadline has cut a message, and the connection breaks only when
\* the runtime died or had refused the call.  drainUntilQuiet ends without an
\* error however slow the runtime is, and the runtime never complains of the
\* client's protocol: frames have the numbers it expects, after audio_start.
FailureHasCause ==
    /\ err = "garbage" => torn
    /\ err = "transport" => ~alive \/ complaint # "none"
    /\ err = "refused" => complaint # "none"
    /\ complaint \notin {"not_started", "order"}
    /\ complaint = "unready" => ~ready
    /\ complaint = "encoding" => ~encodingOK

\* A refusal of the runtime reaches the caller as the runtime's error
\* (TestClientTranscribeRejectsUnsupportedEncoding).
RefusalIsReported == pc = "failed" /\ complaint # "none" => err = "refused"

\* The call ends, even when the runtime stops answering: HealthCheck, Finish
\* and the drains between them have deadlines.
TranscriptionEnds == <>Over
================================================================================
