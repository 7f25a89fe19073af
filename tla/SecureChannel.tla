---------------------------- MODULE SecureChannel ----------------------------
(***************************************************************************)
(* The encrypted channel from a phone to the Mac: SecureAudioStreamClient  *)
(* (TalkaIOSApp.swift), the websocket handlers (internal/app/              *)
(* ios_websocket.go) and the session they share (internal/session).        *)
(*                                                                         *)
(* The phone's recorder and its Return key use one client object, which    *)
(* has one sequence counter and one current socket and no lock: send reads *)
(* the counter before it awaits the socket and writes it back after.  The  *)
(* Mac has a goroutine for each connection, and one session machine for    *)
(* all connections of the phone.                                           *)
(*                                                                         *)
(* A recording opens a connection and draws a stream id: both are named by *)
(* the connection.  A key press opens a connection of its own, so a        *)
(* handler whose first message is an audio_start never sees a key press.   *)
(***************************************************************************)
EXTENDS Integers, Sequences, FiniteSets

CONSTANTS
    Conns,      \* connections the phone may open
    Sessions,   \* sessions the Mac may derive, one for each resume
    MaxSends,   \* bound: messages the phone sends
    None

ASSUME ChannelAssumption ==
    /\ None \notin Conns \union Sessions
    /\ MaxSends \in Nat

VARIABLES
    \* The session machines, and a.iosSessions for the phone.
    state, last, seen, current,
    \* The connections: the path to the Mac, what is in transit, the handler
    \* with its local variables, and its one answer.
    link, queue, handler, machine, stream, frames, answer,
    \* The phone: SecureAudioSessionStore.
    saved,
    \* SecureAudioStreamClient: encryptedSessionID, nextSequence, webSocket,
    \* currentStreamSession, streamID.
    encrypted, nextSeq, webSocket, streamSession, streamID,
    \* The recorder, lastAudioSequence, the Return key, the socket each of them
    \* receives from, and the sends that are awaited.
    rec, lastAudio, key, task, sends,
    \* History: messages sent; accepted, in order; frames the phone believes
    \* sent; recordings recognised, and reported as successful; sessions the
    \* Mac refused a number of, and those that were disturbed.
    sent, accepted, okFrames, finished, acked, refused, disturbed

sessionVars == <<state, last, seen, current>>
connVars == <<link, queue>>
handlerVars == <<handler, machine, stream, frames, answer>>
clientVars == <<encrypted, nextSeq, webSocket, streamSession, streamID>>
taskVars == <<rec, lastAudio, key, task, sends>>
history == <<sent, accepted, okFrames, finished, acked, refused, disturbed>>
vars == <<sessionVars, connVars, handlerVars, saved, clientVars, taskVars, history>>

Tasks == {"rec", "key"}
Types == {"audio_start", "audio_frame", "audio_stop", "key_press"}
Messages == [id : 1..MaxSends, ses : Sessions, seq : Nat \ {0}, type : Types,
             stream : Conns \union {None}, n : Nat]

TypeOK ==
    /\ state \in [Sessions -> {"none", "active", "expired"}]
    /\ last \in [Sessions -> Nat]
    /\ seen \in [Sessions -> SUBSET (Nat \ {0})]
    /\ current \in Sessions \union {None}
    /\ link \in [Conns -> {"unused", "open", "closed"}]
    /\ queue \in [Conns -> Seq(Messages)]
    /\ handler \in [Conns -> {"reading", "stream", "key", "over"}]
    /\ machine \in [Conns -> Sessions \union {None}]
    /\ stream \in [Conns -> Conns \union {None}]
    /\ frames \in [Conns -> Nat]
    /\ answer \in [Conns -> {"none", "ok", "refused", "error", "taken"}]
    /\ {saved, encrypted, streamSession} \subseteq Sessions \union {None}
    /\ nextSeq \in Nat \ {0}
    /\ {webSocket, streamID} \subseteq Conns \union {None}
    /\ rec \in {"idle", "starting", "recording", "sending", "draining",
                "drained", "stopping", "waiting"}
    /\ lastAudio \in Nat
    /\ key \in {"idle", "sending", "waiting"}
    /\ task \in [Tasks -> Conns \union {None}]
    /\ sends \subseteq [task : Tasks \union {"orphan"}, msg : Messages]
    /\ sent \subseteq Messages
    /\ accepted \in Seq(Messages)
    /\ okFrames \subseteq Conns \X Nat
    /\ finished \subseteq Conns
    /\ acked \subseteq Conns
    /\ refused \subseteq Sessions
    /\ disturbed \subseteq Sessions

Init ==
    /\ state = [s \in Sessions |-> "none"]
    /\ last = [s \in Sessions |-> 0]
    /\ seen = [s \in Sessions |-> {}]
    /\ current = None
    /\ link = [c \in Conns |-> "unused"]
    /\ queue = [c \in Conns |-> <<>>]
    /\ handler = [c \in Conns |-> "reading"]
    /\ machine = [c \in Conns |-> None]
    /\ stream = [c \in Conns |-> None]
    /\ frames = [c \in Conns |-> 0]
    /\ answer = [c \in Conns |-> "none"]
    /\ saved = None
    /\ encrypted = None /\ nextSeq = 1
    /\ webSocket = None /\ streamSession = None /\ streamID = None
    /\ rec = "idle" /\ lastAudio = 0 /\ key = "idle"
    /\ task = [t \in Tasks |-> None]
    /\ sends = {}
    /\ sent = {} /\ accepted = <<>> /\ okFrames = {}
    /\ finished = {} /\ acked = {} /\ refused = {} /\ disturbed = {}

SessionsOf(msgs) == {m.ses : m \in msgs}
InTransit(c) == {queue[c][i] : i \in DOMAIN queue[c]}

-----------------------------------------------------------------------------
(* Sessions.                                                               *)

\* resumeIOSPairing replaces the session of the phone; old handlers keep
\* theirs.  The phone reconnects when it is off or has dropped its keys, and
\* saves the new ones unless the answer is lost.
Resume(s) ==
    /\ saved = None /\ state[s] = "none"
    /\ state' = [state EXCEPT ![s] = "active"]
    /\ current' = s
    /\ saved' \in {s, None}
    /\ UNCHANGED <<last, seen, connVars, handlerVars, clientVars, taskVars, history>>

-----------------------------------------------------------------------------
(* SecureAudioStreamClient.                                                *)

\* Message m is handed to connection c, whose paths to the Mac are lk: it
\* arrives after what was sent on c before, or c breaks and it is lost.
Transmit(lk, c, m) ==
    \/ /\ c # None /\ lk[c] = "open"
       /\ link' = lk
       /\ queue' = [queue EXCEPT ![c] = Append(@, m)]
       /\ disturbed' = disturbed \union
             (IF sends = {} /\ \A d \in Conns \ {c} : queue[d] = <<>>
                 THEN {}
                 ELSE {m.ses} \union SessionsOf({x.msg : x \in sends})
                              \union SessionsOf(UNION {InTransit(d) : d \in Conns}))
    \/ /\ link' = IF c # None /\ lk[c] = "open" THEN [lk EXCEPT ![c] = "closed"] ELSE lk
       /\ disturbed' = disturbed \union {m.ses}
       /\ UNCHANGED queue

\* send, up to its await: the counter is read, not yet advanced.
Send(t, lk, c, ses, seq, type, strm, n) ==
    LET m == [id |-> Cardinality(sent) + 1, ses |-> ses, seq |-> seq,
              type |-> type, stream |-> strm, n |-> n]
    IN  /\ Cardinality(sent) < MaxSends
        /\ Transmit(lk, c, m)
        /\ sends' = sends \union {[task |-> t, msg |-> m]}
        /\ sent' = sent \union {m}
        /\ UNCHANGED <<sessionVars, handlerVars, saved, accepted, okFrames,
                       finished, acked, refused>>

\* prepareStreamSession: a session other than the last one starts over at 1.
NoReset == nextSeq                        \* fault: goes on counting
FromZero == IF encrypted # saved THEN 0 ELSE nextSeq          \* fault
FirstSeq == IF encrypted # saved THEN 1 ELSE nextSeq

Opened(c) == [link EXCEPT ![c] = "open"]

\* sendAudioStart
StartRecording(c) ==
    /\ rec = "idle" /\ saved # None /\ link[c] = "unused"
    /\ Send("rec", Opened(c), c, saved, FirstSeq, "audio_start", c, 0)
    /\ encrypted' = saved
    /\ nextSeq' = FirstSeq
    /\ webSocket' = c /\ streamSession' = saved /\ streamID' = c
    /\ rec' = "starting" /\ lastAudio' = 0
    /\ UNCHANGED <<key, task>>

\* sendAudioFrame, on whatever socket is the current one.
SendFrame ==
    /\ rec = "recording" /\ streamSession # None
    /\ Send("rec", link, webSocket, streamSession, nextSeq, "audio_frame",
            streamID, lastAudio + 1)
    /\ rec' = "sending"
    /\ UNCHANGED <<clientVars, lastAudio, key, task>>

\* sendAudioStop: stopRecording has drained the frames; after a tap the start
\* may still be awaited.
StopRecording ==
    /\ rec \in {"starting", "recording", "drained"}
    /\ streamSession # None /\ webSocket # None
    /\ Send("rec", link, webSocket, streamSession, nextSeq, "audio_stop",
            streamID, lastAudio)
    /\ task' = [task EXCEPT !["rec"] = webSocket]
    /\ rec' = "stopping"
    /\ UNCHANGED <<clientVars, lastAudio, key>>

\* The recording is over, but not the sends it awaits.
Orphaned(xs) == {IF x.task = "rec" THEN [x EXCEPT !.task = "orphan"] ELSE x : x \in xs}

\* streamSession() throws for a frame or the stop: the recording has failed.
NoStream ==
    /\ rec \in {"starting", "recording", "drained"}
    /\ streamSession = None
    /\ rec' = "idle"
    /\ sends' = Orphaned(sends)
    /\ UNCHANGED <<sessionVars, connVars, handlerVars, saved, clientVars,
                   lastAudio, key, task, history>>

\* The user lets go while a frame is being sent: stopRecording awaits it.
LetGo ==
    /\ rec = "sending"
    /\ rec' = "draining"
    /\ UNCHANGED <<sessionVars, connVars, handlerVars, saved, clientVars,
                   lastAudio, key, task, sends, history>>

\* sendKeyPress opens its own connection, which replaces the current socket.
PressKey(c) ==
    /\ key = "idle" /\ saved # None /\ link[c] = "unused"
    /\ Send("key", Opened(c), c, saved, FirstSeq, "key_press", None, 0)
    /\ encrypted' = saved
    /\ nextSeq' = FirstSeq
    /\ webSocket' = c
    /\ task' = [task EXCEPT !["key"] = c]
    /\ key' = "sending"
    /\ UNCHANGED <<streamSession, streamID, rec, lastAudio>>

\* closeCurrentStream
CloseCurrent ==
    /\ link' = IF webSocket # None /\ link[webSocket] = "open"
                  THEN [link EXCEPT ![webSocket] = "closed"] ELSE link
    /\ webSocket' = None /\ streamSession' = None

Advanced(x) == x.msg.seq + 1

\* Where the recorder goes on when its send of m returns.
Resumed(m) ==
    CASE m.type = "audio_start" /\ rec = "starting" -> "recording"
      [] m.type = "audio_frame" /\ rec = "sending"  -> "recording"
      [] m.type = "audio_frame" /\ rec = "draining" -> "drained"
      [] m.type = "audio_stop"                      -> "waiting"
      [] OTHER                                      -> rec

\* The rest of send, and of what called it: a stop and a key press wait for
\* the answer, a frame counts, also the frame of a cancelled recording when
\* another one runs by now.
SendReturns(x) ==
    /\ x \in sends
    /\ sends' = sends \ {x}
    /\ nextSeq' = Advanced(x)
    /\ rec' = IF x.task = "rec" THEN Resumed(x.msg) ELSE rec
    /\ key' = IF x.task = "key" THEN "waiting" ELSE key
    /\ IF x.msg.type = "audio_frame" /\ rec # "idle"
          THEN /\ lastAudio' = x.msg.n
               /\ okFrames' = okFrames \union {<<x.msg.stream, x.msg.n>>}
          ELSE UNCHANGED <<lastAudio, okFrames>>
    /\ UNCHANGED <<sessionVars, connVars, handlerVars, saved, encrypted,
                   webSocket, streamSession, streamID, task, sent, accepted,
                   finished, acked, refused, disturbed>>

\* Where an error of x leaves the recorder.  A start's or a frame's, also of a
\* cancelled recording, ends the one that runs; once the user has let go it is
\* swallowed, unless the wait for the frames timed out too.
AfterError(x) ==
    IF x.task = "key" THEN {rec}
    ELSE IF x.msg.type = "audio_stop" \/ rec \in {"starting", "recording", "sending"}
         THEN {"idle"}
    ELSE IF x.task = "rec" /\ rec = "draining" THEN {"drained", "idle"}
    ELSE {rec}

\* send throws, having reached the Mac or not: the counter stays.
SendThrows(x) ==
    /\ x \in sends
    /\ disturbed' = disturbed \union {x.msg.ses}
    /\ IF x.msg.type \in {"audio_stop", "key_press"}
          THEN CloseCurrent
          ELSE UNCHANGED <<link, webSocket, streamSession>>
    /\ \E r \in AfterError(x) :
          /\ rec' = r
          /\ sends' = IF r = "idle" THEN Orphaned(sends \ {x}) ELSE sends \ {x}
    /\ key' = IF x.task = "key" THEN "idle" ELSE key
    /\ task' = IF x.msg.type \in {"audio_stop", "key_press"}
                  THEN [task EXCEPT ![x.task] = None] ELSE task
    /\ UNCHANGED <<sessionVars, queue, handlerVars, saved, encrypted, nextSeq,
                   streamID, lastAudio, sent, accepted, okFrames, finished,
                   acked, refused>>

\* disconnectFromCurrentMac, or the monitor finds the Mac gone: the keys are
\* dropped, after sendAudioCancel when a recording runs.  Its sends go on.
Disconnect ==
    /\ saved # None
    /\ rec \notin {"stopping", "waiting"}
    /\ IF rec = "idle" THEN UNCHANGED <<link, webSocket, streamSession>> ELSE CloseCurrent
    /\ rec' = "idle"
    /\ sends' = Orphaned(sends)
    /\ saved' = None
    /\ UNCHANGED <<sessionVars, queue, handlerVars, encrypted, nextSeq,
                   streamID, lastAudio, key, task, history>>

\* clearSecureSession, when a stop was refused for its number.
Forgets(t, a) == t = "rec" /\ a = "refused"

\* task.receive() has the answer of its connection, or fails because there is
\* none (any more); then closeCurrentStream.
Receive(t) ==
    LET c == task[t]
        a == answer[c]
    IN  /\ IF t = "rec" THEN rec = "waiting" ELSE key = "waiting"
        /\ handler[c] = "over" \/ link[c] # "open"
        /\ answer' = [answer EXCEPT ![c] = "taken"]
        /\ acked' = IF t = "rec" /\ a = "ok" THEN acked \union {streamID} ELSE acked
        /\ CloseCurrent
        /\ saved' = IF Forgets(t, a) THEN None ELSE saved
        /\ encrypted' = IF Forgets(t, a) THEN None ELSE encrypted
        /\ nextSeq' = IF Forgets(t, a) THEN 1 ELSE nextSeq
        /\ rec' = IF t = "rec" THEN "idle" ELSE rec
        /\ key' = IF t = "key" THEN "idle" ELSE key
        /\ sends' = IF t = "rec" THEN Orphaned(sends) ELSE sends
        /\ task' = [task EXCEPT ![t] = None]
        /\ UNCHANGED <<sessionVars, queue, handler, machine, stream, frames,
                       streamID, lastAudio, sent, accepted,
                       okFrames, finished, refused, disturbed>>

-----------------------------------------------------------------------------
(* The handlers on the Mac.                                                *)

Head1(c) == queue[c][1]

\* readInitialIOSAudioWireMessage, then iosStreamingAudioResources or
\* iosKeyPressResources: the handler takes the phone's session of the moment.
BindSession(c) ==
    /\ handler[c] = "reading" /\ queue[c] # <<>>
    /\ handler' = [handler EXCEPT ![c] =
                      IF Head1(c).type = "key_press" THEN "key" ELSE "stream"]
    /\ machine' = [machine EXCEPT ![c] = current]
    /\ UNCHANGED <<sessionVars, connVars, stream, frames, answer, saved,
                   clientVars, taskVars, history>>

\* expireIfIdle, the first thing Decrypt does: the session may have been idle
\* for the inactivityTimeout.
Expires(s, expired) ==
    state' = IF expired THEN [state EXCEPT ![s] = "expired"] ELSE state

\* What Decrypt says of message m, in the order of its checks.
Verdict(s, m, expired) ==
    IF expired \/ state[s] # "active" \/ m.ses # s     THEN "error"
    ELSE IF m.seq \in seen[s] \/ m.seq # last[s] + 1  THEN "refused"
    ELSE "ok"

\* Decrypt's last lines.
NotRecorded(s, m) == last' = last /\ seen' = seen             \* fault
Recorded(s, m) ==
    /\ last' = [last EXCEPT ![s] = m.seq]
    /\ seen' = [seen EXCEPT ![s] = @ \union {m.seq}]

Accept(c, m) ==
    /\ Recorded(machine[c], m)
    /\ accepted' = Append(accepted, m)

\* The handler answers and returns: its defers close the connection, and what
\* is still in transit is lost, as is the answer when the connection is broken.
Over(c, a) ==
    /\ handler' = [handler EXCEPT ![c] = "over"]
    /\ answer' = [answer EXCEPT ![c] = IF link[c] = "open" THEN a ELSE @]
    /\ link' = [link EXCEPT ![c] = IF @ = "open" THEN "closed" ELSE @]
    /\ queue' = [queue EXCEPT ![c] = <<>>]
    /\ machine' = [machine EXCEPT ![c] = None]
    /\ stream' = [stream EXCEPT ![c] = None]
    /\ disturbed' = disturbed \union {queue[c][i].ses : i \in 2..Len(queue[c])}

\* A refused message ends the handler.
SkipRefused(v) == v = "error"             \* fault: drops it and reads on
Fatal(v) == v # "ok"

DecryptFails(c) ==
    /\ handler[c] \in {"stream", "key"} /\ queue[c] # <<>>
    /\ \E expired \in BOOLEAN :
          LET v == Verdict(machine[c], Head1(c), expired)
          IN  /\ v # "ok"
              /\ Expires(machine[c], expired)
              /\ IF Fatal(v)
                    THEN Over(c, v)
                    ELSE /\ queue' = [queue EXCEPT ![c] = Tail(@)]
                         /\ UNCHANGED <<handler, answer, link, machine, stream, disturbed>>
              /\ refused' = IF v = "refused" THEN refused \union {machine[c]} ELSE refused
    /\ UNCHANGED <<last, seen, current, frames, saved, clientVars, taskVars, sent,
                   accepted, okFrames, finished, acked>>

Decrypts(c, type) ==
    /\ handler[c] = (IF type = "key_press" THEN "key" ELSE "stream")
    /\ queue[c] # <<>>
    /\ Head1(c).type = type
    /\ Verdict(machine[c], Head1(c), FALSE) = "ok"
    /\ Accept(c, Head1(c))

\* The checks of the stream handler on a frame and a stop.
Fits(c, m) ==
    /\ stream[c] # None /\ m.stream = stream[c]
    /\ m.type = "audio_frame" => m.n = frames[c] + 1

\* What follows the decryption fails: the checks, the recognizer, the key press.
HandlerFails(c) ==
    /\ \E type \in Types : Decrypts(c, type)
    /\ Over(c, "error")
    /\ UNCHANGED <<state, current, frames, saved, clientVars,
                   taskVars, sent, okFrames, finished, acked, refused>>

HandleKeyPress(c) ==
    /\ Decrypts(c, "key_press")
    /\ Over(c, "ok")
    /\ UNCHANGED <<state, current, frames, saved, clientVars,
                   taskVars, sent, okFrames, finished, acked, refused>>

HandleStart(c) ==
    /\ Decrypts(c, "audio_start")
    /\ stream[c] = None
    /\ stream' = [stream EXCEPT ![c] = Head1(c).stream]
    /\ queue' = [queue EXCEPT ![c] = Tail(@)]
    /\ UNCHANGED <<state, current, link, handler, machine, frames, answer,
                   saved, clientVars, taskVars, sent, okFrames, finished,
                   acked, refused, disturbed>>

HandleFrame(c) ==
    /\ Decrypts(c, "audio_frame")
    /\ Fits(c, Head1(c))
    /\ frames' = [frames EXCEPT ![c] = @ + 1]
    /\ queue' = [queue EXCEPT ![c] = Tail(@)]
    /\ UNCHANGED <<state, current, link, handler, machine, stream, answer,
                   saved, clientVars, taskVars, sent, okFrames, finished,
                   acked, refused, disturbed>>

\* Finish and PrepareASRResult succeed, and the text is answered.
HandleStop(c) ==
    /\ Decrypts(c, "audio_stop")
    /\ Fits(c, Head1(c))
    /\ Over(c, "ok")
    /\ finished' = finished \union {c}
    /\ UNCHANGED <<state, current, frames, saved, clientVars,
                   taskVars, sent, okFrames, acked, refused>>

\* The read fails: the phone has closed, the connection broke, or its deadline
\* has passed.
ReadFails(c) ==
    /\ handler[c] # "over" /\ link[c] # "unused"
    /\ queue[c] = <<>>
    /\ Over(c, "error")
    /\ UNCHANGED <<sessionVars, frames, saved, clientVars, taskVars, sent, accepted,
                   okFrames, finished, acked, refused>>

-----------------------------------------------------------------------------
Next ==
    \/ \E s \in Sessions : Resume(s)
    \/ SendFrame \/ StopRecording \/ NoStream \/ LetGo \/ Disconnect
    \/ \E x \in sends : SendReturns(x) \/ SendThrows(x)
    \/ \E t \in Tasks : Receive(t)
    \/ \E c \in Conns :
          \/ StartRecording(c) \/ PressKey(c)
          \/ BindSession(c) \/ DecryptFails(c) \/ HandlerFails(c)
          \/ HandleKeyPress(c) \/ HandleStart(c) \/ HandleFrame(c) \/ HandleStop(c)
          \/ ReadFails(c)

Spec == Init /\ [][Next]_vars

-----------------------------------------------------------------------------
(* Correctness.                                                            *)

\* Whatever overlaps on the phone and whichever handlers run, the messages of
\* a session that Decrypt lets through have increasing numbers: no key press
\* and no frame is processed twice.  (Nothing is said of the order of sending:
\* a number may be given to several messages, of which any may be the first.)
ProcessedOnce ==
    \A i, j \in DOMAIN accepted :
        i < j /\ accepted[i].ses = accepted[j].ses => accepted[i].seq < accepted[j].seq

\* A recording the Mac recognised has all the frames the recorder counted as
\* sent, whatever connection they took (sendPCMFrame; handler, audio_stop).
FinishedIsComplete ==
    \A c \in finished : \A f \in okFrames : f[1] = c => f[2] <= frames[c]

\* The Mac refuses a number of a session only after sends of the phone have
\* overlapped, or one of them failed, or what it had sent was lost: with one
\* message at a time the two counters agree, over any number of connections.
UndisturbedIsNeverRefused == refused \subseteq disturbed

\* src/docs/technical-architecture.md:209: "`seq` must be strictly increasing
\* per direction."  The counter is read before the await and written after it.
SeqStrictlyIncreases ==
    \A m1, m2 \in sent : m1.ses = m2.ses /\ m1.id < m2.id => m1.seq < m2.seq

\* src/docs/technical-architecture.md:315: "Recording stop triggers final text
\* assembly and Ollama cleanup."  A stop is reported as done (stopRecording) only
\* if the recording was recognised.
OkMeansRecognised == acked \subseteq finished
=============================================================================
