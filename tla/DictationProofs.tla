---------------------------- MODULE DictationProofs ----------------------------
(***************************************************************************)
(* Proofs about Dictation, for any number of connections, any limit on the *)
(* traces that are kept and any limit on the messages that are buffered.   *)
(***************************************************************************)
EXTENDS Dictation, TLAPS

\* A handler that is not over has answered and inserted nothing, and until the
\* recognizer is done there is no text.
StageInv ==
    \A c \in Conns :
        /\ pc[c] # "over" => answer[c] = "none" /\ insertion[c] = "none"
        /\ pc[c] \notin {"answering", "over"} => text[c] = "none"

\* The trace is completed before the phone is told; it may have made room.
AnsweringInv ==
    \A c \in DOMAIN index : pc[c] = "answering" => c \in completed

\* The inductive invariant.
IInv == /\ TypeOK /\ StageInv /\ AnsweringInv
        /\ QueuedWhenAnswered /\ TraceIndexExact /\ OverIsCompleted /\ RegisteredIsServed

-----------------------------------------------------------------------------
(* The list of traces and its index.                                       *)

LEMMA KeptList ==
    ASSUME NEW ts \in Seq(Conns), Len(ts) <= TraceLimit, NEW c \in Conns
    PROVE  LET new == Kept(<<c>> \o ts)
           IN  /\ new \in Seq(Conns) /\ Len(new) <= TraceLimit
               /\ c \in ToSet(new) /\ ToSet(new) \subseteq {c} \union ToSet(ts)
<1>. USE DictationAssumption
<1>. DEFINE all == <<c>> \o ts
            new == Kept(all)
<1>1. /\ all \in Seq(Conns) /\ Len(all) = Len(ts) + 1
      /\ all[1] = c /\ \A i \in 2..Len(all) : all[i] = ts[i - 1]
  OBVIOUS
<1>. HIDE DEF all
<1>2. /\ new \in Seq(Conns) /\ Len(new) <= TraceLimit /\ Len(new) \in 1..Len(all)
      /\ \A i \in 1..Len(new) : new[i] = all[i]
  BY <1>1 DEF Kept
<1>3. \A s \in Seq(Conns) : ToSet(s) = {s[i] : i \in 1..Len(s)}
  BY DEF ToSet
<1>. HIDE DEF new
<1>4. c \in ToSet(new)
  BY <1>1, <1>2, <1>3
<1>5. ToSet(new) \subseteq {c} \union ToSet(ts)
  BY <1>1, <1>2, <1>3, SMTT(30)
<1>. QED
  BY <1>2, <1>4, <1>5 DEF new, all

\* Every trace is under its own name at its own place.
LEMMA IndexOfList ==
    ASSUME NEW ts \in Seq(Conns), Len(ts) <= TraceLimit
    PROVE  /\ DOMAIN Reindexed(ts) = ToSet(ts)
           /\ \A c \in ToSet(ts) :
                 /\ c \in Conns
                 /\ Reindexed(ts)[c] \in DOMAIN ts
                 /\ Reindexed(ts)[c] \in 1..TraceLimit
                 /\ ts[Reindexed(ts)[c]] = c
<1>1. DOMAIN ts = 1..Len(ts) /\ \A i \in DOMAIN ts : ts[i] \in Conns
  OBVIOUS
<1>2. \A c \in ToSet(ts) : \E i \in DOMAIN ts : ts[i] = c
  BY DEF ToSet
<1>. QED
  BY <1>1, <1>2, DictationAssumption DEF Reindexed

\* LatencyRecorder.Start: the new trace is there, an old one may be gone.
LEMMA StartTraced ==
    ASSUME TypeOK, NEW c \in Conns, StartTrace(c)
    PROVE  /\ traces' \in Seq(Conns) /\ Len(traces') <= TraceLimit
           /\ \A d \in DOMAIN index' : d \in Conns /\ index'[d] \in 1..TraceLimit
           /\ completed' \subseteq Conns
           /\ TraceIndexExact'
           /\ DOMAIN index' \subseteq {c} \union ToSet(traces)
           /\ completed' = completed \intersect DOMAIN index'
<1>1. /\ traces' \in Seq(Conns) /\ Len(traces') <= TraceLimit
      /\ ToSet(traces') \subseteq {c} \union ToSet(traces)
  BY KeptList DEF TypeOK, StartTrace
<1>2. /\ DOMAIN index' = ToSet(traces')
      /\ \A d \in ToSet(traces') :
            /\ d \in Conns /\ index'[d] \in DOMAIN traces'
            /\ index'[d] \in 1..TraceLimit /\ traces'[index'[d]] = d
  BY <1>1, IndexOfList DEF StartTrace
<1>3. completed' = completed \intersect ToSet(traces')
  BY DEF StartTrace
<1>. QED
  BY <1>1, <1>2, <1>3 DEF TraceIndexExact, TypeOK

\* LatencyRecorder.Update reaches the handler's own trace, or none.
LEMMA CompletedOwn ==
    ASSUME TraceIndexExact, NEW c, Complete(c)
    PROVE  /\ UNCHANGED <<traces, index>>
           /\ completed' = IF c \in DOMAIN index THEN completed \union {c} ELSE completed
BY DEF TraceIndexExact, Complete, Completed

-----------------------------------------------------------------------------
LEMMA InitIInv == Init => IInv
<1>. SUFFICES ASSUME Init PROVE IInv
  OBVIOUS
<1>. USE DictationAssumption DEF Init
<1>1. traces \in Seq(Conns) /\ Len(traces) = 0 /\ DOMAIN traces = {} /\ DOMAIN index = {}
  OBVIOUS
<1>2. TypeOK
  BY <1>1 DEF TypeOK, Running
<1>3. StageInv /\ AnsweringInv /\ QueuedWhenAnswered /\ OverIsCompleted /\ RegisteredIsServed
  BY <1>1 DEF StageInv, AnsweringInv, QueuedWhenAnswered, OverIsCompleted, RegisteredIsServed
<1>4. TraceIndexExact
  BY <1>1 DEF TraceIndexExact, ToSet
<1>. QED
  BY <1>2, <1>3, <1>4 DEF IInv

\* Steps that leave every handler where it is, and the traces.
LEMMA HandlersUntouched ==
    ASSUME IInv, TypeOK', RegisteredIsServed', UNCHANGED <<handlerVars, traceVars>>,
           \A c \in Conns : insertion'[c] = "none" <=> insertion[c] = "none"
    PROVE  IInv'
<1>. USE DEF IInv, handlerVars, traceVars
<1>1. StageInv' /\ AnsweringInv' /\ QueuedWhenAnswered'
  BY DEF StageInv, AnsweringInv, QueuedWhenAnswered
<1>2. TraceIndexExact' /\ OverIsCompleted'
  BY DEF TraceIndexExact, OverIsCompleted
<1>. QED
  BY <1>1, <1>2

LEMMA AroundKeeps ==
    ASSUME IInv,
           \/ SessionStarts \/ StopServing \/ Sweep \/ Exit
           \/ \E c \in Conns : Insert(c) \/ DeadlinePasses(c) \/ CloseVictim(c)
    PROVE  IInv'
<1>. USE DEF SessionStarts, StopServing, Sweep, Exit, Insert, DeadlinePasses, CloseVictim,
             connVars, handlerVars, traceVars
<1>1. TypeOK'
  <2>1. /\ insertion' \in [Conns -> {"none", "queued", "done", "failed"}]
        /\ app' \in {"serving", "stopping", "sweeping", "exited"}
    BY SMTT(30) DEF IInv, TypeOK
  <2>2. /\ registered' \subseteq Conns /\ victims' \subseteq Conns
        /\ open' \subseteq Conns /\ expired' \subseteq Conns
    BY DEF IInv, TypeOK
  <2>3. session' \in BOOLEAN
    <3>1. session \in BOOLEAN /\ (session' = TRUE \/ session' = session)
      BY DEF IInv, TypeOK
    <3>. QED
      BY <3>1, Zenon
  <2>. QED
    BY <2>1, <2>2, <2>3 DEF IInv, TypeOK
<1>2. RegisteredIsServed'
  BY DEF IInv, RegisteredIsServed
<1>3. \A c \in Conns : insertion'[c] = "none" <=> insertion[c] = "none"
  BY DEF IInv, TypeOK
<1>. QED
  BY <1>1, <1>2, <1>3, HandlersUntouched

\* A handler begins: it has no trace yet.
LEMMA HijackKeeps == ASSUME IInv, NEW c \in Conns, Hijack(c) PROVE IInv'
<1>. USE DEF IInv, Hijack, At, Goto, traceVars
<1>1. TypeOK'
  BY DEF TypeOK, Running
<1>2. pc[c] = "idle" /\ pc'[c] = "hijacked" /\ \A d \in Conns : d # c => pc'[d] = pc[d]
  BY DEF TypeOK
<1>3. StageInv'
  BY <1>2 DEF StageInv
<1>4. AnsweringInv' /\ OverIsCompleted'
  BY <1>2 DEF AnsweringInv, OverIsCompleted, TypeOK
<1>5. QueuedWhenAnswered' /\ TraceIndexExact'
  BY <1>2 DEF QueuedWhenAnswered, TraceIndexExact
<1>6. RegisteredIsServed'
  BY <1>2 DEF RegisteredIsServed, Running, Reading, TypeOK
<1>. QED
  BY <1>1, <1>3, <1>4, <1>5, <1>6

\* Registering the connection and starting the trace.
LEMMA RegisterKeeps == ASSUME IInv, NEW c \in Conns, Register(c) PROVE IInv'
<1>. USE DEF IInv, Register, At, Goto
<1>1. /\ pc[c] = "hijacked" /\ pc'[c] = "first"
      /\ \A d \in Conns : d # c => pc'[d] = pc[d]
  BY DEF TypeOK
<1>2. TypeOK'
  BY StartTraced DEF TypeOK, Running, Reading
<1>3. StageInv'
  BY <1>1 DEF StageInv
<1>4. TraceIndexExact'
  BY StartTraced
<1>5. \A d \in DOMAIN index' :
         /\ d \in Conns
         /\ d # c => d \in DOMAIN index /\ (d \in completed' <=> d \in completed)
  BY <1>2, StartTraced DEF TraceIndexExact, TypeOK
<1>6. AnsweringInv' /\ OverIsCompleted'
  BY <1>1, <1>5 DEF AnsweringInv, OverIsCompleted
<1>7. QueuedWhenAnswered'
  BY <1>1 DEF QueuedWhenAnswered
<1>8. RegisteredIsServed'
  BY <1>1 DEF RegisteredIsServed, Running, Reading
<1>. QED
  BY <1>2, <1>3, <1>4, <1>6, <1>7, <1>8

\* A running handler takes its next message, or turns to another kind of work;
\* the phone is told nothing yet.
LEMMA MovesKeep ==
    ASSUME IInv, TypeOK', NEW c \in Conns, NEW s \in Running \ {"hijacked", "answering"},
           pc[c] \in Running \ {"hijacked", "answering"}, Goto(c, s),
           UNCHANGED <<app, connVars, text, answer, insertion, traceVars>>,
           \A d \in Conns : d # c => path'[d] = path[d]
    PROVE  IInv'
<1>. USE DEF IInv, Goto, connVars, traceVars
<1>1. /\ pc'[c] = s /\ \A d \in Conns : d # c => pc'[d] = pc[d]
      /\ s \notin {"over", "answering"}
      /\ pc[c] \notin {"over", "answering"}
  BY DEF TypeOK, Running, Reading
<1>2. StageInv'
  BY <1>1 DEF StageInv
<1>3. AnsweringInv' /\ OverIsCompleted'
  BY <1>1 DEF AnsweringInv, OverIsCompleted, TypeOK
<1>4. QueuedWhenAnswered'
  BY <1>1 DEF QueuedWhenAnswered, StageInv, Spoken
<1>5. TraceIndexExact' /\ RegisteredIsServed'
  BY <1>1 DEF TraceIndexExact, RegisteredIsServed
<1>. QED
  BY <1>2, <1>3, <1>4, <1>5

LEMMA ReadingKeeps ==
    ASSUME IInv, NEW c \in Conns,
           \/ FirstIsKeyPress(c) \/ FirstIsStreamed(c) \/ FirstIsBuffered(c)
           \/ (Buffer(c) /\ buffered[c] < BufferLimit)
           \/ StreamIsKeyPress(c) \/ Stop(c)
    PROVE  IInv'
<1>. USE DEF FirstIsKeyPress, FirstIsStreamed, FirstIsBuffered, Buffer,
             StreamIsKeyPress, Stop, Take, At
<1>1. PICK s \in {"key", "streaming", "buffering", "finishing"} : pc' = [pc EXCEPT ![c] = s]
  <2>1. CASE Buffer(c) /\ buffered[c] < BufferLimit
    <3>1. pc' = [pc EXCEPT ![c] = "buffering"]
      BY <2>1 DEF IInv, TypeOK
    <3>. QED
      BY <3>1
  <2>2. CASE \/ FirstIsKeyPress(c) \/ FirstIsStreamed(c) \/ FirstIsBuffered(c)
             \/ StreamIsKeyPress(c) \/ Stop(c)
    BY <2>2 DEF Goto
  <2>. QED
    BY <2>1, <2>2
<1>2. /\ UNCHANGED <<session, pipeline, app, connVars, text, answer, insertion, traceVars>>
      /\ pc[c] \in {"first", "streaming", "buffering"}
      /\ path' = path \/ \E k \in {"streaming", "buffering", "key"} : path' = [path EXCEPT ![c] = k]
      /\ \/ buffered' = buffered
         \/ buffered' = [buffered EXCEPT ![c] = 1]
         \/ buffered[c] < BufferLimit /\ buffered' = [buffered EXCEPT ![c] = @ + 1]
  OBVIOUS
<1>3. s \in Running \ {"hijacked", "answering"} /\ pc[c] \in Running \ {"hijacked", "answering"}
  BY <1>2 DEF Running, Reading
<1>. HIDE DEF FirstIsKeyPress, FirstIsStreamed, FirstIsBuffered, Buffer,
              StreamIsKeyPress, Stop, Take, At
<1>4. pc' \in [Conns -> Running \union {"idle", "over"}]
  BY <1>1, <1>3 DEF IInv, TypeOK
<1>5. /\ path' \in [Conns -> {"none", "streaming", "buffering", "key"}]
      /\ \A d \in Conns : d # c => path'[d] = path[d]
  <2>1. path \in [Conns -> {"none", "streaming", "buffering", "key"}]
    BY DEF IInv, TypeOK
  <2>. QED
    BY <1>2, <2>1
<1>6. buffered' \in [Conns -> 0..BufferLimit]
  <2>1. buffered \in [Conns -> 0..BufferLimit] /\ BufferLimit \in Nat \ {0}
    BY DictationAssumption DEF IInv, TypeOK
  <2>2. 1 \in 0..BufferLimit /\ (buffered[c] < BufferLimit => buffered[c] + 1 \in 0..BufferLimit)
    BY <2>1
  <2>. QED
    BY <1>2, <2>1, <2>2
<1>7. TypeOK'
  BY <1>2, <1>4, <1>5, <1>6 DEF IInv, TypeOK, connVars, traceVars
<1>. QED
  BY <1>1, <1>2, <1>3, <1>5, <1>7, MovesKeep DEF Goto

-----------------------------------------------------------------------------
(* A handler ends.                                                         *)

LEMMA ReturnTyped ==
    ASSUME TypeOK, NEW c \in Conns,
           NEW a \in {"none", "ok", "unclosed", "failed", "error"}, Return(c, a),
           UNCHANGED <<path, text>>,
           insertion' \in [Conns -> {"none", "queued", "done", "failed"}],
           UNCHANGED <<traces, index>>, completed' \subseteq Conns
    PROVE  TypeOK'
<1>. USE DEF TypeOK, Return, Goto
<1>1. /\ pc' \in [Conns -> Running \union {"idle", "over"}]
      /\ answer' \in [Conns -> {"none", "ok", "unclosed", "failed", "error"}]
      /\ buffered' \in [Conns -> 0..BufferLimit]
  BY DictationAssumption
<1>2. registered' \subseteq Conns /\ open' \subseteq Conns /\ expired' \subseteq Conns
  BY DEF Unregistered
<1>. QED
  BY <1>1, <1>2

LEMMA ReturnMoves ==
    ASSUME TypeOK, NEW c \in Conns, NEW a, Return(c, a)
    PROVE  /\ pc'[c] = "over" /\ answer'[c] = a
           /\ \A d \in Conns : d # c => pc'[d] = pc[d] /\ answer'[d] = answer[d]
BY DEF TypeOK, Return, Goto

LEMMA ReturnUnregisters ==
    ASSUME IInv, NEW c \in Conns, NEW a, Return(c, a)
    PROVE  RegisteredIsServed'
<1>1. \A d \in Conns : d # c => pc'[d] = pc[d]
  BY ReturnMoves DEF IInv
<1>. QED
  BY <1>1 DEF IInv, TypeOK, RegisteredIsServed, Return, Unregistered

\* Without a text: an error, the phone's close, or a key press.  The trace is
\* completed, but for a key press whose answer cannot be written.
LEMMA EndKeeps ==
    ASSUME IInv, NEW c \in Conns, pc[c] \in Running \ {"answering"},
           NEW a \in {"none", "ok", "unclosed", "failed", "error"}, Return(c, a),
           UNCHANGED <<path, text, insertion>>,
           \/ Complete(c)
           \/ a \in {"failed", "unclosed"} /\ UNCHANGED traceVars
    PROVE  IInv'
<1>. USE DEF IInv
<1>1. /\ text[c] = "none" /\ insertion[c] = "none"
      /\ pc[c] \notin {"over", "answering"}
  BY DEF StageInv, Running, Reading
<1>2. /\ pc'[c] = "over" /\ answer'[c] = a
      /\ \A d \in Conns : d # c => pc'[d] = pc[d] /\ answer'[d] = answer[d]
  BY ReturnMoves
<1>3. /\ UNCHANGED <<traces, index>> /\ completed \subseteq completed'
      /\ completed' \subseteq completed \union {c}
      /\ c \in DOMAIN index => c \in completed' \/ a \in {"failed", "unclosed"}
  BY CompletedOwn DEF traceVars
<1>4. TypeOK'
  <2>1. completed' \subseteq Conns /\ insertion' \in [Conns -> {"none", "queued", "done", "failed"}]
    BY <1>3 DEF TypeOK
  <2>. QED
    BY <1>3, <2>1, ReturnTyped
<1>5. StageInv'
  BY <1>1, <1>2 DEF StageInv
<1>6. AnsweringInv' /\ OverIsCompleted'
  BY <1>1, <1>2, <1>3 DEF AnsweringInv, OverIsCompleted, TypeOK
<1>7. QueuedWhenAnswered'
  BY <1>1, <1>2 DEF QueuedWhenAnswered, Spoken
<1>8. TraceIndexExact'
  BY <1>3 DEF TraceIndexExact
<1>. QED
  BY <1>4, <1>5, <1>6, <1>7, <1>8, ReturnUnregisters

LEMMA EndingsKeep ==
    ASSUME IInv, NEW c \in Conns,
           \/ ReadFails(c) \/ PhoneCloses(c) \/ KeyPressRefused(c)
           \/ (Buffer(c) /\ ~(buffered[c] < BufferLimit))
           \/ RecognitionFails(c) \/ KeyPressed(c) \/ KeyPressFails(c) \/ KeyAnswerFails(c)
    PROVE  IInv'
<1>1. /\ pc[c] \in Running \ {"answering"} /\ UNCHANGED <<path, text, insertion>>
      /\ \E a \in {"none", "ok", "unclosed", "failed", "error"} :
            /\ Return(c, a)
            /\ \/ Complete(c)
               \/ a \in {"failed", "unclosed"} /\ UNCHANGED traceVars
  BY DEF ReadFails, PhoneCloses, KeyPressRefused, Buffer, RecognitionFails, KeyPressed,
         KeyPressFails, KeyAnswerFails, ReturnError, At, Running, Reading
<1>. QED
  BY <1>1, EndKeeps

-----------------------------------------------------------------------------
(* The text and the answer.                                                *)

LEMMA TextKeeps ==
    ASSUME IInv, NEW c \in Conns, Recognise(c) \/ CleanUp(c)
    PROVE  IInv'
<1>. USE DEF IInv
<1>1. CASE Recognise(c) /\ Goto(c, "cleaning") /\ UNCHANGED <<text, traceVars>>
  <2>1. /\ UNCHANGED <<session, pipeline, app, connVars, buffered, path, answer, insertion>>
        /\ pc[c] = "finishing"
    BY <1>1 DEF Recognise, At
  <2>2. TypeOK'
    BY <1>1, <2>1 DEF TypeOK, Goto, Running, connVars, traceVars
  <2>. QED
    BY <1>1, <2>1, <2>2, MovesKeep DEF Running
<1>2. CASE /\ Goto(c, "answering") /\ Complete(c)
           /\ \E t \in Spoken \union {"empty"} : text' = [text EXCEPT ![c] = t]
  <2>. PICK t \in Spoken \union {"empty"} : text' = [text EXCEPT ![c] = t]
    BY <1>2
  <2>1. /\ UNCHANGED <<session, pipeline, app, connVars, buffered, path, answer, insertion>>
        /\ pc[c] \in {"finishing", "cleaning"}
    BY DEF Recognise, CleanUp, At
  <2>2. /\ UNCHANGED <<traces, index>> /\ completed \subseteq completed'
        /\ completed' \subseteq completed \union {c}
        /\ c \in DOMAIN index => c \in completed'
    BY <1>2, CompletedOwn
  <2>3. /\ pc'[c] = "answering" /\ text'[c] = t
        /\ \A d \in Conns : d # c => pc'[d] = pc[d] /\ text'[d] = text[d]
    BY <1>2 DEF TypeOK, Goto
  <2>4. TypeOK'
    <3>1. pc' \in [Conns -> Running \union {"idle", "over"}] /\ text' \in [Conns -> Spoken \union {"none", "empty"}]
      BY <1>2 DEF TypeOK, Goto, Running
    <3>. QED
      BY <2>1, <2>2, <3>1 DEF TypeOK, connVars
  <2>5. StageInv'
    BY <2>1, <2>3 DEF StageInv
  <2>6. AnsweringInv' /\ OverIsCompleted'
    BY <2>1, <2>2, <2>3 DEF AnsweringInv, OverIsCompleted, TypeOK
  <2>7. QueuedWhenAnswered'
    BY <2>1, <2>3 DEF QueuedWhenAnswered
  <2>8. TraceIndexExact'
    BY <2>2 DEF TraceIndexExact
  <2>9. RegisteredIsServed'
    BY <2>1, <2>3 DEF RegisteredIsServed, connVars, Running, TypeOK
  <2>. QED
    BY <2>4, <2>5, <2>6, <2>7, <2>8, <2>9
<1>. QED
  BY <1>1, <1>2 DEF Recognise, CleanUp, FallsBack, Spoken

\* The trace has been completed; what is inserted depends on what was written.
LEMMA AnswerKeeps ==
    ASSUME IInv, NEW c \in Conns, AnswerOK(c) \/ AnswerFails(c)
    PROVE  IInv'
<1>. USE DEF IInv
<1>. PICK a \in {"ok", "unclosed", "failed"} :
        /\ Return(c, a)
        /\ Queue(c) \/ (a # "ok" /\ UNCHANGED insertion)
        /\ path[c] = "streaming" /\ a # "ok" => UNCHANGED insertion
  BY DEF AnswerOK, AnswerFails, GoesOn
<1>1. pc[c] = "answering" /\ UNCHANGED <<path, text, traceVars>>
  BY DEF AnswerOK, AnswerFails, At
<1>2. /\ pc'[c] = "over" /\ answer'[c] = a
      /\ \A d \in Conns : d # c => pc'[d] = pc[d] /\ answer'[d] = answer[d]
  BY ReturnMoves
<1>3. /\ insertion[c] = "none"
      /\ insertion' \in [Conns -> {"none", "queued", "done", "failed"}]
      /\ \A d \in Conns : d # c => insertion'[d] = insertion[d]
      /\ insertion'[c] # "none" => text[c] \in Spoken /\ (path[c] = "streaming" => a = "ok")
      /\ a = "ok" /\ text[c] \in Spoken => insertion'[c] # "none"
  BY <1>1 DEF StageInv, TypeOK, Queue, NoBlank
<1>4. TypeOK'
  <2>1. UNCHANGED <<path, text, traces, index, completed>>
    BY <1>1 DEF traceVars
  <2>2. completed' \subseteq Conns
    BY <2>1 DEF TypeOK
  <2>. QED
    BY <1>3, <2>1, <2>2, ReturnTyped
<1>5. StageInv'
  BY <1>1, <1>2, <1>3 DEF StageInv
<1>6. AnsweringInv' /\ OverIsCompleted' /\ TraceIndexExact'
  BY <1>1, <1>2 DEF AnsweringInv, OverIsCompleted, TraceIndexExact, TypeOK, traceVars
<1>7. QueuedWhenAnswered'
  BY <1>1, <1>2, <1>3 DEF QueuedWhenAnswered
<1>. QED
  BY <1>4, <1>5, <1>6, <1>7, ReturnUnregisters

LEMMA NextIInv == IInv /\ [Next]_vars => IInv'
<1>. SUFFICES ASSUME IInv, [Next]_vars PROVE IInv'
  OBVIOUS
<1>1. CASE \E c \in Conns : Handler(c)
  <2>. PICK c \in Conns : Handler(c)
    BY <1>1
  <2>1. CASE Hijack(c) \/ Register(c)
    BY <2>1, HijackKeeps, RegisterKeeps
  <2>2. CASE \/ FirstIsKeyPress(c) \/ FirstIsStreamed(c) \/ FirstIsBuffered(c)
             \/ StreamIsKeyPress(c) \/ Stop(c)
    BY <2>2, ReadingKeeps
  <2>3. CASE Buffer(c)
    BY <2>3, ReadingKeeps, EndingsKeep
  <2>4. CASE \/ ReadFails(c) \/ PhoneCloses(c) \/ KeyPressRefused(c) \/ RecognitionFails(c)
             \/ KeyPressed(c) \/ KeyPressFails(c) \/ KeyAnswerFails(c)
    BY <2>4, EndingsKeep
  <2>5. CASE Recognise(c) \/ CleanUp(c) \/ AnswerOK(c) \/ AnswerFails(c)
    BY <2>5, TextKeeps, AnswerKeeps
  <2>. QED
    BY <2>1, <2>2, <2>3, <2>4, <2>5 DEF Handler
<1>2. CASE \/ SessionStarts \/ StopServing \/ Sweep \/ Exit
           \/ \E c \in Conns : Insert(c) \/ DeadlinePasses(c) \/ CloseVictim(c)
  BY <1>2, AroundKeeps
<1>3. CASE UNCHANGED vars
  <2>. USE <1>3 DEF vars, connVars, handlerVars, traceVars
  <2>1. TypeOK' /\ RegisteredIsServed'
    BY DEF IInv, TypeOK, RegisteredIsServed
  <2>. QED
    BY <2>1, HandlersUntouched
<1>. QED
  BY <1>1, <1>2, <1>3 DEF Next

\* The inductive invariant holds in every reachable state.
THEOREM Invariant == Spec => []IInv
BY InitIInv, NextIInv, PTL DEF Spec

-----------------------------------------------------------------------------
\* The variables have their types; in particular the recorder keeps no more than
\* its limit of traces and a handler no more than its limit of messages.
THEOREM TypeOKHolds == Spec => []TypeOK
BY Invariant, PTL DEF IInv

\* What the phone was told completely is inserted, and a streamed text is not
\* inserted before (handleIOSAudioStream, queueIOSFinalTextInsertion).
THEOREM QueuedWhenAnsweredHolds == Spec => []QueuedWhenAnswered
BY Invariant, PTL DEF IInv

\* However many handlers start a trace and whatever the limit, the index of the
\* recorder leads each to its own trace (LatencyRecorder.Start and Update).
THEOREM TraceIndexExactHolds == Spec => []TraceIndexExact
BY Invariant, PTL DEF IInv

\* The trace of a handler that is over is completed, whichever way it ended, but
\* for a key press whose answer was lost (handleIOSAudioStream).
THEOREM OverIsCompletedHolds == Spec => []OverIsCompleted
BY Invariant, PTL DEF IInv

\* closeIOSAudioConns finds every open connection of the running service, and
\* none of a handler that is over (a.iosAudioConns).
THEOREM RegisteredIsServedHolds == Spec => []RegisteredIsServed
BY Invariant, PTL DEF IInv
================================================================================
