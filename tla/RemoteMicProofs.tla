---------------------------- MODULE RemoteMicProofs ----------------------------
(***************************************************************************)
(* Proofs about RemoteMic, for any number of presses, chunks and drain     *)
(* tasks.                                                                  *)
(***************************************************************************)
EXTENDS RemoteMic, TLAPS

\* No recording has more chunks than the tap has delivered, and no more tasks
\* than that are to come.
CountInv ==
    /\ \A p \in Presses : captured[p] <= taken
    /\ notes <= taken

TypeInv == TypeOK /\ CountInv

USE RemoteMicAssumption DEF Busy, FirstRound, SecondRound

-----------------------------------------------------------------------------
(* Types.                                                                  *)

LEMMA InitTypes == Init => TypeInv
<1>. SUFFICES ASSUME Init PROVE TypeInv
  OBVIOUS
<1>1. /\ pending \in Seq(Chunks) /\ chunks \in [Workers -> Seq(Chunks)]
      /\ wire \in [Presses -> Seq(Frames)]
  BY DEF Init
<1>2. /\ presses \in 0..MaxPresses /\ notes \in 0..MaxChunks /\ taken \in 0..MaxChunks
      /\ captured \in [Presses -> 0..MaxChunks] /\ lastAudio \in Nat
  BY DEF Init
<1>3. frame \in [Workers -> {NoFrame} \union Calling \union Sent]
  BY DEF Init
<1>4. /\ start \in [Presses -> {"none", "calling", "sending", "over"}]
      /\ stop \in [Presses -> FirstRound \union SecondRound \union {"calling", "receiving", "over"}]
      /\ drain \in [Drains -> {"none", "spawned", "sending", "over"}]
      /\ awaited \in [Presses -> Drains \union {0}]
      /\ stopped \in [Presses -> Int]
  BY DEF Init
<1>5. TypeOK
  BY <1>1, <1>2, <1>3, <1>4 DEF Init, TypeOK
<1>6. CountInv
  BY DEF Init, CountInv, Presses
<1>. QED
  BY <1>5, <1>6 DEF TypeInv

\* What is taken off the front of a sequence, and what is left.
LEMMA HeadTail ==
    ASSUME NEW S, NEW q \in Seq(S), q # <<>>
    PROVE  /\ Head(q) \in S /\ Tail(q) \in Seq(S) /\ Head(q) = q[1]
           /\ Len(q) \in Nat \ {0} /\ Len(Tail(q)) = Len(q) - 1
           /\ \A i \in 1..Len(Tail(q)) : Tail(q)[i] = q[i + 1]
OBVIOUS

LEMMA RestTyped ==
    ASSUME TypeOK, NEW w \in Workers
    PROVE  Rest(w) \in Seq(Chunks)
BY DEF TypeOK, Rest

LEMMA SendsTyped ==
    ASSUME TypeOK, NEW w \in Workers, NEW s, NEW last \in Nat, Sends(w, s, last)
    PROVE  /\ chunks' \in [Workers -> Seq(Chunks)] /\ pending' \in Seq(Chunks)
           /\ frame' \in [Workers -> {NoFrame} \union Calling \union Sent]
<1>1. Rest(w) \in Seq(Chunks) /\ Rest(w) # <<>>
  BY RestTyped DEF Sends
<1>2. Head(Rest(w)) \in Chunks /\ Tail(Rest(w)) \in Seq(Chunks)
  BY <1>1, HeadTail
<1>3. chunks' \in [Workers -> Seq(Chunks)]
  BY <1>2 DEF Sends, TypeOK
<1>4. pending' \in Seq(Chunks)
  BY DEF Sends, TypeOK
<1>. DEFINE f == [at |-> "calling", msg |-> [chunk |-> Head(Rest(w)), seq |-> NextSeq(last)]]
<1>5. f \in Calling
  BY <1>2 DEF Calling, Frames, NextSeq
<1>6. frame' = [frame EXCEPT ![w] = f]
  BY DEF Sends
<1>. HIDE DEF f
<1>7. frame' \in [Workers -> {NoFrame} \union Calling \union Sent]
  BY <1>5, <1>6 DEF TypeOK
<1>. QED
  BY <1>3, <1>4, <1>7

LEMMA EndsTyped ==
    ASSUME TypeOK, NEW w \in Workers, NEW s, EndsWork(w, s)
    PROVE  /\ chunks' \in [Workers -> Seq(Chunks)] /\ pending' \in Seq(Chunks)
           /\ frame' \in [Workers -> {NoFrame} \union Calling \union Sent]
BY DEF EndsWork, TypeOK

LEMMA WorkersAre ==
    /\ \A d \in Drains : <<"drain", d>> \in Workers
    /\ \A p \in Presses : <<"stop", p>> \in Workers
    /\ \A w \in Workers : \/ w[1] = "drain" /\ w[2] \in Drains /\ w = <<"drain", w[2]>>
                          \/ w[1] = "stop" /\ w[2] \in Presses /\ w = <<"stop", w[2]>>
BY DEF Workers

LEMMA DrainTyped ==
    ASSUME TypeOK, NEW d \in Drains, NEW last \in Nat, DrainWorks(d, last)
    PROVE  /\ chunks' \in [Workers -> Seq(Chunks)] /\ pending' \in Seq(Chunks)
           /\ frame' \in [Workers -> {NoFrame} \union Calling \union Sent]
           /\ drain' \in [Drains -> {"none", "spawned", "sending", "over"}]
           /\ drainTask' \in Drains \union {0}
<1>. DEFINE w == <<"drain", d>>
<1>1. w \in Workers
  BY WorkersAre
<1>2. CASE Sends(w, recordingState, last) /\ drain' = [drain EXCEPT ![d] = "sending"] /\ UNCHANGED drainTask
  BY <1>1, <1>2, SendsTyped DEF TypeOK
<1>3. CASE EndsWork(w, recordingState) /\ EndDrain(d)
  BY <1>1, <1>3, EndsTyped DEF TypeOK, EndDrain
<1>. QED
  BY <1>2, <1>3 DEF DrainWorks

LEMMA StopTyped ==
    ASSUME TypeOK, NEW p \in Presses, NEW s, NEW last \in Nat, StopWorks(p, s, last)
    PROVE  /\ chunks' \in [Workers -> Seq(Chunks)] /\ pending' \in Seq(Chunks)
           /\ frame' \in [Workers -> {NoFrame} \union Calling \union Sent]
           /\ stop' \in [Presses -> FirstRound \union SecondRound
                                      \union {"calling", "receiving", "over"}]
<1>. DEFINE w == <<"stop", p>>
<1>1. w \in Workers
  BY WorkersAre
<1>2. CASE /\ Sends(w, s, last)
           /\ stop' = [stop EXCEPT ![p] = IF @ \in FirstRound THEN "sending" ELSE "resending"]
  BY <1>1, <1>2, SendsTyped DEF TypeOK
<1>3. CASE EndsWork(w, s) /\ stop' = [stop EXCEPT ![p] = AfterRound(p)]
  BY <1>1, <1>3, EndsTyped DEF TypeOK, AfterRound
<1>. QED
  BY <1>2, <1>3 DEF StopWorks

LEMMA AwaitsTyped ==
    ASSUME TypeOK, NEW p \in Presses, NEW s, Awaits(p, s)
    PROVE  /\ chunks' \in [Workers -> Seq(Chunks)] /\ pending' \in Seq(Chunks)
           /\ frame' \in [Workers -> {NoFrame} \union Calling \union Sent]
           /\ stop' \in [Presses -> FirstRound \union SecondRound
                                      \union {"calling", "receiving", "over"}]
           /\ awaited' \in [Presses -> Drains \union {0}]
<1>1. CASE /\ drainTask # 0
           /\ awaited' = [awaited EXCEPT ![p] = drainTask]
           /\ stop' = [stop EXCEPT ![p] = IF @ \in FirstRound THEN "waiting" ELSE "rewaiting"]
           /\ UNCHANGED workVars
  BY <1>1 DEF TypeOK, workVars
<1>2. CASE UNCHANGED awaited /\ StopWorks(p, s, lastAudio)
  BY <1>2, StopTyped DEF TypeOK
<1>. QED
  BY <1>1, <1>2 DEF Awaits

LEMMA ClosesTyped ==
    ASSUME TypeOK, NEW p \in Presses, ClosesMic(p)
    PROVE  /\ chunks' \in [Workers -> Seq(Chunks)] /\ pending' \in Seq(Chunks)
           /\ frame' \in [Workers -> {NoFrame} \union Calling \union Sent]
           /\ stop' \in [Presses -> FirstRound \union SecondRound
                                      \union {"calling", "receiving", "over"}]
           /\ awaited' \in [Presses -> Drains \union {0}]
           /\ mic' = 0 /\ shouldStop' \subseteq Presses
           /\ recordingState' \in Busy \union {"idle", "failed"}
<1>1. Awaits(p, recordingState')
  BY DEF ClosesMic
<1>. QED
  BY <1>1, AwaitsTyped DEF ClosesMic, MicClosed, TypeOK

\* The connection and the button.
LEMMA ShellTyped ==
    ASSUME TypeInv, Connect \/ Forget \/ Leave \/ Leaving \/ Press
    PROVE  TypeInv'
<1>1. TypeOK /\ CountInv
  BY DEF TypeInv
<1>2. paired' \in BOOLEAN /\ keys' \in BOOLEAN
  BY <1>1 DEF TypeOK, Connect, Forget, Leave, Leaving, CancelCalls, CancelReturns,
              Disconnected, Press, shellVars
<1>3. UNCHANGED <<notes, captured, taken, stopVars, drain, chunks, frame, wire, stopped, torn, late>>
  BY DEF Connect, Forget, Leave, Leaving, CancelCalls, CancelReturns, Press, micVars,
         tapVars, recordingVars, taskVars, drainVars, workVars, streamVars, startVars
<1>4. CountInv'
  BY <1>1, <1>3 DEF CountInv
<1>5. CASE Press
  <2>1. presses + 1 \in Presses
    BY <1>1, <1>5 DEF Press, TypeOK, Presses
  <2>2. pressing' \in BOOLEAN
    BY <1>5 DEF Press
  <2>3. presses' \in 0..MaxPresses
    BY <1>1, <1>5 DEF Press, TypeOK
  <2>4. start' \in [Presses -> {"none", "calling", "sending", "over"}]
    BY <1>1, <1>5 DEF Press, TypeOK
  <2>5. crossed' \subseteq Presses
    <3>1. 1..(presses + 1) \subseteq Presses
      BY <1>1, <1>5 DEF Press, TypeOK, Presses
    <3>. QED
      BY <1>1, <1>5, <3>1 DEF Press, TypeOK
  <2>6. /\ recordingState' = "recording" /\ lastAudio' = 0 /\ pending' = <<>> /\ drainTask' = 0
        /\ UNCHANGED <<leaving, mic, stream>>
    BY <1>5 DEF Press, shellVars, micVars, streamVars
  <2>7. pending' \in Seq(Chunks)
    BY <2>6
  <2>8. TypeOK'
    BY <1>1, <1>2, <1>3, <2>2, <2>3, <2>4, <2>5, <2>6, <2>7 DEF TypeOK, stopVars
  <2>. QED
    BY <1>4, <2>8 DEF TypeInv
<1>6. CASE Connect \/ Forget \/ Leave \/ Leaving
  <2>1. /\ UNCHANGED <<pressing, presses, start, crossed, drainTask, pending, lastAudio>>
        /\ leaving' \in {"none", "cancelling", "cancelled"}
        /\ mic' \in {mic, 0} /\ recordingState' \in {recordingState, "idle"}
        /\ stream' \in {stream, 0}
    BY <1>1, <1>6 DEF Connect, Forget, Leave, Leaving, CancelCalls, CancelReturns, TypeOK,
       buttonVars, micVars, recordingVars, startVars, taskVars, drainVars, workVars, streamVars
  <2>2. pressing' \in BOOLEAN
    BY <1>1, <2>1 DEF TypeOK
  <2>3. TypeOK'
    BY <1>1, <1>2, <1>3, <2>1, <2>2 DEF TypeOK, stopVars
  <2>. QED
    BY <1>4, <2>3 DEF TypeInv
<1>. QED
  BY <1>5, <1>6

\* startRecording.
LEMMA StartingTyped ==
    ASSUME TypeInv, NEW p \in Presses, Starting(p)
    PROVE  TypeInv'
<1>1. TypeOK /\ CountInv
  BY DEF TypeInv
<1>2. /\ UNCHANGED <<paired, keys, leaving, pressing, presses, notes, captured, taken,
                     lastAudio, crossed, wire, stopped, torn>>
      /\ UNCHANGED <<stop, shouldStop, awaited, drainTask, drain, chunks, frame, pending>>
      /\ start' \in [Presses -> {"none", "calling", "sending", "over"}]
      /\ mic' \in {mic, 0, p} /\ recordingState' \in {recordingState, "failed"}
      /\ stream' \in {stream, p} /\ late' \in {late, late \union {p}}
  BY <1>1 DEF Starting, StartCalls, StartReturns, StartThrows, Fail, TypeOK, shellVars,
     buttonVars, recordingVars, micVars, tapVars, taskVars, stopVars, drainVars, workVars,
     streamVars
<1>3. paired' \in BOOLEAN /\ keys' \in BOOLEAN /\ pressing' \in BOOLEAN
  BY <1>1, <1>2 DEF TypeOK
<1>4. TypeOK'
  BY <1>1, <1>2, <1>3 DEF TypeOK
<1>5. CountInv'
  BY <1>1, <1>2 DEF CountInv
<1>. QED
  BY <1>4, <1>5 DEF TypeInv

\* The tap, and the tasks it spawns.
LEMMA MicTyped ==
    ASSUME TypeInv, Capture \/ Notify \/ Diagnose
    PROVE  TypeInv'
<1>1. TypeOK /\ CountInv
  BY DEF TypeInv
<1>2. /\ UNCHANGED <<paired, keys, leaving, pressing, presses, start, crossed, late,
                     lastAudio, stop, shouldStop, awaited, chunks, frame,
                     stream, wire, stopped, torn>>
      /\ mic' \in {mic, 0} /\ recordingState' \in {recordingState, "failed"}
  BY DEF Capture, Notify, Diagnose, Fail, uiVars, shellVars, buttonVars, startVars,
     stopVars, taskVars, drainVars, workVars, streamVars
<1>3. paired' \in BOOLEAN /\ keys' \in BOOLEAN /\ pressing' \in BOOLEAN
  BY <1>1, <1>2 DEF TypeOK
<1>4. CASE Capture
  <2>1. /\ mic \in Presses /\ taken < MaxChunks /\ taken' = taken + 1 /\ notes' = notes + 1
        /\ captured' = [captured EXCEPT ![mic] = @ + 1]
        /\ UNCHANGED <<drainTask, drain>>
    BY <1>1, <1>4 DEF Capture, TypeOK, drainVars
  <2>2. /\ taken \in Nat /\ notes \in Nat /\ notes <= taken
        /\ \A p \in Presses : captured[p] \in Nat /\ captured[p] <= taken
    BY <1>1 DEF TypeOK, CountInv
  <2>3. taken' \in 0..MaxChunks /\ notes' \in 0..MaxChunks /\ notes' <= taken'
    BY <2>1, <2>2
  <2>4. captured' \in [Presses -> 0..MaxChunks] /\ \A p \in Presses : captured'[p] <= taken'
    BY <1>1, <2>1, <2>2 DEF TypeOK
  <2>5. pending' \in Seq(Chunks)
    <3>1. captured[mic] + 1 \in 1..MaxChunks
      BY <2>1, <2>2
    <3>2. NewChunk \in Chunks
      BY <2>1, <3>1 DEF NewChunk, Chunks
    <3>. QED
      BY <1>1, <1>4, <3>2 DEF Capture, TypeOK
  <2>6. TypeOK'
    BY <1>1, <1>2, <1>3, <2>1, <2>3, <2>4, <2>5 DEF TypeOK
  <2>. QED
    BY <2>3, <2>4, <2>6 DEF TypeInv, CountInv
<1>5. CASE Notify
  <2>1. /\ notes > 0 /\ notes' = notes - 1
        /\ UNCHANGED <<captured, taken, pending>>
        /\ drainTask' \in Drains \union {0}
        /\ drain' \in [Drains -> {"none", "spawned", "sending", "over"}]
    BY <1>1, <1>5 DEF Notify, TypeOK, drainVars, workVars
  <2>2. notes' \in 0..MaxChunks /\ notes' <= taken
    BY <1>1, <2>1 DEF TypeOK, CountInv
  <2>3. TypeOK'
    BY <1>1, <1>2, <1>3, <2>1, <2>2 DEF TypeOK
  <2>. QED
    BY <1>1, <2>1, <2>2, <2>3 DEF TypeInv, CountInv
<1>6. CASE Diagnose
  <2>1. UNCHANGED <<notes, captured, taken, pending, drainTask, drain>>
    BY <1>6 DEF Diagnose, tapVars, taskVars, drainVars, workVars
  <2>2. TypeOK'
    BY <1>1, <1>2, <1>3, <2>1 DEF TypeOK
  <2>. QED
    BY <1>1, <2>1, <2>2 DEF TypeInv, CountInv
<1>. QED
  BY <1>4, <1>5, <1>6

\* The frames.
LEMMA DrainingTyped ==
    ASSUME TypeInv,
           \/ \E d \in Drains : BeginDrain(d)
           \/ \E w \in Workers : Draining(w)
    PROVE  TypeInv'
<1>1. TypeOK /\ CountInv
  BY DEF TypeInv
<1>2. UNCHANGED <<paired, keys, leaving, pressing, presses, start, crossed, late,
                  notes, captured, taken, shouldStop, awaited, stream, stopped>>
  BY DEF BeginDrain, Draining, FrameCalls, FrameReturns, FrameThrows, uiVars, shellVars,
     buttonVars, startVars, recordingVars, micVars, tapVars, stopVars, streamVars
<1>3. paired' \in BOOLEAN /\ keys' \in BOOLEAN /\ pressing' \in BOOLEAN
  BY <1>1, <1>2 DEF TypeOK
<1>4. CountInv'
  BY <1>1, <1>2 DEF CountInv
<1>5. ASSUME NEW d \in Drains, BeginDrain(d) PROVE TypeOK'
  <2>1. /\ DrainWorks(d, lastAudio)
        /\ UNCHANGED <<recordingState, mic, lastAudio, stop, wire, torn>>
    BY <1>5 DEF BeginDrain, recordingVars, micVars, stopVars, streamVars
  <2>2. lastAudio \in Nat
    BY <1>1 DEF TypeOK
  <2>3. /\ chunks' \in [Workers -> Seq(Chunks)] /\ pending' \in Seq(Chunks)
        /\ frame' \in [Workers -> {NoFrame} \union Calling \union Sent]
        /\ drain' \in [Drains -> {"none", "spawned", "sending", "over"}]
        /\ drainTask' \in Drains \union {0}
    BY <1>1, <2>1, <2>2, DrainTyped
  <2>. QED
    BY <1>1, <1>2, <1>3, <2>1, <2>3 DEF TypeOK
<1>6. \A w \in Workers : /\ frame[w].at = "calling" => frame[w] \in Calling
                         /\ frame[w].at = "sent" => frame[w] \in Sent
                         /\ frame[w].at \in {"calling", "sent"} => frame[w].msg \in Frames
  BY <1>1 DEF TypeOK, NoFrame, Calling, Sent
<1>7. ASSUME NEW w \in Workers, FrameCalls(w) PROVE TypeOK'
  <2>1. /\ frame[w].msg \in Frames /\ stream \in Presses
        /\ frame' = [frame EXCEPT ![w] = [at |-> "sent", on |-> stream, msg |-> frame[w].msg]]
        /\ wire' = [wire EXCEPT ![stream] = Append(@, frame[w].msg)]
        /\ UNCHANGED <<recordingState, mic, lastAudio, stop, drainTask, drain, chunks,
                       pending, torn>>
    BY <1>1, <1>6, <1>7 DEF FrameCalls, TypeOK, recordingVars, micVars, stopVars, drainVars
  <2>2. [at |-> "sent", on |-> stream, msg |-> frame[w].msg] \in Sent
    BY <2>1 DEF Sent
  <2>3. frame' \in [Workers -> {NoFrame} \union Calling \union Sent]
    BY <1>1, <2>1, <2>2 DEF TypeOK
  <2>4. wire' \in [Presses -> Seq(Frames)]
    <3>1. Append(wire[stream], frame[w].msg) \in Seq(Frames)
      BY <1>1, <2>1 DEF TypeOK
    <3>. QED
      BY <1>1, <2>1, <3>1 DEF TypeOK
  <2>. QED
    BY <1>1, <1>2, <1>3, <2>1, <2>3, <2>4 DEF TypeOK
<1>8. ASSUME NEW w \in Workers, FrameReturns(w) PROVE TypeOK'
  <2>1. lastAudio' \in Nat
    <3>1. frame[w].msg.seq \in Nat
      BY <1>6, <1>8 DEF FrameReturns, Frames
    <3>. QED
      BY <1>1, <1>8, <3>1 DEF FrameReturns, Counted, TypeOK
  <2>2. UNCHANGED <<recordingState, mic, wire, torn>>
    BY <1>8 DEF FrameReturns, micVars, streamVars
  <2>3. CASE w[1] = "drain" /\ DrainWorks(w[2], lastAudio') /\ UNCHANGED stopVars
    <3>1. w[2] \in Drains
      BY <2>3, WorkersAre
    <3>2. /\ chunks' \in [Workers -> Seq(Chunks)] /\ pending' \in Seq(Chunks)
          /\ frame' \in [Workers -> {NoFrame} \union Calling \union Sent]
          /\ drain' \in [Drains -> {"none", "spawned", "sending", "over"}]
          /\ drainTask' \in Drains \union {0}
      BY <1>1, <2>1, <2>3, <3>1, DrainTyped
    <3>. QED
      BY <1>1, <1>2, <1>3, <2>1, <2>2, <2>3, <3>2 DEF TypeOK, stopVars
  <2>4. CASE /\ w[1] = "stop" /\ StopWorks(w[2], recordingState, lastAudio')
             /\ UNCHANGED <<shouldStop, awaited, drainVars>>
    <3>1. w[2] \in Presses
      BY <2>4, WorkersAre
    <3>2. /\ chunks' \in [Workers -> Seq(Chunks)] /\ pending' \in Seq(Chunks)
          /\ frame' \in [Workers -> {NoFrame} \union Calling \union Sent]
          /\ stop' \in [Presses -> FirstRound \union SecondRound
                                     \union {"calling", "receiving", "over"}]
      BY <1>1, <2>1, <2>4, <3>1, StopTyped
    <3>. QED
      BY <1>1, <1>2, <1>3, <2>1, <2>2, <2>4, <3>2 DEF TypeOK, drainVars
  <2>. QED
    BY <1>8, <2>3, <2>4 DEF FrameReturns
<1>9. ASSUME NEW w \in Workers, FrameThrows(w) PROVE TypeOK'
  <2>1. /\ frame' = [frame EXCEPT ![w] = NoFrame]
        /\ chunks' = [chunks EXCEPT ![w] = <<>>]
        /\ torn' = torn \/ (frame[w].at = "sent" /\ torn' = torn \union {frame[w].on})
        /\ UNCHANGED <<lastAudio, pending, wire>>
    BY <1>9 DEF FrameThrows
  <2>2. /\ frame' \in [Workers -> {NoFrame} \union Calling \union Sent]
        /\ chunks' \in [Workers -> Seq(Chunks)]
    BY <1>1, <2>1 DEF TypeOK
  <2>3. torn' \subseteq Presses
    BY <1>1, <1>6, <2>1 DEF TypeOK, Sent
  <2>4. w[1] = "drain" => w[2] \in Drains
    BY WorkersAre
  <2>5. w[1] = "stop" => w[2] \in Presses
    BY WorkersAre
  <2>6. /\ mic' \in {mic, 0} /\ recordingState' \in {recordingState, "failed"}
        /\ stop' \in [Presses -> FirstRound \union SecondRound
                                   \union {"calling", "receiving", "over"}]
        /\ drain' \in [Drains -> {"none", "spawned", "sending", "over"}]
        /\ drainTask' \in Drains \union {0}
    BY <1>1, <1>9, <2>4, <2>5 DEF FrameThrows, Fail, EndDrain, TypeOK, drainVars
  <2>. QED
    BY <1>1, <1>2, <1>3, <2>1, <2>2, <2>3, <2>6 DEF TypeOK
<1>. QED
  BY <1>4, <1>5, <1>7, <1>8, <1>9 DEF TypeInv, Draining

\* stopRecording.
LEMMA StoppingTyped ==
    ASSUME TypeInv, pressing => presses \in Presses,
           Release \/ \E p \in Presses : Stopping(p)
    PROVE  TypeInv'
<1>1. TypeOK /\ CountInv /\ lastAudio \in Nat
  BY DEF TypeInv, TypeOK
<1>2. UNCHANGED <<paired, leaving, presses, start, crossed, late, lastAudio,
                  notes, captured, taken, drainTask, drain, wire, torn>>
  BY DEF Release, Stopping, CloseMic, Awaited, AwaitTimesOut, Yields, StopCalls,
     StopReturns, StopThrows, uiVars, shellVars, buttonVars, startVars, recordingVars,
     micVars, tapVars, drainVars, streamVars
<1>3. CountInv'
  BY <1>1, <1>2 DEF CountInv
<1>4. paired' \in BOOLEAN /\ keys' \in BOOLEAN /\ pressing' \in BOOLEAN
  BY <1>1, <1>2 DEF TypeOK, Release, Stopping, CloseMic, Awaited, AwaitTimesOut, Yields,
     StopCalls, StopReturns, StopThrows, uiVars, shellVars, buttonVars
<1>. DEFINE Worked == /\ chunks' \in [Workers -> Seq(Chunks)] /\ pending' \in Seq(Chunks)
                      /\ frame' \in [Workers -> {NoFrame} \union Calling \union Sent]
                      /\ stop' \in [Presses -> FirstRound \union SecondRound
                                                 \union {"calling", "receiving", "over"}]
                      /\ awaited' \in [Presses -> Drains \union {0}]
                      /\ shouldStop' \subseteq Presses
            Recorded == /\ mic' \in {mic, 0}
                        /\ recordingState' \in Busy \union {"idle", "failed"}
                        /\ stream' \in {stream, 0} /\ stopped' \in [Presses -> Int]
<1>5. Worked /\ Recorded => TypeOK'
  BY <1>1, <1>2, <1>4 DEF TypeOK
<1>6. ASSUME Release PROVE Worked /\ Recorded
  <2>1. presses \in Presses /\ UNCHANGED <<stream, stopped>>
    BY <1>6 DEF Release, streamVars
  <2>2. CASE recordingState = "recording"
    BY <1>1, <1>6, <2>1, <2>2 DEF Release, TypeOK, workVars
  <2>3. CASE recordingState # "recording"
    <3>1. ClosesMic(presses)
      BY <1>6, <2>3 DEF Release
    <3>. QED
      BY <1>1, <2>1, <3>1, ClosesTyped DEF TypeOK
  <2>. QED
    BY <2>2, <2>3
<1>7. ASSUME NEW p \in Presses, CloseMic(p) PROVE Worked /\ Recorded
  <2>1. ClosesMic(p) /\ UNCHANGED <<stream, stopped>>
    BY <1>7 DEF CloseMic, streamVars
  <2>. QED
    BY <1>1, <2>1, ClosesTyped DEF TypeOK
<1>8. ASSUME NEW p \in Presses, Awaited(p) PROVE Worked /\ Recorded
  <2>1. /\ StopWorks(p, recordingState, lastAudio)
        /\ UNCHANGED <<recordingState, mic, shouldStop, awaited, stream, stopped>>
    BY <1>8 DEF Awaited, recordingVars, micVars, streamVars
  <2>. QED
    BY <1>1, <2>1, StopTyped DEF TypeOK
<1>9. ASSUME NEW p \in Presses, Yields(p) PROVE Worked /\ Recorded
  <2>1. /\ Awaits(p, recordingState)
        /\ UNCHANGED <<recordingState, mic, shouldStop, stream, stopped>>
    BY <1>9 DEF Yields, recordingVars, micVars, streamVars
  <2>. QED
    BY <1>1, <2>1, AwaitsTyped DEF TypeOK
<1>10. ASSUME NEW p \in Presses, AwaitTimesOut(p) \/ StopReturns(p) \/ StopThrows(p)
       PROVE Worked /\ Recorded
  BY <1>1, <1>10 DEF AwaitTimesOut, StopReturns, StopThrows, StopFails, Fail, Stopped,
     TypeOK, workVars, micVars, streamVars
<1>11. ASSUME NEW p \in Presses, StopCalls(p) PROVE Worked /\ Recorded
  BY <1>1, <1>11 DEF StopCalls, TypeOK, workVars, recordingVars, micVars
<1>. HIDE DEF Worked, Recorded
<1>. QED
  BY <1>3, <1>5, <1>6, <1>7, <1>8, <1>9, <1>10, <1>11 DEF TypeInv, Stopping

-----------------------------------------------------------------------------
(* The microphone.                                                         *)

\* What a press leaves behind it is of a press that has been.
PressInv ==
    /\ mic \in 0..presses
    /\ crossed \subseteq 1..presses
    /\ \A p \in Presses : p > presses => start[p] = "none" /\ stop[p] = "none"
    /\ pressing => presses \in Presses /\ stop[presses] = "none"

\* A stop has a frame under way only while it drains.
WorkInv ==
    \A p \in Presses :
        frame[<<"stop", p>>] # NoFrame => stop[p] \in {"sending", "resending"}

\* A recording of which anything is left when the next one begins is crossed.
Active(p) == start[p] \notin {"none", "over"} \/ stop[p] \notin {"none", "over"} \/ mic = p

ActiveInv == \A p \in Presses : p < presses /\ Active(p) => 1..presses \subseteq crossed

\* The microphone is that of a recording nobody has begun to end.
MicInv ==
    mic # 0 /\ mic \notin late \union crossed =>
        recordingState = "recording" /\ leaving = "none" /\ stop[mic] \in {"none", "tail"}

ControlInv == PressInv /\ WorkInv /\ ActiveInv /\ MicInv

\* What the worker of a stop does: it goes on sending, or its frame is gone.
LEMMA StopWorksTo ==
    ASSUME TypeOK, NEW p \in Presses, NEW s, NEW last, StopWorks(p, s, last)
    PROVE  \E x \in {"sending", "resending", "yielded", "calling", "over"} :
              /\ stop' = [stop EXCEPT ![p] = x]
              /\ x \in {"sending", "resending"} \/ frame'[<<"stop", p>>] = NoFrame
              /\ \A w \in Workers : w # <<"stop", p>> => frame'[w] = frame[w]
<1>. DEFINE w == <<"stop", p>>
<1>1. w \in Workers
  BY WorkersAre
<1>2. CASE /\ Sends(w, s, last)
           /\ stop' = [stop EXCEPT ![p] = IF @ \in FirstRound THEN "sending" ELSE "resending"]
  <2>1. PICK x \in {"sending", "resending"} : stop' = [stop EXCEPT ![p] = x]
    BY <1>2 DEF TypeOK
  <2>2. \A v \in Workers : v # w => frame'[v] = frame[v]
    BY <1>2 DEF Sends, TypeOK
  <2>. QED
    BY <2>1, <2>2
<1>3. CASE EndsWork(w, s) /\ stop' = [stop EXCEPT ![p] = AfterRound(p)]
  <2>1. AfterRound(p) \in {"yielded", "calling", "over"}
    BY DEF AfterRound
  <2>2. frame'[w] = NoFrame /\ \A v \in Workers : v # w => frame'[v] = frame[v]
    BY <1>1, <1>3 DEF EndsWork, TypeOK
  <2>. QED
    BY <1>3, <2>1, <2>2
<1>. QED
  BY <1>2, <1>3 DEF StopWorks

LEMMA AwaitsTo ==
    ASSUME TypeOK, NEW p \in Presses, NEW s, Awaits(p, s),
           frame[<<"stop", p>>] = NoFrame
    PROVE  \E x \in {"waiting", "rewaiting", "sending", "resending", "yielded", "calling", "over"} :
              /\ stop' = [stop EXCEPT ![p] = x]
              /\ x \in {"sending", "resending"} \/ frame'[<<"stop", p>>] = NoFrame
              /\ \A w \in Workers : w # <<"stop", p>> => frame'[w] = frame[w]
<1>1. CASE drainTask # 0
  BY <1>1 DEF Awaits, TypeOK, workVars
<1>2. CASE drainTask = 0
  <2>1. StopWorks(p, s, lastAudio)
    BY <1>2 DEF Awaits
  <2>. QED
    BY <2>1, StopWorksTo
<1>. QED
  BY <1>1, <1>2

\* What the worker of a drain task does concerns no stop.
LEMMA DrainKeepsStops ==
    ASSUME TypeOK, NEW d \in Drains, NEW last, DrainWorks(d, last)
    PROVE  \A p \in Presses : frame'[<<"stop", p>>] = frame[<<"stop", p>>]
BY WorkersAre DEF DrainWorks, Sends, EndsWork, TypeOK

\* A step that begins no recording and opens no microphone, and takes the stop of
\* one press on, once its microphone is closed.
LEMMA StepKeeps ==
    ASSUME TypeOK, ControlInv, NEW p \in Presses, NEW x, x \notin {"none", "tail"},
           stop[p] # "over", stop[p] = "none" => p = presses,
           pressing' => pressing /\ stop[p] # "none",
           stop' = [stop EXCEPT ![p] = x],
           x \in {"sending", "resending"} \/ frame'[<<"stop", p>>] = NoFrame,
           \A q \in Presses : q # p => frame'[<<"stop", q>>] = frame[<<"stop", q>>],
           UNCHANGED <<presses, start, crossed, late, leaving>>,
           \/ mic' = 0
           \/ UNCHANGED <<mic, recordingState>> /\ stop[p] \notin {"none", "tail"}
           \/ UNCHANGED mic /\ stop[p] = "receiving"
    PROVE  ControlInv'
<1>1. PressInv /\ WorkInv /\ ActiveInv /\ MicInv
  BY DEF ControlInv
<1>2. /\ presses \in Nat /\ p <= presses /\ p \in Int
      /\ \A q \in Presses : stop'[q] = IF q = p THEN x ELSE stop[q]
  BY <1>1 DEF TypeOK, PressInv, Presses
<1>3. PressInv'
  <2>1. mic' \in 0..presses'
    BY <1>1, <1>2 DEF PressInv
  <2>2. \A q \in Presses : q > presses => stop'[q] = "none"
    BY <1>1, <1>2 DEF PressInv
  <2>3. pressing' => presses \in Presses /\ stop'[presses] = "none"
    BY <1>1, <1>2 DEF PressInv
  <2>. QED
    BY <1>1, <2>1, <2>2, <2>3 DEF PressInv
<1>4. WorkInv'
  BY <1>1, <1>2 DEF WorkInv
<1>5. ActiveInv'
  <2>1. ASSUME NEW q \in Presses, q < presses, Active(q)' PROVE Active(q)
    <3>1. q # 0
      BY DEF Presses
    <3>. QED
      BY <1>2, <2>1, <3>1 DEF Active
  <2>. QED
    BY <1>1, <2>1 DEF ActiveInv
<1>6. MicInv'
  <2>1. SUFFICES ASSUME mic' # 0, mic \notin late \union crossed, mic' = mic
                 PROVE  /\ recordingState' = "recording" /\ leaving = "none"
                        /\ stop'[mic] \in {"none", "tail"}
    BY DEF MicInv
  <2>2. /\ recordingState = "recording" /\ leaving = "none" /\ stop[mic] \in {"none", "tail"}
        /\ mic \in Presses /\ mic <= presses /\ mic \in 1..presses
    BY <1>1, <2>1 DEF MicInv, TypeOK, PressInv, Presses
  <2>3. p # mic /\ stop'[mic] = stop[mic]
    BY <1>2, <2>1, <2>2
  <2>4. ASSUME stop[p] = "receiving" PROVE FALSE
    <3>1. p < presses \/ mic < presses
      BY <1>2, <2>2, <2>3
    <3>2. Active(p) /\ Active(mic)
      BY <2>4 DEF Active
    <3>3. mic \in crossed
      BY <1>1, <2>2, <3>1, <3>2 DEF ActiveInv
    <3>. QED
      BY <2>1, <3>3
  <2>. QED
    BY <2>1, <2>2, <2>3, <2>4
<1>. QED
  BY <1>3, <1>4, <1>5, <1>6 DEF ControlInv

\* The steps of stopRecording.
LEMMA StoppingControlled ==
    ASSUME TypeOK, ControlInv, NEW p \in Presses, Stopping(p)
    PROVE  ControlInv'
<1>1. \A q \in Presses : <<"stop", q>> \in Workers /\ (q # p => <<"stop", q>> # <<"stop", p>>)
  BY WorkersAre
<1>2. ASSUME NEW x, stop[p] \notin {"none", "over", "sending", "resending"},
             x \notin {"none", "tail"}, stop' = [stop EXCEPT ![p] = x],
             x \in {"sending", "resending"} \/ frame'[<<"stop", p>>] = NoFrame,
             \A w \in Workers : w # <<"stop", p>> => frame'[w] = frame[w],
             UNCHANGED <<pressing, presses, start, crossed, late, leaving>>,
             \/ mic' = 0
             \/ UNCHANGED <<mic, recordingState>> /\ stop[p] # "tail"
             \/ UNCHANGED mic /\ stop[p] = "receiving"
      PROVE  ControlInv'
  BY <1>1, <1>2, StepKeeps
<1>3. stop[p] \notin {"sending", "resending"} => frame[<<"stop", p>>] = NoFrame
  BY DEF ControlInv, WorkInv
<1>4. CASE CloseMic(p)
  <2>1. /\ stop[p] = "tail" /\ mic' = 0 /\ Awaits(p, recordingState')
        /\ UNCHANGED <<pressing, presses, start, crossed, late, leaving>>
    BY <1>4 DEF CloseMic, ClosesMic, MicClosed, uiVars, shellVars, buttonVars, startVars
  <2>. QED
    BY <1>2, <1>3, <2>1, AwaitsTo
<1>5. CASE Awaited(p)
  <2>1. /\ stop[p] \in {"waiting", "rewaiting"} /\ StopWorks(p, recordingState, lastAudio)
        /\ UNCHANGED <<pressing, presses, start, crossed, late, leaving, mic, recordingState>>
    BY <1>5 DEF Awaited, uiVars, shellVars, buttonVars, startVars, recordingVars, micVars
  <2>. QED
    BY <1>2, <2>1, StopWorksTo
<1>6. CASE Yields(p)
  <2>1. /\ stop[p] = "yielded" /\ Awaits(p, recordingState)
        /\ UNCHANGED <<pressing, presses, start, crossed, late, leaving, mic, recordingState>>
    BY <1>6 DEF Yields, uiVars, shellVars, buttonVars, startVars, recordingVars, micVars
  <2>. QED
    BY <1>2, <1>3, <2>1, AwaitsTo
<1>7. CASE AwaitTimesOut(p) \/ StopThrows(p)
  <2>1. /\ stop[p] \in {"waiting", "rewaiting", "calling", "receiving"} /\ mic' = 0
        /\ stop' = [stop EXCEPT ![p] = "over"]
        /\ UNCHANGED <<frame, pressing, presses, start, crossed, late, leaving>>
    BY <1>7 DEF AwaitTimesOut, StopThrows, StopFails, Fail, uiVars, shellVars, buttonVars,
       startVars, workVars
  <2>. QED
    BY <1>2, <1>3, <2>1
<1>8. CASE StopCalls(p) \/ StopReturns(p)
  <2>1. /\ \/ stop[p] = "calling" /\ UNCHANGED recordingState
           \/ stop[p] = "receiving"
        /\ \E x \in {"receiving", "over"} : stop' = [stop EXCEPT ![p] = x]
        /\ UNCHANGED <<frame, pressing, presses, start, crossed, late, leaving, mic>>
    BY <1>8 DEF StopCalls, StopReturns, uiVars, shellVars, buttonVars, startVars, recordingVars,
       micVars, workVars
  <2>. QED
    BY <1>2, <1>3, <2>1
<1>. QED
  BY <1>4, <1>5, <1>6, <1>7, <1>8 DEF Stopping

\* The button is let go: the recording goes on, or the microphone is closed.
LEMMA ReleaseControlled ==
    ASSUME TypeOK, ControlInv, Release
    PROVE  ControlInv'
<1>1. PressInv /\ WorkInv /\ ActiveInv /\ MicInv
  BY DEF ControlInv
<1>2. /\ pressing /\ pressing' = FALSE /\ presses \in Presses /\ stop[presses] = "none"
      /\ presses \in Nat
      /\ UNCHANGED <<presses, start, crossed, late, leaving>>
  BY <1>1 DEF Release, PressInv, shellVars, startVars, Presses
<1>3. frame[<<"stop", presses>>] = NoFrame
  BY <1>1, <1>2 DEF WorkInv
<1>4. CASE recordingState = "recording"
  <2>1. /\ stop' = [stop EXCEPT ![presses] = "tail"]
        /\ UNCHANGED <<frame, recordingState, mic>>
    BY <1>4 DEF Release, workVars
  <2>2. \A q \in Presses : stop'[q] = IF q = presses THEN "tail" ELSE stop[q]
    BY <2>1 DEF TypeOK
  <2>3. PressInv'
    BY <1>1, <1>2, <2>1, <2>2 DEF PressInv
  <2>4. WorkInv'
    BY <1>1, <1>2, <1>3, <2>1, <2>2 DEF WorkInv
  <2>5. ActiveInv'
    <3>1. \A q \in Presses : q < presses /\ Active(q)' => Active(q)
      BY <1>2, <2>1, <2>2 DEF Active
    <3>. QED
      BY <1>1, <1>2, <3>1 DEF ActiveInv
  <2>6. MicInv'
    BY <1>1, <1>2, <2>1, <2>2 DEF MicInv, TypeOK
  <2>. QED
    BY <2>3, <2>4, <2>5, <2>6 DEF ControlInv
<1>5. CASE recordingState # "recording"
  <2>1. mic' = 0 /\ Awaits(presses, recordingState')
    BY <1>5 DEF Release, ClosesMic, MicClosed
  <2>2. PICK x \in {"waiting", "rewaiting", "sending", "resending", "yielded", "calling", "over"} :
              /\ stop' = [stop EXCEPT ![presses] = x]
              /\ x \in {"sending", "resending"} \/ frame'[<<"stop", presses>>] = NoFrame
              /\ \A w \in Workers : w # <<"stop", presses>> => frame'[w] = frame[w]
    BY <1>2, <1>3, <2>1, AwaitsTo
  <2>3. \A q \in Presses : q # presses => frame'[<<"stop", q>>] = frame[<<"stop", q>>]
    BY <2>2, WorkersAre
  <2>. QED
    BY <1>2, <2>1, <2>2, <2>3, StepKeeps
<1>. QED
  BY <1>4, <1>5

\* A step that begins no recording and leaves the stops and their frames alone: an
\* open microphone stays as it is, or it is closed.
LEMMA QuietKeeps ==
    ASSUME TypeOK, ControlInv,
           UNCHANGED <<pressing, presses, crossed, stop>>,
           \A p \in Presses : frame'[<<"stop", p>>] # NoFrame => frame[<<"stop", p>>] # NoFrame,
           \A p \in Presses : start'[p] = start[p] \/ start[p] \notin {"none", "over"},
           late \subseteq late',
           \/ mic' = 0
           \/ UNCHANGED <<mic, recordingState, leaving>>
           \/ UNCHANGED mic /\ (recordingState # "recording" \/ leaving # "none")
    PROVE  ControlInv'
<1>1. PressInv /\ WorkInv /\ ActiveInv /\ MicInv
  BY DEF ControlInv
<1>2. PressInv'
  <2>1. mic' \in 0..presses'
    BY <1>1 DEF PressInv, TypeOK
  <2>2. \A p \in Presses : p > presses => start'[p] = "none"
    BY <1>1 DEF PressInv
  <2>. QED
    BY <1>1, <2>1, <2>2 DEF PressInv
<1>3. WorkInv'
  BY <1>1 DEF WorkInv
<1>4. ActiveInv'
  BY <1>1 DEF ActiveInv, Active, Presses
<1>5. MicInv'
  BY <1>1 DEF MicInv
<1>. QED
  BY <1>2, <1>3, <1>4, <1>5 DEF ControlInv

\* The connection, and the tap.
LEMMA ShellControlled ==
    ASSUME TypeOK, ControlInv,
           Connect \/ Forget \/ Leave \/ Leaving \/ Capture \/ Notify \/ Diagnose
    PROVE  ControlInv'
<1>1. UNCHANGED <<pressing, presses, crossed, late, start, stop, frame>>
  BY DEF Connect, Forget, Leave, Leaving, CancelCalls, CancelReturns, Capture, Notify, Diagnose,
     uiVars, buttonVars, startVars, taskVars, stopVars, workVars
<1>2. \/ mic' = 0
      \/ UNCHANGED <<mic, recordingState, leaving>>
      \/ UNCHANGED mic /\ leaving # "none"
  BY DEF Connect, Forget, Leave, Leaving, CancelCalls, CancelReturns, Capture, Notify, Diagnose,
     Fail, recordingVars, micVars, uiVars, shellVars
<1>. QED
  BY <1>1, <1>2, QuietKeeps

\* startPressRecording: what is left of an older recording is crossed.
LEMMA PressControlled ==
    ASSUME TypeOK, ControlInv, Press
    PROVE  ControlInv'
<1>1. PressInv /\ WorkInv /\ ActiveInv /\ MicInv
  BY DEF ControlInv
<1>. DEFINE p == presses + 1
<1>2. /\ p \in Presses /\ presses' = p /\ presses \in Nat /\ mic \in 0..presses
      /\ start' = [start EXCEPT ![p] = "calling"]
      /\ crossed' = IF Quiet THEN crossed ELSE 1..p
      /\ UNCHANGED <<mic, late, stop, frame>>
  BY <1>1 DEF Press, TypeOK, Presses, PressInv, micVars, stopVars
<1>3. /\ stop[p] = "none" /\ crossed \subseteq 1..presses
      /\ \A q \in Presses : q > p => start[q] = "none" /\ stop[q] = "none"
  <2>1. p > presses /\ \A q \in Presses : q > p => q > presses
    BY <1>2 DEF Presses
  <2>. QED
    BY <1>1, <1>2, <2>1 DEF PressInv
<1>4. PressInv'
  <2>1. crossed' \subseteq 1..p
    BY <1>2, <1>3
  <2>2. \A q \in Presses : q > p => start'[q] = "none" /\ stop'[q] = "none"
    BY <1>2, <1>3 DEF TypeOK
  <2>. QED
    BY <1>2, <1>3, <2>1, <2>2 DEF PressInv
<1>5. WorkInv'
  BY <1>1, <1>2 DEF WorkInv
<1>6. ActiveInv'
  <2>1. SUFFICES ASSUME NEW q \in Presses, q < p, Active(q)' PROVE 1..p \subseteq crossed'
    BY <1>2 DEF ActiveInv
  <2>2. q # p /\ q # 0
    BY <1>2, <2>1 DEF Presses
  <2>3. Active(q)
    BY <1>2, <2>1, <2>2 DEF Active, TypeOK
  <2>4. ~Quiet
    BY <2>2, <2>3 DEF Quiet, Active
  <2>. QED
    BY <1>2, <2>4
<1>7. MicInv'
  BY <1>2 DEF MicInv, Quiet
<1>. QED
  BY <1>4, <1>5, <1>6, <1>7 DEF ControlInv

\* startRecording: a start that returns too late is noted.
LEMMA StartingControlled ==
    ASSUME TypeOK, ControlInv, NEW p \in Presses, Starting(p)
    PROVE  ControlInv'
<1>1. PressInv /\ WorkInv /\ ActiveInv /\ MicInv
  BY DEF ControlInv
<1>2. /\ UNCHANGED <<pressing, presses, crossed, stop, frame, leaving>>
      /\ start[p] \notin {"none", "over"}
      /\ \A q \in Presses : q # p => start'[q] = start[q]
  BY DEF Starting, StartCalls, StartReturns, StartThrows, TypeOK, shellVars, buttonVars,
     taskVars, stopVars, workVars
<1>3. CASE StartCalls(p) \/ StartThrows(p)
  <2>1. late' = late /\ (mic' = 0 \/ UNCHANGED <<mic, recordingState>>)
    BY <1>3 DEF StartCalls, StartThrows, Fail, recordingVars, micVars
  <2>. QED
    BY <1>2, <2>1, QuietKeeps
<1>4. CASE StartReturns(p)
  <2>1. /\ mic' = p /\ UNCHANGED recordingState
        /\ late' = IF Overtaken(p) THEN late \union {p} ELSE late
        /\ p \in 0..presses
    BY <1>1, <1>2, <1>4 DEF StartReturns, PressInv, TypeOK, Presses
  <2>2. PressInv'
    BY <1>1, <1>2, <2>1 DEF PressInv
  <2>3. WorkInv'
    BY <1>1, <1>2 DEF WorkInv
  <2>4. ActiveInv'
    <3>1. \A q \in Presses : Active(q)' => Active(q)
      BY <1>2, <2>1 DEF Active
    <3>. QED
      BY <1>1, <1>2, <3>1 DEF ActiveInv
  <2>5. MicInv'
    BY <1>2, <2>1 DEF MicInv, Overtaken
  <2>. QED
    BY <2>2, <2>3, <2>4, <2>5 DEF ControlInv
<1>. QED
  BY <1>3, <1>4 DEF Starting

\* The frames of the drain tasks and of the stops.
LEMMA DrainingControlled ==
    ASSUME TypeOK, ControlInv,
           \/ \E d \in Drains : BeginDrain(d)
           \/ \E w \in Workers : Draining(w)
    PROVE  ControlInv'
<1>1. UNCHANGED <<pressing, presses, start, crossed, late, leaving>>
  BY DEF BeginDrain, Draining, FrameCalls, FrameReturns, FrameThrows, uiVars, shellVars,
     buttonVars, startVars
<1>2. ASSUME NEW d \in Drains, BeginDrain(d) PROVE ControlInv'
  <2>1. DrainWorks(d, lastAudio) /\ UNCHANGED <<stop, mic, recordingState>>
    BY <1>2 DEF BeginDrain, recordingVars, micVars, stopVars
  <2>. QED
    BY <1>1, <2>1, DrainKeepsStops, QuietKeeps
<1>3. ASSUME NEW w \in Workers, FrameCalls(w) PROVE ControlInv'
  <2>1. \A v \in Workers : frame'[v] # NoFrame => frame[v] # NoFrame
    BY <1>3 DEF FrameCalls, NoFrame, TypeOK
  <2>2. UNCHANGED <<stop, mic, recordingState>>
    BY <1>3 DEF FrameCalls, recordingVars, micVars, stopVars
  <2>. QED
    BY <1>1, <2>1, <2>2, WorkersAre, QuietKeeps
<1>4. ASSUME NEW w \in Workers, FrameReturns(w) PROVE ControlInv'
  <2>1. UNCHANGED <<mic, recordingState>>
    BY <1>4 DEF FrameReturns, micVars
  <2>2. CASE w[1] = "drain" /\ DrainWorks(w[2], lastAudio') /\ UNCHANGED stopVars
    BY <1>1, <2>1, <2>2, WorkersAre, DrainKeepsStops, QuietKeeps DEF stopVars
  <2>3. CASE w[1] = "stop" /\ StopWorks(w[2], recordingState, lastAudio')
    <3>1. w[2] \in Presses /\ w = <<"stop", w[2]>>
      BY <2>3, WorkersAre
    <3>2. frame[w] # NoFrame
      BY <1>4 DEF FrameReturns, NoFrame
    <3>3. stop[w[2]] \in {"sending", "resending"}
      BY <3>1, <3>2 DEF ControlInv, WorkInv
    <3>4. PICK x \in {"sending", "resending", "yielded", "calling", "over"} :
              /\ stop' = [stop EXCEPT ![w[2]] = x]
              /\ x \in {"sending", "resending"} \/ frame'[w] = NoFrame
              /\ \A v \in Workers : v # w => frame'[v] = frame[v]
      BY <2>3, <3>1, StopWorksTo
    <3>5. \A q \in Presses : q # w[2] => frame'[<<"stop", q>>] = frame[<<"stop", q>>]
      BY <3>1, <3>4, WorkersAre
    <3>. QED
      BY <1>1, <2>1, <3>1, <3>3, <3>4, <3>5, StepKeeps
  <2>. QED
    BY <1>4, <2>2, <2>3 DEF FrameReturns
<1>5. ASSUME NEW w \in Workers, FrameThrows(w) PROVE ControlInv'
  <2>1. frame[w] # NoFrame /\ frame' = [frame EXCEPT ![w] = NoFrame]
    BY <1>5 DEF FrameThrows, NoFrame
  <2>2. frame'[w] = NoFrame /\ \A v \in Workers : v # w => frame'[v] = frame[v]
    BY <2>1 DEF TypeOK
  <2>3. CASE w[1] = "drain"
    <3>1. stop' = stop /\ (mic' = 0 \/ UNCHANGED <<mic, recordingState>>)
      BY <1>5, <2>3 DEF FrameThrows, Fail
    <3>. QED
      BY <1>1, <2>2, <3>1, WorkersAre, QuietKeeps
  <2>4. CASE w[1] = "stop"
    <3>1. w[2] \in Presses /\ w = <<"stop", w[2]>>
      BY <2>4, WorkersAre
    <3>2. mic' = 0 /\ stop' = [stop EXCEPT ![w[2]] = "over"]
      BY <1>5, <2>4 DEF FrameThrows, Fail
    <3>3. stop[w[2]] \in {"sending", "resending"}
      BY <2>1, <3>1 DEF ControlInv, WorkInv
    <3>4. \A q \in Presses : q # w[2] => frame'[<<"stop", q>>] = frame[<<"stop", q>>]
      BY <2>2, <3>1, WorkersAre
    <3>5. frame'[<<"stop", w[2]>>] = NoFrame
      BY <2>2, <3>1
    <3>6. /\ stop[w[2]] # "over" /\ stop[w[2]] # "none"
          /\ "over" \notin {"none", "tail"}
      BY <3>3
    <3>. QED
      BY <1>1, <3>1, <3>2, <3>4, <3>5, <3>6, StepKeeps
  <2>. QED
    BY <2>3, <2>4, WorkersAre
<1>. QED
  BY <1>2, <1>3, <1>4, <1>5 DEF Draining

-----------------------------------------------------------------------------
(* The inductive invariant.                                                *)

IInv == TypeInv /\ ControlInv

LEMMA InitIInv == Init => IInv
<1>. SUFFICES ASSUME Init PROVE IInv
  OBVIOUS
<1>1. TypeInv
  BY InitTypes
<1>2. ControlInv
  BY WorkersAre DEF Init, ControlInv, PressInv, WorkInv, ActiveInv, MicInv, Active, Presses
<1>. QED
  BY <1>1, <1>2 DEF IInv

LEMMA StepIInv == IInv /\ [Next]_vars => IInv'
<1>. SUFFICES ASSUME IInv, [Next]_vars PROVE IInv'
  OBVIOUS
<1>1. /\ TypeInv /\ TypeOK /\ ControlInv
      /\ pressing => presses \in Presses
  BY DEF IInv, TypeInv, ControlInv, PressInv
<1>2. CASE Connect \/ Forget \/ Leave \/ Leaving
  BY <1>1, <1>2, ShellTyped, ShellControlled DEF IInv
<1>3. CASE Press
  BY <1>1, <1>3, ShellTyped, PressControlled DEF IInv
<1>4. CASE Release
  BY <1>1, <1>4, StoppingTyped, ReleaseControlled DEF IInv
<1>5. CASE Capture \/ Notify \/ Diagnose
  BY <1>1, <1>5, MicTyped, ShellControlled DEF IInv
<1>6. ASSUME NEW p \in Presses, Starting(p) PROVE IInv'
  BY <1>1, <1>6, StartingTyped, StartingControlled DEF IInv
<1>7. ASSUME NEW p \in Presses, Stopping(p) PROVE IInv'
  BY <1>1, <1>7, StoppingTyped, StoppingControlled DEF IInv
<1>8. ASSUME \/ \E d \in Drains : BeginDrain(d)
             \/ \E w \in Workers : Draining(w)
      PROVE  IInv'
  BY <1>1, <1>8, DrainingTyped, DrainingControlled DEF IInv
<1>9. CASE UNCHANGED vars
  <2>1. UNCHANGED <<paired, keys, leaving, pressing, presses, recordingState, mic, notes, captured,
                    taken, lastAudio, start, crossed, late, stop, shouldStop, awaited, drainTask,
                    drain, chunks, frame, pending, stream, wire, stopped, torn>>
    BY <1>9 DEF vars, shellVars, buttonVars, micVars, tapVars, startVars, stopVars, drainVars,
       workVars, streamVars
  <2>2. TypeOK'
    BY <1>1, <2>1 DEF TypeOK
  <2>3. CountInv' /\ ControlInv'
    BY <1>1, <2>1 DEF TypeInv, CountInv, ControlInv, PressInv, WorkInv, ActiveInv, Active, MicInv
  <2>. QED
    BY <2>2, <2>3 DEF IInv, TypeInv
<1>. QED
  BY <1>2, <1>3, <1>4, <1>5, <1>6, <1>7, <1>8, <1>9 DEF Next

\* Every state of the recording button keeps the inductive invariant.
THEOREM Invariant == Spec => []IInv
<1>1. Init => IInv
  BY InitIInv
<1>2. IInv /\ [Next]_vars => IInv'
  BY StepIInv
<1>. QED
  BY <1>1, <1>2, PTL DEF Spec

\* The view model's fields, tasks, chunks and frames keep their types.
THEOREM TypeOKHolds == Spec => []TypeOK
<1>1. IInv => TypeOK
  BY DEF IInv, TypeInv
<1>. QED
  BY <1>1, Invariant, PTL

\* The microphone is closed by every way out of a recording, but for a start that
\* returns too late and for recordings that overlap.
THEOREM MicIsClosedHolds == Spec => []MicIsClosed
<1>1. IInv => MicIsClosed
  BY DEF IInv, ControlInv, MicInv, MicIsClosed
<1>. QED
  BY <1>1, Invariant, PTL

-----------------------------------------------------------------------------
(* The frames of a recording.                                              *)

\* What is sent is of a press that has been; a recording that is crossed crosses
\* those before it.
HistoryInv ==
    /\ stream <= presses
    /\ presses \in crossed => 1..presses \subseteq crossed
    /\ \A p \in Presses : p > presses =>
          wire[p] = <<>> /\ stopped[p] = -1 /\ captured[p] = 0 /\ p \notin shouldStop

\* A worker that is not sending has taken nothing.
IdleInv ==
    /\ \A d \in Drains : drain[d] # "sending" =>
          frame[<<"drain", d>>] = NoFrame /\ chunks[<<"drain", d>>] = <<>>
    /\ \A p \in Presses : stop[p] \notin {"sending", "resending"} =>
          chunks[<<"stop", p>>] = <<>>

\* In a recording that is not crossed the drain task is alone, and a stop that
\* has drained is not followed by another one.
LoneInv(p) ==
    /\ stream \in {0, p}
    /\ \A d \in Drains : drain[d] \in {"spawned", "sending"} <=> d = drainTask
    /\ stop[p] \notin {"none", "tail"} => recordingState # "recording"
    /\ stop[p] \notin {"sending", "resending"}
    /\ stop[p] \in {"waiting", "rewaiting"} => drainTask \in {0, awaited[p]}
    /\ stop[p] \notin {"none", "tail", "waiting", "rewaiting"} => drainTask = 0
    /\ p \in shouldStop => stop[p] \notin {"none", "tail"}
    /\ stop[p] \in {"calling", "receiving"} => p \in shouldStop
    /\ stopped[p] # -1 => stop[p] \in {"receiving", "over"}

\* Nothing has been heard before the start returns.
Silent(p) ==
    /\ mic = 0 /\ captured[p] = 0 /\ wire[p] = <<>> /\ lastAudio = 0 /\ pending = <<>>
    /\ \A w \in Workers : chunks[w] = <<>> /\ frame[w] = NoFrame

\* The frame that is under way, the chunks that wait behind it, and the number of
\* the frame that precedes them.
Frame(p, n) == [chunk |-> [press |-> p, n |-> n], seq |-> n]
Under == IF drainTask = 0 THEN NoFrame ELSE frame[<<"drain", drainTask>>]
Behind == IF drainTask = 0 THEN <<>> ELSE chunks[<<"drain", drainTask>>]
Base == IF Under = NoFrame THEN lastAudio ELSE lastAudio + 1

\* While the recording goes on every chunk that was captured is sent, under way
\* or waiting, in the order of its capture.
QueueInv(p) ==
    /\ Under = NoFrame => lastAudio = Len(wire[p])
    /\ \A i \in 1..Len(Behind) : Behind[i] = [press |-> p, n |-> Base + i]
    /\ \A i \in 1..Len(pending) : pending[i] = [press |-> p, n |-> Base + Len(Behind) + i]
    /\ Base + Len(Behind) + Len(pending) = captured[p]

FlowInv(p) ==
    /\ start[p] # "over" => Silent(p)
    /\ wire[p] = [i \in 1..Len(wire[p]) |-> Frame(p, i)]
    /\ Under.at = "calling" =>
          Under.msg = Frame(p, Len(wire[p]) + 1) /\ lastAudio = Len(wire[p])
    /\ Under.at = "sent" =>
          Under.on = p /\ Under.msg = Frame(p, Len(wire[p])) /\ lastAudio = Len(wire[p]) - 1
    /\ recordingState = "recording" => QueueInv(p)

\* The stop of a recording is going to be sent, on the stream that is there.
WillStop(p) ==
    p \in shouldStop /\ stop[p] \in {"waiting", "yielded", "rewaiting", "calling"} /\ stream # 0

\* Then the last frame counts when it returns, or it was torn.
CountsInv(p) ==
    /\ leaving = "cancelled" => stream = 0 \/ Silent(p)
    /\ WillStop(p) =>
          /\ recordingState # "stopping" => Under = NoFrame
          /\ Under = NoFrame =>
                lastAudio = Len(wire[p]) \/ (p \in torn /\ lastAudio = Len(wire[p]) - 1)

Sole(p) == LoneInv(p) /\ FlowInv(p) /\ (p \notin late => CountsInv(p))

SoleInv == \A p \in Presses \ crossed : p = presses => Sole(p)

FramesInv == HistoryInv /\ IdleInv /\ SoleInv /\ StopCountsFrames

\* The last press, when it is not crossed.
Ongoing(p) ==
    /\ IInv /\ HistoryInv /\ IdleInv /\ Sole(p)
    /\ p = presses /\ p \in Presses /\ p \notin crossed

\* Nothing else is under way.
LEMMA OngoingIsAlone ==
    ASSUME NEW p, Ongoing(p)
    PROVE  /\ TypeOK /\ p \in Presses /\ mic \in {0, p}
           /\ \A q \in Presses : q # p => start[q] \in {"none", "over"} /\ stop[q] \in {"none", "over"}
           /\ \A w \in Workers : frame[w] # NoFrame \/ chunks[w] # <<>> =>
                 drainTask \in Drains /\ w = <<"drain", drainTask>>
<1>1. /\ TypeOK /\ PressInv /\ WorkInv /\ ActiveInv /\ HistoryInv /\ IdleInv /\ LoneInv(p)
      /\ p = presses /\ p \in Presses /\ p \notin crossed /\ p \in 1..presses
  BY DEF Ongoing, IInv, TypeInv, ControlInv, Sole, Presses
<1>2. ASSUME NEW q \in Presses, q # p PROVE ~Active(q)
  <2>1. CASE q < p
    BY <1>1, <2>1 DEF ActiveInv
  <2>2. CASE q > p
    BY <1>1, <2>2 DEF PressInv, Active
  <2>. QED
    BY <1>1, <1>2, <2>1, <2>2 DEF Presses
<1>3. mic \in {0, p}
  BY <1>1, <1>2 DEF TypeOK, Active
<1>4. \A q \in Presses : q # p => start[q] \in {"none", "over"} /\ stop[q] \in {"none", "over"}
  BY <1>2 DEF Active
<1>5. ASSUME NEW w \in Workers, frame[w] # NoFrame \/ chunks[w] # <<>>
      PROVE  drainTask \in Drains /\ w = <<"drain", drainTask>>
  <2>1. CASE w[1] = "stop"
    <3>1. w[2] \in Presses /\ w = <<"stop", w[2]>>
      BY <2>1, WorkersAre
    <3>2. stop[w[2]] \in {"sending", "resending"}
      BY <1>1, <1>5, <3>1 DEF WorkInv, IdleInv
    <3>. QED
      BY <1>1, <1>4, <3>1, <3>2 DEF LoneInv
  <2>2. CASE w[1] = "drain"
    <3>1. w[2] \in Drains /\ w = <<"drain", w[2]>>
      BY <2>2, WorkersAre
    <3>2. drain[w[2]] = "sending"
      BY <1>1, <1>5, <3>1 DEF IdleInv
    <3>. QED
      BY <1>1, <3>1, <3>2 DEF LoneInv
  <2>. QED
    BY <2>1, <2>2, WorkersAre
<1>. QED
  BY <1>1, <1>3, <1>4, <1>5

\* What a step adds to a stream, or a stop says of it, is of a press that has been.
LEMMA HistoryStep == IInv /\ HistoryInv /\ [Next]_vars => HistoryInv'
<1>. SUFFICES ASSUME IInv, HistoryInv, [Next]_vars PROVE HistoryInv'
  OBVIOUS
<1>1. TypeOK /\ PressInv /\ presses \in Nat
  BY DEF IInv, TypeInv, ControlInv, TypeOK
<1>2. \A p \in Presses : p \in Nat /\ p # 0 /\ (start[p] # "none" \/ stop[p] # "none" => p <= presses)
  BY <1>1 DEF PressInv, Presses
<1>3. ASSUME UNCHANGED <<presses, crossed>>,
             \/ stream' \in {stream, 0}
             \/ \E q \in Presses : stream' = q /\ start[q] # "none",
             \A p \in Presses : p > presses =>
                /\ wire'[p] = wire[p] /\ stopped'[p] = stopped[p] /\ captured'[p] = captured[p]
                /\ p \in shouldStop' => p \in shouldStop
      PROVE  HistoryInv'
  <2>1. stream' <= presses'
    BY <1>1, <1>2, <1>3 DEF HistoryInv
  <2>2. \A p \in Presses : p > presses' =>
          wire'[p] = <<>> /\ stopped'[p] = -1 /\ captured'[p] = 0 /\ p \notin shouldStop'
    BY <1>3 DEF HistoryInv
  <2>3. presses' \in crossed' => 1..presses' \subseteq crossed'
    BY <1>3 DEF HistoryInv
  <2>. QED
    BY <2>1, <2>2, <2>3 DEF HistoryInv
<1>4. CASE Press
  <2>1. /\ presses' = presses + 1 /\ (crossed' = crossed \/ crossed' = 1..(presses + 1))
        /\ UNCHANGED <<stream, wire, stopped, captured, shouldStop>>
    BY <1>4 DEF Press, micVars, tapVars, stopVars, streamVars
  <2>2. presses + 1 \notin crossed
    BY <1>1 DEF PressInv
  <2>3. presses' \in crossed' => 1..presses' \subseteq crossed'
    BY <2>1, <2>2
  <2>4. stream \in Nat
    BY <1>1, <1>2 DEF TypeOK
  <2>5. stream' <= presses'
    BY <1>1, <2>1, <2>4 DEF HistoryInv
  <2>6. \A p \in Presses : p > presses' => p > presses
    BY <1>1, <1>2, <2>1
  <2>. QED
    BY <2>1, <2>3, <2>5, <2>6 DEF HistoryInv
<1>5. CASE Capture
  <2>1. /\ mic \in Presses /\ mic <= presses /\ captured' = [captured EXCEPT ![mic] = @ + 1]
        /\ UNCHANGED <<presses, crossed, stream, wire, stopped, shouldStop>>
    BY <1>1, <1>5 DEF Capture, TypeOK, PressInv, uiVars, buttonVars, startVars, stopVars, streamVars
  <2>2. \A p \in Presses : p > presses => captured'[p] = captured[p]
    BY <1>1, <1>2, <2>1 DEF TypeOK
  <2>. QED
    BY <1>3, <2>1, <2>2
<1>6. CASE Connect \/ Forget \/ Leave \/ Leaving \/ Notify \/ Diagnose
  <2>1. /\ stream' \in {stream, 0}
        /\ UNCHANGED <<presses, crossed, wire, stopped, captured, shouldStop>>
    BY <1>6 DEF Connect, Forget, Leave, Leaving, CancelCalls, CancelReturns, Notify, Diagnose,
       uiVars, buttonVars, micVars, tapVars, recordingVars, startVars, taskVars, stopVars, streamVars
  <2>. QED
    BY <1>3, <2>1
<1>7. ASSUME NEW p \in Presses, Starting(p) PROVE HistoryInv'
  <2>1. /\ stream' = stream \/ (stream' = p /\ start[p] # "none")
        /\ UNCHANGED <<presses, crossed, wire, stopped, captured, shouldStop>>
    BY <1>7 DEF Starting, StartCalls, StartReturns, StartThrows, buttonVars, micVars, tapVars,
       recordingVars, taskVars, stopVars, streamVars
  <2>. QED
    BY <1>3, <2>1
<1>8. ASSUME \/ \E d \in Drains : BeginDrain(d)
             \/ \E w \in Workers : Draining(w)
      PROVE  HistoryInv'
  <2>1. /\ UNCHANGED <<presses, crossed, stream, stopped, captured, shouldStop>>
        /\ \/ wire' = wire
           \/ stream # 0 /\ \E x : wire' = [wire EXCEPT ![stream] = x]
    BY <1>8 DEF BeginDrain, Draining, FrameCalls, FrameReturns, FrameThrows, uiVars, buttonVars,
       startVars, recordingVars, micVars, tapVars, stopVars, streamVars
  <2>2. \A p \in Presses : p > presses => wire'[p] = wire[p]
    BY <1>1, <1>2, <2>1 DEF TypeOK, HistoryInv
  <2>. QED
    BY <1>3, <2>1, <2>2
<1>9. ASSUME Release \/ \E p \in Presses : Stopping(p) PROVE HistoryInv'
  <2>1. /\ stream' \in {stream, 0}
        /\ UNCHANGED <<presses, crossed, wire, captured>>
    BY <1>9 DEF Release, Stopping, CloseMic, Awaited, AwaitTimesOut, Yields, StopCalls,
       StopReturns, StopThrows, uiVars, buttonVars, startVars, recordingVars, micVars, tapVars,
       streamVars
  <2>2. stopped' = stopped \/ (stream \in Presses /\ \E x : stopped' = [stopped EXCEPT ![stream] = x])
    BY <1>1, <1>9 DEF Release, Stopping, CloseMic, Awaited, AwaitTimesOut, Yields, StopCalls,
       StopReturns, StopThrows, streamVars, TypeOK
  <2>3. \A p \in Presses : p > presses => stopped'[p] = stopped[p]
    BY <1>1, <1>2, <2>2 DEF TypeOK, HistoryInv
  <2>4. \/ shouldStop' = shouldStop
        \/ \E q \in Presses : q <= presses /\ shouldStop' = shouldStop \union {q}
    <3>1. CASE Release
      BY <1>1, <3>1 DEF Release, ClosesMic, PressInv
    <3>2. ASSUME NEW q \in Presses, CloseMic(q) PROVE shouldStop' = shouldStop \/ (q <= presses /\ shouldStop' = shouldStop \union {q})
      BY <1>2, <3>2 DEF CloseMic, ClosesMic
    <3>. QED
      BY <1>9, <3>1, <3>2 DEF Stopping, Awaited, AwaitTimesOut, Yields, StopCalls, StopReturns, StopThrows
  <2>5. \A p \in Presses : p > presses /\ p \in shouldStop' => p \in shouldStop
    BY <1>1, <1>2, <2>4
  <2>. QED
    BY <1>3, <2>1, <2>3, <2>5
<1>10. CASE UNCHANGED vars
  BY <1>3, <1>10 DEF vars, buttonVars, startVars, streamVars, micVars, tapVars, stopVars
<1>. QED
  BY <1>4, <1>5, <1>6, <1>7, <1>8, <1>9, <1>10 DEF Next

\* A worker takes chunks only while it is sending.
LEMMA StopWorksIdle ==
    ASSUME TypeOK, NEW p \in Presses, NEW s, NEW last, StopWorks(p, s, last)
    PROVE  /\ \A q \in Presses : q # p =>
                 stop'[q] = stop[q] /\ chunks'[<<"stop", q>>] = chunks[<<"stop", q>>]
           /\ stop'[p] \in {"sending", "resending"} \/ chunks'[<<"stop", p>>] = <<>>
           /\ \A d \in Drains : /\ frame'[<<"drain", d>>] = frame[<<"drain", d>>]
                                 /\ chunks'[<<"drain", d>>] = chunks[<<"drain", d>>]
<1>. DEFINE w == <<"stop", p>>
<1>1. /\ w \in Workers /\ \A q \in Presses : <<"stop", q>> \in Workers /\ (q # p => <<"stop", q>> # w)
      /\ \A d \in Drains : <<"drain", d>> \in Workers /\ <<"drain", d>> # w
  BY WorkersAre
<1>2. /\ \A v \in Workers : v # w => frame'[v] = frame[v] /\ chunks'[v] = chunks[v]
      /\ \A q \in Presses : q # p => stop'[q] = stop[q]
  BY DEF StopWorks, Sends, EndsWork, TypeOK
<1>3. stop'[p] \in {"sending", "resending"} \/ chunks'[w] = <<>>
  BY <1>1 DEF StopWorks, EndsWork, TypeOK
<1>. QED
  BY <1>1, <1>2, <1>3

LEMMA AwaitsIdle ==
    ASSUME TypeOK, IdleInv, NEW p \in Presses, NEW s, Awaits(p, s),
           stop[p] \notin {"sending", "resending"}
    PROVE  /\ \A q \in Presses : q # p =>
                 stop'[q] = stop[q] /\ chunks'[<<"stop", q>>] = chunks[<<"stop", q>>]
           /\ stop'[p] \in {"sending", "resending"} \/ chunks'[<<"stop", p>>] = <<>>
           /\ \A d \in Drains : /\ frame'[<<"drain", d>>] = frame[<<"drain", d>>]
                                 /\ chunks'[<<"drain", d>>] = chunks[<<"drain", d>>]
<1>1. CASE drainTask # 0
  BY <1>1 DEF Awaits, IdleInv, TypeOK, workVars
<1>2. CASE drainTask = 0
  BY <1>2, StopWorksIdle DEF Awaits
<1>. QED
  BY <1>1, <1>2

LEMMA DrainWorksIdle ==
    ASSUME TypeOK, NEW d \in Drains, NEW last, DrainWorks(d, last)
    PROVE  /\ \A e \in Drains : e # d =>
                 /\ drain'[e] = drain[e] /\ frame'[<<"drain", e>>] = frame[<<"drain", e>>]
                 /\ chunks'[<<"drain", e>>] = chunks[<<"drain", e>>]
           /\ \/ drain'[d] = "sending"
              \/ frame'[<<"drain", d>>] = NoFrame /\ chunks'[<<"drain", d>>] = <<>>
           /\ \A p \in Presses : chunks'[<<"stop", p>>] = chunks[<<"stop", p>>]
<1>. DEFINE w == <<"drain", d>>
<1>1. /\ w \in Workers /\ \A p \in Presses : <<"stop", p>> \in Workers /\ <<"stop", p>> # w
      /\ \A e \in Drains : <<"drain", e>> \in Workers /\ (e # d => <<"drain", e>> # w)
  BY WorkersAre
<1>2. /\ \A v \in Workers : v # w => frame'[v] = frame[v] /\ chunks'[v] = chunks[v]
      /\ \A e \in Drains : e # d => drain'[e] = drain[e]
  BY DEF DrainWorks, Sends, EndsWork, EndDrain, TypeOK
<1>3. drain'[d] = "sending" \/ (frame'[w] = NoFrame /\ chunks'[w] = <<>>)
  BY <1>1 DEF DrainWorks, EndsWork, TypeOK
<1>. QED
  BY <1>1, <1>2, <1>3

LEMMA IdleStep == IInv /\ IdleInv /\ [Next]_vars => IdleInv'
<1>. SUFFICES ASSUME IInv, IdleInv, [Next]_vars PROVE IdleInv'
  OBVIOUS
<1>1. TypeOK /\ PressInv /\ WorkInv
  BY DEF IInv, TypeInv, ControlInv
<1>2. ASSUME NEW p \in Presses, UNCHANGED drain,
             /\ \A q \in Presses : q # p =>
                   stop'[q] = stop[q] /\ chunks'[<<"stop", q>>] = chunks[<<"stop", q>>]
             /\ stop'[p] \in {"sending", "resending"} \/ chunks'[<<"stop", p>>] = <<>>
             /\ \A d \in Drains : /\ frame'[<<"drain", d>>] = frame[<<"drain", d>>]
                                   /\ chunks'[<<"drain", d>>] = chunks[<<"drain", d>>]
      PROVE  IdleInv'
  BY <1>2 DEF IdleInv
<1>3. ASSUME NEW d \in Drains, UNCHANGED stop,
             /\ \A e \in Drains : e # d =>
                   /\ drain'[e] = drain[e] /\ frame'[<<"drain", e>>] = frame[<<"drain", e>>]
                   /\ chunks'[<<"drain", e>>] = chunks[<<"drain", e>>]
             /\ \/ drain'[d] = "sending"
                \/ frame'[<<"drain", d>>] = NoFrame /\ chunks'[<<"drain", d>>] = <<>>
             /\ \A p \in Presses : chunks'[<<"stop", p>>] = chunks[<<"stop", p>>]
      PROVE  IdleInv'
  BY <1>3 DEF IdleInv
<1>4. CASE Connect \/ Forget \/ Press \/ Leave \/ Leaving \/ Capture \/ Diagnose
  BY <1>4 DEF IdleInv, Connect, Forget, Press, Leave, Leaving, CancelCalls, CancelReturns,
     Capture, Diagnose, taskVars, stopVars, drainVars, workVars
<1>5. CASE Notify
  <2>1. CASE MayDrain
    <3>1. PICK d \in Drains : drain[d] = "none" /\ drain' = [drain EXCEPT ![d] = "spawned"]
      BY <1>5, <2>1 DEF Notify
    <3>2. UNCHANGED <<stop, chunks, frame>>
      BY <1>5 DEF Notify, stopVars, workVars
    <3>. QED
      BY <1>1, <3>1, <3>2 DEF IdleInv, TypeOK
  <2>2. CASE ~MayDrain
    BY <1>5, <2>2 DEF Notify, IdleInv, stopVars, drainVars, workVars
  <2>. QED
    BY <2>1, <2>2
<1>6. ASSUME NEW p \in Presses, Starting(p) PROVE IdleInv'
  BY <1>6 DEF IdleInv, Starting, StartCalls, StartReturns, StartThrows, taskVars, stopVars,
     drainVars, workVars
<1>7. ASSUME NEW d \in Drains, BeginDrain(d) PROVE IdleInv'
  BY <1>1, <1>3, <1>7, DrainWorksIdle DEF BeginDrain, stopVars
<1>8. ASSUME NEW w \in Workers, FrameCalls(w) PROVE IdleInv'
  <2>1. \A v \in Workers : frame'[v] # NoFrame => frame[v] # NoFrame
    BY <1>1, <1>8 DEF FrameCalls, NoFrame, TypeOK
  <2>2. UNCHANGED <<stop, drain, chunks>>
    BY <1>8 DEF FrameCalls, stopVars, drainVars
  <2>. QED
    BY <2>1, <2>2, WorkersAre DEF IdleInv
<1>9. ASSUME NEW w \in Workers, FrameReturns(w) PROVE IdleInv'
  <2>1. CASE w[1] = "drain" /\ DrainWorks(w[2], lastAudio') /\ UNCHANGED stopVars
    BY <1>1, <1>3, <2>1, WorkersAre, DrainWorksIdle DEF stopVars
  <2>2. CASE /\ w[1] = "stop" /\ StopWorks(w[2], recordingState, lastAudio')
             /\ UNCHANGED <<shouldStop, awaited, drainVars>>
    BY <1>1, <1>2, <2>2, WorkersAre, StopWorksIdle DEF drainVars
  <2>. QED
    BY <1>9, <2>1, <2>2 DEF FrameReturns
<1>10. ASSUME NEW w \in Workers, FrameThrows(w) PROVE IdleInv'
  <2>1. /\ frame' = [frame EXCEPT ![w] = NoFrame]
        /\ chunks' = [chunks EXCEPT ![w] = <<>>]
    BY <1>10 DEF FrameThrows
  <2>2. /\ frame'[w] = NoFrame /\ chunks'[w] = <<>>
        /\ \A v \in Workers : v # w => frame'[v] = frame[v] /\ chunks'[v] = chunks[v]
    BY <1>1, <2>1 DEF TypeOK
  <2>3. CASE w[1] = "drain" /\ EndDrain(w[2]) /\ UNCHANGED stop
    <3>1. w[2] \in Drains /\ w = <<"drain", w[2]>>
      BY <2>3, WorkersAre
    <3>2. \A e \in Drains : e # w[2] => drain'[e] = drain[e]
      BY <1>1, <2>3 DEF EndDrain, TypeOK
    <3>3. /\ \A e \in Drains : e # w[2] => <<"drain", e>> # w /\ <<"drain", e>> \in Workers
          /\ \A p \in Presses : <<"stop", p>> # w /\ <<"stop", p>> \in Workers
      BY <3>1, WorkersAre
    <3>. QED
      BY <1>3, <2>2, <2>3, <3>1, <3>2, <3>3
  <2>4. CASE w[1] = "stop" /\ stop' = [stop EXCEPT ![w[2]] = "over"] /\ UNCHANGED drainVars
    <3>1. w[2] \in Presses /\ w = <<"stop", w[2]>>
      BY <2>4, WorkersAre
    <3>2. \A q \in Presses : q # w[2] => stop'[q] = stop[q]
      BY <1>1, <2>4 DEF TypeOK
    <3>3. /\ \A q \in Presses : q # w[2] => <<"stop", q>> # w /\ <<"stop", q>> \in Workers
          /\ \A d \in Drains : <<"drain", d>> # w /\ <<"drain", d>> \in Workers
      BY <3>1, WorkersAre
    <3>. QED
      BY <1>2, <2>2, <2>4, <3>1, <3>2, <3>3 DEF drainVars
  <2>. QED
    BY <1>10, <2>3, <2>4 DEF FrameThrows
<1>11. CASE Release
  <2>1. presses \in Presses /\ stop[presses] = "none" /\ UNCHANGED drain
    BY <1>1, <1>11 DEF Release, PressInv, drainVars
  <2>2. CASE recordingState = "recording"
    BY <1>1, <1>11, <2>1, <2>2 DEF Release, IdleInv, TypeOK, workVars
  <2>3. CASE recordingState # "recording"
    BY <1>1, <1>2, <1>11, <2>1, <2>3, AwaitsIdle DEF Release, ClosesMic
  <2>. QED
    BY <2>2, <2>3
<1>12. ASSUME NEW p \in Presses, CloseMic(p) \/ Awaited(p) \/ Yields(p) PROVE IdleInv'
  <2>1. UNCHANGED drain
    BY <1>12 DEF CloseMic, Awaited, Yields, drainVars
  <2>. QED
    BY <1>1, <1>2, <1>12, <2>1, StopWorksIdle, AwaitsIdle DEF CloseMic, ClosesMic, Awaited, Yields
<1>13. ASSUME NEW p \in Presses,
              AwaitTimesOut(p) \/ StopCalls(p) \/ StopReturns(p) \/ StopThrows(p)
       PROVE  IdleInv'
  <2>1. /\ stop[p] \notin {"sending", "resending"} /\ \E x : stop' = [stop EXCEPT ![p] = x]
        /\ UNCHANGED <<drain, chunks, frame>>
    BY <1>13 DEF AwaitTimesOut, StopCalls, StopReturns, StopThrows, StopFails, drainVars, workVars
  <2>2. \A q \in Presses : q # p => stop'[q] = stop[q]
    BY <1>1, <2>1 DEF TypeOK
  <2>3. chunks[<<"stop", p>>] = <<>>
    BY <2>1 DEF IdleInv
  <2>. QED
    BY <1>2, <2>1, <2>2, <2>3
<1>14. CASE UNCHANGED vars
  BY <1>14 DEF IdleInv, vars, stopVars, drainVars, workVars
<1>. QED
  BY <1>4, <1>5, <1>6, <1>7, <1>8, <1>9, <1>10, <1>11, <1>12, <1>13, <1>14
     DEF Next, Draining, Stopping

\* The frame under way and the chunks behind it are those of the drain task.
LEMMA UnderIs ==
    ASSUME NEW p, Ongoing(p)
    PROVE  /\ drainTask # 0 => /\ drainTask \in Drains /\ <<"drain", drainTask>> \in Workers
                               /\ Under = frame[<<"drain", drainTask>>]
                               /\ Behind = chunks[<<"drain", drainTask>>]
           /\ drainTask = 0 => Under = NoFrame /\ Behind = <<>>
           /\ Under \in {NoFrame} \union Calling \union Sent
           /\ Behind \in Seq(Chunks)
           /\ Silent(p) => Under = NoFrame /\ Behind = <<>>
           /\ (\A w \in Workers : frame[w] = NoFrame) => Under = NoFrame
<1>1. TypeOK
  BY DEF Ongoing, IInv, TypeInv
<1>2. drainTask # 0 => /\ drainTask \in Drains /\ <<"drain", drainTask>> \in Workers
                       /\ Under = frame[<<"drain", drainTask>>]
                       /\ Behind = chunks[<<"drain", drainTask>>]
  BY <1>1, WorkersAre DEF TypeOK, Under, Behind
<1>3. drainTask = 0 => Under = NoFrame /\ Behind = <<>>
  BY DEF Under, Behind
<1>4. Under \in {NoFrame} \union Calling \union Sent
  BY <1>1, <1>2, <1>3 DEF TypeOK
<1>5. Behind \in Seq(Chunks)
  <2>1. CASE drainTask # 0
    BY <1>1, <1>2, <2>1 DEF TypeOK
  <2>2. CASE drainTask = 0
    <3>1. Behind = <<>>
      BY <1>3, <2>2
    <3>. QED
      BY <3>1
  <2>. QED
    BY <2>1, <2>2
<1>. QED
  BY <1>2, <1>3, <1>4, <1>5 DEF Silent

\* A step that sends nothing, hears nothing and takes no stop on; it may end the
\* recording.
LEMMA QuietSole ==
    ASSUME NEW p, Ongoing(p),
           UNCHANGED <<stop, shouldStop, awaited, drainTask, drain, chunks, frame, pending,
                       wire, stopped, torn, lastAudio, captured, late>>,
           stream' \in {stream, 0}, mic' \in {mic, 0},
           start'[p] = start[p] \/ start'[p] = "over",
           recordingState' = recordingState \/ recordingState' \in {"idle", "failed"},
           leaving' = "cancelled" => leaving = "cancelled" \/ stream' = 0,
           WillStop(p) /\ p \notin late =>
              recordingState' = recordingState \/ Under = NoFrame
    PROVE  Sole(p)'
<1>1. LoneInv(p) /\ FlowInv(p) /\ (p \notin late => CountsInv(p))
  BY DEF Ongoing, Sole
<1>2. Under' = Under /\ Behind' = Behind /\ Base' = Base
  BY DEF Under, Behind, Base
<1>3. LoneInv(p)'
  BY <1>1 DEF LoneInv
<1>4. Silent(p) => Silent(p)'
  BY DEF Silent
<1>5. recordingState' = "recording" => recordingState = "recording"
  OBVIOUS
<1>6. FlowInv(p)'
  <2>1. QueueInv(p) => QueueInv(p)'
    BY <1>2 DEF QueueInv
  <2>. QED
    BY <1>1, <1>2, <1>4, <1>5, <2>1 DEF FlowInv
<1>7. p \notin late => CountsInv(p)'
  <2>1. WillStop(p)' => WillStop(p)
    BY DEF WillStop
  <2>2. p \notin late /\ WillStop(p)' /\ recordingState' # "stopping" => Under' = NoFrame
    BY <1>1, <1>2, <2>1 DEF CountsInv
  <2>. QED
    BY <1>1, <1>2, <1>4, <2>1, <2>2 DEF CountsInv
<1>. QED
  BY <1>3, <1>6, <1>7 DEF Sole

LEMMA ShellSole ==
    ASSUME NEW p, Ongoing(p), Connect \/ Forget \/ Leave \/ Leaving \/ Diagnose
    PROVE  Sole(p)'
<1>1. LoneInv(p) /\ (p \notin late => CountsInv(p))
  BY DEF Ongoing, Sole
<1>2. /\ UNCHANGED <<stop, shouldStop, awaited, drainTask, drain, chunks, frame, pending,
                      wire, stopped, torn, lastAudio, captured, late, start>>
      /\ stream' \in {stream, 0} /\ mic' \in {mic, 0}
      /\ leaving' = "cancelled" => leaving = "cancelled" \/ stream' = 0
      /\ recordingState' = recordingState \/ recordingState' \in {"idle", "failed"}
  BY DEF Connect, Forget, Leave, Leaving, CancelCalls, CancelReturns, Diagnose, Fail, uiVars,
     shellVars, buttonVars, recordingVars, micVars, tapVars, startVars, taskVars, stopVars, drainVars,
     workVars, streamVars
<1>3. ASSUME WillStop(p), p \notin late, recordingState' # recordingState PROVE Under = NoFrame
  <2>1. CASE Diagnose
    BY <1>1, <1>3, <2>1 DEF Diagnose, LoneInv, WillStop
  <2>2. CASE CancelReturns
    <3>1. Silent(p)
      BY <1>1, <1>3, <2>2 DEF CancelReturns, CountsInv, WillStop
    <3>. QED
      BY <3>1, UnderIs
  <2>3. recordingState' # recordingState => Diagnose \/ CancelReturns
    BY DEF Connect, Forget, Leave, Leaving, CancelCalls, recordingVars
  <2>. QED
    BY <1>3, <2>1, <2>2, <2>3
<1>. QED
  BY <1>2, <1>3, QuietSole

\* startRecording: until it returns nothing is heard.
LEMMA StartingSole ==
    ASSUME NEW p, Ongoing(p), NEW q \in Presses, Starting(q)
    PROVE  Sole(p)'
<1>1. LoneInv(p) /\ FlowInv(p) /\ (p \notin late => CountsInv(p)) /\ TypeOK /\ p \in Presses
  BY DEF Ongoing, Sole, IInv, TypeInv
<1>2. q = p /\ start[p] \in {"calling", "sending"} /\ Silent(p)
  <2>1. start[q] \notin {"none", "over"} /\ start[q] \in {"calling", "sending"}
    BY DEF Starting, StartCalls, StartReturns, StartThrows
  <2>2. q = p
    BY <2>1, OngoingIsAlone
  <2>. QED
    BY <1>1, <2>1, <2>2 DEF FlowInv
<1>3. UNCHANGED <<stop, shouldStop, awaited, drainTask, drain, chunks, frame, pending,
                  wire, stopped, torn, lastAudio, captured, leaving>>
  BY DEF Starting, StartCalls, StartReturns, StartThrows, shellVars, recordingVars, micVars, tapVars,
     taskVars, stopVars, drainVars, workVars, streamVars
<1>4. Under = NoFrame /\ Behind = <<>>
  BY <1>2, UnderIs
<1>5. Under' = Under /\ Behind' = Behind /\ Base' = Base
  BY <1>3 DEF Under, Behind, Base
<1>6. CASE StartThrows(p)
  <2>1. /\ start' = [start EXCEPT ![p] = "over"] /\ mic' = 0 /\ recordingState' = "failed"
        /\ UNCHANGED <<stream, late>>
    BY <1>6 DEF StartThrows, Fail, taskVars, streamVars
  <2>. QED
    BY <1>1, <1>3, <1>4, <2>1, QuietSole DEF TypeOK
<1>7. CASE StartCalls(p)
  <2>1. /\ start' = [start EXCEPT ![p] = "sending"] /\ stream' = p
        /\ UNCHANGED <<recordingState, mic, late>>
    BY <1>7 DEF StartCalls, recordingVars, micVars
  <2>2. LoneInv(p)'
    BY <1>1, <1>3, <2>1 DEF LoneInv
  <2>3. Silent(p)'
    BY <1>2, <1>3, <2>1 DEF Silent
  <2>4. FlowInv(p)'
    <3>1. QueueInv(p) => QueueInv(p)'
      BY <1>3, <1>5 DEF QueueInv
    <3>. QED
      BY <1>1, <1>3, <1>5, <2>1, <2>3, <3>1 DEF FlowInv
  <2>5. CountsInv(p)'
    <3>1. lastAudio' = Len(wire'[p])
      BY <2>3 DEF Silent
    <3>. QED
      BY <1>4, <1>5, <2>3, <3>1 DEF CountsInv
  <2>. QED
    BY <2>2, <2>4, <2>5 DEF Sole
<1>8. CASE StartReturns(p)
  <2>1. /\ start' = [start EXCEPT ![p] = "over"] /\ mic' = p
        /\ late' = IF Overtaken(p) THEN late \union {p} ELSE late
        /\ UNCHANGED <<recordingState, stream>>
    BY <1>8 DEF StartReturns, streamVars
  <2>2. LoneInv(p)'
    BY <1>1, <1>3, <2>1 DEF LoneInv
  <2>3. FlowInv(p)'
    <3>1. QueueInv(p) => QueueInv(p)'
      BY <1>3, <1>5 DEF QueueInv
    <3>2. start'[p] = "over"
      BY <1>1, <2>1 DEF TypeOK
    <3>. QED
      BY <1>1, <1>3, <1>5, <2>1, <3>1, <3>2 DEF FlowInv
  <2>4. p \notin late' => CountsInv(p)'
    BY <1>3, <2>1 DEF Overtaken, CountsInv, WillStop
  <2>. QED
    BY <2>2, <2>3, <2>4 DEF Sole
<1>. QED
  BY <1>2, <1>6, <1>7, <1>8 DEF Starting

\* The tap.
LEMMA CaptureSole ==
    ASSUME NEW p, Ongoing(p), Capture
    PROVE  Sole(p)'
<1>1. LoneInv(p) /\ FlowInv(p) /\ (p \notin late => CountsInv(p)) /\ TypeOK /\ p \in Presses
  BY DEF Ongoing, Sole, IInv, TypeInv
<1>2. /\ mic = p /\ p # 0 /\ mic' = mic
      /\ pending' = Append(pending, [press |-> p, n |-> captured[p] + 1])
      /\ captured' = [captured EXCEPT ![p] = @ + 1]
      /\ UNCHANGED <<stop, shouldStop, awaited, drainTask, drain, chunks, frame, start,
                      wire, stopped, torn, lastAudio, late, leaving, stream, recordingState>>
  BY OngoingIsAlone DEF Capture, NewChunk, uiVars, shellVars, startVars, stopVars, drainVars, streamVars,
     Presses
<1>3. LoneInv(p)'
  BY <1>1, <1>2 DEF LoneInv
<1>4. ~Silent(p)
  BY <1>2 DEF Silent
<1>5. Under' = Under /\ Behind' = Behind /\ Base' = Base
  BY <1>2 DEF Under, Behind, Base
<1>6. QueueInv(p) => QueueInv(p)'
  <2>1. SUFFICES ASSUME QueueInv(p) PROVE QueueInv(p)'
    OBVIOUS
  <2>2. /\ captured'[p] = captured[p] + 1 /\ captured[p] \in Nat /\ lastAudio \in Nat
        /\ pending \in Seq(Chunks) /\ Base \in Nat /\ Len(Behind) \in Nat
    BY <1>1, <1>2, UnderIs DEF TypeOK, Base
  <2>3. /\ Len(pending) \in Nat /\ Len(pending') = Len(pending) + 1
        /\ \A i \in 1..Len(pending) : pending'[i] = pending[i]
        /\ pending'[Len(pending) + 1] = [press |-> p, n |-> captured[p] + 1]
    BY <1>2, <2>2
  <2>4. captured[p] = Base + Len(Behind) + Len(pending)
    BY <2>1 DEF QueueInv
  <2>5. \A i \in 1..Len(pending') : pending'[i] = [press |-> p, n |-> Base + Len(Behind) + i]
    <3>1. TAKE i \in 1..Len(pending')
    <3>2. CASE i \in 1..Len(pending)
      BY <2>1, <2>3, <3>2 DEF QueueInv
    <3>3. CASE i = Len(pending) + 1
      BY <2>2, <2>3, <2>4, <3>3
    <3>. QED
      BY <2>3, <3>1, <3>2, <3>3
  <2>6. Base + Len(Behind) + Len(pending') = captured'[p]
    BY <2>2, <2>3, <2>4
  <2>. QED
    BY <1>2, <1>5, <2>1, <2>5, <2>6 DEF QueueInv
<1>7. FlowInv(p)'
  BY <1>1, <1>2, <1>4, <1>5, <1>6 DEF FlowInv
<1>8. p \notin late => CountsInv(p)'
  BY <1>1, <1>2, <1>4, <1>5 DEF CountsInv, WillStop
<1>. QED
  BY <1>2, <1>3, <1>7, <1>8 DEF Sole

LEMMA NotifySole ==
    ASSUME NEW p, Ongoing(p), Notify
    PROVE  Sole(p)'
<1>1. /\ LoneInv(p) /\ FlowInv(p) /\ (p \notin late => CountsInv(p)) /\ TypeOK /\ p \in Presses
      /\ IdleInv
  BY DEF Ongoing, Sole, IInv, TypeInv
<1>2. UNCHANGED <<stop, shouldStop, awaited, chunks, frame, start, pending, captured, mic, wire,
                  stopped, torn, lastAudio, late, leaving, stream, recordingState>>
  BY DEF Notify, uiVars, shellVars, startVars, stopVars, workVars, streamVars
<1>3. CASE ~MayDrain
  BY <1>2, <1>3, QuietSole DEF Notify, drainVars
<1>4. CASE MayDrain
  <2>1. PICK d \in Drains : /\ drain[d] = "none" /\ drain' = [drain EXCEPT ![d] = "spawned"]
                            /\ drainTask' = d
    BY <1>4 DEF Notify
  <2>2. /\ recordingState = "recording" /\ drainTask = 0 /\ d # 0 /\ stop[p] \in {"none", "tail"}
    BY <1>1, <1>4 DEF MayDrain, LoneInv, Drains
  <2>3. LoneInv(p)'
    <3>1. \A e \in Drains : drain[e] \notin {"spawned", "sending"}
      BY <1>1, <2>2 DEF LoneInv, Drains
    <3>2. \A e \in Drains : drain'[e] \in {"spawned", "sending"} <=> e = drainTask'
      BY <1>1, <2>1, <3>1 DEF TypeOK
    <3>. QED
      BY <1>1, <1>2, <2>2, <3>2 DEF LoneInv
  <2>4. Under = NoFrame /\ Behind = <<>>
    BY <2>2, UnderIs
  <2>5. Under' = Under /\ Behind' = Behind /\ Base' = Base
    <3>1. frame[<<"drain", d>>] = NoFrame /\ chunks[<<"drain", d>>] = <<>>
      BY <1>1, <2>1 DEF IdleInv
    <3>. QED
      BY <1>2, <2>1, <2>2, <2>4, <3>1 DEF Under, Behind, Base
  <2>6. Silent(p) => Silent(p)'
    BY <1>2 DEF Silent
  <2>7. FlowInv(p)'
    <3>1. QueueInv(p) => QueueInv(p)'
      BY <1>2, <2>5 DEF QueueInv
    <3>. QED
      BY <1>1, <1>2, <2>5, <2>6, <3>1 DEF FlowInv
  <2>8. p \notin late => CountsInv(p)'
    BY <1>1, <1>2, <2>5, <2>6 DEF CountsInv, WillStop
  <2>. QED
    BY <1>2, <2>3, <2>7, <2>8 DEF Sole
<1>. QED
  BY <1>3, <1>4

\* A step that takes the stop on, after the recording, and sends nothing.
LEMMA StopSole ==
    ASSUME NEW p, Ongoing(p), NEW x, stop' = [stop EXCEPT ![p] = x],
           x \notin {"none", "tail", "sending", "resending"},
           x \in {"waiting", "rewaiting"} => drainTask \in {0, awaited'[p]},
           x \notin {"waiting", "rewaiting"} => drainTask = 0,
           UNCHANGED <<start, drainTask, drain, chunks, frame, wire, torn, lastAudio, captured,
                       late, leaving>>,
           stream' \in {stream, 0}, mic' \in {mic, 0}, pending' \in {pending, <<>>},
           recordingState' # "recording",
           stopped'[p] # -1 => x \in {"receiving", "over"},
           x \in {"calling", "receiving"} => p \in shouldStop',
           p \notin late /\ WillStop(p)' =>
              /\ recordingState' # "stopping" => Under = NoFrame
              /\ Under = NoFrame =>
                    lastAudio = Len(wire[p]) \/ (p \in torn /\ lastAudio = Len(wire[p]) - 1)
    PROVE  Sole(p)'
<1>1. /\ LoneInv(p) /\ FlowInv(p) /\ (p \notin late => CountsInv(p)) /\ p \in Presses
      /\ stop'[p] = x
  BY DEF Ongoing, Sole, IInv, TypeInv, TypeOK
<1>2. Under' = Under
  BY DEF Under
<1>3. LoneInv(p)'
  BY <1>1 DEF LoneInv
<1>4. Silent(p) => Silent(p)'
  BY DEF Silent
<1>5. FlowInv(p)'
  BY <1>1, <1>2, <1>4 DEF FlowInv
<1>6. p \notin late => CountsInv(p)'
  BY <1>1, <1>2, <1>4 DEF CountsInv
<1>. QED
  BY <1>3, <1>5, <1>6 DEF Sole

\* After the recording the worker of the stop has nothing to send.
LEMMA StopHasNothing ==
    ASSUME NEW p, Ongoing(p), NEW s, s # "recording", NEW last, StopWorks(p, s, last),
           stop[p] \notin {"sending", "resending"}
    PROVE  /\ UNCHANGED <<chunks, frame>> /\ pending' \in {pending, <<>>}
           /\ stop' = [stop EXCEPT ![p] = AfterRound(p)]
<1>. DEFINE w == <<"stop", p>>
<1>1. /\ TypeOK /\ p \in Presses /\ w \in Workers /\ frame[w] = NoFrame /\ chunks[w] = <<>>
  BY WorkersAre DEF Ongoing, IInv, TypeInv, ControlInv, WorkInv, IdleInv
<1>2. EndsWork(w, s) /\ stop' = [stop EXCEPT ![p] = AfterRound(p)]
  BY DEF StopWorks, Sends
<1>. QED
  BY <1>1, <1>2 DEF EndsWork, TypeOK

LEMMA AwaitsNothing ==
    ASSUME NEW p, Ongoing(p), NEW s, s # "recording", Awaits(p, s),
           stop[p] \notin {"sending", "resending"}
    PROVE  \E x :
              /\ UNCHANGED <<chunks, frame>> /\ pending' \in {pending, <<>>}
              /\ stop' = [stop EXCEPT ![p] = x]
              /\ \/ x \in {"waiting", "rewaiting"} /\ drainTask = awaited'[p]
                 \/ x \in {"yielded", "calling", "over"} /\ drainTask = 0
              /\ x = "calling" => p \in shouldStop
<1>1. TypeOK /\ p \in Presses
  BY DEF Ongoing, IInv, TypeInv
<1>2. CASE drainTask # 0
  <2>1. /\ awaited' = [awaited EXCEPT ![p] = drainTask] /\ UNCHANGED workVars
        /\ stop' = [stop EXCEPT ![p] = IF stop[p] \in FirstRound THEN "waiting" ELSE "rewaiting"]
    BY <1>2 DEF Awaits
  <2>2. awaited'[p] = drainTask
    BY <1>1, <2>1 DEF TypeOK
  <2>3. PICK x \in {"waiting", "rewaiting"} : stop' = [stop EXCEPT ![p] = x]
    BY <2>1
  <2>. QED
    BY <2>1, <2>2, <2>3 DEF workVars
<1>3. CASE drainTask = 0
  <2>1. StopWorks(p, s, lastAudio)
    BY <1>3 DEF Awaits
  <2>2. AfterRound(p) \in {"yielded", "calling", "over"} /\ (AfterRound(p) = "calling" => p \in shouldStop)
    BY DEF AfterRound
  <2>. QED
    BY <1>3, <2>1, <2>2, StopHasNothing
<1>. QED
  BY <1>2, <1>3

\* The recording ends where it stands: the microphone is closed and the stop is
\* going to be sent.
LEMMA ClosesSole ==
    ASSUME NEW p, Ongoing(p), ClosesMic(p), stop[p] \in {"none", "tail"},
           UNCHANGED <<start, drainTask, drain, wire, stopped, torn, lastAudio, captured,
                       late, leaving, stream>>
    PROVE  Sole(p)'
<1>1. LoneInv(p) /\ FlowInv(p)
  BY DEF Ongoing, Sole
<1>2. mic' = 0 /\ recordingState' # "recording" /\ Awaits(p, recordingState')
  BY DEF ClosesMic, MicClosed
<1>3. PICK x :
         /\ UNCHANGED <<chunks, frame>> /\ pending' \in {pending, <<>>}
         /\ stop' = [stop EXCEPT ![p] = x]
         /\ \/ x \in {"waiting", "rewaiting"} /\ drainTask = awaited'[p]
            \/ x \in {"yielded", "calling", "over"} /\ drainTask = 0
         /\ x = "calling" => p \in shouldStop
  BY <1>2, AwaitsNothing
<1>4. stopped'[p] = -1
  BY <1>1 DEF LoneInv
<1>5. ASSUME WillStop(p)'
      PROVE  /\ recordingState' # "stopping" => Under = NoFrame
             /\ Under = NoFrame => lastAudio = Len(wire[p])
  <2>1. p \notin shouldStop
    BY <1>1 DEF LoneInv
  <2>2. recordingState = "recording" /\ recordingState' = "stopping"
    BY <1>5, <2>1 DEF ClosesMic, WillStop
  <2>3. QueueInv(p)
    BY <1>1, <2>2 DEF FlowInv
  <2>. QED
    BY <2>2, <2>3 DEF QueueInv
<1>6. shouldStop \subseteq shouldStop'
  BY DEF ClosesMic
<1>. QED
  BY <1>2, <1>3, <1>4, <1>5, <1>6, StopSole

\* stopRecording.
LEMMA ReleaseSole ==
    ASSUME NEW p, Ongoing(p), Release
    PROVE  Sole(p)'
<1>1. /\ LoneInv(p) /\ FlowInv(p) /\ (p \notin late => CountsInv(p)) /\ TypeOK /\ p \in Presses
      /\ p = presses /\ stop[p] = "none"
  BY DEF Ongoing, Sole, IInv, TypeInv, ControlInv, PressInv, Release
<1>2. UNCHANGED <<start, drainTask, drain, wire, stopped, torn, lastAudio, captured, late, leaving,
                  stream>>
  BY DEF Release, shellVars, tapVars, startVars, drainVars, streamVars
<1>3. CASE recordingState = "recording"
  <2>1. /\ stop' = [stop EXCEPT ![p] = "tail"]
        /\ UNCHANGED <<recordingState, mic, shouldStop, awaited, chunks, frame, pending>>
    BY <1>1, <1>3 DEF Release, workVars
  <2>2. stop'[p] = "tail"
    BY <1>1, <2>1 DEF TypeOK
  <2>3. Under' = Under /\ Behind' = Behind /\ Base' = Base
    BY <1>2, <2>1 DEF Under, Behind, Base
  <2>4. LoneInv(p)'
    BY <1>1, <1>2, <2>1, <2>2 DEF LoneInv
  <2>5. Silent(p) => Silent(p)'
    BY <1>2, <2>1 DEF Silent
  <2>6. FlowInv(p)'
    <3>1. QueueInv(p) => QueueInv(p)'
      BY <1>2, <2>1, <2>3 DEF QueueInv
    <3>. QED
      BY <1>1, <1>2, <2>1, <2>3, <2>5, <3>1 DEF FlowInv
  <2>7. p \notin late => CountsInv(p)'
    BY <1>1, <1>2, <2>2, <2>5 DEF CountsInv, WillStop
  <2>. QED
    BY <1>2, <2>4, <2>6, <2>7 DEF Sole
<1>4. CASE recordingState # "recording"
  <2>1. ClosesMic(p)
    BY <1>1, <1>4 DEF Release
  <2>. QED
    BY <1>1, <1>2, <2>1, ClosesSole
<1>. QED
  BY <1>3, <1>4

LEMMA StoppingSole ==
    ASSUME NEW p, Ongoing(p), NEW q \in Presses, Stopping(q)
    PROVE  Sole(p)'
<1>1. /\ LoneInv(p) /\ (p \notin late => CountsInv(p)) /\ TypeOK /\ p \in Presses
  BY DEF Ongoing, Sole, IInv, TypeInv
<1>2. q = p
  <2>1. stop[q] \notin {"none", "over"}
    BY DEF Stopping, CloseMic, Awaited, AwaitTimesOut, Yields, StopCalls, StopReturns, StopThrows
  <2>. QED
    BY <2>1, OngoingIsAlone
<1>3. UNCHANGED <<start, drainTask, drain, wire, torn, lastAudio, captured, late, leaving>>
  BY DEF Stopping, CloseMic, Awaited, AwaitTimesOut, Yields, StopCalls, StopReturns, StopThrows,
     uiVars, shellVars, startVars, recordingVars, micVars, tapVars, drainVars, streamVars
<1>4. stop[p] \notin {"none", "tail"} => recordingState # "recording"
  BY <1>1 DEF LoneInv
<1>5. stop[p] \in {"waiting", "rewaiting"} /\ drain[awaited[p]] = "over" => drainTask = 0
  <2>1. SUFFICES ASSUME stop[p] \in {"waiting", "rewaiting"}, drain[awaited[p]] = "over",
                        drainTask # 0
                 PROVE  FALSE
    OBVIOUS
  <2>2. drainTask \in Drains /\ drainTask = awaited[p]
    BY <1>1, <2>1 DEF LoneInv, TypeOK
  <2>. QED
    BY <1>1, <2>1, <2>2 DEF LoneInv
<1>6. ASSUME p \notin late, WillStop(p)
      PROVE  /\ recordingState # "stopping" => Under = NoFrame
             /\ Under = NoFrame =>
                   lastAudio = Len(wire[p]) \/ (p \in torn /\ lastAudio = Len(wire[p]) - 1)
  BY <1>1, <1>6 DEF CountsInv
<1>7. CASE CloseMic(p)
  <2>1. /\ ClosesMic(p) /\ stop[p] = "tail" /\ UNCHANGED <<stopped, stream>>
    BY <1>7 DEF CloseMic, streamVars
  <2>. QED
    BY <1>3, <2>1, ClosesSole
<1>8. CASE Awaited(p)
  <2>1. /\ stop[p] \in {"waiting", "rewaiting"} /\ drainTask = 0
        /\ StopWorks(p, recordingState, lastAudio)
        /\ UNCHANGED <<shouldStop, recordingState, mic, stream, stopped>>
    BY <1>5, <1>8 DEF Awaited, recordingVars, micVars, streamVars
  <2>2. /\ UNCHANGED <<chunks, frame>> /\ pending' \in {pending, <<>>}
        /\ stop' = [stop EXCEPT ![p] = AfterRound(p)]
    BY <1>4, <2>1, StopHasNothing
  <2>3. AfterRound(p) \in {"yielded", "calling", "over"} /\ (AfterRound(p) = "calling" => p \in shouldStop)
    BY DEF AfterRound
  <2>4. stopped'[p] = -1
    BY <1>1, <2>1 DEF LoneInv
  <2>5. WillStop(p)' => WillStop(p)
    BY <2>1 DEF WillStop
  <2>. QED
    BY <1>3, <1>4, <1>6, <2>1, <2>2, <2>3, <2>4, <2>5, StopSole
<1>9. CASE Yields(p)
  <2>1. /\ stop[p] = "yielded" /\ Awaits(p, recordingState)
        /\ UNCHANGED <<shouldStop, recordingState, mic, stream, stopped>>
    BY <1>9 DEF Yields, recordingVars, micVars, streamVars
  <2>2. PICK x :
           /\ UNCHANGED <<chunks, frame>> /\ pending' \in {pending, <<>>}
           /\ stop' = [stop EXCEPT ![p] = x]
           /\ \/ x \in {"waiting", "rewaiting"} /\ drainTask = awaited'[p]
              \/ x \in {"yielded", "calling", "over"} /\ drainTask = 0
           /\ x = "calling" => p \in shouldStop
    BY <1>4, <2>1, AwaitsNothing
  <2>4. stopped'[p] = -1
    BY <1>1, <2>1 DEF LoneInv
  <2>5. WillStop(p)' => WillStop(p)
    BY <2>1 DEF WillStop
  <2>. QED
    BY <1>3, <1>4, <1>6, <2>1, <2>2, <2>4, <2>5, StopSole
<1>10. CASE AwaitTimesOut(p) \/ StopThrows(p) \/ StopReturns(p)
  <2>1. /\ stop' = [stop EXCEPT ![p] = "over"] /\ recordingState' # "recording"
        /\ UNCHANGED <<chunks, frame, pending, stopped>>
        /\ stream' \in {stream, 0} /\ mic' \in {mic, 0}
    BY <1>10 DEF AwaitTimesOut, StopThrows, StopReturns, StopFails, Fail, Stopped, micVars,
       workVars, streamVars
  <2>2. drainTask = 0
    BY <1>1, <1>5, <1>10 DEF AwaitTimesOut, StopThrows, StopReturns, LoneInv
  <2>3. ~WillStop(p)'
    BY <1>1, <2>1 DEF WillStop, TypeOK
  <2>. QED
    BY <1>3, <2>1, <2>2, <2>3, StopSole
<1>11. CASE StopCalls(p)
  <2>1. /\ stop[p] = "calling" /\ stop' = [stop EXCEPT ![p] = "receiving"]
        /\ UNCHANGED <<chunks, frame, pending, stream, mic, recordingState, shouldStop>>
    BY <1>11 DEF StopCalls, recordingVars, micVars, workVars
  <2>2. drainTask = 0
    BY <1>1, <2>1 DEF LoneInv
  <2>3. ~WillStop(p)' /\ p \in shouldStop
    BY <1>1, <2>1 DEF WillStop, TypeOK, LoneInv
  <2>. QED
    BY <1>3, <1>4, <2>1, <2>2, <2>3, StopSole
<1>. QED
  BY <1>2, <1>7, <1>8, <1>9, <1>10, <1>11 DEF Stopping

\* The worker of the drain task: last is the number of the last frame it has sent.
LEMMA DrainWorksSole ==
    ASSUME NEW p, Ongoing(p), drainTask # 0, NEW last \in Nat, DrainWorks(drainTask, last),
           lastAudio' = last,
           UNCHANGED <<recordingState, stop, shouldStop, awaited, start, mic, captured, wire,
                       stopped, torn, late, leaving, stream>>,
           Silent(p) => last = lastAudio,
           recordingState = "recording" => last = Len(wire[p]) /\ last = Base,
           p \notin late /\ WillStop(p) =>
              last = Len(wire[p]) \/ (p \in torn /\ last = Len(wire[p]) - 1)
    PROVE  Sole(p)'
<1>. DEFINE w == <<"drain", drainTask>>
<1>1. /\ LoneInv(p) /\ FlowInv(p) /\ (p \notin late => CountsInv(p)) /\ TypeOK /\ p \in Presses
      /\ drainTask \in Drains /\ w \in Workers /\ Under = frame[w] /\ Behind = chunks[w]
      /\ Behind \in Seq(Chunks) /\ pending \in Seq(Chunks) /\ Len(wire[p]) \in Nat
  <2>1. /\ LoneInv(p) /\ FlowInv(p) /\ (p \notin late => CountsInv(p)) /\ TypeOK /\ p \in Presses
    BY DEF Ongoing, Sole, IInv, TypeInv
  <2>2. wire[p] \in Seq(Frames) /\ pending \in Seq(Chunks)
    BY <2>1 DEF TypeOK
  <2>3. Len(wire[p]) \in Nat
    BY <2>2
  <2>. QED
    BY <2>1, <2>2, <2>3, UnderIs
<1>2. CASE /\ Sends(w, recordingState, last)
           /\ drain' = [drain EXCEPT ![drainTask] = "sending"]
           /\ UNCHANGED drainTask
  <2>1. PICK q : q = Rest(w)
    OBVIOUS
  <2>2. /\ recordingState = "recording" /\ q # <<>> /\ q \in Seq(Chunks)
        /\ q = IF Behind # <<>> THEN Behind ELSE pending
        /\ pending' = IF Behind # <<>> THEN pending ELSE <<>>
        /\ chunks'[w] = Tail(q)
        /\ frame'[w] = [at |-> "calling", msg |-> [chunk |-> Head(q), seq |-> last + 1]]
    BY <1>1, <1>2, <2>1 DEF Sends, Rest, TypeOK, NextSeq
  <2>3. /\ QueueInv(p) /\ last = Len(wire[p]) /\ last = Base
    BY <1>1, <2>2 DEF FlowInv
  <2>4. /\ Under' = frame'[w] /\ Behind' = Tail(q)
        /\ Under' # NoFrame /\ Base' = last + 1
    BY <1>2, <2>2 DEF Under, Behind, Base, NoFrame
  <2>5. /\ Head(q) = q[1] /\ Len(q) \in Nat \ {0} /\ Len(Tail(q)) = Len(q) - 1
        /\ \A i \in 1..Len(Tail(q)) : Tail(q)[i] = q[i + 1]
    BY <2>2, HeadTail
  <2>6. \A i \in 1..Len(q) : q[i] = [press |-> p, n |-> last + i]
    <3>1. CASE Behind # <<>>
      BY <2>2, <2>3, <3>1 DEF QueueInv
    <3>2. CASE Behind = <<>>
      <4>1. Len(Behind) = 0
        BY <3>2
      <4>. QED
        BY <2>2, <2>3, <3>2, <4>1 DEF QueueInv
    <3>. QED
      BY <3>1, <3>2
  <2>7. Head(q) = [press |-> p, n |-> last + 1]
    BY <2>5, <2>6
  <2>8. \A i \in 1..Len(Behind') : Behind'[i] = [press |-> p, n |-> Base' + i]
    <3>1. TAKE i \in 1..Len(Behind')
    <3>2. i \in 1..Len(Tail(q)) /\ i + 1 \in 1..Len(q) /\ Behind'[i] = q[i + 1]
      BY <2>4, <2>5
    <3>3. last + (i + 1) = (last + 1) + i
      BY <3>2
    <3>. QED
      BY <2>4, <2>6, <3>2, <3>3
  <2>9. /\ \A i \in 1..Len(pending') : pending'[i] = [press |-> p, n |-> Base' + Len(Behind') + i]
        /\ Base' + Len(Behind') + Len(pending') = captured'[p]
    <3>1. captured[p] = last + Len(Behind) + Len(pending) /\ captured'[p] = captured[p]
      BY <2>3 DEF QueueInv
    <3>2. CASE Behind # <<>>
      <4>1. pending' = pending /\ Base' + Len(Behind') = last + Len(Behind)
        BY <2>2, <2>4, <2>5, <3>2
      <4>. QED
        BY <2>3, <3>1, <4>1 DEF QueueInv
    <3>3. CASE Behind = <<>>
      <4>1. pending' = <<>> /\ Len(pending') = 0 /\ Len(Behind) = 0 /\ q = pending
        BY <2>2, <3>3
      <4>. QED
        BY <2>4, <2>5, <3>1, <4>1
    <3>. QED
      BY <3>2, <3>3
  <2>10. Under' = [at |-> "calling", msg |-> Frame(p, Len(wire'[p]) + 1)] /\ lastAudio' = Len(wire'[p])
    BY <2>2, <2>3, <2>4, <2>7 DEF Frame
  <2>11. QueueInv(p)'
    BY <2>4, <2>8, <2>9 DEF QueueInv
  <2>12. ~Silent(p)
    <3>1. CASE Behind # <<>>
      BY <3>1, UnderIs
    <3>2. CASE Behind = <<>>
      BY <2>2, <3>2 DEF Silent
    <3>. QED
      BY <3>1, <3>2
  <2>13. FlowInv(p)'
    BY <1>1, <2>10, <2>11, <2>12 DEF FlowInv
  <2>14. LoneInv(p)'
    <3>1. \A e \in Drains : drain'[e] \in {"spawned", "sending"} <=> drain[e] \in {"spawned", "sending"}
      BY <1>1, <1>2 DEF LoneInv, TypeOK
    <3>. QED
      BY <1>1, <1>2, <3>1 DEF LoneInv
  <2>15. p \notin late => CountsInv(p)'
    <3>1. ~WillStop(p)'
      BY <1>1, <2>2 DEF WillStop, LoneInv
    <3>. QED
      BY <1>1, <2>12, <3>1 DEF CountsInv
  <2>. QED
    BY <2>13, <2>14, <2>15 DEF Sole
<1>3. CASE EndsWork(w, recordingState) /\ EndDrain(drainTask)
  <2>1. /\ drainTask' = 0 /\ drain' = [drain EXCEPT ![drainTask] = "over"]
        /\ chunks' = [chunks EXCEPT ![w] = <<>>] /\ frame' = [frame EXCEPT ![w] = NoFrame]
        /\ pending' \in {pending, <<>>}
    BY <1>3 DEF EndsWork, EndDrain
  <2>2. Under' = NoFrame /\ Behind' = <<>> /\ Base' = last
    BY <2>1 DEF Under, Behind, Base
  <2>3. LoneInv(p)'
    <3>1. \A e \in Drains : drain'[e] \notin {"spawned", "sending"} /\ e # 0
      BY <1>1, <2>1, SMTT(30) DEF LoneInv, TypeOK, Drains
    <3>. QED
      BY <1>1, <2>1, <3>1 DEF LoneInv
  <2>4. Silent(p) => Silent(p)'
    BY <1>1, <2>1 DEF Silent, TypeOK
  <2>5. recordingState = "recording" => QueueInv(p)'
    <3>1. SUFFICES ASSUME recordingState = "recording" PROVE QueueInv(p)'
      OBVIOUS
    <3>2. Rest(w) = <<>> /\ Behind = <<>> /\ pending = <<>> /\ pending' = <<>>
      BY <1>1, <1>3, <3>1 DEF EndsWork, Rest
    <3>3. /\ Len(Behind) = 0 /\ Len(pending) = 0 /\ Len(Behind') = 0 /\ Len(pending') = 0
      BY <2>2, <3>2
    <3>4. captured[p] = last /\ last = Len(wire[p])
      BY <1>1, <3>1, <3>3 DEF FlowInv, QueueInv
    <3>. QED
      BY <2>2, <3>3, <3>4 DEF QueueInv
  <2>6. FlowInv(p)'
    BY <1>1, <2>2, <2>4, <2>5 DEF FlowInv, NoFrame
  <2>7. p \notin late => CountsInv(p)'
    <3>1. WillStop(p)' => WillStop(p)
      BY DEF WillStop
    <3>. QED
      BY <1>1, <2>2, <2>4, <3>1 DEF CountsInv
  <2>. QED
    BY <2>3, <2>6, <2>7 DEF Sole
<1>. QED
  BY <1>2, <1>3 DEF DrainWorks

\* One frame more on the wire.
LEMMA OneFrameMore ==
    ASSUME NEW p, NEW q \in Seq(Frames), q = [i \in 1..Len(q) |-> Frame(p, i)],
           Frame(p, Len(q) + 1) \in Frames
    PROVE  LET r == Append(q, Frame(p, Len(q) + 1))
           IN  Len(r) = Len(q) + 1 /\ r = [i \in 1..Len(r) |-> Frame(p, i)]
<1>. DEFINE r == Append(q, Frame(p, Len(q) + 1))
<1>1. /\ Len(q) \in Nat /\ Len(r) = Len(q) + 1 /\ r \in Seq(Frames)
      /\ \A i \in 1..Len(q) : r[i] = q[i]
      /\ r[Len(q) + 1] = Frame(p, Len(q) + 1)
  OBVIOUS
<1>2. \A i \in 1..Len(q) : q[i] = Frame(p, i)
  BY Zenon
<1>. HIDE DEF r
<1>3. \A i \in 1..Len(r) : r[i] = Frame(p, i)
  <2>1. TAKE i \in 1..Len(r)
  <2>2. i \in 1..Len(q) \/ i = Len(q) + 1
    BY <1>1
  <2>. QED
    BY <1>1, <1>2, <2>2
<1>4. r = [i \in 1..Len(r) |-> r[i]]
  BY <1>1
<1>5. r = [i \in 1..Len(r) |-> Frame(p, i)]
  BY <1>3, <1>4
<1>. QED
  BY <1>1, <1>5 DEF r

\* The frames: in a recording that is not crossed they are all of the drain task.
LEMMA FrameIsUnder ==
    ASSUME NEW p, Ongoing(p), NEW w \in Workers, frame[w].at \in {"calling", "sent"}
    PROVE  /\ drainTask # 0 /\ drainTask \in Drains /\ w = <<"drain", drainTask>>
           /\ w[1] = "drain" /\ w[2] = drainTask
           /\ Under = frame[w] /\ Under # NoFrame /\ ~Silent(p)
<1>1. frame[w] # NoFrame
  BY DEF NoFrame
<1>2. drainTask \in Drains /\ drainTask # 0 /\ w = <<"drain", drainTask>>
  BY <1>1, OngoingIsAlone DEF Drains
<1>3. Under = frame[w]
  BY <1>2, UnderIs
<1>. QED
  BY <1>1, <1>2, <1>3, UnderIs

LEMMA BeginDrainSole ==
    ASSUME NEW p, Ongoing(p), NEW d \in Drains, BeginDrain(d)
    PROVE  Sole(p)'
<1>1. /\ LoneInv(p) /\ FlowInv(p) /\ (p \notin late => CountsInv(p)) /\ TypeOK /\ IdleInv
  BY DEF Ongoing, Sole, IInv, TypeInv
<1>2. /\ drain[d] = "spawned" /\ DrainWorks(d, lastAudio)
      /\ UNCHANGED <<lastAudio, recordingState, stop, shouldStop, awaited, start, mic, captured, wire,
                      stopped, torn, late, leaving, stream>>
  BY DEF BeginDrain, uiVars, shellVars, startVars, recordingVars, micVars, tapVars, stopVars, streamVars
<1>3. d = drainTask /\ d # 0 /\ lastAudio \in Nat
  BY <1>1, <1>2 DEF LoneInv, Drains, TypeOK
<1>4. Under = NoFrame /\ Base = lastAudio
  <2>1. frame[<<"drain", d>>] = NoFrame
    BY <1>1, <1>2 DEF IdleInv
  <2>. QED
    BY <1>3, <2>1 DEF Under, Base
<1>5. recordingState = "recording" => lastAudio = Len(wire[p])
  BY <1>1, <1>4 DEF FlowInv, QueueInv
<1>6. p \notin late /\ WillStop(p) =>
         lastAudio = Len(wire[p]) \/ (p \in torn /\ lastAudio = Len(wire[p]) - 1)
  BY <1>1, <1>4 DEF CountsInv
<1>. QED
  BY <1>2, <1>3, <1>4, <1>5, <1>6, DrainWorksSole

LEMMA FrameCallsSole ==
    ASSUME NEW p, Ongoing(p), NEW w \in Workers, FrameCalls(w)
    PROVE  /\ Sole(p)' /\ stream = p /\ stopped[p] = -1
<1>1. /\ LoneInv(p) /\ FlowInv(p) /\ (p \notin late => CountsInv(p)) /\ TypeOK /\ p \in Presses
  BY DEF Ongoing, Sole, IInv, TypeInv
<1>2. /\ drainTask # 0 /\ drainTask \in Drains /\ w = <<"drain", drainTask>>
      /\ Under = frame[w] /\ Under # NoFrame /\ ~Silent(p) /\ Under.at = "calling"
  BY FrameIsUnder DEF FrameCalls
<1>3. stream = p /\ stream # 0
  BY <1>1 DEF FrameCalls, LoneInv
<1>4. stopped[p] = -1
  BY <1>1, <1>2 DEF LoneInv
<1>5. /\ frame' = [frame EXCEPT ![w] = [at |-> "sent", on |-> p, msg |-> Under.msg]]
      /\ wire' = [wire EXCEPT ![p] = Append(@, Under.msg)]
      /\ UNCHANGED <<lastAudio, recordingState, stop, shouldStop, awaited, start, mic, captured,
                      stopped, torn, late, leaving, stream, drain, drainTask, chunks, pending>>
  BY <1>2, <1>3 DEF FrameCalls, uiVars, shellVars, startVars, recordingVars, micVars, tapVars,
     stopVars, drainVars
<1>6. Under.msg = Frame(p, Len(wire[p]) + 1) /\ lastAudio = Len(wire[p])
  BY <1>1, <1>2 DEF FlowInv
<1>7. Under.msg \in Frames
  <2>1. Under \in Calling
    BY <1>2, UnderIs DEF NoFrame, Calling, Sent
  <2>. QED
    BY <2>1 DEF Calling
<1>8. Len(wire'[p]) = Len(wire[p]) + 1 /\ wire'[p] = [i \in 1..Len(wire'[p]) |-> Frame(p, i)]
  <2>1. wire'[p] = Append(wire[p], Frame(p, Len(wire[p]) + 1))
    BY <1>1, <1>5, <1>6 DEF TypeOK
  <2>2. wire[p] = [i \in 1..Len(wire[p]) |-> Frame(p, i)] /\ wire[p] \in Seq(Frames)
    BY <1>1 DEF FlowInv, TypeOK
  <2>. QED
    BY <1>6, <1>7, <2>1, <2>2, OneFrameMore
<1>9. Under' = [at |-> "sent", on |-> p, msg |-> Under.msg] /\ Under' # NoFrame
  BY <1>1, <1>2, <1>5 DEF Under, TypeOK, NoFrame
<1>10. Behind' = Behind /\ Base' = Base
  BY <1>2, <1>5, <1>9 DEF Behind, Base
<1>11. LoneInv(p)'
  BY <1>1, <1>5 DEF LoneInv
<1>12. FlowInv(p)'
  <2>1. QueueInv(p) => QueueInv(p)'
    BY <1>5, <1>9, <1>10 DEF QueueInv
  <2>2. Len(wire[p]) \in Nat
    BY <1>1, <1>6 DEF TypeOK
  <2>3. Under'.msg = Frame(p, Len(wire'[p])) /\ lastAudio' = Len(wire'[p]) - 1
    BY <1>5, <1>6, <1>8, <1>9, <2>2
  <2>. QED
    BY <1>1, <1>2, <1>5, <1>8, <1>9, <2>1, <2>3 DEF FlowInv
<1>13. p \notin late => CountsInv(p)'
  BY <1>1, <1>2, <1>3, <1>5, <1>9 DEF CountsInv, WillStop
<1>. QED
  BY <1>3, <1>4, <1>5, <1>11, <1>12, <1>13 DEF Sole

LEMMA FrameReturnsSole ==
    ASSUME NEW p, Ongoing(p), NEW w \in Workers, FrameReturns(w)
    PROVE  Sole(p)'
<1>1. /\ LoneInv(p) /\ FlowInv(p) /\ (p \notin late => CountsInv(p)) /\ TypeOK
  BY DEF Ongoing, Sole, IInv, TypeInv
<1>2. /\ drainTask # 0 /\ w[1] = "drain" /\ w[2] = drainTask /\ Under = frame[w] /\ Under # NoFrame
      /\ ~Silent(p) /\ Under.at = "sent"
  BY FrameIsUnder DEF FrameReturns
<1>3. DrainWorks(drainTask, lastAudio') /\ UNCHANGED stopVars /\ lastAudio' = Counted(w)
  BY <1>2 DEF FrameReturns
<1>4. UNCHANGED <<recordingState, stop, shouldStop, awaited, start, mic, captured, wire,
                  stopped, torn, late, leaving, stream>>
  BY <1>3 DEF FrameReturns, uiVars, shellVars, startVars, micVars, tapVars, stopVars, streamVars
<1>5. Under.msg = Frame(p, Len(wire[p])) /\ lastAudio = Len(wire[p]) - 1
  BY <1>1, <1>2 DEF FlowInv
<1>6. Len(wire[p]) = lastAudio + 1 /\ lastAudio \in Nat
  <2>1. wire[p] \in Seq(Frames) /\ lastAudio \in Nat
    BY <1>1 DEF TypeOK, Ongoing
  <2>2. Len(wire[p]) \in Nat
    BY <2>1
  <2>. QED
    BY <1>5, <2>1, <2>2
<1>7. recordingState \in Busy => lastAudio' = Len(wire[p])
  BY <1>2, <1>3, <1>5 DEF Counted, Frame
<1>8. lastAudio' \in Nat
  BY <1>3, <1>6, <1>7 DEF Counted
<1>9. recordingState = "recording" => lastAudio' = Len(wire[p]) /\ lastAudio' = Base
  BY <1>2, <1>6, <1>7 DEF Base
<1>10. p \notin late /\ WillStop(p) => lastAudio' = Len(wire[p])
  BY <1>1, <1>2, <1>7 DEF CountsInv
<1>. QED
  BY <1>2, <1>3, <1>4, <1>8, <1>9, <1>10, DrainWorksSole

LEMMA FrameThrowsSole ==
    ASSUME NEW p, Ongoing(p), NEW w \in Workers, FrameThrows(w)
    PROVE  Sole(p)'
<1>1. /\ LoneInv(p) /\ FlowInv(p) /\ (p \notin late => CountsInv(p)) /\ TypeOK
  BY DEF Ongoing, Sole, IInv, TypeInv
<1>2. /\ drainTask # 0 /\ drainTask \in Drains /\ w[1] = "drain" /\ w[2] = drainTask
      /\ w = <<"drain", drainTask>> /\ Under = frame[w] /\ Under # NoFrame
      /\ ~Silent(p) /\ Under.at \in {"calling", "sent"}
  BY FrameIsUnder DEF FrameThrows
<1>3. /\ drain' = [drain EXCEPT ![drainTask] = "over"] /\ drainTask' = 0
      /\ torn' = IF Under.at = "sent" THEN torn \union {Under.on} ELSE torn
      /\ IF recordingState = "recording" THEN recordingState' = "failed"
         ELSE UNCHANGED recordingState
      /\ mic' \in {mic, 0}
      /\ UNCHANGED <<stop, shouldStop, awaited, start, captured, wire, stopped, late, leaving,
                      stream, lastAudio, pending>>
  BY <1>2 DEF FrameThrows, EndDrain, Fail, uiVars, shellVars, startVars, tapVars
<1>4. Under' = NoFrame
  BY <1>3 DEF Under
<1>5. LoneInv(p)'
  <2>1. \A e \in Drains : drain'[e] \notin {"spawned", "sending"} /\ e # 0
    BY <1>1, <1>2, <1>3 DEF LoneInv, TypeOK, Drains
  <2>2. recordingState' # "recording"
    BY <1>3
  <2>. QED
    BY <1>1, <1>3, <2>1, <2>2 DEF LoneInv
<1>6. FlowInv(p)'
  BY <1>1, <1>2, <1>3, <1>4 DEF FlowInv, NoFrame
<1>7. p \notin late => CountsInv(p)'
  <2>1. \/ lastAudio = Len(wire[p])
        \/ lastAudio = Len(wire[p]) - 1 /\ p \in torn'
    BY <1>1, <1>2, <1>3 DEF FlowInv
  <2>. QED
    BY <1>1, <1>2, <1>3, <1>4, <2>1 DEF CountsInv
<1>. QED
  BY <1>3, <1>5, <1>6, <1>7 DEF Sole

\* A press that finds nothing under way.
LEMMA PressSole ==
    ASSUME IInv, HistoryInv, IdleInv, Press, NEW p \in Presses, p = presses', p \notin crossed'
    PROVE  Sole(p)'
<1>1. TypeOK /\ PressInv /\ WorkInv /\ presses \in Nat
  BY DEF IInv, TypeInv, ControlInv, TypeOK
<1>2. p = presses + 1 /\ p > presses
  BY <1>1 DEF Press
<1>3. Quiet
  BY <1>1, <1>2 DEF Press
<1>4. /\ start'[p] = "calling" /\ recordingState' = "recording" /\ lastAudio' = 0 /\ pending' = <<>>
      /\ drainTask' = 0
      /\ UNCHANGED <<stop, shouldStop, awaited, drain, chunks, frame, mic, captured, wire, stopped,
                      stream, leaving>>
  BY <1>1, <1>2 DEF Press, TypeOK, shellVars, micVars, tapVars, stopVars, streamVars
<1>5. /\ stop[p] = "none" /\ wire[p] = <<>> /\ stopped[p] = -1 /\ captured[p] = 0 /\ p \notin shouldStop
  BY <1>1, <1>2 DEF PressInv, HistoryInv
<1>6. \A w \in Workers : chunks[w] = <<>> /\ frame[w] = NoFrame
  BY <1>1, <1>3, WorkersAre DEF Quiet, IdleInv, WorkInv
<1>7. Silent(p)'
  BY <1>3, <1>4, <1>5, <1>6 DEF Silent, Quiet
<1>8. Under' = NoFrame /\ Behind' = <<>> /\ Base' = 0
  BY <1>4 DEF Under, Behind, Base
<1>9. LoneInv(p)'
  BY <1>3, <1>4, <1>5 DEF LoneInv, Quiet, Drains
<1>10. QueueInv(p)'
  <2>1. Len(Behind') = 0 /\ Len(pending') = 0 /\ Len(wire'[p]) = 0
    BY <1>4, <1>5, <1>8
  <2>. QED
    BY <1>4, <1>5, <1>8, <2>1 DEF QueueInv
<1>11. FlowInv(p)'
  <2>1. wire'[p] = [i \in 1..Len(wire'[p]) |-> Frame(p, i)]
    BY <1>4, <1>5
  <2>. QED
    BY <1>7, <1>8, <1>10, <2>1 DEF FlowInv, NoFrame
<1>12. CountsInv(p)'
  BY <1>3, <1>4, <1>5 DEF CountsInv, WillStop, Quiet
<1>. QED
  BY <1>9, <1>11, <1>12 DEF Sole

\* Every other step leaves the last press the last one.
LEMMA KeepsPress ==
    ASSUME IInv, [Next]_vars, ~Press
    PROVE  UNCHANGED <<presses, crossed>>
<1>1. CASE UNCHANGED vars
  BY <1>1 DEF vars, buttonVars, startVars
<1>2. CASE Connect \/ Forget \/ Leave \/ Leaving \/ Capture \/ Notify \/ Diagnose \/ Release
  BY <1>2 DEF Connect, Forget, Leave, Leaving, CancelCalls, CancelReturns, Capture, Notify, Diagnose,
     Release, uiVars, buttonVars, startVars
<1>3. ASSUME NEW p \in Presses, Starting(p) \/ Stopping(p) PROVE UNCHANGED <<presses, crossed>>
  BY <1>3 DEF Starting, StartCalls, StartReturns, StartThrows, Stopping, CloseMic, Awaited,
     AwaitTimesOut, Yields, StopCalls, StopReturns, StopThrows, uiVars, buttonVars, startVars
<1>4. ASSUME (\E d \in Drains : BeginDrain(d)) \/ (\E w \in Workers : Draining(w))
      PROVE  UNCHANGED <<presses, crossed>>
  BY <1>4 DEF BeginDrain, Draining, FrameCalls, FrameReturns, FrameThrows, uiVars, buttonVars, startVars
<1>. QED
  BY <1>1, <1>2, <1>3, <1>4 DEF Next

LEMMA SoleStep == IInv /\ HistoryInv /\ IdleInv /\ SoleInv /\ [Next]_vars => SoleInv'
<1>. SUFFICES ASSUME IInv, HistoryInv, IdleInv, SoleInv, [Next]_vars,
                     NEW p \in Presses, p \notin crossed', p = presses'
              PROVE  Sole(p)'
  BY DEF SoleInv, Presses
<1>1. CASE Press
  BY <1>1, PressSole
<1>2. ASSUME ~Press PROVE Ongoing(p)
  BY <1>2, KeepsPress DEF SoleInv, Ongoing
<1>3. CASE UNCHANGED vars
  <2>1. UNCHANGED <<start, stop, shouldStop, awaited, drainTask, drain, chunks, frame, pending,
                    wire, stopped, torn, lastAudio, captured, late, stream, mic, recordingState,
                    leaving, presses>>
    BY <1>3 DEF vars, shellVars, buttonVars, micVars, tapVars, startVars, stopVars, drainVars,
       workVars, streamVars
  <2>2. Sole(p)
    <3>1. CASE Press
      BY <2>1, <3>1 DEF Press, IInv, TypeInv, TypeOK
    <3>. QED
      BY <1>2, <3>1 DEF Ongoing
  <2>3. Under' = Under /\ Behind' = Behind /\ Base' = Base
    BY <2>1 DEF Under, Behind, Base
  <2>4. (Silent(p)' <=> Silent(p)) /\ (QueueInv(p)' <=> QueueInv(p)) /\ (WillStop(p)' <=> WillStop(p))
    BY <2>1, <2>3 DEF Silent, QueueInv, WillStop
  <2>5. LoneInv(p)'
    BY <2>1, <2>2 DEF Sole, LoneInv
  <2>6. FlowInv(p)'
    BY <2>1, <2>2, <2>3, <2>4 DEF Sole, FlowInv
  <2>7. p \notin late => CountsInv(p)'
    BY <2>1, <2>2, <2>3, <2>4 DEF Sole, CountsInv
  <2>. QED
    BY <2>1, <2>5, <2>6, <2>7 DEF Sole
<1>4. CASE ~Press /\ (Connect \/ Forget \/ Leave \/ Leaving \/ Diagnose)
  BY <1>2, <1>4, ShellSole
<1>5. CASE ~Press /\ (Release \/ Capture \/ Notify)
  BY <1>2, <1>5, ReleaseSole, CaptureSole, NotifySole
<1>6. ASSUME ~Press, NEW q \in Presses, Starting(q) \/ Stopping(q) PROVE Sole(p)'
  BY <1>2, <1>6, StartingSole, StoppingSole
<1>7. ASSUME ~Press, NEW d \in Drains, BeginDrain(d) PROVE Sole(p)'
  BY <1>2, <1>7, BeginDrainSole
<1>8. ASSUME ~Press, NEW w \in Workers, Draining(w) PROVE Sole(p)'
  BY <1>2, <1>8, FrameCallsSole, FrameReturnsSole, FrameThrowsSole DEF Draining
<1>. QED
  BY <1>1, <1>3, <1>4, <1>5, <1>6, <1>7, <1>8 DEF Next

\* What was sent on the stream of p, and what its stop said.
Numbered(p) ==
    /\ wire[p] = [i \in 1..Len(wire[p]) |-> Frame(p, i)]
    /\ stopped[p] \in {-1, Len(wire[p])} \/ (p \in torn /\ stopped[p] = Len(wire[p]) - 1)

LEMMA CountsAre == StopCountsFrames <=> \A p \in Presses \ (crossed \union late) : Numbered(p)
BY DEF StopCountsFrames, Numbered, Frame

\* The history of crossed, late and torn streams only grows.
LEMMA HistoryGrows ==
    ASSUME IInv, HistoryInv, [Next]_vars
    PROVE  crossed \subseteq crossed' /\ late \subseteq late' /\ torn \subseteq torn'
<1>1. CASE UNCHANGED vars
  BY <1>1 DEF vars, startVars, streamVars
<1>2. CASE Press
  <2>1. crossed \subseteq 1..(presses + 1)
    BY DEF IInv, ControlInv, PressInv, TypeInv, TypeOK
  <2>. QED
    BY <1>2, <2>1 DEF Press, streamVars
<1>3. CASE Connect \/ Forget \/ Leave \/ Leaving \/ Capture \/ Notify \/ Diagnose \/ Release
  BY <1>3 DEF Connect, Forget, Leave, Leaving, CancelCalls, CancelReturns, Capture, Notify, Diagnose,
     Release, uiVars, startVars, streamVars
<1>4. ASSUME NEW p \in Presses, Starting(p) \/ Stopping(p)
      PROVE  crossed \subseteq crossed' /\ late \subseteq late' /\ torn \subseteq torn'
  BY <1>4 DEF Starting, StartCalls, StartReturns, StartThrows, Stopping, CloseMic, Awaited,
     AwaitTimesOut, Yields, StopCalls, StopReturns, StopThrows, uiVars, startVars, streamVars
<1>5. ASSUME (\E d \in Drains : BeginDrain(d)) \/ (\E w \in Workers : Draining(w))
      PROVE  crossed \subseteq crossed' /\ late \subseteq late' /\ torn \subseteq torn'
  BY <1>5 DEF BeginDrain, Draining, FrameCalls, FrameReturns, FrameThrows, uiVars, startVars, streamVars
<1>. QED
  BY <1>1, <1>2, <1>3, <1>4, <1>5 DEF Next

\* Only a frame and a stop are sent on a stream.
LEMMA WireKept ==
    ASSUME IInv, [Next]_vars,
           \A w \in Workers : ~FrameCalls(w), \A p \in Presses : ~StopCalls(p)
    PROVE  UNCHANGED <<wire, stopped>>
<1>1. CASE UNCHANGED vars
  BY <1>1 DEF vars, streamVars
<1>2. CASE Connect \/ Forget \/ Leave \/ Leaving \/ Capture \/ Notify \/ Diagnose \/ Release \/ Press
  BY <1>2 DEF Connect, Forget, Leave, Leaving, CancelCalls, CancelReturns, Capture, Notify, Diagnose,
     Release, Press, streamVars
<1>3. ASSUME NEW p \in Presses, Starting(p) \/ Stopping(p) PROVE UNCHANGED <<wire, stopped>>
  BY <1>3 DEF Starting, StartCalls, StartReturns, StartThrows, Stopping, CloseMic, Awaited,
     AwaitTimesOut, Yields, StopReturns, StopThrows, streamVars
<1>4. ASSUME (\E d \in Drains : BeginDrain(d)) \/ (\E w \in Workers : Draining(w))
      PROVE  UNCHANGED <<wire, stopped>>
  BY <1>4 DEF BeginDrain, Draining, FrameReturns, FrameThrows, streamVars
<1>. QED
  BY <1>1, <1>2, <1>3, <1>4 DEF Next

\* A stream that is not of a crossed recording is the last one's.
LEMMA StreamIsOngoing ==
    ASSUME IInv, HistoryInv, IdleInv, SoleInv, stream # 0, stream \notin crossed
    PROVE  stream = presses /\ Ongoing(stream)
<1>1. /\ TypeOK /\ stream \in Presses /\ presses \in Nat /\ stream <= presses
      /\ presses \in crossed => 1..presses \subseteq crossed
  BY DEF IInv, TypeInv, TypeOK, HistoryInv
<1>2. stream \in Nat /\ stream >= 1 /\ presses \in Presses
  BY <1>1 DEF Presses, TypeOK
<1>3. presses \notin crossed
  BY <1>1, <1>2
<1>4. PICK p \in Presses \ crossed : p = presses
  BY <1>2, <1>3
<1>5. Ongoing(p)
  BY <1>4 DEF SoleInv, Ongoing
<1>6. stream = p
  BY <1>5 DEF Ongoing, Sole, LoneInv
<1>. QED
  BY <1>4, <1>5, <1>6

LEMMA CountsStep == IInv /\ FramesInv /\ [Next]_vars => StopCountsFrames'
<1>. SUFFICES ASSUME IInv, FramesInv, [Next]_vars,
                     NEW q \in Presses, q \notin crossed', q \notin late'
              PROVE  Numbered(q)'
  <2>1. StopCountsFrames' <=> (\A p \in Presses \ (crossed \union late) : Numbered(p))'
    BY CountsAre, PTL
  <2>. QED
    BY <2>1 DEF Presses
<1>1. /\ HistoryInv /\ IdleInv /\ SoleInv /\ TypeOK
      /\ crossed \subseteq crossed' /\ late \subseteq late' /\ torn \subseteq torn'
  BY HistoryGrows DEF FramesInv, IInv, TypeInv
<1>2. Numbered(q)
  BY <1>1, CountsAre DEF FramesInv
<1>3. ASSUME \A w \in Workers : ~FrameCalls(w), \A p \in Presses : ~StopCalls(p)
      PROVE  Numbered(q)'
  BY <1>1, <1>2, <1>3, WireKept DEF Numbered
<1>4. ASSUME wire'[q] = wire[q], stopped'[q] = stopped[q] PROVE Numbered(q)'
  BY <1>1, <1>2, <1>4 DEF Numbered
<1>5. ASSUME NEW w \in Workers, FrameCalls(w) PROVE Numbered(q)'
  <2>1. /\ stream # 0 /\ stopped' = stopped
        /\ wire' = [wire EXCEPT ![stream] = Append(@, frame[w].msg)]
    BY <1>5 DEF FrameCalls
  <2>2. CASE q # stream
    BY <1>1, <1>4, <2>1, <2>2 DEF TypeOK
  <2>3. CASE q = stream
    <3>1. Ongoing(q)
      BY <1>1, <2>1, <2>3, StreamIsOngoing
    <3>2. Sole(q)' /\ stopped[q] = -1
      BY <1>5, <3>1, FrameCallsSole
    <3>. QED
      BY <2>1, <3>2 DEF Numbered, Sole, FlowInv
  <2>. QED
    BY <2>2, <2>3
<1>6. ASSUME NEW p \in Presses, StopCalls(p) PROVE Numbered(q)'
  <2>1. /\ stream # 0 /\ wire' = wire /\ torn' = torn /\ stop[p] = "calling"
        /\ stopped' = [stopped EXCEPT ![stream] = lastAudio]
    BY <1>6 DEF StopCalls
  <2>2. CASE q # stream
    BY <1>1, <1>4, <2>1, <2>2 DEF TypeOK
  <2>3. CASE q = stream
    <3>1. Ongoing(q)
      BY <1>1, <2>1, <2>3, StreamIsOngoing
    <3>2. p = q
      BY <2>1, <3>1, OngoingIsAlone
    <3>3. LoneInv(q) /\ CountsInv(q)
      BY <1>1, <3>1 DEF Ongoing, Sole
    <3>4. WillStop(q) /\ Under = NoFrame
      BY <2>1, <3>2, <3>3 DEF LoneInv, WillStop, Under
    <3>5. lastAudio = Len(wire[q]) \/ (q \in torn /\ lastAudio = Len(wire[q]) - 1)
      BY <3>3, <3>4 DEF CountsInv
    <3>6. stopped'[q] = lastAudio
      BY <1>1, <2>1, <2>3 DEF TypeOK
    <3>. QED
      BY <1>2, <2>1, <3>5, <3>6 DEF Numbered
  <2>. QED
    BY <2>2, <2>3
<1>. QED
  BY <1>3, <1>5, <1>6

LEMMA InitFrames == Init => FramesInv
<1>. SUFFICES ASSUME Init PROVE FramesInv
  OBVIOUS
<1>1. HistoryInv
  BY DEF Init, HistoryInv
<1>2. IdleInv
  BY WorkersAre DEF Init, IdleInv
<1>3. SoleInv
  BY DEF Init, SoleInv, Presses
<1>4. \A p \in Presses : Numbered(p)
  <2>1. TAKE p \in Presses
  <2>2. wire[p] = <<>> /\ Len(wire[p]) = 0 /\ stopped[p] = -1
    BY DEF Init
  <2>. QED
    BY <2>2 DEF Numbered
<1>. QED
  BY <1>1, <1>2, <1>3, <1>4, CountsAre DEF FramesInv

\* While a recording goes on that is not crossed, every chunk the tap delivered is
\* on its stream, under way with the drain task, or waiting behind it
\* (drainPendingPCMChunks, sendPCMFrame, stopRecording).
THEOREM FramesInvariant == Spec => []FramesInv
<1>1. Init => FramesInv
  BY InitFrames
<1>2. IInv /\ FramesInv /\ [Next]_vars => FramesInv'
  BY HistoryStep, IdleStep, SoleStep, CountsStep DEF FramesInv
<1>. QED
  BY <1>1, <1>2, Invariant, PTL DEF Spec

\* sendAudioStop carries the number of the frames that were sent, which are the
\* beginning of what was captured, in order, however the drain task, the tap and
\* the stop interleave.
THEOREM StopCountsFramesHolds == Spec => []StopCountsFrames
<1>1. FramesInv => StopCountsFrames
  BY DEF FramesInv
<1>. QED
  BY <1>1, FramesInvariant, PTL

================================================================================
