------------------------------- MODULE RemoteMic -------------------------------
(***************************************************************************)
(* The recording button of the phone: RemoteMicShellViewModel with its     *)
(* start, stop, drain and error paths, its connection, the microphone's    *)
(* tap, and of SecureAudioStreamClient the current stream                  *)
(* (TalkaIOSApp.swift).                                                    *)
(*                                                                         *)
(* The view model is on the main actor, and each of its methods runs there *)
(* until it awaits something: the client, a sleep, another task.  One      *)
(* action is what runs between two awaits.  A call of the client has two   *)
(* steps, since the client is not on the main actor: it takes the current  *)
(* stream, and it returns or throws; the timeout of every operation is a   *)
(* throw, and the task group waits for the call that was cut off.          *)
(*                                                                         *)
(* A recording is named by its press, and so is the stream it opens.  A    *)
(* chunk is the samples of one frame.  What is sent on a stream, and what  *)
(* the Return key does to it, is in SecureChannel.                         *)
(***************************************************************************)
EXTENDS Integers, Sequences

CONSTANTS
    MaxPresses,    \* presses of the button (bound)
    MaxChunks,     \* chunks the tap delivers (bound)
    MaxDrains      \* drain tasks (bound)

ASSUME RemoteMicAssumption ==
    MaxPresses \in Nat /\ MaxChunks \in Nat /\ MaxDrains \in Nat

VARIABLES
    paired,        \* connectionState is .paired
    keys,          \* SecureAudioSessionStore
    leaving,       \* disconnectFromCurrentMac, handleMonitoredMacDisconnect
    pressing,      \* isPressingMicrophone
    presses,       \* presses so far
    recordingState,
    mic,           \* the press whose tap is installed, 0 for none
    pending,       \* pendingPCMChunks
    notes,         \* tasks that will call schedulePendingPCMDrain
    lastAudio,     \* lastAudioSequence
    start, stop,   \* startRecording and stopRecording of each press
    shouldStop,    \* ... and what stopRecording has decided
    awaited,       \* ... and the drain task it waits for
    drainTask,     \* pcmDrainTask, 0 for nil
    drain,         \* the drain tasks
    chunks, frame, \* what each drain and each stop has yet to send
    stream,        \* currentStreamSession and webSocket, 0 for nil
    captured,      \* history: chunks captured in each recording
    taken,         \* history: chunks captured in all
    wire,          \* history: frames sent on each stream
    stopped,       \* history: the last_sequence of each stream's stop
    crossed,       \* history: recordings that met another one's work
    torn,          \* history: streams with a frame whose sending threw
    late           \* history: starts that returned when their recording was over

shellVars == <<paired, keys, leaving>>
buttonVars == <<pressing, presses>>
tapVars == <<notes, captured, taken>>
micVars == <<mic, tapVars>>
startVars == <<start, crossed, late>>
stopVars == <<stop, shouldStop, awaited>>
drainVars == <<drainTask, drain>>
workVars == <<chunks, frame, pending>>
streamVars == <<stream, wire, stopped, torn>>
recordingVars == <<recordingState, micVars, lastAudio>>
uiVars == <<shellVars, buttonVars, startVars>>
taskVars == <<stopVars, drainVars, workVars>>
vars == <<shellVars, buttonVars, recordingState, micVars, lastAudio, startVars,
          stopVars, drainVars, workVars, streamVars>>

Presses == 1..MaxPresses
Drains == 1..MaxDrains
Workers == ({"drain"} \X Drains) \union ({"stop"} \X Presses)
Chunks == [press : Presses, n : 1..MaxChunks]
Frames == [chunk : Chunks, seq : Nat \ {0}]
NoFrame == [at |-> "none"]
Calling == [at : {"calling"}, msg : Frames]
Sent == [at : {"sent"}, on : Presses, msg : Frames]
Busy == {"recording", "stopping"}
FirstRound == {"none", "tail", "waiting", "sending"}
SecondRound == {"yielded", "rewaiting", "resending"}

TypeOK ==
    /\ paired \in BOOLEAN /\ keys \in BOOLEAN /\ pressing \in BOOLEAN
    /\ leaving \in {"none", "cancelling", "cancelled"}
    /\ presses \in 0..MaxPresses
    /\ recordingState \in Busy \union {"idle", "failed"}
    /\ mic \in Presses \union {0}
    /\ pending \in Seq(Chunks)
    /\ notes \in 0..MaxChunks
    /\ lastAudio \in Nat
    /\ start \in [Presses -> {"none", "calling", "sending", "over"}]
    /\ stop \in [Presses -> FirstRound \union SecondRound
                             \union {"calling", "receiving", "over"}]
    /\ shouldStop \subseteq Presses
    /\ awaited \in [Presses -> Drains \union {0}]
    /\ drainTask \in Drains \union {0}
    /\ drain \in [Drains -> {"none", "spawned", "sending", "over"}]
    /\ chunks \in [Workers -> Seq(Chunks)]
    /\ frame \in [Workers -> {NoFrame} \union Calling \union Sent]
    /\ stream \in Presses \union {0}
    /\ captured \in [Presses -> 0..MaxChunks] /\ taken \in 0..MaxChunks
    /\ wire \in [Presses -> Seq(Frames)]
    /\ stopped \in [Presses -> Int]
    /\ crossed \subseteq Presses /\ torn \subseteq Presses /\ late \subseteq Presses

Init ==
    /\ paired = FALSE /\ keys = FALSE
    /\ leaving = "none"
    /\ pressing = FALSE /\ presses = 0
    /\ recordingState = "idle"
    /\ mic = 0
    /\ pending = <<>> /\ notes = 0 /\ lastAudio = 0
    /\ start = [p \in Presses |-> "none"]
    /\ stop = [p \in Presses |-> "none"]
    /\ shouldStop = {}
    /\ awaited = [p \in Presses |-> 0]
    /\ drainTask = 0
    /\ drain = [d \in Drains |-> "none"]
    /\ chunks = [w \in Workers |-> <<>>]
    /\ frame = [w \in Workers |-> NoFrame]
    /\ stream = 0
    /\ captured = [p \in Presses |-> 0] /\ taken = 0
    /\ wire = [p \in Presses |-> <<>>]
    /\ stopped = [p \in Presses |-> -1]
    /\ crossed = {} /\ torn = {} /\ late = {}

\* stopAfterRecordingError
Fail == mic' = 0 /\ recordingState' = "failed"

-----------------------------------------------------------------------------
(* The connection.                                                         *)

\* reconnectToKnownMac or pairSelectedMac succeeds.
Connect ==
    /\ ~paired
    /\ paired' = TRUE /\ keys' = TRUE
    /\ UNCHANGED <<leaving, buttonVars, recordingVars, startVars, taskVars, streamVars>>

\* disconnectSecureSession, and connectionState is .idle.
Disconnected == paired' = FALSE /\ keys' = FALSE

\* The power button, or the monitor finds the Mac gone: a recording is cancelled
\* first.  One at a time (a bound).
Leave ==
    /\ paired /\ leaving = "none"
    /\ IF recordingState \in Busy
          THEN mic' = 0 /\ leaving' = "cancelling"
               /\ UNCHANGED <<paired, keys>>
          ELSE Disconnected /\ UNCHANGED <<leaving, mic>>
    /\ UNCHANGED <<buttonVars, recordingState, tapVars, lastAudio, startVars,
                   taskVars, streamVars>>

\* sendAudioCancel
CancelCalls ==
    /\ leaving = "cancelling"
    /\ leaving' = "cancelled"
    /\ stream' = 0
    /\ UNCHANGED <<paired, keys, buttonVars, recordingVars, startVars, taskVars, wire,
                   stopped, torn>>

CancelReturns ==
    /\ leaving = "cancelled"
    /\ leaving' = "none"
    /\ recordingState' = "idle"
    /\ Disconnected
    /\ UNCHANGED <<buttonVars, micVars, lastAudio, startVars, taskVars, streamVars>>

\* forgetKnownMac leaves the recording alone.
Forget ==
    /\ paired /\ Disconnected
    /\ UNCHANGED <<leaving, buttonVars, recordingVars, startVars, taskVars, streamVars>>

-----------------------------------------------------------------------------
(* startRecording                                                          *)

\* Nothing of an older recording is under way.
Quiet ==
    /\ mic = 0 /\ stream = 0 /\ leaving = "none"
    /\ \A q \in Presses : start[q] \in {"none", "over"} /\ stop[q] \in {"none", "over"}
    /\ \A d \in Drains : drain[d] \in {"none", "over"}

\* startPressRecording's guard.
MayPress == paired /\ ~pressing /\ recordingState \notin Busy

\* startPressRecording, and startRecording up to its first await.
Press ==
    LET p == presses + 1 IN
    /\ MayPress /\ presses < MaxPresses
    /\ pressing' = TRUE /\ presses' = p
    /\ start' = [start EXCEPT ![p] = "calling"]
    /\ recordingState' = "recording"
    /\ lastAudio' = 0
    /\ pending' = <<>>
    /\ drainTask' = 0
    /\ crossed' = IF Quiet THEN crossed ELSE 1..p
    /\ UNCHANGED <<shellVars, micVars, late, stopVars, drain, chunks, frame,
                   streamVars>>

StartCalls(p) ==
    /\ start[p] = "calling" /\ keys
    /\ start' = [start EXCEPT ![p] = "sending"]
    /\ stream' = p
    /\ UNCHANGED <<shellVars, buttonVars, recordingVars, crossed, late, taskVars, wire,
                   stopped, torn>>

\* audio_start is sent: the microphone is opened, whatever has happened to the
\* recording meanwhile.
Overtaken(p) ==
    recordingState # "recording" \/ leaving # "none" \/ stop[p] \notin {"none", "tail"}

StartReturns(p) ==
    /\ start[p] = "sending"
    /\ start' = [start EXCEPT ![p] = "over"]
    /\ mic' = p
    /\ late' = IF Overtaken(p) THEN late \union {p} ELSE late
    /\ UNCHANGED <<shellVars, buttonVars, recordingState, tapVars, lastAudio,
                   crossed, taskVars, streamVars>>

\* There is no session, the start cannot be sent in time, or the microphone
\* cannot be opened.
StartThrows(p) ==
    /\ start[p] = "sending" \/ (start[p] = "calling" /\ ~keys)
    /\ start' = [start EXCEPT ![p] = "over"]
    /\ Fail
    /\ UNCHANGED <<shellVars, buttonVars, tapVars, lastAudio, crossed, late,
                   taskVars, streamVars>>

-----------------------------------------------------------------------------
(* The microphone.                                                         *)

NewChunk == [press |-> mic, n |-> captured[mic] + 1]

\* The tap appends a chunk on its own thread, and spawns a task.
Capture ==
    /\ mic # 0 /\ taken < MaxChunks
    /\ pending' = Append(pending, NewChunk)
    /\ captured' = [captured EXCEPT ![mic] = @ + 1]
    /\ taken' = taken + 1
    /\ notes' = notes + 1
    /\ UNCHANGED <<uiVars, recordingState, mic, lastAudio, stopVars, drainVars, chunks,
                   frame, streamVars>>

\* schedulePendingPCMDrain: one drain task at a time.
AnyTime == recordingState = "recording"   \* fault: a task for every chunk
MayDrain == recordingState = "recording" /\ drainTask = 0

Notify ==
    /\ notes > 0 /\ notes' = notes - 1
    /\ IF MayDrain
          THEN \E d \in Drains :
                  /\ drain[d] = "none" /\ \A e \in 1..(d - 1) : drain[e] # "none"
                  /\ drain' = [drain EXCEPT ![d] = "spawned"]
                  /\ drainTask' = d
          ELSE UNCHANGED drainVars
    /\ UNCHANGED <<uiVars, recordingState, mic, captured, taken, lastAudio, stopVars, workVars,
                   streamVars>>

\* The tap cannot convert its samples: handleMicrophoneDiagnostic.
Diagnose ==
    /\ mic # 0 /\ recordingState = "recording"
    /\ Fail
    /\ UNCHANGED <<uiVars, tapVars, lastAudio, taskVars, streamVars>>

-----------------------------------------------------------------------------
(* drainPendingPCMChunks, for a drain task or a stop, in state s.            *)

\* What w has to send: the rest of what it took, or what is pending.
Rest(w) == IF chunks[w] # <<>> THEN chunks[w] ELSE pending

\* sendPCMFrame reads lastAudioSequence before it awaits the client.
SameSeq(last) == last                     \* fault: the number of the last frame
NextSeq(last) == last + 1

Sends(w, s, last) ==
    /\ s = "recording" /\ Rest(w) # <<>>
    /\ chunks' = [chunks EXCEPT ![w] = Tail(Rest(w))]
    /\ pending' = IF chunks[w] # <<>> THEN pending ELSE <<>>
    /\ frame' = [frame EXCEPT ![w] =
                    [at |-> "calling", msg |-> [chunk |-> Head(Rest(w)), seq |-> NextSeq(last)]]]

\* There is nothing left; or the recording stops or is over, and what is left
\* is dropped.
EndsWork(w, s) ==
    /\ s # "recording" \/ Rest(w) = <<>>
    /\ chunks' = [chunks EXCEPT ![w] = <<>>]
    /\ pending' = IF s = "stopping" THEN <<>> ELSE pending
    /\ frame' = [frame EXCEPT ![w] = NoFrame]

\* The task ends, and pcmDrainTask is nil, whichever task it was.
EndDrain(d) == drain' = [drain EXCEPT ![d] = "over"] /\ drainTask' = 0

DrainWorks(d, last) ==
    LET w == <<"drain", d>> IN
    \/ /\ Sends(w, recordingState, last)
       /\ drain' = [drain EXCEPT ![d] = "sending"]
       /\ UNCHANGED drainTask
    \/ EndsWork(w, recordingState) /\ EndDrain(d)

\* A stop drains twice, and yields after the first time.
AfterRound(p) ==
    IF stop[p] \in FirstRound THEN "yielded"
    ELSE IF p \in shouldStop THEN "calling" ELSE "over"

StopWorks(p, s, last) ==
    LET w == <<"stop", p>> IN
    \/ /\ Sends(w, s, last)
       /\ stop' = [stop EXCEPT ![p] = IF @ \in FirstRound THEN "sending" ELSE "resending"]
    \/ /\ EndsWork(w, s)
       /\ stop' = [stop EXCEPT ![p] = AfterRound(p)]

BeginDrain(d) ==
    /\ drain[d] = "spawned"
    /\ DrainWorks(d, lastAudio)
    /\ UNCHANGED <<uiVars, recordingVars, stopVars, streamVars>>

\* sendAudioFrame, on whatever stream is the current one.
FrameCalls(w) ==
    /\ frame[w].at = "calling" /\ stream # 0
    /\ frame' = [frame EXCEPT ![w] = [at |-> "sent", on |-> stream, msg |-> @.msg]]
    /\ wire' = [wire EXCEPT ![stream] = Append(@, frame[w].msg)]
    /\ UNCHANGED <<uiVars, recordingVars, stopVars, drainVars, chunks, pending, stream,
                   stopped, torn>>

\* The frame counts, also for a recording that has begun meanwhile.
Counted(w) == IF recordingState \in Busy THEN frame[w].msg.seq ELSE lastAudio

FrameReturns(w) ==
    /\ frame[w].at = "sent"
    /\ lastAudio' = Counted(w)
    /\ \/ w[1] = "drain" /\ DrainWorks(w[2], lastAudio') /\ UNCHANGED stopVars
       \/ /\ w[1] = "stop" /\ StopWorks(w[2], recordingState, lastAudio')
          /\ UNCHANGED <<shouldStop, awaited, drainVars>>
    /\ UNCHANGED <<uiVars, recordingState, micVars, streamVars>>

\* A frame that cannot be sent: after the button was let go the drain task
\* keeps it to itself.
FrameThrows(w) ==
    /\ frame[w].at = "sent" \/ (frame[w].at = "calling" /\ stream = 0)
    /\ frame' = [frame EXCEPT ![w] = NoFrame]
    /\ chunks' = [chunks EXCEPT ![w] = <<>>]
    /\ torn' = IF frame[w].at = "sent" THEN torn \union {frame[w].on} ELSE torn
    /\ \/ /\ w[1] = "drain"
          /\ IF recordingState = "recording" THEN Fail
             ELSE UNCHANGED <<mic, recordingState>>
          /\ EndDrain(w[2])
          /\ UNCHANGED stop
       \/ /\ w[1] = "stop"
          /\ Fail
          /\ stop' = [stop EXCEPT ![w[2]] = "over"]
          /\ UNCHANGED drainVars
    /\ UNCHANGED <<uiVars, tapVars, lastAudio, shouldStop, awaited, pending,
                   stream, wire, stopped>>

-----------------------------------------------------------------------------
(* stopRecording                                                           *)

\* pcmDrainTask.value is awaited, or there is nothing to await.
NoWait(p, s) == awaited' = awaited /\ StopWorks(p, s, lastAudio)      \* fault
Awaits(p, s) ==
    IF drainTask # 0
       THEN /\ awaited' = [awaited EXCEPT ![p] = drainTask]
            /\ stop' = [stop EXCEPT ![p] = IF @ \in FirstRound THEN "waiting" ELSE "rewaiting"]
            /\ UNCHANGED workVars
       ELSE UNCHANGED awaited /\ StopWorks(p, s, lastAudio)

\* Then the microphone is closed, and the state read again.
KeepsMic == mic                           \* fault: microphoneSource.stop is not called
MicClosed == 0

ClosesMic(p) ==
    /\ mic' = MicClosed
    /\ IF recordingState = "recording"
          THEN /\ shouldStop' = shouldStop \union {p}
               /\ recordingState' = "stopping"
          ELSE UNCHANGED <<shouldStop, recordingState>>
    /\ Awaits(p, recordingState')

\* stopPressRecording, and stopRecording up to its first await: a recording goes
\* on for a quarter of a second.  A button that is disabled does not notice.
Release ==
    /\ paired /\ pressing
    /\ pressing' = FALSE
    /\ IF recordingState = "recording"
          THEN /\ stop' = [stop EXCEPT ![presses] = "tail"]
               /\ UNCHANGED <<recordingState, mic, shouldStop, awaited, workVars>>
          ELSE ClosesMic(presses)
    /\ UNCHANGED <<shellVars, presses, tapVars, lastAudio, startVars, drainVars,
                   streamVars>>

CloseMic(p) ==
    /\ stop[p] = "tail"
    /\ ClosesMic(p)
    /\ UNCHANGED <<uiVars, tapVars, lastAudio, drainVars, streamVars>>

\* The task has ended, in time or not.
Awaited(p) ==
    /\ stop[p] \in {"waiting", "rewaiting"} /\ drain[awaited[p]] = "over"
    /\ StopWorks(p, recordingState, lastAudio)
    /\ UNCHANGED <<uiVars, recordingVars, shouldStop, awaited, drainVars, streamVars>>

StopFails(p) == Fail /\ stop' = [stop EXCEPT ![p] = "over"]

AwaitTimesOut(p) ==
    /\ stop[p] \in {"waiting", "rewaiting"} /\ drain[awaited[p]] = "over"
    /\ StopFails(p)
    /\ UNCHANGED <<uiVars, tapVars, lastAudio, shouldStop, awaited, drainVars,
                   workVars, streamVars>>

\* Task.yield
Yields(p) ==
    /\ stop[p] = "yielded"
    /\ Awaits(p, recordingState)
    /\ UNCHANGED <<uiVars, recordingVars, shouldStop, drainVars, streamVars>>

\* sendAudioStop
StopCalls(p) ==
    /\ stop[p] = "calling" /\ stream # 0
    /\ stop' = [stop EXCEPT ![p] = "receiving"]
    /\ stopped' = [stopped EXCEPT ![stream] = lastAudio]
    /\ UNCHANGED <<uiVars, recordingVars, shouldStop, awaited, drainVars, workVars,
                   stream, wire, torn>>

\* closeCurrentStream, and the recording is over.
StaysStopping == recordingState           \* fault
Stopped == "idle"

StopReturns(p) ==
    /\ stop[p] = "receiving"
    /\ stop' = [stop EXCEPT ![p] = "over"]
    /\ stream' = 0
    /\ recordingState' = Stopped
    /\ UNCHANGED <<uiVars, micVars, lastAudio, shouldStop, awaited, drainVars, workVars,
                   wire, stopped, torn>>

\* A stop that the Mac refuses for its number drops the keys.
StopThrows(p) ==
    /\ \/ stop[p] = "receiving" /\ stream' = 0 /\ keys' \in {keys, FALSE}
       \/ stop[p] = "calling" /\ stream = 0 /\ UNCHANGED <<stream, keys>>
    /\ StopFails(p)
    /\ UNCHANGED <<paired, leaving, buttonVars, tapVars, lastAudio, startVars,
                   shouldStop, awaited, drainVars, workVars, wire, stopped, torn>>

-----------------------------------------------------------------------------

Starting(p) == StartCalls(p) \/ StartReturns(p) \/ StartThrows(p)

Draining(w) == FrameCalls(w) \/ FrameReturns(w) \/ FrameThrows(w)

Stopping(p) ==
    \/ CloseMic(p) \/ Awaited(p) \/ AwaitTimesOut(p) \/ Yields(p)
    \/ StopCalls(p) \/ StopReturns(p) \/ StopThrows(p)

Leaving == CancelCalls \/ CancelReturns

Next ==
    \/ Connect \/ Forget \/ Press \/ Release
    \/ Leave \/ Leaving
    \/ Capture \/ Notify \/ Diagnose
    \/ \E p \in Presses : Starting(p) \/ Stopping(p)
    \/ \E d \in Drains : BeginDrain(d)
    \/ \E w \in Workers : Draining(w)

Spec == Init /\ [][Next]_vars

\* The main actor runs what is ready, and every call of the client ends within
\* its timeout.
FairSpec ==
    /\ Spec
    /\ \A p \in Presses : WF_vars(Starting(p)) /\ WF_vars(Stopping(p))
    /\ \A d \in Drains : WF_vars(BeginDrain(d))
    /\ \A w \in Workers : WF_vars(Draining(w))
    /\ WF_vars(Leaving)

-----------------------------------------------------------------------------
(* Correctness.                                                            *)

\* What is sent on a stream is the beginning of what was captured for it, in
\* order and numbered from 1, and the stop carries the number of the frames,
\* none of which follows it, but for a last one whose sending threw.  Only
\* recordings that overlap, since one failed and the next was begun at once,
\* disturb that.  stopRecording waits for the drain task, which is alone.
StopCountsFrames ==
    \A p \in Presses \ (crossed \union late) :
        /\ wire[p] = [i \in 1..Len(wire[p]) |-> [chunk |-> [press |-> p, n |-> i], seq |-> i]]
        /\ stopped[p] \in {-1, Len(wire[p])} \/ (p \in torn /\ stopped[p] = Len(wire[p]) - 1)

\* The microphone is open only while something is recorded.  The exception is a
\* start that is still being sent when its recording ends; every other way out
\* of a recording closes the microphone (stop, cancel, and all errors).
MicIsClosed == mic # 0 /\ recordingState # "recording" => mic \in late \union crossed

\* A recording ends once the button is let go, also when the Mac is gone, the
\* start is still being sent, or a frame is stuck.
RecordingEnds ==
    ~pressing /\ recordingState \in Busy ~> recordingState \in {"idle", "failed"}

\* testStopRecordingStopsCaptureAndSendsStop: the microphone is closed when a
\* recording has been stopped.
StopClosesMic == recordingState = "idle" => mic = 0
================================================================================
