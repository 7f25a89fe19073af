----------------------------- MODULE SidecarProofs -----------------------------
(***************************************************************************)
(* Proofs about Sidecar, for recordings of any length.                     *)
(***************************************************************************)
EXTENDS Sidecar, TLAPS

Close == <<"close">>
Out == Tokens \union {Close}

\* What the client has still to read: what has arrived and what the runtime is
\* about to write.
Stream == down \o outbox
IsHeader(x) == x[1] = "header"
IsPayload(x, type) == x[1] = "payload" /\ x[2].type = type
Carries(s, type) == \E i \in 1..Len(s) : IsPayload(s[i], type)
Closing == \E i \in 1..Len(outbox) : outbox[i] = Close

\* The runtime reads on.
Serving == link = "open" /\ ~Closing

\* Before the upgrade and after the hangup there is nothing on the connection.
LinkInv ==
    /\ pc \in {"dial", "ok", "failed"} => link = "none"
    /\ pc \in Reading \union {"next"} => link \in {"open", "shut"}
    /\ pc \in {"dial", "handshake", "ok", "failed"} =>
          up = <<>> /\ down = <<>> /\ outbox = <<>> /\ ~half /\ session = NoSession
    /\ link = "shut" => outbox = <<>>
    /\ \A i \in 1..Len(outbox) : outbox[i] = Close => i = Len(outbox)

\* Headers and payloads alternate in what is to be read, from a client that has
\* or has not read a header, and the last message is complete.
Aligned(s, open) ==
    \A i \in 1..Len(s) :
        s[i][1] = "payload" <=> IF i = 1 THEN open ELSE IsHeader(s[i - 1])
Complete(s, open) == IF s = <<>> THEN ~open ELSE ~IsHeader(s[Len(s)])

\* It is so until a deadline has cut a message in two.
AlignedInv ==
    ~torn => /\ Aligned(Stream, half)
             /\ link \in {"dialing", "open"} => Complete(Stream, half)

\* The requests by their place in a call: hello, start, the frames, and the stop.
Place(m) ==
    IF m.type = "hello" THEN 0
    ELSE IF m.type = "start" THEN 1
    ELSE IF m.type = "frame" THEN m.seq + 1
    ELSE frames + 2

\* The last one the client has sent, and the last one the runtime has served.
ClientAt ==
    IF pc \in {"dial", "handshake"} THEN -1
    ELSE IF pc = "hello" THEN 0
    ELSE IF pc = "finish" THEN frames + 2
    ELSE sent + 1
RuntimeAt == ClientAt - Len(up)

\* The runtime gets the requests in their order, its session is where the last
\* one it served has left it, and it has refused none.
QueueInv ==
    /\ pc \in {"dial", "handshake", "hello"} => sent = 0
    /\ Serving =>
        /\ \A i \in 1..Len(up) :
              Place(up[i]) = RuntimeAt + i /\ (up[i].type = "frame" => up[i].seq > 0)
        /\ session = IF RuntimeAt < 1 THEN NoSession
                     ELSE [started |-> TRUE, received |-> RuntimeAt - 1]
        /\ complaint = "none"
        /\ RuntimeAt = -1 => Stream = <<>>
        /\ RuntimeAt > -1 /\ runtime = "fake" => ready
        /\ RuntimeAt > 0 => encodingOK

\* The runtime closes the connection of its own accord after a complaint, or with
\* the text on its way to a client that waits for it.
ClosingInv ==
    /\ Carries(Stream, "error") => complaint # "none"
    /\ complaint = "none" /\ (Closing \/ (link = "shut" /\ alive)) =>
          pc = "finish" /\ Carries(Stream, "text")

\* The partial of text t is read before what is at place j.
Precedes(t, s, j) == \E i \in 1..(j - 1) : IsPayload(s[i], "partial") /\ s[i][2].text = t

\* The partials the client has not read yet.
Unread == (Len(result.partials) + 1)..Len(issued)

\* The answers are read in the order in which the runtime has given them: the
\* partials, the final after all of them, and the text after the final.
InOrder(j) ==
    /\ IsPayload(Stream[j], "partial") =>
          /\ Stream[j][2].text \in Unread
          /\ \A t \in Unread : t < Stream[j][2].text => Precedes(t, Stream, j)
          /\ ~Precedes(Stream[j][2].text, Stream, j)
    /\ IsPayload(Stream[j], "final") =>
          /\ \A t \in Unread : Precedes(t, Stream, j)
          /\ Stream[j][2].text = Final(frames) /\ result.finals = <<>> /\ pc = "finish"
          /\ \A i \in 1..(j - 1) : ~IsPayload(Stream[i], "final")
    /\ IsPayload(Stream[j], "text") =>
          /\ \A t \in Unread : Precedes(t, Stream, j)
          /\ Stream[j][2].text = Final(frames)
          /\ result.finals = <<>> => \E i \in 1..(j - 1) : IsPayload(Stream[i], "final")
          /\ complaint = "none" /\ runtime = "fake" /\ ready /\ encodingOK

StreamInv ==
    /\ \A j \in 1..Len(Stream) : InOrder(j)
    /\ link = "open" => \A t \in Unread : Precedes(t, Stream, Len(Stream) + 1)

\* What has been given and read of them, and when nothing has been yet.
GivenInv ==
    /\ \A i \in 1..Len(issued) : issued[i] = i
    /\ \A i \in 1..Len(result.partials) : result.partials[i] = i
    /\ Len(result.partials) <= Len(issued) /\ Len(issued) <= 2
    /\ result.finals \in {<<>>, <<Final(frames)>>}
    /\ Serving =>
          /\ ~Carries(Stream, "final") /\ ~Carries(Stream, "text") /\ result.finals = <<>>
          /\ runtime = "fake" =>
                Len(issued) = IF session.received < 2 THEN session.received ELSE 2
    /\ pc \in {"dial", "handshake", "hello"} => issued = <<>> /\ result.finals = <<>>
    /\ pc \in {"dial", "handshake"} => complaint = "none"
    /\ pc = "hello" /\ complaint # "none" => ~Carries(Stream, "hello")
    /\ pc # "ok" => result.text = 0

\* The inductive invariant.
IInv == /\ TypeOK /\ LinkInv /\ AlignedInv /\ QueueInv /\ ClosingInv
        /\ StreamInv /\ GivenInv /\ FailureHasCause /\ ResultIsTheRuntimes

-----------------------------------------------------------------------------
(* Types.                                                                  *)

\* What a message is made of.
LEMMA AnswerParts ==
    /\ \A m \in Answers : Message(m) \in Seq(Tokens)
    /\ \A x \in Tokens : IsPayload(x, "partial") \/ IsPayload(x, "final") \/ IsPayload(x, "text")
                         => x[2].text \in Texts
    /\ [type |-> "hello"] \in Answers /\ [type |-> "error"] \in Answers
    /\ \A t \in Texts : /\ [type |-> "partial", text |-> t] \in Answers
                        /\ [type |-> "final", text |-> t] \in Answers
                        /\ [type |-> "text", text |-> t] \in Answers
    /\ Tokens \subseteq Out /\ Close \in Out
    /\ \A x \in Out : x # Close => x \in Tokens
<1>1. \A m \in Answers : <<"payload", m>> \in Tokens /\ <<"header">> \in Tokens
  BY DEF Tokens
<1>2. ASSUME NEW m \in Answers PROVE Message(m) \in Seq(Tokens)
  <2>1. \A a, b \in Tokens : <<a, b>> \in Seq(Tokens)
    OBVIOUS
  <2>. QED
    BY <1>1, <2>1, Zenon DEF Message
<1>3. /\ [type |-> "hello"] \in Answers /\ [type |-> "error"] \in Answers
      /\ \A t \in Texts : /\ [type |-> "partial", text |-> t] \in Answers
                          /\ [type |-> "final", text |-> t] \in Answers
                          /\ [type |-> "text", text |-> t] \in Answers
  BY DEF Answers
<1>4. ASSUME NEW m \in Answers, m.type \in {"partial", "final", "text"}
      PROVE  m.text \in Texts
  BY <1>4 DEF Answers
<1>5. ASSUME NEW x \in Tokens, x[1] = "payload"
      PROVE  x[2] \in Answers
  BY <1>5 DEF Tokens
<1>6. ASSUME NEW x \in Tokens,
             IsPayload(x, "partial") \/ IsPayload(x, "final") \/ IsPayload(x, "text")
      PROVE  x[2].text \in Texts
  BY <1>4, <1>5, <1>6 DEF IsPayload
<1>7. Tokens \subseteq Out /\ Close \in Out /\ \A x \in Out : x # Close => x \in Tokens
  BY DEF Out
<1>. QED
  BY <1>2, <1>3, <1>6, <1>7

\* What the client has still to read is made of these.
LEMMA NextToken ==
    ASSUME TypeOK, down # <<>>
    PROVE  Head(down) \in Tokens /\ Tail(down) \in Seq(Tokens)
  BY DEF TypeOK
\* The client hangs up, in whatever state it leaves its call.
LEMMA HangupTypes ==
    ASSUME TypeOK, Hangup, UNCHANGED <<setting, alive, sent, history>>,
           call' \in {"health", "transcribe"},
           pc' \in {"dial", "ok", "failed"},
           err' \in {"none", "transport", "timeout", "garbage", "refused"},
           result' \in [partials : Seq(Texts), finals : Seq(Texts), text : Texts \union {0}]
    PROVE  TypeOK'
<1>1. /\ <<>> \in Seq(Requests) /\ <<>> \in Seq(Tokens) /\ <<>> \in Seq(Out)
      /\ NoSession \in [started : BOOLEAN, received : Nat]
  BY DEF NoSession
<1>2. half' \in BOOLEAN
  BY DEF Hangup
<1>. QED
  BY <1>1, <1>2 DEF TypeOK, Hangup, Out, Close, setting, history

LEMMA FailTypes ==
    ASSUME TypeOK, NEW e \in {"transport", "timeout", "garbage", "refused"}, Fail(e)
    PROVE  TypeOK'
<1>1. /\ Hangup /\ UNCHANGED <<setting, alive, sent, history>>
      /\ call' = call /\ pc' = "failed" /\ err' = e /\ result' = result
  BY DEF Fail
<1>. QED
  BY <1>1, HangupTypes DEF TypeOK

LEMMA ClientTypes == TypeOK /\ Client => TypeOK'
<1>. SUFFICES ASSUME TypeOK, Client PROVE TypeOK'
  OBVIOUS
<1>. USE DEF setting, connVars, runtimeVars, history
<1>1. CASE Dial
  <2>1. CASE alive
    BY <1>1, <2>1 DEF Dial, TypeOK
  <2>2. CASE ~alive
    BY <1>1, <2>2, FailTypes DEF Dial
  <2>. QED
    BY <2>1, <2>2
<1>2. CASE Greet
  BY <1>2 DEF Greet, Write, TypeOK, Reading, Requests
<1>3. CASE ReadHeader
  BY <1>3, NextToken DEF ReadHeader, NextIs, TypeOK
<1>4. CASE ReadGarbage
  BY <1>4, FailTypes DEF ReadGarbage
<1>5. CASE ReadEOF
  BY <1>5, FailTypes DEF ReadEOF
<1>6. CASE QuietEnds
  BY <1>6 DEF QuietEnds, TypeOK
<1>7. CASE ReadTimesOut
  BY <1>7, FailTypes DEF ReadTimesOut
<1>8. CASE Healthy
  BY <1>8, HangupTypes DEF Healthy, TypeOK
<1>9. CASE StartStream
  <2>1. up' \in Seq(Requests)
    BY <1>9 DEF StartStream, Write, TypeOK, Requests
  <2>2. pc' = "drain" /\ half' = FALSE
    BY <1>9 DEF StartStream, Write, Consume
  <2>. QED
    BY <1>9, <2>1, <2>2, NextToken DEF StartStream, Payload, NextIs, Write, Consume, TypeOK, Reading
<1>10. CASE ConsumePartial
  <2>1. Head(down)[2].text \in Texts
    BY <1>10, NextToken, AnswerParts DEF ConsumePartial, Payload, NextIs, IsPayload
  <2>2. result' \in [partials : Seq(Texts), finals : Seq(Texts), text : Texts \union {0}]
    <3>1. Append(result.partials, Head(down)[2].text) \in Seq(Texts)
      BY <2>1 DEF TypeOK
    <3>2. result' = [result EXCEPT !.partials = Append(result.partials, Head(down)[2].text)]
      BY <1>10 DEF ConsumePartial
    <3>. QED
      BY <3>1, <3>2 DEF TypeOK
  <2>3. half' = FALSE /\ down' \in Seq(Tokens)
    BY <1>10, NextToken DEF ConsumePartial, Payload, NextIs, Consume
  <2>4. UNCHANGED <<runtime, frames, call, pc, sent, err, link, up, session, outbox, issued,
                    complaint>>
    BY <1>10 DEF ConsumePartial, Consume, setting, runtimeVars, history
  <2>5. {ready, encodingOK, alive, half, torn}' \subseteq BOOLEAN
    BY <1>10, <2>3, Zenon DEF ConsumePartial, Consume, TypeOK
  <2>6. TypeOK
    OBVIOUS
  <2>. QED
    BY ONLY <2>2, <2>3, <2>4, <2>5, <2>6, SMT DEF TypeOK
<1>11. CASE ConsumeFinal
  <2>1. Head(down)[2].text \in Texts
    BY <1>11, NextToken, AnswerParts DEF ConsumeFinal, Payload, NextIs, IsPayload
  <2>2. result' \in [partials : Seq(Texts), finals : Seq(Texts), text : Texts \union {0}]
    <3>1. Append(result.finals, Head(down)[2].text) \in Seq(Texts)
      BY <2>1 DEF TypeOK
    <3>2. result' = [result EXCEPT !.finals = Append(result.finals, Head(down)[2].text)]
      BY <1>11 DEF ConsumeFinal
    <3>. QED
      BY <3>1, <3>2 DEF TypeOK
  <2>3. half' = FALSE /\ down' \in Seq(Tokens)
    BY <1>11, NextToken DEF ConsumeFinal, Payload, NextIs, Consume
  <2>4. UNCHANGED <<runtime, frames, call, pc, sent, err, link, up, session, outbox, issued,
                    complaint>>
    BY <1>11 DEF ConsumeFinal, Consume, setting, runtimeVars, history
  <2>5. {ready, encodingOK, alive, half, torn}' \subseteq BOOLEAN
    BY <1>11, <2>3, Zenon DEF ConsumeFinal, Consume, TypeOK
  <2>6. TypeOK
    OBVIOUS
  <2>. QED
    BY ONLY <2>2, <2>3, <2>4, <2>5, <2>6, SMT DEF TypeOK
<1>12. CASE ConsumeText
  <2>1. Head(down)[2].text \in Texts
    BY <1>12, NextToken, AnswerParts DEF ConsumeText, Payload, NextIs, IsPayload
  <2>. QED
    BY <1>12, <2>1, HangupTypes DEF ConsumeText, TypeOK
<1>13. CASE ConsumeError
  BY <1>13, FailTypes DEF ConsumeError
<1>14. CASE SendFrame
  <2>1. /\ sent' \in 0..frames
        /\ [type |-> "frame", seq |-> sent + 1] \in Requests
    BY <1>14 DEF SendFrame, MoreFrames, TypeOK, Requests
  <2>2. up' \in Seq(Requests)
    BY <1>14, <2>1 DEF SendFrame, NextSequence, Write, TypeOK
  <2>. QED
    BY <1>14, <2>1, <2>2 DEF SendFrame, Write, TypeOK, Reading
<1>15. CASE SendStop
  BY <1>15 DEF SendStop, Write, TypeOK, Reading, Requests
<1>16. CASE WriteFails
  BY <1>16, FailTypes DEF WriteFails
<1>. QED
  BY <1>1, <1>2, <1>3, <1>4, <1>5, <1>6, <1>7, <1>8, <1>9, <1>10, <1>11, <1>12,
     <1>13, <1>14, <1>15, <1>16 DEF Client
\* What a Serve action leaves alone: everything but the queue and its answer.
LEMMA ServeTypes ==
    ASSUME TypeOK, up # <<>>, up' = Tail(up),
           UNCHANGED <<setting, alive, clientVars, link, down, torn>>,
           session' \in [started : BOOLEAN, received : Nat], outbox' \in Seq(Out),
           issued' \in Seq(Texts), complaint' \in Complaints \union {"none"}
    PROVE  TypeOK'
<1>1. up' \in Seq(Requests)
  BY DEF TypeOK
<1>. QED
  BY <1>1 DEF TypeOK, Out, Close, setting, clientVars

\* Answers of two, three and five parts.
LEMMA Parts ==
    ASSUME NEW S, NEW h \in S, NEW a \in S, NEW b \in S, NEW x \in S
    PROVE  /\ LET o == <<h, a>>
              IN  o \in Seq(S) /\ Len(o) = 2 /\ o[1] = h /\ o[2] = a
           /\ LET o == <<h, a>> \o <<x>>
              IN  o \in Seq(S) /\ Len(o) = 3 /\ o[1] = h /\ o[2] = a /\ o[3] = x
           /\ LET o == <<h, a>> \o <<h, b>> \o <<x>>
              IN  /\ o \in Seq(S) /\ Len(o) = 5
                  /\ o[1] = h /\ o[2] = a /\ o[3] = h /\ o[4] = b /\ o[5] = x
  OBVIOUS

\* The parts of an answer are told apart.
LEMMA PartKinds ==
    /\ <<"header">> \in Out /\ Close \in Out
    /\ IsHeader(<<"header">>) /\ <<"header">> # Close
    /\ ~IsHeader(Close) /\ Close[1] # "payload" /\ <<"header">>[1] # "payload"
    /\ \A m \in Answers : LET x == <<"payload", m>>
                         IN  /\ x \in Out /\ x # Close /\ ~IsHeader(x)
                             /\ x[1] = "payload" /\ x[2] = m
  BY DEF Out, Tokens, IsHeader, Close

\* A refusal: the error, and the end of the session.
LEMMA ComplainParts ==
    ASSUME NEW c, Complain(c)
    PROVE  /\ outbox' \in Seq(Out) /\ Len(outbox') = 3
           /\ outbox'[1] = <<"header">>
           /\ outbox'[2] = <<"payload", [type |-> "error"]>>
           /\ outbox'[3] = Close
<1>1. outbox' = <<<<"header">>, <<"payload", [type |-> "error"]>>>> \o <<Close>>
  BY DEF Complain, Message, Close
<1>. QED
  BY <1>1, PartKinds, Parts, AnswerParts
LEMMA MessageParts ==
    ASSUME NEW m \in Answers
    PROVE  /\ Message(m) \in Seq(Out) /\ Len(Message(m)) = 2
           /\ Message(m)[1] = <<"header">> /\ Message(m)[2] = <<"payload", m>>
  BY PartKinds, Parts DEF Message

\* The answer to audio_stop.
Farewell(t) == Says("final", t) \o Says("text", t) \o <<Close>>

LEMMA FarewellParts ==
    ASSUME NEW t \in Texts
    PROVE  /\ Farewell(t) \in Seq(Out) /\ Len(Farewell(t)) = 5
           /\ Farewell(t)[1] = <<"header">> /\ Farewell(t)[3] = <<"header">>
           /\ Farewell(t)[2] = <<"payload", [type |-> "final", text |-> t]>>
           /\ Farewell(t)[4] = <<"payload", [type |-> "text", text |-> t]>>
           /\ Farewell(t)[5] = Close
<1>. DEFINE f == <<"payload", [type |-> "final", text |-> t]>>
            w == <<"payload", [type |-> "text", text |-> t]>>
<1>1. Farewell(t) = <<<<"header">>, f>> \o <<<<"header">>, w>> \o <<Close>>
  BY DEF Farewell, Says, Message
<1>2. f \in Out /\ w \in Out
  BY PartKinds, AnswerParts
<1>. HIDE DEF f, w
<1>. DEFINE h == <<"header">>
<1>. HIDE DEF h
<1>3. LET o == <<h, f>> \o <<h, w>> \o <<Close>>
      IN  /\ o \in Seq(Out) /\ Len(o) = 5
          /\ o[1] = h /\ o[2] = f /\ o[3] = h /\ o[4] = w /\ o[5] = Close
  <2>1. h \in Out /\ Close \in Out
    BY PartKinds DEF h
  <2>. QED
    BY <1>2, <2>1, Parts
<1>. QED
  BY <1>1, <1>3, Zenon DEF f, w, h

LEMMA RuntimeTypes == TypeOK /\ Runtime => TypeOK'
<1>. SUFFICES ASSUME TypeOK, Runtime PROVE TypeOK'
  OBVIOUS
<1>. USE DEF setting, connVars, runtimeVars, history, clientVars
<1>0. /\ Final(session.received) \in Texts
      /\ \A n \in Nat : Partials(n) \in Seq(Texts)
      /\ session.received + 1 \in Nat
      /\ <<>> \in Seq(Out)
  <2>1. \A n \in Texts : <<n>> \in Seq(Texts)
    OBVIOUS
  <2>2. \A n \in Nat : Partials(n) \in Seq(Texts)
    BY <2>1 DEF Partials
  <2>3. Final(session.received) \in Texts
    BY DEF TypeOK, Final, Texts
  <2>4. session.received + 1 \in Nat
    BY DEF TypeOK
  <2>. QED
    BY <2>2, <2>3, <2>4
<1>1. CASE Accept
  BY <1>1 DEF Accept, TypeOK
<1>2. CASE ServeHello
  <2>1. outbox' \in Seq(Out)
    BY <1>2, ComplainParts, MessageParts, AnswerParts DEF ServeHello
  <2>. QED
    BY <1>2, <2>1, ServeTypes DEF ServeHello, Receives, Complain, Complaints, TypeOK
<1>3. CASE ServeStart
  <2>1. /\ outbox' \in Seq(Out)
        /\ session' \in [started : BOOLEAN, received : Nat]
    BY <1>3, ComplainParts, <1>0 DEF ServeStart, Receives, Complain, TypeOK
  <2>. QED
    BY <1>3, <2>1, ServeTypes DEF ServeStart, Receives, Complain, Complaints, TypeOK
<1>4. CASE ServeFrame
  <2>. DEFINE n == session.received + 1
  <2>1. CASE \E c \in {"not_started", "order"} : Complain(c)
    BY <1>4, <2>1, ComplainParts, ServeTypes DEF ServeFrame, Receives, Complain, Complaints, TypeOK
  <2>2. CASE /\ session' = [session EXCEPT !.received = n]
             /\ issued' = issued \o Partials(n)
             /\ outbox' = IF n \in Texts THEN Says("partial", n) ELSE <<>>
             /\ complaint' = complaint
    <3>1. outbox' \in Seq(Out)
      BY <2>2, <1>0, MessageParts, AnswerParts DEF Says
    <3>2. issued' \in Seq(Texts)
      BY <2>2, <1>0 DEF TypeOK
    <3>3. session' \in [started : BOOLEAN, received : Nat]
      BY <2>2, <1>0 DEF TypeOK
    <3>. QED
      BY <1>4, <2>2, <3>1, <3>2, <3>3, ServeTypes DEF ServeFrame, Receives, TypeOK
  <2>. QED
    BY <1>4, <2>1, <2>2 DEF ServeFrame
<1>5. CASE ServeStop
  <2>1. outbox' \in Seq(Out)
    BY <1>0, <1>5, ComplainParts, FarewellParts DEF ServeStop, Farewell, Close
  <2>. QED
    BY <1>5, <2>1, ServeTypes DEF ServeStop, Receives, Complain, Complaints, TypeOK
<1>6. CASE WriteNext
  <2>1. outbox' \in Seq(Out) /\ (Head(outbox) # Close => Head(outbox) \in Tokens)
    BY <1>6, AnswerParts DEF WriteNext, TypeOK, Out, Close
  <2>2. down' \in Seq(Tokens)
    <3>1. CASE Head(outbox) = Close
      BY <1>6, <3>1 DEF WriteNext, TypeOK, Close
    <3>2. CASE Head(outbox) # Close
      <4>1. down' = Append(down, Head(outbox))
        BY <1>6, <3>2, Zenon DEF WriteNext, Close
      <4>. QED
        BY <2>1, <3>2, <4>1 DEF TypeOK
    <3>. QED
      BY <3>1, <3>2
  <2>. QED
    BY <1>6, <2>1, <2>2 DEF WriteNext, TypeOK, Out, Close
<1>7. CASE CrashOnFrame \/ Dies
  <2>1. outbox' \in Seq(Out) /\ up' \in Seq(Requests) /\ alive' \in BOOLEAN
    <3>1. outbox' = <<>> /\ up' = <<>>
      BY <1>7 DEF CrashOnFrame, Dies
    <3>2. alive' \in BOOLEAN
      BY <1>7 DEF CrashOnFrame, Dies
    <3>. QED
      BY <3>1, <3>2
  <2>. QED
    BY <1>7, <2>1 DEF CrashOnFrame, Dies, TypeOK, Out, Close
<1>. QED
  BY <1>1, <1>2, <1>3, <1>4, <1>5, <1>6, <1>7 DEF Runtime
LEMMA TypeStep == TypeOK /\ [Next]_vars => TypeOK'
<1>1. ASSUME TypeOK, UNCHANGED vars PROVE TypeOK'
  BY <1>1 DEF TypeOK, vars, setting, connVars, runtimeVars, history
<1>. QED
  BY <1>1, ClientTypes, RuntimeTypes DEF Next

-----------------------------------------------------------------------------
(* What the client has still to read.                                      *)

LEMMA JoinParts ==
    ASSUME NEW S, NEW d \in Seq(S), NEW o \in Seq(S)
    PROVE  /\ d \o o \in Seq(S) /\ Len(d \o o) = Len(d) + Len(o)
           /\ \A i \in 1..Len(d) : (d \o o)[i] = d[i]
           /\ \A i \in 1..Len(o) : (d \o o)[Len(d) + i] = o[i]
           /\ \A i \in 1..Len(d \o o) : i > Len(d) => i - Len(d) \in 1..Len(o)
  OBVIOUS

LEMMA ReadOne ==
    ASSUME NEW S, NEW d \in Seq(S), NEW o \in Seq(S), d # <<>>
    PROVE  /\ Tail(d) \o o = Tail(d \o o)
           /\ d \o o # <<>> /\ (d \o o)[1] = Head(d)
  OBVIOUS

LEMMA WriteOne ==
    ASSUME NEW S, NEW d \in Seq(S), NEW o \in Seq(S), o # <<>>
    PROVE  Append(d, Head(o)) \o Tail(o) = d \o o
<1>1. Len(Append(d, Head(o)) \o Tail(o)) = Len(d \o o)
  OBVIOUS
<1>2. \A i \in 1..Len(d \o o) : (Append(d, Head(o)) \o Tail(o))[i] = (d \o o)[i]
  OBVIOUS
<1>. QED
  BY <1>1, <1>2

LEMMA TailParts ==
    ASSUME NEW S, NEW s \in Seq(S), s # <<>>
    PROVE  /\ Tail(s) \in Seq(S) /\ Len(Tail(s)) = Len(s) - 1
           /\ \A i \in 1..Len(Tail(s)) : Tail(s)[i] = s[i + 1]
  OBVIOUS

LEMMA StreamType == TypeOK => Stream \in Seq(Out) /\ down \in Seq(Out) /\ outbox \in Seq(Out)
<1>. SUFFICES ASSUME TypeOK PROVE Stream \in Seq(Out) /\ down \in Seq(Out) /\ outbox \in Seq(Out)
  OBVIOUS
<1>1. down \in Seq(Tokens) /\ outbox \in Seq(Out)
  BY DEF TypeOK, Out, Close
<1>2. down \in Seq(Out)
  BY <1>1, AnswerParts
<1>. QED
  BY <1>1, <1>2, JoinParts DEF Stream

\* The alternation of headers and payloads, read and answered.
LEMMA AlignedTail ==
    ASSUME NEW S, NEW s \in Seq(S), s # <<>>, NEW h, Aligned(s, h)
    PROVE  /\ s[1][1] = "payload" <=> h
           /\ Aligned(Tail(s), IsHeader(s[1]))
           /\ Complete(s, h) => Complete(Tail(s), IsHeader(s[1]))
  BY TailParts DEF Aligned, Complete

LEMMA AlignedPrefix ==
    ASSUME NEW S, NEW d \in Seq(S), NEW o \in Seq(S), NEW h, Aligned(d \o o, h)
    PROVE  Aligned(d, h)
<1>1. /\ Len(d) \in Nat /\ Len(o) \in Nat /\ Len(d \o o) = Len(d) + Len(o)
      /\ \A i \in 1..Len(d) : (d \o o)[i] = d[i]
  BY JoinParts
<1>. QED
  BY <1>1 DEF Aligned

LEMMA AlignedAnswer ==
    ASSUME NEW S, NEW d \in Seq(S), NEW o \in Seq(S), NEW h,
           Aligned(d, h), Complete(d, h), Aligned(o, FALSE), Complete(o, FALSE)
    PROVE  Aligned(d \o o, h) /\ Complete(d \o o, h)
  BY JoinParts DEF Aligned, Complete
-----------------------------------------------------------------------------
(* The initial states, and the hangup.                                     *)

\* Nothing is on the connection, and nothing is expected of it.
LEMMA EmptyConnection ==
    ASSUME down = <<>>, outbox = <<>>, ~half, link \in {"none", "dialing"}
    PROVE  AlignedInv /\ ClosingInv /\ StreamInv /\ ~Serving /\ Stream = <<>>
<1>1. Stream = <<>> /\ Len(Stream) = 0 /\ Len(outbox) = 0
  BY DEF Stream
<1>. QED
  BY <1>1 DEF AlignedInv, Aligned, Complete, ClosingInv, Closing, Carries, StreamInv, Serving

LEMMA InitIInv == Init => IInv
<1>. SUFFICES ASSUME Init PROVE IInv
  OBVIOUS
<1>1. TypeOK
  <2>1. <<>> \in Seq(Requests) /\ <<>> \in Seq(Tokens) /\ <<>> \in Seq(Out) /\ <<>> \in Seq(Texts)
    OBVIOUS
  <2>2. NoSession \in [started : BOOLEAN, received : Nat]
    BY DEF NoSession
  <2>3. result \in [partials : Seq(Texts), finals : Seq(Texts), text : Texts \union {0}]
    BY <2>1 DEF Init
  <2>4. {ready, encodingOK, alive, half, torn} \subseteq BOOLEAN
    BY DEF Init
  <2>5. frames \in 0..MaxFrames /\ sent \in 0..frames
    BY SidecarAssumption DEF Init
  <2>. QED
    BY <2>1, <2>2, <2>3, <2>4, <2>5 DEF Init, TypeOK, Out, Close
<1>2. AlignedInv /\ ClosingInv /\ StreamInv /\ ~Serving /\ Stream = <<>>
  BY EmptyConnection DEF Init
<1>3. LinkInv /\ QueueInv
  BY <1>2 DEF Init, LinkInv, QueueInv, Reading
<1>4. GivenInv
  BY <1>2 DEF Init, GivenInv
<1>5. FailureHasCause
  BY DEF Init, FailureHasCause
<1>6. ResultIsTheRuntimes
  BY DEF Init, ResultIsTheRuntimes, IsPrefix
<1>. QED
  BY <1>1, <1>2, <1>3, <1>4, <1>5, <1>6 DEF IInv

LEMMA EmptyConnectionNext ==
    ASSUME down' = <<>>, outbox' = <<>>, ~half', link' \in {"none", "dialing"}
    PROVE  AlignedInv' /\ ClosingInv' /\ StreamInv' /\ ~Serving' /\ Stream' = <<>>
<1>1. Stream' = <<>> /\ Len(Stream') = 0 /\ Len(outbox') = 0
  BY DEF Stream
<1>. QED
  BY <1>1 DEF AlignedInv, Aligned, Complete, ClosingInv, Closing, Carries, StreamInv, Serving

LEMMA HangupStep ==
    ASSUME Hangup, pc' \in {"dial", "ok", "failed"},
           pc' = "dial" => sent' = 0
    PROVE  LinkInv' /\ QueueInv' /\ AlignedInv' /\ ClosingInv' /\ StreamInv' /\ ~Serving'
<1>1. AlignedInv' /\ ClosingInv' /\ StreamInv' /\ ~Serving'
  BY EmptyConnectionNext DEF Hangup
<1>2. LinkInv'
  BY DEF Hangup, LinkInv, Reading
<1>3. QueueInv'
  BY <1>1 DEF QueueInv
<1>. QED
  BY <1>1, <1>2, <1>3

\* A failure that has a cause.
LEMMA FailStep ==
    ASSUME IInv, NEW e \in {"transport", "timeout", "garbage", "refused"}, Fail(e), pc # "ok",
           e = "garbage" => torn,
           e = "transport" => ~alive \/ complaint # "none",
           e = "refused" => complaint # "none"
    PROVE  IInv'
<1>1. Hangup /\ pc' = "failed" /\ err' = e
  BY DEF Fail
<1>2. UNCHANGED <<setting, alive, sent, result, history>>
  BY DEF Fail
<1>3. TypeOK'
  BY FailTypes DEF IInv
<1>4. LinkInv' /\ QueueInv' /\ AlignedInv' /\ ClosingInv' /\ StreamInv' /\ ~Serving'
  BY <1>1, HangupStep
<1>5. GivenInv'
  BY <1>1, <1>2, <1>4 DEF IInv, GivenInv, setting, history
<1>6. FailureHasCause'
  BY <1>1, <1>2 DEF IInv, FailureHasCause, setting, history
<1>7. ResultIsTheRuntimes'
  BY <1>1, <1>2 DEF IInv, ResultIsTheRuntimes, setting, history
<1>. QED
  BY <1>3, <1>4, <1>5, <1>6, <1>7 DEF IInv
\* The part the client reads next.
LEMMA NextPart ==
    ASSUME IInv, down # <<>>
    PROVE  /\ Stream \in Seq(Out) /\ Stream # <<>> /\ Len(Stream) \in Nat /\ 1 \in 1..Len(Stream)
           /\ Stream[1] = Head(down)
           /\ down' = Tail(down) /\ outbox' = outbox => Stream' = Tail(Stream)
<1>1. Stream \in Seq(Out) /\ down \in Seq(Out) /\ outbox \in Seq(Out)
  BY StreamType DEF IInv
<1>2. /\ Tail(down) \o outbox = Tail(down \o outbox)
      /\ down \o outbox # <<>> /\ (down \o outbox)[1] = Head(down)
  BY <1>1, ReadOne
<1>3. Stream # <<>> /\ Len(Stream) \in Nat /\ 1 \in 1..Len(Stream)
  BY <1>1, <1>2 DEF Stream
<1>. QED
  BY <1>1, <1>2, <1>3 DEF Stream

LEMMA NextPayload ==
    ASSUME IInv, NEW type, Payload(type)
    PROVE  /\ down # <<>> /\ half /\ pc \in Reading
           /\ IsPayload(Stream[1], type) /\ Carries(Stream, type)
<1>1. down # <<>> /\ half /\ pc \in Reading /\ IsPayload(Head(down), type)
  BY DEF Payload, NextIs, IsPayload
<1>. QED
  BY <1>1, NextPart DEF Carries

\* What the client gives up for has gone wrong.
LEMMA ReadGarbageStep == IInv /\ ReadGarbage => IInv'
<1>. SUFFICES ASSUME IInv, ReadGarbage PROVE IInv'
  OBVIOUS
<1>1. down # <<>> /\ Head(down)[1] = "payload" /\ ~half /\ pc # "ok" /\ Fail("garbage")
  BY DEF ReadGarbage, NextIs, Reading
<1>2. torn
  BY <1>1, NextPart DEF IInv, AlignedInv, Aligned
<1>. QED
  BY <1>1, <1>2, FailStep

LEMMA ReadEOFStep == IInv /\ ReadEOF => IInv'
<1>. SUFFICES ASSUME IInv, ReadEOF PROVE IInv'
  OBVIOUS
<1>1. /\ down = <<>> \/ pc = "handshake"
      /\ link = "shut" /\ pc # "ok" /\ Fail("transport")
  BY DEF ReadEOF, Reading
<1>2. down = <<>> /\ outbox = <<>>
  BY <1>1 DEF IInv, LinkInv
<1>3. ~Carries(Stream, "text")
  BY <1>2 DEF Stream, Carries
<1>4. ~alive \/ complaint # "none"
  BY <1>1, <1>3 DEF IInv, ClosingInv
<1>. QED
  BY <1>1, <1>4, FailStep

LEMMA WriteFailsStep == IInv /\ WriteFails => IInv'
<1>. SUFFICES ASSUME IInv, WriteFails PROVE IInv'
  OBVIOUS
<1>1. pc = "next" /\ link = "shut" /\ Fail("transport")
  BY DEF WriteFails
<1>2. ~alive \/ complaint # "none"
  BY <1>1 DEF IInv, ClosingInv
<1>. QED
  BY <1>1, <1>2, FailStep

LEMMA ConsumeErrorStep == IInv /\ ConsumeError => IInv'
<1>. SUFFICES ASSUME IInv, ConsumeError PROVE IInv'
  OBVIOUS
<1>1. Payload("error") /\ Fail("refused")
  BY DEF ConsumeError
<1>2. complaint # "none" /\ pc # "ok"
  BY <1>1, NextPayload DEF IInv, ClosingInv, Reading
<1>. QED
  BY <1>1, <1>2, FailStep

LEMMA ReadTimesOutStep == IInv /\ ReadTimesOut => IInv'
  BY FailStep DEF ReadTimesOut, Deadlined

\* HealthCheck leaves nothing behind.
LEMMA HealthyStep == IInv /\ Healthy => IInv'
<1>. SUFFICES ASSUME IInv, Healthy PROVE IInv'
  OBVIOUS
<1>1. Payload("hello") /\ pc = "hello" /\ pc' = "dial" /\ Hangup
  BY DEF Healthy
<1>2. UNCHANGED <<setting, alive, sent, result, err, history>>
  BY DEF Healthy
<1>3. TypeOK'
  BY ClientTypes DEF IInv, Client
<1>4. /\ LinkInv' /\ QueueInv' /\ AlignedInv' /\ ClosingInv' /\ StreamInv' /\ ~Serving'
  BY <1>1, <1>2, HangupStep DEF IInv, QueueInv
<1>5. GivenInv'
  <2>1. complaint = "none"
    BY <1>1, NextPayload DEF IInv, GivenInv
  <2>. QED
    BY <1>1, <1>2, <1>4, <2>1 DEF IInv, GivenInv, setting, history
<1>6. FailureHasCause'
  BY <1>2 DEF IInv, FailureHasCause, setting, history
<1>7. ResultIsTheRuntimes'
  BY <1>1, <1>2 DEF IInv, ResultIsTheRuntimes, setting, history
<1>. QED
  BY <1>3, <1>4, <1>5, <1>6, <1>7 DEF IInv

\* Finish returns what the runtime has given.
LEMMA ConsumeTextStep == IInv /\ ConsumeText => IInv'
<1>. SUFFICES ASSUME IInv, ConsumeText PROVE IInv'
  OBVIOUS
<1>1. /\ Payload("text") /\ pc' = "ok" /\ Hangup
      /\ result' = [result EXCEPT !.text = Stream[1][2].text]
  BY NextPayload, NextPart DEF ConsumeText
<1>2. UNCHANGED <<setting, alive, sent, err, history>>
  BY DEF ConsumeText
<1>3. TypeOK'
  BY ClientTypes DEF IInv, Client
<1>4. /\ LinkInv' /\ QueueInv' /\ AlignedInv' /\ ClosingInv' /\ StreamInv' /\ ~Serving'
  BY <1>1, HangupStep
<1>5. result'.partials = result.partials /\ result'.finals = result.finals
      /\ result'.text = Stream[1][2].text
  BY <1>1 DEF IInv, TypeOK
<1>6. GivenInv'
  BY <1>1, <1>2, <1>4, <1>5 DEF IInv, GivenInv, setting, history
<1>7. FailureHasCause'
  BY <1>2 DEF IInv, FailureHasCause, setting, history
<1>8. /\ IsPayload(Stream[1], "text") /\ 1 \in 1..Len(Stream)
  BY <1>1, NextPayload, NextPart
<1>9. /\ \A t \in Unread : Precedes(t, Stream, 1)
      /\ Stream[1][2].text = Final(frames)
      /\ result.finals = <<>> => \E i \in 1..(1 - 1) : IsPayload(Stream[i], "final")
      /\ complaint = "none" /\ runtime = "fake" /\ ready /\ encodingOK
  BY <1>8 DEF IInv, StreamInv, InOrder
<1>10. Unread = {} /\ result.finals = <<Final(frames)>>
  BY <1>9 DEF IInv, GivenInv, Precedes
<1>11. result.partials = issued
  <2>1. result.partials \in Seq(Texts) /\ issued \in Seq(Texts)
    BY DEF IInv, TypeOK
  <2>2. Len(result.partials) = Len(issued)
    <3>1. /\ Len(result.partials) \in Nat /\ Len(issued) \in Nat
          /\ Len(result.partials) <= Len(issued)
      BY <2>1 DEF IInv, GivenInv
    <3>2. Len(issued) \notin Unread
      BY <1>10
    <3>. QED
      BY <3>1, <3>2 DEF Unread
  <2>3. \A i \in 1..Len(issued) : result.partials[i] = issued[i]
    BY <2>2 DEF IInv, GivenInv
  <2>. QED
    BY <2>1, <2>2, <2>3
<1>12. result' = [partials |-> issued, finals |-> <<Final(frames)>>, text |-> Final(frames)]
  BY <1>1, <1>9, <1>10, <1>11 DEF IInv, TypeOK
<1>13. ResultIsTheRuntimes'
  BY <1>2, <1>5, <1>9, <1>12 DEF IInv, ResultIsTheRuntimes, setting, history
<1>. QED
  BY <1>3, <1>4, <1>6, <1>7, <1>13 DEF IInv
-----------------------------------------------------------------------------
(* The steps that leave alone what the client has still to read.           *)

\* What does not depend on where the client is.
LEMMA SameStream ==
    ASSUME IInv, UNCHANGED <<setting, alive, down, outbox, issued, complaint, result, err>>,
           torn => torn', link' # "open" \/ link' = link, pc' # "ok",
           pc = "finish" => pc' = "finish"
    PROVE  /\ Stream' = Stream /\ Closing' = Closing
           /\ StreamInv' /\ FailureHasCause' /\ ResultIsTheRuntimes'
<1>1. Stream' = Stream /\ Closing' = Closing
  BY DEF Stream, Closing
<1>2. StreamInv'
  BY <1>1 DEF IInv, StreamInv, InOrder, Unread, Precedes, Final, setting
<1>3. FailureHasCause'
  BY DEF IInv, FailureHasCause, setting
<1>4. ResultIsTheRuntimes'
  BY DEF IInv, ResultIsTheRuntimes
<1>. QED
  BY <1>1, <1>2, <1>3, <1>4
LEMMA DialStep == IInv /\ Dial => IInv'
<1>. SUFFICES ASSUME IInv, Dial PROVE IInv'
  OBVIOUS
<1>1. CASE ~alive
  BY <1>1, FailStep DEF Dial
<1>2. CASE alive
  <2>1. /\ pc = "dial" /\ pc' = "handshake" /\ link' = "dialing"
        /\ UNCHANGED <<setting, alive, call, sent, result, half, err, up, down, runtimeVars, history>>
    BY <1>2 DEF Dial
  <2>2. TypeOK'
    BY ClientTypes DEF IInv, Client
  <2>3. up = <<>> /\ down = <<>> /\ outbox = <<>> /\ ~half /\ session = NoSession
    BY <2>1 DEF IInv, LinkInv
  <2>4. AlignedInv' /\ ClosingInv' /\ StreamInv' /\ ~Serving' /\ Stream' = <<>>
    BY <2>1, <2>3, EmptyConnectionNext DEF runtimeVars
  <2>5. LinkInv'
    BY <2>1, <2>3 DEF LinkInv, Reading, runtimeVars
  <2>6. QueueInv'
    BY <2>1, <2>4 DEF IInv, QueueInv
  <2>7. GivenInv'
    BY <2>1, <2>4 DEF IInv, GivenInv, setting, history
  <2>8. FailureHasCause' /\ ResultIsTheRuntimes'
    BY <2>1 DEF IInv, FailureHasCause, ResultIsTheRuntimes, setting, history
  <2>. QED
    BY <2>2, <2>4, <2>5, <2>6, <2>7, <2>8 DEF IInv
<1>. QED
  BY <1>1, <1>2

LEMMA AcceptStep == IInv /\ Accept => IInv'
<1>. SUFFICES ASSUME IInv, Accept PROVE IInv'
  OBVIOUS
<1>1. /\ link = "dialing" /\ link' = "open"
      /\ UNCHANGED <<setting, alive, call, pc, sent, result, half, err, up, down, runtimeVars, history>>
  BY DEF Accept
<1>2. TypeOK'
  BY RuntimeTypes DEF IInv, Runtime
<1>3. pc = "handshake"
  BY <1>1 DEF IInv, LinkInv, TypeOK
<1>4. up = <<>> /\ down = <<>> /\ outbox = <<>> /\ ~half /\ session = NoSession /\ issued = <<>>
  BY <1>3 DEF IInv, LinkInv, GivenInv
<1>5. Stream' = <<>> /\ Len(Stream') = 0 /\ Len(outbox') = 0 /\ Len(up') = 0
  BY <1>1, <1>4 DEF Stream, runtimeVars
<1>6. LinkInv'
  BY <1>1, <1>3, <1>4 DEF LinkInv, Reading, runtimeVars
<1>7. AlignedInv'
  BY <1>1, <1>4, <1>5 DEF AlignedInv, Aligned, Complete
<1>8. QueueInv'
  <2>1. RuntimeAt' = -1
    BY <1>1, <1>3, <1>5 DEF RuntimeAt, ClientAt
  <2>2. complaint = "none" /\ sent = 0
    BY <1>3 DEF IInv, GivenInv, QueueInv
  <2>. QED
    BY <1>1, <1>3, <1>4, <1>5, <2>1, <2>2 DEF QueueInv, NoSession, setting, runtimeVars, history
<1>9. ClosingInv'
  BY <1>1, <1>5 DEF ClosingInv, Closing, Carries
<1>10. StreamInv'
  <2>1. Unread' = {}
    BY <1>1, <1>4 DEF IInv, TypeOK, Unread, history
  <2>. QED
    BY <1>5, <2>1 DEF StreamInv
<1>11. GivenInv'
  BY <1>1, <1>3, <1>4, <1>5 DEF IInv, GivenInv, Carries, NoSession, setting, runtimeVars, history
<1>12. FailureHasCause' /\ ResultIsTheRuntimes'
  BY <1>1 DEF IInv, FailureHasCause, ResultIsTheRuntimes, setting, history
<1>. QED
  BY <1>2, <1>6, <1>7, <1>8, <1>9, <1>10, <1>11, <1>12 DEF IInv
\* A request goes to the end of the queue, and is the next in the call's order.
LEMMA SendQueue ==
    ASSUME IInv, TypeOK', NEW m \in Requests,
           up' = IF link = "open" THEN Append(up, m) ELSE up,
           UNCHANGED <<setting, link, runtimeVars, complaint>>,
           Stream = <<>> => Stream' = <<>>,
           ClientAt' = ClientAt + 1, Place(m) = ClientAt + 1, m.type = "frame" => m.seq > 0,
           pc' = "hello" => sent' = 0, pc' \notin {"dial", "handshake"}
    PROVE  QueueInv'
<1>1. pc' \in {"dial", "handshake", "hello"} => sent' = 0
  OBVIOUS
<1>. SUFFICES ASSUME Serving'
              PROVE  /\ \A i \in 1..Len(up') :
                            /\ Place(up[i])' = RuntimeAt' + i
                            /\ up'[i].type = "frame" => up'[i].seq > 0
                     /\ RuntimeAt' = RuntimeAt /\ Serving
  BY <1>1 DEF IInv, QueueInv, setting, runtimeVars
<1>2. link = "open" /\ Serving
  BY DEF Serving, Closing, runtimeVars
<1>3. up \in Seq(Requests) /\ up' = Append(up, m) /\ frames' = frames /\ ClientAt \in Int
  BY <1>2 DEF IInv, TypeOK, setting, ClientAt
<1>4. Len(up') = Len(up) + 1 /\ Len(up) \in Nat
  BY <1>3
<1>5. RuntimeAt' = RuntimeAt /\ RuntimeAt = ClientAt - Len(up)
  BY <1>3, <1>4 DEF RuntimeAt
<1>6. ASSUME NEW i \in 1..Len(up')
      PROVE  /\ Place(up[i])' = RuntimeAt' + i
             /\ up'[i].type = "frame" => up'[i].seq > 0
  <2>1. ASSUME NEW x, up'[i] = x
        PROVE  Place(up[i])' = Place(x)
    BY <1>3, <2>1 DEF Place
  <2>2. CASE i \in 1..Len(up)
    <3>1. up'[i] = up[i]
      BY <1>3, <2>2
    <3>2. Place(up[i]) = RuntimeAt + i /\ (up[i].type = "frame" => up[i].seq > 0)
      BY <1>2, <2>2 DEF IInv, QueueInv
    <3>. QED
      BY <1>5, <2>1, <3>1, <3>2
  <2>3. CASE i = Len(up) + 1
    <3>1. up'[i] = m
      BY <1>3, <2>3
    <3>. QED
      BY <1>3, <1>4, <1>5, <2>1, <2>3, <3>1
  <2>. QED
    BY <1>4, <2>2, <2>3
<1>. QED
  BY <1>2, <1>5, <1>6
\* What else a request leaves as it was.
LEMMA SendStep ==
    ASSUME IInv, TypeOK', QueueInv', link \in {"open", "shut"},
           pc \notin {"finish", "ok"}, pc' \in {"hello", "drain", "finish"},
           pc' = "hello" => pc = "handshake",
           UNCHANGED <<setting, alive, result, half, err, link, down, runtimeVars, history>>
    PROVE  IInv'
<1>1. /\ Stream' = Stream /\ Closing' = Closing
      /\ StreamInv' /\ FailureHasCause' /\ ResultIsTheRuntimes'
  BY SameStream DEF runtimeVars, history
<1>2. LinkInv'
  BY DEF IInv, LinkInv, Reading, runtimeVars
<1>3. AlignedInv'
  BY <1>1 DEF IInv, AlignedInv, history
<1>4. ClosingInv'
  BY <1>1 DEF IInv, ClosingInv, history
<1>5. GivenInv'
  BY <1>1 DEF IInv, GivenInv, Serving, Final, setting, runtimeVars, history
<1>. QED
  BY <1>1, <1>2, <1>3, <1>4, <1>5 DEF IInv

LEMMA GreetStep == IInv /\ Greet => IInv'
<1>. SUFFICES ASSUME IInv, Greet PROVE IInv'
  OBVIOUS
<1>. DEFINE m == [type |-> "hello"]
<1>1. /\ pc = "handshake" /\ pc' = "hello" /\ link = "open"
      /\ up' = IF link = "open" THEN Append(up, m) ELSE up
      /\ UNCHANGED <<setting, alive, call, sent, result, half, err, link, down, runtimeVars, history>>
  BY DEF Greet, Write
<1>2. TypeOK'
  BY ClientTypes DEF IInv, Client
<1>3. m \in Requests /\ m.type # "frame" /\ Place(m) = 0
  BY DEF Requests, Place
<1>4. ClientAt' = 0 /\ ClientAt = -1 /\ sent' = 0
  BY <1>1 DEF ClientAt, IInv, QueueInv
<1>. HIDE DEF m
<1>5. QueueInv'
  BY <1>1, <1>2, <1>3, <1>4, SendQueue DEF Stream, runtimeVars, history
<1>. QED
  BY <1>1, <1>2, <1>5, SendStep

LEMMA SendFrameStep == IInv /\ SendFrame => IInv'
<1>. SUFFICES ASSUME IInv, SendFrame PROVE IInv'
  OBVIOUS
<1>. DEFINE m == [type |-> "frame", seq |-> sent + 1]
<1>1. /\ pc = "next" /\ pc' = "drain" /\ sent < frames /\ sent' = sent + 1
      /\ up' = IF link = "open" THEN Append(up, m) ELSE up
      /\ UNCHANGED <<setting, alive, call, result, half, err, link, down, runtimeVars, history>>
  BY DEF SendFrame, MoreFrames, NextSequence, Write
<1>2. TypeOK' /\ sent \in Nat
  BY ClientTypes DEF IInv, Client, TypeOK
<1>3. m \in Requests /\ m.seq > 0 /\ Place(m) = sent + 2
  BY <1>2 DEF Requests, Place
<1>4. ClientAt' = sent + 2 /\ ClientAt = sent + 1
  BY <1>1, <1>2 DEF ClientAt
<1>. HIDE DEF m
<1>5. QueueInv'
  BY <1>1, <1>2, <1>3, <1>4, SendQueue DEF Stream, runtimeVars, history
<1>6. link \in {"open", "shut"}
  BY <1>1 DEF IInv, LinkInv
<1>. QED
  BY <1>1, <1>2, <1>5, <1>6, SendStep

LEMMA SendStopStep == IInv /\ SendStop => IInv'
<1>. SUFFICES ASSUME IInv, SendStop PROVE IInv'
  OBVIOUS
<1>. DEFINE m == [type |-> "stop"]
<1>1. /\ pc = "next" /\ pc' = "finish" /\ ~(sent < frames)
      /\ up' = IF link = "open" THEN Append(up, m) ELSE up
      /\ UNCHANGED <<setting, alive, call, sent, result, half, err, link, down, runtimeVars, history>>
  BY DEF SendStop, MoreFrames, Write
<1>2. TypeOK' /\ sent = frames /\ frames \in Nat /\ frames' = frames
  BY <1>1, ClientTypes, SidecarAssumption DEF IInv, Client, TypeOK, setting
<1>3. m \in Requests /\ m.type # "frame" /\ Place(m) = frames + 2
  BY DEF Requests, Place
<1>4. ClientAt' = frames + 2 /\ ClientAt = frames + 1
  BY <1>1, <1>2 DEF ClientAt
<1>. HIDE DEF m
<1>5. QueueInv'
  BY <1>1, <1>2, <1>3, <1>4, SendQueue DEF Stream, runtimeVars, history
<1>6. link \in {"open", "shut"}
  BY <1>1 DEF IInv, LinkInv
<1>. QED
  BY <1>1, <1>2, <1>5, <1>6, SendStep

\* A deadline that falls inside a message spoils the alignment, and nothing else.
LEMMA QuietEndsStep == IInv /\ QuietEnds => IInv'
<1>. SUFFICES ASSUME IInv, QuietEnds PROVE IInv'
  OBVIOUS
<1>1. /\ pc = "drain" /\ pc' = "next" /\ half' = FALSE /\ torn' = (torn \/ half)
      /\ UNCHANGED <<setting, alive, call, sent, result, err, connVars, runtimeVars,
                     issued, complaint>>
  BY DEF QuietEnds
<1>2. TypeOK'
  BY ClientTypes DEF IInv, Client
<1>3. /\ Stream' = Stream /\ Closing' = Closing
      /\ StreamInv' /\ FailureHasCause' /\ ResultIsTheRuntimes'
  BY <1>1, SameStream DEF connVars, runtimeVars
<1>4. LinkInv'
  BY <1>1 DEF IInv, LinkInv, Reading, connVars, runtimeVars
<1>5. AlignedInv'
  <2>1. ~torn' => ~torn /\ half' = half
    BY <1>1 DEF IInv, TypeOK
  <2>. QED
    BY <1>1, <1>3, <2>1 DEF IInv, AlignedInv, connVars
<1>6. QueueInv'
  <2>1. RuntimeAt' = RuntimeAt
    BY <1>1 DEF RuntimeAt, ClientAt, connVars
  <2>. QED
    BY <1>1, <1>3, <2>1 DEF IInv, QueueInv, Serving, Place, setting, connVars, runtimeVars
<1>7. ClosingInv'
  BY <1>1, <1>3 DEF IInv, ClosingInv, connVars
<1>8. GivenInv'
  BY <1>1, <1>3 DEF IInv, GivenInv, Serving, Final, setting, connVars, runtimeVars
<1>. QED
  BY <1>2, <1>3, <1>4, <1>5, <1>6, <1>7, <1>8 DEF IInv
-----------------------------------------------------------------------------
(* The steps that read the next part.                                      *)

LEMMA ReadStream ==
    ASSUME IInv, down # <<>>, down' = Tail(down), outbox' = outbox
    PROVE  /\ Stream # <<>> /\ Stream' = Tail(Stream)
           /\ Len(Stream) \in Nat /\ Len(Stream') = Len(Stream) - 1
           /\ \A i \in 1..Len(Stream') : Stream'[i] = Stream[i + 1]
           /\ \A type : Carries(Stream', type) => Carries(Stream, type)
           /\ \A type : Carries(Stream, type) /\ ~IsPayload(Stream[1], type)
                        => Carries(Stream', type)
           /\ Closing' = Closing
<1>1. /\ Stream \in Seq(Out) /\ Stream # <<>> /\ Stream' = Tail(Stream)
      /\ Len(Stream) \in Nat
  BY NextPart
<1>2. Len(Stream') = Len(Stream) - 1 /\ \A i \in 1..Len(Stream') : Stream'[i] = Stream[i + 1]
  BY <1>1, TailParts
<1>. DEFINE new == Stream'
<1>. HIDE DEF new
<1>3. ASSUME NEW type, Carries(Stream', type)
      PROVE  Carries(Stream, type)
  BY <1>1, <1>2, <1>3 DEF Carries
<1>4. ASSUME NEW type, Carries(Stream, type), ~IsPayload(Stream[1], type)
      PROVE  Carries(Stream', type)
  <2>1. PICK i \in 1..Len(Stream) : IsPayload(Stream[i], type)
    BY <1>4 DEF Carries
  <2>2. i - 1 \in 1..Len(Stream') /\ Stream'[i - 1] = Stream[i]
    BY <1>1, <1>2, <1>4, <2>1
  <2>. QED
    BY <2>1, <2>2 DEF Carries
<1>. QED
  BY <1>1, <1>2, <1>3, <1>4 DEF Closing

\* What has been read is no longer expected, and the rest keeps its order.
LEMMA ReadInOrder ==
    ASSUME IInv, down # <<>>, down' = Tail(down),
           UNCHANGED <<setting, link, outbox, issued, complaint>>,
           ~IsPayload(Stream[1], "text"), pc = "finish" => pc' = "finish",
           \A t : t \in Unread' <=>
                     t \in Unread /\ ~(IsPayload(Stream[1], "partial") /\ Stream[1][2].text = t),
           IsPayload(Stream[1], "final") => result'.finals # <<>>,
           ~IsPayload(Stream[1], "final") => result'.finals = result.finals
    PROVE  StreamInv'
<1>1. /\ Len(Stream) \in Nat /\ Len(Stream') = Len(Stream) - 1
      /\ \A i \in 1..Len(Stream') : Stream'[i] = Stream[i + 1]
  BY ReadStream
<1>2. ASSUME NEW t, NEW j \in 1..(Len(Stream') + 1)
      PROVE  /\ Precedes(t, Stream', j) => Precedes(t, Stream, j + 1)
             /\ t \in Unread' /\ Precedes(t, Stream, j + 1) => Precedes(t, Stream', j)
  <2>1. ASSUME Precedes(t, Stream', j)
        PROVE  Precedes(t, Stream, j + 1)
    BY <1>1, <2>1, SMTT(30) DEF Precedes
  <2>2. ASSUME t \in Unread', Precedes(t, Stream, j + 1)
        PROVE  Precedes(t, Stream', j)
    <3>1. PICK i \in 1..j : IsPayload(Stream[i], "partial") /\ Stream[i][2].text = t
      BY <2>2 DEF Precedes
    <3>2. i # 1
      BY <2>2, <3>1
    <3>3. i - 1 \in 1..(j - 1) /\ Stream'[i - 1] = Stream[i]
      BY <1>1, <3>1, <3>2
    <3>. QED
      BY <3>1, <3>3 DEF Precedes
  <2>. QED
    BY <2>1, <2>2
<1>3. ASSUME NEW j \in 1..Len(Stream'), IsPayload(Stream'[j], "partial")
      PROVE  /\ Stream'[j][2].text \in Unread'
             /\ \A t \in Unread' : t < Stream'[j][2].text => Precedes(t, Stream', j)
             /\ ~Precedes(Stream'[j][2].text, Stream', j)
  <2>1. j + 1 \in 1..Len(Stream) /\ Stream'[j] = Stream[j + 1] /\ j \in 1..(Len(Stream') + 1)
    BY <1>1
  <2>2. /\ Stream[j + 1][2].text \in Unread
        /\ \A t \in Unread : t < Stream[j + 1][2].text => Precedes(t, Stream, j + 1)
        /\ ~Precedes(Stream[j + 1][2].text, Stream, j + 1)
    BY <1>3, <2>1 DEF IInv, StreamInv, InOrder
  <2>3. ~(IsPayload(Stream[1], "partial") /\ Stream[1][2].text = Stream[j + 1][2].text)
    BY <2>2 DEF Precedes
  <2>. QED
    BY <1>2, <2>1, <2>2, <2>3
<1>4. ASSUME NEW j \in 1..Len(Stream'), IsPayload(Stream'[j], "final")
      PROVE  /\ \A t \in Unread' : Precedes(t, Stream', j)
             /\ Stream'[j][2].text = Final(frames) /\ result'.finals = <<>> /\ pc' = "finish"
             /\ \A i \in 1..(j - 1) : ~IsPayload(Stream'[i], "final")
  <2>1. j + 1 \in 1..Len(Stream) /\ Stream'[j] = Stream[j + 1] /\ j \in 1..(Len(Stream') + 1)
    BY <1>1
  <2>2. /\ \A t \in Unread : Precedes(t, Stream, j + 1)
        /\ Stream[j + 1][2].text = Final(frames) /\ result.finals = <<>> /\ pc = "finish"
        /\ \A i \in 1..j : ~IsPayload(Stream[i], "final")
    BY <1>4, <2>1 DEF IInv, StreamInv, InOrder
  <2>3. ~IsPayload(Stream[1], "final")
    BY <2>2
  <2>4. \A i \in 1..(j - 1) : ~IsPayload(Stream'[i], "final")
    BY <1>1, <2>2
  <2>. QED
    BY <1>2, <2>1, <2>2, <2>3, <2>4
<1>5. ASSUME NEW j \in 1..Len(Stream'), IsPayload(Stream'[j], "text")
      PROVE  /\ \A t \in Unread' : Precedes(t, Stream', j)
             /\ Stream'[j][2].text = Final(frames)
             /\ result'.finals = <<>> => \E i \in 1..(j - 1) : IsPayload(Stream'[i], "final")
             /\ complaint = "none" /\ runtime = "fake" /\ ready /\ encodingOK
  <2>1. j + 1 \in 1..Len(Stream) /\ Stream'[j] = Stream[j + 1] /\ j \in 1..(Len(Stream') + 1)
    BY <1>1
  <2>2. /\ \A t \in Unread : Precedes(t, Stream, j + 1)
        /\ Stream[j + 1][2].text = Final(frames)
        /\ result.finals = <<>> => \E i \in 1..j : IsPayload(Stream[i], "final")
        /\ complaint = "none" /\ runtime = "fake" /\ ready /\ encodingOK
    BY <1>5, <2>1 DEF IInv, StreamInv, InOrder
  <2>3. ASSUME result'.finals = <<>>
        PROVE  \E i \in 1..(j - 1) : IsPayload(Stream'[i], "final")
    <3>1. ~IsPayload(Stream[1], "final") /\ result.finals = <<>>
      BY <2>3
    <3>2. PICK i \in 1..j : IsPayload(Stream[i], "final")
      BY <2>2, <3>1
    <3>3. i # 1
      BY <3>1, <3>2
    <3>4. i - 1 \in 1..(j - 1) /\ i - 1 \in 1..Len(Stream')
      BY <1>1, <3>2, <3>3
    <3>5. Stream'[i - 1] = Stream[i]
      BY <1>1, <3>4
    <3>. QED
      BY <3>2, <3>4, <3>5
  <2>. QED
    BY <1>2, <2>1, <2>2, <2>3
<1>6. link' = "open" => \A t \in Unread' : Precedes(t, Stream', Len(Stream') + 1)
  BY <1>1, <1>2 DEF IInv, StreamInv
<1>. QED
  BY <1>3, <1>4, <1>5, <1>6 DEF StreamInv, InOrder, Precedes, Final, setting
LEMMA PrefixNext ==
    ASSUME TypeOK', GivenInv', pc' # "ok"
    PROVE  ResultIsTheRuntimes'
<1>1. /\ result'.partials \in Seq(Texts) /\ issued' \in Seq(Texts)
      /\ Len(result'.partials) <= Len(issued')
      /\ \A i \in 1..Len(issued') : issued'[i] = i
      /\ \A i \in 1..Len(result'.partials) : result'.partials[i] = i
  BY DEF TypeOK, GivenInv
<1>. QED
  BY <1>1 DEF ResultIsTheRuntimes, IsPrefix

\* The rest of what a read leaves as it should be.
LEMMA ReadStep ==
    ASSUME IInv, TypeOK', QueueInv', StreamInv', GivenInv',
           pc \in Reading, pc' \in {"drain", "hello", "finish"}, pc = "finish" => pc' = "finish",
           down # <<>>, down' = Tail(down), half' <=> IsHeader(Stream[1]),
           ~IsPayload(Stream[1], "text"),
           UNCHANGED <<setting, alive, link, err, outbox, complaint, torn>>
    PROVE  IInv'
<1>1. /\ Stream # <<>> /\ Stream' = Tail(Stream)
      /\ \A type : Carries(Stream', type) => Carries(Stream, type)
      /\ \A type : Carries(Stream, type) /\ ~IsPayload(Stream[1], type) => Carries(Stream', type)
      /\ Closing' = Closing
  BY ReadStream
<1>2. LinkInv'
  BY DEF IInv, LinkInv, Reading
<1>3. AlignedInv'
  <2>. SUFFICES ASSUME ~torn PROVE AlignedInv'
    BY DEF AlignedInv
  <2>1. Stream \in Seq(Out) /\ Aligned(Stream, half)
    BY StreamType DEF IInv, AlignedInv
  <2>2. /\ Aligned(Tail(Stream), IsHeader(Stream[1]))
        /\ Complete(Stream, half) => Complete(Tail(Stream), IsHeader(Stream[1]))
    BY <1>1, <2>1, AlignedTail
  <2>3. /\ Aligned(Stream', half')
        /\ Complete(Stream, half) => Complete(Stream', half')
    BY <1>1, <2>2 DEF Aligned, Complete
  <2>. QED
    BY <2>3 DEF IInv, AlignedInv
<1>4. ClosingInv'
  BY <1>1 DEF IInv, ClosingInv
<1>5. FailureHasCause'
  BY DEF IInv, FailureHasCause, setting
<1>6. ResultIsTheRuntimes'
  BY PrefixNext
<1>. QED
  BY <1>1, <1>2, <1>3, <1>4, <1>5, <1>6 DEF IInv

\* A part that tells the client nothing.
LEMMA QuietRead ==
    ASSUME IInv, down # <<>>, down' = Tail(down),
           \A type \in {"partial", "final", "text"} : ~IsPayload(Stream[1], type),
           UNCHANGED <<setting, link, outbox, issued, complaint, result, session>>,
           pc = "finish" => pc' = "finish", pc \in Reading, pc' \in {"drain", pc}
    PROVE  StreamInv' /\ GivenInv'
<1>1. StreamInv'
  BY ReadInOrder DEF Unread
<1>2. /\ Closing' = Closing
      /\ \A type : Carries(Stream', type) => Carries(Stream, type)
  BY ReadStream
<1>3. GivenInv'
  BY <1>2 DEF IInv, GivenInv, Serving, Final, Reading, setting
<1>. QED
  BY <1>1, <1>3

\* The runtime's place in the call, when the client reads on.
LEMMA ReadQueue ==
    ASSUME IInv, down # <<>>, down' = Tail(down), pc \in Reading,
           UNCHANGED <<setting, pc, sent, up, link, runtimeVars, complaint>>
    PROVE  QueueInv'
<1>1. Stream # <<>> /\ Closing' = Closing
  BY ReadStream DEF runtimeVars
<1>2. RuntimeAt' = RuntimeAt
  BY DEF RuntimeAt, ClientAt, setting
<1>. QED
  BY <1>1, <1>2 DEF IInv, QueueInv, Serving, Place, setting, runtimeVars

LEMMA ReadHeaderStep == IInv /\ ReadHeader => IInv'
<1>. SUFFICES ASSUME IInv, ReadHeader PROVE IInv'
  OBVIOUS
<1>1. /\ pc \in Reading /\ down # <<>> /\ Head(down)[1] = "header" /\ half' = TRUE
      /\ down' = Tail(down)
      /\ UNCHANGED <<setting, alive, call, pc, sent, result, err, link, up, runtimeVars, history>>
  BY DEF ReadHeader, NextIs
<1>2. TypeOK'
  BY ClientTypes DEF IInv, Client
<1>3. IsHeader(Stream[1]) /\ \A type : ~IsPayload(Stream[1], type)
  BY <1>1, NextPart DEF IsHeader, IsPayload
<1>4. StreamInv' /\ GivenInv' /\ QueueInv'
  BY <1>1, <1>3, QuietRead, ReadQueue DEF runtimeVars, history
<1>. QED
  BY <1>1, <1>2, <1>3, <1>4, ReadStep DEF runtimeVars, history, Reading

LEMMA StartStreamStep == IInv /\ StartStream => IInv'
<1>. SUFFICES ASSUME IInv, StartStream PROVE IInv'
  OBVIOUS
<1>. DEFINE m == [type |-> "start"]
<1>1. /\ Payload("hello") /\ pc = "hello" /\ pc' = "drain"
      /\ up' = IF link = "open" THEN Append(up, m) ELSE up
      /\ half' = FALSE /\ down' = Tail(down)
      /\ UNCHANGED <<setting, alive, call, sent, result, err, link, runtimeVars, history>>
  BY DEF StartStream, Write, Consume
<1>2. TypeOK'
  BY ClientTypes DEF IInv, Client
<1>3. /\ down # <<>> /\ IsPayload(Stream[1], "hello") /\ ~IsHeader(Stream[1])
      /\ \A type \in {"partial", "final", "text"} : ~IsPayload(Stream[1], type)
  BY <1>1, NextPayload DEF IsHeader, IsPayload
<1>4. StreamInv' /\ GivenInv'
  BY <1>1, <1>3, QuietRead DEF runtimeVars, history, Reading
<1>5. m \in Requests /\ m.type # "frame" /\ Place(m) = 1
  BY DEF Requests, Place
<1>6. ClientAt' = 1 /\ ClientAt = 0
  BY <1>1 DEF ClientAt, IInv, QueueInv
<1>. HIDE DEF m
<1>7. QueueInv'
  <2>1. Stream # <<>>
    BY <1>3, NextPart
  <2>. QED
    BY <1>1, <1>2, <1>5, <1>6, <2>1, SendQueue DEF history
<1>. QED
  BY <1>1, <1>2, <1>3, <1>4, <1>7, ReadStep DEF runtimeVars, history, Reading
\* The next partial is the first that is unread.
LEMMA ConsumePartialStep == IInv /\ ConsumePartial => IInv'
<1>. SUFFICES ASSUME IInv, ConsumePartial PROVE IInv'
  OBVIOUS
<1>. DEFINE t == Stream[1][2].text
            K == Len(result.partials)
<1>1. /\ Payload("partial") /\ pc \in Reading
      /\ result' = [result EXCEPT !.partials = Append(@, t)]
      /\ half' = FALSE /\ down' = Tail(down)
      /\ UNCHANGED <<setting, alive, call, pc, sent, err, link, up, runtimeVars, history>>
  BY NextPayload, NextPart DEF ConsumePartial, Payload, Consume
<1>2. TypeOK'
  BY ClientTypes DEF IInv, Client
<1>3. /\ down # <<>> /\ IsPayload(Stream[1], "partial") /\ ~IsHeader(Stream[1])
      /\ ~IsPayload(Stream[1], "final") /\ ~IsPayload(Stream[1], "text")
      /\ 1 \in 1..Len(Stream)
  BY <1>1, NextPayload, NextPart DEF IsHeader, IsPayload
<1>4. /\ K \in Nat /\ Len(issued) \in Nat /\ result.partials \in Seq(Texts)
      /\ issued \in Seq(Texts)
  BY DEF IInv, TypeOK
<1>5. t \in Unread /\ \A u \in Unread : ~(u < t)
  BY <1>3 DEF IInv, StreamInv, InOrder, Precedes
<1>6. t = K + 1 /\ K + 1 <= Len(issued)
  <2>1. K + 1 \in Unread /\ t \in (K + 1)..Len(issued)
    BY <1>4, <1>5 DEF Unread
  <2>. QED
    BY <1>4, <1>5, <2>1, SMTT(30)
<1>7. result'.partials = Append(result.partials, t) /\ result'.finals = result.finals
      /\ result'.text = result.text
  BY <1>1 DEF IInv, TypeOK
<1>. HIDE DEF t
<1>8. /\ Len(result'.partials) = K + 1
      /\ result'.partials[K + 1] = K + 1
      /\ \A i \in 1..K : result'.partials[i] = result.partials[i]
  BY <1>4, <1>6, <1>7
<1>9. \A u : u \in Unread' <=> u \in Unread /\ u # t
  BY <1>1, <1>4, <1>6, <1>8 DEF Unread, history
<1>10. StreamInv'
  BY <1>1, <1>3, <1>7, <1>9, ReadInOrder DEF runtimeVars, history, t
<1>11. GivenInv'
  <2>1. /\ \A i \in 1..Len(issued') : issued'[i] = i
        /\ \A i \in 1..Len(result'.partials) : result'.partials[i] = i
        /\ Len(result'.partials) <= Len(issued') /\ Len(issued') <= 2
    BY <1>1, <1>4, <1>6, <1>8 DEF IInv, GivenInv, history
  <2>2. /\ Closing' = Closing
        /\ \A type : Carries(Stream', type) => Carries(Stream, type)
    BY <1>1, <1>3, ReadStream DEF runtimeVars
  <2>. QED
    BY <1>1, <1>7, <2>1, <2>2
       DEF IInv, GivenInv, Serving, Final, Reading, setting, runtimeVars, history
<1>12. QueueInv'
  BY <1>1, <1>3, ReadQueue DEF history
<1>. QED
  BY <1>1, <1>2, <1>3, <1>10, <1>11, <1>12, ReadStep DEF runtimeVars, history, Reading

\* The final comes once, when every partial has been read.
LEMMA ConsumeFinalStep == IInv /\ ConsumeFinal => IInv'
<1>. SUFFICES ASSUME IInv, ConsumeFinal PROVE IInv'
  OBVIOUS
<1>. DEFINE t == Stream[1][2].text
<1>1. /\ Payload("final") /\ pc \in Reading
      /\ result' = [result EXCEPT !.finals = Append(@, t)]
      /\ half' = FALSE /\ down' = Tail(down)
      /\ UNCHANGED <<setting, alive, call, pc, sent, err, link, up, runtimeVars, history>>
  BY NextPayload, NextPart DEF ConsumeFinal, Payload, Consume
<1>2. TypeOK'
  BY ClientTypes DEF IInv, Client
<1>3. /\ down # <<>> /\ IsPayload(Stream[1], "final") /\ ~IsHeader(Stream[1])
      /\ ~IsPayload(Stream[1], "partial") /\ ~IsPayload(Stream[1], "text")
      /\ 1 \in 1..Len(Stream) /\ Carries(Stream, "final")
  BY <1>1, NextPayload, NextPart DEF IsHeader, IsPayload
<1>4. t = Final(frames) /\ result.finals = <<>> /\ pc = "finish" /\ ~Serving
  BY <1>3 DEF IInv, StreamInv, InOrder, GivenInv
<1>5. /\ result'.partials = result.partials /\ result'.text = result.text
      /\ result'.finals = <<Final(frames)>>
  BY <1>1, <1>4 DEF IInv, TypeOK
<1>6. StreamInv'
  BY <1>1, <1>3, <1>5, ReadInOrder DEF Unread, runtimeVars, history
<1>7. GivenInv'
  <2>1. ~Serving' /\ pc' = "finish" /\ frames' = frames
    BY <1>1, <1>4 DEF Serving, Closing, setting, runtimeVars
  <2>. QED
    BY <1>1, <1>5, <2>1 DEF IInv, GivenInv, Final, history
<1>8. QueueInv'
  BY <1>1, <1>3, ReadQueue DEF history
<1>. QED
  BY <1>1, <1>2, <1>3, <1>6, <1>7, <1>8, ReadStep DEF runtimeVars, history, Reading
-----------------------------------------------------------------------------
(* The steps that end what can still be read: the close, and a crash.      *)

LEMMA CutStep ==
    ASSUME IInv, TypeOK', outbox' = <<>>, link' = IF link = "none" THEN "none" ELSE "shut",
           UNCHANGED <<setting, clientVars, down, session, history>>,
           up' \in {up, <<>>}, alive' => alive,
           alive' => Closing /\ (Carries(Stream, "text") => Carries(down, "text"))
    PROVE  IInv'
<1>. USE DEF setting, clientVars, history
<1>1. /\ Stream' = down /\ down \in Seq(Out) /\ outbox \in Seq(Out) /\ Len(down) \in Nat
      /\ Len(outbox') = 0 /\ ~Closing' /\ ~Serving'
  <2>1. down \in Seq(Out) /\ outbox \in Seq(Out)
    BY StreamType DEF IInv
  <2>. QED
    BY <2>1 DEF Stream, Closing, Serving
<1>2. /\ Len(Stream) \in Nat /\ Len(down) <= Len(Stream)
      /\ \A i \in 1..Len(down) : Stream'[i] = Stream[i] /\ i \in 1..Len(Stream)
  BY <1>1, JoinParts DEF Stream
<1>3. \A type : Carries(Stream', type) => Carries(Stream, type)
  BY <1>1, <1>2 DEF Carries
<1>4. LinkInv'
  BY <1>1 DEF IInv, TypeOK, LinkInv
<1>5. AlignedInv'
  <2>1. ~torn => Aligned(down, half)
    BY <1>1, AlignedPrefix DEF IInv, AlignedInv, Stream
  <2>. QED
    BY <1>1, <2>1 DEF IInv, AlignedInv
<1>6. QueueInv'
  BY <1>1 DEF IInv, QueueInv
<1>7. ClosingInv'
  BY <1>1, <1>3 DEF IInv, ClosingInv
<1>8. StreamInv'
  <2>1. ASSUME NEW t, NEW j \in 1..Len(down)
        PROVE  Precedes(t, Stream', j) <=> Precedes(t, Stream, j)
    <3>1. \A i \in 1..(j - 1) : Stream'[i] = Stream[i]
      BY <1>1, <1>2
    <3>. QED
      BY <3>1 DEF Precedes
  <2>2. Unread' = Unread /\ link' # "open" /\ Len(Stream') = Len(down)
    BY <1>1 DEF Unread
  <2>. QED
    BY <1>2, <2>1, <2>2 DEF IInv, StreamInv, InOrder, Final
<1>9. GivenInv'
  BY <1>1, <1>3 DEF IInv, GivenInv, Final
<1>10. FailureHasCause' /\ ResultIsTheRuntimes'
  BY DEF IInv, FailureHasCause, ResultIsTheRuntimes
<1>. QED
  BY <1>4, <1>5, <1>6, <1>7, <1>8, <1>9, <1>10 DEF IInv

LEMMA DiesStep == IInv /\ Dies => IInv'
<1>. SUFFICES ASSUME IInv, Dies PROVE IInv'
  OBVIOUS
<1>1. /\ alive' = FALSE /\ link' = IF link = "none" THEN "none" ELSE "shut"
      /\ outbox' = <<>> /\ up' = <<>>
      /\ UNCHANGED <<setting, clientVars, down, session, history>>
  BY DEF Dies
<1>2. TypeOK'
  BY RuntimeTypes DEF IInv, Runtime
<1>. QED
  BY <1>1, <1>2, CutStep

\* Writing moves a part from one end of the connection to the other.
LEMMA WriteNextStep == IInv /\ WriteNext => IInv'
<1>. SUFFICES ASSUME IInv, WriteNext PROVE IInv'
  OBVIOUS
<1>1. TypeOK'
  BY RuntimeTypes DEF IInv, Runtime
<1>2. /\ link = "open" /\ outbox # <<>> /\ outbox' = Tail(outbox)
      /\ UNCHANGED <<setting, alive, clientVars, up, session, history>>
  BY DEF WriteNext
<1>3. down \in Seq(Out) /\ outbox \in Seq(Out) /\ Head(outbox) = outbox[1] /\ 1 \in 1..Len(outbox)
  <2>1. down \in Seq(Out) /\ outbox \in Seq(Out)
    BY StreamType DEF IInv
  <2>. QED
    BY <1>2, <2>1
<1>4. CASE Head(outbox) = Close
  <2>1. link' = "shut" /\ down' = down
    BY <1>4 DEF WriteNext, Close
  <2>2. Len(outbox) = 1
    BY <1>3, <1>4 DEF IInv, LinkInv
  <2>3. outbox' = <<>>
    BY <1>2, <1>3, <2>2
  <2>4. Closing
    BY <1>3, <1>4 DEF Closing
  <2>5. ASSUME Carries(Stream, "text")
        PROVE  Carries(down, "text")
    <3>1. PICK i \in 1..Len(Stream) : IsPayload(Stream[i], "text")
      BY <2>5 DEF Carries
    <3>2. Len(Stream) = Len(down) + 1 /\ Len(down) \in Nat /\ Stream[Len(down) + 1] = Close
          /\ \A k \in 1..Len(down) : Stream[k] = down[k]
      <4>1. /\ Len(Stream) = Len(down) + Len(outbox)
            /\ \A k \in 1..Len(down) : Stream[k] = down[k]
            /\ \A k \in 1..Len(outbox) : Stream[Len(down) + k] = outbox[k]
        BY <1>3, JoinParts DEF Stream
      <4>2. Len(down) \in Nat /\ outbox[1] = Close /\ 1 \in 1..Len(outbox)
        BY <1>3, <1>4
      <4>. QED
        BY <2>2, <4>1, <4>2
    <3>3. i \in 1..Len(down)
      BY <3>1, <3>2, PartKinds DEF IsPayload
    <3>. QED
      BY <3>1, <3>2, <3>3 DEF Carries
  <2>. QED
    BY <1>1, <1>2, <2>1, <2>3, <2>4, <2>5, CutStep
<1>5. CASE Head(outbox) # Close
  <2>. USE DEF setting, clientVars, history
  <2>1. link' = link /\ down' = Append(down, Head(outbox))
    BY <1>5, Zenon DEF WriteNext, Close
  <2>2. Stream' = Stream
    BY <1>2, <1>3, <2>1, WriteOne DEF Stream
  <2>3. /\ Len(outbox') = Len(outbox) - 1 /\ Len(outbox) \in Nat
        /\ \A i \in 1..Len(outbox') : outbox'[i] = outbox[i + 1]
    BY <1>2, <1>3, TailParts
  <2>4. Closing' <=> Closing
    <3>1. Closing' => Closing
      BY <2>3 DEF Closing
    <3>2. ASSUME Closing PROVE Closing'
      <4>1. PICK i \in 1..Len(outbox) : outbox[i] = Close
        BY <3>2 DEF Closing
      <4>2. i # 1
        BY <1>3, <1>5, <4>1
      <4>3. i - 1 \in 1..Len(outbox')
        BY <2>3, <4>1, <4>2
      <4>4. outbox'[i - 1] = outbox[i]
        BY <2>3, <4>1, <4>3
      <4>. QED
        BY <4>1, <4>3, <4>4 DEF Closing
    <3>. QED
      BY <3>1, <3>2
  <2>5. pc \in Reading \union {"next"}
    BY <1>2 DEF IInv, TypeOK, LinkInv
  <2>6. LinkInv'
    <3>1. ASSUME NEW i \in 1..Len(outbox'), outbox'[i] = Close
          PROVE  i = Len(outbox')
      <4>1. i + 1 \in 1..Len(outbox) /\ outbox[i + 1] = Close
        BY <2>3, <3>1
      <4>. QED
        BY <2>3, <4>1 DEF IInv, LinkInv
    <3>2. link' = "open" /\ pc' = pc
      BY <1>2, <2>1
    <3>3. pc \notin {"dial", "handshake", "ok", "failed"}
      BY <2>5 DEF Reading
    <3>. QED
      BY <3>1, <3>2, <3>3 DEF LinkInv
  <2>7. AlignedInv'
    BY <1>2, <2>1, <2>2 DEF IInv, AlignedInv
  <2>8. QueueInv'
    <3>1. RuntimeAt' = RuntimeAt
      BY <1>2 DEF RuntimeAt, ClientAt
    <3>. QED
      BY <1>2, <2>1, <2>2, <2>4, <3>1 DEF IInv, QueueInv, Serving, Place
  <2>9. ClosingInv'
    BY <1>2, <2>1, <2>2, <2>4 DEF IInv, ClosingInv
  <2>10. StreamInv'
    <3>1. ASSUME NEW j, InOrder(j) PROVE InOrder(j)'
      BY <1>2, <2>1, <2>2, <3>1 DEF InOrder, Unread, Precedes, Final
    <3>2. \A t : Precedes(t, Stream', Len(Stream') + 1) <=> Precedes(t, Stream, Len(Stream) + 1)
      BY <2>2 DEF Precedes
    <3>3. Unread' = Unread /\ Len(Stream') = Len(Stream)
      BY <1>2, <2>2 DEF Unread
    <3>. QED
      BY <2>1, <3>1, <3>2, <3>3 DEF IInv, StreamInv
  <2>11. GivenInv'
    BY <1>2, <2>1, <2>2, <2>4 DEF IInv, GivenInv, Serving, Final
  <2>12. FailureHasCause' /\ ResultIsTheRuntimes'
    BY <1>2 DEF IInv, FailureHasCause, ResultIsTheRuntimes
  <2>. QED
    BY <1>1, <2>6, <2>7, <2>8, <2>9, <2>10, <2>11, <2>12 DEF IInv
<1>. QED
  BY <1>4, <1>5
-----------------------------------------------------------------------------
(* The steps that answer a request.                                        *)

\* The runtime serves the next request in the call's order.
LEMMA NextRequest ==
    ASSUME IInv, link = "open", outbox = <<>>, up # <<>>
    PROVE  /\ Serving /\ RuntimeAt \in Int /\ Len(up) \in Nat \ {0}
           /\ RuntimeAt + Len(up) = ClientAt
           /\ up \in Seq(Requests) /\ Head(up) = up[1] /\ Head(up) \in Requests
           /\ Place(Head(up)) = RuntimeAt + 1
           /\ Head(up).type = "frame" => Head(up).seq > 0 /\ Head(up).seq \in Nat
           /\ RuntimeAt >= -1
           /\ pc \in Reading \union {"next"}
           /\ pc = "hello" => RuntimeAt = -1
           /\ session = IF RuntimeAt < 1 THEN NoSession
                        ELSE [started |-> TRUE, received |-> RuntimeAt - 1]
           /\ complaint = "none"
           /\ RuntimeAt = -1 => Stream = <<>>
           /\ RuntimeAt > -1 /\ runtime = "fake" => ready
           /\ RuntimeAt > 0 => encodingOK
<1>1. Serving
  BY DEF Serving, Closing
<1>2. /\ up \in Seq(Requests) /\ Len(up) \in Nat \ {0} /\ Head(up) = up[1]
      /\ Head(up) \in Requests /\ 1 \in 1..Len(up)
  BY DEF IInv, TypeOK
<1>3. pc \in Reading \union {"next"}
  BY DEF IInv, TypeOK, LinkInv
<1>4. frames \in Nat /\ sent \in Nat /\ ClientAt \in Int
  BY SidecarAssumption DEF IInv, TypeOK, ClientAt
<1>5. RuntimeAt \in Int /\ RuntimeAt + Len(up) = ClientAt
  BY <1>2, <1>4 DEF RuntimeAt
<1>6. Place(Head(up)) = RuntimeAt + 1 /\ (Head(up).type = "frame" => Head(up).seq > 0)
  BY <1>1, <1>2 DEF IInv, QueueInv
<1>7. Place(Head(up)) >= 0 /\ (Head(up).type = "frame" => Head(up).seq \in Nat)
  <2>1. \A m \in Requests : m.type = "frame" => m.seq \in Nat
    BY DEF Requests
  <2>. QED
    BY <1>2, <1>4, <2>1 DEF Place
<1>8. pc = "hello" => ClientAt = 0
  BY DEF ClientAt
<1>9. RuntimeAt >= -1 /\ (pc = "hello" => RuntimeAt = -1)
  BY <1>2, <1>5, <1>6, <1>7, <1>8
<1>. QED
  BY <1>1, <1>2, <1>3, <1>5, <1>6, <1>7, <1>9 DEF IInv, QueueInv

\* An answer is appended to what the client has still to read.
LEMMA AnswerStream ==
    ASSUME IInv, outbox = <<>>, down' = down, outbox' \in Seq(Out)
    PROVE  /\ Stream' = Stream \o outbox' /\ Stream \in Seq(Out)
           /\ Len(Stream) \in Nat /\ Len(outbox') \in Nat
           /\ Len(Stream') = Len(Stream) + Len(outbox')
           /\ \A i \in 1..Len(Stream) : Stream'[i] = Stream[i] /\ i \in 1..Len(Stream')
           /\ \A i \in 1..Len(Stream') :
                 i \in 1..Len(Stream) \/ (/\ i - Len(Stream) \in 1..Len(outbox')
                                          /\ Stream'[i] = outbox'[i - Len(Stream)])
           /\ \A i \in 1..Len(outbox') : /\ Stream'[Len(Stream) + i] = outbox'[i]
                                         /\ Len(Stream) + i \in 1..Len(Stream')
           /\ \A type : Carries(Stream', type) <=> Carries(Stream, type) \/ Carries(outbox', type)
<1>1. down \in Seq(Out) /\ Stream = down
  <2>1. down \in Seq(Out)
    BY StreamType DEF IInv
  <2>. QED
    BY <2>1 DEF Stream
<1>2. /\ Stream' = Stream \o outbox'
      /\ Len(Stream) \in Nat /\ Len(outbox') \in Nat
      /\ Len(Stream') = Len(Stream) + Len(outbox')
      /\ \A i \in 1..Len(Stream) : Stream'[i] = Stream[i] /\ i \in 1..Len(Stream')
      /\ \A i \in 1..Len(outbox') : Stream'[Len(Stream) + i] = outbox'[i]
  <2>1. Stream' = Stream \o outbox'
    BY <1>1 DEF Stream
  <2>2. Stream \in Seq(Out)
    BY <1>1
  <2>. HIDE DEF Stream
  <2>. QED
    BY <2>1, <2>2, JoinParts
<1>3. \A i \in 1..Len(Stream') :
        i \in 1..Len(Stream) \/ (/\ i - Len(Stream) \in 1..Len(outbox')
                                 /\ Stream'[i] = outbox'[i - Len(Stream)])
  <2>. SUFFICES ASSUME NEW i \in 1..Len(Stream'), i \notin 1..Len(Stream)
                PROVE  /\ i - Len(Stream) \in 1..Len(outbox')
                       /\ Stream'[i] = outbox'[i - Len(Stream)]
    OBVIOUS
  <2>1. i - Len(Stream) \in 1..Len(outbox') /\ i = Len(Stream) + (i - Len(Stream))
    BY <1>2
  <2>. QED
    BY <1>2, <2>1
<1>4. \A i \in 1..Len(outbox') : Len(Stream) + i \in 1..Len(Stream')
  BY <1>2
<1>5. ASSUME NEW type
      PROVE  Carries(Stream', type) <=> Carries(Stream, type) \/ Carries(outbox', type)
  <2>1. Carries(Stream', type) => Carries(Stream, type) \/ Carries(outbox', type)
    BY <1>2, <1>3 DEF Carries
  <2>2. Carries(Stream, type) => Carries(Stream', type)
    BY <1>2 DEF Carries
  <2>3. Carries(outbox', type) => Carries(Stream', type)
    BY <1>2, <1>4 DEF Carries
  <2>. QED
    BY <2>1, <2>2, <2>3
<1>. QED
  BY <1>1, <1>2, <1>3, <1>4, <1>5

\* The partials before a place are the same after an answer.
LEMMA AnswerPrecedes ==
    ASSUME IInv, outbox = <<>>, down' = down, outbox' \in Seq(Out), NEW t
    PROVE  /\ \A j \in 1..(Len(Stream) + 1) : Precedes(t, Stream', j) <=> Precedes(t, Stream, j)
           /\ \A j \in 1..(Len(Stream') + 1) :
                 j > Len(Stream) /\ Precedes(t, Stream, Len(Stream) + 1) => Precedes(t, Stream', j)
<1>1. /\ Len(Stream) \in Nat /\ Len(Stream') \in Nat
      /\ \A i \in 1..Len(Stream) : Stream'[i] = Stream[i]
  BY AnswerStream
<1>2. ASSUME NEW j \in 1..(Len(Stream) + 1)
      PROVE  Precedes(t, Stream', j) <=> Precedes(t, Stream, j)
  <2>1. \A i \in 1..(j - 1) : Stream'[i] = Stream[i]
    BY <1>1
  <2>. QED
    BY <2>1 DEF Precedes
<1>3. ASSUME NEW j \in 1..(Len(Stream') + 1), j > Len(Stream),
             Precedes(t, Stream, Len(Stream) + 1)
      PROVE  Precedes(t, Stream', j)
  <2>1. PICK i \in 1..Len(Stream) : IsPayload(Stream[i], "partial") /\ Stream[i][2].text = t
    BY <1>1, <1>3 DEF Precedes
  <2>2. i \in 1..(j - 1) /\ Stream'[i] = Stream[i]
    BY <1>1, <1>3
  <2>. QED
    BY <2>1, <2>2 DEF Precedes
<1>. QED
  BY <1>2, <1>3
\* The rest of what an answer leaves as it should be.
LEMMA AnswerStep ==
    ASSUME IInv, TypeOK', link = "open", outbox = <<>>, up # <<>>,
           UNCHANGED <<setting, alive, clientVars, link, down, torn>>,
           Aligned(outbox', FALSE), Complete(outbox', FALSE),
           \A i \in 1..Len(outbox') : outbox'[i] = Close => i = Len(outbox'),
           Carries(outbox', "error") => complaint' # "none",
           complaint' = "none" /\ Closing' => pc = "finish" /\ Carries(outbox', "text"),
           complaint' \notin {"not_started", "order"},
           complaint' = "unready" => ~ready, complaint' = "encoding" => ~encodingOK,
           QueueInv', StreamInv', GivenInv'
    PROVE  IInv'
<1>. USE DEF setting, clientVars
<1>1. pc \in Reading \union {"next"} /\ complaint = "none"
  BY NextRequest
<1>2. pc \notin {"dial", "handshake", "ok", "failed"}
  BY <1>1 DEF Reading
<1>3. outbox' \in Seq(Out) /\ Stream \in Seq(Out)
  <2>1. outbox' \in Seq(Out)
    BY DEF TypeOK, Out, Close
  <2>. QED
    BY <2>1, StreamType DEF IInv
<1>4. /\ Stream' = Stream \o outbox'
      /\ \A type : Carries(Stream', type) <=> Carries(Stream, type) \/ Carries(outbox', type)
  BY <1>3, AnswerStream
<1>5. LinkInv'
  BY <1>1, <1>2 DEF LinkInv
<1>6. AlignedInv'
  <2>. SUFFICES ASSUME ~torn PROVE Aligned(Stream', half) /\ Complete(Stream', half)
    BY DEF AlignedInv
  <2>1. Aligned(Stream, half) /\ Complete(Stream, half)
    BY DEF IInv, AlignedInv
  <2>. QED
    BY <1>3, <1>4, <2>1, AlignedAnswer
<1>7. ClosingInv'
  BY <1>1, <1>4 DEF IInv, ClosingInv
<1>8. FailureHasCause'
  BY <1>1 DEF IInv, FailureHasCause
<1>9. ResultIsTheRuntimes'
  BY <1>2, PrefixNext
<1>. QED
  BY <1>5, <1>6, <1>7, <1>8, <1>9 DEF IInv

\* An answer that is none of the texts keeps their order.
LEMMA PlainAnswer ==
    ASSUME IInv, link = "open", outbox = <<>>, outbox' \in Seq(Out),
           UNCHANGED <<setting, clientVars, link, down, issued>>,
           \A type \in {"partial", "final", "text"} : ~Carries(outbox', type)
    PROVE  StreamInv'
<1>. USE DEF setting, clientVars
<1>1. /\ Len(Stream) \in Nat /\ Len(outbox') \in Nat /\ Len(Stream') = Len(Stream) + Len(outbox')
      /\ \A i \in 1..Len(Stream) : Stream'[i] = Stream[i] /\ i \in 1..Len(Stream')
      /\ \A i \in 1..Len(Stream') :
            i \in 1..Len(Stream) \/ (/\ i - Len(Stream) \in 1..Len(outbox')
                                     /\ Stream'[i] = outbox'[i - Len(Stream)])
  BY AnswerStream
<1>2. Unread' = Unread
  BY DEF Unread
<1>3. Serving /\ ~Carries(Stream, "final") /\ ~Carries(Stream, "text")
  BY DEF IInv, GivenInv, Serving, Closing
<1>4. ASSUME NEW j \in 1..Len(Stream')
      PROVE  InOrder(j)'
  <2>1. CASE j \in 1..Len(Stream)
    <3>1. Stream'[j] = Stream[j] /\ InOrder(j)
      BY <1>1, <2>1 DEF IInv, StreamInv
    <3>2. ~IsPayload(Stream[j], "final") /\ ~IsPayload(Stream[j], "text")
      BY <1>3, <2>1 DEF Carries
    <3>3. \A t : Precedes(t, Stream', j) <=> Precedes(t, Stream, j)
      BY <1>1, <2>1, AnswerPrecedes, SMTT(30)
    <3>. QED
      BY <1>2, <3>1, <3>2, <3>3 DEF InOrder
  <2>2. CASE j \notin 1..Len(Stream)
    <3>1. \A type \in {"partial", "final", "text"} : ~IsPayload(Stream'[j], type)
      BY <1>1, <2>2 DEF Carries
    <3>. QED
      BY <3>1 DEF InOrder
  <2>. QED
    BY <2>1, <2>2
<1>5. \A t \in Unread' : Precedes(t, Stream', Len(Stream') + 1)
  <2>1. \A t \in Unread : Precedes(t, Stream, Len(Stream) + 1)
    BY DEF IInv, StreamInv
  <2>. QED
    BY <1>1, <1>2, <2>1, AnswerPrecedes
<1>. QED
  BY <1>4, <1>5 DEF StreamInv
\* The session goes on from the request that has been served.
LEMMA ServeQueue ==
    ASSUME IInv, link = "open", outbox = <<>>, up # <<>>, up' = Tail(up),
           UNCHANGED <<setting, clientVars, link, complaint>>,
           session' = IF RuntimeAt < 0 THEN NoSession ELSE [started |-> TRUE, received |-> RuntimeAt],
           runtime = "fake" => ready, RuntimeAt >= 0 => encodingOK
    PROVE  QueueInv'
<1>. USE DEF setting, clientVars
<1>1. /\ Serving /\ RuntimeAt \in Int /\ RuntimeAt >= -1 /\ Len(up) \in Nat \ {0}
      /\ RuntimeAt + Len(up) = ClientAt /\ up \in Seq(Requests) /\ complaint = "none"
  BY NextRequest
<1>2. /\ Len(up') = Len(up) - 1
      /\ \A i \in 1..Len(up') : up'[i] = up[i + 1] /\ i + 1 \in 1..Len(up)
  BY <1>1
<1>3. RuntimeAt' = RuntimeAt + 1
  <2>1. ClientAt' = ClientAt
    BY DEF ClientAt
  <2>. QED
    BY <1>1, <1>2, <2>1 DEF RuntimeAt
<1>4. ASSUME NEW i \in 1..Len(up')
      PROVE  Place(up[i])' = RuntimeAt' + i /\ (up'[i].type = "frame" => up'[i].seq > 0)
  <2>1. /\ Place(up[i + 1]) = RuntimeAt + (i + 1)
        /\ up[i + 1].type = "frame" => up[i + 1].seq > 0
    BY <1>1, <1>2 DEF IInv, QueueInv
  <2>2. Place(up[i])' = Place(up[i + 1])
    BY <1>2 DEF Place
  <2>. QED
    BY <1>1, <1>2, <1>3, <2>1, <2>2
<1>5. session' = IF RuntimeAt' < 1 THEN NoSession
                 ELSE [started |-> TRUE, received |-> RuntimeAt' - 1]
  BY <1>1, <1>3
<1>. QED
  BY <1>1, <1>3, <1>4, <1>5 DEF IInv, QueueInv

\* The runtime refuses the call.
LEMMA ComplainStep ==
    ASSUME IInv, TypeOK', link = "open", outbox = <<>>, up # <<>>,
           UNCHANGED <<setting, alive, clientVars, link, down, torn>>,
           NEW c \in {"unready", "encoding", "unexpected"}, Complain(c),
           c = "unready" => ~ready, c = "encoding" => ~encodingOK
    PROVE  IInv'
<1>1. /\ outbox' \in Seq(Out) /\ Len(outbox') = 3
      /\ outbox'[1] = <<"header">> /\ outbox'[2] = <<"payload", [type |-> "error"]>>
      /\ outbox'[3] = Close
  BY ComplainParts
<1>2. /\ IsHeader(outbox'[1]) /\ outbox'[1][1] # "payload" /\ outbox'[1] # Close
      /\ outbox'[2][1] = "payload" /\ outbox'[2][2].type = "error" /\ outbox'[2] # Close
      /\ ~IsHeader(outbox'[2]) /\ ~IsHeader(outbox'[3]) /\ outbox'[3][1] # "payload"
  BY <1>1, PartKinds, AnswerParts
<1>3. \A i \in 1..Len(outbox') : i = 1 \/ i = 2 \/ i = 3
  BY <1>1
<1>4. Aligned(outbox', FALSE) /\ Complete(outbox', FALSE)
  BY <1>1, <1>2, <1>3 DEF Aligned, Complete
<1>5. \A type : Carries(outbox', type) => type = "error"
  BY <1>2, <1>3 DEF Carries, IsPayload
<1>6. /\ complaint' = c /\ issued' = issued /\ session' = session
  BY DEF Complain
<1>7. Closing' /\ ~Serving'
  BY <1>1 DEF Closing, Serving
<1>8. StreamInv'
  BY <1>1, <1>5, <1>6, PlainAnswer
<1>9. /\ pc \in Reading \union {"next"}
      /\ pc = "hello" => RuntimeAt = -1
      /\ RuntimeAt = -1 => Stream = <<>>
  BY NextRequest
<1>10. QueueInv'
  BY <1>7 DEF IInv, QueueInv, setting, clientVars
<1>11. GivenInv'
  <2>1. pc = "hello" => ~Carries(Stream', "hello")
    <3>1. ~Carries(outbox', "hello")
      BY <1>5
    <3>2. pc = "hello" => ~Carries(Stream, "hello")
      BY <1>9 DEF Carries
    <3>. QED
      BY <1>1, <3>1, <3>2, AnswerStream
  <2>. QED
    BY <1>6, <1>7, <1>9, <2>1 DEF IInv, GivenInv, Final, Reading, setting, clientVars
<1>12. \A i \in 1..Len(outbox') : outbox'[i] = Close => i = Len(outbox')
  BY <1>1, <1>2, <1>3
<1>. QED
  BY <1>4, <1>6, <1>8, <1>10, <1>11, <1>12, AnswerStep

LEMMA ServeHelloStep == IInv /\ ServeHello => IInv'
<1>. SUFFICES ASSUME IInv, ServeHello PROVE IInv'
  OBVIOUS
<1>1. /\ link = "open" /\ outbox = <<>> /\ up # <<>> /\ Head(up).type = "hello" /\ up' = Tail(up)
      /\ UNCHANGED <<setting, alive, clientVars, link, down, torn>>
  BY DEF ServeHello, Receives
<1>2. TypeOK'
  BY RuntimeTypes DEF IInv, Runtime
<1>3. CASE runtime = "fake" /\ ~ready
  BY <1>1, <1>2, <1>3, ComplainStep DEF ServeHello
<1>4. CASE ~(runtime = "fake" /\ ~ready)
  <2>1. outbox' = Message([type |-> "hello"]) /\ UNCHANGED <<session, issued, complaint>>
    BY <1>4 DEF ServeHello
  <2>2. /\ outbox' \in Seq(Out) /\ Len(outbox') = 2
        /\ outbox'[1] = <<"header">> /\ outbox'[2] = <<"payload", [type |-> "hello"]>>
    BY <2>1, MessageParts, AnswerParts
  <2>3. /\ IsHeader(outbox'[1]) /\ outbox'[1][1] # "payload" /\ outbox'[1] # Close
        /\ outbox'[2][1] = "payload" /\ outbox'[2][2].type = "hello" /\ outbox'[2] # Close
        /\ ~IsHeader(outbox'[2])
    BY <2>2, PartKinds, AnswerParts
  <2>4. \A i \in 1..Len(outbox') : i = 1 \/ i = 2
    BY <2>2
  <2>5. Aligned(outbox', FALSE) /\ Complete(outbox', FALSE) /\ ~Closing'
    BY <2>2, <2>3, <2>4 DEF Aligned, Complete, Closing
  <2>6. \A type : Carries(outbox', type) => type = "hello"
    BY <2>3, <2>4 DEF Carries, IsPayload
  <2>7. StreamInv'
    BY <1>1, <2>1, <2>2, <2>6, PlainAnswer
  <2>8. /\ RuntimeAt = -1 /\ session = NoSession /\ complaint = "none" /\ Serving
        /\ pc \in Reading \union {"next"}
    BY <1>1, NextRequest DEF Place
  <2>9. QueueInv'
    BY <1>1, <1>4, <2>1, <2>8, ServeQueue
  <2>10. /\ ~Carries(Stream', "final") /\ ~Carries(Stream', "text")
    BY <1>1, <2>2, <2>6, <2>8, AnswerStream DEF IInv, GivenInv
  <2>11. GivenInv'
    BY <1>1, <2>1, <2>8, <2>10 DEF IInv, GivenInv, Final, setting, clientVars
  <2>. QED
    BY <1>1, <1>2, <2>1, <2>3, <2>4, <2>5, <2>6, <2>7, <2>8, <2>9, <2>11, AnswerStep
<1>. QED
  BY <1>3, <1>4
\* An answer with nothing in it.
LEMMA NoAnswer ==
    ASSUME IInv, TypeOK', link = "open", outbox = <<>>, up # <<>>, outbox' = <<>>,
           UNCHANGED <<setting, alive, clientVars, link, down, torn, issued, complaint>>,
           QueueInv', GivenInv'
    PROVE  IInv'
<1>1. outbox' \in Seq(Out) /\ Len(outbox') = 0
  OBVIOUS
<1>2. Aligned(outbox', FALSE) /\ Complete(outbox', FALSE) /\ ~Closing'
  BY <1>1 DEF Aligned, Complete, Closing
<1>3. \A type : ~Carries(outbox', type)
  BY <1>1 DEF Carries
<1>4. StreamInv'
  BY <1>1, <1>3, PlainAnswer
<1>5. complaint' = "none"
  BY NextRequest
<1>. QED
  BY <1>1, <1>2, <1>3, <1>4, <1>5, AnswerStep

LEMMA ServeStartStep == IInv /\ ServeStart => IInv'
<1>. SUFFICES ASSUME IInv, ServeStart PROVE IInv'
  OBVIOUS
<1>1. /\ link = "open" /\ outbox = <<>> /\ up # <<>> /\ Head(up).type = "start" /\ up' = Tail(up)
      /\ UNCHANGED <<setting, alive, clientVars, link, down, torn>>
  BY DEF ServeStart, Receives
<1>2. TypeOK'
  BY RuntimeTypes DEF IInv, Runtime
<1>3. CASE ~encodingOK
  BY <1>1, <1>2, <1>3, ComplainStep DEF ServeStart
<1>4. CASE encodingOK
  <2>1. /\ session' = [session EXCEPT !.started = TRUE]
        /\ UNCHANGED <<outbox, issued, complaint>>
    BY <1>4 DEF ServeStart
  <2>2. /\ RuntimeAt = 0 /\ session = NoSession /\ complaint = "none" /\ Serving
        /\ pc \in Reading \union {"next"} /\ pc # "hello" /\ (runtime = "fake" => ready)
    BY <1>1, NextRequest DEF Place
  <2>3. session' = [started |-> TRUE, received |-> 0] /\ session.received = 0
    BY <2>1, <2>2 DEF NoSession
  <2>4. QueueInv'
    <3>1. /\ session' = IF RuntimeAt < 0 THEN NoSession ELSE [started |-> TRUE, received |-> RuntimeAt]
          /\ RuntimeAt >= 0
      BY <2>2, <2>3
    <3>. QED
      BY <1>1, <1>4, <2>1, <2>2, <3>1, ServeQueue
  <2>5. Stream' = Stream /\ Closing' = Closing
    BY <1>1, <2>1 DEF Stream, Closing
  <2>6. GivenInv'
    BY <1>1, <2>1, <2>2, <2>3, <2>5
       DEF IInv, GivenInv, Final, Serving, Reading, setting, clientVars
  <2>. QED
    BY <1>1, <1>2, <2>1, <2>4, <2>6, NoAnswer
<1>. QED
  BY <1>3, <1>4

\* A partial comes after those before it.
LEMMA PartialAnswer ==
    ASSUME IInv, link = "open", outbox = <<>>, outbox' \in Seq(Out), Len(outbox') = 2,
           UNCHANGED <<setting, clientVars, link, down>>,
           NEW n \in Nat, n = Len(issued) + 1, Len(issued') = n,
           outbox'[1][1] # "payload", IsPayload(outbox'[2], "partial"), outbox'[2][2].text = n
    PROVE  StreamInv'
<1>. USE DEF setting, clientVars
<1>0. PICK L \in Nat : L = Len(Stream)
  BY AnswerStream
<1>1. /\ Len(Stream) = L /\ Len(Stream') = L + 2
      /\ \A i \in 1..L : Stream'[i] = Stream[i] /\ i \in 1..Len(Stream')
      /\ Stream'[L + 1] = outbox'[1] /\ Stream'[L + 2] = outbox'[2]
  <2>1. 1 \in 1..Len(outbox') /\ 2 \in 1..Len(outbox')
    OBVIOUS
  <2>. QED
    BY <1>0, <2>1, AnswerStream
<1>2. /\ Len(issued) \in Nat /\ Len(result.partials) \in Nat
      /\ Len(result.partials) <= Len(issued)
  BY DEF IInv, TypeOK, GivenInv
<1>3. /\ \A t : t \in Unread' <=> t \in Unread \/ t = n
      /\ \A t \in Unread : t \in Nat /\ t < n
  BY <1>2 DEF Unread
<1>4. Serving /\ ~Carries(Stream, "final") /\ ~Carries(Stream, "text")
  BY DEF IInv, GivenInv, Serving, Closing
<1>5. \A t \in Unread : Precedes(t, Stream, L + 1)
  BY <1>0 DEF IInv, StreamInv
<1>6. ASSUME NEW j \in 1..L
      PROVE  InOrder(j)'
  <2>1. Stream'[j] = Stream[j] /\ InOrder(j)
    BY <1>1 DEF IInv, StreamInv
  <2>2. ~IsPayload(Stream[j], "final") /\ ~IsPayload(Stream[j], "text")
    BY <1>1, <1>4 DEF Carries
  <2>3. \A t : Precedes(t, Stream', j) <=> Precedes(t, Stream, j)
    <3>1. j \in 1..(Len(Stream) + 1)
      BY <1>1
    <3>. QED
      BY <3>1, AnswerPrecedes
  <2>4. IsPayload(Stream[j], "partial") => ~(n < Stream[j][2].text)
    BY <1>3, <2>1 DEF InOrder
  <2>. QED
    BY <1>3, <2>1, <2>2, <2>3, <2>4 DEF InOrder
<1>7. InOrder(L + 1)'
  BY <1>1 DEF InOrder, IsPayload
<1>. DEFINE k == L + 2
<1>8. InOrder(L + 2)'
  <2>1. /\ IsPayload(Stream'[k], "partial") /\ Stream'[k][2].text = n
        /\ ~IsPayload(Stream'[k], "final") /\ ~IsPayload(Stream'[k], "text")
    BY <1>1 DEF IsPayload
  <2>2. \A t \in Unread : Precedes(t, Stream', k)
    <3>1. k \in 1..(Len(Stream') + 1) /\ k > L
      BY <1>1
    <3>. QED
      BY <1>1, <1>5, <3>1, AnswerPrecedes
  <2>3. ~Precedes(n, Stream', k)
    <3>. SUFFICES ASSUME NEW i \in 1..(k - 1), IsPayload(Stream'[i], "partial"),
                         Stream'[i][2].text = n
                  PROVE  FALSE
      BY DEF Precedes
    <3>1. CASE i = L + 1
      BY <1>1, <3>1 DEF IsPayload
    <3>2. CASE i \in 1..L
      <4>1. IsPayload(Stream[i], "partial") /\ Stream[i][2].text = n
        BY <1>1, <3>2
      <4>2. n \in Unread
        BY <1>1, <3>2, <4>1 DEF IInv, StreamInv, InOrder
      <4>. QED
        BY <1>3, <4>2
    <3>. QED
      BY <1>1, <3>1, <3>2
  <2>4. /\ Stream'[k][2].text \in Unread'
        /\ \A t \in Unread' : t < Stream'[k][2].text => Precedes(t, Stream', k)
    BY <1>3, <2>1, <2>2
  <2>. QED
    BY <2>1, <2>3, <2>4 DEF InOrder
<1>9. \A t \in Unread' : Precedes(t, Stream', Len(Stream') + 1)
  <2>1. \A t \in Unread : Precedes(t, Stream', Len(Stream') + 1)
    <3>1. Len(Stream') + 1 \in 1..(Len(Stream') + 1) /\ Len(Stream') + 1 > L
      BY <1>1
    <3>. QED
      BY <1>1, <1>5, <3>1, AnswerPrecedes
  <2>2. Precedes(n, Stream', Len(Stream') + 1)
    <3>1. k \in 1..Len(Stream') /\ k \in 1..((Len(Stream') + 1) - 1)
      BY <1>1
    <3>. QED
      BY <1>1, <3>1 DEF Precedes
  <2>. QED
    BY <1>3, <2>1, <2>2
<1>10. \A j \in 1..Len(Stream') : j \in 1..L \/ j = L + 1 \/ j = L + 2
  BY <1>1
<1>. QED
  BY <1>6, <1>7, <1>8, <1>9, <1>10 DEF StreamInv
LEMMA ServeFrameStep == IInv /\ ServeFrame => IInv'
<1>. SUFFICES ASSUME IInv, ServeFrame PROVE IInv'
  OBVIOUS
<1>. DEFINE n == session.received + 1
<1>1. /\ runtime = "fake" /\ link = "open" /\ outbox = <<>> /\ up # <<>>
      /\ Head(up).type = "frame" /\ up' = Tail(up)
      /\ UNCHANGED <<setting, alive, clientVars, link, down, torn>>
  BY DEF ServeFrame, Receives
<1>2. TypeOK'
  BY RuntimeTypes DEF IInv, Runtime
<1>3. /\ RuntimeAt \in Nat \ {0} /\ Head(up).seq = RuntimeAt
      /\ session = [started |-> TRUE, received |-> RuntimeAt - 1]
      /\ complaint = "none" /\ Serving /\ pc \in Reading \union {"next"} /\ pc # "hello"
      /\ ready /\ encodingOK
  <2>1. /\ RuntimeAt \in Int /\ Head(up).seq + 1 = RuntimeAt + 1
        /\ Head(up).seq > 0 /\ Head(up).seq \in Nat
    BY <1>1, NextRequest DEF Place
  <2>2. RuntimeAt \in Nat \ {0} /\ Head(up).seq = RuntimeAt
    BY <2>1
  <2>. QED
    BY <1>1, <2>2, NextRequest
<1>4. n = RuntimeAt /\ n \in Nat /\ session.started /\ Head(up).seq = n
  BY <1>3
<1>5. /\ session' = [session EXCEPT !.received = n] /\ issued' = issued \o Partials(n)
      /\ outbox' = (IF n \in Texts THEN Says("partial", n) ELSE <<>>) /\ UNCHANGED complaint
  BY <1>4 DEF ServeFrame
<1>6. session' = [started |-> TRUE, received |-> n]
  BY <1>3, <1>5
<1>7. Len(issued) = IF n - 1 < 2 THEN n - 1 ELSE 2
  BY <1>1, <1>3 DEF IInv, GivenInv
<1>. HIDE DEF n
<1>8. QueueInv'
  <2>1. session' = IF RuntimeAt < 0 THEN NoSession ELSE [started |-> TRUE, received |-> RuntimeAt]
    BY <1>3, <1>4, <1>6
  <2>. QED
    BY <1>1, <1>3, <1>5, <2>1, ServeQueue
<1>9. CASE n \notin Texts
  <2>1. n > 2
    BY <1>3, <1>4, <1>9 DEF Texts
  <2>2. outbox' = <<>> /\ issued' = issued
    BY <1>5, <1>9 DEF Partials, IInv, TypeOK
  <2>3. Stream' = Stream /\ Closing' = Closing /\ Len(issued) = 2
    BY <1>1, <1>4, <1>7, <2>1, <2>2 DEF Stream, Closing
  <2>4. GivenInv'
    <3>1. Len(issued') = IF session'.received < 2 THEN session'.received ELSE 2
      BY <1>4, <1>6, <2>1, <2>2, <2>3
    <3>. QED
      BY <1>1, <1>3, <1>5, <2>2, <2>3, <3>1
         DEF IInv, GivenInv, Final, Reading, setting, clientVars
  <2>. QED
    BY <1>1, <1>2, <1>5, <1>8, <2>2, <2>4, NoAnswer
<1>10. CASE n \in Texts
  <2>. DEFINE m == [type |-> "partial", text |-> n]
  <2>1. /\ outbox' \in Seq(Out) /\ Len(outbox') = 2
        /\ outbox'[1] = <<"header">> /\ outbox'[2] = <<"payload", m>>
    BY <1>5, <1>10, MessageParts, AnswerParts DEF Says
  <2>2. /\ IsHeader(outbox'[1]) /\ outbox'[1][1] # "payload" /\ outbox'[1] # Close
        /\ outbox'[2][1] = "payload" /\ outbox'[2][2] = m /\ outbox'[2] # Close
        /\ ~IsHeader(outbox'[2])
    <3>1. m \in Answers
      BY <1>10, AnswerParts
    <3>. HIDE DEF m
    <3>. QED
      BY <2>1, <3>1, PartKinds
  <2>3. m.type = "partial" /\ m.text = n
    OBVIOUS
  <2>. HIDE DEF m
  <2>4. \A i \in 1..Len(outbox') : i = 1 \/ i = 2
    BY <2>1
  <2>5. Aligned(outbox', FALSE) /\ Complete(outbox', FALSE) /\ ~Closing'
    BY <2>1, <2>2, <2>4 DEF Aligned, Complete, Closing
  <2>6. \A type : Carries(outbox', type) => type = "partial"
    BY <2>2, <2>3, <2>4 DEF Carries, IsPayload
  <2>7. n = Len(issued) + 1 /\ n <= 2
    BY <1>3, <1>4, <1>7, <1>10 DEF Texts
  <2>8. issued \in Seq(Texts) /\ issued' = issued \o <<n>>
    BY <1>5, <1>10 DEF Partials, IInv, TypeOK
  <2>9. Len(issued') = n /\ issued'[n] = n /\ \A i \in 1..Len(issued) : issued'[i] = issued[i]
    BY <2>7, <2>8
  <2>10. StreamInv'
    BY <1>1, <1>4, <2>1, <2>2, <2>3, <2>7, <2>9, PartialAnswer DEF IsPayload
  <2>11. /\ ~Carries(Stream', "final") /\ ~Carries(Stream', "text")
    BY <1>1, <1>3, <2>1, <2>6, AnswerStream DEF IInv, GivenInv
  <2>12. GivenInv'
    <3>1. /\ \A i \in 1..Len(issued') : issued'[i] = i
          /\ Len(result.partials) <= Len(issued') /\ Len(issued') <= 2
      <4>1. Len(result.partials) \in Nat /\ Len(result.partials) <= Len(issued) /\ Len(issued) \in Nat
        BY DEF IInv, TypeOK, GivenInv
      <4>. QED
        BY <2>7, <2>8, <2>9, <4>1 DEF IInv, GivenInv
    <3>2. Len(issued') = IF session'.received < 2 THEN session'.received ELSE 2
      BY <1>4, <1>6, <2>7, <2>9
    <3>. QED
      BY <1>1, <1>3, <1>5, <2>11, <3>1, <3>2
         DEF IInv, GivenInv, Final, Reading, setting, clientVars
  <2>. QED
    BY <1>1, <1>2, <1>3, <1>5, <1>8, <2>2, <2>4, <2>5, <2>6, <2>10, <2>12, AnswerStep
<1>. QED
  BY <1>9, <1>10

\* The client has asked for the text, and gets the final and the text of the
\* whole recording.
LEMMA ServeStopStep == IInv /\ ServeStop => IInv'
<1>. SUFFICES ASSUME IInv, ServeStop PROVE IInv'
  OBVIOUS
<1>1. /\ link = "open" /\ outbox = <<>> /\ up # <<>> /\ Head(up).type = "stop" /\ up' = Tail(up)
      /\ UNCHANGED <<setting, alive, clientVars, link, down, torn>>
  BY DEF ServeStop, Receives
<1>2. TypeOK'
  BY RuntimeTypes DEF IInv, Runtime
<1>3. CASE runtime = "crash"
  BY <1>1, <1>2, <1>3, ComplainStep DEF ServeStop
<1>4. CASE runtime # "crash"
  <2>1. /\ outbox' = Farewell(Final(session.received))
        /\ UNCHANGED <<session, issued, complaint>>
    BY <1>4 DEF ServeStop, Farewell, Close
  <2>2. frames \in Nat /\ sent \in 0..frames
    BY SidecarAssumption DEF IInv, TypeOK
  <2>3. /\ RuntimeAt = frames + 1 /\ session = [started |-> TRUE, received |-> frames]
        /\ pc = "finish" /\ complaint = "none" /\ Serving /\ ready /\ encodingOK /\ runtime = "fake"
    <3>1. /\ RuntimeAt \in Int /\ RuntimeAt + 1 = frames + 2 /\ Len(up) \in Nat \ {0}
          /\ RuntimeAt + Len(up) = ClientAt
      BY <1>1, NextRequest DEF Place
    <3>2. RuntimeAt = frames + 1 /\ ClientAt >= frames + 2
      BY <2>2, <3>1
    <3>3. pc = "finish"
      BY <2>2, <3>2 DEF ClientAt
    <3>4. runtime = "fake"
      BY <1>4 DEF IInv, TypeOK
    <3>. QED
      BY <1>1, <2>2, <3>2, <3>3, <3>4, NextRequest
  <2>. DEFINE t == Final(frames)
              f == [type |-> "final", text |-> t]
              w == [type |-> "text", text |-> t]
  <2>4. t \in Texts
    BY <2>2 DEF Final, Texts
  <2>5. /\ outbox' \in Seq(Out) /\ Len(outbox') = 5
        /\ outbox'[1] = <<"header">> /\ outbox'[2] = <<"payload", f>>
        /\ outbox'[3] = <<"header">> /\ outbox'[4] = <<"payload", w>> /\ outbox'[5] = Close
    BY <2>1, <2>3, <2>4, FarewellParts
  <2>6. /\ f \in Answers /\ w \in Answers /\ f.type = "final" /\ w.type = "text"
        /\ f.text = t /\ w.text = t
    BY <2>4, AnswerParts
  <2>. HIDE DEF f, w, t
  <2>7. /\ IsHeader(outbox'[1]) /\ outbox'[1][1] # "payload" /\ outbox'[1] # Close
        /\ IsHeader(outbox'[3]) /\ outbox'[3][1] # "payload" /\ outbox'[3] # Close
        /\ outbox'[2][1] = "payload" /\ outbox'[2][2] = f /\ outbox'[2] # Close /\ ~IsHeader(outbox'[2])
        /\ outbox'[4][1] = "payload" /\ outbox'[4][2] = w /\ outbox'[4] # Close /\ ~IsHeader(outbox'[4])
        /\ outbox'[5][1] # "payload" /\ ~IsHeader(outbox'[5])
    BY <2>5, <2>6, PartKinds
  <2>8. \A i \in 1..Len(outbox') : i = 1 \/ i = 2 \/ i = 3 \/ i = 4 \/ i = 5
    BY <2>5
  <2>9. Aligned(outbox', FALSE) /\ Complete(outbox', FALSE)
    <3>1. ASSUME NEW i \in 1..Len(outbox')
          PROVE  outbox'[i][1] = "payload" <=> IF i = 1 THEN FALSE ELSE IsHeader(outbox'[i - 1])
      BY <2>7, <2>8
    <3>2. outbox' # <<>> /\ ~IsHeader(outbox'[Len(outbox')])
      BY <2>5, <2>7
    <3>. QED
      BY <3>1, <3>2 DEF Aligned, Complete
  <2>10. Closing' /\ ~Serving'
    BY <2>5 DEF Closing, Serving
  <2>11. Carries(outbox', "text") /\ \A type : Carries(outbox', type) => type \in {"final", "text"}
    BY <2>5, <2>6, <2>7, <2>8 DEF Carries, IsPayload
  <2>12. QueueInv'
    BY <1>1, <2>10 DEF IInv, QueueInv, setting, clientVars
  <2>13. GivenInv'
    BY <1>1, <2>1, <2>3, <2>10 DEF IInv, GivenInv, Final, setting, clientVars
  <2>14. StreamInv'
    <3>1. PICK L \in Nat : L = Len(Stream)
      BY <1>1, <2>5, AnswerStream
    <3>2. /\ Len(Stream) = L /\ Len(Stream') = L + 5
          /\ \A i \in 1..L : Stream'[i] = Stream[i] /\ i \in 1..Len(Stream')
          /\ Stream'[L + 1] = outbox'[1] /\ Stream'[L + 2] = outbox'[2]
          /\ Stream'[L + 3] = outbox'[3] /\ Stream'[L + 4] = outbox'[4]
          /\ Stream'[L + 5] = outbox'[5]
      BY <1>1, <2>5, <2>8, <3>1, AnswerStream
    <3>3. /\ Unread' = Unread /\ result'.finals = <<>> /\ result.finals = <<>>
          /\ ~Carries(Stream, "final") /\ ~Carries(Stream, "text")
      BY <1>1, <2>1, <2>3 DEF IInv, GivenInv, Unread, clientVars
    <3>4. \A x \in Unread : \A j \in 1..(Len(Stream') + 1) : j > L => Precedes(x, Stream', j)
      <4>1. \A x \in Unread : Precedes(x, Stream, L + 1)
        BY <1>1, <3>1 DEF IInv, StreamInv
      <4>. QED
        BY <1>1, <2>5, <3>1, <4>1, AnswerPrecedes
    <3>5. \A i \in 1..(L + 1) : ~IsPayload(Stream'[i], "final")
      BY <2>7, <3>2, <3>3 DEF Carries, IsPayload
    <3>6. ASSUME NEW j \in 1..L
          PROVE  InOrder(j)'
      <4>1. Stream'[j] = Stream[j] /\ InOrder(j)
        BY <3>2 DEF IInv, StreamInv
      <4>2. ~IsPayload(Stream[j], "final") /\ ~IsPayload(Stream[j], "text")
        BY <3>2, <3>3 DEF Carries
      <4>3. \A x : Precedes(x, Stream', j) <=> Precedes(x, Stream, j)
        <5>1. j \in 1..(Len(Stream) + 1)
          BY <3>2
        <5>. QED
          BY <1>1, <2>5, <5>1, AnswerPrecedes
      <4>. QED
        BY <3>3, <4>1, <4>2, <4>3 DEF InOrder
    <3>7. InOrder(L + 1)' /\ InOrder(L + 3)' /\ InOrder(L + 5)'
      BY <2>7, <3>2 DEF InOrder, IsPayload
    <3>8. frames' = frames /\ ready' = ready /\ encodingOK' = encodingOK /\ runtime' = runtime /\ pc' = pc
      BY <1>1 DEF setting, clientVars
    <3>9. InOrder(L + 2)'
      <4>1. /\ ~IsPayload(Stream'[L + 2], "partial") /\ ~IsPayload(Stream'[L + 2], "text")
            /\ Stream'[L + 2][2].text = Final(frames')
        BY <2>6, <2>7, <3>2, <3>8 DEF IsPayload, t
      <4>2. \A x \in Unread' : Precedes(x, Stream', L + 2)
        BY <3>2, <3>3, <3>4
      <4>. QED
        BY <2>3, <3>3, <3>5, <3>8, <4>1, <4>2 DEF InOrder
    <3>10. InOrder(L + 4)'
      <4>1. /\ ~IsPayload(Stream'[L + 4], "partial") /\ ~IsPayload(Stream'[L + 4], "final")
            /\ Stream'[L + 4][2].text = Final(frames')
        BY <2>6, <2>7, <3>2, <3>8 DEF IsPayload, t
      <4>2. \A x \in Unread' : Precedes(x, Stream', L + 4)
        BY <3>2, <3>3, <3>4
      <4>3. L + 2 \in 1..((L + 4) - 1) /\ IsPayload(Stream'[L + 2], "final")
        BY <2>6, <2>7, <3>2 DEF IsPayload
      <4>4. complaint' = "none" /\ runtime' = "fake" /\ ready' /\ encodingOK'
        BY <2>1, <2>3, <3>8
      <4>. QED
        BY <4>1, <4>2, <4>3, <4>4 DEF InOrder
    <3>11. \A x \in Unread' : Precedes(x, Stream', Len(Stream') + 1)
      BY <3>2, <3>3, <3>4
    <3>12. \A j \in 1..Len(Stream') : \/ j \in 1..L \/ j = L + 1 \/ j = L + 2
                                     \/ j = L + 3 \/ j = L + 4 \/ j = L + 5
      BY <3>2
    <3>. QED
      BY <3>6, <3>7, <3>9, <3>10, <3>11, <3>12 DEF StreamInv
  <2>15. \A i \in 1..Len(outbox') : outbox'[i] = Close => i = Len(outbox')
    BY <2>5, <2>7, <2>8
  <2>. QED
    BY <1>1, <1>2, <2>1, <2>3, <2>9, <2>11, <2>12, <2>13, <2>14, <2>15, AnswerStep
<1>. QED
  BY <1>3, <1>4
-----------------------------------------------------------------------------
(* The theorems.                                                           *)

LEMMA StutterStep == IInv /\ UNCHANGED vars => IInv'
<1>. SUFFICES ASSUME IInv, UNCHANGED vars PROVE IInv'
  OBVIOUS
<1>1. /\ UNCHANGED <<runtime, ready, encodingOK, frames, alive, call, pc, sent, result, half, err>>
      /\ UNCHANGED <<link, up, down, session, outbox, issued, complaint, torn>>
  BY DEF vars, setting, connVars, runtimeVars, history
<1>2. TypeOK'
  BY TypeStep DEF IInv
<1>3. /\ Stream' = Stream /\ Closing' = Closing /\ Serving' = Serving
      /\ StreamInv' /\ FailureHasCause' /\ ResultIsTheRuntimes'
  <2>1. CASE pc = "ok"
    <3>1. Stream = <<>> /\ Stream' = <<>>
      BY <1>1, <2>1 DEF IInv, LinkInv, Stream
    <3>2. link' # "open"
      BY <1>1, <2>1 DEF IInv, LinkInv
    <3>3. StreamInv'
      BY <3>1, <3>2 DEF StreamInv
    <3>. QED
      BY <1>1, <3>1, <3>3 DEF IInv, Closing, Serving, FailureHasCause, ResultIsTheRuntimes, Final
  <2>2. CASE pc # "ok"
    BY <1>1, <2>2, SameStream DEF setting, Serving
  <2>. QED
    BY <2>1, <2>2
<1>4. LinkInv' /\ AlignedInv' /\ ClosingInv' /\ GivenInv'
  BY <1>1, <1>3 DEF IInv, LinkInv, AlignedInv, ClosingInv, GivenInv, Final
<1>5. QueueInv'
  <2>1. RuntimeAt' = RuntimeAt
    BY <1>1 DEF RuntimeAt, ClientAt
  <2>. QED
    BY <1>1, <1>3, <2>1 DEF IInv, QueueInv, Place
<1>. QED
  BY <1>2, <1>3, <1>4, <1>5 DEF IInv

\* Every step keeps the answers in order, and the client where the runtime
\* expects it.
THEOREM Invariant == Spec => []IInv
<1>1. Init => IInv
  BY InitIInv
<1>2. IInv /\ [Next]_vars => IInv'
  <2>. SUFFICES ASSUME IInv, [Next]_vars PROVE IInv'
    OBVIOUS
  <2>1. CASE Client
    BY <2>1, DialStep, GreetStep, ReadHeaderStep, ReadGarbageStep, ReadEOFStep,
       QuietEndsStep, ReadTimesOutStep, HealthyStep, StartStreamStep,
       ConsumePartialStep, ConsumeFinalStep, ConsumeTextStep, ConsumeErrorStep,
       SendFrameStep, SendStopStep, WriteFailsStep DEF Client
  <2>2. CASE Runtime
    BY <2>2, AcceptStep, ServeHelloStep, ServeStartStep, ServeFrameStep,
       ServeStopStep, WriteNextStep, DiesStep DEF Runtime, CrashOnFrame
  <2>3. CASE UNCHANGED vars
    BY <2>3, StutterStep
  <2>. QED
    BY <2>1, <2>2, <2>3 DEF Next
<1>. QED
  BY <1>1, <1>2, PTL DEF Spec

\* Every variable keeps the range it is declared with: the client sends no more
\* frames than the recording has (Client.Transcribe), and what is
\* on the connection are whole headers and payloads (writeFrame).
THEOREM TypeOKHolds == Spec => []TypeOK
<1>1. IInv => TypeOK
  BY DEF IInv
<1>. QED
  BY <1>1, Invariant, PTL

\* A transcription that succeeds is the runtime's, of the whole recording: the
\* partials in order, one final and the text, none lost to a deadline that fell
\* inside a message (Finish and consumeMessageWithDone of client.go).
THEOREM ResultIsTheRuntimesHolds == Spec => []ResultIsTheRuntimes
<1>1. IInv => ResultIsTheRuntimes
  BY DEF IInv
<1>. QED
  BY <1>1, Invariant, PTL

\* A transcription fails only for what went wrong: it never reads garbage unless
\* a deadline has cut a message, never finds the connection broken while the
\* runtime lives and has not refused, and never breaks the protocol
\* (drainUntilQuiet and AcceptFrame of client.go).
THEOREM FailureHasCauseHolds == Spec => []FailureHasCause
<1>1. IInv => FailureHasCause
  BY DEF IInv
<1>. QED
  BY <1>1, Invariant, PTL
================================================================================
