------------------------- MODULE SecureChannelProofs -------------------------
(***************************************************************************)
(* Proofs about SecureChannel, for any number of connections, sessions and *)
(* messages.                                                               *)
(***************************************************************************)
EXTENDS SecureChannel, FiniteSetTheorems, TLAPS

\* Before its first recording the phone only presses keys; a frame that is
\* awaited belongs to a recording.
StreamInv ==
    /\ streamID = None => rec = "idle" /\ \A x \in sends : x.task = "key"
    /\ \A x \in sends : x.msg.type = "audio_frame" => x.msg.stream # None

TypeInv == TypeOK /\ IsFiniteSet(sent) /\ StreamInv

\* No message that was let through has a number above its session's last one.
AcceptedInv ==
    \A i \in DOMAIN accepted : accepted[i].seq <= last[accepted[i].ses]

IInv == TypeInv /\ AcceptedInv /\ ProcessedOnce

-----------------------------------------------------------------------------
LEMMA InitIInv == Init => IInv
<1>1. Init => TypeOK
  BY ChannelAssumption DEF Init, TypeOK, Messages
<1>2. Init => IsFiniteSet(sent)
  BY FS_EmptySet DEF Init
<1>3. Init => StreamInv /\ AcceptedInv /\ ProcessedOnce
  BY DEF Init, StreamInv, AcceptedInv, ProcessedOnce
<1>. QED
  BY <1>1, <1>2, <1>3 DEF IInv, TypeInv

\* What send leaves behind, whether the message arrives or not.
Handed(t, type, strm) ==
    /\ link' \in [Conns -> {"unused", "open", "closed"}]
    /\ queue' \in [Conns -> Seq(Messages)]
    /\ disturbed' \subseteq Sessions
    /\ sends' \subseteq [task : Tasks \union {"orphan"}, msg : Messages]
    /\ sent' \subseteq Messages
    /\ IsFiniteSet(sent')
    /\ \E m \in Messages : /\ m.type = type /\ m.stream = strm
                           /\ sends' = sends \union {[task |-> t, msg |-> m]}

LEMMA SendTyped ==
    ASSUME TypeInv,
           NEW t \in Tasks, NEW lk \in [Conns -> {"unused", "open", "closed"}],
           NEW c \in Conns \union {None}, NEW ses \in Sessions,
           NEW seq \in Nat \ {0}, NEW type \in Types,
           NEW strm \in Conns \union {None}, NEW n \in Nat,
           Send(t, lk, c, ses, seq, type, strm, n)
    PROVE  Handed(t, type, strm)
<1>. DEFINE m == [id |-> Cardinality(sent) + 1, ses |-> ses, seq |-> seq,
                  type |-> type, stream |-> strm, n |-> n]
<1>1. Cardinality(sent) \in Nat
  BY FS_CardinalityType DEF TypeInv
<1>2. m \in Messages
  BY <1>1, ChannelAssumption DEF Send, Messages
<1>3. /\ Transmit(lk, c, m)
      /\ sends' = sends \union {[task |-> t, msg |-> m]}
      /\ sent' = sent \union {m}
  BY DEF Send
<1>4. sent' \subseteq Messages /\ IsFiniteSet(sent')
  <2>1. IsFiniteSet(sent \union {m})
    BY FS_AddElement DEF TypeInv
  <2>2. sent \union {m} \subseteq Messages
    BY <1>2 DEF TypeInv, TypeOK
  <2>. QED
    BY <1>3, <2>1, <2>2
<1>5. sends' \subseteq [task : Tasks \union {"orphan"}, msg : Messages]
  BY <1>2, <1>3, SMTT(30) DEF TypeInv, TypeOK
<1>6. m.type = type /\ m.stream = strm /\ m.ses = ses
  OBVIOUS
<1>7. SessionsOf({x.msg : x \in sends}) \subseteq Sessions
  <2>1. sends \subseteq [task : Tasks \union {"orphan"}, msg : Messages]
    BY DEF TypeInv, TypeOK
  <2>2. {x.msg : x \in sends} \subseteq Messages
    BY <2>1
  <2>. QED
    BY <2>2 DEF SessionsOf, Messages
<1>8. SessionsOf(UNION {InTransit(d) : d \in Conns}) \subseteq Sessions
  <2>1. \A d \in Conns : InTransit(d) \subseteq Messages
    BY DEF TypeInv, TypeOK, InTransit
  <2>. QED
    BY <2>1 DEF SessionsOf, Messages
<1>. HIDE DEF m
<1>9. CASE /\ c # None /\ lk[c] = "open"
           /\ link' = lk
           /\ queue' = [queue EXCEPT ![c] = Append(@, m)]
           /\ disturbed' = disturbed \union
                (IF sends = {} /\ \A d \in Conns \ {c} : queue[d] = <<>>
                    THEN {}
                    ELSE {m.ses} \union SessionsOf({x.msg : x \in sends})
                                 \union SessionsOf(UNION {InTransit(d) : d \in Conns}))
  <2>1. queue' \in [Conns -> Seq(Messages)]
    BY <1>2, <1>9 DEF TypeInv, TypeOK
  <2>2. disturbed' \subseteq Sessions
    BY <1>6, <1>7, <1>8, <1>9 DEF TypeInv, TypeOK
  <2>. QED
    BY <1>2, <1>3, <1>4, <1>5, <1>6, <1>9, <2>1, <2>2 DEF Handed
<1>10. CASE /\ link' = IF c # None /\ lk[c] = "open" THEN [lk EXCEPT ![c] = "closed"] ELSE lk
            /\ disturbed' = disturbed \union {m.ses}
            /\ UNCHANGED queue
  <2>1. link' \in [Conns -> {"unused", "open", "closed"}]
    BY <1>10
  <2>2. disturbed' \subseteq Sessions /\ queue' \in [Conns -> Seq(Messages)]
    BY <1>6, <1>10 DEF TypeInv, TypeOK
  <2>. QED
    BY <1>2, <1>3, <1>4, <1>5, <1>6, <2>1, <2>2 DEF Handed
<1>. QED
  BY <1>3, <1>9, <1>10 DEF Transmit

\* The end of a handler keeps the types.
LEMMA OverTyped ==
    ASSUME TypeOK, NEW c \in Conns, NEW a \in {"ok", "refused", "error"}, Over(c, a)
    PROVE  /\ handler' \in [Conns -> {"reading", "stream", "key", "over"}]
           /\ answer' \in [Conns -> {"none", "ok", "refused", "error", "taken"}]
           /\ link' \in [Conns -> {"unused", "open", "closed"}]
           /\ queue' \in [Conns -> Seq(Messages)]
           /\ machine' \in [Conns -> Sessions \union {None}]
           /\ stream' \in [Conns -> Conns \union {None}]
           /\ disturbed' \subseteq Sessions
<1>1. {queue[c][i].ses : i \in 2..Len(queue[c])} \subseteq Sessions
  <2>1. queue[c] \in Seq(Messages)
    BY DEF TypeOK
  <2>2. \A i \in 2..Len(queue[c]) : queue[c][i] \in Messages
    BY <2>1
  <2>. QED
    BY <2>2 DEF Messages
<1>. QED
  BY <1>1, SMTT(30) DEF TypeOK, Over

USE ChannelAssumption DEF Tasks, Types

\* Sends that lose their recording are still the same sends.
LEMMA OrphanedTyped ==
    ASSUME NEW S, S \subseteq [task : Tasks \union {"orphan"}, msg : Messages]
    PROVE  /\ Orphaned(S) \subseteq [task : Tasks \union {"orphan"}, msg : Messages]
           /\ \A y \in Orphaned(S) : \E x \in S : y.msg = x.msg /\ (x.task = "key" => y.task = "key")
BY DEF Orphaned

\* The sends that open a connection.
LEMMA PhoneSends ==
    ASSUME TypeInv, NEW c \in Conns,
           StartRecording(c) \/ PressKey(c)
    PROVE  TypeInv'
<1>1. FirstSeq \in Nat \ {0} /\ Opened(c) \in [Conns -> {"unused", "open", "closed"}]
  BY DEF TypeInv, TypeOK, FirstSeq, Opened
<1>2. CASE StartRecording(c)
  <2>1. saved \in Sessions
    BY <1>2 DEF StartRecording, TypeInv, TypeOK
  <2>2. Send("rec", Opened(c), c, saved, FirstSeq, "audio_start", c, 0)
    BY <1>2 DEF StartRecording
  <2>3. Handed("rec", "audio_start", c)
    BY <1>1, <2>1, <2>2, SendTyped
  <2>4. TypeOK'
    BY <1>1, <1>2, <2>1, <2>3 DEF Handed, StartRecording, Send, TypeInv, TypeOK, sessionVars, handlerVars
  <2>5. StreamInv'
    BY <1>2, <2>3 DEF Handed, StartRecording, TypeInv, StreamInv
  <2>. QED
    BY <2>3, <2>4, <2>5 DEF TypeInv, Handed
<1>3. CASE PressKey(c)
  <2>1. saved \in Sessions
    BY <1>3 DEF PressKey, TypeInv, TypeOK
  <2>2. Send("key", Opened(c), c, saved, FirstSeq, "key_press", None, 0)
    BY <1>3 DEF PressKey
  <2>3. Handed("key", "key_press", None)
    BY <1>1, <2>1, <2>2, SendTyped
  <2>4. TypeOK'
    <3>1. /\ key' \in {"idle", "sending", "waiting"}
          /\ task' \in [Tasks -> Conns \union {None}]
      BY <1>3 DEF PressKey, TypeInv, TypeOK
    <3>2. /\ encrypted' = saved /\ nextSeq' \in Nat \ {0} /\ webSocket' = c
          /\ UNCHANGED <<streamSession, streamID, rec, lastAudio>>
      BY <1>1, <1>3 DEF PressKey
    <3>3. UNCHANGED <<sessionVars, handlerVars, saved, accepted, okFrames,
                      finished, acked, refused>>
      BY <2>2 DEF Send
    <3>. QED
      BY <2>1, <2>3, <3>1, <3>2, <3>3 DEF Handed, TypeInv, TypeOK, sessionVars, handlerVars
  <2>5. StreamInv'
    BY <1>3, <2>3 DEF Handed, PressKey, TypeInv, StreamInv
  <2>. QED
    BY <2>3, <2>4, <2>5 DEF TypeInv, Handed
<1>. QED
  BY <1>2, <1>3

\* The sends of a recording on the current socket.
LEMMA AudioSends ==
    ASSUME TypeInv, SendFrame \/ StopRecording
    PROVE  TypeInv'
<1>1. CASE SendFrame
  <2>1. /\ streamSession \in Sessions /\ webSocket \in Conns \union {None}
        /\ nextSeq \in Nat \ {0} /\ streamID \in Conns /\ lastAudio + 1 \in Nat
        /\ link \in [Conns -> {"unused", "open", "closed"}]
    BY <1>1 DEF SendFrame, TypeInv, TypeOK, StreamInv
  <2>2. Send("rec", link, webSocket, streamSession, nextSeq, "audio_frame",
             streamID, lastAudio + 1)
    BY <1>1 DEF SendFrame
  <2>3. Handed("rec", "audio_frame", streamID)
    BY <2>1, <2>2, SendTyped
  <2>4. TypeOK'
    BY <1>1, <2>3 DEF Handed, SendFrame, Send, TypeInv, TypeOK, sessionVars, handlerVars, clientVars
  <2>5. StreamInv'
    <3>1. PICK m \in Messages : m.stream = streamID /\ sends' = sends \union {[task |-> "rec", msg |-> m]}
      BY <2>3 DEF Handed
    <3>2. streamID' = streamID /\ streamID # None
      BY <1>1, <2>1 DEF SendFrame, clientVars
    <3>. QED
      BY <3>1, <3>2 DEF TypeInv, StreamInv
  <2>. QED
    BY <2>3, <2>4, <2>5 DEF TypeInv, Handed
<1>2. CASE StopRecording
  <2>1. /\ streamSession \in Sessions /\ webSocket \in Conns
        /\ nextSeq \in Nat \ {0} /\ streamID \in Conns /\ lastAudio \in Nat
        /\ link \in [Conns -> {"unused", "open", "closed"}]
    BY <1>2 DEF StopRecording, TypeInv, TypeOK, StreamInv
  <2>2. Send("rec", link, webSocket, streamSession, nextSeq, "audio_stop",
             streamID, lastAudio)
    BY <1>2 DEF StopRecording
  <2>3. Handed("rec", "audio_stop", streamID)
    BY <2>1, <2>2, SendTyped
  <2>4. TypeOK'
    BY <1>2, <2>1, <2>3 DEF Handed, StopRecording, Send, TypeInv, TypeOK, sessionVars, handlerVars, clientVars
  <2>5. StreamInv'
    <3>1. PICK m \in Messages : m.stream = streamID /\ sends' = sends \union {[task |-> "rec", msg |-> m]}
      BY <2>3 DEF Handed
    <3>2. streamID' = streamID /\ streamID # None
      BY <1>2, <2>1 DEF StopRecording, clientVars
    <3>. QED
      BY <3>1, <3>2 DEF TypeInv, StreamInv
  <2>. QED
    BY <2>3, <2>4, <2>5 DEF TypeInv, Handed
<1>. QED
  BY <1>1, <1>2

\* The other actions of the phone.
LEMMA PhoneMoves ==
    ASSUME TypeInv,
           \/ \E s \in Sessions : Resume(s)
           \/ NoStream \/ LetGo \/ Disconnect
           \/ \E x \in sends : SendReturns(x) \/ SendThrows(x)
           \/ \E t \in Tasks : Receive(t)
    PROVE  TypeInv'
<1>. DEFINE SendRecords == [task : Tasks \union {"orphan"}, msg : Messages]
<1>1. /\ sends \subseteq SendRecords
      /\ TypeOK /\ StreamInv /\ IsFiniteSet(sent)
  BY DEF TypeInv, TypeOK
<1>2. ASSUME CloseCurrent
      PROVE  /\ link' \in [Conns -> {"unused", "open", "closed"}]
             /\ {webSocket', streamSession'} \subseteq {None}
  BY <1>1, <1>2 DEF CloseCurrent, TypeOK
<1>3. /\ Orphaned(sends) \subseteq SendRecords
      /\ \A y \in Orphaned(sends) : \E x \in sends : y.msg = x.msg /\ (x.task = "key" => y.task = "key")
  BY <1>1, OrphanedTyped
<1>4. CASE \E s \in Sessions : Resume(s)
  <2>1. PICK s \in Sessions : Resume(s)
    BY <1>4
  <2>2. TypeOK'
    BY <1>1, <2>1 DEF Resume, TypeOK, vars, connVars, handlerVars, clientVars, taskVars, history
  <2>3. UNCHANGED <<sent, streamID, rec, sends>>
    BY <2>1 DEF Resume, clientVars, taskVars, history
  <2>. QED
    BY <1>1, <2>2, <2>3 DEF TypeInv, StreamInv
<1>5. CASE NoStream
  <2>1. TypeOK'
    BY <1>1, <1>3, <1>5 DEF NoStream, TypeOK, sessionVars, connVars, handlerVars, clientVars, history
  <2>2. StreamInv' /\ sent' = sent
    BY <1>1, <1>3, <1>5 DEF NoStream, StreamInv, clientVars, history
  <2>. QED
    BY <1>1, <2>1, <2>2 DEF TypeInv
<1>6. CASE LetGo
  <2>1. TypeOK'
    BY <1>1, <1>6 DEF LetGo, TypeOK, sessionVars, connVars, handlerVars, clientVars, history
  <2>2. StreamInv' /\ sent' = sent
    BY <1>1, <1>6 DEF LetGo, StreamInv, clientVars, history
  <2>. QED
    BY <1>1, <2>1, <2>2 DEF TypeInv
<1>7. CASE Disconnect
  <2>1. /\ link' \in [Conns -> {"unused", "open", "closed"}]
        /\ webSocket' \in Conns \union {None} /\ streamSession' \in Sessions \union {None}
    BY <1>1, <1>2, <1>7 DEF Disconnect, TypeOK
  <2>2. TypeOK'
    <3>1. /\ rec' = "idle" /\ saved' = None /\ sends' \subseteq SendRecords
          /\ UNCHANGED <<state, last, seen, current, queue, handler, machine, stream, frames, answer,
                          encrypted, nextSeq, streamID, lastAudio, key, task, sent, accepted,
                          okFrames, finished, acked, refused, disturbed>>
      BY <1>3, <1>7 DEF Disconnect, sessionVars, handlerVars, history
    <3>2. /\ {saved', encrypted', streamSession'} \subseteq Sessions \union {None}
          /\ {webSocket', streamID'} \subseteq Conns \union {None}
      BY <1>1, <2>1, <3>1 DEF TypeOK
    <3>. QED
      BY ONLY <1>1, <2>1, <3>1, <3>2 DEF TypeOK
  <2>3. StreamInv' /\ sent' = sent
    BY <1>1, <1>3, <1>7 DEF Disconnect, StreamInv, history
  <2>. QED
    BY <1>1, <2>2, <2>3 DEF TypeInv
<1>8. ASSUME NEW x \in sends, SendReturns(x) PROVE TypeInv'
  <2>1. x \in SendRecords /\ x.msg \in Messages
    BY <1>1
  <2>2. Advanced(x) \in Nat \ {0}
    BY <2>1 DEF Advanced, Messages
  <2>3. Resumed(x.msg) \in {"recording", "drained", "waiting", rec}
    BY DEF Resumed
  <2>4. /\ lastAudio' \in Nat
        /\ okFrames' \subseteq Conns \X Nat
    <3>1. CASE x.msg.type = "audio_frame" /\ rec # "idle"
      <4>1. x.msg.stream \in Conns /\ x.msg.n \in Nat
        BY <1>1, <2>1, <3>1 DEF StreamInv, Messages
      <4>2. lastAudio' = x.msg.n /\ okFrames' = okFrames \union {<<x.msg.stream, x.msg.n>>}
        BY <1>8, <3>1 DEF SendReturns
      <4>. QED
        BY <1>1, <4>1, <4>2, SMTT(30) DEF TypeOK
    <3>2. CASE ~(x.msg.type = "audio_frame" /\ rec # "idle")
      BY <1>1, <1>8, <3>2 DEF SendReturns, TypeOK
    <3>. QED
      BY <3>1, <3>2
  <2>5. TypeOK'
    BY <1>1, <1>8, <2>2, <2>3, <2>4 DEF SendReturns, TypeOK, sessionVars, connVars, handlerVars
  <2>6. StreamInv' /\ sent' = sent
    BY <1>1, <1>8 DEF SendReturns, StreamInv
  <2>. QED
    BY <1>1, <2>5, <2>6 DEF TypeInv
<1>9. ASSUME NEW x \in sends, SendThrows(x) PROVE TypeInv'
  <2>1. x \in SendRecords /\ x.msg \in Messages /\ x.msg.ses \in Sessions
    BY <1>1 DEF Messages
  <2>2. /\ link' \in [Conns -> {"unused", "open", "closed"}]
        /\ webSocket' \in Conns \union {None} /\ streamSession' \in Sessions \union {None}
    BY <1>1, <1>2, <1>9 DEF SendThrows, TypeOK
  <2>3. AfterError(x) \subseteq {"idle", "drained", rec}
    BY DEF AfterError
  <2>4. /\ Orphaned(sends \ {x}) \subseteq SendRecords
        /\ \A y \in Orphaned(sends \ {x}) : \E z \in sends \ {x} :
              y.msg = z.msg /\ (z.task = "key" => y.task = "key")
    BY <1>1, OrphanedTyped
  <2>5. PICK r \in AfterError(x) :
            /\ rec' = r
            /\ sends' = IF r = "idle" THEN Orphaned(sends \ {x}) ELSE sends \ {x}
    BY <1>9 DEF SendThrows
  <2>6. sends' \subseteq SendRecords
    BY <1>1, <2>4, <2>5
  <2>7. TypeOK'
    <3>1. rec' \in {"idle", "starting", "recording", "sending", "draining",
                    "drained", "stopping", "waiting"}
      <4>1. rec' \in {"idle", "drained", rec}
        BY <2>3, <2>5
      <4>2. rec \in {"idle", "starting", "recording", "sending", "draining",
                     "drained", "stopping", "waiting"}
        BY <1>1 DEF TypeOK
      <4>. QED
        BY <4>1, <4>2
    <3>2. disturbed' \subseteq Sessions
      BY <1>1, <1>9, <2>1 DEF SendThrows, TypeOK
    <3>3. key' \in {"idle", "sending", "waiting"}
      BY <1>1, <1>9 DEF SendThrows, TypeOK
    <3>4. task' \in [Tasks -> Conns \union {None}]
      BY <1>1, <1>9 DEF SendThrows, TypeOK
    <3>5. UNCHANGED <<state, last, seen, current, queue, handler, machine, stream, frames, answer,
                      saved, encrypted, nextSeq, streamID, lastAudio, sent, accepted, okFrames,
                      finished, acked, refused>>
      BY <1>9 DEF SendThrows, sessionVars, handlerVars
    <3>6. /\ {saved', encrypted', streamSession'} \subseteq Sessions \union {None}
          /\ {webSocket', streamID'} \subseteq Conns \union {None}
      BY <1>1, <2>2, <3>5 DEF TypeOK
    <3>. QED
      BY ONLY <1>1, <2>2, <2>6, <3>1, <3>2, <3>3, <3>4, <3>5, <3>6 DEF TypeOK
  <2>8. StreamInv'
    <3>1. streamID' = streamID
      BY <1>9 DEF SendThrows
    <3>2. ASSUME streamID = None PROVE rec' = "idle" /\ \A y \in sends' : y.task = "key"
      <4>1. x.task = "key" /\ rec = "idle"
        BY <1>1, <3>2 DEF StreamInv
      <4>2. rec' = "idle"
        BY <2>5, <4>1 DEF AfterError
      <4>. QED
        BY <1>1, <2>4, <2>5, <3>2, <4>2 DEF StreamInv
    <3>3. \A y \in sends' : \E z \in sends : y.msg = z.msg
      BY <2>4, <2>5
    <3>. QED
      BY <1>1, <3>1, <3>2, <3>3 DEF StreamInv
  <2>. QED
    BY <1>1, <1>9, <2>7, <2>8 DEF TypeInv, SendThrows
<1>10. ASSUME NEW t \in Tasks, Receive(t) PROVE TypeInv'
  <2>1. /\ link' \in [Conns -> {"unused", "open", "closed"}]
        /\ {webSocket', streamSession'} \subseteq {None}
    BY <1>2, <1>10 DEF Receive
  <2>2. acked' \subseteq Conns
    <3>1. t = "rec" => streamID \in Conns
      BY <1>1, <1>10 DEF Receive, TypeOK, StreamInv
    <3>2. acked' = acked \/ (t = "rec" /\ acked' = acked \union {streamID})
      BY <1>10 DEF Receive
    <3>. QED
      BY <1>1, <3>1, <3>2 DEF TypeOK
  <2>3. /\ saved' \in Sessions \union {None} /\ encrypted' \in Sessions \union {None}
        /\ nextSeq' \in Nat \ {0}
    BY <1>1, <1>10 DEF Receive, TypeOK
  <2>4. /\ answer' \in [Conns -> {"none", "ok", "refused", "error", "taken"}]
        /\ task' \in [Tasks -> Conns \union {None}]
    BY <1>1, <1>10 DEF Receive, TypeOK
  <2>5. /\ sends' \subseteq SendRecords
        /\ rec' \in {"idle", rec} /\ key' \in {"idle", key}
    BY <1>1, <1>3, <1>10 DEF Receive
  <2>6. UNCHANGED <<sessionVars, queue, handler, machine, stream, frames, streamID,
                    lastAudio, sent, accepted, okFrames, finished, refused, disturbed>>
    BY <1>10 DEF Receive
  <2>7. TypeOK'
    BY <1>1, <2>1, <2>2, <2>3, <2>4, <2>5, <2>6 DEF TypeOK, sessionVars
  <2>8. StreamInv' /\ sent' = sent
    BY <1>1, <1>3, <1>10 DEF Receive, StreamInv
  <2>. QED
    BY <1>1, <2>7, <2>8 DEF TypeInv
<1>. QED
  BY <1>4, <1>5, <1>6, <1>7, <1>8, <1>9, <1>10

\* A refused number is one of the handler's own session.
LEMMA RefusedIsOwn ==
    ASSUME NEW s, NEW m, NEW expired \in BOOLEAN, Verdict(s, m, expired) = "refused"
    PROVE  m.ses = s
BY DEF Verdict

\* What a decryption accepts is the next message of the handler's session.
LEMMA DecryptsNext ==
    ASSUME TypeOK, NEW c \in Conns, NEW type, Decrypts(c, type)
    PROVE  /\ queue[c] \in Seq(Messages) /\ queue[c] # <<>>
           /\ Head1(c) \in Messages
           /\ machine[c] = Head1(c).ses /\ machine[c] \in Sessions
           /\ Head1(c).seq = last[machine[c]] + 1
           /\ last' = [last EXCEPT ![machine[c]] = Head1(c).seq]
           /\ seen' = [seen EXCEPT ![machine[c]] = @ \union {Head1(c).seq}]
           /\ accepted' = Append(accepted, Head1(c))
<1>1. queue[c] \in Seq(Messages) /\ queue[c] # <<>>
  BY DEF TypeOK, Decrypts
<1>2. Head1(c) \in Messages
  BY <1>1 DEF Head1
<1>3. Verdict(machine[c], Head1(c), FALSE) = "ok"
  BY DEF Decrypts
<1>4. machine[c] = Head1(c).ses /\ Head1(c).seq = last[machine[c]] + 1
  BY <1>3 DEF Verdict
<1>5. machine[c] \in Sessions
  BY <1>2, <1>4 DEF Messages
<1>. QED
  BY <1>1, <1>2, <1>4, <1>5 DEF Decrypts, Accept, Recorded

\* The variables a decryption changes keep their types.
LEMMA DecryptsTyped ==
    ASSUME TypeOK, NEW c \in Conns, NEW type, Decrypts(c, type)
    PROVE  /\ last' \in [Sessions -> Nat]
           /\ seen' \in [Sessions -> SUBSET (Nat \ {0})]
           /\ accepted' \in Seq(Messages)
           /\ Tail(queue[c]) \in Seq(Messages)
<1>1. Head1(c) \in Messages /\ Head1(c).seq \in Nat \ {0}
  BY DecryptsNext DEF Messages
<1>. DEFINE s == machine[c]
            n == Head1(c).seq
<1>2. last' \in [Sessions -> Nat]
  <2>1. last' = [last EXCEPT ![s] = n]
    BY DecryptsNext
  <2>. QED
    BY <1>1, <2>1 DEF TypeOK
<1>3. seen' \in [Sessions -> SUBSET (Nat \ {0})]
  <2>1. seen' = [seen EXCEPT ![s] = @ \union {n}]
    BY DecryptsNext
  <2>. HIDE DEF s, n
  <2>2. n \in Nat \ {0}
    BY <1>1 DEF n
  <2>. QED
    BY <2>1, <2>2 DEF TypeOK
<1>4. accepted' \in Seq(Messages)
  <2>1. accepted' = Append(accepted, Head1(c))
    BY DecryptsNext
  <2>. QED
    BY <1>1, <2>1 DEF TypeOK
<1>5. Tail(queue[c]) \in Seq(Messages)
  BY DecryptsNext
<1>. QED
  BY <1>2, <1>3, <1>4, <1>5

\* The handlers change nothing of the phone.
LEMMA HandlerMoves ==
    ASSUME TypeInv, NEW c \in Conns,
           \/ BindSession(c) \/ DecryptFails(c) \/ HandlerFails(c)
           \/ HandleKeyPress(c) \/ HandleStart(c) \/ HandleFrame(c) \/ HandleStop(c)
           \/ ReadFails(c)
    PROVE  TypeInv'
<1>1. TypeOK /\ StreamInv /\ IsFiniteSet(sent)
  BY DEF TypeInv
<1>2. UNCHANGED <<streamID, rec, sends, sent>>
  BY DEF BindSession, DecryptFails, HandlerFails, HandleKeyPress, HandleStart,
         HandleFrame, HandleStop, ReadFails, clientVars, taskVars, history
<1>3. StreamInv' /\ IsFiniteSet(sent')
  BY <1>1, <1>2 DEF StreamInv
<1>4. CASE BindSession(c)
  BY <1>1, <1>3, <1>4 DEF BindSession, TypeInv, TypeOK, sessionVars, connVars,
                         clientVars, taskVars, history
<1>5. CASE DecryptFails(c)
  <2>1. PICK expired \in BOOLEAN :
          LET v == Verdict(machine[c], Head1(c), expired)
          IN  /\ v # "ok"
              /\ Expires(machine[c], expired)
              /\ Over(c, v)
              /\ refused' = IF v = "refused" THEN refused \union {machine[c]} ELSE refused
    BY <1>5 DEF DecryptFails, Fatal
  <2>. DEFINE v == Verdict(machine[c], Head1(c), expired)
  <2>2. v \in {"error", "refused"}
    BY <2>1 DEF Verdict
  <2>3. v = "refused" => machine[c] \in Sessions
    <3>1. Head1(c) \in Messages
      BY <1>1, <1>5 DEF DecryptFails, TypeOK, Head1
    <3>2. v = "refused" => machine[c] = Head1(c).ses
      BY RefusedIsOwn
    <3>. QED
      BY <3>1, <3>2 DEF Messages
  <2>4. state' \in [Sessions -> {"none", "active", "expired"}]
    BY <1>1, <2>1 DEF Expires, TypeOK
  <2>5. refused' \subseteq Sessions
    BY <1>1, <2>1, <2>3 DEF TypeOK
  <2>6. /\ handler' \in [Conns -> {"reading", "stream", "key", "over"}]
        /\ answer' \in [Conns -> {"none", "ok", "refused", "error", "taken"}]
        /\ link' \in [Conns -> {"unused", "open", "closed"}]
        /\ queue' \in [Conns -> Seq(Messages)]
        /\ machine' \in [Conns -> Sessions \union {None}]
        /\ stream' \in [Conns -> Conns \union {None}]
        /\ disturbed' \subseteq Sessions
    BY <1>1, <2>1, <2>2, OverTyped
  <2>7. TypeOK'
    BY <1>1, <1>5, <2>4, <2>5, <2>6 DEF DecryptFails, TypeOK, clientVars, taskVars
  <2>. QED
    BY <1>3, <2>7 DEF TypeInv
<1>6. CASE HandlerFails(c)
  <2>1. PICK type \in Types : Decrypts(c, type)
    BY <1>6 DEF HandlerFails
  <2>2. Over(c, "error")
    BY <1>6 DEF HandlerFails
  <2>3. TypeOK'
    BY <1>1, <1>6, <2>1, <2>2, DecryptsTyped, OverTyped
       DEF HandlerFails, TypeOK, clientVars, taskVars
  <2>. QED
    BY <1>3, <2>3 DEF TypeInv
<1>7. CASE HandleKeyPress(c)
  <2>1. Decrypts(c, "key_press") /\ Over(c, "ok")
    BY <1>7 DEF HandleKeyPress
  <2>2. TypeOK'
    BY <1>1, <1>7, <2>1, DecryptsTyped, OverTyped
       DEF HandleKeyPress, TypeOK, clientVars, taskVars
  <2>. QED
    BY <1>3, <2>2 DEF TypeInv
<1>8. CASE HandleStart(c)
  <2>1. Decrypts(c, "audio_start")
    BY <1>8 DEF HandleStart
  <2>2. Head1(c).stream \in Conns \union {None}
    BY <1>1, <2>1, DecryptsNext DEF Messages
  <2>3. TypeOK'
    BY <1>1, <1>8, <2>1, <2>2, DecryptsTyped DEF HandleStart, TypeOK, clientVars, taskVars
  <2>. QED
    BY <1>3, <2>3 DEF TypeInv
<1>9. CASE HandleFrame(c)
  <2>1. Decrypts(c, "audio_frame")
    BY <1>9 DEF HandleFrame
  <2>2. frames' \in [Conns -> Nat]
    BY <1>1, <1>9, SMTT(30) DEF HandleFrame, TypeOK
  <2>3. queue' \in [Conns -> Seq(Messages)]
    BY <1>1, <1>9, <2>1, DecryptsTyped DEF HandleFrame, TypeOK
  <2>4. UNCHANGED <<state, current, link, handler, machine, stream, answer,
                    saved, clientVars, taskVars, sent, okFrames, finished,
                    acked, refused, disturbed>>
    BY <1>9 DEF HandleFrame
  <2>5. TypeOK'
    BY <1>1, <2>1, <2>2, <2>3, <2>4, DecryptsTyped DEF TypeOK, clientVars, taskVars
  <2>. QED
    BY <1>3, <2>5 DEF TypeInv
<1>10. CASE HandleStop(c)
  <2>1. Decrypts(c, "audio_stop") /\ Over(c, "ok")
    BY <1>10 DEF HandleStop
  <2>2. TypeOK'
    BY <1>1, <1>10, <2>1, DecryptsTyped, OverTyped
       DEF HandleStop, TypeOK, clientVars, taskVars
  <2>. QED
    BY <1>3, <2>2 DEF TypeInv
<1>11. CASE ReadFails(c)
  <2>1. Over(c, "error")
    BY <1>11 DEF ReadFails
  <2>2. TypeOK'
    BY <1>1, <1>11, <2>1, OverTyped DEF ReadFails, TypeOK, sessionVars, clientVars, taskVars
  <2>. QED
    BY <1>3, <2>2 DEF TypeInv
<1>. QED
  BY <1>4, <1>5, <1>6, <1>7, <1>8, <1>9, <1>10, <1>11

-----------------------------------------------------------------------------
\* Only a decryption touches what was accepted and the last numbers.
LEMMA OthersAccept ==
    ASSUME TypeInv, [Next]_vars,
           \A c \in Conns, type \in Types : ~ Decrypts(c, type)
    PROVE  UNCHANGED <<last, accepted>>
<1>1. CASE UNCHANGED vars
  BY <1>1 DEF vars, sessionVars, history
<1>2. CASE \E s \in Sessions : Resume(s)
  BY <1>2 DEF Resume, history
<1>3. CASE SendFrame \/ StopRecording
  BY <1>3 DEF SendFrame, StopRecording, Send, sessionVars
<1>4. CASE NoStream \/ LetGo \/ Disconnect
  BY <1>4 DEF NoStream, LetGo, Disconnect, sessionVars, history
<1>5. CASE \E x \in sends : SendReturns(x) \/ SendThrows(x)
  BY <1>5 DEF SendReturns, SendThrows, sessionVars
<1>6. CASE \E t \in Tasks : Receive(t)
  BY <1>6 DEF Receive, sessionVars
<1>7. ASSUME NEW c \in Conns, StartRecording(c) \/ PressKey(c)
      PROVE  UNCHANGED <<last, accepted>>
  BY <1>7 DEF StartRecording, PressKey, Send, sessionVars
<1>8. ASSUME NEW c \in Conns, BindSession(c) \/ DecryptFails(c) \/ ReadFails(c)
      PROVE  UNCHANGED <<last, accepted>>
  BY <1>8 DEF BindSession, DecryptFails, ReadFails, sessionVars, history
<1>9. ASSUME NEW c \in Conns,
             \/ HandlerFails(c) \/ HandleKeyPress(c)
             \/ HandleStart(c) \/ HandleFrame(c) \/ HandleStop(c)
      PROVE  FALSE
  BY <1>9 DEF HandlerFails, HandleKeyPress, HandleStart, HandleFrame, HandleStop
<1>. QED
  BY <1>1, <1>2, <1>3, <1>4, <1>5, <1>6, <1>7, <1>8, <1>9 DEF Next

\* A message that is accepted has the highest number of its session so far.
LEMMA DecryptsKeepsOrder ==
    ASSUME TypeOK, AcceptedInv, ProcessedOnce,
           NEW c \in Conns, NEW type, Decrypts(c, type)
    PROVE  AcceptedInv' /\ ProcessedOnce'
<1>. DEFINE m == Head1(c)
            n == Len(accepted)
<1>1. /\ m \in Messages /\ m.ses \in Sessions /\ m.seq \in Nat
      /\ m.seq = last[m.ses] + 1
      /\ last' = [last EXCEPT ![m.ses] = m.seq]
      /\ accepted' = Append(accepted, m)
  BY DecryptsNext DEF Messages
<1>2. /\ accepted \in Seq(Messages) /\ n \in Nat /\ DOMAIN accepted = 1..n
      /\ last \in [Sessions -> Nat]
  BY DEF TypeOK
<1>3. /\ DOMAIN accepted' = 1..(n + 1)
      /\ accepted'[n + 1] = m
      /\ \A i \in 1..n : accepted'[i] = accepted[i]
  BY <1>1, <1>2
<1>4. \A i \in 1..n : /\ accepted[i].ses \in Sessions /\ accepted[i].seq \in Nat
                      /\ accepted[i].seq <= last[accepted[i].ses]
  <2>1. TAKE i \in 1..n
  <2>2. accepted[i] \in Messages
    BY <1>2
  <2>3. accepted[i].ses \in Sessions /\ accepted[i].seq \in Nat
    BY <2>2 DEF Messages
  <2>4. accepted[i].seq <= last[accepted[i].ses]
    BY <1>2 DEF AcceptedInv
  <2>. QED
    BY <2>3, <2>4
<1>5. \A s \in Sessions : last[s] \in Nat /\ last[s] <= last'[s]
  BY <1>1, <1>2
<1>6. last'[m.ses] = m.seq
  BY <1>1, <1>2
<1>. HIDE DEF m, n
<1>7. AcceptedInv'
  <2>1. ASSUME NEW i \in 1..(n + 1) PROVE accepted'[i].seq <= last'[accepted'[i].ses]
    <3>1. CASE i = n + 1
      BY <1>1, <1>3, <1>6, <3>1
    <3>2. CASE i \in 1..n
      <4>1. last'[accepted[i].ses] \in Nat
        BY <1>1, <1>2, <1>4, <3>2
      <4>. QED
        BY <1>3, <1>4, <1>5, <3>2, <4>1
    <3>. QED
      BY <1>2, <3>1, <3>2
  <2>. QED
    BY <1>3, <2>1 DEF AcceptedInv
<1>8. ProcessedOnce'
  <2>1. ASSUME NEW i \in 1..(n + 1), NEW j \in 1..(n + 1),
               i < j, accepted'[i].ses = accepted'[j].ses
        PROVE  accepted'[i].seq < accepted'[j].seq
    <3>1. i \in 1..n
      BY <1>2, <2>1
    <3>2. CASE j = n + 1
      BY <1>1, <1>2, <1>3, <1>4, <2>1, <3>1, <3>2
    <3>3. CASE j \in 1..n
      BY <1>2, <1>3, <2>1, <3>1, <3>3 DEF ProcessedOnce
    <3>. QED
      BY <1>2, <3>2, <3>3
  <2>. QED
    BY <1>3, <2>1 DEF ProcessedOnce
<1>. QED
  BY <1>7, <1>8

LEMMA NextIInv == IInv /\ [Next]_vars => IInv'
<1>. SUFFICES ASSUME IInv, [Next]_vars PROVE IInv'
  OBVIOUS
<1>1. TypeInv /\ TypeOK /\ AcceptedInv /\ ProcessedOnce
  BY DEF IInv, TypeInv
<1>2. TypeInv'
  <2>1. CASE UNCHANGED vars
    BY <1>1, <2>1 DEF TypeInv, TypeOK, StreamInv, vars, sessionVars, connVars,
                      handlerVars, clientVars, taskVars, history
  <2>2. CASE \/ \E s \in Sessions : Resume(s)
             \/ NoStream \/ LetGo \/ Disconnect
             \/ \E x \in sends : SendReturns(x) \/ SendThrows(x)
             \/ \E t \in Tasks : Receive(t)
    BY <1>1, <2>2, PhoneMoves
  <2>3. ASSUME NEW c \in Conns, StartRecording(c) \/ PressKey(c) PROVE TypeInv'
    BY <1>1, <2>3, PhoneSends
  <2>4. CASE SendFrame \/ StopRecording
    BY <1>1, <2>4, AudioSends
  <2>5. ASSUME NEW c \in Conns,
               \/ BindSession(c) \/ DecryptFails(c) \/ HandlerFails(c)
               \/ HandleKeyPress(c) \/ HandleStart(c) \/ HandleFrame(c) \/ HandleStop(c)
               \/ ReadFails(c)
        PROVE  TypeInv'
    BY <1>1, <2>5, HandlerMoves
  <2>. QED
    BY <2>1, <2>2, <2>3, <2>4, <2>5 DEF Next
<1>3. AcceptedInv' /\ ProcessedOnce'
  <2>1. CASE \E c \in Conns, type \in Types : Decrypts(c, type)
    BY <1>1, <2>1, DecryptsKeepsOrder
  <2>2. CASE \A c \in Conns, type \in Types : ~ Decrypts(c, type)
    <3>1. UNCHANGED <<last, accepted>>
      BY <1>1, <2>2, OthersAccept
    <3>. QED
      BY <1>1, <3>1 DEF AcceptedInv, ProcessedOnce
  <2>. QED
    BY <2>1, <2>2
<1>. QED
  BY <1>2, <1>3 DEF IInv

-----------------------------------------------------------------------------
\* The invariant holds in every state (every send, handler and reconnection).
THEOREM Invariant == Spec => []IInv
BY InitIInv, NextIInv, PTL DEF Spec

\* Types, over any number of connections, sessions and messages: no sequence
\* number is ever 0 (SecureAudioStreamClient, StateMachine).
THEOREM TypeOKHolds == Spec => []TypeOK
<1>1. IInv => TypeOK
  BY DEF IInv, TypeInv
<1>. QED
  BY <1>1, Invariant, PTL

\* StateMachine.Decrypt lets no number of a session through twice or late,
\* however many handlers decrypt on the machine of the session.
THEOREM ProcessedOnceHolds == Spec => []ProcessedOnce
<1>1. IInv => ProcessedOnce
  BY DEF IInv
<1>. QED
  BY <1>1, Invariant, PTL

-----------------------------------------------------------------------------
(* The two counters of a session.                                          *)

\* The phone's session is the Mac's latest, and a recording is of that session:
\* what is sent for a recording that is over is not the recorder's any more.
PhoneInv ==
    /\ saved # None => saved = current
    /\ saved = None => rec = "idle"
    /\ rec # "idle" => encrypted = saved /\ streamSession \in {None, saved}
    /\ rec = "idle" => \A x \in sends : x.task # "rec"

\* Only a session that has been derived has numbers.
DerivedInv ==
    /\ current # None => state[current] # "none"
    /\ encrypted # None => state[encrypted] # "none"
    /\ sent # {} => current # None
    /\ \A m \in sent : state[m.ses] # "none"
    /\ \A c \in Conns : InTransit(c) \subseteq sent
    /\ \A s \in Sessions : state[s] = "none" => last[s] = 0
    /\ \A s \in Sessions : seen[s] \subseteq 1..last[s]

\* A connection has messages of one session.  Its handler decrypts on that
\* session, unless a newer one has replaced it before the handler was bound.
ConnInv ==
    /\ \A c \in Conns : link[c] = "unused" => queue[c] = <<>> /\ machine[c] = None
    /\ \A c \in Conns : handler[c] \in {"stream", "key"} => machine[c] # None
    /\ \A c \in Conns : \A i, j \in DOMAIN queue[c] : queue[c][i].ses = queue[c][j].ses
    /\ \A c \in Conns : machine[c] # None =>
          \A i \in DOMAIN queue[c] : queue[c][i].ses \in {machine[c]} \union (Sessions \ {current})
    /\ rec # "idle" /\ webSocket # None =>
          /\ machine[webSocket] \in {None, saved}
          /\ \A i \in DOMAIN queue[webSocket] : queue[webSocket][i].ses = saved

Carries(c, s) == \E i \in DOMAIN queue[c] : queue[c][i].ses = s

\* What is in transit of s goes on from the last number the Mac has let through,
\* on one connection.
Numbered(s) ==
    /\ \A c \in Conns : \A i \in DOMAIN queue[c] :
          queue[c][i].ses = s => queue[c][i].seq = last[s] + i
    /\ \A c, d \in Conns : Carries(c, s) /\ Carries(d, s) => c = d

\* When all that is in transit of s is let through, the last number is n.
Reaches(s, n) ==
    /\ \A c \in Conns : Carries(c, s) => last[s] + Len(queue[c]) = n
    /\ (\A c \in Conns : ~Carries(c, s)) => last[s] = n

\* The last number the phone has used of its session, whether send has
\* advanced the counter or not.
LastUsed ==
    IF encrypted # saved THEN 0 ELSE IF sends = {} THEN nextSeq - 1 ELSE nextSeq

OneSend(s) ==
    /\ \A x \in sends : x.msg.ses = s /\ x.msg.seq = nextSeq
    /\ \A x, y \in sends : x = y

\* The counters agree in a session that is active and was not disturbed.
SyncInv ==
    \A s \in Sessions \ disturbed : state[s] = "active" =>
        /\ Numbered(s)
        /\ s = saved => Reaches(s, LastUsed)
        /\ s = saved /\ encrypted = s => OneSend(s)

CounterInv == PhoneInv /\ DerivedInv /\ ConnInv /\ SyncInv /\ UndisturbedIsNeverRefused

LEMMA InitCounter == Init => CounterInv
<1>. SUFFICES ASSUME Init PROVE CounterInv
  OBVIOUS
<1>1. PhoneInv /\ DerivedInv /\ UndisturbedIsNeverRefused
  BY DEF Init, PhoneInv, DerivedInv, InTransit, UndisturbedIsNeverRefused
<1>2. ConnInv
  BY DEF Init, ConnInv
<1>3. SyncInv
  BY DEF Init, SyncInv
<1>. QED
  BY <1>1, <1>2, <1>3 DEF CounterInv

\* The first message of a connection is let through, or is the last one there
\* and lost, or what followed it is lost too.
LEMMA HeadGone ==
    ASSUME TypeOK, ConnInv, NEW c \in Conns, queue[c] # <<>>,
           NEW s \in Sessions, Numbered(s), NEW Q,
           queue' = [queue EXCEPT ![c] = Q],
           \/ Head1(c).ses # s /\ Q \in {Tail(queue[c]), <<>>}
           \/ Head1(c).ses = s /\ Q = Tail(queue[c]),
           last' \in [Sessions -> Nat],
           last'[s] = IF Head1(c).ses = s THEN last[s] + 1 ELSE last[s],
           NEW n \in Int
    PROVE  Numbered(s)' /\ (Reaches(s, n) => Reaches(s, n)')
<1>. DEFINE q == queue[c]
<1>1. /\ queue \in [Conns -> Seq(Messages)] /\ last[s] \in Nat /\ last'[s] \in Nat
      /\ q \in Seq(Messages) /\ Len(q) \in Nat \ {0} /\ DOMAIN q = 1..Len(q)
  <2>1. queue \in [Conns -> Seq(Messages)] /\ last[s] \in Nat /\ last'[s] \in Nat
    BY DEF TypeOK
  <2>2. q \in Seq(Messages) /\ q # <<>>
    BY <2>1
  <2>. HIDE DEF q
  <2>. QED
    BY <2>1, <2>2
<1>2. \A d \in Conns \ {c} : queue'[d] = queue[d]
  BY <1>1
<1>3. queue'[c] = Q
  BY <1>1
<1>4. \A i \in DOMAIN q : q[i].ses = Head1(c).ses
  <2>1. 1 \in DOMAIN q
    BY <1>1
  <2>. QED
    BY <2>1 DEF ConnInv, Head1
<1>5. /\ Tail(q) \in Seq(Messages) /\ Len(Tail(q)) = Len(q) - 1
      /\ DOMAIN Tail(q) = 1..(Len(q) - 1)
      /\ \A i \in 1..(Len(q) - 1) : Tail(q)[i] = q[i + 1]
  BY <1>1
<1>. HIDE DEF q
<1>6. CASE Head1(c).ses # s
  <2>1. Q \in {Tail(q), <<>>}
    BY <1>6 DEF q
  <2>2. \A i \in DOMAIN Q : Q[i].ses # s
    <3>1. CASE Q = <<>>
      BY <3>1
    <3>2. CASE Q = Tail(q)
      <4>1. TAKE i \in DOMAIN Q
      <4>2. i \in 1..(Len(q) - 1) /\ Q[i] = q[i + 1] /\ i + 1 \in 1..Len(q)
        BY <1>1, <1>5, <3>2
      <4>. QED
        BY <1>1, <1>4, <1>6, <4>2
    <3>. QED
      BY <2>1, <3>1, <3>2
  <2>3. \A i \in DOMAIN queue[c] : queue[c][i].ses # s
    BY <1>4, <1>6 DEF q
  <2>4. \A d \in Conns : Carries(d, s)' <=> Carries(d, s)
    BY <1>2, <1>3, <2>2, <2>3 DEF Carries
  <2>5. \A d \in Conns : Carries(d, s) => queue'[d] = queue[d]
    BY <1>2, <2>3 DEF Carries
  <2>6. last'[s] = last[s]
    BY <1>6
  <2>7. \A d \in Conns : \A i \in DOMAIN queue'[d] : queue'[d][i].ses = s =>
           queue'[d][i].seq = last'[s] + i
    <3>1. \A i \in DOMAIN queue'[c] : queue'[c][i].ses # s
      BY <1>3, <2>2
    <3>. QED
      BY <1>2, <2>6, <3>1 DEF Numbered
  <2>8. \A d, e \in Conns : Carries(d, s)' /\ Carries(e, s)' => d = e
    BY <2>4 DEF Numbered
  <2>9. Numbered(s)'
    BY <2>7, <2>8 DEF Numbered
  <2>10. ASSUME Reaches(s, n) PROVE Reaches(s, n)'
    <3>1. \A d \in Conns : Carries(d, s)' => last'[s] + Len(queue'[d]) = n
      BY <2>4, <2>5, <2>6, <2>10 DEF Reaches
    <3>2. (\A d \in Conns : ~ Carries(d, s)') => last'[s] = n
      BY <2>4, <2>6, <2>10 DEF Reaches
    <3>. QED
      BY <3>1, <3>2 DEF Reaches
  <2>. QED
    BY <2>9, <2>10
<1>7. CASE Head1(c).ses = s
  <2>1. Q = Tail(q) /\ last'[s] = last[s] + 1
    BY <1>7 DEF q
  <2>2. Carries(c, s)
    BY <1>1, <1>4, <1>7 DEF Carries, q
  <2>3. \A d \in Conns \ {c} : \A i \in DOMAIN queue[d] : queue[d][i].ses # s
    BY <2>2 DEF Numbered, Carries
  <2>4. \A d \in Conns \ {c} : ~ Carries(d, s)'
    BY <1>2, <2>3 DEF Carries
  <2>5. \A i \in DOMAIN Q : Q[i].seq = last'[s] + i /\ Q[i].ses = s
    <3>1. TAKE i \in DOMAIN Q
    <3>2. i \in 1..(Len(q) - 1) /\ Q[i] = q[i + 1] /\ i + 1 \in DOMAIN q
      BY <1>1, <1>5, <2>1
    <3>3. q[i + 1].ses = s
      BY <1>4, <1>7, <3>2
    <3>4. q[i + 1].seq = last[s] + (i + 1)
      BY <3>2, <3>3 DEF Numbered, q
    <3>5. i \in Int /\ last[s] \in Int
      BY <1>1, <3>2
    <3>6. \A k, l \in Int : k + (l + 1) = (k + 1) + l
      OBVIOUS
    <3>7. last[s] + (i + 1) = (last[s] + 1) + i
      BY <3>5, <3>6
    <3>. QED
      BY <2>1, <3>2, <3>3, <3>4, <3>7
  <2>6. Numbered(s)'
    <3>1. \A d \in Conns : \A i \in DOMAIN queue'[d] : queue'[d][i].ses = s =>
             queue'[d][i].seq = last'[s] + i
      BY <1>2, <1>3, <2>3, <2>5
    <3>. QED
      BY <2>4, <3>1 DEF Numbered
  <2>7. ASSUME Reaches(s, n) PROVE Reaches(s, n)'
    <3>1. last[s] + Len(q) = n
      BY <2>2, <2>7 DEF Reaches, q
    <3>2. last'[s] + Len(Q) = n
      BY <1>1, <1>5, <2>1, <3>1
    <3>3. \A d \in Conns : Carries(d, s)' => last'[s] + Len(queue'[d]) = n
      BY <1>3, <2>4, <3>2
    <3>4. ASSUME \A d \in Conns : ~ Carries(d, s)' PROVE last'[s] = n
      <4>1. DOMAIN Q = {}
        BY <1>3, <2>5, <3>4 DEF Carries
      <4>2. 1 \notin 1..(Len(q) - 1)
        BY <1>5, <2>1, <4>1
      <4>3. Len(q) - 1 = 0
        BY <1>1, <4>2
      <4>4. Len(Q) = 0
        BY <1>5, <2>1, <4>3
      <4>. QED
        BY <1>1, <3>2, <4>4
    <3>. QED
      BY <3>3, <3>4 DEF Reaches
  <2>. QED
    BY <2>6, <2>7
<1>. QED
  BY <1>6, <1>7

\* A message more at the end of a sequence.
LEMMA AppendIs ==
    ASSUME NEW S, NEW q \in Seq(S), NEW m \in S
    PROVE  /\ Append(q, m) # <<>>
           /\ Len(q) \in Nat /\ Len(Append(q, m)) = Len(q) + 1
           /\ DOMAIN q = 1..Len(q) /\ DOMAIN Append(q, m) = 1..(Len(q) + 1)
           /\ \A i \in 1..Len(q) : Append(q, m)[i] = q[i]
           /\ Append(q, m)[Len(q) + 1] = m
OBVIOUS

\* What the phone sends goes on from the last number it has used, on a
\* connection that has messages of its session only.
LEMMA SendCounter ==
    ASSUME TypeInv, CounterInv, saved \in Sessions,
           NEW t \in Tasks, NEW lk \in [Conns -> {"unused", "open", "closed"}],
           NEW c \in Conns \union {None}, NEW type \in Types,
           NEW strm \in Conns \union {None}, NEW n \in Nat,
           \A d \in Conns : lk[d] = "unused" => link[d] = "unused",
           c # None => machine[c] \in {None, saved},
           c # None => \A i \in DOMAIN queue[c] : queue[c][i].ses = saved,
           Send(t, lk, c, saved, FirstSeq, type, strm, n),
           encrypted' = saved, nextSeq' = FirstSeq, webSocket' = c
    PROVE  DerivedInv' /\ ConnInv' /\ SyncInv' /\ UndisturbedIsNeverRefused'
<1>. DEFINE m == [id |-> Cardinality(sent) + 1, ses |-> saved, seq |-> FirstSeq,
                  type |-> type, stream |-> strm, n |-> n]
<1>1. /\ TypeOK /\ PhoneInv /\ DerivedInv /\ ConnInv /\ SyncInv /\ UndisturbedIsNeverRefused
      /\ queue \in [Conns -> Seq(Messages)] /\ last \in [Sessions -> Nat]
      /\ nextSeq \in Nat \ {0} /\ link \in [Conns -> {"unused", "open", "closed"}]
  BY DEF TypeInv, TypeOK, CounterInv
<1>2. FirstSeq \in Nat \ {0}
  BY <1>1 DEF FirstSeq
<1>3. /\ Transmit(lk, c, m)
      /\ sends' = sends \union {[task |-> t, msg |-> m]}
      /\ sent' = sent \union {m}
      /\ UNCHANGED <<sessionVars, handlerVars, saved, refused>>
  BY DEF Send
<1>4. m \in Messages
  <2>1. Cardinality(sent) \in Nat
    BY FS_CardinalityType DEF TypeInv
  <2>. QED
    BY <1>2, <2>1 DEF Send, Messages
<1>5. m.ses = saved /\ m.seq = FirstSeq
  OBVIOUS
<1>. HIDE DEF m
<1>6. UNCHANGED <<state, last, seen, current, handler, machine>>
  BY <1>3 DEF sessionVars, handlerVars
<1>7. /\ \A d \in Conns : \/ queue'[d] = queue[d]
                          \/ /\ d = c /\ queue'[d] = Append(queue[d], m)
                             /\ link'[d] = "open"
      /\ \A d \in Conns : link'[d] = "unused" => link[d] = "unused"
      /\ disturbed \subseteq disturbed'
  <2>1. CASE /\ c # None /\ lk[c] = "open"
             /\ link' = lk
             /\ queue' = [queue EXCEPT ![c] = Append(@, m)]
             /\ disturbed \subseteq disturbed'
    BY <1>1, <2>1
  <2>2. CASE /\ link' = IF c # None /\ lk[c] = "open" THEN [lk EXCEPT ![c] = "closed"] ELSE lk
             /\ disturbed' = disturbed \union {m.ses}
             /\ UNCHANGED queue
    BY <1>1, <2>2
  <2>. QED
    BY <1>3, <2>1, <2>2 DEF Transmit
<1>8. UndisturbedIsNeverRefused'
  BY <1>1, <1>3, <1>7 DEF UndisturbedIsNeverRefused
<1>9. saved = current /\ state[saved] # "none"
  BY <1>1 DEF PhoneInv, DerivedInv
<1>10. ASSUME NEW d \in Conns
       PROVE  \A i \in DOMAIN queue'[d] :
                 \/ i \in DOMAIN queue[d] /\ queue'[d][i] = queue[d][i]
                 \/ d = c /\ queue'[d][i] = m
  <2>1. CASE queue'[d] = queue[d]
    BY <2>1
  <2>2. CASE d = c /\ queue'[d] = Append(queue[d], m)
    <3>1. queue[d] \in Seq(Messages)
      BY <1>1
    <3>2. \A i \in 1..(Len(queue[d]) + 1) : i \in 1..Len(queue[d]) \/ i = Len(queue[d]) + 1
      BY <3>1
    <3>. QED
      BY <1>4, <2>2, <3>1, <3>2, AppendIs
  <2>. QED
    BY <1>7, <2>1, <2>2
<1>11. DerivedInv'
  <2>1. \A x \in sent' : state'[x.ses] # "none"
    BY <1>1, <1>3, <1>5, <1>6, <1>9 DEF DerivedInv
  <2>2. \A d \in Conns : InTransit(d)' \subseteq sent'
    <3>1. ASSUME NEW d \in Conns, NEW i \in DOMAIN queue'[d] PROVE queue'[d][i] \in sent'
      BY <1>1, <1>3, <1>10, <3>1 DEF DerivedInv, InTransit
    <3>. QED
      BY <3>1 DEF InTransit
  <2>3. /\ current' # None => state'[current'] # "none"
        /\ encrypted' # None => state'[encrypted'] # "none"
        /\ sent' # {} => current' # None
    BY <1>6, <1>9
  <2>. QED
    BY <1>1, <1>6, <2>1, <2>2, <2>3 DEF DerivedInv
<1>12. ConnInv'
  <2>1. \A d \in Conns : link'[d] = "unused" => queue'[d] = <<>> /\ machine'[d] = None
    BY <1>1, <1>6, <1>7 DEF ConnInv
  <2>2. \A d \in Conns : handler'[d] \in {"stream", "key"} => machine'[d] # None
    BY <1>1, <1>6 DEF ConnInv
  <2>3. \A d \in Conns : \A i, j \in DOMAIN queue'[d] : queue'[d][i].ses = queue'[d][j].ses
    BY <1>1, <1>5, <1>10 DEF ConnInv
  <2>4. ASSUME NEW d \in Conns, machine'[d] # None, NEW i \in DOMAIN queue'[d]
        PROVE  queue'[d][i].ses \in {machine'[d]} \union (Sessions \ {current'})
    BY <1>1, <1>5, <1>6, <1>10, <2>4 DEF ConnInv
  <2>5. c # None => machine'[c] \in {None, saved} /\ \A i \in DOMAIN queue'[c] : queue'[c][i].ses = saved
    BY <1>5, <1>6, <1>10
  <2>6. saved' = saved
    BY <1>3
  <2>. QED
    BY <2>1, <2>2, <2>3, <2>4, <2>5, <2>6 DEF ConnInv
<1>13. SyncInv'
  <2>. SUFFICES ASSUME NEW s \in Sessions \ disturbed', state'[s] = "active"
                PROVE  /\ Numbered(s)'
                       /\ s = saved' => Reaches(s, LastUsed)'
                       /\ s = saved' /\ encrypted' = s => OneSend(s)'
    BY DEF SyncInv
  <2>1. /\ s \in Sessions \ disturbed /\ state[s] = "active" /\ saved' = saved
        /\ Numbered(s) /\ (s = saved => Reaches(s, LastUsed))
    BY <1>1, <1>3, <1>6, <1>7 DEF SyncInv
  <2>2. CASE s # saved
    <3>1. \A d \in Conns : \A i \in DOMAIN queue'[d] : queue'[d][i].ses = s =>
             i \in DOMAIN queue[d] /\ queue'[d][i] = queue[d][i]
      BY <1>5, <1>10, <2>2
    <3>2. \A d \in Conns : Carries(d, s)' => Carries(d, s)
      BY <3>1 DEF Carries
    <3>3. Numbered(s)'
      BY <1>6, <2>1, <3>1, <3>2 DEF Numbered
    <3>. QED
      BY <2>1, <2>2, <3>3
  <2>3. CASE s = saved
    <3>1. /\ c \in Conns /\ sends = {} /\ \A d \in Conns \ {c} : queue[d] = <<>>
          /\ queue' = [queue EXCEPT ![c] = Append(@, m)]
      BY <1>3, <1>5, <2>3 DEF Transmit
    <3>. DEFINE q == queue[c]
    <3>2. /\ q \in Seq(Messages) /\ last[s] \in Nat
          /\ queue'[c] = Append(q, m)
          /\ \A d \in Conns \ {c} : queue'[d] = <<>>
      BY <1>1, <3>1
    <3>3. /\ Len(q) \in Nat /\ DOMAIN q = 1..Len(q) /\ Append(q, m) # <<>>
          /\ Len(queue'[c]) = Len(q) + 1 /\ DOMAIN queue'[c] = 1..(Len(q) + 1)
          /\ \A i \in 1..Len(q) : queue'[c][i] = q[i]
          /\ queue'[c][Len(q) + 1] = m
      BY <1>4, <3>2, AppendIs
    <3>4. \A i \in DOMAIN q : q[i].ses = s
      BY <2>3, <3>1
    <3>. HIDE DEF q
    <3>5. LastUsed = FirstSeq - 1
      BY <1>1, <3>1 DEF LastUsed, FirstSeq
    <3>6. last[s] + Len(q) = LastUsed
      <4>1. CASE q = <<>>
        <5>1. \A d \in Conns : ~ Carries(d, s)
          BY <3>1, <4>1 DEF Carries, q
        <5>2. last[s] = LastUsed /\ Len(q) = 0
          BY <2>1, <2>3, <4>1, <5>1 DEF Reaches
        <5>. QED
          BY <3>2, <5>2
      <4>2. CASE q # <<>>
        <5>1. 1 \in DOMAIN q
          BY <3>2, <4>2
        <5>2. Carries(c, s)
          BY <3>4, <5>1 DEF Carries, q
        <5>. QED
          BY <2>1, <2>3, <3>1, <5>2 DEF Reaches, q
      <4>. QED
        BY <4>1, <4>2
    <3>7. last[s] + (Len(q) + 1) = FirstSeq
      BY <1>2, <3>2, <3>3, <3>5, <3>6
    <3>8. \A d \in Conns \ {c} : ~ Carries(d, s)'
      BY <3>2 DEF Carries
    <3>9. Carries(c, s)'
      <4>1. Len(q) + 1 \in DOMAIN queue'[c]
        BY <3>3
      <4>. QED
        BY <1>5, <2>3, <3>3, <4>1 DEF Carries
    <3>10. Numbered(s)'
      <4>1. ASSUME NEW i \in DOMAIN queue'[c] PROVE queue'[c][i].seq = last'[s] + i
        <5>1. CASE i = Len(q) + 1
          BY <1>5, <1>6, <3>3, <3>7, <5>1
        <5>2. CASE i \in 1..Len(q)
          <6>1. q[i].seq = last[s] + i
            BY <2>1, <3>1, <3>3, <3>4, <5>2 DEF Numbered, q
          <6>. QED
            BY <1>6, <3>3, <5>2, <6>1
        <5>. QED
          BY <3>3, <5>1, <5>2
      <4>2. \A d \in Conns \ {c} : DOMAIN queue'[d] = {}
        BY <3>2
      <4>. QED
        BY <3>8, <4>1, <4>2 DEF Numbered
    <3>11. LastUsed' = FirstSeq
      BY <1>3, <2>1 DEF LastUsed
    <3>12. Reaches(s, LastUsed)'
      BY <1>6, <3>1, <3>3, <3>7, <3>8, <3>9, <3>11 DEF Reaches
    <3>13. OneSend(s)'
      <4>1. sends' = {[task |-> t, msg |-> m]}
        BY <1>3, <3>1
      <4>. QED
        BY <1>5, <2>3, <4>1 DEF OneSend
    <3>. QED
      BY <3>10, <3>12, <3>13
  <2>. QED
    BY <2>2, <2>3
<1>. QED
  BY <1>8, <1>11, <1>12, <1>13

\* StartRecording, PressKey, SendFrame and StopRecording.
LEMMA SendsCounter ==
    ASSUME TypeInv, CounterInv,
           \/ SendFrame \/ StopRecording
           \/ \E c \in Conns : StartRecording(c) \/ PressKey(c)
    PROVE  CounterInv'
<1>1. /\ PhoneInv /\ ConnInv /\ saved \in Sessions \union {None}
      /\ streamSession \in Sessions \union {None} /\ nextSeq \in Nat \ {0}
      /\ webSocket \in Conns \union {None} /\ streamID \in Conns \union {None}
      /\ link \in [Conns -> {"unused", "open", "closed"}] /\ lastAudio \in Nat
  BY DEF TypeInv, TypeOK, CounterInv
<1>2. ASSUME NEW c \in Conns, StartRecording(c) \/ PressKey(c)
      PROVE  CounterInv'
  <2>1. saved \in Sessions /\ link[c] = "unused"
    BY <1>1, <1>2 DEF StartRecording, PressKey
  <2>2. Opened(c) \in [Conns -> {"unused", "open", "closed"}]
    BY <1>1 DEF Opened
  <2>3. \A d \in Conns : Opened(c)[d] = "unused" => link[d] = "unused"
    BY <1>1 DEF Opened
  <2>4. machine[c] \in {None, saved} /\ \A i \in DOMAIN queue[c] : queue[c][i].ses = saved
    BY <1>1, <2>1 DEF ConnInv
  <2>5. encrypted' = saved /\ nextSeq' = FirstSeq /\ webSocket' = c
    BY <1>2 DEF StartRecording, PressKey
  <2>6. CASE StartRecording(c)
    <3>1. Send("rec", Opened(c), c, saved, FirstSeq, "audio_start", c, 0)
      BY <2>6 DEF StartRecording
    <3>2. DerivedInv' /\ ConnInv' /\ SyncInv' /\ UndisturbedIsNeverRefused'
      BY <2>1, <2>2, <2>3, <2>4, <2>5, <3>1, SendCounter
    <3>3. PhoneInv'
      BY <1>1, <2>1, <2>6, <3>1 DEF StartRecording, Send, PhoneInv, sessionVars
    <3>. QED
      BY <3>2, <3>3 DEF CounterInv
  <2>7. CASE PressKey(c)
    <3>1. Send("key", Opened(c), c, saved, FirstSeq, "key_press", None, 0)
      BY <2>7 DEF PressKey
    <3>2. DerivedInv' /\ ConnInv' /\ SyncInv' /\ UndisturbedIsNeverRefused'
      BY <2>1, <2>2, <2>3, <2>4, <2>5, <3>1, SendCounter
    <3>3. PhoneInv'
      BY <1>1, <2>1, <2>7, <3>1 DEF PressKey, Send, PhoneInv, sessionVars
    <3>. QED
      BY <3>2, <3>3 DEF CounterInv
  <2>. QED
    BY <1>2, <2>6, <2>7
<1>3. ASSUME SendFrame \/ StopRecording
      PROVE  CounterInv'
  <2>1. rec # "idle" /\ streamSession # None
    BY <1>3 DEF SendFrame, StopRecording
  <2>2. /\ saved \in Sessions /\ encrypted = saved /\ streamSession = saved
        /\ FirstSeq = nextSeq
    BY <1>1, <2>1 DEF PhoneInv, FirstSeq
  <2>3. webSocket # None => /\ machine[webSocket] \in {None, saved}
                            /\ \A i \in DOMAIN queue[webSocket] : queue[webSocket][i].ses = saved
    BY <1>1, <2>1 DEF ConnInv
  <2>4. UNCHANGED <<encrypted, nextSeq, webSocket, streamSession>> /\ rec' # "idle"
    BY <1>3 DEF SendFrame, StopRecording, clientVars
  <2>5. CASE SendFrame
    <3>1. Send("rec", link, webSocket, saved, FirstSeq, "audio_frame",
               streamID, lastAudio + 1)
      BY <2>2, <2>5 DEF SendFrame
    <3>2. DerivedInv' /\ ConnInv' /\ SyncInv' /\ UndisturbedIsNeverRefused'
      <4>1. lastAudio + 1 \in Nat
        BY <1>1
      <4>. QED
        BY <1>1, <2>2, <2>3, <2>4, <3>1, <4>1, SendCounter
    <3>3. PhoneInv'
      BY <1>1, <2>1, <2>2, <2>4, <3>1 DEF Send, PhoneInv, sessionVars
    <3>. QED
      BY <3>2, <3>3 DEF CounterInv
  <2>6. CASE StopRecording
    <3>1. Send("rec", link, webSocket, saved, FirstSeq, "audio_stop",
               streamID, lastAudio)
      BY <2>2, <2>6 DEF StopRecording
    <3>2. DerivedInv' /\ ConnInv' /\ SyncInv' /\ UndisturbedIsNeverRefused'
      BY <1>1, <2>2, <2>3, <2>4, <3>1, SendCounter
    <3>3. PhoneInv'
      BY <1>1, <2>1, <2>2, <2>4, <3>1 DEF Send, PhoneInv, sessionVars
    <3>. QED
      BY <3>2, <3>3 DEF CounterInv
  <2>. QED
    BY <1>3, <2>5, <2>6
<1>. QED
  BY <1>2, <1>3

\* Sends that lose their recording are as many, of the same messages, and none
\* of them is the recorder's.
LEMMA OrphanedCounter ==
    ASSUME NEW S, S \subseteq [task : Tasks \union {"orphan"}, msg : Messages]
    PROVE  /\ \A y \in Orphaned(S) : y.task # "rec" /\ \E x \in S : y.msg = x.msg
           /\ (Orphaned(S) = {}) <=> (S = {})
           /\ (\A x, y \in S : x = y) => \A x, y \in Orphaned(S) : x = y
BY DEF Orphaned

\* A step of the phone other than a send leaves what is in transit alone, and
\* the last number used.
LEMMA PhoneCounter ==
    ASSUME CounterInv,
           UNCHANGED <<state, last, seen, current, queue, handler, machine, sent, refused>>,
           disturbed \subseteq disturbed',
           encrypted' \in {encrypted, None}, saved' \in {saved, None},
           \A c \in Conns : link'[c] = "unused" => link[c] = "unused",
           rec' # "idle" /\ webSocket' # None =>
                rec # "idle" /\ webSocket' = webSocket /\ saved' = saved,
           \A s \in Sessions \ disturbed' :
                s = saved' /\ (encrypted = s => OneSend(s)) =>
                    /\ LastUsed' = LastUsed
                    /\ encrypted' = s => encrypted = s /\ OneSend(s)'
    PROVE  DerivedInv' /\ ConnInv' /\ SyncInv' /\ UndisturbedIsNeverRefused'
<1>1. DerivedInv /\ ConnInv /\ SyncInv /\ UndisturbedIsNeverRefused
  BY DEF CounterInv
<1>2. DerivedInv'
  <2>1. \A c \in Conns : InTransit(c)' = InTransit(c)
    BY DEF InTransit
  <2>2. encrypted' # None => state'[encrypted'] # "none"
    BY <1>1 DEF DerivedInv
  <2>. QED
    BY <1>1, <2>1, <2>2 DEF DerivedInv
<1>3. ConnInv'
  BY <1>1 DEF ConnInv
<1>4. SyncInv'
  <2>. SUFFICES ASSUME NEW s \in Sessions \ disturbed', state'[s] = "active"
                PROVE  /\ Numbered(s)'
                       /\ s = saved' => Reaches(s, LastUsed)'
                       /\ s = saved' /\ encrypted' = s => OneSend(s)'
    BY DEF SyncInv
  <2>1. /\ Numbered(s)
        /\ s = saved => Reaches(s, LastUsed)
        /\ s = saved /\ encrypted = s => OneSend(s)
    BY <1>1 DEF SyncInv
  <2>2. \A c \in Conns : Carries(c, s)' <=> Carries(c, s)
    BY DEF Carries
  <2>3. Numbered(s)'
    BY <2>1, <2>2 DEF Numbered
  <2>4. CASE s = saved'
    <3>1. s = saved
      BY <2>4, ChannelAssumption
    <3>2. LastUsed' = LastUsed /\ (encrypted' = s => OneSend(s)')
      BY <2>1, <2>4, <3>1
    <3>3. Reaches(s, LastUsed)'
      BY <2>1, <2>2, <3>1, <3>2 DEF Reaches
    <3>. QED
      BY <2>3, <3>2, <3>3
  <2>. QED
    BY <2>3, <2>4
<1>5. UndisturbedIsNeverRefused'
  BY <1>1 DEF UndisturbedIsNeverRefused
<1>. QED
  BY <1>2, <1>3, <1>4, <1>5

\* The other actions of the phone.
LEMMA MovesCounter ==
    ASSUME TypeInv, CounterInv,
           \/ NoStream \/ LetGo \/ Disconnect
           \/ \E x \in sends : SendReturns(x) \/ SendThrows(x)
           \/ \E t \in Tasks : Receive(t)
    PROVE  CounterInv'
<1>1. /\ PhoneInv /\ saved \in Sessions \union {None}
      /\ sends \subseteq [task : Tasks \union {"orphan"}, msg : Messages]
      /\ nextSeq \in Nat \ {0} /\ webSocket \in Conns \union {None}
      /\ link \in [Conns -> {"unused", "open", "closed"}]
  BY DEF TypeInv, TypeOK, CounterInv
<1>2. ASSUME NEW S, S \subseteq sends
      PROVE  /\ \A y \in Orphaned(S) : y.task # "rec" /\ \E x \in S : y.msg = x.msg
             /\ (Orphaned(S) = {}) <=> (S = {})
             /\ (\A x, y \in S : x = y) => \A x, y \in Orphaned(S) : x = y
  BY <1>1, <1>2, OrphanedCounter
<1>3. ASSUME CloseCurrent
      PROVE  /\ webSocket' = None /\ streamSession' = None
             /\ \A c \in Conns : link'[c] = "unused" => link[c] = "unused"
  BY <1>1, <1>3 DEF CloseCurrent
<1>4. CASE NoStream \/ LetGo \/ Disconnect
  <2>1. /\ UNCHANGED <<state, last, seen, current, queue, handler, machine, sent,
                       refused, disturbed, encrypted, nextSeq>>
        /\ saved' \in {saved, None}
        /\ sends' \in {sends, Orphaned(sends)}
    BY <1>4 DEF NoStream, LetGo, Disconnect, sessionVars, connVars, handlerVars,
                clientVars, history
  <2>2. \A c \in Conns : link'[c] = "unused" => link[c] = "unused"
    BY <1>3, <1>4 DEF NoStream, LetGo, Disconnect, connVars
  <2>3. rec' # "idle" => LetGo
    BY <1>4 DEF NoStream, Disconnect
  <2>4. LetGo => rec # "idle" /\ UNCHANGED <<webSocket, streamSession, saved, sends>>
    BY DEF LetGo, clientVars
  <2>5. PhoneInv'
    <3>1. CASE LetGo
      <4>1. rec' # "idle" /\ UNCHANGED <<streamSession, saved, current, encrypted, sends>>
        BY <2>1, <2>4, <3>1 DEF LetGo
      <4>. QED
        BY <1>1, <2>4, <3>1, <4>1 DEF PhoneInv
    <3>2. CASE NoStream \/ Disconnect
      <4>1. rec' = "idle" /\ sends' = Orphaned(sends)
        BY <3>2 DEF NoStream, Disconnect
      <4>. QED
        BY <1>1, <1>2, <2>1, <4>1 DEF PhoneInv
    <3>. QED
      BY <1>4, <3>1, <3>2
  <2>6. \A s \in Sessions \ disturbed' :
            s = saved' /\ (encrypted = s => OneSend(s)) =>
                /\ LastUsed' = LastUsed
                /\ encrypted' = s => encrypted = s /\ OneSend(s)'
    <3>. SUFFICES ASSUME NEW s \in Sessions, s = saved', encrypted = s => OneSend(s)
                  PROVE  /\ LastUsed' = LastUsed
                         /\ encrypted' = s => encrypted = s /\ OneSend(s)'
      OBVIOUS
    <3>1. saved' = saved /\ (sends' = {} <=> sends = {})
      BY <1>2, <2>1
    <3>2. LastUsed' = LastUsed
      BY <2>1, <3>1 DEF LastUsed
    <3>3. OneSend(s) => OneSend(s)'
      BY <1>2, <2>1 DEF OneSend
    <3>. QED
      BY <2>1, <3>2, <3>3
  <2>7. rec' # "idle" /\ webSocket' # None =>
            rec # "idle" /\ webSocket' = webSocket /\ saved' = saved
    BY <2>3, <2>4
  <2>. QED
    BY <2>1, <2>2, <2>5, <2>6, <2>7, PhoneCounter DEF CounterInv
<1>5. ASSUME NEW x \in sends, SendReturns(x) PROVE CounterInv'
  <2>1. /\ UNCHANGED <<state, last, seen, current, queue, handler, machine, sent,
                       refused, disturbed, encrypted, saved, webSocket, streamSession, link>>
        /\ sends' = sends \ {x} /\ nextSeq' = x.msg.seq + 1
    BY <1>5 DEF SendReturns, sessionVars, connVars, handlerVars, Advanced
  <2>2. rec' = "idle" <=> rec = "idle"
    <3>1. rec = "idle" => x.task # "rec"
      BY <1>1 DEF PhoneInv
    <3>2. rec' = IF x.task = "rec" THEN Resumed(x.msg) ELSE rec
      BY <1>5 DEF SendReturns
    <3>3. rec # "idle" => Resumed(x.msg) # "idle"
      BY DEF Resumed
    <3>. QED
      BY <3>1, <3>2, <3>3
  <2>3. PhoneInv'
    BY <1>1, <2>1, <2>2 DEF PhoneInv
  <2>4. \A s \in Sessions \ disturbed' :
            s = saved' /\ (encrypted = s => OneSend(s)) =>
                /\ LastUsed' = LastUsed
                /\ encrypted' = s => encrypted = s /\ OneSend(s)'
    <3>. SUFFICES ASSUME NEW s \in Sessions, s = saved', encrypted = s => OneSend(s)
                  PROVE  /\ LastUsed' = LastUsed
                         /\ encrypted' = s => encrypted = s /\ OneSend(s)'
      OBVIOUS
    <3>1. CASE encrypted = s
      <4>1. x.msg.seq = nextSeq /\ sends' = {}
        BY <2>1, <3>1 DEF OneSend
      <4>2. nextSeq' - 1 = nextSeq
        BY <1>1, <2>1, <4>1
      <4>3. LastUsed' = LastUsed
        BY <2>1, <3>1, <4>1, <4>2 DEF LastUsed
      <4>. QED
        BY <3>1, <4>1, <4>3 DEF OneSend
    <3>2. CASE encrypted # s
      BY <2>1, <3>2 DEF LastUsed
    <3>. QED
      BY <3>1, <3>2
  <2>. QED
    BY <2>1, <2>2, <2>3, <2>4, PhoneCounter DEF CounterInv
<1>6. ASSUME NEW x \in sends, SendThrows(x) PROVE CounterInv'
  <2>1. /\ UNCHANGED <<state, last, seen, current, queue, handler, machine, sent,
                       refused, encrypted, saved, nextSeq>>
        /\ disturbed' = disturbed \union {x.msg.ses}
    BY <1>6 DEF SendThrows, sessionVars, handlerVars
  <2>2. /\ \A c \in Conns : link'[c] = "unused" => link[c] = "unused"
        /\ webSocket' \in {webSocket, None} /\ streamSession' \in {streamSession, None}
    BY <1>3, <1>6 DEF SendThrows
  <2>3. PICK r \in AfterError(x) :
            /\ rec' = r
            /\ sends' = IF r = "idle" THEN Orphaned(sends \ {x}) ELSE sends \ {x}
    BY <1>6 DEF SendThrows
  <2>4. rec' # "idle" => rec # "idle" /\ sends' \subseteq sends
    BY <2>3 DEF AfterError
  <2>5. rec' = "idle" => \A y \in sends' : y.task # "rec"
    BY <1>2, <2>3
  <2>6. PhoneInv'
    BY <1>1, <2>1, <2>2, <2>4, <2>5 DEF PhoneInv
  <2>7. \A s \in Sessions \ disturbed' :
            s = saved' /\ (encrypted = s => OneSend(s)) =>
                /\ LastUsed' = LastUsed
                /\ encrypted' = s => encrypted = s /\ OneSend(s)'
    <3>. SUFFICES ASSUME NEW s \in Sessions \ disturbed', s = saved', encrypted = s => OneSend(s)
                  PROVE  /\ LastUsed' = LastUsed
                         /\ encrypted' = s => encrypted = s /\ OneSend(s)'
      OBVIOUS
    <3>1. encrypted # s
      BY <2>1 DEF OneSend
    <3>. QED
      BY <2>1, <3>1 DEF LastUsed
  <2>. QED
    BY <2>1, <2>2, <2>4, <2>6, <2>7, PhoneCounter DEF CounterInv
<1>7. ASSUME NEW t \in Tasks, Receive(t) PROVE CounterInv'
  <2>1. /\ UNCHANGED <<state, last, seen, current, queue, handler, machine, sent,
                       refused, disturbed>>
        /\ CloseCurrent
        /\ sends' = IF t = "rec" THEN Orphaned(sends) ELSE sends
        /\ rec' = IF t = "rec" THEN "idle" ELSE rec
    BY <1>7 DEF Receive, sessionVars
  <2>2. \/ UNCHANGED <<saved, encrypted, nextSeq>>
        \/ t = "rec" /\ saved' = None /\ encrypted' = None
    BY <1>7 DEF Receive, Forgets
  <2>3. /\ \A c \in Conns : link'[c] = "unused" => link[c] = "unused"
        /\ webSocket' = None /\ streamSession' = None
    BY <1>3, <2>1
  <2>4. PhoneInv'
    <3>1. CASE t = "rec"
      BY <1>1, <1>2, <2>1, <2>2, <3>1 DEF PhoneInv
    <3>2. CASE t # "rec"
      BY <1>1, <2>1, <2>2, <2>3, <3>2 DEF PhoneInv
    <3>. QED
      BY <3>1, <3>2
  <2>5. \A s \in Sessions \ disturbed' :
            s = saved' /\ (encrypted = s => OneSend(s)) =>
                /\ LastUsed' = LastUsed
                /\ encrypted' = s => encrypted = s /\ OneSend(s)'
    <3>. SUFFICES ASSUME NEW s \in Sessions, s = saved', encrypted = s => OneSend(s)
                  PROVE  /\ LastUsed' = LastUsed
                         /\ encrypted' = s => encrypted = s /\ OneSend(s)'
      OBVIOUS
    <3>1. UNCHANGED <<saved, encrypted, nextSeq>>
      BY <2>2, ChannelAssumption
    <3>2. sends' = {} <=> sends = {}
      BY <1>2, <2>1
    <3>3. OneSend(s) => OneSend(s)'
      BY <1>2, <2>1, <3>1 DEF OneSend
    <3>. QED
      BY <3>1, <3>2, <3>3 DEF LastUsed
  <2>. QED
    BY <2>1, <2>2, <2>3, <2>4, <2>5, PhoneCounter DEF CounterInv
<1>. QED
  BY <1>4, <1>5, <1>6, <1>7

\* A new session has no numbers yet, on either side.
LEMMA ResumeCounter ==
    ASSUME TypeInv, CounterInv, NEW s \in Sessions, Resume(s)
    PROVE  CounterInv'
<1>1. /\ PhoneInv /\ DerivedInv /\ ConnInv /\ SyncInv /\ UndisturbedIsNeverRefused
      /\ state \in [Sessions -> {"none", "active", "expired"}]
      /\ last \in [Sessions -> Nat] /\ sent \subseteq Messages
      /\ queue \in [Conns -> Seq(Messages)]
  BY DEF TypeInv, TypeOK, CounterInv
<1>2. /\ saved = None /\ state[s] = "none" /\ current' = s /\ saved' \in {s, None}
      /\ state' = [state EXCEPT ![s] = "active"]
      /\ UNCHANGED <<last, seen, link, queue, handler, machine, encrypted, nextSeq,
                     webSocket, streamSession, rec, sends, sent, refused, disturbed>>
  BY DEF Resume, connVars, handlerVars, clientVars, taskVars, history
<1>3. PhoneInv'
  BY <1>1, <1>2 DEF PhoneInv
<1>4. \A c \in Conns : \A i \in DOMAIN queue[c] :
         queue[c][i].ses \in Sessions /\ queue[c][i].ses # s
  <2>1. TAKE c \in Conns
  <2>2. TAKE i \in DOMAIN queue[c]
  <2>3. queue[c][i] \in sent
    BY <1>1 DEF DerivedInv, InTransit
  <2>. QED
    BY <1>1, <1>2, <2>3 DEF DerivedInv, Messages
<1>5. DerivedInv'
  <2>1. \A x \in Sessions : state[x] # "none" => state'[x] # "none"
    BY <1>1, <1>2
  <2>2. state'[s] # "none"
    BY <1>1, <1>2
  <2>3. \A m \in sent : m.ses \in Sessions
    BY <1>1 DEF Messages
  <2>4. encrypted # None => encrypted \in Sessions
    BY DEF TypeInv, TypeOK
  <2>5. \A c \in Conns : InTransit(c)' = InTransit(c)
    BY <1>2 DEF InTransit
  <2>6. \A x \in Sessions : state'[x] = "none" => state[x] = "none"
    BY <1>1, <1>2
  <2>. QED
    BY <1>1, <1>2, <2>1, <2>2, <2>3, <2>4, <2>5, <2>6 DEF DerivedInv
<1>6. ConnInv'
  <2>1. rec' = "idle"
    BY <1>1, <1>2 DEF PhoneInv
  <2>. QED
    BY <1>1, <1>2, <1>4, <2>1 DEF ConnInv
<1>7. SyncInv'
  <2>. SUFFICES ASSUME NEW x \in Sessions \ disturbed', state'[x] = "active"
                PROVE  /\ Numbered(x)'
                       /\ x = saved' => Reaches(x, LastUsed)'
                       /\ x = saved' /\ encrypted' = x => OneSend(x)'
    BY DEF SyncInv
  <2>1. \A c \in Conns : Carries(c, x)' <=> Carries(c, x)
    BY <1>2 DEF Carries
  <2>2. CASE x = s
    <3>1. \A c \in Conns : ~ Carries(c, s)'
      BY <1>2, <1>4 DEF Carries
    <3>2. last'[s] = 0 /\ encrypted' # s
      BY <1>1, <1>2, ChannelAssumption DEF DerivedInv
    <3>3. Numbered(s)'
      BY <1>2, <1>4, <3>1 DEF Numbered
    <3>4. s = saved' => LastUsed' = 0
      BY <3>2 DEF LastUsed
    <3>5. s = saved' => Reaches(s, LastUsed)'
      BY <3>1, <3>2, <3>4 DEF Reaches
    <3>. QED
      BY <2>2, <3>2, <3>3, <3>5
  <2>3. CASE x # s
    <3>1. state[x] = "active" /\ x \in Sessions \ disturbed /\ x # saved'
      BY <1>1, <1>2, <2>3, ChannelAssumption
    <3>2. Numbered(x)
      BY <1>1, <3>1 DEF SyncInv
    <3>3. Numbered(x)'
      BY <1>2, <2>1, <3>2 DEF Numbered
    <3>. QED
      BY <3>1, <3>3
  <2>. QED
    BY <2>2, <2>3
<1>8. UndisturbedIsNeverRefused'
  BY <1>1, <1>2 DEF UndisturbedIsNeverRefused
<1>. QED
  BY <1>3, <1>5, <1>6, <1>7, <1>8 DEF CounterInv

\* A handler is done with the first message of its connection: it was let
\* through, or cannot matter to the session the phone has.
LEMMA HandlerCounter ==
    ASSUME TypeOK, CounterInv, NEW c \in Conns, queue[c] # <<>>,
           NEW Q \in {Tail(queue[c]), <<>>}, queue' = [queue EXCEPT ![c] = Q],
           UNCHANGED <<saved, current, encrypted, nextSeq, webSocket, streamSession,
                       rec, sends, sent>>,
           \A d \in Conns : link'[d] = "unused" => link[d] = "unused",
           \A d \in Conns : machine'[d] \in {machine[d], None},
           \A d \in Conns : handler'[d] \in {"stream", "key"} =>
                                handler[d] \in {"stream", "key"} /\ machine'[d] = machine[d],
           \A s \in Sessions : state'[s] = "none" => state[s] = "none",
           \A s \in Sessions : state'[s] = "active" => state[s] = "active",
           disturbed \subseteq disturbed',
           Tail(queue[c]) # <<>> /\ Q = <<>> => Head1(c).ses \in disturbed',
           \/ /\ state[Head1(c).ses] = "active"
              /\ last' = [last EXCEPT ![Head1(c).ses] = @ + 1]
              /\ seen' = [seen EXCEPT ![Head1(c).ses] = @ \union {last[Head1(c).ses] + 1}]
           \/ /\ UNCHANGED <<last, seen>> /\ Q = <<>>
              /\ \/ state'[Head1(c).ses] # "active" \/ Head1(c).ses # current
                 \/ Head1(c).ses \in disturbed'
    PROVE  PhoneInv' /\ DerivedInv' /\ ConnInv' /\ SyncInv'
<1>. DEFINE h == Head1(c).ses
<1>1. /\ PhoneInv /\ DerivedInv /\ ConnInv /\ SyncInv
      /\ last \in [Sessions -> Nat] /\ seen \in [Sessions -> SUBSET (Nat \ {0})]
      /\ queue \in [Conns -> Seq(Messages)]
  BY DEF TypeOK, CounterInv
<1>2. queue[c] \in Seq(Messages) /\ Head1(c) \in Messages /\ h \in Sessions
  <2>1. queue[c] \in Seq(Messages)
    BY <1>1
  <2>2. Head1(c) \in Messages
    BY <2>1 DEF Head1
  <2>. QED
    BY <2>1, <2>2 DEF Messages
<1>. HIDE DEF h
<1>3. \A d \in Conns : /\ d # c => queue'[d] = queue[d]
                       /\ d = c => queue'[d] = Q
  BY <1>1
<1>4. \A i \in DOMAIN Q : i \in Nat /\ i + 1 \in DOMAIN queue[c] /\ Q[i] = queue[c][i + 1]
  <2>1. CASE Q = <<>>
    BY <2>1
  <2>2. CASE Q = Tail(queue[c])
    BY <1>2, <2>2
  <2>. QED
    BY <2>1, <2>2
<1>5. PhoneInv'
  BY <1>1 DEF PhoneInv
<1>6. DerivedInv'
  <2>1. \A d \in Conns : InTransit(d)' \subseteq InTransit(d)
    BY <1>3, <1>4 DEF InTransit
  <2>2. ASSUME NEW s \in Sessions
        PROVE  /\ state'[s] = "none" => last'[s] = 0
               /\ seen'[s] \subseteq 1..last'[s]
    <3>1. /\ last[s] \in Nat /\ seen[s] \subseteq 1..last[s]
          /\ state[s] = "none" => last[s] = 0
          /\ state'[s] = "none" => state[s] = "none"
      BY <1>1 DEF DerivedInv
    <3>2. CASE UNCHANGED <<last, seen>>
      BY <3>1, <3>2
    <3>3. CASE /\ state[h] = "active"
               /\ last' = [last EXCEPT ![h] = @ + 1]
               /\ seen' = [seen EXCEPT ![h] = @ \union {last[h] + 1}]
      <4>1. CASE s = h
        <5>1. last'[s] = last[s] + 1 /\ seen'[s] = seen[s] \union {last[s] + 1}
          BY <1>1, <3>3, <4>1
        <5>2. 1..last[s] \subseteq 1..(last[s] + 1) /\ last[s] + 1 \in 1..(last[s] + 1)
          BY <3>1
        <5>. QED
          BY <3>1, <3>3, <4>1, <5>1, <5>2
      <4>2. CASE s # h
        <5>1. last'[s] = last[s] /\ seen'[s] = seen[s]
          BY <1>1, <3>3, <4>2
        <5>. QED
          BY <3>1, <5>1
      <4>. QED
        BY <4>1, <4>2
    <3>. QED
      BY <3>2, <3>3 DEF h
  <2>3. /\ current \in Sessions \union {None} /\ encrypted \in Sessions \union {None}
        /\ \A m \in sent : m.ses \in Sessions
    <3>1. sent \subseteq Messages
      BY DEF TypeOK
    <3>. QED
      BY <3>1 DEF TypeOK, Messages
  <2>4. /\ current' # None => state'[current'] # "none"
        /\ encrypted' # None => state'[encrypted'] # "none"
        /\ \A m \in sent' : state'[m.ses] # "none"
    BY <1>1, <2>3 DEF DerivedInv
  <2>5. /\ sent' # {} => current' # None
        /\ \A d \in Conns : InTransit(d)' \subseteq sent'
    BY <1>1, <2>1 DEF DerivedInv
  <2>. QED
    BY <2>2, <2>4, <2>5 DEF DerivedInv
<1>7. ConnInv'
  <2>1. \A d \in Conns : \A i \in DOMAIN queue'[d] :
           \E j \in DOMAIN queue[d] : queue'[d][i] = queue[d][j]
    BY <1>3, <1>4
  <2>2. \A d \in Conns : queue[d] = <<>> => queue'[d] = <<>>
    BY <1>3
  <2>3. \A d \in Conns : link'[d] = "unused" => queue'[d] = <<>> /\ machine'[d] = None
    BY <1>1, <2>2 DEF ConnInv
  <2>4. \A d \in Conns : handler'[d] \in {"stream", "key"} => machine'[d] # None
    BY <1>1 DEF ConnInv
  <2>5. \A d \in Conns : \A i, j \in DOMAIN queue'[d] : queue'[d][i].ses = queue'[d][j].ses
    BY <1>1, <2>1 DEF ConnInv
  <2>6. \A d \in Conns : machine'[d] # None =>
           \A i \in DOMAIN queue'[d] :
              queue'[d][i].ses \in {machine'[d]} \union (Sessions \ {current'})
    <3>1. TAKE d \in Conns
    <3>2. HAVE machine'[d] # None
    <3>3. TAKE i \in DOMAIN queue'[d]
    <3>4. PICK j \in DOMAIN queue[d] : queue'[d][i] = queue[d][j]
      BY <2>1
    <3>5. machine'[d] = machine[d] /\ current' = current
      BY <3>2
    <3>6. queue[d][j].ses \in {machine[d]} \union (Sessions \ {current})
      BY <1>1, <3>2, <3>5 DEF ConnInv
    <3>. QED
      BY <3>4, <3>5, <3>6
  <2>7. rec' # "idle" /\ webSocket' # None =>
           /\ machine'[webSocket'] \in {None, saved'}
           /\ \A i \in DOMAIN queue'[webSocket'] : queue'[webSocket'][i].ses = saved'
    <3>1. webSocket \in Conns \union {None}
      BY DEF TypeOK
    <3>. QED
      BY <1>1, <2>1, <3>1 DEF ConnInv
  <2>. QED
    BY <2>3, <2>4, <2>5, <2>6, <2>7 DEF ConnInv
<1>8. SyncInv'
  <2>. SUFFICES ASSUME NEW s \in Sessions \ disturbed', state'[s] = "active"
                PROVE  /\ Numbered(s)'
                       /\ s = saved' => Reaches(s, LastUsed)'
                       /\ s = saved' /\ encrypted' = s => OneSend(s)'
    BY DEF SyncInv
  <2>1. /\ s \in Sessions \ disturbed /\ state[s] = "active" /\ Numbered(s)
        /\ s = saved => Reaches(s, LastUsed)
        /\ s = saved /\ encrypted = s => OneSend(s)
    BY <1>1 DEF SyncInv
  <2>2. s = saved' /\ encrypted' = s => OneSend(s)'
    BY <2>1 DEF OneSend
  <2>3. LastUsed \in Int /\ LastUsed' = LastUsed
    <3>1. nextSeq \in Nat \ {0}
      BY DEF TypeOK
    <3>. QED
      BY <3>1 DEF LastUsed
  <2>4. h = s => Q = Tail(queue[c])
    BY DEF h
  <2>5. \/ h # s /\ Q \in {Tail(queue[c]), <<>>}
        \/ h = s /\ Q = Tail(queue[c])
    BY <2>4
  <2>6. CASE /\ last' = [last EXCEPT ![h] = @ + 1]
             /\ state[h] = "active"
    <3>1. /\ last' \in [Sessions -> Nat]
          /\ last'[s] = IF h = s THEN last[s] + 1 ELSE last[s]
      <4>1. last[h] + 1 \in Nat
        BY <1>1, <1>2
      <4>. QED
        BY <1>1, <1>2, <2>6, <4>1
    <3>2. Numbered(s)' /\ (Reaches(s, LastUsed) => \A n \in {LastUsed} : Reaches(s, n)')
      BY <1>1, <2>1, <2>3, <2>5, <3>1, HeadGone DEF h
    <3>. QED
      BY <2>1, <2>2, <2>3, <3>2 DEF Reaches
  <2>7. CASE UNCHANGED last /\ h # s
    <3>1. /\ last' \in [Sessions -> Nat]
          /\ last'[s] = IF h = s THEN last[s] + 1 ELSE last[s]
      BY <1>1, <2>7
    <3>2. Numbered(s)' /\ (Reaches(s, LastUsed) => \A n \in {LastUsed} : Reaches(s, n)')
      BY <1>1, <2>1, <2>3, <2>5, <3>1, HeadGone DEF h
    <3>. QED
      BY <2>1, <2>2, <2>3, <3>2 DEF Reaches
  <2>8. CASE UNCHANGED last /\ Q = <<>> /\ h = s /\ h # current
    <3>1. s # saved
      BY <1>1, <2>8, ChannelAssumption DEF PhoneInv
    <3>2. Carries(c, s)
      <4>1. 1 \in DOMAIN queue[c]
        BY <1>2
      <4>. QED
        BY <2>8, <4>1 DEF Carries, h, Head1
    <3>3. \A d \in Conns \ {c} : ~ Carries(d, s) /\ ~ Carries(d, s)'
      BY <1>3, <2>1, <3>2 DEF Numbered, Carries
    <3>4. ~ Carries(c, s)'
      BY <1>3, <2>8 DEF Carries
    <3>5. Numbered(s)'
      BY <3>3, <3>4 DEF Numbered, Carries
    <3>. QED
      BY <3>1, <3>5
  <2>. QED
    BY <2>6, <2>7, <2>8 DEF h
<1>. QED
  BY <1>5, <1>6, <1>7, <1>8

\* The end of a handler: of two messages or more, it disturbs their session.
LEMMA OverCounter ==
    ASSUME TypeOK, ConnInv, NEW c \in Conns, NEW a, Over(c, a), link[c] # "unused"
    PROVE  /\ <<>> \in {Tail(queue[c]), <<>>} /\ queue' = [queue EXCEPT ![c] = <<>>]
           /\ \A d \in Conns : link'[d] = "unused" => link[d] = "unused"
           /\ \A d \in Conns : machine'[d] \in {machine[d], None}
           /\ \A d \in Conns : handler'[d] \in {"stream", "key"} =>
                                   handler[d] \in {"stream", "key"} /\ machine'[d] = machine[d]
           /\ disturbed \subseteq disturbed'
           /\ queue[c] # <<>> /\ Tail(queue[c]) # <<>> => Head1(c).ses \in disturbed'
<1>1. /\ queue' = [queue EXCEPT ![c] = <<>>]
      /\ \A d \in Conns : link'[d] = "unused" => link[d] = "unused"
  BY DEF Over, TypeOK
<1>2. /\ \A d \in Conns : machine'[d] \in {machine[d], None}
      /\ \A d \in Conns : handler'[d] \in {"stream", "key"} =>
                              handler[d] \in {"stream", "key"} /\ machine'[d] = machine[d]
  BY DEF Over, TypeOK
<1>3. /\ disturbed \subseteq disturbed'
      /\ \A i \in 2..Len(queue[c]) : queue[c][i].ses \in disturbed'
  BY DEF Over
<1>4. ASSUME queue[c] # <<>>, Tail(queue[c]) # <<>>
      PROVE  Head1(c).ses \in disturbed'
  <2>1. queue[c] \in Seq(Messages)
    BY DEF TypeOK
  <2>2. Len(queue[c]) \in Nat /\ Len(queue[c]) >= 2 /\ DOMAIN queue[c] = 1..Len(queue[c])
    BY <1>4, <2>1
  <2>3. 1 \in DOMAIN queue[c] /\ 2 \in DOMAIN queue[c] /\ 2 \in 2..Len(queue[c])
    BY <2>2
  <2>4. queue[c][1].ses = queue[c][2].ses
    BY <2>3 DEF ConnInv
  <2>. QED
    BY <1>3, <2>3, <2>4 DEF Head1
<1>. QED
  BY <1>1, <1>2, <1>3, <1>4

\* Whatever has been sent on a connection has made it one.
LEMMA QueueIsUsed ==
    ASSUME TypeOK, ConnInv, DerivedInv, NEW c \in Conns, queue[c] # <<>>
    PROVE  /\ link[c] # "unused" /\ current # None
           /\ queue[c] \in Seq(Messages) /\ Len(queue[c]) \in Nat \ {0}
           /\ 1 \in DOMAIN queue[c]
           /\ Head1(c) \in Messages /\ Head1(c).ses \in Sessions /\ Head1(c).seq \in Nat
<1>1. queue[c] \in Seq(Messages)
  BY DEF TypeOK
<1>2. 1 \in DOMAIN queue[c] /\ Head1(c) \in Messages /\ Len(queue[c]) \in Nat \ {0}
  BY <1>1 DEF Head1
<1>3. queue[c][1] \in sent
  BY <1>2 DEF DerivedInv, InTransit
<1>4. current # None
  BY <1>3 DEF DerivedInv
<1>5. link[c] # "unused"
  BY DEF ConnInv
<1>. QED
  BY <1>1, <1>2, <1>4, <1>5 DEF Messages

\* A message that is let through.
LEMMA DecryptsCounter ==
    ASSUME TypeInv, CounterInv, NEW c \in Conns,
           \/ HandlerFails(c) \/ HandleKeyPress(c) \/ HandleStart(c)
           \/ HandleFrame(c) \/ HandleStop(c)
    PROVE  CounterInv'
<1>1. /\ TypeOK /\ DerivedInv /\ ConnInv /\ UndisturbedIsNeverRefused
      /\ seen \in [Sessions -> SUBSET (Nat \ {0})]
  BY DEF TypeInv, TypeOK, CounterInv
<1>2. PICK type : Decrypts(c, type)
  BY DEF HandlerFails, HandleKeyPress, HandleStart, HandleFrame, HandleStop
<1>3. /\ queue[c] # <<>> /\ machine[c] = Head1(c).ses
      /\ Head1(c).seq = last[Head1(c).ses] + 1
      /\ last' = [last EXCEPT ![Head1(c).ses] = last[Head1(c).ses] + 1]
      /\ seen' = [seen EXCEPT ![Head1(c).ses] = @ \union {last[Head1(c).ses] + 1}]
  BY <1>1, <1>2, DecryptsNext
<1>4. state[Head1(c).ses] = "active"
  BY <1>2, <1>3 DEF Decrypts, Verdict
<1>5. link[c] # "unused"
  BY <1>1, <1>3, QueueIsUsed
<1>6. UNCHANGED <<state, saved, current, encrypted, nextSeq, webSocket, streamSession,
                  rec, sends, sent, refused>>
  BY DEF HandlerFails, HandleKeyPress, HandleStart, HandleFrame, HandleStop,
         clientVars, taskVars
<1>7. CASE Over(c, "error") \/ Over(c, "ok")
  <2>1. PICK a : Over(c, a)
    BY <1>7
  <2>2. /\ <<>> \in {Tail(queue[c]), <<>>} /\ queue' = [queue EXCEPT ![c] = <<>>]
        /\ \A d \in Conns : link'[d] = "unused" => link[d] = "unused"
        /\ \A d \in Conns : machine'[d] \in {machine[d], None}
        /\ \A d \in Conns : handler'[d] \in {"stream", "key"} =>
                                handler[d] \in {"stream", "key"} /\ machine'[d] = machine[d]
        /\ disturbed \subseteq disturbed'
        /\ queue[c] # <<>> /\ Tail(queue[c]) # <<>> => Head1(c).ses \in disturbed'
    BY <1>1, <1>5, <2>1, OverCounter
  <2>3. PhoneInv' /\ DerivedInv' /\ ConnInv' /\ SyncInv'
    BY <1>1, <1>3, <1>4, <1>6, <2>2, HandlerCounter
  <2>4. UndisturbedIsNeverRefused'
    BY <1>1, <1>6, <2>2 DEF UndisturbedIsNeverRefused
  <2>. QED
    BY <2>3, <2>4 DEF CounterInv
<1>8. CASE HandleStart(c) \/ HandleFrame(c)
  <2>1. /\ queue' = [queue EXCEPT ![c] = Tail(queue[c])]
        /\ UNCHANGED <<link, machine, handler, disturbed>>
    BY <1>8 DEF HandleStart, HandleFrame
  <2>2. /\ Tail(queue[c]) \in {Tail(queue[c]), <<>>}
        /\ Tail(queue[c]) # <<>> /\ Tail(queue[c]) = <<>> => Head1(c).ses \in disturbed'
    OBVIOUS
  <2>3. PhoneInv' /\ DerivedInv' /\ ConnInv' /\ SyncInv'
    BY <1>1, <1>3, <1>4, <1>6, <2>1, <2>2, HandlerCounter
  <2>4. UndisturbedIsNeverRefused'
    BY <1>1, <1>6, <2>1 DEF UndisturbedIsNeverRefused
  <2>. QED
    BY <2>3, <2>4 DEF CounterInv
<1>. QED
  BY <1>7, <1>8 DEF HandlerFails, HandleKeyPress, HandleStop

\* A message that is not: no number of an undisturbed session is refused, and
\* an error is of a session that is over, or not the phone's.
LEMMA DecryptFailsCounter ==
    ASSUME TypeInv, CounterInv, NEW c \in Conns, DecryptFails(c)
    PROVE  CounterInv'
<1>1. /\ TypeOK /\ DerivedInv /\ ConnInv /\ SyncInv /\ UndisturbedIsNeverRefused
      /\ state \in [Sessions -> {"none", "active", "expired"}]
      /\ last \in [Sessions -> Nat]
      /\ handler[c] \in {"stream", "key"} /\ queue[c] # <<>>
  BY DEF TypeInv, TypeOK, CounterInv, DecryptFails
<1>2. /\ UNCHANGED <<last, seen, saved, current, encrypted, nextSeq, webSocket,
                     streamSession, rec, sends, sent>>
      /\ \E expired \in BOOLEAN :
            LET v == Verdict(machine[c], Head1(c), expired)
            IN  /\ v # "ok"
                /\ Expires(machine[c], expired)
                /\ Over(c, v)
                /\ refused' = IF v = "refused" THEN refused \union {machine[c]} ELSE refused
  BY DEF DecryptFails, Fatal, clientVars, taskVars
<1>3. PICK expired \in BOOLEAN :
            LET v == Verdict(machine[c], Head1(c), expired)
            IN  /\ v # "ok"
                /\ Expires(machine[c], expired)
                /\ Over(c, v)
                /\ refused' = IF v = "refused" THEN refused \union {machine[c]} ELSE refused
  BY <1>2
<1>. DEFINE v == Verdict(machine[c], Head1(c), expired)
            h == Head1(c).ses
<1>4. /\ link[c] # "unused" /\ 1 \in DOMAIN queue[c]
      /\ h \in Sessions /\ Head1(c).seq \in Nat /\ machine[c] # None
  BY <1>1, QueueIsUsed DEF ConnInv
<1>5. machine[c] \in Sessions
  BY <1>1, <1>4 DEF TypeOK
<1>6. Over(c, v)
  BY <1>3
<1>. HIDE DEF v
<1>7. /\ <<>> \in {Tail(queue[c]), <<>>} /\ queue' = [queue EXCEPT ![c] = <<>>]
      /\ \A d \in Conns : link'[d] = "unused" => link[d] = "unused"
      /\ \A d \in Conns : machine'[d] \in {machine[d], None}
      /\ \A d \in Conns : handler'[d] \in {"stream", "key"} =>
                              handler[d] \in {"stream", "key"} /\ machine'[d] = machine[d]
      /\ disturbed \subseteq disturbed'
      /\ queue[c] # <<>> /\ Tail(queue[c]) # <<>> => Head1(c).ses \in disturbed'
  BY <1>1, <1>4, <1>6, OverCounter
<1>8. CASE v = "refused"
  <2>1. /\ ~ expired /\ state[machine[c]] = "active" /\ h = machine[c]
        /\ Head1(c).seq \in seen[h] \/ Head1(c).seq # last[h] + 1
    BY <1>8 DEF v, Verdict
  <2>2. h \in disturbed
    <3>1. SUFFICES ASSUME h \notin disturbed PROVE FALSE
      OBVIOUS
    <3>2. Head1(c).seq = last[h] + 1
      BY <1>1, <1>4, <2>1, <3>1 DEF SyncInv, Numbered, Head1
    <3>3. seen[h] \subseteq 1..last[h] /\ last[h] \in Nat
      BY <1>1, <1>4 DEF DerivedInv
    <3>. QED
      BY <2>1, <3>2, <3>3
  <2>3. /\ UNCHANGED state
        /\ refused' = refused \union {h}
    BY <1>3, <1>8, <2>1 DEF Expires, v
  <2>4. h \in disturbed'
    BY <1>7, <2>2
  <2>5. PhoneInv' /\ DerivedInv' /\ ConnInv' /\ SyncInv'
    BY <1>1, <1>2, <1>7, <2>3, <2>4, HandlerCounter
  <2>6. UndisturbedIsNeverRefused'
    BY <1>1, <1>7, <2>3, <2>4 DEF UndisturbedIsNeverRefused
  <2>. QED
    BY <2>5, <2>6 DEF CounterInv
<1>9. CASE v # "refused"
  <2>1. v # "ok" /\ refused' = refused /\ Expires(machine[c], expired)
    BY <1>3, <1>9 DEF v
  <2>2. expired \/ state[machine[c]] # "active" \/ h # machine[c]
    BY <1>9, <2>1 DEF v, Verdict
  <2>3. \A s \in Sessions : state'[s] = "active" => state[s] = "active"
    BY <1>1, <2>1 DEF Expires
  <2>4. \A s \in Sessions : state'[s] = "none" => state[s] = "none"
    BY <1>1, <2>1 DEF Expires
  <2>5. state'[h] # "active" \/ h # current
    <3>1. CASE h # machine[c]
      BY <1>1, <1>4, <3>1 DEF ConnInv, Head1
    <3>2. CASE h = machine[c]
      BY <1>1, <1>4, <2>1, <2>2, <3>2 DEF Expires
    <3>. QED
      BY <3>1, <3>2
  <2>6. PhoneInv' /\ DerivedInv' /\ ConnInv' /\ SyncInv'
    BY <1>1, <1>2, <1>7, <2>3, <2>4, <2>5, HandlerCounter
  <2>7. UndisturbedIsNeverRefused'
    BY <1>1, <1>7, <2>1 DEF UndisturbedIsNeverRefused
  <2>. QED
    BY <2>6, <2>7 DEF CounterInv
<1>. QED
  BY <1>8, <1>9

\* A handler takes the phone's session, or ends with nothing in transit.
LEMMA BindsCounter ==
    ASSUME TypeInv, CounterInv, NEW c \in Conns, BindSession(c) \/ ReadFails(c)
    PROVE  CounterInv'
<1>1. /\ TypeOK /\ PhoneInv /\ DerivedInv /\ ConnInv /\ SyncInv /\ UndisturbedIsNeverRefused
      /\ queue \in [Conns -> Seq(Messages)]
  BY DEF TypeInv, TypeOK, CounterInv
<1>2. UNCHANGED <<state, last, seen, current, saved, encrypted, nextSeq, webSocket,
                  streamSession, rec, sends, sent, refused>>
  BY DEF BindSession, ReadFails, sessionVars, clientVars, taskVars, history
<1>3. /\ queue' = queue /\ disturbed' = disturbed
      /\ \A d \in Conns : link'[d] = "unused" => link[d] = "unused" /\ machine'[d] = machine[d]
  <2>1. CASE BindSession(c)
    <3>1. link[c] # "unused"
      BY <1>1, <2>1, QueueIsUsed DEF BindSession
    <3>. QED
      BY <2>1, <3>1 DEF BindSession, connVars, history, TypeInv, TypeOK
  <2>2. CASE ReadFails(c)
    <3>1. queue[c] = <<>> /\ link[c] # "unused" /\ Over(c, "error")
      BY <2>2 DEF ReadFails
    <3>2. queue' = queue
      <4>1. queue' = [queue EXCEPT ![c] = <<>>]
        BY <3>1 DEF Over
      <4>. QED
        BY <1>1, <3>1, <4>1
    <3>3. disturbed' = disturbed
      <4>1. 2..Len(queue[c]) = {}
        BY <3>1
      <4>2. disturbed' = disturbed \union {queue[c][i].ses : i \in 2..Len(queue[c])}
        BY <3>1 DEF Over
      <4>. QED
        BY <4>1, <4>2
    <3>4. \A d \in Conns : link'[d] = "unused" => link[d] = "unused" /\ machine'[d] = machine[d]
      BY <3>1 DEF Over, TypeInv, TypeOK
    <3>. QED
      BY <3>2, <3>3, <3>4
  <2>. QED
    BY <2>1, <2>2
<1>4. PhoneInv'
  BY <1>1, <1>2 DEF PhoneInv
<1>5. DerivedInv'
  BY <1>1, <1>2, <1>3 DEF DerivedInv, InTransit
<1>6. \A d \in Conns : \A i \in DOMAIN queue[d] : queue[d][i].ses \in Sessions
  <2>1. \A d \in Conns : \A i \in DOMAIN queue[d] : queue[d][i] \in Messages
    BY <1>1
  <2>. QED
    BY <2>1 DEF Messages
<1>7. \A d \in Conns : \/ machine'[d] = machine[d]
                       \/ machine'[d] = current /\ current # None
                       \/ machine'[d] = None
  <2>1. CASE BindSession(c)
    <3>1. current # None
      BY <1>1, <2>1, QueueIsUsed DEF BindSession
    <3>. QED
      BY <2>1, <3>1 DEF BindSession, TypeInv, TypeOK
  <2>2. CASE ReadFails(c)
    BY <2>2 DEF ReadFails, Over, TypeInv, TypeOK
  <2>. QED
    BY <2>1, <2>2
<1>8. \A d \in Conns : handler'[d] \in {"stream", "key"} => machine'[d] # None
  <2>1. CASE BindSession(c)
    <3>1. current # None
      BY <1>1, <2>1, QueueIsUsed DEF BindSession
    <3>2. \A d \in Conns : /\ d # c => handler'[d] = handler[d] /\ machine'[d] = machine[d]
                           /\ d = c => machine'[d] = current
      BY <2>1 DEF BindSession, TypeInv, TypeOK
    <3>. QED
      BY <1>1, <3>1, <3>2 DEF ConnInv
  <2>2. CASE ReadFails(c)
    <3>1. \A d \in Conns : /\ d # c => handler'[d] = handler[d] /\ machine'[d] = machine[d]
                           /\ d = c => handler'[d] = "over"
      BY <2>2 DEF ReadFails, Over, TypeInv, TypeOK
    <3>. QED
      BY <1>1, <3>1 DEF ConnInv
  <2>. QED
    BY <2>1, <2>2
<1>9. ConnInv'
  <2>1. ASSUME NEW d \in Conns, machine'[d] # None, NEW i \in DOMAIN queue[d]
        PROVE  queue[d][i].ses \in {machine'[d]} \union (Sessions \ {current})
    BY <1>1, <1>6, <1>7, <2>1 DEF ConnInv
  <2>2. rec # "idle" /\ webSocket # None =>
           /\ machine'[webSocket] \in {None, saved}
           /\ \A i \in DOMAIN queue[webSocket] : queue[webSocket][i].ses = saved
    <3>1. webSocket \in Conns \union {None} /\ (rec # "idle" => saved = current)
      BY <1>1 DEF TypeOK, PhoneInv
    <3>. QED
      BY <1>1, <1>7, <3>1 DEF ConnInv
  <2>3. \A d \in Conns : link'[d] = "unused" => queue[d] = <<>> /\ machine'[d] = None
    BY <1>1, <1>3 DEF ConnInv
  <2>. QED
    BY <1>1, <1>2, <1>3, <1>8, <2>1, <2>2, <2>3 DEF ConnInv
<1>10. SyncInv' /\ UndisturbedIsNeverRefused'
  BY <1>1, <1>2, <1>3
     DEF SyncInv, Numbered, Carries, Reaches, LastUsed, OneSend, UndisturbedIsNeverRefused
<1>. QED
  BY <1>4, <1>5, <1>9, <1>10 DEF CounterInv

LEMMA NextCounter == IInv /\ CounterInv /\ [Next]_vars => CounterInv'
<1>. SUFFICES ASSUME IInv, CounterInv, [Next]_vars PROVE CounterInv'
  OBVIOUS
<1>1. TypeInv
  BY DEF IInv
<1>2. CASE UNCHANGED vars
  <2>1. UNCHANGED <<state, last, seen, current, link, queue, handler, machine, saved,
                    encrypted, nextSeq, webSocket, streamSession, rec, sends, sent,
                    refused, disturbed>>
    BY <1>2 DEF vars, sessionVars, connVars, handlerVars, clientVars, taskVars, history
  <2>2. PhoneInv' /\ DerivedInv' /\ ConnInv'
    BY <2>1 DEF CounterInv, PhoneInv, DerivedInv, InTransit, ConnInv
  <2>3. SyncInv' /\ UndisturbedIsNeverRefused'
    BY <2>1 DEF CounterInv, SyncInv, Numbered, Carries, Reaches, LastUsed, OneSend,
                UndisturbedIsNeverRefused
  <2>. QED
    BY <2>2, <2>3 DEF CounterInv
<1>3. CASE \/ SendFrame \/ StopRecording
           \/ \E c \in Conns : StartRecording(c) \/ PressKey(c)
  BY <1>1, <1>3, SendsCounter
<1>4. CASE \/ NoStream \/ LetGo \/ Disconnect
           \/ \E x \in sends : SendReturns(x) \/ SendThrows(x)
           \/ \E t \in Tasks : Receive(t)
  BY <1>1, <1>4, MovesCounter
<1>5. ASSUME NEW s \in Sessions, Resume(s) PROVE CounterInv'
  BY <1>1, <1>5, ResumeCounter
<1>6. ASSUME NEW c \in Conns,
             \/ HandlerFails(c) \/ HandleKeyPress(c) \/ HandleStart(c)
             \/ HandleFrame(c) \/ HandleStop(c)
      PROVE  CounterInv'
  BY <1>1, <1>6, DecryptsCounter
<1>7. ASSUME NEW c \in Conns, DecryptFails(c) PROVE CounterInv'
  BY <1>1, <1>7, DecryptFailsCounter
<1>8. ASSUME NEW c \in Conns, BindSession(c) \/ ReadFails(c) PROVE CounterInv'
  BY <1>1, <1>8, BindsCounter
<1>. QED
  BY <1>2, <1>3, <1>4, <1>5, <1>6, <1>7, <1>8 DEF Next

\* The two counters, in every state (send, Decrypt).
THEOREM CounterInvariant == Spec => []CounterInv
BY InitCounter, NextCounter, Invariant, PTL DEF Spec

\* As long as the sends of a session follow each other and none is lost, the
\* phone's counter (SecureAudioStreamClient.send) and the Mac's (StateMachine)
\* agree, over any number of connections: no number is refused.
THEOREM UndisturbedIsNeverRefusedHolds == Spec => []UndisturbedIsNeverRefused
<1>1. CounterInv => UndisturbedIsNeverRefused
  BY DEF CounterInv
<1>. QED
  BY <1>1, CounterInvariant, PTL

-----------------------------------------------------------------------------
(* The frames of a recording.                                              *)

IsFrame(m, c) == m.type = "audio_frame" /\ m.stream = c
IsStop(m, c) == m.type = "audio_stop" /\ m.stream = c

\* A recording is named by the connection it has opened.  Once its stop is sent,
\* no frame of it is.
StopInv ==
    /\ streamID # None => link[streamID] # "unused"
    /\ \A m \in sent : m.stream # None => link[m.stream] # "unused"
    /\ streamID # None => \A m \in sent :
          IsStop(m, streamID) => rec \in {"stopping", "waiting", "idle"}

\* The recorder counts frames that were sent.
CountedInv ==
    /\ \A x \in sends : x.msg \in sent
    /\ \A f \in okFrames : \E m \in sent : IsFrame(m, f[1]) /\ m.n = f[2]

\* On its connection a recording is started by its own start, and its frames
\* precede its stop.
OrderInv == \A c \in Conns :
    /\ stream[c] \in {None, c}
    /\ \A i \in DOMAIN queue[c] : queue[c][i].type = "audio_start" => queue[c][i].stream = c
    /\ \A i, j \in DOMAIN queue[c] : IsStop(queue[c][i], c) /\ IsFrame(queue[c][j], c) => j < i

\* The stop of a recording cannot reach the handler of its connection: it has
\* not been sent there, and the connection is not the current one any more.
Cut(c) ==
    /\ webSocket # c \/ link[c] # "open"
    /\ \A i \in DOMAIN queue[c] : ~ IsStop(queue[c][i], c)

\* A frame has been handled, is in transit, or no stop will find it missing.
FramesInv == \A c \in Conns, m \in sent : IsFrame(m, c) =>
    m.n <= frames[c] \/ m \in InTransit(c) \/ handler[c] = "over" \/ Cut(c)

FinishedInv == \A c \in finished :
    /\ handler[c] = "over"
    /\ \E m \in sent : IsStop(m, c)
    /\ \A m \in sent : IsFrame(m, c) => m.n <= frames[c]

RecordingInv == StopInv /\ CountedInv /\ OrderInv /\ FramesInv /\ FinishedInv

LEMMA InitRecording == Init => RecordingInv
BY DEF Init, RecordingInv, StopInv, CountedInv, OrderInv, FramesInv, FinishedInv

\* A send is on the current connection, or makes a new one the current one.
LEMMA SendRecording ==
    ASSUME TypeInv, DerivedInv, RecordingInv,
           NEW t \in Tasks, NEW lk \in [Conns -> {"unused", "open", "closed"}],
           NEW c \in Conns \union {None}, NEW ses \in Sessions,
           NEW seq \in Nat \ {0}, NEW type \in Types,
           NEW strm \in Conns \union {None}, NEW n \in Nat,
           Send(t, lk, c, ses, seq, type, strm, n), webSocket' = c,
           \/ c \in Conns /\ link[c] = "unused" /\ lk = Opened(c)
           \/ c = webSocket /\ lk = link,
           strm # None => lk[strm] # "unused",
           type = "audio_start" => strm = c,
           type = "audio_frame" => /\ strm = streamID
                                   /\ rec \notin {"stopping", "waiting", "idle"}
                                   /\ c = webSocket /\ lk = link
    PROVE  /\ CountedInv' /\ OrderInv' /\ FramesInv' /\ FinishedInv'
           /\ \A m \in sent' : m.stream # None => link'[m.stream] # "unused"
           /\ \A d \in Conns : lk[d] # "unused" => link'[d] # "unused"
           /\ \A x \in sent' : x.type = "audio_stop" => type = "audio_stop" \/ x \in sent
<1>. DEFINE m == [id |-> Cardinality(sent) + 1, ses |-> ses, seq |-> seq,
                  type |-> type, stream |-> strm, n |-> n]
<1>1. /\ StopInv /\ CountedInv /\ OrderInv /\ FramesInv /\ FinishedInv
      /\ queue \in [Conns -> Seq(Messages)] /\ sent \subseteq Messages
      /\ link \in [Conns -> {"unused", "open", "closed"}]
  BY DEF TypeInv, TypeOK, RecordingInv
<1>2. /\ Transmit(lk, c, m)
      /\ sends' = sends \union {[task |-> t, msg |-> m]}
      /\ sent' = sent \union {m}
      /\ UNCHANGED <<handlerVars, okFrames, finished>>
  BY DEF Send
<1>3. m \in Messages
  <2>1. Cardinality(sent) \in Nat
    BY FS_CardinalityType DEF TypeInv
  <2>. QED
    BY <2>1 DEF Send, Messages
<1>4. m.type = type /\ m.stream = strm /\ m.n = n
  OBVIOUS
<1>. HIDE DEF m
<1>5. UNCHANGED <<handler, stream, frames>>
  BY <1>2 DEF handlerVars
<1>6. \A d \in Conns : InTransit(d) \subseteq sent
  BY DEF DerivedInv
<1>7. /\ \A d \in Conns \ {c} : link'[d] = lk[d] /\ queue'[d] = queue[d]
      /\ \/ /\ c \in Conns /\ lk[c] = "open" /\ link'[c] = "open"
            /\ queue'[c] = Append(queue[c], m)
         \/ /\ queue' = queue
            /\ c \in Conns => link'[c] # "open" /\ (lk[c] # "unused" => link'[c] # "unused")
  <2>1. CASE /\ c # None /\ lk[c] = "open"
             /\ link' = lk
             /\ queue' = [queue EXCEPT ![c] = Append(@, m)]
    BY <1>1, <2>1
  <2>2. CASE /\ link' = IF c # None /\ lk[c] = "open" THEN [lk EXCEPT ![c] = "closed"] ELSE lk
             /\ UNCHANGED queue
    BY <1>1, <2>2
  <2>. QED
    BY <1>2, <2>1, <2>2 DEF Transmit
<1>8. ASSUME NEW d \in Conns
      PROVE  \A i \in DOMAIN queue'[d] :
                 \/ i \in DOMAIN queue[d] /\ queue'[d][i] = queue[d][i]
                 \/ d = c /\ queue'[d][i] = m /\ \A j \in DOMAIN queue[d] : j < i
  <2>1. CASE queue'[d] = queue[d]
    BY <2>1
  <2>2. CASE d = c /\ queue'[d] = Append(queue[d], m)
    <3>1. queue[d] \in Seq(Messages)
      BY <1>1
    <3>2. \A i \in 1..(Len(queue[d]) + 1) : i \in 1..Len(queue[d]) \/ i = Len(queue[d]) + 1
      BY <3>1
    <3>3. \A j \in 1..Len(queue[d]) : j < Len(queue[d]) + 1
      BY <3>1
    <3>. QED
      BY <1>3, <2>2, <3>1, <3>2, <3>3, AppendIs
  <2>. QED
    BY <1>7, <2>1, <2>2
<1>9. \A d \in Conns : InTransit(d) \subseteq InTransit(d)'
  <2>1. TAKE d \in Conns
  <2>2. CASE queue'[d] = queue[d]
    BY <2>2 DEF InTransit
  <2>3. CASE d = c /\ queue'[d] = Append(queue[d], m)
    <3>1. \A i \in DOMAIN queue[d] : i \in DOMAIN queue'[d] /\ queue'[d][i] = queue[d][i]
      BY <1>1, <1>3, <2>3, AppendIs
    <3>. QED
      BY <3>1 DEF InTransit
  <2>. QED
    BY <1>7, <2>2, <2>3
<1>10. ASSUME type = "audio_frame", NEW x \in sent
       PROVE  ~ IsStop(x, strm)
  <2>1. strm = streamID /\ rec \notin {"stopping", "waiting", "idle"}
    BY <1>10
  <2>2. streamID # None
    BY <2>1 DEF TypeInv, StreamInv
  <2>. QED
    BY <1>1, <2>1, <2>2 DEF StopInv
<1>11. \A d \in Conns : lk[d] # "unused" => link'[d] # "unused"
  BY <1>1, <1>7
<1>12. \A d \in Conns : link[d] # "unused" => lk[d] # "unused"
  BY <1>1 DEF Opened
<1>13. CountedInv'
  BY <1>1, <1>2 DEF CountedInv
<1>14. OrderInv'
  <2>. SUFFICES ASSUME NEW d \in Conns
                PROVE  /\ stream'[d] \in {None, d}
                       /\ \A i \in DOMAIN queue'[d] :
                             queue'[d][i].type = "audio_start" => queue'[d][i].stream = d
                       /\ \A i, j \in DOMAIN queue'[d] :
                             IsStop(queue'[d][i], d) /\ IsFrame(queue'[d][j], d) => j < i
    BY DEF OrderInv, IsStop, IsFrame
  <2>1. stream'[d] \in {None, d}
    BY <1>1, <1>5 DEF OrderInv
  <2>2. \A i \in DOMAIN queue'[d] :
           queue'[d][i].type = "audio_start" => queue'[d][i].stream = d
    BY <1>1, <1>4, <1>8 DEF OrderInv
  <2>3. ASSUME NEW i \in DOMAIN queue'[d], NEW j \in DOMAIN queue'[d],
               IsStop(queue'[d][i], d), IsFrame(queue'[d][j], d)
        PROVE  j < i
    <3>1. CASE j \in DOMAIN queue[d] /\ queue'[d][j] = queue[d][j]
      BY <1>1, <1>8, <2>3, <3>1 DEF OrderInv
    <3>2. CASE d = c /\ queue'[d][j] = m
      <4>1. type = "audio_frame" /\ strm = d
        BY <1>4, <2>3, <3>2 DEF IsFrame
      <4>2. i \in DOMAIN queue[d] /\ queue'[d][i] = queue[d][i]
        BY <1>4, <1>8, <2>3, <4>1 DEF IsStop
      <4>3. queue'[d][i] \in sent
        BY <1>6, <4>2 DEF InTransit
      <4>. QED
        BY <1>10, <2>3, <4>1, <4>3
    <3>. QED
      BY <1>8, <3>1, <3>2
  <2>. QED
    BY <2>1, <2>2, <2>3
<1>15. FramesInv'
  <2>. SUFFICES ASSUME NEW d \in Conns, NEW x \in sent', IsFrame(x, d),
                       ~ (x.n <= frames'[d]), x \notin InTransit(d)', handler'[d] # "over"
                PROVE  Cut(d)'
    BY DEF FramesInv, IsFrame
  <2>1. CASE x = m
    <3>1. type = "audio_frame" /\ strm = d /\ c = webSocket /\ lk = link
      BY <1>4, <2>1 DEF IsFrame
    <3>2. webSocket' # d \/ link'[d] # "open"
      <4>1. CASE c = d /\ queue'[c] = Append(queue[c], m)
        <5>1. queue[c] \in Seq(Messages)
          BY <1>1, <4>1
        <5>2. Len(queue[c]) + 1 \in DOMAIN queue'[c] /\ queue'[c][Len(queue[c]) + 1] = m
          BY <1>3, <4>1, <5>1, AppendIs
        <5>. QED
          BY <2>1, <4>1, <5>2 DEF InTransit
      <4>2. CASE c = d /\ link'[c] # "open"
        BY <4>2
      <4>3. CASE c # d
        BY <4>3
      <4>. QED
        BY <1>7, <4>1, <4>2, <4>3
    <3>3. \A i \in DOMAIN queue'[d] : ~ IsStop(queue'[d][i], d)
      <4>1. TAKE i \in DOMAIN queue'[d]
      <4>2. CASE queue'[d][i] = m
        BY <1>4, <3>1, <4>2 DEF IsStop
      <4>3. CASE i \in DOMAIN queue[d] /\ queue'[d][i] = queue[d][i]
        BY <1>6, <1>10, <3>1, <4>3 DEF InTransit
      <4>. QED
        BY <1>8, <4>2, <4>3
    <3>. QED
      BY <3>2, <3>3 DEF Cut, IsStop
  <2>2. CASE x \in sent
    <3>1. Cut(d)
      BY <1>1, <1>5, <1>9, <2>2 DEF FramesInv
    <3>2. link[d] # "unused"
      BY <1>1, <2>2, ChannelAssumption DEF StopInv, IsFrame
    <3>3. CASE d # c
      BY <1>7, <3>1, <3>3 DEF Cut, IsStop
    <3>4. CASE d = c
      <4>1. c = webSocket /\ lk = link /\ link[c] # "open"
        BY <3>1, <3>2, <3>4 DEF Cut
      <4>2. queue' = queue /\ link'[c] # "open"
        BY <1>7, <3>4, <4>1
      <4>. QED
        BY <3>1, <3>4, <4>2 DEF Cut, IsStop
    <3>. QED
      BY <3>3, <3>4
  <2>. QED
    BY <1>2, <2>1, <2>2
<1>16. FinishedInv'
  <2>. SUFFICES ASSUME NEW d \in finished
                PROVE  /\ handler'[d] = "over"
                       /\ \E x \in sent' : IsStop(x, d)
                       /\ \A x \in sent' : IsFrame(x, d) => x.n <= frames'[d]
    BY <1>2 DEF FinishedInv, IsStop, IsFrame
  <2>1. /\ handler[d] = "over"
        /\ \E x \in sent : IsStop(x, d)
        /\ \A x \in sent : IsFrame(x, d) => x.n <= frames[d]
    BY <1>1 DEF FinishedInv
  <2>2. ~ IsFrame(m, d)
    BY <1>4, <1>10, <2>1 DEF IsFrame
  <2>. QED
    BY <1>2, <1>5, <2>1, <2>2
<1>17. \A x \in sent' : x.stream # None => link'[x.stream] # "unused"
  <2>1. \A x \in sent' : x.stream \in Conns \union {None}
    BY <1>1, <1>2, <1>3 DEF Messages
  <2>2. \A x \in sent' : x.stream # None => lk[x.stream] # "unused"
    BY <1>1, <1>2, <1>4, <1>12, <2>1 DEF StopInv
  <2>. QED
    BY <1>11, <2>1, <2>2
<1>18. \A x \in sent' : (x.type = "audio_stop" => type = "audio_stop" \/ x \in sent)
  BY <1>2, <1>4
<1>. QED
  BY <1>11, <1>13, <1>14, <1>15, <1>16, <1>17, <1>18

\* StartRecording, PressKey, SendFrame and StopRecording.
LEMMA SendsRecording ==
    ASSUME TypeInv, PhoneInv, DerivedInv, RecordingInv,
           \/ SendFrame \/ StopRecording
           \/ \E c \in Conns : StartRecording(c) \/ PressKey(c)
    PROVE  RecordingInv'
<1>1. /\ StopInv /\ saved \in Sessions \union {None}
      /\ streamSession \in Sessions \union {None} /\ nextSeq \in Nat \ {0}
      /\ webSocket \in Conns \union {None} /\ streamID \in Conns \union {None}
      /\ link \in [Conns -> {"unused", "open", "closed"}] /\ lastAudio \in Nat
      /\ sent \subseteq Messages
  BY DEF TypeInv, TypeOK, RecordingInv
<1>2. FirstSeq \in Nat \ {0}
  BY <1>1 DEF FirstSeq
<1>3. ASSUME NEW c \in Conns, StartRecording(c)
      PROVE  RecordingInv'
  <2>1. /\ saved \in Sessions /\ link[c] = "unused"
        /\ Send("rec", Opened(c), c, saved, FirstSeq, "audio_start", c, 0)
        /\ webSocket' = c /\ streamID' = c
    BY <1>1, <1>3 DEF StartRecording
  <2>2. Opened(c) \in [Conns -> {"unused", "open", "closed"}] /\ Opened(c)[c] # "unused"
    BY <1>1 DEF Opened
  <2>3. /\ CountedInv' /\ OrderInv' /\ FramesInv' /\ FinishedInv'
        /\ \A m \in sent' : m.stream # None => link'[m.stream] # "unused"
        /\ \A d \in Conns : Opened(c)[d] # "unused" => link'[d] # "unused"
        /\ \A x \in sent' : x.type = "audio_stop" => x \in sent
    BY <1>2, <2>1, <2>2, SendRecording
  <2>4. \A x \in sent : ~ IsStop(x, c)
    BY <1>1, <2>1, ChannelAssumption DEF StopInv, IsStop
  <2>5. StopInv'
    BY <2>1, <2>2, <2>3, <2>4 DEF StopInv, IsStop
  <2>. QED
    BY <2>3, <2>5 DEF RecordingInv
<1>4. ASSUME NEW c \in Conns, PressKey(c)
      PROVE  RecordingInv'
  <2>1. /\ saved \in Sessions /\ link[c] = "unused"
        /\ Send("key", Opened(c), c, saved, FirstSeq, "key_press", None, 0)
        /\ webSocket' = c /\ UNCHANGED <<streamID, rec>>
    BY <1>1, <1>4 DEF PressKey
  <2>2. Opened(c) \in [Conns -> {"unused", "open", "closed"}]
    BY <1>1 DEF Opened
  <2>3. /\ CountedInv' /\ OrderInv' /\ FramesInv' /\ FinishedInv'
        /\ \A m \in sent' : m.stream # None => link'[m.stream] # "unused"
        /\ \A d \in Conns : Opened(c)[d] # "unused" => link'[d] # "unused"
        /\ \A x \in sent' : x.type = "audio_stop" => x \in sent
    BY <1>2, <2>1, <2>2, SendRecording
  <2>4. streamID # None => Opened(c)[streamID] # "unused"
    BY <1>1 DEF StopInv, Opened
  <2>5. StopInv'
    BY <1>1, <2>1, <2>3, <2>4 DEF StopInv, IsStop
  <2>. QED
    BY <2>3, <2>5 DEF RecordingInv
<1>5. ASSUME SendFrame \/ StopRecording
      PROVE  /\ streamSession \in Sessions /\ streamID \in Conns
             /\ UNCHANGED <<webSocket, streamID>> /\ link[streamID] # "unused"
  <2>1. rec # "idle" /\ streamSession # None
    BY <1>5 DEF SendFrame, StopRecording
  <2>2. streamID # None
    BY <2>1 DEF TypeInv, StreamInv
  <2>. QED
    BY <1>1, <1>5, <2>1, <2>2 DEF SendFrame, StopRecording, clientVars, StopInv
<1>6. CASE SendFrame
  <2>1. Send("rec", link, webSocket, streamSession, nextSeq, "audio_frame",
             streamID, lastAudio + 1)
    BY <1>6 DEF SendFrame
  <2>2. rec = "recording" /\ rec' = "sending" /\ lastAudio + 1 \in Nat
    BY <1>1, <1>6 DEF SendFrame
  <2>3. /\ CountedInv' /\ OrderInv' /\ FramesInv' /\ FinishedInv'
        /\ \A m \in sent' : m.stream # None => link'[m.stream] # "unused"
        /\ \A d \in Conns : link[d] # "unused" => link'[d] # "unused"
        /\ \A x \in sent' : x.type = "audio_stop" => x \in sent
    BY <1>1, <1>5, <1>6, <2>1, <2>2, SendRecording
  <2>4. StopInv'
    BY <1>1, <1>5, <1>6, <2>2, <2>3, ChannelAssumption DEF StopInv, IsStop
  <2>. QED
    BY <2>3, <2>4 DEF RecordingInv
<1>7. CASE StopRecording
  <2>1. Send("rec", link, webSocket, streamSession, nextSeq, "audio_stop",
             streamID, lastAudio)
    BY <1>7 DEF StopRecording
  <2>2. rec' = "stopping"
    BY <1>7 DEF StopRecording
  <2>3. /\ CountedInv' /\ OrderInv' /\ FramesInv' /\ FinishedInv'
        /\ \A m \in sent' : m.stream # None => link'[m.stream] # "unused"
        /\ \A d \in Conns : link[d] # "unused" => link'[d] # "unused"
    BY <1>1, <1>5, <1>7, <2>1, SendRecording
  <2>4. StopInv'
    BY <1>1, <1>5, <1>7, <2>2, <2>3, ChannelAssumption DEF StopInv, IsStop
  <2>. QED
    BY <2>3, <2>4 DEF RecordingInv
<1>. QED
  BY <1>3, <1>4, <1>6, <1>7

\* The other actions of the phone leave the current connection or none, and a
\* recording whose stop is sent does not go on.
LEMMA MovesRecording ==
    ASSUME TypeInv, RecordingInv,
           \/ \E s \in Sessions : Resume(s)
           \/ NoStream \/ LetGo \/ Disconnect
           \/ \E x \in sends : SendReturns(x) \/ SendThrows(x)
           \/ \E t \in Tasks : Receive(t)
    PROVE  RecordingInv'
<1>1. /\ StopInv /\ CountedInv /\ OrderInv /\ FramesInv /\ FinishedInv
      /\ webSocket \in Conns \union {None} /\ streamID \in Conns \union {None}
      /\ link \in [Conns -> {"unused", "open", "closed"}] /\ sent \subseteq Messages
      /\ sends \subseteq [task : Tasks \union {"orphan"}, msg : Messages]
  BY DEF TypeInv, TypeOK, RecordingInv
<1>2. ASSUME CloseCurrent
      PROVE  /\ webSocket' = None
             /\ \A c \in Conns : /\ link'[c] = "unused" <=> link[c] = "unused"
                                 /\ link'[c] = "open" => link[c] = "open"
  BY <1>1, <1>2 DEF CloseCurrent
<1>3. UNCHANGED <<sent, streamID, queue, handler, stream, frames, finished>>
  BY DEF Resume, NoStream, LetGo, Disconnect, SendReturns, SendThrows, Receive,
         sessionVars, connVars, handlerVars, clientVars, taskVars, history
<1>4. /\ webSocket' \in {webSocket, None}
      /\ \A c \in Conns : /\ link'[c] = "unused" <=> link[c] = "unused"
                          /\ link'[c] = "open" => link[c] = "open"
  <2>1. CloseCurrent \/ UNCHANGED <<link, webSocket>>
    BY DEF Resume, NoStream, LetGo, Disconnect, SendReturns, SendThrows, Receive,
           connVars, clientVars
  <2>. QED
    BY <1>2, <2>1
<1>5. ASSUME NEW S, S \subseteq sends, NEW y \in Orphaned(S)
      PROVE  \E x \in S : y.msg = x.msg
  BY <1>1, <1>5, OrphanedTyped
<1>6. \A y \in sends' : \E x \in sends : y.msg = x.msg
  <2>1. \/ sends' \subseteq sends
        \/ \E S : S \subseteq sends /\ sends' = Orphaned(S)
    BY DEF Resume, NoStream, LetGo, Disconnect, SendReturns, SendThrows, Receive,
           taskVars
  <2>. QED
    BY <1>5, <2>1
<1>7. rec' \in {"stopping", "waiting", "idle"} \/ rec \notin {"stopping", "waiting", "idle"}
  <2>1. CASE \/ \E s \in Sessions : Resume(s)
             \/ NoStream \/ LetGo \/ Disconnect
             \/ \E t \in Tasks : Receive(t)
    BY <2>1 DEF Resume, NoStream, LetGo, Disconnect, Receive, taskVars
  <2>2. ASSUME NEW x \in sends, SendReturns(x)
        PROVE  rec' = rec \/ rec' = "waiting" \/ rec \notin {"stopping", "waiting", "idle"}
    BY <2>2 DEF SendReturns, Resumed
  <2>3. ASSUME NEW x \in sends, SendThrows(x)
        PROVE  rec' = rec \/ rec' = "idle" \/ rec \notin {"stopping", "waiting", "idle"}
    BY <2>3 DEF SendThrows, AfterError
  <2>. QED
    BY <2>1, <2>2, <2>3
<1>8. StopInv'
  <2>1. \A m \in sent : m.stream \in Conns \union {None}
    BY <1>1 DEF Messages
  <2>. QED
    BY <1>1, <1>3, <1>4, <1>7, <2>1 DEF StopInv, IsStop
<1>9. CountedInv'
  <2>1. \A f \in okFrames' : f \in okFrames \/ \E m \in sent : IsFrame(m, f[1]) /\ m.n = f[2]
    <3>1. CASE UNCHANGED okFrames
      BY <3>1
    <3>2. ASSUME NEW x \in sends, x.msg.type = "audio_frame",
                 okFrames' = okFrames \union {<<x.msg.stream, x.msg.n>>}
          PROVE  \A f \in okFrames' : f \in okFrames \/ \E m \in sent : IsFrame(m, f[1]) /\ m.n = f[2]
      <4>1. x.msg \in sent /\ IsFrame(x.msg, x.msg.stream)
        BY <1>1, <3>2 DEF CountedInv, IsFrame
      <4>. QED
        BY <3>2, <4>1
    <3>3. UNCHANGED okFrames \/ \E x \in sends : /\ x.msg.type = "audio_frame"
             /\ okFrames' = okFrames \union {<<x.msg.stream, x.msg.n>>}
      BY DEF Resume, NoStream, LetGo, Disconnect, SendReturns, SendThrows, Receive, history
    <3>. QED
      BY <3>1, <3>2, <3>3
  <2>. QED
    BY <1>1, <1>3, <1>6, <2>1 DEF CountedInv, IsFrame
<1>10. OrderInv' /\ FinishedInv'
  BY <1>1, <1>3 DEF OrderInv, FinishedInv, IsStop, IsFrame
<1>11. FramesInv'
  <2>1. \A c \in Conns : Cut(c) => Cut(c)'
    BY <1>3, <1>4, ChannelAssumption DEF Cut, IsStop
  <2>2. \A c \in Conns : InTransit(c)' = InTransit(c)
    BY <1>3 DEF InTransit
  <2>. QED
    BY <1>1, <1>3, <2>1, <2>2 DEF FramesInv, IsFrame
<1>. QED
  BY <1>8, <1>9, <1>10, <1>11 DEF RecordingInv

\* A handler reads its own connection from the front; only the stop that it
\* finds there finishes the recording.
LEMMA HandlerRecording ==
    ASSUME TypeInv, RecordingInv, NEW c \in Conns,
           UNCHANGED <<sent, sends, okFrames, streamID, webSocket, rec>>,
           \A d \in Conns : /\ link'[d] = "unused" => link[d] = "unused"
                            /\ link'[d] = "open" => link[d] = "open",
           \A d \in Conns \ {c} : queue'[d] = queue[d],
           \/ queue'[c] \in {queue[c], <<>>}
           \/ queue[c] # <<>> /\ queue'[c] = Tail(queue[c]),
           \A d \in Conns : handler[d] = "over" => handler'[d] = "over",
           \A d \in Conns : stream'[d] \in {stream[d], None, d},
           frames' \in [Conns -> Nat],
           \A d \in Conns : frames[d] <= frames'[d],
           \/ handler'[c] = "over" \/ queue'[c] = queue[c]
           \/ /\ queue[c] # <<>> /\ queue'[c] = Tail(queue[c])
              /\ IsFrame(Head1(c), c) => Head1(c).n <= frames'[c],
           \/ finished' = finished
           \/ /\ finished' = finished \union {c}
              /\ handler[c] # "over" /\ handler'[c] = "over"
              /\ queue[c] # <<>> /\ Head1(c) \in sent /\ IsStop(Head1(c), c)
    PROVE  RecordingInv'
<1>1. /\ StopInv /\ CountedInv /\ OrderInv /\ FramesInv /\ FinishedInv
      /\ queue \in [Conns -> Seq(Messages)] /\ frames \in [Conns -> Nat]
      /\ webSocket \in Conns \union {None} /\ streamID \in Conns \union {None}
      /\ sent \subseteq Messages /\ finished \subseteq Conns
  BY DEF TypeInv, TypeOK, RecordingInv
<1>2. \A m \in sent : m.stream \in Conns \union {None} /\ m.n \in Nat
  BY <1>1 DEF Messages
<1>3. \A m \in sent, d \in Conns : m.n <= frames[d] => m.n <= frames'[d]
  <2>1. \A k \in Nat : \A d \in Conns : k <= frames[d] => k <= frames'[d]
    BY <1>1
  <2>. QED
    BY <1>2, <2>1
<1>4. queue[c] \in Seq(Messages) /\ Len(queue[c]) \in Nat /\ DOMAIN queue[c] = 1..Len(queue[c])
  BY <1>1
<1>5. ASSUME queue[c] # <<>>
      PROVE  /\ 1 \in DOMAIN queue[c]
             /\ DOMAIN Tail(queue[c]) = 1..(Len(queue[c]) - 1)
             /\ \A i \in 1..(Len(queue[c]) - 1) : /\ i + 1 \in DOMAIN queue[c]
                                                  /\ Tail(queue[c])[i] = queue[c][i + 1]
  BY <1>4, <1>5
<1>6. \A d \in Conns :
         \/ \A i \in DOMAIN queue'[d] : i \in DOMAIN queue[d] /\ queue'[d][i] = queue[d][i]
         \/ \A i \in DOMAIN queue'[d] : /\ i \in Nat /\ i + 1 \in DOMAIN queue[d]
                                        /\ queue'[d][i] = queue[d][i + 1]
  <2>. TAKE d \in Conns
  <2>1. CASE d # c \/ queue'[c] = queue[c]
    BY <2>1
  <2>2. CASE d = c /\ queue'[c] = <<>>
    BY <2>2
  <2>3. CASE d = c /\ queue[c] # <<>> /\ queue'[c] = Tail(queue[c])
    <3>1. \A i \in 1..(Len(queue[c]) - 1) : i \in Nat
      BY <1>4
    <3>. QED
      BY <1>5, <2>3, <3>1
  <2>. QED
    BY <2>1, <2>2, <2>3
<1>7. \A d \in Conns : \A i \in DOMAIN queue'[d] :
         \E j \in DOMAIN queue[d] : queue'[d][i] = queue[d][j]
  BY <1>6
<1>8. StopInv' /\ CountedInv'
  BY <1>1, <1>2 DEF StopInv, CountedInv, IsStop, IsFrame
<1>9. OrderInv'
  <2>. SUFFICES ASSUME NEW d \in Conns
                PROVE  /\ stream'[d] \in {None, d}
                       /\ \A i \in DOMAIN queue'[d] :
                             queue'[d][i].type = "audio_start" => queue'[d][i].stream = d
                       /\ \A i, j \in DOMAIN queue'[d] :
                             IsStop(queue'[d][i], d) /\ IsFrame(queue'[d][j], d) => j < i
    BY DEF OrderInv, IsStop, IsFrame
  <2>1. stream'[d] \in {None, d}
    BY <1>1 DEF OrderInv
  <2>2. \A i \in DOMAIN queue'[d] :
           queue'[d][i].type = "audio_start" => queue'[d][i].stream = d
    BY <1>1, <1>7, SMTT(30) DEF OrderInv
  <2>3. \A i, j \in DOMAIN queue'[d] :
           IsStop(queue'[d][i], d) /\ IsFrame(queue'[d][j], d) => j < i
    <3>1. CASE \A i \in DOMAIN queue'[d] : i \in DOMAIN queue[d] /\ queue'[d][i] = queue[d][i]
      BY <1>1, <3>1 DEF OrderInv
    <3>2. CASE \A i \in DOMAIN queue'[d] : /\ i \in Nat /\ i + 1 \in DOMAIN queue[d]
                                           /\ queue'[d][i] = queue[d][i + 1]
      <4>1. TAKE i, j \in DOMAIN queue'[d]
      <4>2. HAVE IsStop(queue'[d][i], d) /\ IsFrame(queue'[d][j], d)
      <4>3. j + 1 < i + 1 /\ i \in Nat /\ j \in Nat
        BY <1>1, <3>2, <4>2 DEF OrderInv
      <4>. QED
        BY <4>3
    <3>. QED
      BY <1>6, <3>1, <3>2
  <2>. QED
    BY <2>1, <2>2, <2>3
<1>10. FramesInv'
  <2>. SUFFICES ASSUME NEW d \in Conns, NEW x \in sent, IsFrame(x, d),
                       ~ (x.n <= frames'[d]), x \notin InTransit(d)', handler'[d] # "over"
                PROVE  Cut(d)'
    BY DEF FramesInv, IsFrame
  <2>1. ~ (x.n <= frames[d]) /\ handler[d] # "over"
    BY <1>3
  <2>2. x \notin InTransit(d)
    <3>1. SUFFICES ASSUME NEW i \in DOMAIN queue[d], x = queue[d][i] PROVE FALSE
      BY DEF InTransit
    <3>2. queue'[d] # queue[d]
      BY <3>1 DEF InTransit
    <3>3. /\ d = c /\ queue[c] # <<>> /\ queue'[c] = Tail(queue[c])
          /\ IsFrame(Head1(c), c) => Head1(c).n <= frames'[c]
      BY <3>2
    <3>4. i # 1
      BY <3>1, <3>3 DEF Head1
    <3>5. i - 1 \in 1..(Len(queue[c]) - 1) /\ (i - 1) + 1 = i
      BY <1>4, <3>1, <3>3, <3>4
    <3>6. i - 1 \in DOMAIN queue'[c] /\ queue'[c][i - 1] = x
      BY <1>5, <3>1, <3>3, <3>5
    <3>. QED
      BY <3>3, <3>6 DEF InTransit
  <2>3. Cut(d)
    BY <1>1, <2>1, <2>2 DEF FramesInv
  <2>. QED
    BY <1>7, <2>3 DEF Cut, IsStop
<1>11. FinishedInv'
  <2>1. ASSUME NEW d \in finished
        PROVE  /\ handler'[d] = "over"
               /\ \E x \in sent' : IsStop(x, d)
               /\ \A x \in sent' : IsFrame(x, d) => x.n <= frames'[d]
    BY <1>1, <1>3 DEF FinishedInv
  <2>2. ASSUME handler[c] # "over", handler'[c] = "over",
               queue[c] # <<>>, Head1(c) \in sent, IsStop(Head1(c), c)
        PROVE  /\ handler'[c] = "over"
               /\ \E x \in sent' : IsStop(x, c)
               /\ \A x \in sent' : IsFrame(x, c) => x.n <= frames'[c]
    <3>1. 1 \in DOMAIN queue[c] /\ queue[c][1] = Head1(c)
      BY <1>5, <2>2 DEF Head1
    <3>2. ~ Cut(c)
      BY <2>2, <3>1 DEF Cut
    <3>3. ASSUME NEW x \in sent, IsFrame(x, c) PROVE x \notin InTransit(c)
      <4>1. SUFFICES ASSUME NEW i \in DOMAIN queue[c], x = queue[c][i] PROVE FALSE
        BY DEF InTransit
      <4>2. i < 1
        BY <1>1, <2>2, <3>1, <3>3, <4>1 DEF OrderInv
      <4>. QED
        BY <1>4, <4>1, <4>2
    <3>4. \A x \in sent : IsFrame(x, c) => x.n <= frames[c]
      BY <1>1, <2>2, <3>2, <3>3 DEF FramesInv
    <3>. QED
      BY <1>3, <2>2, <3>4
  <2>3. finished' = finished \/ finished' = finished \union {c}
    OBVIOUS
  <2>. QED
    BY <2>1, <2>2 DEF FinishedInv, IsStop, IsFrame
<1>. QED
  BY <1>8, <1>9, <1>10, <1>11 DEF RecordingInv

\* The end of a handler, as a recording sees it.
LEMMA OverRecording ==
    ASSUME TypeOK, NEW c \in Conns, NEW a, Over(c, a)
    PROVE  /\ \A d \in Conns \ {c} : queue'[d] = queue[d]
           /\ queue'[c] = <<>> /\ handler'[c] = "over"
           /\ \A d \in Conns : handler[d] = "over" => handler'[d] = "over"
           /\ \A d \in Conns : /\ link'[d] = "unused" => link[d] = "unused"
                               /\ link'[d] = "open" => link[d] = "open"
           /\ \A d \in Conns : stream'[d] \in {stream[d], None, d}
BY DEF Over, TypeOK

LEMMA HandlersRecording ==
    ASSUME TypeInv, DerivedInv, ConnInv, RecordingInv, NEW c \in Conns,
           \/ BindSession(c) \/ DecryptFails(c) \/ HandlerFails(c)
           \/ HandleKeyPress(c) \/ HandleStart(c) \/ HandleFrame(c) \/ HandleStop(c)
           \/ ReadFails(c)
    PROVE  RecordingInv'
<1>1. /\ TypeOK /\ OrderInv
      /\ queue \in [Conns -> Seq(Messages)] /\ frames \in [Conns -> Nat]
      /\ handler \in [Conns -> {"reading", "stream", "key", "over"}]
      /\ stream \in [Conns -> Conns \union {None}]
  BY DEF TypeInv, TypeOK, RecordingInv
<1>2. /\ UNCHANGED <<sent, sends, okFrames, streamID, webSocket, rec>>
      /\ frames' = frames \/ HandleFrame(c)
      /\ finished' = finished \/ HandleStop(c)
  BY DEF BindSession, DecryptFails, HandlerFails, HandleKeyPress, HandleStart,
         HandleFrame, HandleStop, ReadFails, clientVars, taskVars, history
<1>3. \A k \in Nat : k <= k
  OBVIOUS
<1>4. UNCHANGED frames => frames' \in [Conns -> Nat] /\ \A d \in Conns : frames[d] <= frames'[d]
  BY <1>1, <1>3
<1>5. ASSUME NEW a, Over(c, a), UNCHANGED <<frames, finished>> PROVE RecordingInv'
  <2>1. /\ \A d \in Conns \ {c} : queue'[d] = queue[d]
        /\ queue'[c] = <<>> /\ handler'[c] = "over"
        /\ \A d \in Conns : handler[d] = "over" => handler'[d] = "over"
        /\ \A d \in Conns : /\ link'[d] = "unused" => link[d] = "unused"
                            /\ link'[d] = "open" => link[d] = "open"
        /\ \A d \in Conns : stream'[d] \in {stream[d], None, d}
    BY <1>1, <1>5, OverRecording
  <2>. QED
    BY <1>2, <1>4, <1>5, <2>1, HandlerRecording
<1>6. CASE BindSession(c)
  <2>1. /\ UNCHANGED <<link, queue, stream, frames, finished>>
        /\ \A d \in Conns : handler[d] = "over" => handler'[d] = "over"
    BY <1>1, <1>6 DEF BindSession, connVars, history
  <2>. QED
    BY <1>2, <1>4, <2>1, HandlerRecording
<1>7. CASE DecryptFails(c) \/ HandlerFails(c) \/ HandleKeyPress(c) \/ ReadFails(c)
  <2>1. UNCHANGED <<frames, finished>> /\ \E a : Over(c, a)
    BY <1>7 DEF DecryptFails, HandlerFails, HandleKeyPress, ReadFails, Fatal
  <2>. QED
    BY <1>5, <2>1
<1>8. CASE HandleStart(c)
  <2>1. /\ UNCHANGED <<link, handler, frames, finished>>
        /\ queue' = [queue EXCEPT ![c] = Tail(@)]
        /\ stream' = [stream EXCEPT ![c] = Head1(c).stream]
        /\ queue[c] # <<>> /\ Head1(c).type = "audio_start"
    BY <1>8 DEF HandleStart, Decrypts
  <2>2. 1 \in DOMAIN queue[c]
    BY <1>1, <2>1
  <2>3. Head1(c).stream = c
    BY <1>1, <2>1, <2>2 DEF OrderInv, Head1
  <2>4. ~ IsFrame(Head1(c), c)
    BY <2>1 DEF IsFrame
  <2>5. queue'[c] = Tail(queue[c]) /\ \A d \in Conns \ {c} : queue'[d] = queue[d]
    BY <1>1, <2>1
  <2>6. \A d \in Conns : stream'[d] \in {stream[d], None, d}
    BY <1>1, <2>1, <2>3
  <2>. QED
    BY <1>2, <1>4, <2>1, <2>4, <2>5, <2>6, HandlerRecording
<1>9. CASE HandleFrame(c)
  <2>1. /\ UNCHANGED <<link, handler, stream, finished>>
        /\ queue' = [queue EXCEPT ![c] = Tail(@)]
        /\ frames' = [frames EXCEPT ![c] = @ + 1]
        /\ queue[c] # <<>> /\ Head1(c).type = "audio_frame"
        /\ Head1(c).n = frames[c] + 1
    BY <1>9 DEF HandleFrame, Decrypts, Fits
  <2>2. /\ frames' \in [Conns -> Nat] /\ \A d \in Conns : frames[d] <= frames'[d]
        /\ frames'[c] = frames[c] + 1 /\ frames[c] + 1 \in Nat
    BY <1>1, <2>1
  <2>3. Head1(c).n <= frames'[c]
    BY <1>3, <2>1, <2>2
  <2>4. queue'[c] = Tail(queue[c]) /\ \A d \in Conns \ {c} : queue'[d] = queue[d]
    BY <1>1, <2>1
  <2>. QED
    BY <1>2, <2>1, <2>2, <2>3, <2>4, HandlerRecording
<1>10. CASE HandleStop(c)
  <2>1. /\ Over(c, "ok") /\ UNCHANGED frames /\ finished' = finished \union {c}
        /\ handler[c] = "stream" /\ queue[c] # <<>> /\ Head1(c).type = "audio_stop"
        /\ stream[c] # None /\ Head1(c).stream = stream[c]
    BY <1>10 DEF HandleStop, Decrypts, Fits
  <2>2. IsStop(Head1(c), c)
    BY <1>1, <2>1 DEF OrderInv, IsStop
  <2>3. Head1(c) \in sent
    <3>1. 1 \in DOMAIN queue[c]
      BY <1>1, <2>1
    <3>. QED
      BY <3>1 DEF DerivedInv, InTransit, Head1
  <2>4. /\ \A d \in Conns \ {c} : queue'[d] = queue[d]
        /\ queue'[c] = <<>> /\ handler'[c] = "over"
        /\ \A d \in Conns : handler[d] = "over" => handler'[d] = "over"
        /\ \A d \in Conns : /\ link'[d] = "unused" => link[d] = "unused"
                            /\ link'[d] = "open" => link[d] = "open"
        /\ \A d \in Conns : stream'[d] \in {stream[d], None, d}
    BY <1>1, <2>1, OverRecording
  <2>. QED
    BY <1>2, <1>4, <2>1, <2>2, <2>3, <2>4, HandlerRecording
<1>. QED
  BY <1>6, <1>7, <1>8, <1>9, <1>10

LEMMA NextRecording == IInv /\ CounterInv /\ RecordingInv /\ [Next]_vars => RecordingInv'
<1>. SUFFICES ASSUME IInv, CounterInv, RecordingInv, [Next]_vars PROVE RecordingInv'
  OBVIOUS
<1>1. TypeInv /\ PhoneInv /\ DerivedInv /\ ConnInv
  BY DEF IInv, CounterInv
<1>2. CASE UNCHANGED vars
  <2>1. UNCHANGED <<link, queue, handler, stream, frames, webSocket, streamID, rec,
                    sends, sent, okFrames, finished>>
    BY <1>2 DEF vars, connVars, handlerVars, clientVars, taskVars, history
  <2>2. StopInv' /\ CountedInv' /\ OrderInv' /\ FinishedInv'
    BY <2>1 DEF RecordingInv, StopInv, CountedInv, OrderInv, FinishedInv, IsStop, IsFrame
  <2>3. FramesInv'
    BY <2>1 DEF RecordingInv, FramesInv, InTransit, Cut, IsStop, IsFrame
  <2>. QED
    BY <2>2, <2>3 DEF RecordingInv
<1>3. CASE \/ SendFrame \/ StopRecording
           \/ \E c \in Conns : StartRecording(c) \/ PressKey(c)
  BY <1>1, <1>3, SendsRecording
<1>4. CASE \/ \E s \in Sessions : Resume(s)
           \/ NoStream \/ LetGo \/ Disconnect
           \/ \E x \in sends : SendReturns(x) \/ SendThrows(x)
           \/ \E t \in Tasks : Receive(t)
  BY <1>1, <1>4, MovesRecording
<1>5. ASSUME NEW c \in Conns,
             \/ BindSession(c) \/ DecryptFails(c) \/ HandlerFails(c)
             \/ HandleKeyPress(c) \/ HandleStart(c) \/ HandleFrame(c) \/ HandleStop(c)
             \/ ReadFails(c)
      PROVE  RecordingInv'
  BY <1>1, <1>5, HandlersRecording
<1>. QED
  BY <1>2, <1>3, <1>4, <1>5 DEF Next

\* A recording that was recognised has every frame the recorder counted (sendPCMFrame,
\* and the handler's audio_stop), although a key press may take its socket away
\* and sends of an earlier recording may still return.
THEOREM FinishedIsCompleteHolds == Spec => []FinishedIsComplete
<1>1. Spec => []RecordingInv
  BY InitRecording, NextRecording, Invariant, CounterInvariant, PTL DEF Spec
<1>2. IInv /\ RecordingInv => FinishedIsComplete
  <2>. SUFFICES ASSUME TypeInv, RecordingInv, NEW c \in finished, NEW f \in okFrames, f[1] = c
                PROVE  f[2] <= frames[c]
    BY DEF IInv, FinishedIsComplete
  <2>1. PICK m \in sent : IsFrame(m, f[1]) /\ m.n = f[2]
    BY DEF RecordingInv, CountedInv
  <2>. QED
    BY <2>1 DEF RecordingInv, FinishedInv
<1>. QED
  BY <1>1, <1>2, Invariant, PTL
=============================================================================
