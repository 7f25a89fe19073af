---------------------------- MODULE PairingProofs ----------------------------
(***************************************************************************)
(* Proofs about Pairing, for any number of phones, PINs and requests and   *)
(* any limit on wrong guesses.                                             *)
(***************************************************************************)
EXTENDS Pairing, FiniteSetTheorems, TLAPS

\* The PIN on the screen is the one Complete will accept, and it has admitted
\* nobody yet; m.pending.Failures counts every wrong guess it has had.
PendingInv ==
    /\ shown = pin
    /\ pin # None =>
        /\ pin \in started
        /\ wrong[pin] = failures
        /\ grants[pin] = {}

\* What a PIN has behind it.  One that was never started has no history.
PinInv ==
    \A p \in Pins :
        /\ wrong[p] <= MaxFailures
        /\ p \notin started => wrong[p] = 0
        /\ p \notin started => grants[p] = {}
        /\ \/ grants[p] = {}
           \/ wrong[p] < MaxFailures /\ \E r \in Requests : grants[p] = {r}

\* A request's content is fixed when it is sent; a pairing request brings the
\* key pair that was generated for it.
RequestInv ==
    \A r \in Requests :
        /\ st[r] = "unused" => ~IsPair(r)
        /\ st[r] # "unused" => info[r].dev \in Devices
        /\ IsPair(r) => info[r].key = r

\* While a Resume is under way it holds a.mu, and the record it has read is
\* still the one in the store.
LockInv ==
    /\ mu = None <=> loaded = None
    /\ mu # None =>
        /\ st[mu] = "sent"
        /\ ~IsPair(mu)
        /\ loaded = store[info[mu].dev]
        /\ loaded = info[mu].key

\* Trust and sessions come from requests that were sent.
UsedInv ==
    \A d \in Devices :
        /\ store[d] # None => st[store[d]] # "unused"
        /\ sessions[d] # None => st[sessions[d]] # "unused"

\* The inductive invariant.
IInv == /\ TypeOK /\ PendingInv /\ PinInv /\ RequestInv /\ LockInv /\ UsedInv
        /\ TrustIsEarned /\ SessionKeyIsTrusted

-----------------------------------------------------------------------------
LEMMA ZeroIsAllowed == 0 \in 0..MaxFailures
BY PairingAssumption

LEMMA InitIInv == Init => IInv
<1>. SUFFICES ASSUME Init PROVE IInv
  OBVIOUS
<1>. USE PairingAssumption DEF Init
<1>1. TypeOK
  <2>1. NoInfo \in Info
    BY DEF NoInfo, Info
  <2>. QED
    BY <2>1, ZeroIsAllowed DEF TypeOK
<1>2. PendingInv /\ PinInv /\ RequestInv /\ LockInv /\ UsedInv
  BY DEF PendingInv, PinInv, RequestInv, LockInv, UsedInv, IsPair, NoInfo
<1>3. TrustIsEarned /\ SessionKeyIsTrusted
  BY DEF TrustIsEarned, SessionKeyIsTrusted
<1>. QED
  BY <1>1, <1>2, <1>3 DEF IInv

LEMMA StartKeeps == ASSUME IInv, StartPairing PROVE IInv'
<1>. USE PairingAssumption
     DEF IInv, StartPairing, LockFree, lockVars, serverVars, phoneVars, history, IsPair
<1>1. TypeOK'
  BY ZeroIsAllowed DEF TypeOK
<1>2. PendingInv' /\ PinInv'
  BY DEF PendingInv, PinInv, TypeOK
<1>3. RequestInv' /\ LockInv' /\ UsedInv'
  BY DEF RequestInv, LockInv, UsedInv
<1>4. TrustIsEarned' /\ SessionKeyIsTrusted'
  BY DEF TrustIsEarned, SessionKeyIsTrusted
<1>. QED
  BY <1>1, <1>2, <1>3, <1>4

\* Steps that only move requests that were sent, or the phones' own state.
LEMMA MovesKeep ==
    ASSUME IInv,
           UNCHANGED <<pin, failures, appVars, lockVars, store, sessions, info, history>>,
           TypeOK',
           \A r \in Requests : st[r] = "unused" <=> st'[r] = "unused",
           mu # None => st'[mu] = "sent"
    PROVE  IInv'
<1>. USE DEF IInv, appVars, lockVars, history, IsPair
<1>1. PendingInv' /\ PinInv'
  BY DEF PendingInv, PinInv
<1>2. RequestInv' /\ LockInv'
  BY DEF RequestInv, LockInv
<1>3. UsedInv'
  BY PairingAssumption DEF UsedInv, TypeOK
<1>4. TrustIsEarned' /\ SessionKeyIsTrusted'
  BY DEF TrustIsEarned, SessionKeyIsTrusted
<1>. QED
  BY <1>1, <1>2, <1>3, <1>4

LEMMA RefusalsKeep ==
    ASSUME IInv, NEW r \in Requests,
           CompleteRefuses(r) \/ CompleteNotSaved(r) \/ ResumeRefuses(r)
    PROVE  IInv'
<1>. USE DEF CompleteRefuses, CompleteNotSaved, ResumeRefuses, Arrives, LockFree,
             pendingVars, appVars, lockVars, serverVars, phoneVars, history
<1>1. TypeOK'
  BY DEF IInv, TypeOK
<1>2. /\ mu = None
      /\ \A q \in Requests : st[q] = "unused" <=> st'[q] = "unused"
  BY DEF IInv, TypeOK
<1>. QED
  BY <1>1, <1>2, MovesKeep

LEMMA ClockKeeps == ASSUME IInv, Expire \/ \E d \in Devices : Forget(d) PROVE IInv'
<1>. USE DEF Expire, Forget, pendingVars, appVars, lockVars, serverVars, phoneVars, history
<1>1. TypeOK'
  BY DEF IInv, TypeOK
<1>2. /\ mu # None => st'[mu] = "sent"
      /\ \A q \in Requests : st[q] = "unused" <=> st'[q] = "unused"
  BY DEF IInv, LockInv
<1>. QED
  BY <1>1, <1>2, MovesKeep

\* An answered request is not the one inside Resume.
LEMMA PhonesKeep ==
    ASSUME IInv, NEW d \in Devices,
           \/ ReceiveOK(d) \/ ReceiveRefused(d) \/ GiveUp(d)
           \/ Disconnect(d) \/ ForgetMac(d)
    PROVE  IInv'
<1>. USE PairingAssumption
     DEF ReceiveOK, ReceiveRefused, GiveUp, Disconnect, ForgetMac,
         pendingVars, appVars, lockVars, serverVars, history
<1>1. TypeOK'
  <2>1. CASE ReceiveOK(d)
    <3>1. wait[d] \in Requests
      BY <2>1 DEF IInv, TypeOK
    <3>2. info[wait[d]].key \in Requests \union {None}
      BY <3>1 DEF IInv, TypeOK, Info
    <3>. QED
      BY <2>1, <3>1, <3>2 DEF IInv, TypeOK
  <2>2. CASE ReceiveRefused(d) \/ GiveUp(d) \/ Disconnect(d) \/ ForgetMac(d)
    BY <2>2 DEF IInv, TypeOK
  <2>. QED
    BY <2>1, <2>2
<1>2. /\ mu # None => st'[mu] = "sent"
      /\ \A q \in Requests : st[q] = "unused" <=> st'[q] = "unused"
  BY DEF IInv, TypeOK, LockInv
<1>. QED
  BY <1>1, <1>2, MovesKeep

\* Manager.Complete evaluates a confirmation only below the limit.
LEMMA WrongKeeps == ASSUME IInv, NEW r \in Requests, CompleteWrong(r) PROVE IInv'
<1>. USE PairingAssumption
     DEF IInv, CompleteWrong, Arrives, LockFree, Evaluated, RateLimited,
         appVars, lockVars, serverVars, phoneVars
<1>1. /\ pin \in Pins /\ failures \in Nat /\ failures < MaxFailures
      /\ wrong[pin] = failures /\ grants[pin] = {}
  BY DEF TypeOK, PendingInv
<1>2. TypeOK'
  BY <1>1 DEF TypeOK
<1>3. PendingInv' /\ PinInv'
  BY <1>1 DEF PendingInv, PinInv, TypeOK
<1>4. RequestInv' /\ LockInv' /\ UsedInv'
  BY DEF RequestInv, LockInv, UsedInv, TypeOK, IsPair
<1>5. TrustIsEarned' /\ SessionKeyIsTrusted'
  BY DEF TrustIsEarned, SessionKeyIsTrusted
<1>. QED
  BY <1>2, <1>3, <1>4, <1>5

\* A grant uses up the PIN and replaces trust and session together.
LEMMA GrantKeeps == ASSUME IInv, NEW r \in Requests, CompletePairs(r) PROVE IInv'
<1>. USE PairingAssumption
     DEF IInv, CompletePairs, Arrives, LockFree, Evaluated, RateLimited, Confirmed,
         PendingAfterGrant, ShownAfterGrant, lockVars, phoneVars
<1>. DEFINE d == info[r].dev
<1>1. /\ pin \in Pins /\ pin \in started /\ failures < MaxFailures
      /\ wrong[pin] = failures /\ grants[pin] = {}
  BY DEF TypeOK, PendingInv
<1>2. d \in Devices /\ info[r].key = r /\ info[r].pin = pin /\ st[r] = "sent"
  BY DEF RequestInv
<1>3. TypeOK'
  BY <1>1, <1>2, ZeroIsAllowed DEF TypeOK
<1>4. /\ grants'[pin] = {r}
      /\ \A p \in Pins : p # pin => grants'[p] = grants[p]
  BY <1>1 DEF TypeOK
<1>5. PendingInv' /\ PinInv'
  BY <1>1, <1>4 DEF PendingInv, PinInv, TypeOK
<1>6. /\ store'[d] = r /\ sessions'[d] = r
      /\ \A e \in Devices : e # d => store'[e] = store[e] /\ sessions'[e] = sessions[e]
  BY <1>2 DEF TypeOK
<1>7. st'[r] = "ok" /\ \A q \in Requests : q # r => st'[q] = st[q]
  BY DEF TypeOK
<1>8. RequestInv'
  BY <1>2, <1>7 DEF RequestInv, IsPair
<1>9. LockInv'
  BY DEF LockInv
<1>10. UsedInv'
  BY <1>6, <1>7 DEF UsedInv, TypeOK
<1>11. TrustIsEarned'
  <2>1. \A e \in Devices : store[e] # None => info[store[e]].pin \in Pins
    BY DEF TrustIsEarned, TypeOK, Info
  <2>. QED
    BY <1>1, <1>2, <1>4, <1>6, <2>1 DEF TrustIsEarned
<1>12. SessionKeyIsTrusted'
  BY <1>2, <1>6 DEF SessionKeyIsTrusted
<1>. QED
  BY <1>3, <1>5, <1>8, <1>9, <1>10, <1>11, <1>12

\* Resume under a.mu: what it writes back is what the store still holds.
LEMMA ResumeKeeps ==
    ASSUME IInv, NEW r \in Requests,
           ResumeLoads(r) \/ ResumeSaves(r) \/ ResumeFails(r)
    PROVE  IInv'
<1>. USE PairingAssumption
     DEF IInv, ResumeLoads, ResumeSaves, ResumeFails, Arrives, LockFree, IsTrusted,
         pendingVars, appVars, serverVars, phoneVars, history
<1>1. r # None /\ st[r] = "sent" /\ info[r].dev \in Devices
  BY DEF LockInv, RequestInv
<1>2. UNCHANGED store
  <2>1. CASE ResumeSaves(r)
    BY <1>1, <2>1 DEF LockInv, TypeOK
  <2>2. CASE ResumeLoads(r) \/ ResumeFails(r)
    BY <2>2
  <2>. QED
    BY <2>1, <2>2
<1>3. TypeOK'
  <2>1. store[info[r].dev] \in Requests \union {None}
    BY <1>1 DEF TypeOK
  <2>. QED
    BY <1>1, <1>2, <2>1 DEF TypeOK
<1>4. PendingInv' /\ PinInv'
  BY DEF PendingInv, PinInv
<1>5. \A q \in Requests : st[q] = "unused" <=> st'[q] = "unused"
  BY <1>1 DEF TypeOK
<1>6. RequestInv'
  BY <1>5 DEF RequestInv, IsPair
<1>7. LockInv'
  BY <1>1 DEF LockInv, IsPair
<1>8. UsedInv'
  BY <1>1, <1>2, <1>5 DEF UsedInv, TypeOK
<1>9. TrustIsEarned'
  BY <1>2 DEF TrustIsEarned
<1>10. SessionKeyIsTrusted'
  BY <1>1, <1>2 DEF SessionKeyIsTrusted, LockInv, TypeOK
<1>. QED
  BY <1>3, <1>4, <1>6, <1>7, <1>8, <1>9, <1>10

LEMMA RestartKeeps == ASSUME IInv, Restart PROVE IInv'
<1>. USE PairingAssumption DEF IInv, Restart, phoneVars, history
<1>1. TypeOK'
  BY ZeroIsAllowed DEF TypeOK
<1>2. PendingInv' /\ PinInv'
  BY DEF PendingInv, PinInv
<1>3. \A q \in Requests : st[q] = "unused" <=> st'[q] = "unused"
  BY DEF TypeOK, LockInv
<1>4. RequestInv' /\ LockInv' /\ UsedInv'
  BY <1>3 DEF RequestInv, LockInv, UsedInv, TypeOK, IsPair
<1>5. TrustIsEarned' /\ SessionKeyIsTrusted'
  BY DEF TrustIsEarned, SessionKeyIsTrusted
<1>. QED
  BY <1>1, <1>2, <1>4, <1>5

\* A new request changes the content of one that nobody refers to yet.
LEMMA SendKeeps ==
    ASSUME IInv, NEW d \in Devices, NEW r \in Requests,
           \/ \E typed \in started \union {None} : RequestPair(d, r, typed)
           \/ RequestResume(d, r)
    PROVE  IInv'
<1>. USE PairingAssumption
     DEF IInv, RequestPair, RequestResume, Send, pendingVars, appVars, lockVars,
         serverVars, history
<1>. PICK carried \in Info :
        /\ carried.dev = d
        /\ carried.pairing # None => carried.key = r
        /\ st' = [st EXCEPT ![r] = "sent"]
        /\ info' = [info EXCEPT ![r] = carried]
  <2>1. CASE RequestResume(d, r)
    BY <2>1 DEF Info, TypeOK
  <2>2. CASE \E typed \in started \union {None} : RequestPair(d, r, typed)
    <3>. PICK typed \in started \union {None} : RequestPair(d, r, typed)
      BY <2>2
    <3>. DEFINE c == [dev |-> d, pairing |-> shown, pin |-> typed, key |-> r]
    <3>1. c \in Info
      BY DEF Info, TypeOK
    <3>. QED
      BY <3>1
  <2>. QED
    BY <2>1, <2>2
<1>1. /\ st[r] = "unused" /\ wait' = [wait EXCEPT ![d] = r]
      /\ UNCHANGED <<pin, failures, expired, shown, started, mu, loaded, store, devices, sessions,
                      identity, live, wrong, grants>>
  OBVIOUS
<1>. HIDE DEF RequestPair, RequestResume, Send
<1>2. TypeOK'
  <2>1. /\ st' \in [Requests -> {"unused", "sent", "ok", "refused", "over"}]
        /\ info' \in [Requests -> Info]
        /\ wait' \in [Devices -> Requests \union {None}]
    BY <1>1 DEF TypeOK
  <2>2. TypeOK
    OBVIOUS
  <2>. QED
    BY ONLY <1>1, <2>1, <2>2, Zenon DEF TypeOK
<1>3. PendingInv' /\ PinInv'
  <2>1. PendingInv /\ PinInv
    OBVIOUS
  <2>2. PendingInv'
    BY ONLY <1>1, <2>1, Zenon DEF PendingInv
  <2>. QED
    BY <1>1, <2>1, <2>2 DEF PinInv
<1>4. /\ info'[r] = carried /\ st'[r] = "sent"
      /\ \A q \in Requests : q # r => info'[q] = info[q] /\ st'[q] = st[q]
  BY DEF TypeOK
<1>5. RequestInv'
  BY <1>4 DEF RequestInv, IsPair
<1>6. LockInv'
  BY <1>1, <1>4 DEF LockInv, IsPair, TypeOK
<1>7. \A e \in Devices : store[e] # r /\ sessions[e] # r
  BY <1>1 DEF UsedInv
<1>8. \A e \in Devices :
         /\ store[e] # None =>
               info'[store[e]] = info[store[e]] /\ st'[store[e]] = st[store[e]]
         /\ sessions[e] # None =>
               info'[sessions[e]] = info[sessions[e]] /\ st'[sessions[e]] = st[sessions[e]]
  BY <1>4, <1>7 DEF TypeOK
<1>. HIDE DEF RequestPair, RequestResume, Send
<1>9. UNCHANGED <<store, sessions, grants>>
  BY DEF RequestPair, RequestResume
<1>10. UsedInv'
  BY <1>8, <1>9 DEF UsedInv
<1>11. TrustIsEarned'
  BY <1>8, <1>9 DEF TrustIsEarned
<1>12. SessionKeyIsTrusted'
  BY <1>8, <1>9 DEF SessionKeyIsTrusted
<1>. QED
  BY <1>2, <1>3, <1>5, <1>6, <1>10, <1>11, <1>12

LEMMA NextIInv == IInv /\ [Next]_vars => IInv'
<1>. SUFFICES ASSUME IInv, [Next]_vars PROVE IInv'
  OBVIOUS
<1>1. CASE StartPairing
  BY <1>1, StartKeeps
<1>2. CASE Expire \/ \E d \in Devices : Forget(d)
  BY <1>2, ClockKeeps
<1>3. CASE Restart
  BY <1>3, RestartKeeps
<1>4. CASE \E r \in Requests : CompleteRefuses(r) \/ CompleteNotSaved(r) \/ ResumeRefuses(r)
  BY <1>4, RefusalsKeep
<1>5. CASE \E r \in Requests : CompleteWrong(r)
  BY <1>5, WrongKeeps
<1>6. CASE \E r \in Requests : CompletePairs(r)
  BY <1>6, GrantKeeps
<1>7. CASE \E r \in Requests : ResumeLoads(r) \/ ResumeSaves(r) \/ ResumeFails(r)
  BY <1>7, ResumeKeeps
<1>8. CASE \E d \in Devices, r \in Requests :
             \/ \E typed \in started \union {None} : RequestPair(d, r, typed)
             \/ RequestResume(d, r)
  BY <1>8, SendKeeps
<1>9. CASE \E d \in Devices : \/ ReceiveOK(d) \/ ReceiveRefused(d) \/ GiveUp(d)
                              \/ Disconnect(d) \/ ForgetMac(d)
  BY <1>9, PhonesKeep
<1>10. CASE UNCHANGED vars
  <2>. USE <1>10 DEF IInv, vars, pendingVars, appVars, lockVars, serverVars, phoneVars, history
  <2>1. TypeOK' /\ PendingInv' /\ PinInv'
    BY DEF TypeOK, PendingInv, PinInv
  <2>2. RequestInv' /\ LockInv' /\ UsedInv'
    BY DEF RequestInv, LockInv, UsedInv, IsPair
  <2>3. TrustIsEarned' /\ SessionKeyIsTrusted'
    BY DEF TrustIsEarned, SessionKeyIsTrusted
  <2>. QED
    BY <2>1, <2>2, <2>3
<1>. QED
  BY <1>1, <1>2, <1>3, <1>4, <1>5, <1>6, <1>7, <1>8, <1>9, <1>10 DEF Next

\* The inductive invariant holds in every reachable state.
THEOREM Invariant == Spec => []IInv
BY InitIInv, NextIInv, PTL DEF Spec

-----------------------------------------------------------------------------
\* The variables have their types; in particular the failure count of the
\* pending pairing never passes Config.MaxFailures.
THEOREM TypeOKHolds == Spec => []TypeOK
BY Invariant, PTL DEF IInv

\* However many phones guess at a PIN, at most MaxFailures confirmations are
\* evaluated as wrong, and a PIN that had so many pairs nobody (Complete).
THEOREM GuessBudgetHolds == Spec => []GuessBudget
<1>1. IInv => GuessBudget
  BY DEF IInv, TypeOK, PinInv, GuessBudget
<1>. QED
  BY <1>1, Invariant, PTL

\* A PIN admits one request at most: granting it clears m.pending.
THEOREM OneGrantPerPINHolds == Spec => []OneGrantPerPIN
<1>1. IInv => OneGrantPerPIN
  <2>. SUFFICES ASSUME IInv, NEW p \in Pins PROVE Cardinality(grants[p]) <= 1
    BY DEF OneGrantPerPIN
  <2>1. CASE grants[p] = {}
    BY <2>1, FS_EmptySet
  <2>2. CASE \E r \in Requests : grants[p] = {r}
    <3>. PICK r \in Requests : grants[p] = {r}
      BY <2>2
    <3>1. Cardinality({r}) = 1
      BY FS_Singleton
    <3>. QED
      BY <3>1
  <2>. QED
    BY <2>1, <2>2 DEF IInv, PinInv
<1>. QED
  BY <1>1, Invariant, PTL

\* A trusted key was brought by the device itself with the challenge and PIN of
\* one pairing (Complete, Resume).
THEOREM TrustIsEarnedHolds == Spec => []TrustIsEarned
BY Invariant, PTL DEF IInv

\* An audio session belongs to the identity trusted now (App.iosSessions).
THEOREM SessionKeyIsTrustedHolds == Spec => []SessionKeyIsTrusted
BY Invariant, PTL DEF IInv

\* A trusted key changes only to one that was just granted: a.mu keeps Resume
\* from writing an old record over a newer pairing.
THEOREM NoTrustRollbackHolds == Spec => NoTrustRollback
<1>. DEFINE Step == \A d \in Devices :
                      store'[d] # store[d] =>
                          \E p \in Pins : store'[d] \in grants'[p] \ grants[p]
<1>1. IInv /\ [Next]_vars => [Step]_vars
  <2>. SUFFICES ASSUME IInv, Next, NEW d \in Devices, store'[d] # store[d]
                PROVE  \E p \in Pins : store'[d] \in grants'[p] \ grants[p]
    OBVIOUS
  <2>1. CASE \E r \in Requests : CompletePairs(r)
    <3>. PICK r \in Requests : CompletePairs(r)
      BY <2>1
    <3>1. pin \in Pins /\ grants[pin] = {} /\ grants'[pin] = {r}
      BY DEF IInv, TypeOK, PendingInv, CompletePairs, Evaluated
    <3>2. info[r].key = r
      BY DEF IInv, RequestInv, CompletePairs
    <3>3. store'[d] = r
      BY <3>2 DEF IInv, TypeOK, CompletePairs
    <3>. QED
      BY <3>1, <3>3
  <2>2. CASE \E r \in Requests : ResumeSaves(r)
    <3>. PICK r \in Requests : ResumeSaves(r)
      BY <2>2
    <3>1. r # None /\ loaded = store[info[r].dev]
      BY PairingAssumption DEF IInv, LockInv, ResumeSaves
    <3>2. store' = store
      BY <3>1 DEF IInv, TypeOK, ResumeSaves
    <3>. QED
      BY <3>2
  <2>3. UNCHANGED store \/ \E r \in Requests : CompletePairs(r) \/ ResumeSaves(r)
    BY DEF Next, StartPairing, Expire, Restart, CompleteRefuses, CompleteWrong,
           CompleteNotSaved, ResumeRefuses, ResumeLoads, ResumeFails, RequestPair,
           RequestResume, ReceiveOK, ReceiveRefused, GiveUp, Disconnect, ForgetMac,
           Forget, serverVars
  <2>. QED
    BY <2>1, <2>2, <2>3
<1>. QED
  BY <1>1, Invariant, PTL DEF Spec, NoTrustRollback

-----------------------------------------------------------------------------
(* Pairing implements the abstract trust: what each step maps to.          *)

LEMMA TrustInit == Init => Trust!Init
<1>. SUFFICES ASSUME Init PROVE Trust!Init
  OBVIOUS
<1>1. Offered = None /\ Decided = {}
  BY DEF Init, Offered, Decided
<1>. QED
  BY <1>1 DEF Init, Trust!Init

\* A request is decided once, when it leaves "sent" for an answer.
LEMMA AnswerDecides ==
    ASSUME TypeOK, NEW r \in Requests, NEW answer \in {"ok", "refused", "over"},
           st[r] = "sent", st' = [st EXCEPT ![r] = answer]
    PROVE  Trust!Decide(r)
<1>1. r \notin Decided
  BY DEF Decided
<1>2. \A q \in Requests : st'[q] = IF q = r THEN answer ELSE st[q]
  BY DEF TypeOK
<1>3. Decided' = Decided \union {r}
  BY <1>2 DEF Decided
<1>. QED
  BY <1>1, <1>3 DEF Trust!Decide

\* The pending pairing decides what is on offer.
LEMMA SameOffer == ASSUME UNCHANGED pendingVars PROVE Offered' = Offered
BY DEF pendingVars, Offered, RateLimited

LEMMA StartIsOffer ==
    ASSUME IInv, StartPairing
    PROVE  \E p \in Pins : Trust!Offer(p)
<1>. USE DEF StartPairing, serverVars
<1>1. PICK p \in Pins \ started : pin' = p /\ started' = started \union {p}
  OBVIOUS
<1>2. p # None /\ ~(0 >= MaxFailures)
  BY PairingAssumption
<1>3. Offered' = p
  BY <1>1, <1>2 DEF Offered, RateLimited
<1>4. Decided' = Decided
  BY DEF Decided
<1>. QED
  BY <1>1, <1>3, <1>4 DEF Trust!Offer

\* A PIN that had no guess left was not on offer any more when it expired.
LEMMA ExpireIsLapse ==
    ASSUME IInv, Expire
    PROVE  Trust!Lapse \/ UNCHANGED Trust!vars
<1>. USE DEF Expire, appVars, serverVars
<1>1. Offered' = None
  BY DEF Offered
<1>2. Decided' = Decided
  BY DEF Decided
<1>3. CASE Offered = None
  BY <1>1, <1>2, <1>3 DEF Trust!vars
<1>4. CASE Offered # None
  BY <1>1, <1>2, <1>4 DEF Trust!Lapse
<1>. QED
  BY <1>3, <1>4

LEMMA RefusalIsRefuse ==
    ASSUME IInv, NEW r \in Requests,
           \/ CompleteRefuses(r) \/ CompleteNotSaved(r) \/ ResumeRefuses(r)
           \/ ResumeFails(r)
    PROVE  Trust!Refuse(r)
<1>. USE DEF CompleteRefuses, CompleteNotSaved, ResumeRefuses, ResumeFails, Arrives
<1>1. st[r] = "sent" /\ st' = [st EXCEPT ![r] = "refused"]
  BY PairingAssumption DEF IInv, LockInv
<1>2. Trust!Decide(r)
  BY <1>1, AnswerDecides DEF IInv
<1>3. Offered' = Offered
  BY SameOffer
<1>. QED
  BY <1>2, <1>3 DEF Trust!Refuse, appVars, serverVars

\* The wrong guess that uses up the last one ends the offer.
LEMMA WrongIsRefuse ==
    ASSUME IInv, NEW r \in Requests, CompleteWrong(r)
    PROVE  Trust!Refuse(r)
<1>. USE DEF CompleteWrong
<1>1. Trust!Decide(r)
  BY AnswerDecides DEF IInv, Arrives
<1>2. Offered = pin
  BY DEF Evaluated, Offered
<1>3. Offered' \in {Offered, None}
  BY <1>2 DEF Offered
<1>. QED
  BY <1>1, <1>3 DEF Trust!Refuse, appVars, serverVars

\* The key that is stored is the one made for this request.
LEMMA PairsIsGrant ==
    ASSUME IInv, NEW r \in Requests, CompletePairs(r)
    PROVE  \E d \in Devices : Trust!Grant(d, r)
<1>. USE DEF CompletePairs
<1>. DEFINE d == info[r].dev
<1>1. d \in Devices /\ info[r].key = r
  BY DEF IInv, RequestInv, Arrives
<1>2. Trust!Decide(r)
  BY AnswerDecides DEF IInv, Arrives
<1>3. Offered # None
  BY DEF Evaluated, Offered
<1>4. Offered' = None
  BY DEF Offered, PendingAfterGrant
<1>5. /\ store' = [store EXCEPT ![d] = r]
      /\ sessions' = [sessions EXCEPT ![d] = r]
  BY <1>1
<1>. QED
  BY <1>1, <1>2, <1>3, <1>4, <1>5 DEF Trust!Grant

\* What Resume writes back is what is in the store: a.mu was held in between.
LEMMA SaveIsResume ==
    ASSUME IInv, NEW r \in Requests, ResumeSaves(r)
    PROVE  \E d \in Devices : Trust!Resume(d, r)
<1>. USE DEF ResumeSaves
<1>. DEFINE d == info[r].dev
<1>1. /\ st[r] = "sent" /\ loaded = store[d] /\ loaded # None
      /\ d \in Devices
  BY PairingAssumption DEF IInv, LockInv, RequestInv
<1>2. Trust!Decide(r)
  BY <1>1, AnswerDecides DEF IInv
<1>3. store' = store
  BY <1>1 DEF IInv, TypeOK
<1>4. Offered' = Offered
  BY SameOffer
<1>5. sessions' = [sessions EXCEPT ![d] = r]
  OBVIOUS
<1>. QED
  BY <1>1, <1>2, <1>3, <1>4, <1>5 DEF Trust!Resume, appVars

LEMMA RestartIsRestart == ASSUME IInv, Restart PROVE Trust!Restart
<1>. USE DEF Restart
<1>1. Offered' = None
  BY DEF Offered
<1>2. UNCHANGED Decided \/ \E r \in Requests : Trust!Decide(r)
  <2>1. CASE mu = None
    BY <2>1 DEF Decided
  <2>2. CASE mu # None
    <3>1. mu \in Requests /\ st[mu] = "sent"
      BY <2>2 DEF IInv, TypeOK, LockInv
    <3>. QED
      BY <2>2, <3>1, AnswerDecides DEF IInv
  <2>. QED
    BY <2>1, <2>2
<1>. QED
  BY <1>1, <1>2 DEF Trust!Restart

\* The rest is not visible: the list of devices, a Resume that has read the store
\* and not written it yet, requests on their way and the phones' own state.
LEMMA OthersStutter ==
    ASSUME IInv,
           \/ \E r \in Requests : ResumeLoads(r)
           \/ \E d \in Devices :
                 \/ \E r \in Requests :
                       \/ \E typed \in started \union {None} : RequestPair(d, r, typed)
                       \/ RequestResume(d, r)
                 \/ ReceiveOK(d) \/ ReceiveRefused(d) \/ GiveUp(d)
                 \/ Disconnect(d) \/ ForgetMac(d) \/ Forget(d)
           \/ UNCHANGED vars
    PROVE  UNCHANGED Trust!vars
<1>. USE DEF ResumeLoads, RequestPair, RequestResume, Send, ReceiveOK, ReceiveRefused,
             GiveUp, Disconnect, ForgetMac, Forget
<1>1. Offered' = Offered
  BY SameOffer DEF vars
<1>2. UNCHANGED <<started, store, sessions>>
  BY DEF vars, appVars, serverVars
<1>3. Decided' = Decided
  <2>1. \A r \in Requests : st'[r] \in {"unused", "sent"} <=> st[r] \in {"unused", "sent"}
    BY PairingAssumption DEF IInv, TypeOK, vars
  <2>. QED
    BY <2>1 DEF Decided
<1>. QED
  BY <1>1, <1>2, <1>3 DEF Trust!vars

LEMMA TrustStep == IInv /\ [Next]_vars => [Trust!Next]_(Trust!vars)
<1>. SUFFICES ASSUME IInv, [Next]_vars PROVE [Trust!Next]_(Trust!vars)
  OBVIOUS
<1>. USE DEF Trust!Next
<1>1. CASE StartPairing
  BY <1>1, StartIsOffer
<1>2. CASE Expire
  BY <1>2, ExpireIsLapse
<1>3. CASE Restart
  BY <1>3, RestartIsRestart
<1>4. CASE \E r \in Requests : \/ CompleteRefuses(r) \/ CompleteNotSaved(r)
                               \/ ResumeRefuses(r) \/ ResumeFails(r)
  BY <1>4, RefusalIsRefuse
<1>5. CASE \E r \in Requests : CompleteWrong(r)
  BY <1>5, WrongIsRefuse
<1>6. CASE \E r \in Requests : CompletePairs(r)
  BY <1>6, PairsIsGrant
<1>7. CASE \E r \in Requests : ResumeSaves(r)
  BY <1>7, SaveIsResume
<1>8. CASE \/ \E r \in Requests : ResumeLoads(r)
           \/ \E d \in Devices :
                 \/ \E r \in Requests :
                       \/ \E typed \in started \union {None} : RequestPair(d, r, typed)
                       \/ RequestResume(d, r)
                 \/ ReceiveOK(d) \/ ReceiveRefused(d) \/ GiveUp(d)
                 \/ Disconnect(d) \/ ForgetMac(d) \/ Forget(d)
           \/ UNCHANGED vars
  BY <1>8, OthersStutter
<1>. QED
  BY <1>1, <1>2, <1>3, <1>4, <1>5, <1>6, <1>7, <1>8 DEF Next

\* Whatever is late, lost, refused or restarted, trust changes only as
\* PairingTrust says: by a grant that uses up the PIN on offer, once per request.
\* The load and the save of Resume look like one step (Complete, Resume, a.mu).
THEOREM ImplementsTrustHolds == Spec => ImplementsTrust
BY TrustInit, TrustStep, Invariant, PTL DEF Spec, ImplementsTrust, Trust!Spec
=============================================================================
