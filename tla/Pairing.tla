------------------------------- MODULE Pairing -------------------------------
(***************************************************************************)
(* PIN pairing and reconnection: internal/pairing/manager.go under the     *)
(* App's handlers (internal/app/app.go, ios_session.go), and the phone's   *)
(* side of it (SecureRemotePairingSessionClient in TalkaIOSApp.swift).     *)
(*                                                                         *)
(* A pairing is named by its PIN: Start draws both at random.  A request   *)
(* is one POST; it also names the identity key pair generated for it and   *)
(* the session the Mac derives from it, both of which are fresh for every  *)
(* request.  A key-confirmation is right exactly when the phone used the   *)
(* challenge and the PIN of the pairing the Mac has pending.               *)
(*                                                                         *)
(* Requests may be delayed past the phone's timeout, and answers lost.     *)
(***************************************************************************)
EXTENDS Integers, FiniteSets

CONSTANTS
    Devices,      \* phones, by device id
    Pins,         \* the pairings the Mac may start
    Requests,     \* the requests the phones may send
    MaxFailures,  \* Config.MaxFailures
    None

ASSUME PairingAssumption ==
    /\ MaxFailures \in Nat \ {0}
    /\ None \notin Devices \union Pins \union Requests

VARIABLES
    pin,        \* m.pending: the PIN, None when there is no pending pairing
    failures,   \* m.pending.Failures
    expired,    \* the clock is past m.pending.ExpiresAt
    shown,      \* a.iosPairing (a.pairing is always assigned with it)
    started,    \* history: the pairings started so far
    mu,         \* the request that holds a.mu across a step
    loaded,     \* trustedDevice, the record Resume has read from the store
    store,      \* the Keychain: each device's trusted identity key
    devices,    \* a.devices
    sessions,   \* a.iosSessions: the request each session was made for
    st,         \* where each request is
    info,       \* what it carries
    identity,   \* phone: the identity key in its Keychain
    live,       \* phone: the session in SecureAudioSessionStore
    wait,       \* phone: the request it waits for
    wrong,      \* history: wrong confirmations evaluated for each PIN
    grants      \* history: requests each PIN has admitted

pendingVars == <<pin, failures, expired>>
appVars == <<shown, started>>
lockVars == <<mu, loaded>>
serverVars == <<store, devices, sessions>>
phoneVars == <<identity, live, wait>>
history == <<wrong, grants>>
vars == <<pendingVars, appVars, lockVars, serverVars, st, info, phoneVars, history>>

Info == [dev : Devices \union {None}, pairing : Pins \union {None},
         pin : Pins \union {None}, key : Requests \union {None}]
NoInfo == [dev |-> None, pairing |-> None, pin |-> None, key |-> None]

IsPair(r) == info[r].pairing # None

TypeOK ==
    /\ pin \in Pins \union {None}
    /\ failures \in 0..MaxFailures
    /\ expired \in BOOLEAN
    /\ shown \in Pins \union {None}
    /\ started \subseteq Pins
    /\ mu \in Requests \union {None}
    /\ loaded \in Requests \union {None}
    /\ store \in [Devices -> Requests \union {None}]
    /\ devices \subseteq Devices
    /\ sessions \in [Devices -> Requests \union {None}]
    /\ st \in [Requests -> {"unused", "sent", "ok", "refused", "over"}]
    /\ info \in [Requests -> Info]
    /\ identity \in [Devices -> Requests \union {None}]
    /\ live \in [Devices -> Requests \union {None}]
    /\ wait \in [Devices -> Requests \union {None}]
    /\ wrong \in [Pins -> Nat]
    /\ grants \in [Pins -> SUBSET Requests]

Init ==
    /\ pin = None
    /\ failures = 0
    /\ expired = FALSE
    /\ shown = None
    /\ started = {}
    /\ mu = None
    /\ loaded = None
    /\ store = [d \in Devices |-> None]
    /\ devices = {}
    /\ sessions = [d \in Devices |-> None]
    /\ st = [r \in Requests |-> "unused"]
    /\ info = [r \in Requests |-> NoInfo]
    /\ identity = [d \in Devices |-> None]
    /\ live = [d \in Devices |-> None]
    /\ wait = [d \in Devices |-> None]
    /\ wrong = [p \in Pins |-> 0]
    /\ grants = [p \in Pins |-> {}]

\* a.mu is free.
AlwaysFree == TRUE            \* fault: Resume runs without the lock
LockFree == mu = None

-----------------------------------------------------------------------------
(* The Mac.                                                                *)

\* handlePairingStart and Manager.Start: a new PIN replaces the pending one.
StartPairing ==
    /\ LockFree
    /\ \E p \in Pins \ started :
          /\ pin' = p
          /\ shown' = p
          /\ started' = started \union {p}
    /\ failures' = 0
    /\ expired' = FALSE
    /\ UNCHANGED <<lockVars, serverVars, st, info, phoneVars, history>>

\* Time passes ExpiresAt.
Expire ==
    /\ pin # None
    /\ ~expired
    /\ expired' = TRUE
    /\ UNCHANGED <<pin, failures, appVars, lockVars, serverVars, st, info,
                   phoneVars, history>>

\* m.pending.Failures >= MaxFailures
NeverLimited == FALSE                         \* fault: no rate limit
RateLimited == failures >= MaxFailures

\* The checks of Complete before it looks at the confirmation.
Evaluated(r) ==
    /\ pin # None
    /\ info[r].pairing = pin
    /\ ~RateLimited
    /\ ~expired

\* subtle.ConstantTimeCompare(ClientConfirmation, expectedConfirmation)
ChallengeOnly(r) == info[r].pairing = pin     \* fault: the PIN is not bound
Confirmed(r) == info[r].pin = pin

Arrives(r) == st[r] = "sent" /\ LockFree

\* Complete refuses without evaluating: no or another pairing (ErrInvalidPIN),
\* ErrRateLimited, ErrExpiredPIN.
CompleteRefuses(r) ==
    /\ Arrives(r)
    /\ IsPair(r)
    /\ ~Evaluated(r)
    /\ st' = [st EXCEPT ![r] = "refused"]
    /\ UNCHANGED <<pendingVars, appVars, lockVars, serverVars, info, phoneVars,
                   history>>

\* A wrong confirmation counts; the last one allowed is reported as rate limited.
CompleteWrong(r) ==
    /\ Arrives(r)
    /\ IsPair(r)
    /\ Evaluated(r)
    /\ ~Confirmed(r)
    /\ failures' = failures + 1
    /\ wrong' = [wrong EXCEPT ![pin] = @ + 1]
    /\ st' = [st EXCEPT ![r] = "refused"]
    /\ UNCHANGED <<pin, expired, appVars, lockVars, serverVars, info, phoneVars,
                   grants>>

\* SaveTrustedDevice fails: the pairing stays pending.
CompleteNotSaved(r) ==
    /\ Arrives(r)
    /\ IsPair(r)
    /\ Evaluated(r)
    /\ Confirmed(r)
    /\ st' = [st EXCEPT ![r] = "refused"]
    /\ UNCHANGED <<pendingVars, appVars, lockVars, serverVars, info, phoneVars,
                   history>>

\* m.pending = nil
PendingAfterGrant == None

\* a.pairing = nil; a.iosPairing = nil
ShownAfterGrant == None

\* Complete succeeds; completeIOSPairing registers device and session.
CompletePairs(r) ==
    /\ Arrives(r)
    /\ IsPair(r)
    /\ Evaluated(r)
    /\ Confirmed(r)
    /\ LET d == info[r].dev
       IN  /\ store' = [store EXCEPT ![d] = info[r].key]
           /\ devices' = devices \union {d}
           /\ sessions' = [sessions EXCEPT ![d] = r]
    /\ pin' = PendingAfterGrant
    /\ failures' = 0
    /\ expired' = FALSE
    /\ shown' = ShownAfterGrant
    /\ grants' = [grants EXCEPT ![pin] = @ \union {r}]
    /\ st' = [st EXCEPT ![r] = "ok"]
    /\ UNCHANGED <<started, lockVars, info, phoneVars, wrong>>

\* bytes.Equal(trustedDevice.IdentityPublicKey, request.ClientIdentityPublicKey)
DeviceIsKnown(r) == store[info[r].dev] # None  \* fault: the id is enough
IsTrusted(r) == store[info[r].dev] # None /\ store[info[r].dev] = info[r].key

\* Resume refuses an unknown device or key; a Keychain that cannot be read
\* counts as unknown too.
ResumeRefuses(r) ==
    /\ Arrives(r)
    /\ ~IsPair(r)
    /\ st' = [st EXCEPT ![r] = "refused"]
    /\ UNCHANGED <<pendingVars, appVars, lockVars, serverVars, info, phoneVars,
                   history>>

\* Resume has read the trusted device, and goes on under a.mu.
ResumeLoads(r) ==
    /\ Arrives(r)
    /\ ~IsPair(r)
    /\ IsTrusted(r)
    /\ mu' = r
    /\ loaded' = store[info[r].dev]
    /\ UNCHANGED <<pendingVars, appVars, serverVars, st, info, phoneVars, history>>

\* The record goes back to the store with a new LastSeenAt, and
\* resumeIOSPairing replaces the device and its session.
ResumeSaves(r) ==
    /\ mu = r
    /\ LET d == info[r].dev
       IN  /\ store' = [store EXCEPT ![d] = loaded]
           /\ devices' = devices \union {d}
           /\ sessions' = [sessions EXCEPT ![d] = r]
    /\ mu' = None
    /\ loaded' = None
    /\ st' = [st EXCEPT ![r] = "ok"]
    /\ UNCHANGED <<pendingVars, appVars, info, phoneVars, history>>

\* SaveTrustedDevice (or the key agreement) fails.
ResumeFails(r) ==
    /\ mu = r
    /\ mu' = None
    /\ loaded' = None
    /\ st' = [st EXCEPT ![r] = "refused"]
    /\ UNCHANGED <<pendingVars, appVars, serverVars, info, phoneVars, history>>

\* handleDeviceActions: only the list entry goes.
Forget(d) ==
    /\ LockFree
    /\ d \in devices
    /\ devices' = devices \ {d}
    /\ UNCHANGED <<pendingVars, appVars, lockVars, store, sessions, st, info,
                   phoneVars, history>>

\* The service dies and is started again: only the Keychain is left.  A request
\* inside the service gets no answer.
Restart ==
    /\ pin' = None /\ failures' = 0 /\ expired' = FALSE /\ shown' = None
    /\ mu' = None /\ loaded' = None
    /\ devices' = {}
    /\ sessions' = [d \in Devices |-> None]
    /\ st' = IF mu = None THEN st ELSE [st EXCEPT ![mu] = "over"]
    /\ UNCHANGED <<started, store, info, phoneVars, history>>

-----------------------------------------------------------------------------
(* The phones: RemoteMicShellViewModel is busy with one request at a time. *)

Send(d, r, carried) ==
    /\ wait[d] = None
    /\ st[r] = "unused"
    /\ st' = [st EXCEPT ![r] = "sent"]
    /\ info' = [info EXCEPT ![r] = carried]
    /\ wait' = [wait EXCEPT ![d] = r]

\* pair: fetch the challenge, use the PIN the user typed (of this pairing, of an
\* earlier one, or none at all) and a fresh identity key.
RequestPair(d, r, typed) ==
    /\ LockFree
    /\ shown # None
    /\ Send(d, r, [dev |-> d, pairing |-> shown, pin |-> typed, key |-> r])
    /\ UNCHANGED <<pendingVars, appVars, lockVars, serverVars, identity, live, history>>

\* reconnect, with the saved identity.
RequestResume(d, r) ==
    /\ identity[d] # None
    /\ Send(d, r, [dev |-> d, pairing |-> None, pin |-> None, key |-> identity[d]])
    /\ UNCHANGED <<pendingVars, appVars, lockVars, serverVars, identity, live, history>>

\* The session is saved first; saving the identity can then fail.
ReceiveOK(d) ==
    /\ wait[d] # None
    /\ st[wait[d]] = "ok"
    /\ live' = [live EXCEPT ![d] = wait[d]]
    /\ \/ identity' = [identity EXCEPT ![d] = info[wait[d]].key]
       \/ UNCHANGED identity
    /\ st' = [st EXCEPT ![wait[d]] = "over"]
    /\ wait' = [wait EXCEPT ![d] = None]
    /\ UNCHANGED <<pendingVars, appVars, lockVars, serverVars, info, history>>

ReceiveRefused(d) ==
    /\ wait[d] # None
    /\ st[wait[d]] = "refused"
    /\ st' = [st EXCEPT ![wait[d]] = "over"]
    /\ wait' = [wait EXCEPT ![d] = None]
    /\ UNCHANGED <<pendingVars, appVars, lockVars, serverVars, info, identity,
                   live, history>>

\* The request times out on the phone; the Mac may still get to it.
GiveUp(d) ==
    /\ wait[d] # None
    /\ wait' = [wait EXCEPT ![d] = None]
    /\ UNCHANGED <<pendingVars, appVars, lockVars, serverVars, st, info,
                   identity, live, history>>

\* disconnectFromCurrentMac clears the session, forgetKnownMac the identity too.
Disconnect(d) ==
    /\ wait[d] = None
    /\ live[d] # None
    /\ live' = [live EXCEPT ![d] = None]
    /\ UNCHANGED <<pendingVars, appVars, lockVars, serverVars, st, info,
                   identity, wait, history>>

ForgetMac(d) ==
    /\ wait[d] = None
    /\ identity[d] # None
    /\ identity' = [identity EXCEPT ![d] = None]
    /\ live' = [live EXCEPT ![d] = None]
    /\ UNCHANGED <<pendingVars, appVars, lockVars, serverVars, st, info, wait,
                   history>>

-----------------------------------------------------------------------------
Next ==
    \/ StartPairing \/ Expire \/ Restart
    \/ \E r \in Requests :
          \/ CompleteRefuses(r) \/ CompleteWrong(r) \/ CompleteNotSaved(r)
          \/ CompletePairs(r)
          \/ ResumeRefuses(r) \/ ResumeLoads(r) \/ ResumeSaves(r) \/ ResumeFails(r)
    \/ \E d \in Devices :
          \/ \E r \in Requests :
                \/ \E typed \in started \union {None} : RequestPair(d, r, typed)
                \/ RequestResume(d, r)
          \/ ReceiveOK(d) \/ ReceiveRefused(d) \/ GiveUp(d)
          \/ Disconnect(d) \/ ForgetMac(d) \/ Forget(d)

Spec == Init /\ [][Next]_vars

-----------------------------------------------------------------------------
(* Properties.                                                             *)

\* A PIN stands at most MaxFailures wrong guesses, whichever phones they come
\* from, and once they are used up it pairs nobody (Manager.Complete).
GuessBudget ==
    \A p \in Pins :
        /\ wrong[p] <= MaxFailures
        /\ wrong[p] = MaxFailures => grants[p] = {}

\* A PIN is a one-time PIN: it admits one request, although requests cross,
\* saves fail and phones retry (m.pending = nil in Complete).
OneGrantPerPIN == \A p \in Pins : Cardinality(grants[p]) <= 1

\* Every trusted key was brought by that device itself, with the challenge and
\* the PIN of one and the same pairing (Complete, and Resume writing it back).
TrustIsEarned ==
    \A d \in Devices :
        store[d] # None =>
            /\ info[store[d]].dev = d
            /\ info[store[d]].key = store[d]
            /\ info[store[d]].pin # None
            /\ store[d] \in grants[info[store[d]].pin]

\* An audio session is always one of the identity that is trusted now: pairing
\* again or resuming replaces trust and session together (App.iosSessions).
SessionKeyIsTrusted ==
    \A d \in Devices : sessions[d] # None => info[sessions[d]].key = store[d]

\* The trusted key of a device changes only to one just granted: no Resume
\* writes an older record back over a newer pairing, and no restart loses one.
NoTrustRollback ==
    [][\A d \in Devices :
          store'[d] # store[d] =>
              \E p \in Pins : store'[d] \in grants'[p] \ grants[p]]_vars

\* The abstract trust this module implements: a PIN that has expired or run out
\* of guesses is not on offer, and a request is decided when the Mac answers it.
Offered == IF pin # None /\ ~expired /\ ~RateLimited THEN pin ELSE None
Decided == {r \in Requests : st[r] \notin {"unused", "sent"}}

Trust == INSTANCE PairingTrust WITH
    offered <- Offered,
    used <- started,
    trusted <- store,
    session <- sessions,
    decided <- Decided

\* Resume reads the trusted device and writes it back later, and still trust
\* changes as if each request were decided in one step (App.mu, Manager.Complete
\* and Resume).
ImplementsTrust == Trust!Spec

\* docs/product-design.md: "macOS accepts audio only from paired devices".
AudioOnlyFromPaired == \A d \in Devices : sessions[d] # None => d \in devices

\* docs/development-plan.md: "Reconnect works without a new PIN": the identity a
\* phone has saved is the one the Mac trusts (when no request is under way).
SavedIdentityIsTrusted ==
    \A d \in Devices :
        identity[d] # None /\ wait[d] = None /\ (\A r \in Requests : st[r] # "sent")
            => store[d] = identity[d]
==============================================================================
