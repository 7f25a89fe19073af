----------------------------- MODULE PairingTrust -----------------------------
(***************************************************************************)
(* What pairing promises about trust, without saying how.                  *)
(*                                                                         *)
(* The Mac offers one PIN at a time, and each PIN once.  It decides every  *)
(* request once: it refuses it, or it opens a session for it.  Only a      *)
(* grant changes which key of a phone is trusted; it uses up the offered   *)
(* PIN and the key is the one made for that request, so that a key which   *)
(* has been replaced never comes back.  A session never changes trust, and *)
(* a restart keeps it.                                                     *)
(***************************************************************************)

CONSTANTS
    Devices,     \* phones
    Pins,        \* the PINs the Mac may offer
    Requests,    \* the requests phones may make; also the key made for each
    None

VARIABLES
    offered,     \* the PIN that would pair a phone now
    used,        \* the PINs offered so far
    trusted,     \* the key trusted for each phone
    session,     \* the request each phone's session was opened for
    decided      \* the requests the Mac is done with

vars == <<offered, used, trusted, session, decided>>

TypeOK ==
    /\ offered \in Pins \union {None}
    /\ used \subseteq Pins
    /\ trusted \in [Devices -> Requests \union {None}]
    /\ session \in [Devices -> Requests \union {None}]
    /\ decided \subseteq Requests

Init ==
    /\ offered = None
    /\ used = {}
    /\ trusted = [d \in Devices |-> None]
    /\ session = [d \in Devices |-> None]
    /\ decided = {}

Offer(p) ==
    /\ p \notin used
    /\ offered' = p
    /\ used' = used \union {p}
    /\ UNCHANGED <<trusted, session, decided>>

\* The offer ends without anybody having paired.
Lapse ==
    /\ offered # None
    /\ offered' = None
    /\ UNCHANGED <<used, trusted, session, decided>>

Decide(r) ==
    /\ r \notin decided
    /\ decided' = decided \union {r}

\* The phone is trusted by the key it brought, and has a session with it.
Grant(d, r) ==
    /\ offered # None
    /\ Decide(r)
    /\ offered' = None
    /\ trusted' = [trusted EXCEPT ![d] = r]
    /\ session' = [session EXCEPT ![d] = r]
    /\ UNCHANGED used

\* A phone that is trusted gets a new session.
Resume(d, r) ==
    /\ trusted[d] # None
    /\ Decide(r)
    /\ session' = [session EXCEPT ![d] = r]
    /\ UNCHANGED <<offered, used, trusted>>

\* A refusal may be the one that ends the offer.
Refuse(r) ==
    /\ Decide(r)
    /\ offered' \in {offered, None}
    /\ UNCHANGED <<used, trusted, session>>

\* Everything but trust is gone, also the request that was being worked on.
Restart ==
    /\ offered' = None
    /\ session' = [d \in Devices |-> None]
    /\ UNCHANGED decided \/ \E r \in Requests : Decide(r)
    /\ UNCHANGED <<used, trusted>>

Next ==
    \/ \E p \in Pins : Offer(p)
    \/ Lapse
    \/ Restart
    \/ \E r \in Requests :
          \/ Refuse(r)
          \/ \E d \in Devices : Grant(d, r) \/ Resume(d, r)

Spec == Init /\ [][Next]_vars
===============================================================================
