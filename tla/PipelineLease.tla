---------------------------- MODULE PipelineLease ----------------------------
(***************************************************************************)
(* What the App promises about its audio pipelines, without saying how.    *)
(*                                                                         *)
(* A pipeline is built, at most once installed as the current one, drained *)
(* once another replaces it, and closed when nobody leases it any more.    *)
(* Requests lease the current pipeline only, and a leased pipeline stays   *)
(* open for as long as the service runs.  Once the process is on its way   *)
(* down ("over") a pipeline may be closed under its lease holders.         *)
(***************************************************************************)
EXTENDS FiniteSets

CONSTANTS
    Pipelines,   \* every pipeline object the process may ever build
    Conns        \* the requests that may lease a pipeline

VARIABLES
    status,      \* the life stage of each pipeline
    lessees,     \* the requests that hold each pipeline
    over         \* the process is shutting down

vars == <<status, lessees, over>>

Stages == {"unbuilt", "built", "current", "draining", "closed"}

TypeOK ==
    /\ status \in [Pipelines -> Stages]
    /\ lessees \in [Pipelines -> SUBSET Conns]
    /\ over \in BOOLEAN

Init ==
    /\ \E first \in Pipelines :
          status = [p \in Pipelines |-> IF p = first THEN "current" ELSE "unbuilt"]
    /\ lessees = [p \in Pipelines |-> {}]
    /\ over = FALSE

Build(p) ==
    /\ status[p] = "unbuilt"
    /\ status' = [status EXCEPT ![p] = "built"]
    /\ UNCHANGED <<lessees, over>>

\* The new pipeline takes over; the one it replaces drains, unless a
\* shutdown has closed it already.
Install(p) ==
    /\ status[p] = "built"
    /\ status' = [q \in Pipelines |->
                     IF q = p THEN "current"
                     ELSE IF status[q] = "current" THEN "draining"
                     ELSE status[q]]
    /\ UNCHANGED <<lessees, over>>

Lease(c, p) ==
    /\ status[p] = "current" \/ (over /\ status[p] = "closed")
    /\ lessees' = [lessees EXCEPT ![p] = @ \union {c}]
    /\ UNCHANGED <<status, over>>

Return(c, p) ==
    /\ c \in lessees[p]
    /\ lessees' = [lessees EXCEPT ![p] = @ \ {c}]
    /\ UNCHANGED <<status, over>>

\* While the service runs, only a replaced pipeline without lessees closes.
Close(p) ==
    /\ \/ status[p] = "draining" /\ lessees[p] = {}
       \/ over /\ status[p] # "unbuilt"
    /\ status' = [status EXCEPT ![p] = "closed"]
    /\ UNCHANGED <<lessees, over>>

Terminate ==
    /\ over' = TRUE
    /\ UNCHANGED <<status, lessees>>

Next ==
    \/ \E p \in Pipelines : Build(p) \/ Install(p) \/ Close(p)
    \/ \E c \in Conns, p \in Pipelines : Lease(c, p) \/ Return(c, p)
    \/ Terminate

Spec == Init /\ [][Next]_vars
==============================================================================
