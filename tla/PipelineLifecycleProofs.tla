----------------------- MODULE PipelineLifecycleProofs -----------------------
(***************************************************************************)
(* Proofs about PipelineLifecycle, for any number of pipelines, requests   *)
(* and concurrent configuration changes.                                   *)
(***************************************************************************)
EXTENDS PipelineLifecycle, FiniteSetTheorems, TLAPS

\* A request holds a pipeline exactly between its retain and its release, and
\* only one that has been current.
HoldersInv ==
    \A c \in Conns :
        /\ conn[c] \in {"holding", "decoding"} <=> holds[c] # None
        /\ holds[c] # None => holds[c] \in replaced \union {pipeline}

\* The local variables of a PUT: its own fresh pipeline until the swap, the
\* pipeline it replaced after it; no two PUTs share either.
PutInv ==
    /\ \A u \in Puts :
        /\ put[u] = "idle" <=> mine[u] = None
        /\ mine[u] # None => mine[u] \in built
        /\ put[u] = "swapped" <=> prev[u] # None
        /\ put[u] \in {"built", "saved"} => mine[u] \notin replaced \union {pipeline}
        /\ prev[u] # None => /\ prev[u] \in replaced
                             /\ prev[u] \notin retired
                             /\ closers[prev[u]] = 0
        /\ prev[u] # None /\ app \in {"serving", "draining"} => prev[u] \notin closed
    /\ \A u, v \in Puts :
        /\ mine[u] # None /\ mine[u] = mine[v] => u = v
        /\ prev[u] # None /\ prev[u] = prev[v] => u = v

\* Where a replaced pipeline can be: each stage excludes the earlier ones.
StageInv ==
    /\ pipeline \in built \ replaced
    /\ replaced \subseteq built
    /\ retired \subseteq replaced
    /\ \A p \in retired : refs[p] > 0 /\ closers[p] = 0
    /\ \A p \in Pipelines :
        /\ closers[p] \in {0, 1}
        /\ closers[p] = 1 => p \in replaced /\ refs[p] = 0
    /\ app \in {"serving", "draining"} =>
        \A p \in closed : p \in replaced /\ refs[p] = 0 /\ closers[p] = 0

\* Only a pipeline that has been current is ever shut down: one a PUT has built
\* and not yet swapped in is in no list that leads to a shutdown.
ClosedInv == closed \union victims \subseteq replaced \union {pipeline}

\* The inductive invariant.
IInv == /\ TypeOK /\ RefsExact /\ HoldersInv /\ PutInv /\ StageInv
        /\ ReplacedIsTracked /\ ClosedInv

-----------------------------------------------------------------------------
LEMMA HoldersFinite == ASSUME NEW p PROVE IsFiniteSet(Holders(p))
<1>1. Holders(p) \subseteq Conns
  BY DEF Holders
<1>. QED
  BY <1>1, FS_Subset, PipelinesAssumption

\* Steps that move no request in or out of a pipeline keep the counts exact.
LEMMA SameHolders ==
    ASSUME RefsExact, UNCHANGED refs,
           \A p \in Pipelines : Holders(p)' = Holders(p)
    PROVE  RefsExact'
BY DEF RefsExact

LEMMA InitIInv == Init => IInv
<1>. SUFFICES ASSUME Init PROVE IInv
  OBVIOUS
<1>. USE PipelinesAssumption DEF Init
<1>1. TypeOK
  BY DEF TypeOK, Phases
<1>2. RefsExact
  <2>1. \A p \in Pipelines : Holders(p) = {}
    BY DEF Holders
  <2>. QED
    BY <2>1, FS_EmptySet DEF RefsExact
<1>3. HoldersInv /\ PutInv /\ StageInv /\ ReplacedIsTracked /\ ClosedInv
  BY DEF HoldersInv, PutInv, StageInv, ReplacedIsTracked, ClosedInv
<1>. QED
  BY <1>1, <1>2, <1>3 DEF IInv

LEMMA RetainKeeps == ASSUME IInv, NEW c \in Conns, Retain(c) PROVE IInv'
<1>. USE PipelinesAssumption DEF IInv, Retain, Retained, connVars, putVars, appVars
<1>1. TypeOK'
  BY DEF TypeOK
<1>2. RefsExact'
  <2>1. c \notin Holders(pipeline) /\ Holders(pipeline)' = Holders(pipeline) \union {c}
    BY DEF Holders, TypeOK
  <2>2. Cardinality(Holders(pipeline)') = Cardinality(Holders(pipeline)) + 1
    BY <2>1, HoldersFinite, FS_AddElement
  <2>3. \A p \in Pipelines : p # pipeline => Holders(p)' = Holders(p)
    BY DEF Holders, TypeOK
  <2>. QED
    BY <2>2, <2>3 DEF RefsExact, TypeOK
<1>3. HoldersInv'
  BY DEF HoldersInv, TypeOK
<1>4. PutInv'
  BY DEF PutInv
<1>5. StageInv'
  BY DEF StageInv, TypeOK
<1>6. ReplacedIsTracked'
  BY DEF ReplacedIsTracked
<1>7. ClosedInv'
  BY DEF ClosedInv
<1>. QED
  BY <1>1, <1>2, <1>3, <1>4, <1>5, <1>6, <1>7

LEMMA ReleaseKeeps == ASSUME IInv, NEW c \in Conns, Release(c) PROVE IInv'
<1>. USE PipelinesAssumption
     DEF IInv, Release, LastRelease, ReleaseShutsDown, connVars, putVars, appVars
<1>. PICK q \in Pipelines : q = holds[c]
  BY DEF HoldersInv, TypeOK
<1>1. q = holds[c] /\ q # None /\ refs[q] \in Nat /\ conn[c] = "holding"
  BY DEF TypeOK
<1>2. /\ c \in Holders(q)
      /\ Holders(q)' = Holders(q) \ {c}
      /\ \A p \in Pipelines : p # q => Holders(p)' = Holders(p)
  BY <1>1 DEF Holders, TypeOK
<1>3. refs[q] > 0 /\ Cardinality(Holders(q)') = refs[q] - 1
  <2>1. Cardinality(Holders(q)') = Cardinality(Holders(q)) - 1
    BY <1>2, HoldersFinite, FS_RemoveElement
  <2>2. Cardinality(Holders(q)') \in Nat
    <3>1. IsFiniteSet(Holders(q) \ {c})
      BY HoldersFinite, FS_Subset
    <3>. QED
      BY <1>2, <3>1, FS_CardinalityType
  <2>. QED
    BY <1>1, <2>1, <2>2 DEF RefsExact
<1>4. refs'[q] = refs[q] - 1 /\ \A p \in Pipelines : p # q => refs'[p] = refs[p]
  BY <1>1, <1>3 DEF TypeOK
<1>5. TypeOK'
  BY <1>1, <1>3, <1>4 DEF TypeOK
<1>6. RefsExact'
  BY <1>2, <1>3, <1>4 DEF RefsExact
<1>7. HoldersInv'
  BY <1>1 DEF HoldersInv, TypeOK
<1>8. PutInv'
  BY <1>1 DEF PutInv, TypeOK
<1>9. StageInv'
  BY <1>1, <1>3, <1>4 DEF StageInv, TypeOK
<1>10. ReplacedIsTracked'
  BY <1>1 DEF ReplacedIsTracked, StageInv, TypeOK
<1>11. ClosedInv'
  BY DEF ClosedInv
<1>. QED
  BY <1>5, <1>6, <1>7, <1>8, <1>9, <1>10, <1>11

\* The steps of a request that touch nothing but its own position.
LEMMA ConnMovesKeep ==
    ASSUME IInv, NEW c \in Conns,
           Connect(c) \/ Leave(c) \/ BeginDecode(c) \/ EndDecode(c)
    PROVE  IInv'
<1>. USE DEF IInv, Connect, Leave, BeginDecode, EndDecode, connVars, putVars, appVars
<1>1. TypeOK' /\ HoldersInv'
  BY DEF TypeOK, HoldersInv
<1>2. RefsExact'
  <2>1. \A p \in Pipelines : Holders(p)' = Holders(p)
    BY DEF Holders, TypeOK
  <2>. QED
    BY <2>1, SameHolders
<1>3. PutInv' /\ StageInv' /\ ReplacedIsTracked' /\ ClosedInv'
  BY DEF PutInv, StageInv, ReplacedIsTracked, ClosedInv
<1>. QED
  BY <1>1, <1>2, <1>3

\* A configuration change moves no request.
LEMMA PutsMoveNobody ==
    ASSUME RefsExact, UNCHANGED <<refs, connVars>>
    PROVE  RefsExact'
<1>1. \A p \in Pipelines : Holders(p)' = Holders(p)
  BY DEF Holders, connVars
<1>. QED
  BY <1>1, SameHolders

LEMMA PutKeeps ==
    ASSUME IInv, NEW u \in Puts,
           PutBuild(u) \/ PutSave(u) \/ PutSaveFails(u)
    PROVE  IInv'
<1>. USE PipelinesAssumption
     DEF IInv, PutBuild, PutSave, PutSaveFails, connVars, putVars, appVars
<1>1. TypeOK'
  <2>1. mine[u] \in Pipelines \union {None}
    BY DEF TypeOK
  <2>2. put[u] = "built" => mine[u] \in Pipelines
    BY <2>1 DEF PutInv, TypeOK
  <2>. QED
    BY <2>1, <2>2 DEF TypeOK
<1>2. RefsExact'
  BY PutsMoveNobody
<1>3. HoldersInv'
  BY DEF HoldersInv
<1>4. PutInv'
  BY DEF PutInv, StageInv, TypeOK
<1>5. StageInv'
  BY DEF StageInv
<1>6. ReplacedIsTracked'
  BY DEF ReplacedIsTracked, TypeOK
<1>7. ClosedInv'
  BY DEF ClosedInv
<1>. QED
  BY <1>1, <1>2, <1>3, <1>4, <1>5, <1>6, <1>7

LEMMA SwapKeeps == ASSUME IInv, NEW u \in Puts, PutSwap(u) PROVE IInv'
<1>. USE PipelinesAssumption DEF IInv, PutSwap, Replacement, connVars, putVars, appVars
<1>1. /\ mine[u] \in Pipelines
      /\ mine[u] \in built
      /\ mine[u] \notin replaced \union {pipeline}
      /\ pipeline \in built \ replaced
      /\ closers[pipeline] = 0
      /\ pipeline \notin retired
      /\ app \in {"serving", "draining"} => pipeline \notin closed
  BY DEF PutInv, StageInv, TypeOK
<1>2. TypeOK'
  BY <1>1 DEF TypeOK
<1>3. RefsExact'
  BY PutsMoveNobody
<1>4. HoldersInv'
  BY DEF HoldersInv
<1>5. PutInv'
  BY <1>1 DEF PutInv, TypeOK
<1>6. StageInv'
  BY <1>1 DEF StageInv, TypeOK
<1>7. ReplacedIsTracked'
  <2>1. put'[u] = "swapped" /\ prev'[u] = pipeline
    BY DEF TypeOK
  <2>2. \A v \in Puts : put[v] = "swapped" => put'[v] = "swapped" /\ prev'[v] = prev[v]
    BY DEF TypeOK
  <2>. QED
    BY <2>1, <2>2 DEF ReplacedIsTracked
<1>8. ClosedInv'
  BY DEF ClosedInv
<1>. QED
  BY <1>2, <1>3, <1>4, <1>5, <1>6, <1>7, <1>8

LEMMA RetireKeeps == ASSUME IInv, NEW u \in Puts, PutRetire(u) PROVE IInv'
<1>. USE PipelinesAssumption
     DEF IInv, PutRetire, Superseded, StillUsed, connVars, putVars, appVars
<1>. PICK q \in Pipelines : q = prev[u]
  BY DEF PutInv, TypeOK
<1>1. /\ q = prev[u] /\ q # None /\ q \in replaced /\ q \notin retired
      /\ closers[q] = 0 /\ refs[q] \in Nat
      /\ app \in {"serving", "draining"} => q \notin closed
  BY DEF PutInv, TypeOK
<1>2. \A v \in Puts : v # u => prev[v] # q
  BY <1>1 DEF PutInv
<1>3. TypeOK'
  BY <1>1 DEF TypeOK
<1>4. RefsExact'
  BY PutsMoveNobody
<1>5. HoldersInv'
  BY DEF HoldersInv
<1>6. PutInv'
  <2>1. CASE refs[q] > 0
    BY <1>1, <1>2, <2>1 DEF PutInv, TypeOK
  <2>2. CASE ~(refs[q] > 0)
    BY <1>1, <1>2, <2>2 DEF PutInv, TypeOK
  <2>. QED
    BY <2>1, <2>2
<1>7. StageInv'
  <2>1. CASE refs[q] > 0
    BY <1>1, <2>1 DEF StageInv, TypeOK
  <2>2. CASE ~(refs[q] > 0)
    BY <1>1, <2>2 DEF StageInv, TypeOK
  <2>. QED
    BY <2>1, <2>2
<1>8. ReplacedIsTracked'
  <2>1. q \in retired' \/ closers'[q] > 0
    BY <1>1 DEF TypeOK
  <2>2. \A p \in Pipelines : closers[p] > 0 => closers'[p] > 0
    BY DEF TypeOK
  <2>3. retired \subseteq retired'
    OBVIOUS
  <2>4. \A v \in Puts : v # u => put'[v] = put[v] /\ prev'[v] = prev[v]
    BY DEF TypeOK
  <2>. QED
    BY <1>1, <2>1, <2>2, <2>3, <2>4 DEF ReplacedIsTracked, TypeOK
<1>9. ClosedInv'
  BY DEF ClosedInv
<1>. QED
  BY <1>3, <1>4, <1>5, <1>6, <1>7, <1>8, <1>9

LEMMA CloserKeeps == ASSUME IInv, NEW p \in Pipelines, RunCloser(p) PROVE IInv'
<1>. USE PipelinesAssumption DEF IInv, RunCloser, connVars, putVars, appVars
<1>1. closers[p] = 1 /\ closers'[p] = 0 /\ p \in replaced /\ refs[p] = 0
  BY DEF StageInv, TypeOK
<1>2. TypeOK'
  BY <1>1 DEF TypeOK
<1>3. RefsExact'
  BY PutsMoveNobody DEF connVars
<1>4. HoldersInv'
  BY DEF HoldersInv
<1>5. PutInv'
  BY <1>1 DEF PutInv, TypeOK
<1>6. StageInv'
  BY <1>1 DEF StageInv, TypeOK
<1>7. ReplacedIsTracked'
  BY <1>1 DEF ReplacedIsTracked, TypeOK
<1>8. ClosedInv'
  BY <1>1 DEF ClosedInv
<1>. QED
  BY <1>2, <1>3, <1>4, <1>5, <1>6, <1>7, <1>8

LEMMA ShutdownKeeps ==
    ASSUME IInv,
           \/ StopServing \/ DeadlineExpires \/ Collect \/ Exit
           \/ \E p \in Pipelines : CloseVictim(p)
    PROVE  IInv'
<1>. USE PipelinesAssumption
     DEF IInv, StopServing, DeadlineExpires, Collect, Exit, CloseVictim,
         connVars, putVars, appVars
<1>1. TypeOK'
  BY DEF TypeOK, Phases
<1>2. RefsExact'
  BY PutsMoveNobody DEF connVars
<1>3. HoldersInv'
  BY DEF HoldersInv
<1>4. PutInv'
  BY DEF PutInv
<1>5. StageInv'
  BY DEF StageInv
<1>6. ReplacedIsTracked'
  BY DEF ReplacedIsTracked
<1>7. ClosedInv'
  BY DEF ClosedInv, StageInv
<1>. QED
  BY <1>1, <1>2, <1>3, <1>4, <1>5, <1>6, <1>7

LEMMA NextIInv == IInv /\ [Next]_vars => IInv'
<1>. SUFFICES ASSUME IInv, [Next]_vars PROVE IInv'
  OBVIOUS
<1>1. CASE \E c \in Conns : Retain(c)
  BY <1>1, RetainKeeps
<1>2. CASE \E c \in Conns : Release(c)
  BY <1>2, ReleaseKeeps
<1>3. CASE \E c \in Conns : Connect(c) \/ Leave(c) \/ BeginDecode(c) \/ EndDecode(c)
  BY <1>3, ConnMovesKeep
<1>4. CASE \E u \in Puts : PutBuild(u) \/ PutSave(u) \/ PutSaveFails(u)
  BY <1>4, PutKeeps
<1>5. CASE \E u \in Puts : PutSwap(u)
  BY <1>5, SwapKeeps
<1>6. CASE \E u \in Puts : PutRetire(u)
  BY <1>6, RetireKeeps
<1>7. CASE \E p \in Pipelines : RunCloser(p)
  BY <1>7, CloserKeeps
<1>8. CASE \/ StopServing \/ DeadlineExpires \/ Collect \/ Exit
           \/ \E p \in Pipelines : CloseVictim(p)
  BY <1>8, ShutdownKeeps
<1>9. CASE UNCHANGED vars
  <2>. USE <1>9 DEF IInv, vars, connVars, putVars, appVars
  <2>1. RefsExact'
    BY PutsMoveNobody
  <2>2. /\ TypeOK' /\ HoldersInv' /\ PutInv' /\ StageInv'
        /\ ReplacedIsTracked' /\ ClosedInv'
    BY DEF TypeOK, HoldersInv, PutInv, StageInv, ReplacedIsTracked, ClosedInv
  <2>. QED
    BY <2>1, <2>2
<1>. QED
  BY <1>1, <1>2, <1>3, <1>4, <1>5, <1>6, <1>7, <1>8, <1>9 DEF Next

\* The inductive invariant holds in every reachable state.
THEOREM Invariant == Spec => []IInv
BY InitIInv, NextIInv, PTL DEF Spec

-----------------------------------------------------------------------------
\* A recognizer is never destroyed under a request that decodes with it while
\* the service runs (retainPipelineLocked, retirePipeline).
THEOREM NoUseAfterDestroyHolds == Spec => []NoUseAfterDestroy
<1>1. IInv => NoUseAfterDestroy
  <2>. SUFFICES ASSUME IInv, app \in {"serving", "draining"},
                       NEW c \in Conns, conn[c] = "decoding", holds[c] \in closed
                PROVE  FALSE
    BY DEF NoUseAfterDestroy
  <2>1. holds[c] \in Pipelines /\ refs[holds[c]] = 0
    BY DEF IInv, StageInv, TypeOK
  <2>2. c \in Holders(holds[c])
    BY DEF Holders
  <2>. QED
    BY <2>1, <2>2, HoldersFinite, FS_EmptySet DEF IInv, RefsExact
<1>. QED
  BY <1>1, Invariant, PTL

\* The variables have their types.
THEOREM TypeOKHolds == Spec => []TypeOK
BY Invariant, PTL DEF IInv

\* The reference counts equal the requests in flight, whatever the order of
\* retains, releases and swaps (retainPipelineLocked and its closure).
THEOREM RefsExactHolds == Spec => []RefsExact
BY Invariant, PTL DEF IInv

\* A request that comes in while the service accepts any gets an open pipeline.
THEOREM CurrentIsOpenHolds == Spec => []CurrentIsOpen
<1>1. IInv => CurrentIsOpen
  BY DEF IInv, StageInv, TypeOK, CurrentIsOpen
<1>. QED
  BY <1>1, Invariant, PTL

\* retirePipeline and the last release never both start the shutdown goroutine
\* of a pipeline, nor does one of them twice.
THEOREM ShutdownOnceHolds == Spec => []ShutdownOnce
<1>1. IInv => ShutdownOnce
  BY DEF IInv, StageInv, TypeOK, ShutdownOnce
<1>. QED
  BY <1>1, Invariant, PTL

\* An entry of a.retiredPipelines has a request left whose release removes it.
THEOREM RetiredIsHeldHolds == Spec => []RetiredIsHeld
<1>1. IInv => RetiredIsHeld
  BY DEF IInv, StageInv, TypeOK, RetiredIsHeld
<1>. QED
  BY <1>1, Invariant, PTL

\* A pipeline a PUT has replaced is never lost between the unlock and its
\* shutdown (handleConfig, retirePipeline, shutdownPipelineAsync).
THEOREM ReplacedIsTrackedHolds == Spec => []ReplacedIsTracked
BY Invariant, PTL DEF IInv

-----------------------------------------------------------------------------
(* The lifecycle implements the lease protocol: what each step maps to.    *)

LEMMA LeaseInit == Init => Lease!Init
<1>. SUFFICES ASSUME Init PROVE Lease!Init
  OBVIOUS
<1>1. [p \in Pipelines |-> Stage(p)]
         = [p \in Pipelines |-> IF p = Initial THEN "current" ELSE "unbuilt"]
  BY DEF Init, Stage
<1>2. [p \in Pipelines |-> Holders(p)] = [p \in Pipelines |-> {}]
  BY DEF Init, Holders
<1>3. (app \in {"collected", "exited"}) = FALSE
  BY DEF Init
<1>. QED
  BY <1>1, <1>2, <1>3, PipelinesAssumption DEF Lease!Init

\* A step that changes neither a pipeline's stage, nor its holders, nor
\* whether the process is on its way down is a stutter of the protocol.
LEMMA LeaseStutter ==
    ASSUME \A p \in Pipelines : Stage(p)' = Stage(p) /\ Holders(p)' = Holders(p),
           (app' \in {"collected", "exited"}) = (app \in {"collected", "exited"})
    PROVE  UNCHANGED Lease!vars
BY DEF Lease!vars

LEMMA BuildIsBuild ==
    ASSUME IInv, NEW u \in Puts, PutBuild(u)
    PROVE  \E p \in Pipelines : Lease!Build(p)
<1>. USE DEF PutBuild, connVars, appVars
<1>. PICK p \in Pipelines \ built : built' = built \union {p}
  OBVIOUS
<1>1. p \notin closed \union replaced \union {pipeline}
  BY DEF IInv, StageInv, ClosedInv
<1>2. Stage(p) = "unbuilt" /\ Stage(p)' = "built"
  BY <1>1 DEF Stage
<1>3. \A q \in Pipelines : q # p => Stage(q)' = Stage(q)
  BY DEF Stage
<1>4. \A q \in Pipelines : Holders(q)' = Holders(q)
  BY DEF Holders
<1>. QED
  BY <1>2, <1>3, <1>4 DEF Lease!Build

LEMMA SwapIsInstall ==
    ASSUME IInv, NEW u \in Puts, PutSwap(u)
    PROVE  \E p \in Pipelines : Lease!Install(p)
<1>. USE DEF PutSwap, Replacement, connVars, appVars
<1>. DEFINE p == mine[u]
<1>1. /\ p \in Pipelines
      /\ p \in built \ (closed \union replaced \union {pipeline})
  BY DEF IInv, PutInv, StageInv, ClosedInv, TypeOK
<1>2. Stage(p) = "built" /\ Stage(p)' = "current"
  BY <1>1 DEF Stage
<1>3. \A q \in Pipelines :
         q # p => Stage(q)' = IF Stage(q) = "current" THEN "draining" ELSE Stage(q)
  BY DEF Stage, IInv, StageInv
<1>4. \A q \in Pipelines : Holders(q)' = Holders(q)
  BY DEF Holders
<1>. QED
  BY <1>1, <1>2, <1>3, <1>4 DEF Lease!Install

LEMMA RetainIsLease ==
    ASSUME IInv, NEW c \in Conns, Retain(c)
    PROVE  \E p \in Pipelines : Lease!Lease(c, p)
<1>. USE DEF Retain, putVars, appVars
<1>1. pipeline \in Pipelines /\ (pipeline \in closed => app \in {"collected", "exited"})
  BY DEF IInv, StageInv, TypeOK, Phases
<1>2. \A q \in Pipelines : Stage(q)' = Stage(q)
  BY DEF Stage
<1>3. Holders(pipeline)' = Holders(pipeline) \union {c}
  BY DEF Holders, IInv, TypeOK
<1>4. \A q \in Pipelines : q # pipeline => Holders(q)' = Holders(q)
  BY DEF Holders, IInv, TypeOK
<1>5. Stage(pipeline) \in {"current", "closed"}
      /\ (Stage(pipeline) = "closed" => pipeline \in closed)
  BY DEF Stage
<1>. QED
  BY <1>1, <1>2, <1>3, <1>4, <1>5 DEF Lease!Lease

LEMMA ReleaseIsReturn ==
    ASSUME IInv, NEW c \in Conns, Release(c)
    PROVE  \E p \in Pipelines : Lease!Return(c, p)
<1>. USE DEF Release, putVars, appVars
<1>. PICK p \in Pipelines : p = holds[c]
  BY DEF IInv, HoldersInv, TypeOK
<1>1. conn \in [Conns -> {"away", "open", "holding", "decoding"}]
      /\ holds \in [Conns -> Pipelines \union {None}]
  BY DEF IInv, TypeOK
<1>2. /\ c \in Holders(p)
      /\ Holders(p)' = Holders(p) \ {c}
      /\ \A q \in Pipelines : q # p => Holders(q)' = Holders(q)
  BY <1>1 DEF Holders
<1>3. \A q \in Pipelines : Stage(q)' = Stage(q)
  BY DEF Stage
<1>4. (app' \in {"collected", "exited"}) = (app \in {"collected", "exited"})
  OBVIOUS
<1>5. Lease!Return(c, p)
  BY <1>2, <1>3, <1>4 DEF Lease!Return
<1>. QED
  BY <1>5

\* The shutdown goroutine finds its pipeline replaced and without a holder, or
\* closed already by App.Shutdown.
LEMMA CloserIsClose ==
    ASSUME IInv, NEW p \in Pipelines, RunCloser(p)
    PROVE  Lease!Close(p) \/ UNCHANGED Lease!vars
<1>. USE DEF RunCloser, connVars, appVars
<1>1. p \in replaced /\ p # pipeline /\ Cardinality(Holders(p)) = 0
  BY DEF IInv, StageInv, TypeOK, RefsExact
<1>2. Holders(p) = {}
  BY <1>1, HoldersFinite, FS_EmptySet
<1>3. \A q \in Pipelines : Holders(q)' = Holders(q)
  BY DEF Holders
<1>4. \A q \in Pipelines : q # p => Stage(q)' = Stage(q)
  BY DEF Stage
<1>5. CASE p \in closed
  BY <1>3, <1>4, <1>5, LeaseStutter DEF Stage
<1>6. CASE p \notin closed
  <2>1. Stage(p) = "draining" /\ Stage(p)' = "closed"
    BY <1>1, <1>6 DEF Stage
  <2>. QED
    BY <1>2, <1>3, <1>4, <2>1 DEF Lease!Close
<1>. QED
  BY <1>5, <1>6

LEMMA VictimIsClose ==
    ASSUME IInv, NEW p \in Pipelines, CloseVictim(p)
    PROVE  Lease!Close(p) \/ UNCHANGED Lease!vars
<1>. USE DEF CloseVictim, connVars
<1>1. p \in replaced \union {pipeline}
  BY DEF IInv, ClosedInv
<1>2. \A q \in Pipelines : Holders(q)' = Holders(q)
  BY DEF Holders
<1>3. \A q \in Pipelines : q # p => Stage(q)' = Stage(q)
  BY DEF Stage
<1>4. CASE late
  BY <1>2, <1>4, LeaseStutter DEF Stage
<1>5. CASE ~late
  <2>1. Stage(p) # "unbuilt" /\ Stage(p)' = "closed"
    BY <1>1, <1>5 DEF Stage
  <2>. QED
    BY <1>2, <1>3, <2>1 DEF Lease!Close
<1>. QED
  BY <1>4, <1>5

LEMMA CollectIsTerminate == Collect => Lease!Terminate
<1>. SUFFICES ASSUME Collect PROVE Lease!Terminate
  OBVIOUS
<1>1. \A p \in Pipelines : Stage(p)' = Stage(p) /\ Holders(p)' = Holders(p)
  BY DEF Collect, Stage, Holders, connVars
<1>. QED
  BY <1>1 DEF Collect, Lease!Terminate

\* Every other step moves a request or a PUT between two stages the protocol
\* does not tell apart.
LEMMA OthersStutter ==
    ASSUME IInv,
           \/ \E c \in Conns : Connect(c) \/ Leave(c) \/ BeginDecode(c) \/ EndDecode(c)
           \/ \E u \in Puts : PutSave(u) \/ PutSaveFails(u) \/ PutRetire(u)
           \/ StopServing \/ DeadlineExpires \/ Exit
           \/ UNCHANGED vars
    PROVE  UNCHANGED Lease!vars
<1>. USE DEF Connect, Leave, BeginDecode, EndDecode, PutSave, PutSaveFails,
             PutRetire, StopServing, DeadlineExpires, Exit, vars, connVars, appVars
<1>1. \A p \in Pipelines : Stage(p)' = Stage(p)
  BY DEF Stage
<1>2. \A p \in Pipelines : Holders(p)' = Holders(p)
  BY DEF Holders, IInv, TypeOK
<1>3. (app' \in {"collected", "exited"}) = (app \in {"collected", "exited"})
  OBVIOUS
<1>. QED
  BY <1>1, <1>2, <1>3, LeaseStutter

LEMMA LeaseStep == IInv /\ [Next]_vars => [Lease!Next]_(Lease!vars)
<1>. SUFFICES ASSUME IInv, [Next]_vars PROVE [Lease!Next]_(Lease!vars)
  OBVIOUS
<1>. USE DEF Lease!Next
<1>1. CASE \E u \in Puts : PutBuild(u)
  BY <1>1, BuildIsBuild
<1>2. CASE \E u \in Puts : PutSwap(u)
  BY <1>2, SwapIsInstall
<1>3. CASE \E c \in Conns : Retain(c)
  BY <1>3, RetainIsLease
<1>4. CASE \E c \in Conns : Release(c)
  BY <1>4, ReleaseIsReturn
<1>5. CASE \E p \in Pipelines : RunCloser(p)
  BY <1>5, CloserIsClose
<1>6. CASE \E p \in Pipelines : CloseVictim(p)
  BY <1>6, VictimIsClose
<1>7. CASE Collect
  BY <1>7, CollectIsTerminate
<1>8. CASE \/ \E c \in Conns : Connect(c) \/ Leave(c) \/ BeginDecode(c) \/ EndDecode(c)
           \/ \E u \in Puts : PutSave(u) \/ PutSaveFails(u) \/ PutRetire(u)
           \/ StopServing \/ DeadlineExpires \/ Exit
           \/ UNCHANGED vars
  BY <1>8, OthersStutter
<1>. QED
  BY <1>1, <1>2, <1>3, <1>4, <1>5, <1>6, <1>7, <1>8 DEF Next

\* Seen as stages and holders only, the App's pipelines follow the lease
\* protocol: built, current, draining, closed, and closed under nobody while
\* the service runs.
THEOREM ImplementsLeaseHolds == Spec => ImplementsLease
BY LeaseInit, LeaseStep, Invariant, PTL DEF Spec, ImplementsLease, Lease!Spec
==============================================================================
