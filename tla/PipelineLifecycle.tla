-------------------------- MODULE PipelineLifecycle --------------------------
(***************************************************************************)
(* The life of the App's audio pipelines (internal/app/app.go): a PUT of   *)
(* the configuration builds a new pipeline and swaps it in while websocket *)
(* requests still use the old one; the old one is shut down by the last    *)
(* request that lets go of it.  Shutting a pipeline down destroys the      *)
(* native recognizer (internal/asr/sherpa_onnx_darwin.go), which its       *)
(* streams use without holding the provider's lock.                        *)
(*                                                                         *)
(* Every block the code runs under a.mu is one action; between two such    *)
(* blocks of the same request any other request may run.  A configuration  *)
(* is named by the pipeline built from it, so a.cfg and a.pipeline, which  *)
(* are always assigned together, are one variable.                         *)
(***************************************************************************)
EXTENDS Integers, FiniteSets

CONSTANTS
    Pipelines,   \* the pipeline objects the process may build
    Initial,     \* the one New builds
    Conns,       \* audio and key-press websocket requests
    Puts,        \* PUT /v1/config requests
    None         \* no pipeline

ASSUME PipelinesAssumption ==
    /\ Initial \in Pipelines
    /\ None \notin Pipelines
    /\ IsFiniteSet(Conns)

VARIABLES
    pipeline,    \* a.pipeline (and the a.cfg it was built from)
    savedCfg,    \* the configuration on disk; None: a failed write left no usable file
    refs,        \* a.pipelineRefs; 0 stands for no entry
    retired,     \* a.retiredPipelines
    closers,     \* shutdownPipelineAsync goroutines still to run, per pipeline
    closed,      \* pipelines whose recognizer is destroyed
    built,       \* pipelines whose recognizer was created
    replaced,    \* history: pipelines another one has replaced
    conn,        \* where each websocket request is
    holds,       \* the pipeline it retains
    put,         \* where each PUT request is
    mine,        \* the pipeline it has built
    prev,        \* previousPipeline, read under a.mu and used after the unlock
    app,         \* Serve / Shutdown
    victims,     \* the pipelines Shutdown collected and has still to shut down
    late         \* the 2 s shutdown context has expired

connVars == <<conn, holds>>
putVars == <<put, mine, prev>>
appVars == <<app, victims, late>>
vars == <<pipeline, savedCfg, refs, retired, closers, closed, built, replaced,
          connVars, putVars, appVars>>

Phases == {"serving", "draining", "collected", "exited"}
Running == app # "exited"

TypeOK ==
    /\ pipeline \in Pipelines
    /\ savedCfg \in Pipelines \union {None}
    /\ refs \in [Pipelines -> Nat]
    /\ retired \subseteq Pipelines
    /\ closers \in [Pipelines -> Nat]
    /\ closed \subseteq Pipelines
    /\ built \subseteq Pipelines
    /\ replaced \subseteq Pipelines
    /\ conn \in [Conns -> {"away", "open", "holding", "decoding"}]
    /\ holds \in [Conns -> Pipelines \union {None}]
    /\ put \in [Puts -> {"idle", "built", "saved", "swapped"}]
    /\ mine \in [Puts -> Pipelines \union {None}]
    /\ prev \in [Puts -> Pipelines \union {None}]
    /\ app \in Phases
    /\ victims \subseteq Pipelines
    /\ late \in BOOLEAN

Init ==
    /\ pipeline = Initial
    /\ savedCfg = Initial
    /\ refs = [p \in Pipelines |-> 0]
    /\ retired = {}
    /\ closers = [p \in Pipelines |-> 0]
    /\ closed = {}
    /\ built = {Initial}
    /\ replaced = {}
    /\ conn = [c \in Conns |-> "away"]
    /\ holds = [c \in Conns |-> None]
    /\ put = [u \in Puts |-> "idle"]
    /\ mine = [u \in Puts |-> None]
    /\ prev = [u \in Puts |-> None]
    /\ app = "serving"
    /\ victims = {}
    /\ late = FALSE

-----------------------------------------------------------------------------
(* Websocket requests: handleIOSAudioStream and what it calls.             *)

Connect(c) ==
    /\ app = "serving"
    /\ conn[c] = "away"
    /\ conn' = [conn EXCEPT ![c] = "open"]
    /\ UNCHANGED <<pipeline, savedCfg, refs, retired, closers, closed, built,
                   replaced, holds, putVars, appVars>>

\* The peer leaves, a read fails, or the device has no session.
Leave(c) ==
    /\ Running
    /\ conn[c] = "open"
    /\ conn' = [conn EXCEPT ![c] = "away"]
    /\ UNCHANGED <<pipeline, savedCfg, refs, retired, closers, closed, built,
                   replaced, holds, putVars, appVars>>

\* a.pipelineRefs[pipeline]++
CountOnce(p) == [refs EXCEPT ![p] = 1]      \* fault: sets the entry instead
Retained(p) == [refs EXCEPT ![p] = @ + 1]

\* iosStreamingAudioResources, iosKeyPressResources and
\* processEncryptedIOSAudioSession: read a.pipeline and retain it under a.mu.
Retain(c) ==
    /\ Running
    /\ conn[c] = "open"
    /\ conn' = [conn EXCEPT ![c] = "holding"]
    /\ holds' = [holds EXCEPT ![c] = pipeline]
    /\ refs' = Retained(pipeline)
    /\ UNCHANGED <<pipeline, savedCfg, retired, closers, closed, built,
                   replaced, putVars, appVars>>

\* decodeReadyLocked and resultLocked copy the recognizer pointer under
\* provider.mu and use the copy after the unlock; NewStream uses it inside.
\* On a closed provider they return at once.
BeginDecode(c) ==
    /\ Running
    /\ conn[c] = "holding"
    /\ holds[c] \notin closed
    /\ conn' = [conn EXCEPT ![c] = "decoding"]
    /\ UNCHANGED <<pipeline, savedCfg, refs, retired, closers, closed, built,
                   replaced, holds, putVars, appVars>>

EndDecode(c) ==
    /\ Running
    /\ conn[c] = "decoding"
    /\ conn' = [conn EXCEPT ![c] = "holding"]
    /\ UNCHANGED <<pipeline, savedCfg, refs, retired, closers, closed, built,
                   replaced, holds, putVars, appVars>>

\* refs <= 1: this release is the last one.
LastOffByOne(p) == refs[p] < 1               \* fault
LastRelease(p) == refs[p] <= 1

\* shouldShutdown: the last release of a retired pipeline shuts it down.
AnyReleaseShuts(p) == p \in retired          \* fault: not only the last one
LookupAfterDelete(p) ==                      \* fault: deletes before it looks
    LastRelease(p) /\ p \in retired \ {p}
ReleaseShutsDown(p) == LastRelease(p) /\ p \in retired

\* The closure retainPipelineLocked returns, deferred by every handler.
Release(c) ==
    /\ Running
    /\ conn[c] = "holding"
    /\ LET p == holds[c]
       IN  /\ refs' = [refs EXCEPT ![p] = IF LastRelease(p) THEN 0 ELSE @ - 1]
           /\ retired' = IF LastRelease(p) THEN retired \ {p} ELSE retired
           /\ closers' = IF ReleaseShutsDown(p)
                            THEN [closers EXCEPT ![p] = @ + 1]
                            ELSE closers
    /\ conn' = [conn EXCEPT ![c] = "away"]
    /\ holds' = [holds EXCEPT ![c] = None]
    /\ UNCHANGED <<pipeline, savedCfg, closed, built, replaced, putVars, appVars>>

-----------------------------------------------------------------------------
(* PUT /v1/config: handleConfig, step by step.                             *)

\* Decode, Validate and buildPipelineFromConfig, which creates a recognizer.
PutBuild(u) ==
    /\ app = "serving"
    /\ put[u] = "idle"
    /\ \E p \in Pipelines \ built :
          /\ built' = built \union {p}
          /\ mine' = [mine EXCEPT ![u] = p]
    /\ put' = [put EXCEPT ![u] = "built"]
    /\ UNCHANGED <<pipeline, savedCfg, refs, retired, closers, closed,
                   replaced, connVars, prev, appVars>>

PutSave(u) ==
    /\ Running
    /\ put[u] = "built"
    /\ savedCfg' = mine[u]
    /\ put' = [put EXCEPT ![u] = "saved"]
    /\ UNCHANGED <<pipeline, refs, retired, closers, closed, built, replaced,
                   connVars, mine, prev, appVars>>

\* config.Save fails: the request ends and nobody refers to the new pipeline.
\* os.WriteFile truncates the file before it writes.
PutSaveFails(u) ==
    /\ Running
    /\ put[u] = "built"
    /\ savedCfg' \in {savedCfg, None}
    /\ put' = [put EXCEPT ![u] = "idle"]
    /\ mine' = [mine EXCEPT ![u] = None]
    /\ UNCHANGED <<pipeline, refs, retired, closers, closed, built,
                   replaced, connVars, prev, appVars>>

\* a.pipeline = pipeline
AssignPrevious(u) == prev[u]                 \* fault: the wrong local variable
Replacement(u) == mine[u]

PutSwap(u) ==
    /\ Running
    /\ put[u] = "saved"
    /\ prev' = [prev EXCEPT ![u] = pipeline]
    /\ replaced' = replaced \union {pipeline}
    /\ pipeline' = Replacement(u)
    /\ put' = [put EXCEPT ![u] = "swapped"]
    /\ UNCHANGED <<savedCfg, refs, retired, closers, closed, built, connVars,
                   mine, appVars>>

\* The argument of retirePipeline, and its test a.pipelineRefs[pipeline] > 0.
Superseded(u) == prev[u]
IgnoreRefs(p) == FALSE                       \* fault: no reference counting
StillUsed(p) == refs[p] > 0

\* retirePipeline(previousPipeline), then the response.
PutRetire(u) ==
    /\ Running
    /\ put[u] = "swapped"
    /\ LET p == Superseded(u)
       IN  IF StillUsed(p)
              THEN retired' = retired \union {p} /\ UNCHANGED closers
              ELSE closers' = [closers EXCEPT ![p] = @ + 1] /\ UNCHANGED retired
    /\ put' = [put EXCEPT ![u] = "idle"]
    /\ mine' = [mine EXCEPT ![u] = None]
    /\ prev' = [prev EXCEPT ![u] = None]
    /\ UNCHANGED <<pipeline, savedCfg, refs, closed, built, replaced, connVars,
                   appVars>>

\* The goroutine of shutdownPipelineAsync; its own 5 s context is fresh.
RunCloser(p) ==
    /\ Running
    /\ closers[p] > 0
    /\ closers' = [closers EXCEPT ![p] = @ - 1]
    /\ closed' = closed \union {p}
    /\ UNCHANGED <<pipeline, savedCfg, refs, retired, built, replaced, connVars,
                   putVars, appVars>>

-----------------------------------------------------------------------------
(* Serve's ctx.Done branch and App.Shutdown.                               *)

\* server.Shutdown: no new request is accepted.
StopServing ==
    /\ app = "serving"
    /\ app' = "draining"
    /\ UNCHANGED <<pipeline, savedCfg, refs, retired, closers, closed, built,
                   replaced, connVars, putVars, victims, late>>

\* server.Shutdown and App.Shutdown share one 2 s context, and a PUT in flight
\* (loading a model takes seconds) can use it up.
DeadlineExpires ==
    /\ app = "draining"
    /\ ~late
    /\ \E u \in Puts : put[u] # "idle"
    /\ late' = TRUE
    /\ UNCHANGED <<pipeline, savedCfg, refs, retired, closers, closed, built,
                   replaced, connVars, putVars, app, victims>>

\* server.Shutdown waits for plain HTTP requests, not for hijacked websockets;
\* then Shutdown collects the pipelines under a.mu, whatever their refs.
Collect ==
    /\ app = "draining"
    /\ late \/ \A u \in Puts : put[u] = "idle"
    /\ app' = "collected"
    /\ victims' = {pipeline} \union retired
    /\ UNCHANGED <<pipeline, savedCfg, refs, retired, closers, closed, built,
                   replaced, connVars, putVars, late>>

\* pipeline.Shutdown(ctx): Close refuses an expired context.
CloseVictim(p) ==
    /\ app = "collected"
    /\ p \in victims
    /\ victims' = victims \ {p}
    /\ closed' = IF late THEN closed ELSE closed \union {p}
    /\ UNCHANGED <<pipeline, savedCfg, refs, retired, closers, built, replaced,
                   connVars, putVars, app, late>>

Exit ==
    /\ app = "collected"
    /\ victims = {}
    /\ app' = "exited"
    /\ UNCHANGED <<pipeline, savedCfg, refs, retired, closers, closed, built,
                   replaced, connVars, putVars, victims, late>>

-----------------------------------------------------------------------------
Next ==
    \/ \E c \in Conns : \/ Connect(c) \/ Leave(c) \/ Retain(c)
                        \/ BeginDecode(c) \/ EndDecode(c) \/ Release(c)
    \/ \E u \in Puts : \/ PutBuild(u) \/ PutSave(u) \/ PutSaveFails(u)
                       \/ PutSwap(u) \/ PutRetire(u)
    \/ \E p \in Pipelines : RunCloser(p) \/ CloseVictim(p)
    \/ StopServing \/ DeadlineExpires \/ Collect \/ Exit

Spec == Init /\ [][Next]_vars

\* Go runs every ready goroutine.  A websocket request ends because its
\* connection has a deadline (iosWebSocketSessionTimeout), however many frames
\* it decodes before: hence strong fairness for Release.
Fairness ==
    /\ \A c \in Conns : WF_vars(EndDecode(c)) /\ SF_vars(Release(c))
    /\ \A u \in Puts : WF_vars(PutRetire(u))
    /\ \A p \in Pipelines : WF_vars(RunCloser(p))

FairSpec == Spec /\ Fairness

-----------------------------------------------------------------------------
(* Properties.                                                             *)

Holders(p) == {c \in Conns : conn[c] \in {"holding", "decoding"} /\ holds[c] = p}

\* No native call runs on a destroyed recognizer while the service is up: a
\* pipeline a request retains is not shut down by a configuration change,
\* however PUTs and requests interleave (retainPipelineLocked/retirePipeline).
NoUseAfterDestroy ==
    app \in {"serving", "draining"} =>
        \A c \in Conns : conn[c] = "decoding" => holds[c] \notin closed

\* The reference counts are exactly the requests in flight, so the last release
\* is recognised as the last (the closure of retainPipelineLocked).
RefsExact == \A p \in Pipelines : refs[p] = Cardinality(Holders(p))

\* The pipeline new requests get is open as long as the service accepts them.
CurrentIsOpen == app = "serving" => pipeline \notin closed

\* A replaced pipeline is shut down once at most: retirePipeline and the last
\* release never both start the goroutine, nor does one of them twice.
ShutdownOnce ==
    \A p \in Pipelines : closers[p] <= 1 /\ (closers[p] = 1 /\ app = "serving" => p \notin closed)

\* Nothing is forgotten in a.retiredPipelines: an entry has a request left
\* whose release will remove it, and it is never the current pipeline.
RetiredIsHeld == \A p \in retired : refs[p] > 0 /\ p # pipeline

\* A replaced pipeline is never lost track of: it is with the PUT that replaced
\* it, waiting for its requests, about to be shut down, or shut down.
ReplacedIsTracked ==
    \A p \in replaced :
        \/ \E u \in Puts : put[u] = "swapped" /\ prev[u] = p
        \/ p \in retired
        \/ closers[p] > 0
        \/ p \in closed

\* Every replaced pipeline is shut down in the end, unless the process goes
\* down before (then it dies with the process).
ReplacedIsClosed ==
    \A p \in Pipelines : p \in replaced ~> (p \in closed \/ app # "serving")

\* TestConfigEndpointPersistsTypedConfig: the configuration a PUT reported is the
\* one in the file (when no PUT is half-way and no write has failed).
SavedIsActive == (\A u \in Puts : put[u] = "idle") => savedCfg \in {pipeline, None}

\* TestServeStopsASRRuntimeOnContextCancel: the ASR runtime in use is stopped
\* when Serve returns.
ExitStopsASR == app = "exited" => pipeline \in closed

\* The abstract lease protocol this module implements.
Stage(p) ==
    IF p \in closed THEN "closed"
    ELSE IF p = pipeline THEN "current"
    ELSE IF p \in replaced THEN "draining"
    ELSE IF p \in built THEN "built"
    ELSE "unbuilt"

Lease == INSTANCE PipelineLease WITH
    status <- [p \in Pipelines |-> Stage(p)],
    lessees <- [p \in Pipelines |-> Holders(p)],
    over <- app \in {"collected", "exited"}

\* The lifecycle is an implementation of the lease protocol.
ImplementsLease == Lease!Spec
==============================================================================
