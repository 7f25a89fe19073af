-------------------------------- MODULE Service --------------------------------
(***************************************************************************)
(* The background service as the Mac app keeps it: the app's start and end *)
(* (TalkaMacApp.swift), ServerProcessManager with its port check, restarts *)
(* and termination, the config file that the app refreshes                 *)
(* (RuntimeConfigGenerator.swift) and a PUT rewrites (config/load.go), the *)
(* start and end of talka-server (cmd/talka-server/main.go, app.Serve) and *)
(* the dns-sd process it advertises itself with (mdns/publisher.go).       *)
(*                                                                         *)
(* App and servers are processes of their own.  A server outlives an app   *)
(* that crashes, and a dns-sd the server that started it.                  *)
(***************************************************************************)
EXTENDS Integers

CONSTANTS
    MaxApps,       \* starts of the app (bound)
    MaxRestarts,   \* maxRestarts of the manager
    MaxFaults      \* crashes, failed calls and foreign programs (bound)

ASSUME ServiceAssumption ==
    MaxApps \in Nat \ {0} /\ MaxRestarts \in Nat /\ MaxFaults \in Nat

VARIABLES
    app,           \* the app, and how far ServerProcessManager.start is
    gen,           \* starts of the app so far: each has a broker socket of its own
    socket,        \* the broker socket of this app, 0 when the broker did not start
    verdict,       \* what the status of the server on the port came to
    copy,          \* what refreshEmbeddedResourcePathsIfNeeded has read
    running,       \* isRunning
    managed,       \* process, 0 for nil
    restarts,      \* restartCount
    delayed,       \* restartTask sleeps
    error,         \* lastError is set
    launched,      \* servers started so far; a server's number is its pid
    stage,         \* where each server is
    signalled,     \* servers that got SIGTERM
    uses,          \* TALKA_PASTE_BROKER_SOCKET of each server
    name,          \* server.service_name in each server's a.cfg
    put,           \* the PUT whose file each server is writing
    advert,        \* dns-sd of each server, and in whose hands it is
    file,          \* config.yaml
    acked,         \* the last PUT, when it was confirmed to the running app
    foreign,       \* another program listens on the port
    faults

managerVars == <<verdict, copy, running, managed, restarts, delayed, error>>
appVars == <<app, gen, socket, managerVars>>
serverVars == <<stage, signalled, uses, name, put, advert>>
fileVars == <<file, acked>>
vars == <<appVars, launched, serverVars, fileVars, foreign, faults>>

Pids == 1..(MaxApps * (MaxRestarts + 1))

\* service_name as the code tells it apart: the one portReuseAction knows,
\* another, and one that Validate accepts and mdns.ValidateDeviceName refuses.
Names == {"Talka", "renamed", "refused"}

Listens == {"bound", "publishing", "serving"}
Alive == {"loading", "loaded", "stopping", "leaving", "aborting"} \union Listens
Ended == {"done", "failed", "crashed"}    \* exit 0, exit 1, a signal

TypeOK ==
    /\ app \in {"closed", "starting", "probing", "answered", "replacing",
                "generating", "refreshing", "open"}
    /\ gen \in 0..MaxApps /\ socket \in 0..gen
    /\ verdict \in {"none", "reuse", "replace", "refuse"}
    /\ copy \in Names \union {"none", "torn"}
    /\ running \in BOOLEAN /\ delayed \in BOOLEAN /\ error \in BOOLEAN
    /\ managed \in Pids \union {0} /\ launched \in Pids \union {0}
    /\ restarts \in 0..MaxRestarts
    /\ stage \in [Pids -> Alive \union Ended \union {"none"}]
    /\ signalled \subseteq Pids
    /\ uses \in [Pids -> 0..MaxApps]
    /\ name \in [Pids -> Names \union {"none"}]
    /\ put \in [Pids -> Names \union {"none"}]
    /\ advert \in [Pids -> {"none", "publisher", "goroutine", "main"}]
    /\ file \in Names \union {"absent", "torn"}
    /\ acked \in Names \union {"none"}
    /\ foreign \in BOOLEAN
    /\ faults \in 0..MaxFaults

Init ==
    /\ app = "closed" /\ gen = 0 /\ socket = 0
    /\ verdict = "none" /\ copy = "none"
    /\ running = FALSE /\ managed = 0 /\ restarts = 0
    /\ delayed = FALSE /\ error = FALSE
    /\ launched = 0
    /\ stage = [p \in Pids |-> "none"]
    /\ signalled = {}
    /\ uses = [p \in Pids |-> 0]
    /\ name = [p \in Pids |-> "none"]
    /\ put = [p \in Pids |-> "none"]
    /\ advert = [p \in Pids |-> "none"]
    /\ file = "absent" /\ acked = "none"
    /\ foreign = FALSE /\ faults = 0

Fault == faults < MaxFaults /\ faults' = faults + 1

\* isPortInUse: something accepts on the port, the kernel for a server that has
\* bound it and does not serve yet.
OnPort == {p \in Pids : stage[p] \in Listens}
PortInUse == foreign \/ OnPort # {}

-----------------------------------------------------------------------------
(* The app.                                                                *)

\* TalkaMacApp.init: the broker, the manager, and start() once.
LaunchApp ==
    /\ app = "closed" /\ gen < MaxApps
    /\ app' = "starting" /\ gen' = gen + 1
    /\ \/ socket' = gen + 1 /\ UNCHANGED faults
       \/ socket' = 0 /\ Fault            \* broker.start throws
    /\ UNCHANGED <<managerVars, launched, serverVars, fileVars, foreign>>

Gone ==
    /\ app # "closed" /\ app' = "closed" /\ socket' = 0
    /\ verdict' = "none" /\ copy' = "none"
    /\ running' = FALSE /\ managed' = 0 /\ restarts' = 0
    /\ delayed' = FALSE /\ error' = FALSE
    /\ UNCHANGED <<gen, launched, stage, uses, name, put, advert, fileVars, foreign>>

\* applicationWillTerminate: terminate() signals the managed server, and the
\* app is gone before the SIGKILL it has put off.
Quit ==
    /\ Gone
    /\ signalled' = signalled \union {p \in {managed} : p # 0 /\ stage[p] \in Alive}
    /\ UNCHANGED faults

AppCrash == Gone /\ Fault /\ UNCHANGED signalled

-----------------------------------------------------------------------------
(* ServerProcessManager.start                                              *)

Start ==
    /\ app = "starting" /\ ~running
    /\ error' = FALSE
    /\ app' = IF PortInUse THEN "probing" ELSE "generating"
    /\ UNCHANGED <<gen, socket, verdict, copy, running, managed, restarts, delayed,
                   launched, serverVars, fileVars, foreign, faults>>

IgnoresBroker(p) ==                       \* fault: any Talka server will do
    IF name[p] # "Talka" THEN "refuse" ELSE "reuse"
PortReuseAction(p) ==
    IF name[p] # "Talka" THEN "refuse"
    ELSE IF socket # 0 /\ uses[p] # socket THEN "replace" ELSE "reuse"

\* GET /v1/status: a server that has not come to serving lets it wait.
Probe ==
    /\ app = "probing"
    /\ \/ \E p \in OnPort : stage[p] = "serving" /\ verdict' = PortReuseAction(p)
       \/ OnPort = {} /\ verdict' = "refuse"
    /\ app' = "answered"
    /\ UNCHANGED <<gen, socket, copy, running, managed, restarts, delayed, error,
                   launched, serverVars, fileVars, foreign, faults>>

\* checkPortReuse goes on with the answer: the server may have gone meanwhile,
\* or another one come.
Reuse ==
    /\ app = "answered" /\ verdict = "reuse"
    /\ app' = "open" /\ running' = TRUE
    /\ UNCHANGED <<gen, socket, verdict, copy, managed, restarts, delayed, error,
                   launched, serverVars, fileVars, foreign, faults>>

Refuse ==
    /\ app = "answered" /\ verdict = "refuse"
    /\ app' = "open" /\ error' = TRUE
    /\ UNCHANGED <<gen, socket, verdict, copy, running, managed, restarts, delayed,
                   launched, serverVars, fileVars, foreign, faults>>

\* terminateProcessListening: SIGTERM to whoever listens now.
Replace ==
    /\ app = "answered" /\ verdict = "replace"
    /\ app' = "replacing"
    /\ signalled' = signalled \union OnPort
    /\ foreign' = FALSE
    /\ UNCHANGED <<gen, socket, managerVars, launched, stage, uses, name, put,
                   advert, fileVars, faults>>

\* Half a second later.
Replaced ==
    /\ app = "replacing"
    /\ IF PortInUse THEN app' = "open" /\ error' = TRUE
                    ELSE app' = "generating" /\ UNCHANGED error
    /\ UNCHANGED <<gen, socket, verdict, copy, running, managed, restarts, delayed,
                   launched, serverVars, fileVars, foreign, faults>>

-----------------------------------------------------------------------------
(* Starting a server.                                                      *)

\* self.process = process
NotKept(p) == UNCHANGED managed           \* fault: nobody holds the new server
Keep(p) == managed' = p

\* launch
Launch ==
    LET p == launched + 1 IN
    /\ launched' = p
    /\ stage' = [stage EXCEPT ![p] = "loading"]
    /\ uses' = [uses EXCEPT ![p] = socket]
    /\ Keep(p) /\ running' = TRUE
    /\ UNCHANGED <<error, faults>>

\* process.run throws, there is no executable, or generateConfig throws.
LaunchFails ==
    /\ Fault /\ error' = TRUE
    /\ UNCHANGED <<running, managed, launched, stage, uses>>

\* startManagedServer, from the config on.
Started ==
    /\ app' = "open" /\ restarts' = 0
    /\ Launch \/ LaunchFails
    /\ UNCHANGED <<gen, socket, verdict, delayed, signalled, name, put, advert, acked, foreign>>

StartsAfresh == file' = "Talka"           \* fault: writes the default over the file
FirstConfig == file' = IF file = "absent" THEN "Talka" ELSE file

\* generateConfig: the first config is written, an existing one is read ...
GenerateConfig ==
    /\ app = "generating"
    /\ FirstConfig
    /\ IF file = "absent"
          THEN Started /\ UNCHANGED copy
          ELSE /\ app' = "refreshing" /\ copy' = file
               /\ UNCHANGED <<gen, socket, verdict, running, managed, restarts, delayed,
                              error, launched, serverVars, acked, foreign, faults>>

\* ... and replaced in one step, when its ASR block is not the one of this app
\* bundle.  In an empty file there is none.
Refresh ==
    /\ app = "refreshing"
    /\ \/ file' = file
       \/ copy # "torn" /\ file' = copy
    /\ copy' = "none"
    /\ Started

-----------------------------------------------------------------------------
(* Supervising it.                                                         *)

OneMore == restarts <= MaxRestarts        \* fault: off by one
MayRestart == restarts < MaxRestarts

\* handleTermination: 1, 2, 4 seconds, and after that nothing, not even an
\* error.
HandleTermination ==
    /\ app # "closed" /\ running /\ managed # 0
    /\ stage[managed] \in Ended
    /\ running' = FALSE /\ managed' = 0
    /\ IF stage[managed] # "done" /\ MayRestart
          THEN restarts' = restarts + 1 /\ delayed' = TRUE
          ELSE restarts' = 0 /\ UNCHANGED delayed
    /\ UNCHANGED <<app, gen, socket, verdict, copy, error, launched, serverVars,
                   fileVars, foreign, faults>>

\* restartTask wakes up; the config file is the one it was.
RestartFires ==
    /\ delayed /\ delayed' = FALSE
    /\ Launch \/ LaunchFails
    /\ UNCHANGED <<app, gen, socket, verdict, copy, restarts, signalled, name, put,
                   advert, fileVars, foreign>>

-----------------------------------------------------------------------------
(* talka-server                                                            *)

Goto(p, s) == stage' = [stage EXCEPT ![p] = s]

\* The process ends, and what it was writing stays as it is.
End(p, s) ==
    /\ Goto(p, s)
    /\ name' = [name EXCEPT ![p] = "none"]
    /\ put' = [put EXCEPT ![p] = "none"]
    /\ UNCHANGED <<appVars, launched, signalled, uses, advert, fileVars, foreign>>

Moves(p, s) ==
    /\ Goto(p, s)
    /\ UNCHANGED <<appVars, launched, signalled, uses, put, fileVars, foreign, faults>>

\* Config.Validate: a PUT's settings pass it, with any service_name that is not
\* blank.  An empty file gives Default, whose model files are not where it says.
Valid(settings) == settings \in Names

\* config.Load and app.New
Load(p) ==
    /\ stage[p] = "loading"
    /\ \/ /\ Valid(file) /\ Moves(p, "loaded")
          /\ name' = [name EXCEPT ![p] = file]
          /\ UNCHANGED advert
       \/ ~Valid(file) /\ End(p, "failed") /\ UNCHANGED faults

\* SIGTERM before signal.NotifyContext.
KilledEarly(p) ==
    /\ stage[p] = "loading" /\ p \in signalled
    /\ End(p, "crashed")
    /\ UNCHANGED faults

Listen(p) ==
    /\ stage[p] = "loaded"
    /\ \/ ~PortInUse /\ Moves(p, "bound") /\ UNCHANGED <<name, advert>>
       \/ PortInUse /\ End(p, "failed") /\ UNCHANGED faults

\* mdns.NewDescriptor and ValidateTXT
Publishable(n) == n # "refused"

\* buildDiscoveryEvidence
BuildEvidence(p) ==
    /\ stage[p] = "bound"
    /\ \/ Publishable(name[p]) /\ Moves(p, "publishing") /\ UNCHANGED <<name, advert>>
       \/ ~Publishable(name[p]) /\ End(p, "failed") /\ UNCHANGED faults

\* publisher.Start; without dns-sd, or with ctx done, the service goes on
\* unadvertised.
Publish(p) ==
    /\ stage[p] = "publishing"
    /\ \E a \in {"publisher", "none"} : advert' = [advert EXCEPT ![p] = a]
    /\ Moves(p, "serving")
    /\ UNCHANGED name

\* Serve with ctx done: server.Shutdown closes the listener and gives the
\* requests two seconds.
Shutdown(p) ==
    /\ stage[p] = "serving" /\ p \in signalled
    /\ Moves(p, "stopping")
    /\ UNCHANGED <<name, advert>>

ShutdownEnds(p) ==
    /\ stage[p] = "stopping"
    /\ Moves(p, "leaving")
    /\ UNCHANGED <<name, advert>>

\* server.Serve returns an error.
ServeFails(p) ==
    /\ stage[p] = "serving" /\ Fault
    /\ Goto(p, "aborting")
    /\ UNCHANGED <<appVars, launched, signalled, uses, name, put, advert, fileVars, foreign>>

Withdraws(p, before, after) ==
    /\ advert[p] = before
    /\ advert' = [advert EXCEPT ![p] = after]
    /\ UNCHANGED <<appVars, launched, stage, signalled, uses, name, put, fileVars,
                   foreign, faults>>

\* publisher.Stop takes the process under the lock and kills it after: on the
\* goroutine that waits for ctx ...
StopOnSignal(p) ==
    /\ p \in signalled /\ stage[p] \in Alive
    /\ Withdraws(p, "publisher", "goroutine") \/ Withdraws(p, "goroutine", "none")

\* ... and in run's deferred call.
StopOnReturn(p) ==
    /\ stage[p] \in {"leaving", "aborting"}
    /\ Withdraws(p, "publisher", "main") \/ Withdraws(p, "main", "none")

NoDefer(p) == TRUE                        \* fault: only the goroutine stops it
StopReturned(p) == advert[p] \in {"none", "goroutine"}

Exit(p) ==
    /\ StopReturned(p)
    /\ \/ stage[p] = "leaving" /\ End(p, "done")
       \/ stage[p] = "aborting" /\ End(p, "failed")
    /\ UNCHANGED faults

Crash(p) == stage[p] \in Alive /\ Fault /\ End(p, "crashed")

-----------------------------------------------------------------------------
(* PUT /v1/config from the app, past Validate and buildPipelineFromConfig. *)

\* os.WriteFile truncates the file ...
PutTruncates(p) ==
    /\ stage[p] = "serving" /\ app # "closed" /\ put[p] = "none"
    /\ \E n \in Names : Valid(n) /\ put' = [put EXCEPT ![p] = n]
    /\ file' = "torn" /\ acked' = "none"
    /\ UNCHANGED <<appVars, launched, stage, signalled, uses, name, advert, foreign, faults>>

\* Shutdown and run do not wait for a request that takes longer.
Handling == {"serving", "stopping", "leaving", "aborting"}

\* ... and writes it, a.cfg follows, and the app is told.
PutWrites(p) ==
    /\ stage[p] \in Handling /\ put[p] # "none"
    /\ file' = put[p]
    /\ acked' = IF app = "open" THEN put[p] ELSE "none"
    /\ name' = [name EXCEPT ![p] = put[p]]
    /\ put' = [put EXCEPT ![p] = "none"]
    /\ UNCHANGED <<appVars, launched, stage, signalled, uses, advert, foreign, faults>>

\* The disk is full.
PutFails(p) ==
    /\ stage[p] \in Handling /\ put[p] # "none" /\ Fault
    /\ put' = [put EXCEPT ![p] = "none"]
    /\ UNCHANGED <<appVars, launched, stage, signalled, uses, name, advert, fileVars, foreign>>

-----------------------------------------------------------------------------

\* Another program takes the port, or gives it back.
ForeignTakes ==
    /\ ~PortInUse /\ Fault /\ foreign' = TRUE
    /\ UNCHANGED <<appVars, launched, serverVars, fileVars>>

ForeignLeaves ==
    /\ foreign /\ foreign' = FALSE
    /\ UNCHANGED <<appVars, launched, serverVars, fileVars, faults>>

Manager ==
    \/ Start \/ Probe \/ Reuse \/ Refuse \/ Replace \/ Replaced
    \/ GenerateConfig \/ Refresh \/ HandleTermination \/ RestartFires

Server(p) ==
    \/ Load(p) \/ KilledEarly(p) \/ Listen(p) \/ BuildEvidence(p) \/ Publish(p)
    \/ Shutdown(p) \/ ShutdownEnds(p) \/ StopOnReturn(p) \/ Exit(p)

Next ==
    \/ LaunchApp \/ Quit \/ AppCrash \/ Manager
    \/ \E p \in Pids :
          \/ Server(p) \/ ServeFails(p) \/ StopOnSignal(p) \/ Crash(p)
          \/ PutTruncates(p) \/ PutWrites(p) \/ PutFails(p)
    \/ ForeignTakes \/ ForeignLeaves

Spec == Init /\ [][Next]_vars

\* The main queue and the servers run; nobody need open, close or use the app,
\* nothing need fail, and the goroutine of a server that ends may be too late.
FairSpec ==
    /\ Spec
    /\ WF_vars(Manager)
    /\ \A p \in Pids : WF_vars(Server(p)) /\ WF_vars(PutWrites(p))

-----------------------------------------------------------------------------
(* Correctness.                                                            *)

\* The settings a PUT has confirmed to the app are the ones in the file until
\* the next PUT begins, whichever process is restarted, replaced or crashes,
\* and whatever the app refreshes in the file.
SettingsKept == acked # "none" => file = acked

\* A server that ends by itself leaves no advertisement behind that it still
\* had in its publisher; only the goroutine that has just taken it out may lose
\* it.  Stop is called twice, by the goroutine and by run's deferred call.
AdvertIsWithdrawn ==
    \A p \in Pids :
        stage[p] \in {"done", "failed"} /\ advert[p] # "none" =>
            p \in signalled /\ advert[p] = "goroutine"

\* One start of the app launches one server and restarts it maxRestarts times,
\* whichever servers fail and crash, and whichever launches fail in between
\* (restartCount, which startManagedServer and handleTermination reset).
RestartsAreBounded == launched <= gen * (MaxRestarts + 1)

\* No server of the running app escapes it: one that is alive and has the broker
\* socket of this app is the one the manager holds, so that there are never two
\* of them, and its end is noticed (launch, handleTermination, restartTask).
OwnServerIsManaged ==
    \A p \in Pids : socket # 0 /\ uses[p] = socket /\ stage[p] \in Alive => p = managed

\* A server that inserts through the broker of this app serves.
Served == \E p \in Pids : stage[p] = "serving" /\ (socket = 0 \/ uses[p] = socket)

\* The server this app has started meets another one on the port.
Contested == managed # 0 /\ (foreign \/ OnPort \ {managed} # {})

\* After a start of the app, and after the first crash of the server it has
\* started, a server serves that inserts through this app, unless the app ends,
\* an error is shown, the port is another's, or the config file cannot be
\* started from: a stale server is replaced and a crash survived.
FirstCrash == managed # 0 /\ restarts = 0 /\ stage[managed] = "crashed"

ServiceComesUp ==
    app = "starting" \/ FirstCrash ~>
        Served \/ app = "closed" \/ error \/ Contested \/ file \in {"torn", "refused"}

\* The service works again after the app was restarted, with any settings that
\* were accepted (docs/development-plan.md).
RelaunchServes ==
    app = "starting" ~> Served \/ app = "closed" \/ error \/ file = "torn"
================================================================================
