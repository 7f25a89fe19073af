----------------------------- MODULE ServiceProofs -----------------------------
(***************************************************************************)
(* Proofs about Service, for any number of starts of the app, restarts of  *)
(* a server and faults.                                                    *)
(***************************************************************************)
EXTENDS Service, TLAPS

\* The servers g starts of the app may launch: each one and its restarts.
Budget(g) == g * (MaxRestarts + 1)

\* One start of the app spends no more than its share of launches: restartCount
\* goes back to zero only where the manager launches nothing more.
BudgetInv ==
    /\ app = "closed" =>
        managed = 0 /\ ~delayed /\ restarts = 0 /\ launched <= Budget(gen)
    /\ app \notin {"closed", "open"} =>
        /\ gen > 0 /\ managed = 0 /\ ~delayed /\ restarts = 0
        /\ launched <= Budget(gen - 1)
    /\ app = "open" =>
        /\ gen > 0 /\ launched <= Budget(gen)
        /\ managed # 0 => ~delayed /\ launched <= Budget(gen - 1) + 1 + restarts
        /\ delayed => restarts > 0 /\ launched <= Budget(gen - 1) + restarts

\* A pid that has not been given out has no server and no advertisement.
FreshInv == \A p \in Pids : p > launched => stage[p] = "none" /\ advert[p] = "none"

\* Who has a server's dns-sd in hand, and until when.
AdvertInv ==
    \A p \in Pids :
        /\ advert[p] # "none" => stage[p] \in Handling \union Ended
        /\ advert[p] = "goroutine" => p \in signalled
        /\ stage[p] \in {"done", "failed"} => advert[p] \in {"none", "goroutine"}

\* What the app is about to write back over the config file is what the last
\* confirmed PUT left there.
CopyInv ==
    app = "refreshing" =>
        /\ copy # "none"
        /\ acked # "none" => copy = file

\* The inductive invariant.
IInv == TypeOK /\ BudgetInv /\ FreshInv /\ AdvertInv /\ SettingsKept /\ CopyInv

-----------------------------------------------------------------------------
LEMMA BudgetStep ==
    ASSUME NEW g \in Nat
    PROVE  Budget(g) \in Nat /\ Budget(g + 1) = Budget(g) + MaxRestarts + 1
BY ServiceAssumption DEF Budget

LEMMA BudgetGrows ==
    ASSUME NEW g \in 0..MaxApps
    PROVE  Budget(g) <= Budget(MaxApps)
<1>1. (MaxApps - g) * (MaxRestarts + 1) >= 0
  BY ServiceAssumption
<1>2. MaxApps * (MaxRestarts + 1) = g * (MaxRestarts + 1) + (MaxApps - g) * (MaxRestarts + 1)
  BY ServiceAssumption
<1>3. /\ g * (MaxRestarts + 1) \in Int
      /\ MaxApps * (MaxRestarts + 1) \in Int
      /\ (MaxApps - g) * (MaxRestarts + 1) \in Int
  BY ServiceAssumption
<1>. QED
  BY <1>1, <1>2, <1>3 DEF Budget

LEMMA PidsAreBudget == Pids = 1..Budget(MaxApps) /\ 0 \notin Pids
BY DEF Pids, Budget

\* The next pid is within the bound as long as the app has launches left.
LEMMA NextPid ==
    ASSUME TypeOK, launched < Budget(gen)
    PROVE  launched + 1 \in Pids
<1>1. gen \in 0..MaxApps /\ launched \in Nat
  BY PidsAreBudget DEF TypeOK
<1>2. Budget(gen) \in Nat /\ Budget(MaxApps) \in Nat /\ Budget(gen) <= Budget(MaxApps)
  BY <1>1, BudgetStep, BudgetGrows, ServiceAssumption
<1>. QED
  BY <1>1, <1>2, PidsAreBudget

\* What a start of the app adds to the launches of the earlier ones.
LEMMA ShareOfStart ==
    ASSUME TypeOK, gen > 0
    PROVE  /\ launched \in Nat /\ Budget(gen - 1) \in Nat
           /\ Budget(gen) = Budget(gen - 1) + MaxRestarts + 1
<1>1. gen \in Nat /\ gen - 1 \in Nat /\ launched \in Nat
  BY PidsAreBudget, ServiceAssumption DEF TypeOK
<1>2. Budget(gen - 1) \in Nat /\ Budget((gen - 1) + 1) = Budget(gen - 1) + MaxRestarts + 1
  BY <1>1, BudgetStep
<1>3. (gen - 1) + 1 = gen
  BY <1>1
<1>. QED
  BY <1>1, <1>2, <1>3

LEMMA FaultTyped == TypeOK /\ Fault => faults' \in 0..MaxFaults
BY ServiceAssumption DEF TypeOK, Fault

LEMMA InitIInv == Init => IInv
<1>. SUFFICES ASSUME Init PROVE IInv
  OBVIOUS
<1>. USE ServiceAssumption DEF Init
<1>1. TypeOK
  <2>1. /\ 0 \in 0..MaxApps /\ 0 \in 0..0 /\ 0 \in 0..MaxRestarts /\ 0 \in 0..MaxFaults
    OBVIOUS
  <2>. QED
    BY <2>1 DEF TypeOK
<1>2. BudgetInv
  BY BudgetStep DEF BudgetInv
<1>3. FreshInv /\ AdvertInv /\ SettingsKept /\ CopyInv
  BY DEF FreshInv, AdvertInv, SettingsKept, CopyInv
<1>. QED
  BY <1>1, <1>2, <1>3 DEF IInv

-----------------------------------------------------------------------------
(* The app and its manager.                                                *)

\* Steps of the app that launch no server.
LEMMA ServersUntouched ==
    ASSUME IInv, UNCHANGED <<launched, stage, advert>>, signalled \subseteq signalled'
    PROVE  FreshInv' /\ AdvertInv'
BY DEF IInv, FreshInv, AdvertInv

LEMMA LaunchAppKeeps == ASSUME IInv, LaunchApp PROVE IInv'
<1>. USE ServiceAssumption DEF IInv, LaunchApp, managerVars, serverVars, fileVars
<1>1. TypeOK'
  <2>1. /\ gen \in Nat /\ gen' = gen + 1 /\ gen' \in 0..MaxApps
        /\ socket' \in 0..gen' /\ faults' \in 0..MaxFaults
    BY FaultTyped DEF TypeOK
  <2>. QED
    BY <2>1 DEF TypeOK
<1>2. BudgetInv'
  BY DEF BudgetInv, TypeOK
<1>3. FreshInv' /\ AdvertInv'
  BY ServersUntouched
<1>4. SettingsKept' /\ CopyInv'
  BY DEF SettingsKept, CopyInv
<1>. QED
  BY <1>1, <1>2, <1>3, <1>4

LEMMA GoneKeeps == ASSUME IInv, Quit \/ AppCrash PROVE IInv'
<1>. USE ServiceAssumption DEF IInv, Quit, AppCrash, Gone, fileVars
<1>1. TypeOK'
  <2>1. /\ gen \in Nat /\ socket' \in 0..gen' /\ restarts' \in 0..MaxRestarts
        /\ faults' \in 0..MaxFaults /\ signalled' \subseteq Pids
    BY FaultTyped DEF TypeOK
  <2>. QED
    BY <2>1 DEF TypeOK
<1>2. BudgetInv'
  <2>1. app \notin {"closed", "open"} => launched <= Budget(gen)
    <3>. SUFFICES ASSUME app \notin {"closed", "open"} PROVE launched <= Budget(gen)
      OBVIOUS
    <3>1. gen > 0 /\ launched <= Budget(gen - 1)
      BY DEF BudgetInv
    <3>. QED
      BY <3>1, ShareOfStart
  <2>. QED
    BY <2>1 DEF BudgetInv
<1>3. FreshInv' /\ AdvertInv'
  BY ServersUntouched
<1>4. SettingsKept' /\ CopyInv'
  BY DEF SettingsKept, CopyInv
<1>. QED
  BY <1>1, <1>2, <1>3, <1>4

\* The port check opens the app or goes on to the config, and launches nothing.
LEMMA ProbingKeeps ==
    ASSUME IInv, Start \/ Probe \/ Reuse \/ Refuse \/ Replace \/ Replaced
    PROVE  IInv'
<1>. USE ServiceAssumption
     DEF IInv, Start, Probe, Reuse, Refuse, Replace, Replaced, PortReuseAction,
         managerVars, serverVars, fileVars
<1>1. TypeOK'
  BY DEF TypeOK, OnPort
<1>2. BudgetInv'
  <2>1. /\ gen > 0 /\ launched <= Budget(gen - 1)
        /\ managed = 0 /\ ~delayed /\ restarts = 0
    BY DEF BudgetInv
  <2>2. launched <= Budget(gen)
    BY <2>1, ShareOfStart
  <2>3. UNCHANGED <<gen, launched, managed, delayed, restarts>>
        /\ app # "closed" /\ app' # "closed"
    OBVIOUS
  <2>. QED
    BY <2>1, <2>2, <2>3 DEF BudgetInv
<1>3. FreshInv' /\ AdvertInv'
  BY ServersUntouched
<1>4. SettingsKept' /\ CopyInv'
  BY DEF SettingsKept, CopyInv
<1>. QED
  BY <1>1, <1>2, <1>3, <1>4

\* A launch takes a pid nobody has had, and leaves every other server alone.
LEMMA LaunchKeeps ==
    ASSUME IInv, launched < Budget(gen), Launch \/ LaunchFails,
           UNCHANGED <<signalled, advert>>
    PROVE  /\ FreshInv' /\ AdvertInv'
           /\ managed' \in Pids \union {0} /\ launched' \in Pids \union {0}
           /\ running' \in BOOLEAN /\ error' \in BOOLEAN /\ faults' \in 0..MaxFaults
           /\ stage' \in [Pids -> Alive \union Ended \union {"none"}]
           /\ uses' \in [Pids -> 0..MaxApps]
<1>. USE DEF IInv
<1>1. CASE LaunchFails
  BY <1>1, FaultTyped DEF LaunchFails, FreshInv, AdvertInv, TypeOK
<1>2. CASE Launch
  <2>. DEFINE p == launched + 1
  <2>1. p \in Pids /\ launched \in Nat /\ \A q \in Pids : q \in Nat
    BY NextPid, PidsAreBudget DEF TypeOK
  <2>2. stage[p] = "none" /\ advert[p] = "none"
    BY <2>1 DEF FreshInv
  <2>3. /\ stage' = [stage EXCEPT ![p] = "loading"] /\ uses' = [uses EXCEPT ![p] = socket]
        /\ launched' = p /\ managed' = p /\ running' = TRUE
        /\ UNCHANGED <<error, faults>>
    BY <1>2 DEF Launch, Keep
  <2>4. socket \in 0..MaxApps
    BY ServiceAssumption DEF TypeOK
  <2>5. /\ stage' \in [Pids -> Alive \union Ended \union {"none"}]
        /\ uses' \in [Pids -> 0..MaxApps]
    BY <2>1, <2>3, <2>4 DEF TypeOK, Alive
  <2>6. stage'[p] = "loading" /\ \A q \in Pids : q # p => stage'[q] = stage[q]
    BY <2>1, <2>3 DEF TypeOK
  <2>. HIDE DEF p
  <2>7. FreshInv'
    BY <2>1, <2>3, <2>6 DEF FreshInv, p
  <2>8. AdvertInv'
    BY <2>2, <2>6 DEF AdvertInv
  <2>. QED
    BY <2>1, <2>3, <2>5, <2>7, <2>8 DEF TypeOK
<1>. QED
  BY <1>1, <1>2

\* The first server of a start of the app.
LEMMA StartedKeeps == ASSUME IInv, GenerateConfig \/ Refresh PROVE IInv'
<1>. USE ServiceAssumption DEF IInv
<1>0. /\ gen > 0 /\ launched <= Budget(gen - 1)
      /\ managed = 0 /\ ~delayed /\ restarts = 0
      /\ app \in {"generating", "refreshing"}
  BY DEF BudgetInv, GenerateConfig, Refresh
<1>1. /\ launched \in Nat /\ Budget(gen - 1) \in Nat
      /\ Budget(gen) = Budget(gen - 1) + MaxRestarts + 1
  BY <1>0, ShareOfStart
<1>2. CASE GenerateConfig /\ file # "absent"
  <2>. USE <1>2 DEF GenerateConfig, FirstConfig, serverVars
  <2>1. TypeOK'
    BY DEF TypeOK
  <2>2. BudgetInv'
    BY <1>0 DEF BudgetInv
  <2>3. FreshInv' /\ AdvertInv'
    BY ServersUntouched
  <2>4. SettingsKept' /\ CopyInv'
    BY DEF SettingsKept, CopyInv, TypeOK, Names
  <2>. QED
    BY <2>1, <2>2, <2>3, <2>4
<1>3. CASE Refresh \/ (GenerateConfig /\ file = "absent")
  <2>1. /\ Started
        /\ copy' \in {copy, "none"}
        /\ file' \in Names \union {"absent", "torn"}
        /\ acked # "none" => file' = acked
    <3>1. CASE Refresh
      BY <3>1 DEF Refresh, TypeOK, SettingsKept, CopyInv
    <3>2. CASE GenerateConfig /\ file = "absent"
      <4>1. acked = "none"
        BY <3>2 DEF SettingsKept, TypeOK, Names
      <4>. QED
        BY <3>2, <4>1 DEF GenerateConfig, FirstConfig, Names
    <3>. QED
      BY <1>3, <3>1, <3>2
  <2>2. /\ app' = "open" /\ restarts' = 0 /\ (Launch \/ LaunchFails)
        /\ UNCHANGED <<gen, socket, verdict, delayed, signalled, name, put, advert,
                       acked, foreign>>
    BY <2>1 DEF Started
  <2>3. launched < Budget(gen)
    BY <1>0, <1>1
  <2>4. TypeOK' /\ FreshInv' /\ AdvertInv'
    BY <2>1, <2>2, <2>3, LaunchKeeps DEF TypeOK
  <2>5. launched' \in {launched, launched + 1} /\ (launched' = launched => managed' = 0)
    BY <1>0, <1>1, <2>2 DEF Launch, Keep, LaunchFails
  <2>6. BudgetInv'
    BY <1>0, <1>1, <2>2, <2>5 DEF BudgetInv
  <2>7. SettingsKept' /\ CopyInv'
    BY <2>1, <2>2 DEF SettingsKept, CopyInv
  <2>. QED
    BY <2>4, <2>6, <2>7
<1>. QED
  BY <1>2, <1>3 DEF GenerateConfig

\* A restart spends one of the launches that restartCount still allows.
LEMMA SuperviseKeeps ==
    ASSUME IInv, HandleTermination \/ RestartFires
    PROVE  IInv'
<1>. USE ServiceAssumption DEF IInv
<1>1. CASE HandleTermination
  <2>. USE <1>1 DEF HandleTermination, MayRestart, serverVars, fileVars
  <2>0. /\ app = "open" /\ gen > 0 /\ ~delayed /\ restarts \in Nat
        /\ launched <= Budget(gen) /\ launched <= Budget(gen - 1) + 1 + restarts
    BY DEF BudgetInv, TypeOK
  <2>1. TypeOK'
    <3>1. restarts \in 0..MaxRestarts /\ delayed \in BOOLEAN
      BY DEF TypeOK
    <3>2. restarts' \in 0..MaxRestarts
      BY <3>1
    <3>3. delayed' \in BOOLEAN
      BY <3>1, Zenon
    <3>4. UNCHANGED <<app, gen, socket, verdict, copy, launched, stage, signalled, uses, name, put,
                      advert, file, acked, faults>>
      OBVIOUS
    <3>5. TypeOK /\ managed' = 0
      OBVIOUS
    <3>6. running' \in BOOLEAN /\ error' \in BOOLEAN /\ foreign' \in BOOLEAN
      BY Zenon DEF TypeOK
    <3>. QED
      BY ONLY <3>2, <3>3, <3>4, <3>5, <3>6, SMT DEF TypeOK
  <2>2. BudgetInv'
    <3>1. launched \in Nat /\ Budget(gen - 1) \in Nat
      BY <2>0, ShareOfStart
    <3>. QED
      BY <2>0, <3>1 DEF BudgetInv
  <2>3. FreshInv' /\ AdvertInv'
    BY ServersUntouched
  <2>4. SettingsKept' /\ CopyInv'
    BY DEF SettingsKept, CopyInv
  <2>. QED
    BY <2>1, <2>2, <2>3, <2>4
<1>2. CASE RestartFires
  <2>1. /\ app = "open" /\ gen > 0 /\ managed = 0 /\ restarts \in 0..MaxRestarts
        /\ launched <= Budget(gen - 1) + restarts
    BY <1>2 DEF BudgetInv, TypeOK, RestartFires
  <2>2. /\ launched \in Nat /\ Budget(gen - 1) \in Nat
        /\ Budget(gen) = Budget(gen - 1) + MaxRestarts + 1
    BY <2>1, ShareOfStart
  <2>3. launched < Budget(gen)
    BY <2>1, <2>2
  <2>4. /\ delayed' = FALSE /\ (Launch \/ LaunchFails)
        /\ UNCHANGED <<app, gen, socket, verdict, copy, restarts, signalled, name, put,
                       advert, file, acked, foreign>>
    BY <1>2 DEF RestartFires, fileVars
  <2>5. TypeOK' /\ FreshInv' /\ AdvertInv'
    <3>1. /\ FreshInv' /\ AdvertInv'
          /\ managed' \in Pids \union {0} /\ launched' \in Pids \union {0}
          /\ running' \in BOOLEAN /\ error' \in BOOLEAN /\ faults' \in 0..MaxFaults
          /\ stage' \in [Pids -> Alive \union Ended \union {"none"}]
          /\ uses' \in [Pids -> 0..MaxApps]
      BY <2>3, <2>4, LaunchKeeps
    <3>2. TypeOK
      OBVIOUS
    <3>3. UNCHANGED <<app, gen, socket, verdict, copy, restarts, signalled, name, put, advert, file, acked>>
      BY <2>4
    <3>4. delayed' \in BOOLEAN /\ foreign' \in BOOLEAN
      BY ONLY <2>4, <3>2, Zenon DEF TypeOK
    <3>. QED
      BY ONLY <3>1, <3>2, <3>3, <3>4, SMT DEF TypeOK
  <2>6. launched' \in {launched, launched + 1} /\ (launched' = launched => managed' = 0)
    BY <2>1, <2>2, <2>4 DEF Launch, Keep, LaunchFails
  <2>7. BudgetInv'
    BY <2>1, <2>2, <2>4, <2>6 DEF BudgetInv
  <2>8. SettingsKept' /\ CopyInv'
    BY <2>4 DEF SettingsKept, CopyInv
  <2>. QED
    BY <2>5, <2>7, <2>8
<1>. QED
  BY <1>1, <1>2

-----------------------------------------------------------------------------
(* The servers.                                                            *)

\* Steps of a server that leave the app and the config file alone.
LEMMA AppUntouched ==
    ASSUME IInv, TypeOK', UNCHANGED <<appVars, launched, fileVars>>, FreshInv', AdvertInv'
    PROVE  IInv'
<1>. USE DEF IInv, appVars, managerVars, fileVars
<1>1. BudgetInv'
  BY DEF BudgetInv
<1>2. SettingsKept' /\ CopyInv'
  BY DEF SettingsKept, CopyInv
<1>. QED
  BY <1>1, <1>2

LEMMA EndTyped ==
    ASSUME TypeOK, NEW p \in Pids, NEW s \in Ended, End(p, s), faults' \in 0..MaxFaults
    PROVE  TypeOK'
<1>. USE DEF TypeOK, End, Goto, appVars, managerVars, fileVars
<1>1. /\ stage' \in [Pids -> Alive \union Ended \union {"none"}]
      /\ name' \in [Pids -> Names \union {"none"}]
      /\ put' \in [Pids -> Names \union {"none"}]
  OBVIOUS
<1>. QED
  BY <1>1

\* A server ends with its dns-sd withdrawn, in the goroutine's hands, or by a
\* signal that nothing withdraws it after.
LEMMA EndKeeps ==
    ASSUME IInv, NEW p \in Pids, NEW s \in Ended, End(p, s), faults' \in 0..MaxFaults,
           stage[p] # "none",
           s # "crashed" => advert[p] \in {"none", "goroutine"}
    PROVE  IInv'
<1>. USE DEF IInv, End, Goto
<1>1. TypeOK'
  BY EndTyped
<1>2. stage'[p] = s /\ \A q \in Pids : q # p => stage'[q] = stage[q]
  BY DEF TypeOK
<1>3. FreshInv'
  BY <1>2 DEF FreshInv
<1>4. AdvertInv'
  BY <1>2 DEF AdvertInv, Ended
<1>. QED
  BY <1>1, <1>3, <1>4, AppUntouched

LEMMA MovesKeep ==
    ASSUME IInv, NEW p \in Pids, NEW s \in Alive, Goto(p, s), faults' \in 0..MaxFaults,
           UNCHANGED <<appVars, launched, signalled, uses, put, fileVars, foreign>>,
           name' \in [Pids -> Names \union {"none"}],
           stage[p] # "none",
           \/ UNCHANGED advert
           \/ \E a \in {"publisher", "none"} : advert' = [advert EXCEPT ![p] = a],
           advert'[p] # "none" => s \in Handling
    PROVE  IInv'
<1>. USE DEF IInv, Goto
<1>1. /\ stage' \in [Pids -> Alive \union Ended \union {"none"}]
      /\ advert' \in [Pids -> {"none", "publisher", "goroutine", "main"}]
  BY DEF TypeOK
<1>2. TypeOK'
  BY <1>1 DEF TypeOK, appVars, managerVars, fileVars
<1>3. /\ stage'[p] = s /\ \A q \in Pids : q # p => stage'[q] = stage[q]
      /\ \A q \in Pids : q # p => advert'[q] = advert[q]
      /\ advert'[p] \in {advert[p], "publisher", "none"}
  BY DEF TypeOK
<1>4. FreshInv'
  BY <1>3 DEF FreshInv
<1>5. AdvertInv'
  BY <1>3 DEF AdvertInv, Alive, Listens
<1>. QED
  BY <1>2, <1>4, <1>5, AppUntouched

\* talka-server up to Serve: it has advertised nothing yet.
LEMMA StartupKeeps ==
    ASSUME IInv, NEW p \in Pids,
           \/ Load(p) \/ KilledEarly(p) \/ Listen(p) \/ BuildEvidence(p) \/ Publish(p)
    PROVE  IInv'
<1>0. /\ stage[p] \in {"loading", "loaded", "bound", "publishing"} /\ advert[p] = "none"
      /\ faults \in 0..MaxFaults /\ UNCHANGED faults
  BY DEF IInv, TypeOK, AdvertInv, Handling, Ended, Load, KilledEarly, Listen,
         BuildEvidence, Publish, Moves
<1>1. CASE \E s \in Ended : End(p, s)
  BY <1>0, <1>1, EndKeeps
<1>2. CASE \E s \in {"loaded", "bound", "publishing"} : Moves(p, s) /\ UNCHANGED advert
  <2>. PICK s \in {"loaded", "bound", "publishing"} : Moves(p, s) /\ UNCHANGED advert
    BY <1>2
  <2>1. name' \in [Pids -> Names \union {"none"}]
    BY DEF IInv, TypeOK, Load, KilledEarly, Listen, BuildEvidence, Publish, Valid,
           End, Goto, Moves
  <2>2. s \in Alive
    BY DEF Alive, Listens
  <2>. QED
    BY <1>0, <2>1, <2>2, MovesKeep DEF Moves
<1>3. CASE Publish(p)
  <2>1. /\ Goto(p, "serving") /\ UNCHANGED name
        /\ UNCHANGED <<appVars, launched, signalled, uses, put, fileVars, foreign>>
        /\ \E a \in {"publisher", "none"} : advert' = [advert EXCEPT ![p] = a]
    BY <1>3 DEF Publish, Moves
  <2>2. name' \in [Pids -> Names \union {"none"}]
    BY <2>1 DEF IInv, TypeOK
  <2>3. "serving" \in Alive /\ "serving" \in Handling
    BY DEF Alive, Listens, Handling
  <2>. QED
    BY <1>0, <2>1, <2>2, <2>3, MovesKeep
<1>. QED
  BY <1>1, <1>2, <1>3 DEF Load, KilledEarly, Listen, BuildEvidence, Ended

LEMMA ServingKeeps ==
    ASSUME IInv, NEW p \in Pids, Shutdown(p) \/ ShutdownEnds(p) \/ ServeFails(p)
    PROVE  IInv'
<1>. PICK s \in {"stopping", "leaving", "aborting"} : Goto(p, s)
  BY DEF Shutdown, ShutdownEnds, ServeFails, Moves
<1>1. /\ UNCHANGED <<appVars, launched, signalled, uses, name, put, advert, fileVars, foreign>>
      /\ stage[p] # "none"
      /\ faults' = faults \/ Fault
  BY DEF Shutdown, ShutdownEnds, ServeFails, Moves
<1>2. faults' \in 0..MaxFaults /\ name' \in [Pids -> Names \union {"none"}]
  BY <1>1, FaultTyped DEF IInv, TypeOK
<1>3. s \in Alive /\ s \in Handling
  BY DEF Alive, Handling
<1>. QED
  BY <1>1, <1>2, <1>3, MovesKeep

LEMMA ExitKeeps == ASSUME IInv, NEW p \in Pids, Exit(p) \/ Crash(p) PROVE IInv'
<1>1. CASE Exit(p)
  <2>1. /\ \E s \in {"done", "failed"} : End(p, s)
        /\ stage[p] # "none" /\ advert[p] \in {"none", "goroutine"}
        /\ faults' \in 0..MaxFaults
    BY <1>1 DEF Exit, StopReturned, IInv, TypeOK
  <2>. QED
    BY <2>1, EndKeeps DEF Ended
<1>2. CASE Crash(p)
  <2>1. End(p, "crashed") /\ stage[p] # "none" /\ faults' \in 0..MaxFaults
    BY <1>2, FaultTyped DEF Crash, IInv, Alive, Listens
  <2>. QED
    BY <2>1, EndKeeps DEF Ended
<1>. QED
  BY <1>1, <1>2

\* Stop is called twice: the goroutine takes the process out only after the
\* signal, run's deferred call only before the server has ended.
LEMMA StopKeeps ==
    ASSUME IInv, NEW p \in Pids, StopOnSignal(p) \/ StopOnReturn(p)
    PROVE  IInv'
<1>. USE DEF IInv
<1>. PICK a \in {"goroutine", "main", "none"} :
        /\ advert[p] # "none"
        /\ advert' = [advert EXCEPT ![p] = a]
        /\ a = "goroutine" => p \in signalled
        /\ stage[p] \in Alive
        /\ UNCHANGED <<appVars, launched, stage, signalled, uses, name, put, fileVars,
                       foreign, faults>>
  BY DEF StopOnSignal, StopOnReturn, Withdraws, Alive
<1>1. TypeOK'
  BY DEF TypeOK, appVars, managerVars, fileVars
<1>2. advert'[p] = a /\ \A q \in Pids : q # p => advert'[q] = advert[q]
  BY DEF TypeOK
<1>3. FreshInv'
  BY <1>2 DEF FreshInv
<1>4. AdvertInv'
  BY <1>2 DEF AdvertInv, Alive, Listens
<1>. QED
  BY <1>1, <1>3, <1>4, AppUntouched

LEMMA PutKeeps ==
    ASSUME IInv, NEW p \in Pids, PutTruncates(p) \/ PutWrites(p) \/ PutFails(p)
    PROVE  IInv'
<1>. USE DEF IInv, PutTruncates, PutWrites, PutFails, appVars, managerVars, fileVars
<1>1. TypeOK'
  <2>1. put[p] \in Names \union {"none"}
    BY DEF TypeOK
  <2>. QED
    BY <2>1, FaultTyped DEF TypeOK
<1>2. BudgetInv'
  BY DEF BudgetInv
<1>3. FreshInv' /\ AdvertInv'
  BY ServersUntouched
<1>4. SettingsKept' /\ CopyInv'
  BY DEF SettingsKept, CopyInv
<1>. QED
  BY <1>1, <1>2, <1>3, <1>4

LEMMA ForeignKeeps == ASSUME IInv, ForeignTakes \/ ForeignLeaves PROVE IInv'
<1>. USE DEF IInv, ForeignTakes, ForeignLeaves, appVars, managerVars, serverVars, fileVars
<1>1. TypeOK'
  <2>1. TypeOK /\ faults' \in 0..MaxFaults /\ foreign' \in {TRUE, FALSE}
    BY FaultTyped DEF TypeOK
  <2>2. UNCHANGED <<app, gen, socket, verdict, copy, managed, restarts, launched, stage, signalled,
                    uses, name, put, advert, file, acked>>
    OBVIOUS
  <2>3. running' \in BOOLEAN /\ delayed' \in BOOLEAN /\ error' \in BOOLEAN
    BY Zenon DEF TypeOK
  <2>4. foreign' \in BOOLEAN
    BY ONLY <2>1, Zenon
  <2>. QED
    BY ONLY <2>1, <2>2, <2>3, <2>4, SMT DEF TypeOK
<1>2. FreshInv' /\ AdvertInv'
  BY ServersUntouched
<1>. QED
  BY <1>1, <1>2, AppUntouched

LEMMA NextIInv == IInv /\ [Next]_vars => IInv'
<1>. SUFFICES ASSUME IInv, [Next]_vars PROVE IInv'
  OBVIOUS
<1>1. CASE LaunchApp \/ Quit \/ AppCrash
  BY <1>1, LaunchAppKeeps, GoneKeeps
<1>2. CASE Manager
  BY <1>2, ProbingKeeps, StartedKeeps, SuperviseKeeps DEF Manager
<1>3. CASE \E p \in Pids : Server(p)
  BY <1>3, StartupKeeps, ServingKeeps, StopKeeps, ExitKeeps DEF Server
<1>4. CASE \E p \in Pids : ServeFails(p) \/ StopOnSignal(p) \/ Crash(p)
  BY <1>4, ServingKeeps, StopKeeps, ExitKeeps
<1>5. CASE \E p \in Pids : PutTruncates(p) \/ PutWrites(p) \/ PutFails(p)
  BY <1>5, PutKeeps
<1>6. CASE ForeignTakes \/ ForeignLeaves
  BY <1>6, ForeignKeeps
<1>7. CASE UNCHANGED vars
  <2>. USE <1>7 DEF IInv, vars, appVars, managerVars, serverVars, fileVars
  <2>1. TypeOK'
    BY DEF TypeOK
  <2>2. FreshInv' /\ AdvertInv'
    BY ServersUntouched
  <2>. QED
    BY <2>1, <2>2, AppUntouched
<1>. QED
  BY <1>1, <1>2, <1>3, <1>4, <1>5, <1>6, <1>7 DEF Next

\* The inductive invariant holds in every reachable state.
THEOREM Invariant == Spec => []IInv
BY InitIInv, NextIInv, PTL DEF Spec

-----------------------------------------------------------------------------
\* The variables have their types.  Most of it is the bound on launches: however
\* servers crash and exit, and however the app is quit, killed and started again,
\* no start of the app launches more than 1 + maxRestarts servers.
THEOREM TypeOKHolds == Spec => []TypeOK
BY Invariant, PTL DEF IInv

\* Settings a PUT has confirmed to the app stay in the config file until the next
\* PUT (os.WriteFile, refreshEmbeddedResourcePathsIfNeeded).
THEOREM SettingsKeptHolds == Spec => []SettingsKept
BY Invariant, PTL DEF IInv

\* A server that ends by itself has withdrawn its advertisement, unless the
\* goroutine that waits for the signal has just taken it (mdns.Publisher.Stop).
THEOREM AdvertIsWithdrawnHolds == Spec => []AdvertIsWithdrawn
<1>1. IInv => AdvertIsWithdrawn
  BY DEF IInv, AdvertInv, AdvertIsWithdrawn
<1>. QED
  BY <1>1, Invariant, PTL

\* Every start of the app launches one server and its restarts, no more.
THEOREM RestartsAreBoundedHolds == Spec => []RestartsAreBounded
<1>1. IInv => RestartsAreBounded
  <2>. SUFFICES ASSUME IInv PROVE launched <= Budget(gen)
    BY DEF RestartsAreBounded, Budget
  <2>1. CASE app \in {"closed", "open"}
    BY <2>1 DEF IInv, BudgetInv
  <2>2. CASE app \notin {"closed", "open"}
    <3>1. gen > 0 /\ launched <= Budget(gen - 1)
      BY <2>2 DEF IInv, BudgetInv
    <3>. QED
      BY <3>1, ShareOfStart, ServiceAssumption DEF IInv
  <2>. QED
    BY <2>1, <2>2
<1>. QED
  BY <1>1, Invariant, PTL

-----------------------------------------------------------------------------
(* The manager's own servers.                                              *)

\* A broker socket belongs to the start of the app that made it: no server has
\* one of a later start.
OwnInv ==
    /\ \A p \in Pids : uses[p] <= gen
    /\ OwnServerIsManaged

\* Steps that launch nothing: servers may end, and none comes to life.
LEMMA OwnUntouched ==
    ASSUME OwnInv, UNCHANGED <<gen, socket, managed, uses>>,
           \A p \in Pids : stage'[p] \in Alive => stage[p] \in Alive
    PROVE  OwnInv'
BY DEF OwnInv, OwnServerIsManaged

\* A new app has a socket that no server can have.
LEMMA LaunchAppOwn == ASSUME IInv, OwnInv, LaunchApp PROVE OwnInv'
<1>1. /\ gen \in Nat /\ gen' = gen + 1 /\ socket' \in {0, gen + 1}
      /\ UNCHANGED <<stage, uses>>
      /\ \A p \in Pids : uses[p] \in Nat
  BY ServiceAssumption DEF LaunchApp, serverVars, IInv, TypeOK
<1>. QED
  BY <1>1 DEF OwnInv, OwnServerIsManaged

LEMMA GoneOwn == ASSUME IInv, OwnInv, Quit \/ AppCrash PROVE OwnInv'
BY DEF Quit, AppCrash, Gone, OwnInv, OwnServerIsManaged

\* Nobody is launched while the manager holds a server: before the first launch
\* it holds none, and restartTask sleeps only when it has let go of one.
LEMMA LaunchOwn ==
    ASSUME IInv, OwnInv, managed = 0, launched < Budget(gen), Launch \/ LaunchFails,
           UNCHANGED <<gen, socket>>
    PROVE  OwnInv'
<1>1. \A q \in Pids : socket # 0 /\ uses[q] = socket => stage[q] \notin Alive
  BY PidsAreBudget DEF OwnInv, OwnServerIsManaged
<1>2. CASE LaunchFails
  BY <1>1, <1>2 DEF LaunchFails, OwnInv, OwnServerIsManaged
<1>3. CASE Launch
  <2>. DEFINE p == launched + 1
  <2>1. p \in Pids
    BY NextPid DEF IInv
  <2>2. /\ stage' = [stage EXCEPT ![p] = "loading"]
        /\ uses' = [uses EXCEPT ![p] = socket]
        /\ managed' = p
    BY <1>3 DEF Launch, Keep
  <2>3. /\ uses'[p] = socket
        /\ \A q \in Pids : q # p => uses'[q] = uses[q] /\ stage'[q] = stage[q]
    BY <2>1, <2>2 DEF IInv, TypeOK
  <2>4. socket <= gen
    BY ServiceAssumption DEF IInv, TypeOK
  <2>. HIDE DEF p
  <2>5. \A q \in Pids : uses'[q] <= gen'
    BY <2>3, <2>4 DEF OwnInv
  <2>6. OwnServerIsManaged'
    BY <1>1, <2>2, <2>3 DEF OwnServerIsManaged
  <2>. QED
    BY <2>5, <2>6 DEF OwnInv
<1>. QED
  BY <1>2, <1>3

LEMMA StartedOwn == ASSUME IInv, OwnInv, GenerateConfig \/ Refresh PROVE OwnInv'
<1>1. /\ gen > 0 /\ managed = 0 /\ launched <= Budget(gen - 1)
  BY DEF IInv, BudgetInv, GenerateConfig, Refresh
<1>2. launched < Budget(gen)
  BY <1>1, ShareOfStart, ServiceAssumption DEF IInv
<1>3. CASE Started
  BY <1>1, <1>2, <1>3, LaunchOwn DEF Started
<1>4. CASE GenerateConfig /\ ~Started
  BY <1>4, OwnUntouched DEF GenerateConfig, serverVars
<1>. QED
  BY <1>3, <1>4 DEF Refresh

\* The manager lets go of a server only when it has ended.
LEMMA SuperviseOwn ==
    ASSUME IInv, OwnInv, HandleTermination \/ RestartFires
    PROVE  OwnInv'
<1>1. CASE HandleTermination
  <2>1. /\ stage[managed] \notin Alive
        /\ managed' = 0 /\ UNCHANGED <<gen, socket, stage, uses>>
    BY <1>1 DEF HandleTermination, serverVars, Ended, Alive, Listens
  <2>. QED
    BY <2>1 DEF OwnInv, OwnServerIsManaged
<1>2. CASE RestartFires
  <2>1. /\ app = "open" /\ gen > 0 /\ managed = 0 /\ restarts \in 0..MaxRestarts
        /\ launched <= Budget(gen - 1) + restarts
    BY <1>2 DEF IInv, BudgetInv, TypeOK, RestartFires
  <2>2. launched < Budget(gen)
    BY <2>1, ShareOfStart, ServiceAssumption DEF IInv
  <2>. QED
    BY <1>2, <2>1, <2>2, LaunchOwn DEF RestartFires
<1>. QED
  BY <1>1, <1>2

\* What a server does itself: it goes on or ends.
LEMMA ServerOwn ==
    ASSUME IInv, OwnInv, NEW p \in Pids, Server(p) \/ ServeFails(p) \/ Crash(p)
    PROVE  OwnInv'
<1>1. UNCHANGED <<gen, socket, managed, uses>>
  BY DEF Server, ServeFails, Crash, Load, KilledEarly, Listen, BuildEvidence, Publish,
         Shutdown, ShutdownEnds, StopOnReturn, Exit, Withdraws, End, Moves,
         appVars, managerVars
<1>2. UNCHANGED stage \/ \E s : Goto(p, s) /\ stage[p] \in Alive
  BY DEF Server, ServeFails, Crash, Load, KilledEarly, Listen, BuildEvidence, Publish,
         Shutdown, ShutdownEnds, StopOnReturn, Exit, Withdraws, End, Moves,
         Alive, Listens
<1>3. \A q \in Pids : stage'[q] \in Alive => stage[q] \in Alive
  BY <1>2 DEF Goto, IInv, TypeOK
<1>. QED
  BY <1>1, <1>3, OwnUntouched

LEMMA RestOwn ==
    ASSUME OwnInv,
           \/ \E p \in Pids : StopOnSignal(p) \/ PutTruncates(p) \/ PutWrites(p) \/ PutFails(p)
           \/ Start \/ Probe \/ Reuse \/ Refuse \/ Replace \/ Replaced
           \/ ForeignTakes \/ ForeignLeaves \/ UNCHANGED vars
    PROVE  OwnInv'
<1>1. UNCHANGED <<gen, socket, managed, uses, stage>>
  BY DEF StopOnSignal, Withdraws, PutTruncates, PutWrites, PutFails, Start, Probe, Reuse,
         Refuse, Replace, Replaced, ForeignTakes, ForeignLeaves, vars, appVars,
         managerVars, serverVars
<1>. QED
  BY <1>1, OwnUntouched

LEMMA NextOwn == IInv /\ OwnInv /\ [Next]_vars => OwnInv'
BY LaunchAppOwn, GoneOwn, StartedOwn, SuperviseOwn, ServerOwn, RestOwn DEF Next, Manager

\* An alive server with the running app's broker socket is the one the manager
\* holds: a restart never adds a second one (launch, handleTermination, start).
THEOREM OwnServerIsManagedHolds == Spec => []OwnServerIsManaged
<1>1. Init => OwnInv
  BY DEF Init, OwnInv, OwnServerIsManaged
<1>2. OwnInv => OwnServerIsManaged
  BY DEF OwnInv
<1>. QED
  BY <1>1, <1>2, NextOwn, Invariant, PTL DEF Spec
================================================================================
