----------------------- MODULE ClusterScalingProofs -----------------------
(***************************************************************************)
(* Shards get out of the coordinator's reach only by a bootstrap for fewer *)
(* workers than are registered, one for all of them puts that right, and   *)
(* the table is distributed over all the workers asked for, for any number *)
(* of workers, shards, scripts and failed steps.                           *)
(***************************************************************************)
EXTENDS ClusterScaling, TLAPS

(* The step of both scripts that loops over the registrations, and the one  *)
(* that loops over the containers.                                         *)
RegisterStep == 5
StartStep == IF script.name = "init" THEN 2 ELSE 3

(* The loops stay within the count. *)
ScriptSound ==
  /\ script.name = "init" => script.step \in 1 .. 7
  /\ script.name = "add" => script.step \in 1 .. 8 /\ script.n >= env
  /\ script.name = "rebalance" => script.step = 1
  /\ script.name # "backup"
  /\ script.name \in {"init", "add"} =>
       /\ script.n \in Workers
       /\ script.step \in {StartStep, RegisterStep} => script.worker \in 1 .. script.n

(* The loop has registered the workers it has visited. *)
RegisteredSoFar ==
  script.name \in {"init", "add"} =>
    /\ script.step = RegisterStep => 1 .. (script.worker - 1) \subseteq registered
    /\ script.step > RegisterStep => 1 .. script.n \subseteq registered

(* Shards are on registered workers, and those run; what the coordinator may *)
(* lack is only the password.                                              *)
HoldersRun == Holders \subseteq registered /\ registered \subseteq up

(* A bootstrap past its third step, or at its end, has left passwords for    *)
(* just the workers it was given.                                          *)
PasswordsOfBootstrap ==
  /\ ~Idle => ended = NoScript
  /\ script.name = "init" /\ script.step > 3 => pgpass = 1 .. script.n
  /\ ended.name = "init" => pgpass = 1 .. ended.n

IInv == TypeOK /\ ScriptSound /\ RegisteredSoFar /\ HoldersRun /\ PasswordsOfBootstrap

-----------------------------------------------------------------------------
LEMMA LastSteps ==
  /\ Len(Steps("init")) = 7 /\ Len(Steps("add")) = 8 /\ Len(Steps("rebalance")) = 1
<1>1. Len(Steps("init")) = 7  BY DEF Steps
<1>2. Len(Steps("add")) = 8  BY DEF Steps
<1>3. Len(Steps("rebalance")) = 1  BY DEF Steps
<1> QED  BY <1>1, <1>2, <1>3

(* The steps by their numbers. *)
LEMMA InitSteps ==
  ASSUME NEW i \in 1 .. 7
  PROVE  /\ Steps("init")[i] \in {"render", "start", "pgpass", "roles", "register", "migrate", "apps"}
         /\ Steps("init")[i] = "render" => i = 1
         /\ Steps("init")[i] = "start" => i = 2
         /\ Steps("init")[i] = "pgpass" => i = 3
         /\ Steps("init")[i] = "roles" => i = 4
         /\ Steps("init")[i] = "register" => i = 5
         /\ Steps("init")[i] = "migrate" => i = 6
         /\ Steps("init")[i] = "apps" => i = 7
<1>1. Steps("init") = <<"render", "start", "pgpass", "roles", "register", "migrate", "apps">>
  BY DEF Steps
<1>2. i = 1 \/ i = 2 \/ i = 3 \/ i = 4 \/ i = 5 \/ i = 6 \/ i = 7
  OBVIOUS
<1> QED  BY <1>1, <1>2

LEMMA AddSteps ==
  ASSUME NEW i \in 1 .. 8
  PROVE  /\ Steps("add")[i] \in {"count", "render", "start", "roles", "register", "migrate",
                                 "rebalance", "apps"}
         /\ Steps("add")[i] = "count" => i = 1
         /\ Steps("add")[i] = "render" => i = 2
         /\ Steps("add")[i] = "start" => i = 3
         /\ Steps("add")[i] = "roles" => i = 4
         /\ Steps("add")[i] = "register" => i = 5
         /\ Steps("add")[i] = "migrate" => i = 6
         /\ Steps("add")[i] = "rebalance" => i = 7
         /\ Steps("add")[i] = "apps" => i = 8
<1>1. Steps("add") = <<"count", "render", "start", "roles", "register", "migrate",
                       "rebalance", "apps">>
  BY DEF Steps
<1>2. i = 1 \/ i = 2 \/ i = 3 \/ i = 4 \/ i = 5 \/ i = 6 \/ i = 7 \/ i = 8
  OBVIOUS
<1> QED  BY <1>1, <1>2

(* Where a script is when it is at a step. *)
LEMMA Places ==
  ASSUME TypeOK, ScriptSound
  PROVE  /\ At("count") => script.name = "add" /\ script.step = 1
         /\ At("render") => script.name \in {"init", "add"} /\ script.step = StartStep - 1
         /\ At("start") => script.name \in {"init", "add"} /\ script.step = StartStep
         /\ At("pgpass") => script.name = "init" /\ script.step = 3
         /\ At("roles") => script.name \in {"init", "add"} /\ script.step = RegisterStep - 1
         /\ At("register") => script.name \in {"init", "add"} /\ script.step = RegisterStep
         /\ At("migrate") => script.name \in {"init", "add"} /\ script.step = RegisterStep + 1
         /\ At("rebalance") => script.name \in {"add", "rebalance"}
         /\ At("rebalance") /\ script.name = "add" => script.step = RegisterStep + 2
         /\ At("apps") => script.name \in {"init", "add"} /\ script.step > RegisterStep + 1
         /\ At("apps") /\ script.name = "add" => script.step = RegisterStep + 3
<1>1. CASE script.name = "init"
  <2>1. script.step \in 1 .. 7
    BY <1>1 DEF ScriptSound
  <2> QED  BY <1>1, <2>1, InitSteps DEF At, Idle, StartStep, RegisterStep
<1>2. CASE script.name = "add"
  <2>1. script.step \in 1 .. 8
    BY <1>2 DEF ScriptSound
  <2> QED  BY <1>2, <2>1, AddSteps DEF At, Idle, StartStep, RegisterStep
<1>3. CASE script.name = "rebalance"
  <2>1. script.step = 1
    BY <1>3 DEF ScriptSound
  <2>2. Steps("rebalance")[1] = "rebalance"
    BY DEF Steps
  <2> QED  BY <1>3, <2>1, <2>2 DEF At, Idle
<1>4. CASE script.name = "none"
  BY <1>4 DEF At, Idle
<1> QED  BY <1>1, <1>2, <1>3, <1>4, OperationsAssumption DEF TypeOK, ScriptSound

LEMMA InitIInv == Init => IInv
<1> SUFFICES ASSUME Init PROVE IInv
  OBVIOUS
<1>1. TypeOK
  <2>1. env \in Workers /\ failures \in 0 .. MaxFailures /\ rendered \in 0 .. MaxWorkers
    BY CountsAssumption DEF Init, Workers
  <2>2. placement \in [Shards -> 0 .. MaxWorkers]
    BY CountsAssumption DEF Init
  <2>3. 0 \in 0 .. MaxWorkers /\ 0 \in 0 .. 8
    BY CountsAssumption
  <2> QED  BY <2>1, <2>2, <2>3 DEF Init, TypeOK, NoScript, NoBackup
<1>2. ScriptSound /\ RegisteredSoFar
  BY DEF Init, ScriptSound, RegisteredSoFar, NoScript
<1>3. HoldersRun /\ PasswordsOfBootstrap
  BY DEF Init, HoldersRun, Holders, PasswordsOfBootstrap, NoScript, Idle
<1> QED  BY <1>1, <1>2, <1>3 DEF IInv

-----------------------------------------------------------------------------
Scripts == [name : {"none"} \cup Operations, n : 0 .. MaxWorkers, step : 0 .. 8,
            worker : 0 .. MaxWorkers]

(* What a step does to the running script: it ends it, goes on with the next *)
(* step, or stays in a loop for the next worker.                           *)
Ends == /\ script' = NoScript
        /\ \/ ended' = ended
           \/ ended' = script /\ (script.name = "init" => script.step = 7)
GoesOn == /\ script' = [script EXCEPT !.step = script.step + 1, !.worker = 1]
          /\ ended' = ended
          /\ script.name = "init" => script.step < 7
          /\ script.name = "add" => script.step < 8
          /\ script.name \in {"init", "add"}
Loops == /\ script' = [script EXCEPT !.worker = script.worker + 1]
         /\ ended' = ended
         /\ script.worker < script.n

LEMMA Named ==
  ASSUME TypeOK, ScriptSound, ~Idle
  PROVE  script.name \in {"init", "add", "rebalance"}
BY OperationsAssumption DEF TypeOK, ScriptSound, Idle

LEMMA AdvanceMoves ==
  ASSUME TypeOK, ScriptSound, ~Idle, Advance
  PROVE  Ends \/ GoesOn
<1>1. CASE script.step = Len(Steps(script.name))
  BY <1>1, LastSteps DEF Advance, Ends
<1>2. CASE script.step # Len(Steps(script.name))
  <2>1. script' = [script EXCEPT !.step = script.step + 1, !.worker = 1] /\ ended' = ended
    BY <1>2 DEF Advance
  <2>2. CASE script.name = "init"
    <3>1. script.step # 7 /\ script.step \in 1 .. 7
      BY <1>2, <2>2, LastSteps DEF ScriptSound
    <3> QED  BY <2>1, <2>2, <3>1 DEF GoesOn
  <2>3. CASE script.name = "add"
    <3>1. script.step # 8 /\ script.step \in 1 .. 8
      BY <1>2, <2>3, LastSteps DEF ScriptSound
    <3> QED  BY <2>1, <2>3, <3>1 DEF GoesOn
  <2>4. CASE script.name = "rebalance"
    BY <1>2, <2>4, LastSteps DEF ScriptSound
  <2> QED  BY <2>2, <2>3, <2>4, Named
<1> QED  BY <1>1, <1>2

LEMMA LoopMoves ==
  ASSUME TypeOK, ScriptSound, ~Idle, NextWorker
  PROVE  (~(script.worker < script.n) /\ (Ends \/ GoesOn)) \/ Loops
BY AdvanceMoves DEF NextWorker, Loops

LEMMA GoingOnIsNoLoop ==
  ASSUME TypeOK, GoesOn, Loops
  PROVE  FALSE
<1>1. script \in Scripts
  BY DEF TypeOK, Scripts
<1>2. script'.step = script.step + 1 /\ script'.step = script.step
  BY <1>1 DEF GoesOn, Loops, Scripts
<1> QED  BY <1>1, <1>2 DEF Scripts

LEMMA ScriptTyped ==
  ASSUME TypeOK, ScriptSound, Ends \/ GoesOn \/ Loops
  PROVE  script' \in Scripts /\ ended' \in Scripts
<1>1. script \in Scripts /\ ended \in Scripts
  BY DEF TypeOK, Scripts
<1>2. NoScript \in Scripts
  BY CountsAssumption DEF NoScript, Scripts
<1>3. CASE Ends
  BY <1>1, <1>2, <1>3 DEF Ends
<1>4. CASE GoesOn
  <2>1. script.step + 1 \in 0 .. 8
    BY <1>4 DEF GoesOn, ScriptSound
  <2>2. 1 \in 0 .. MaxWorkers
    BY CountsAssumption
  <2> QED  BY <1>1, <1>4, <2>1, <2>2 DEF GoesOn, Scripts
<1>5. CASE Loops
  <2>1. script.worker + 1 \in 0 .. MaxWorkers
    BY <1>1, <1>5, CountsAssumption DEF Loops, Scripts
  <2> QED  BY <1>1, <1>5, <2>1 DEF Loops, Scripts
<1> QED  BY <1>3, <1>4, <1>5

(* A step that ends the script, goes on or loops keeps what is known of it:  *)
(* a loop is left, or goes on, only when this worker is registered.         *)
LEMMA ScriptKept ==
  ASSUME TypeOK, ScriptSound, RegisteredSoFar, ~Idle, Ends \/ GoesOn \/ Loops,
         registered \subseteq registered', env' = env \/ env' = script.n,
         Loops => script.step \in {StartStep, RegisterStep},
         ~Ends /\ script.step = RegisterStep =>
           script.worker \in registered' /\ (GoesOn => ~(script.worker < script.n))
  PROVE  ScriptSound' /\ RegisteredSoFar'
<1>1. script \in Scripts
  BY DEF TypeOK, Scripts
<1>2. CASE Ends
  BY <1>2 DEF Ends, NoScript, ScriptSound, RegisteredSoFar
<1>3. CASE GoesOn /\ ~Ends
  <2>1. /\ script'.name = script.name /\ script'.n = script.n
        /\ script'.step = script.step + 1 /\ script'.worker = 1
    BY <1>1, <1>3 DEF GoesOn, Scripts
  <2>2. ScriptSound'
    BY <1>1, <1>3, <2>1 DEF ScriptSound, GoesOn, Scripts, Workers, StartStep, RegisterStep
  <2>3. RegisteredSoFar'
    <3>1. CASE script.step = RegisterStep
      <4>1. 1 .. script.n \subseteq registered'
        BY <1>1, <1>3, <3>1 DEF RegisteredSoFar, ScriptSound, GoesOn, Scripts
      <4> QED  BY <2>1, <3>1, <4>1 DEF RegisteredSoFar, RegisterStep
    <3>2. CASE script.step > RegisterStep
      BY <1>1, <1>3, <2>1, <3>2 DEF RegisteredSoFar, RegisterStep, GoesOn, Scripts
    <3>3. CASE script.step < RegisterStep
      BY <1>1, <1>3, <2>1, <3>3 DEF RegisteredSoFar, RegisterStep, GoesOn, Scripts
    <3> QED  BY <1>1, <3>1, <3>2, <3>3 DEF Scripts, RegisterStep
  <2> QED  BY <2>2, <2>3
<1>4. CASE Loops /\ ~Ends
  <2>1. /\ script'.name = script.name /\ script'.n = script.n
        /\ script'.step = script.step /\ script'.worker = script.worker + 1
    BY <1>1, <1>4 DEF Loops, Scripts
  <2>2. ScriptSound'
    BY <1>1, <1>4, <2>1 DEF ScriptSound, Loops, Scripts, Workers, StartStep, RegisterStep
  <2>3. RegisteredSoFar'
    BY <1>1, <1>4, <2>1 DEF RegisteredSoFar, ScriptSound, Loops, Scripts, StartStep, RegisterStep
  <2> QED  BY <2>2, <2>3
<1> QED  BY <1>2, <1>3, <1>4

-----------------------------------------------------------------------------
(* Shards stay on running workers when workers are only added.              *)
LEMMA HoldersKept ==
  ASSUME TypeOK, HoldersRun, placement' = placement, up \subseteq up',
         registered \subseteq registered', registered' \subseteq up'
  PROVE  HoldersRun'
BY DEF HoldersRun, Holders

(* Shards are placed on registered workers.                                 *)
LEMMA HoldersPlaced ==
  ASSUME TypeOK, HoldersRun, UNCHANGED <<up, registered>>,
         \A s \in Shards : placement'[s] \in registered \cup {placement[s]}
  PROVE  HoldersRun'
<1> SUFFICES ASSUME NEW w \in Holders' PROVE w \in registered
  BY DEF HoldersRun
<1> PICK s \in Shards : placement'[s] = w /\ w # 0
  BY DEF Holders
<1> QED  BY DEF HoldersRun, Holders

(* The passwords stay those of the bootstrap when it goes on, but for the    *)
(* step that writes them.                                                  *)
LEMMA PasswordsKept ==
  ASSUME TypeOK, ScriptSound, PasswordsOfBootstrap, ~Idle, Ends \/ GoesOn \/ Loops,
         \/ pgpass' = pgpass /\ (script.name = "init" /\ GoesOn => script.step # 3)
         \/ pgpass' = 1 .. script.n /\ script.step = 3
  PROVE  PasswordsOfBootstrap'
<1>1. script \in Scripts /\ ended = NoScript
  BY DEF TypeOK, Scripts, PasswordsOfBootstrap
<1>2. CASE Ends
  BY <1>1, <1>2 DEF Ends, PasswordsOfBootstrap, NoScript, Idle, Scripts
<1>3. CASE GoesOn
  <2>1. /\ script'.name = script.name /\ script'.n = script.n
        /\ script'.step = script.step + 1 /\ ended' = NoScript
    BY <1>1, <1>3 DEF GoesOn, Scripts
  <2> QED  BY <1>1, <1>3, <2>1 DEF PasswordsOfBootstrap, NoScript, Scripts
<1>4. CASE Loops
  <2>1. /\ script'.name = script.name /\ script'.n = script.n
        /\ script'.step = script.step /\ ended' = NoScript
    BY <1>1, <1>4 DEF Loops, Scripts
  <2> QED  BY <1>1, <2>1 DEF PasswordsOfBootstrap, NoScript, Scripts
<1> QED  BY <1>2, <1>3, <1>4

LEMMA AbortGoesNowhere ==
  ASSUME TypeOK, Abort
  PROVE  Ends /\ ~GoesOn
<1>1. script'.name = "none"
  BY DEF Abort, NoScript
<1>2. GoesOn => script'.name \in {"init", "add"}
  BY DEF GoesOn, TypeOK
<1> QED  BY <1>1, <1>2 DEF Abort, Ends

(* Reach is lost only with a password or a worker that runs.                *)
LEMMA ReachKept ==
  ASSUME HoldersRun', ShardsReachable, up \subseteq up',
         Holders' \subseteq Holders \/ Distributable, UNCHANGED <<registered, pgpass>>
  PROVE  ShardsReachable'
<1> SUFFICES ASSUME NEW w \in Holders' PROVE w \in registered' /\ CanConnect(w)'
  BY DEF ShardsReachable
<1>1. w \in registered /\ w \in registered'
  BY DEF HoldersRun
<1>2. CanConnect(w)
  BY <1>1 DEF ShardsReachable, Distributable
<1> QED  BY <1>1, <1>2 DEF CanConnect

(* A script can be started on the state it finds. *)
LEMMA StartKeeps ==
  ASSUME IInv, NEW name \in {"init", "add", "rebalance"}, NEW n \in 0 .. MaxWorkers,
         Start(name, n), name # "rebalance" => n \in Workers, name = "add" => n >= env
  PROVE  IInv'
<1>1. /\ script' = [name |-> name, n |-> n, step |-> 1, worker |-> 1]
      /\ ended' = NoScript /\ name \in Operations
  BY DEF Start
<1>2. /\ env' = env /\ rendered' = rendered /\ up' = up /\ pgpass' = pgpass
      /\ registered' = registered /\ placement' = placement /\ apps' = apps
      /\ backup' = backup /\ backed' = backed /\ failures' = failures
  BY DEF Start, files, cluster, backups
<1>3. TypeOK'
  <2>1. script' \in Scripts
    BY <1>1, CountsAssumption DEF Scripts
  <2>2. ended' \in Scripts
    BY <1>1, CountsAssumption DEF Scripts, NoScript
  <2> QED  BY <1>2, <2>1, <2>2 DEF IInv, TypeOK, Scripts
<1>4. ScriptSound' /\ RegisteredSoFar'
  <2>1. /\ script'.name = name /\ script'.n = n /\ script'.step = 1 /\ script'.worker = 1
    BY <1>1
  <2> QED  BY <1>2, <2>1 DEF ScriptSound, RegisteredSoFar, Workers, StartStep, RegisterStep
<1>5. HoldersRun'
  BY <1>2 DEF IInv, HoldersRun, Holders
<1>6. PasswordsOfBootstrap'
  BY <1>1 DEF PasswordsOfBootstrap, NoScript
<1> QED  BY <1>3, <1>4, <1>5, <1>6 DEF IInv

(* The conclusion about each step: the invariant, that nothing shrinks, that *)
(* the table is distributed over all the workers asked for, and how shards   *)
(* get out of reach.                                                       *)
Kept ==
  /\ IInv'
  /\ env' >= env /\ up \subseteq up' /\ registered \subseteq registered'
  /\ ~Migrated /\ Migrated' => 1 .. script.n \subseteq registered
  /\ ShardsReachable /\ ~ShardsReachable' =>
       At("pgpass") /\ ~(registered \subseteq 1 .. script.n)

LEMMA StartReaches ==
  ASSUME UNCHANGED cluster, ShardsReachable
  PROVE  ShardsReachable'
BY DEF cluster, ShardsReachable, Holders, CanConnect

LEMMA StartsKeep ==
  ASSUME IInv, StartInit \/ StartAdd \/ StartRebalance
  PROVE  Kept
<1>1. CASE StartInit
  <2> PICK n \in Workers : Start("init", n)
    BY <1>1 DEF StartInit
  <2>1. IInv'
    <3>1. n \in 0 .. MaxWorkers
      BY DEF Workers
    <3> QED  BY <3>1, StartKeeps
  <2> QED  BY <2>1, StartReaches DEF Kept, Start, files, cluster, IInv, TypeOK, Workers, Migrated
<1>2. CASE StartAdd
  <2> PICK n \in Workers : n >= env /\ Start("add", n)
    BY <1>2 DEF StartAdd
  <2>1. IInv'
    <3>1. n \in 0 .. MaxWorkers
      BY DEF Workers
    <3> QED  BY <3>1, StartKeeps
  <2> QED  BY <2>1, StartReaches DEF Kept, Start, files, cluster, IInv, TypeOK, Workers, Migrated
<1>3. CASE StartRebalance
  <2>1. IInv'
    <3>1. 0 \in 0 .. MaxWorkers
      BY CountsAssumption
    <3>2. Start("rebalance", 0)
      BY <1>3 DEF StartRebalance
    <3> QED  BY <3>1, <3>2, StartKeeps
  <2> QED  BY <1>3, <2>1, StartReaches DEF Kept, Start, StartRebalance, files, cluster, IInv, TypeOK, Workers, Migrated
<1> QED  BY <1>1, <1>2, <1>3

(* The steps that change the script only, and what is local to a script.    *)
LEMMA QuietStepsKeep ==
  ASSUME IInv, Count \/ Render \/ CheckRoles \/ Rebalance \/ StartApps \/ StepFails
  PROVE  Kept
<1> USE DEF IInv
<1>1. ~Idle
  BY DEF Count, Render, CheckRoles, Rebalance, StartApps, StepFails, At
<1>2. /\ UNCHANGED <<up, pgpass, registered, placement, backup, backed>>
      /\ Ends \/ GoesOn
  BY <1>1, AdvanceMoves DEF Count, Render, CheckRoles, Rebalance, StartApps, StepFails, Abort, Ends,
     files, cluster, backups
<1>3. /\ env' \in Workers /\ env' >= env /\ rendered' \in 0 .. MaxWorkers
      /\ apps' \in BOOLEAN /\ failures' \in 0 .. MaxFailures
  <2>1. CASE Count
    <3>1. script.n \in Workers /\ script.n >= env
      BY <2>1, Places DEF Count, ScriptSound
    <3> QED  BY <2>1, <3>1 DEF Count, TypeOK, cluster, backups
  <2>2. CASE Render
    <3>1. script.n \in Workers
      BY <2>2, Places DEF Render, ScriptSound
    <3> QED  BY <2>2, <3>1 DEF Render, TypeOK, cluster, backups, Workers
  <2>3. CASE CheckRoles \/ Rebalance
    BY <2>3 DEF TypeOK, CheckRoles, Rebalance, files, cluster, Workers
  <2>4. CASE StartApps
    BY <2>4 DEF TypeOK, StartApps, files, Workers
  <2>5. CASE StepFails
    BY <2>5, CountsAssumption DEF TypeOK, StepFails, files, cluster, Workers
  <2> QED  BY <2>1, <2>2, <2>3, <2>4, <2>5
<1>4. TypeOK'
  BY <1>2, <1>3, ScriptTyped DEF TypeOK, Scripts
<1>5. script.step = RegisterStep => Ends
  <2>1. CASE StepFails
    BY <2>1 DEF StepFails, Abort, Ends
  <2>2. CASE Count
    BY <2>2, Places DEF Count, RegisterStep
  <2>3. CASE Render
    BY <2>3, Places DEF Render, RegisterStep, StartStep
  <2>4. CASE CheckRoles
    BY <2>4, Places DEF CheckRoles, RegisterStep
  <2>5. CASE Rebalance
    BY <2>5, Places DEF Rebalance, RegisterStep, ScriptSound
  <2>6. CASE StartApps
    BY <2>6, Places DEF StartApps, RegisterStep
  <2> QED  BY <2>1, <2>2, <2>3, <2>4, <2>5, <2>6
<1>6. ScriptSound' /\ RegisteredSoFar'
  <2>1. env' = env \/ env' = script.n
    BY DEF Count, Render, CheckRoles, Rebalance, StartApps, StepFails, files
  <2>2. Loops => Ends
    BY <1>2, GoingOnIsNoLoop
  <2>4. registered \subseteq registered' /\ (Ends \/ GoesOn \/ Loops)
    BY <1>2
  <2>5. Loops => script.step \in {StartStep, RegisterStep}
    BY <1>1, <2>2 DEF Ends, Loops, NoScript, Idle, TypeOK
  <2>6. TypeOK /\ ScriptSound /\ RegisteredSoFar
    OBVIOUS
  <2> QED  BY <1>1, <1>5, <2>1, <2>4, <2>5, <2>6, ScriptKept
<1>7. HoldersRun' /\ (ShardsReachable => ShardsReachable')
  BY <1>2 DEF HoldersRun, Holders, ShardsReachable, CanConnect
<1>8. PasswordsOfBootstrap'
  <2>1. script.name = "init" /\ GoesOn => script.step # 3
    <3>1. CASE StepFails
      BY <3>1, AbortGoesNowhere DEF StepFails
    <3>2. CASE Count \/ Render
      BY <3>2, Places DEF Count, Render, StartStep
    <3>3. CASE CheckRoles \/ StartApps \/ Rebalance
      BY <3>3, Places DEF CheckRoles, StartApps, Rebalance, RegisterStep
    <3> QED  BY <3>1, <3>2, <3>3
  <2>2. pgpass' = pgpass /\ (Ends \/ GoesOn \/ Loops)
    BY <1>2
  <2>3. TypeOK /\ ScriptSound /\ PasswordsOfBootstrap
    OBVIOUS
  <2> QED  BY <1>1, <2>1, <2>2, <2>3, PasswordsKept
<1> QED  BY <1>2, <1>3, <1>4, <1>6, <1>7, <1>8 DEF Kept, Migrated

(* A container is started: its loop visits the workers of the count.        *)
LEMMA StartWorkerKeeps ==
  ASSUME IInv, StartWorker
  PROVE  Kept
<1>1. TypeOK /\ ScriptSound /\ RegisteredSoFar /\ HoldersRun /\ PasswordsOfBootstrap
  BY DEF IInv
<1>2. ~Idle /\ script.step = StartStep /\ script.name \in {"init", "add"}
  BY <1>1, Places DEF StartWorker, At
<1>3. /\ UNCHANGED <<env, rendered, pgpass, registered, placement, apps, backup, backed, failures>>
      /\ up' = up \cup {script.worker}
      /\ Ends \/ GoesOn \/ Loops
  BY <1>1, <1>2, LoopMoves DEF StartWorker, files, backups
<1>4. script.worker \in Workers
  <2>1. script.n \in Workers /\ script.worker \in 1 .. script.n
    BY <1>1, <1>2 DEF ScriptSound
  <2> QED  BY <2>1, CountsAssumption DEF Workers
<1>5. TypeOK'
  BY <1>1, <1>3, <1>4, ScriptTyped DEF TypeOK, Scripts
<1>6. ScriptSound' /\ RegisteredSoFar'
  <2>2. script.step # RegisterStep /\ script.step \in {StartStep, RegisterStep}
    BY <1>2 DEF StartStep, RegisterStep
  <2> QED  BY <1>1, <1>2, <1>3, <2>2, ScriptKept
<1>7. HoldersRun' /\ (ShardsReachable => ShardsReachable')
  BY <1>1, <1>3 DEF HoldersRun, Holders, ShardsReachable, CanConnect
<1>11. PasswordsOfBootstrap'
  BY <1>1, <1>2, <1>3, PasswordsKept DEF StartStep
<1>8. env' >= env
  BY <1>1, <1>3 DEF TypeOK, Workers
<1>9. Migrated' <=> Migrated
  BY <1>3 DEF Migrated
<1>10. up \subseteq up' /\ registered \subseteq registered'
  BY <1>3
<1> QED  BY <1>5, <1>6, <1>7, <1>8, <1>9, <1>10, <1>11 DEF Kept, IInv

(* Only the bootstrap writes .pgpass.  A shard gets out of reach when its    *)
(* worker is not within the count.                                         *)
LEMMA WritePgpassKeeps ==
  ASSUME IInv, WritePgpass
  PROVE  Kept
<1>1. TypeOK /\ ScriptSound /\ RegisteredSoFar /\ HoldersRun /\ PasswordsOfBootstrap
  BY DEF IInv
<1>2. ~Idle /\ script.step = 3 /\ script.name = "init"
  BY <1>1, Places DEF WritePgpass, At
<1>3. /\ UNCHANGED <<env, rendered, up, registered, placement, apps, backup, backed, failures>>
      /\ pgpass' = 1 .. script.n
      /\ Ends \/ GoesOn
  BY <1>1, <1>2, AdvanceMoves DEF WritePgpass, files, backups
<1>4. script.n \in Workers
  BY <1>1, <1>2 DEF ScriptSound
<1>5. TypeOK'
  <2>1. pgpass' \subseteq Workers
    BY <1>3, <1>4, CountsAssumption DEF Workers
  <2> QED  BY <1>1, <1>3, <2>1, ScriptTyped DEF TypeOK, Scripts
<1>6. ScriptSound' /\ RegisteredSoFar'
  <2>1. Loops => Ends
    BY <1>1, <1>3, GoingOnIsNoLoop
  <2>2. Loops => script.step \in {StartStep, RegisterStep}
    <3>1. Loops => script'.name = script.name
      BY <1>1 DEF Loops, TypeOK
    <3> QED  BY <1>2, <2>1, <3>1 DEF Ends, NoScript, Idle
  <2>3. script.step # RegisterStep
    BY <1>2 DEF RegisterStep
  <2> QED  BY <1>1, <1>2, <1>3, <1>4, <2>2, <2>3, ScriptKept
<1>7. HoldersRun'
  BY <1>1, <1>3 DEF HoldersRun, Holders
<1>8. env' >= env
  BY <1>1, <1>3 DEF TypeOK, Workers
<1>9. Migrated' <=> Migrated
  BY <1>3 DEF Migrated
<1>10. registered \subseteq 1 .. script.n => ShardsReachable'
  BY <1>1, <1>3 DEF HoldersRun, Holders, ShardsReachable, CanConnect
<1>11. At("pgpass")
  BY DEF WritePgpass
<1>12. PasswordsOfBootstrap'
  BY <1>1, <1>2, <1>3, PasswordsKept
<1> QED  BY <1>3, <1>5, <1>6, <1>7, <1>8, <1>9, <1>10, <1>11, <1>12 DEF Kept, IInv

(* A loop over registrations goes on only past a registered worker.         *)
LEMMA RegisterKeeps ==
  ASSUME IInv, Register
  PROVE  Kept
<1>1. TypeOK /\ ScriptSound /\ RegisteredSoFar /\ HoldersRun /\ PasswordsOfBootstrap
  BY DEF IInv
<1>2. ~Idle /\ script.step = RegisterStep /\ script.name \in {"init", "add"}
  BY <1>1, Places DEF Register, At
<1>3. UNCHANGED <<env, rendered, up, pgpass, placement, apps, backup, backed, failures>>
  BY DEF Register, files, backups
<1>4. \/ registered' = registered \cup {script.worker} /\ NextWorker
      \/ registered' = registered /\ Ends
  BY DEF Register, Abort, Ends
<1>5. \/ ~(script.worker < script.n) /\ (Ends \/ GoesOn)
      \/ Loops
      \/ Ends
  BY <1>1, <1>2, <1>4, LoopMoves
<1>6. script.worker \in Workers /\ script.worker \in 1 .. script.n
  <2>1. script.n \in Workers /\ script.worker \in 1 .. script.n
    BY <1>1, <1>2 DEF ScriptSound
  <2> QED  BY <2>1, CountsAssumption DEF Workers
<1>7. TypeOK'
  <2>1. registered' \subseteq Workers
    BY <1>1, <1>4, <1>6 DEF TypeOK
  <2> QED  BY <1>1, <1>3, <1>5, <2>1, ScriptTyped DEF TypeOK, Scripts
<1>8. ScriptSound' /\ RegisteredSoFar'
  <2>1. registered \subseteq registered'
    BY <1>4
  <2>3. ~Ends => script.worker \in registered' /\ (GoesOn => ~(script.worker < script.n))
    BY <1>1, <1>4, <1>5, GoingOnIsNoLoop
  <2>4. script.step \in {StartStep, RegisterStep}
    BY <1>2
  <2>5. Ends \/ GoesOn \/ Loops
    BY <1>5
  <2> QED  BY <1>1, <1>2, <1>3, <2>1, <2>3, <2>4, <2>5, ScriptKept
<1>9. HoldersRun' /\ (ShardsReachable => ShardsReachable')
  <2>1. registered' \subseteq up
    BY <1>1 DEF Register, HoldersRun, CanConnect
  <2> QED  BY <1>1, <1>3, <1>4, <2>1 DEF HoldersRun, Holders, ShardsReachable, CanConnect
<1>13. PasswordsOfBootstrap'
  BY <1>1, <1>2, <1>3, <1>5, PasswordsKept DEF RegisterStep
<1>10. env' >= env
  BY <1>1, <1>3 DEF TypeOK, Workers
<1>11. Migrated' <=> Migrated
  BY <1>3 DEF Migrated
<1>12. up \subseteq up' /\ registered \subseteq registered'
  BY <1>3, <1>4
<1> QED  BY <1>7, <1>8, <1>9, <1>10, <1>11, <1>12, <1>13 DEF Kept, IInv

(* The table is distributed to registered workers, after the loop that       *)
(* registers all of them.                                                   *)
LEMMA MigrateKeeps ==
  ASSUME IInv, Migrate
  PROVE  Kept
<1>1. TypeOK /\ ScriptSound /\ RegisteredSoFar /\ HoldersRun /\ PasswordsOfBootstrap
  BY DEF IInv
<1>2. ~Idle /\ script.step = RegisterStep + 1 /\ script.name \in {"init", "add"}
  BY <1>1, Places DEF Migrate, At
<1>3. /\ UNCHANGED <<env, rendered, up, pgpass, registered, apps, backup, backed, failures>>
      /\ Ends \/ GoesOn
  <2>1. Advance \/ Abort
    BY DEF Migrate
  <2>2. Abort => Ends
    BY DEF Abort, Ends
  <2> QED  BY <1>1, <1>2, <2>1, <2>2, AdvanceMoves DEF Migrate, files, backups
<1>4. \/ placement' = placement
      \/ Distributable /\ placement' \in [Shards -> registered]
  BY DEF Migrate
<1>5. TypeOK'
  <2>1. registered \subseteq 0 .. MaxWorkers
    BY <1>1 DEF TypeOK, Workers
  <2>2. placement' \in [Shards -> 0 .. MaxWorkers]
    BY <1>1, <1>4, <2>1 DEF TypeOK
  <2> QED  BY <1>1, <1>3, <2>2, ScriptTyped DEF TypeOK, Scripts
<1>6. ScriptSound' /\ RegisteredSoFar'
  <2>1. script.step # RegisterStep
    BY <1>2 DEF RegisterStep
  <2>2. Loops => script.step \in {StartStep, RegisterStep}
    <3>1. Loops => script'.name = script.name
      BY <1>1 DEF Loops, TypeOK
    <3>2. Loops => Ends
      BY <1>1, <1>3, GoingOnIsNoLoop
    <3> QED  BY <1>2, <3>1, <3>2 DEF Ends, NoScript, Idle
  <2> QED  BY <1>1, <1>2, <1>3, <2>1, <2>2, ScriptKept
<1>7. HoldersRun'
  BY <1>1, <1>3, <1>4, HoldersPlaced
<1>10. ShardsReachable => ShardsReachable'
  <2>1. Holders' \subseteq Holders \/ Distributable
    BY <1>4 DEF Holders
  <2> QED  BY <1>3, <1>7, <2>1, ReachKept
<1>11. PasswordsOfBootstrap'
  BY <1>1, <1>2, <1>3, PasswordsKept DEF RegisterStep
<1>8. env' >= env
  BY <1>1, <1>3 DEF TypeOK, Workers
<1>9. 1 .. script.n \subseteq registered
  BY <1>1, <1>2 DEF RegisteredSoFar, RegisterStep
<1> QED  BY <1>3, <1>5, <1>6, <1>7, <1>8, <1>9, <1>10, <1>11 DEF Kept, IInv

LEMMA MoveShardKeeps ==
  ASSUME IInv, MoveShard
  PROVE  Kept
<1>1. TypeOK /\ ScriptSound /\ RegisteredSoFar /\ HoldersRun /\ PasswordsOfBootstrap
  BY DEF IInv
<1>2. /\ UNCHANGED <<env, rendered, up, pgpass, registered, apps, script, ended, backup, backed,
                     failures>>
      /\ Distributable /\ Migrated
  BY DEF MoveShard, files, backups
<1>3. PICK s \in Shards, w \in registered : placement' = [placement EXCEPT ![s] = w]
  BY DEF MoveShard
<1>4. TypeOK'
  <2>1. w \in 0 .. MaxWorkers
    BY <1>1 DEF TypeOK, Workers
  <2> QED  BY <1>1, <1>2, <1>3, <2>1 DEF TypeOK
<1>5. ScriptSound' /\ RegisteredSoFar'
  BY <1>1, <1>2 DEF ScriptSound, RegisteredSoFar, StartStep, RegisterStep
<1>6. HoldersRun'
  <2>1. \A t \in Shards : placement'[t] \in registered \cup {placement[t]}
    BY <1>1, <1>3 DEF TypeOK
  <2> QED  BY <1>1, <1>2, <2>1, HoldersPlaced
<1>7. env' >= env
  BY <1>1, <1>2 DEF TypeOK, Workers
<1>8. ShardsReachable => ShardsReachable'
  BY <1>2, <1>6, ReachKept
<1>9. PasswordsOfBootstrap'
  BY <1>1, <1>2 DEF PasswordsOfBootstrap, Idle
<1> QED  BY <1>2, <1>4, <1>5, <1>6, <1>7, <1>8, <1>9 DEF Kept, IInv

(* A backup beside a script, and a stuttering step.                         *)
LEMMA BackupKeeps ==
  ASSUME IInv, BackupStart \/ BackupNext \/ UNCHANGED cvars
  PROVE  Kept
<1>1. TypeOK /\ ScriptSound /\ RegisteredSoFar /\ HoldersRun /\ PasswordsOfBootstrap
  BY DEF IInv
<1>2. UNCHANGED <<env, rendered, up, pgpass, registered, placement, apps, script, ended, failures>>
  BY DEF BackupStart, BackupNext, cvars, files, cluster
<1>3. backup' \in [last : 0 .. MaxWorkers, next : 0 .. MaxWorkers] /\ backed' \subseteq 0 .. MaxWorkers
  <2>1. CASE BackupStart
    BY <1>1, <2>1, CountsAssumption DEF BackupStart, TypeOK, Workers, Coordinator
  <2>2. CASE BackupNext
    <3>1. NoBackup \in [last : 0 .. MaxWorkers, next : 0 .. MaxWorkers]
      BY CountsAssumption DEF NoBackup
    <3>2. backup.next < backup.last => backup.next + 1 \in 0 .. MaxWorkers
      BY <1>1, CountsAssumption DEF TypeOK
    <3>3. Coordinator .. backup.last \subseteq 0 .. MaxWorkers
      BY <1>1, CountsAssumption DEF TypeOK, Coordinator
    <3> QED  BY <1>1, <2>2, <3>1, <3>2, <3>3 DEF BackupNext, TypeOK
  <2>3. CASE UNCHANGED cvars
    BY <1>1, <2>3 DEF cvars, TypeOK
  <2> QED  BY <2>1, <2>2, <2>3
<1>4. TypeOK'
  BY <1>1, <1>2, <1>3 DEF TypeOK
<1>5. ScriptSound' /\ RegisteredSoFar'
  BY <1>1, <1>2 DEF ScriptSound, RegisteredSoFar, StartStep, RegisterStep
<1>6. HoldersRun' /\ PasswordsOfBootstrap' /\ (ShardsReachable => ShardsReachable')
  BY <1>1, <1>2 DEF HoldersRun, Holders, PasswordsOfBootstrap, Idle, ShardsReachable, CanConnect
<1>7. env' >= env
  BY <1>1, <1>2 DEF TypeOK, Workers
<1>8. Migrated' <=> Migrated
  BY <1>2 DEF Migrated
<1> QED  BY <1>2, <1>4, <1>5, <1>6, <1>7, <1>8 DEF Kept, IInv

LEMMA StepKeeps == IInv /\ [Next]_cvars => Kept
<1> SUFFICES ASSUME IInv, [Next]_cvars PROVE Kept
  OBVIOUS
<1> QED  BY StartsKeep, QuietStepsKeep, StartWorkerKeeps, WritePgpassKeeps, RegisterKeeps,
         MigrateKeeps, MoveShardKeeps, BackupKeeps DEF Next, ScriptStep

-----------------------------------------------------------------------------
THEOREM Invariance == Spec => []IInv
<1>1. IInv /\ [Next]_cvars => IInv'
  BY StepKeeps DEF Kept
<1> QED  BY <1>1, InitIInv, PTL DEF Spec

(* For every number of workers and shards the variables keep their types:   *)
(* the loops of the scripts stay within the workers that were asked for.    *)
THEOREM TypeCorrect == Spec => []TypeOK
<1>1. IInv => TypeOK
  BY DEF IInv
<1> QED  BY <1>1, Invariance, PTL

(* Shards get out of the coordinator's reach only when a bootstrap for fewer *)
(* workers than are registered writes .pgpass (init_citus_cluster.sh:33-49).*)
THEOREM OnlyNarrowLocksOut == Spec => OnlyNarrowBootstrapLocksOut
<1>1. IInv /\ [Next]_cvars =>
        [ShardsReachable /\ ~ShardsReachable' =>
           At("pgpass") /\ ~(registered \subseteq 1 .. script.n)]_cvars
  BY StepKeeps DEF Kept
<1> QED  BY <1>1, Invariance, PTL DEF Spec, OnlyNarrowBootstrapLocksOut

(* A bootstrap for all the registered workers leaves every shard on a        *)
(* registered, running worker that the coordinator can log in to, whatever  *)
(* ran or failed before it (init_citus_cluster.sh).                         *)
THEOREM CoveringRestores == Spec => []CoveringBootstrapRestores
<1>1. IInv => CoveringBootstrapRestores
  BY DEF IInv, HoldersRun, PasswordsOfBootstrap, CoveringBootstrapRestores, ShardsReachable, CanConnect
<1> QED  BY <1>1, Invariance, PTL

(* The table is distributed only when all the workers asked for are         *)
(* registered (init_citus_cluster.sh:53-69, add_citus_worker.sh:47-77).     *)
THEOREM AllRegisteredFirst == Spec => RegisteredBeforeMigration
<1>1. IInv /\ [Next]_cvars => [~Migrated /\ Migrated' => 1 .. script.n \subseteq registered]_cvars
  BY StepKeeps DEF Kept
<1> QED  BY <1>1, Invariance, PTL DEF Spec, RegisteredBeforeMigration

(* No script makes the count smaller, stops a worker or takes one out of    *)
(* the metadata (add_citus_worker.sh:24-27).                                *)
THEOREM NothingShrinks == Spec => NeverShrinks
<1>1. IInv /\ [Next]_cvars =>
        [env' >= env /\ up \subseteq up' /\ registered \subseteq registered']_cvars
  BY StepKeeps DEF Kept
<1> QED  BY <1>1, Invariance, PTL DEF Spec, NeverShrinks
=============================================================================
