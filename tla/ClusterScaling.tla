--------------------------- MODULE ClusterScaling ---------------------------
(***************************************************************************)
(* The runbooks that build and grow the Citus cluster: bootstrap           *)
(* (scripts/init_citus_cluster.sh), adding workers                         *)
(* (scripts/add_citus_worker.sh), rebalancing (scripts/rebalance_citus.sh) *)
(* and the physical backup (scripts/backup_full.sh).                       *)
(*                                                                         *)
(* A script is a list of steps under "set -e": it stops at the first step  *)
(* that fails, keeps what it did, and is run again by the operator.  What  *)
(* the scripts share is files (.env, the rendered compose file), the       *)
(* containers, and the metadata of the coordinator.                        *)
(***************************************************************************)
EXTENDS Integers, FiniteSets, Sequences

CONSTANTS MaxWorkers,         \* bound on the worker count an operator asks for
          Shards,             \* shards of the table orders
          Operations,         \* what the operator runs: "init", "add", "rebalance", "backup"
          EnvCount,           \* CITUS_WORKER_COUNT of .env before the first script
          AuthRequired,       \* pg_hba asks a password of connections between nodes
          RebalanceAfterAdd,  \* REBALANCE_AFTER_ADD of the operator's shell is "true"
          MaxFailures         \* bound on the steps that fail for outside reasons

VARIABLES
  env,         \* CITUS_WORKER_COUNT in .env
  rendered,    \* worker count of docker-compose.workers.yml
  up,          \* workers whose container runs
  pgpass,      \* hosts in the .pgpass of the coordinator
  registered,  \* workers in pg_dist_node
  placement,   \* shard -> worker, 0 before the migration
  script,      \* the running script: name, target count, step, worker of the loop
  ended,       \* the last script that ran to its end
  apps,        \* writer and reader run
  backup,      \* the running backup_full: its stanzas, and the next one
  backed,      \* stanzas of the last complete physical backup
  failures     \* steps that failed for outside reasons

files == <<env, rendered>>
cluster == <<up, pgpass, registered, placement, apps>>
backups == <<backup, backed>>
cvars == <<env, rendered, up, pgpass, registered, placement, script, ended, apps,
           backup, backed, failures>>

Workers == 1 .. MaxWorkers
BaseWorkers == 2     \* citus_worker1 and 2 are services of docker-compose.yml
Coordinator == 0     \* the stanza of the coordinator

ASSUME CountsAssumption == MaxWorkers \in Nat \ {0} /\ EnvCount \in Workers /\ MaxFailures \in Nat
ASSUME OperationsAssumption == Operations \subseteq {"init", "add", "rebalance", "backup"}
ASSUME FlagsAssumption == AuthRequired \in BOOLEAN /\ RebalanceAfterAdd \in BOOLEAN
ASSUME ShardsAssumption == IsFiniteSet(Shards) /\ Shards # {}

(* The steps of a script, as far as its outcome depends on them. *)
Steps(name) ==
  CASE name = "init" -> <<"render", "start", "pgpass", "roles", "register", "migrate", "apps">>
    [] name = "add" -> <<"count", "render", "start", "roles", "register", "migrate",
                         "rebalance", "apps">>
    [] name = "rebalance" -> <<"rebalance">>

NoScript == [name |-> "none", n |-> 0, step |-> 0, worker |-> 0]
NoBackup == [last |-> 0, next |-> 0]

Init == /\ env = EnvCount
        /\ rendered = 0
        /\ up = {}
        /\ pgpass = {}
        /\ registered = {}
        /\ placement = [s \in Shards |-> 0]
        /\ script = NoScript
        /\ ended = NoScript
        /\ apps = FALSE
        /\ backup = NoBackup
        /\ backed = {}
        /\ failures = 0

Idle == script.name = "none"
At(step) == ~Idle /\ Steps(script.name)[script.step] = step
Services == 1 .. (IF rendered > BaseWorkers THEN rendered ELSE BaseWorkers)
Migrated == \A s \in Shards : placement[s] # 0
CanConnect(w) == w \in up /\ (AuthRequired => w \in pgpass)

(* The script goes on with its next step, or has reached its end. *)
Advance ==
  IF script.step = Len(Steps(script.name))
    THEN script' = NoScript /\ ended' = script
    ELSE script' = [script EXCEPT !.step = @ + 1, !.worker = 1] /\ ended' = ended

(* A loop over the workers goes on with the next one. *)
NextWorker ==
  IF script.worker < script.n
    THEN script' = [script EXCEPT !.worker = @ + 1] /\ ended' = ended
    ELSE Advance

Abort == script' = NoScript /\ ended' = ended

Start(name, n) ==
  /\ name \in Operations
  /\ Idle
  /\ script' = [name |-> name, n |-> n, step |-> 1, worker |-> 1]
  /\ ended' = NoScript
  /\ UNCHANGED <<files, cluster, backups, failures>>

(* init_citus_cluster.sh takes any count, also one that is smaller than .env's *)
(* or than the number of workers there are: it does not look.  Without an      *)
(* argument the count is env.                                                  *)
StartInit == \E n \in Workers : Start("init", n)

(* A bootstrap for all the workers there are. *)
StartCoveringInit ==
  \E n \in Workers : n >= env /\ up \cup registered \subseteq 1 .. n /\ Start("init", n)

(* add_citus_worker.sh refuses to decrease the count. *)
StartAdd == \E n \in Workers : n >= env /\ Start("add", n)

StartRebalance == Start("rebalance", 0)

Count ==
  /\ At("count")
  /\ env' = script.n
  /\ Advance
  /\ UNCHANGED <<rendered, cluster, backups, failures>>

Render ==
  /\ At("render")
  /\ rendered' = script.n
  /\ Advance
  /\ UNCHANGED <<env, cluster, backups, failures>>

(* Mutant: up --remove-orphans stops the workers outside the compose files. *)
StartWorkerRemoveOrphans ==
  /\ At("start")
  /\ script.worker \in Services
  /\ up' = (up \cap Services) \cup {script.worker}
  /\ NextWorker
  /\ UNCHANGED <<files, pgpass, registered, placement, apps, backups, failures>>

(* docker compose up -d starts the service, and leaves the others alone. *)
StartWorker ==
  /\ At("start")
  /\ script.worker \in Services
  /\ up' = up \cup {script.worker}
  /\ NextWorker
  /\ UNCHANGED <<files, pgpass, registered, placement, apps, backups, failures>>

(* Mutant: only the workers that are still to be registered get a line. *)
WritePgpassOfNew ==
  /\ At("pgpass")
  /\ pgpass' = (1 .. script.n) \ registered
  /\ Advance
  /\ UNCHANGED <<files, up, registered, placement, apps, backups, failures>>

(* Only the bootstrap writes .pgpass, and it writes it anew. *)
WritePgpass ==
  /\ At("pgpass")
  /\ pgpass' = 1 .. script.n
  /\ Advance
  /\ UNCHANGED <<files, up, registered, placement, apps, backups, failures>>

(* init_db_roles.sh reads .env again, so it visits the workers that .env     *)
(* counts, whatever the caller exported.                                     *)
CheckRoles ==
  /\ At("roles")
  /\ IF 1 .. env \subseteq up \cap Services THEN Advance ELSE Abort
  /\ UNCHANGED <<files, cluster, backups, failures>>

(* Mutant: without ON_ERROR_STOP a registration that fails goes unnoticed. *)
RegisterContinuing ==
  /\ At("register")
  /\ registered' = registered \cup {w \in {script.worker} : CanConnect(w)}
  /\ NextWorker
  /\ UNCHANGED <<files, up, pgpass, placement, apps, backups, failures>>

(* Mutant: without WHERE NOT EXISTS a worker cannot be registered again. *)
RegisterOnce ==
  /\ At("register")
  /\ LET w == script.worker
     IN  IF w \notin registered /\ CanConnect(w)
           THEN registered' = registered \cup {w} /\ NextWorker
           ELSE registered' = registered /\ Abort
  /\ UNCHANGED <<files, up, pgpass, placement, apps, backups, failures>>

(* A worker that is registered is left alone; another one must be reachable. *)
Register ==
  /\ At("register")
  /\ LET w == script.worker
     IN  IF w \in registered \/ CanConnect(w)
           THEN registered' = registered \cup {w} /\ NextWorker
           ELSE registered' = registered /\ Abort
  /\ UNCHANGED <<files, up, pgpass, placement, apps, backups, failures>>

Load(p, w) == Cardinality({s \in Shards : p[s] = w})

(* New shards are dealt out in turn: no two loads differ by more than one. *)
Spread(p) == \A v, w \in registered : Load(p, v) <= Load(p, w) + 1

Distributable == registered # {} /\ \A w \in registered : CanConnect(w)

(* alembic upgrade head distributes the tables, to workers that must all be  *)
(* reachable; on a database at its head it has nothing to do.                *)
Migrate ==
  /\ At("migrate")
  /\ \/ /\ Migrated
        /\ placement' = placement
        /\ Advance
     \/ /\ ~Migrated /\ Distributable
        /\ placement' \in [Shards -> registered]
        /\ Spread(placement')
        /\ Advance
     \/ /\ ~Migrated /\ ~Distributable
        /\ placement' = placement
        /\ Abort
  /\ UNCHANGED <<files, up, pgpass, registered, apps, backups, failures>>

(* An add rebalances only if the operator asks it to. *)
Skips == script.name = "add" /\ ~(RebalanceAfterAdd /\ Migrated)

(* rebalance_table_shards('orders') moves one shard after the other, by the  *)
(* sizes they have on disk, so any of them may go to any worker; what was    *)
(* moved stays moved.                                                        *)
MoveShard ==
  /\ At("rebalance") /\ ~Skips /\ Migrated /\ Distributable
  /\ \E s \in Shards, w \in registered :
       /\ placement[s] # w
       /\ placement' = [placement EXCEPT ![s] = w]
  /\ UNCHANGED <<files, up, pgpass, registered, apps, script, ended, backups, failures>>

(* It returns when its plan is done, which need not leave the counts even.  *)
Rebalance ==
  /\ At("rebalance")
  /\ IF Skips \/ (Migrated /\ Distributable) THEN Advance ELSE Abort
  /\ UNCHANGED <<files, cluster, backups, failures>>

StartApps ==
  /\ At("apps")
  /\ apps' = TRUE
  /\ Advance
  /\ UNCHANGED <<files, up, pgpass, registered, placement, backups, failures>>

(* A command fails for a reason of its own, and the script with it. *)
StepFails ==
  /\ ~Idle
  /\ failures < MaxFailures
  /\ failures' = failures + 1
  /\ Abort
  /\ UNCHANGED <<files, cluster, backups>>

(* backup_full.sh lists its stanzas from .env and backs them up in turn; it  *)
(* may run beside another script.                                            *)
BackupStart ==
  /\ "backup" \in Operations
  /\ backup = NoBackup
  /\ backup' = [last |-> env, next |-> Coordinator]
  /\ UNCHANGED <<files, cluster, script, ended, backed, failures>>

BackupNext ==
  /\ backup # NoBackup
  /\ IF backup.next \in up \cup {Coordinator}
       THEN IF backup.next < backup.last
              THEN backup' = [backup EXCEPT !.next = @ + 1] /\ backed' = backed
              ELSE backup' = NoBackup /\ backed' = Coordinator .. backup.last
       ELSE backup' = NoBackup /\ backed' = backed
  /\ UNCHANGED <<files, cluster, script, ended, failures>>

ScriptStep == \/ Count \/ Render \/ StartWorker \/ WritePgpass \/ CheckRoles
              \/ Register \/ Migrate \/ MoveShard \/ Rebalance \/ StartApps

Next == \/ StartInit \/ StartAdd \/ StartRebalance
        \/ ScriptStep \/ StepFails
        \/ BackupStart \/ BackupNext

Spec == Init /\ [][Next]_cvars

(* A script that runs goes on, the plan of a rebalance has finitely many      *)
(* moves, and an operator whose bootstrap failed runs it again, in the end    *)
(* for all the workers there are.                                            *)
FairSpec ==
  Spec /\ WF_cvars(ScriptStep) /\ WF_cvars(Rebalance) /\ SF_cvars(StartCoveringInit)

-----------------------------------------------------------------------------
TypeOK ==
  /\ env \in Workers /\ rendered \in 0 .. MaxWorkers
  /\ up \subseteq Workers /\ pgpass \subseteq Workers /\ registered \subseteq Workers
  /\ placement \in [Shards -> 0 .. MaxWorkers]
  /\ script \in [name : {"none"} \cup Operations, n : 0 .. MaxWorkers, step : 0 .. 8,
                 worker : 0 .. MaxWorkers]
  /\ ended \in [name : {"none"} \cup Operations, n : 0 .. MaxWorkers, step : 0 .. 8,
                worker : 0 .. MaxWorkers]
  /\ apps \in BOOLEAN
  /\ backup \in [last : 0 .. MaxWorkers, next : 0 .. MaxWorkers]
  /\ backed \subseteq 0 .. MaxWorkers
  /\ failures \in 0 .. MaxFailures

Holders == {placement[s] : s \in Shards} \ {0}

(* Every shard is on a registered worker that runs and that the coordinator  *)
(* can log in to.                                                            *)
ShardsReachable == \A w \in Holders : w \in registered /\ CanConnect(w)

(* Shards get out of the coordinator's reach in one way only: a bootstrap     *)
(* for fewer workers than are registered writes .pgpass anew                 *)
(* (init_citus_cluster.sh:33-49).  No other script, failed step or compose    *)
(* file rendered for fewer workers does it.                                  *)
OnlyNarrowBootstrapLocksOut ==
  [][ShardsReachable /\ ~ShardsReachable' =>
       At("pgpass") /\ ~(registered \subseteq 1 .. script.n)]_cvars

(* A bootstrap that reached its end, for all the registered workers, leaves   *)
(* every shard reachable, whatever scripts and failures came before it.       *)
CoveringBootstrapRestores ==
  ended.name = "init" /\ registered \subseteq 1 .. ended.n => ShardsReachable

(* docs/PRODUCTION_CHECKLIST.md: workers are registered before the           *)
(* migrations; the table is spread over all the workers asked for.           *)
RegisteredBeforeMigration ==
  [][~Migrated /\ Migrated' => 1 .. script.n \subseteq registered]_cvars

(* No script, run in whatever order, makes the count in .env smaller, stops a *)
(* worker or takes one out of the metadata (add_citus_worker.sh:24-27).      *)
NeverShrinks == [][env' >= env /\ up \subseteq up' /\ registered \subseteq registered']_cvars

(* A bootstrap that fails half way can be run again: whatever was left by    *)
(* it, by an add, or by a bootstrap for fewer workers, one is completed in    *)
(* the end, the applications run and every shard is reachable.               *)
BootstrapSucceeds ==
  script.name = "init" ~> (ended.name = "init" /\ apps /\ ShardsReachable)

(* docs/runbooks/backup-restore.md:29: the physical backup covers the        *)
(* coordinator and every worker.                                             *)
BackupCoversWorkers == [][backed' # backed => registered \subseteq backed']_cvars
=============================================================================
