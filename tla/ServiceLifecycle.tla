-------------------------- MODULE ServiceLifecycle --------------------------
(***************************************************************************)
(* The long-running programs and the database they need: a web service     *)
(* (reader or writer; src/app/common/api.py and db.py), the producer       *)
(* (src/app/producer_service/main.py) and the WAL monitor                  *)
(* (src/app/wal_monitor/main.py), which Docker starts again when they end  *)
(* (restart: unless-stopped in src/docker-compose.yml).                    *)
(*                                                                         *)
(* The database goes away and comes back at any moment.  Connections made  *)
(* before are dead then: some are closed, and asyncpg notices; others only *)
(* look alive, until a command on them fails or times out.                 *)
(***************************************************************************)
EXTENDS Integers

CONSTANTS
  Retries,    \* settings.db_connect_retries
  MinSize,    \* settings.db_pool_min_size
  MaxSize,    \* settings.db_pool_max_size
  MaxCrashes  \* bound: how often programs are killed or told to stop

ASSUME RetriesAssumption == Retries \in Nat \ {0} /\ MaxCrashes \in Nat
ASSUME PoolSizeAssumption == MinSize \in Nat /\ MaxSize \in Nat \ {0} /\ MinSize <= MaxSize

Pooled == {"web", "producer"}    \* these have a DatabasePool
Programs == Pooled \cup {"monitor"}

VARIABLES
  up,       \* the database can be reached
  phase,    \* what each program is doing
  attempt,  \* failed attempts of DatabasePool.start
  live,     \* each program's connections that work
  dead,     \* those that only look as if they did
  probe,    \* /ready: queries answered so far, or what it is about to answer
  crashes   \* how many crashes so far

svars == <<up, phase, attempt, live, dead, probe, crashes>>

Phases == {"connecting", "sleeping", "running", "exited"}
Queries == 4
Ready == Queries           \* all were answered
NotReady == Queries + 1    \* {"coordinator": "error: ..."}, with HTTP status 200

Init ==
  /\ up \in BOOLEAN
  /\ phase = [p \in Programs |-> "connecting"]
  /\ attempt = [p \in Programs |-> 0]
  /\ live = [p \in Programs |-> 0] /\ dead = [p \in Programs |-> 0]
  /\ probe = 0
  /\ crashes = 0

(* The sockets of a process go with it. *)
Exit(p) ==
  /\ phase' = [phase EXCEPT ![p] = "exited"]
  /\ attempt' = [attempt EXCEPT ![p] = 0]
  /\ live' = [live EXCEPT ![p] = 0]
  /\ dead' = [dead EXCEPT ![p] = 0]
  /\ probe' = IF p = "web" THEN 0 ELSE probe

(* Docker, and the first lines of the program. *)
Boot(p) ==
  /\ phase[p] = "exited"
  /\ phase' = [phase EXCEPT ![p] = "connecting"]
  /\ UNCHANGED <<up, attempt, live, dead, probe, crashes>>

(* One round of the loop in DatabasePool.start.  A pool of min_size 0 opens  *)
(* no connection yet, so that it starts without its database.                *)
Attempt(p) ==
  /\ p \in Pooled
  /\ phase[p] = "connecting"
  /\ IF up \/ MinSize = 0
     THEN /\ phase' = [phase EXCEPT ![p] = "running"]
          /\ live' = [live EXCEPT ![p] = MinSize]
          /\ attempt' = [attempt EXCEPT ![p] = 0]
     ELSE /\ phase' = [phase EXCEPT ![p] = "sleeping"]
          /\ attempt' = [attempt EXCEPT ![p] = @ + 1]
          /\ UNCHANGED live
  /\ UNCHANGED <<up, dead, probe, crashes>>

(* Mutant: the attempts are not counted. *)
WakeForever(p) ==
  /\ p \in Pooled
  /\ phase[p] = "sleeping"
  /\ phase' = [phase EXCEPT ![p] = "connecting"]
  /\ attempt' = [attempt EXCEPT ![p] = 0]
  /\ UNCHANGED <<up, live, dead, probe, crashes>>

(* Mutant: the loop ends without the exception, and the program goes on     *)
(* without a pool.                                                          *)
WakeWithoutPool(p) ==
  /\ p \in Pooled
  /\ phase[p] = "sleeping"
  /\ phase' = [phase EXCEPT ![p] = IF attempt[p] < Retries THEN "connecting" ELSE "poolless"]
  /\ UNCHANGED <<up, attempt, live, dead, probe, crashes>>

(* The sleep comes after every failed attempt, the last one included; then   *)
(* the exception of start ends lifespan, or main, and the process.           *)
Wake(p) ==
  /\ p \in Pooled
  /\ phase[p] = "sleeping"
  /\ IF attempt[p] < Retries
       THEN /\ phase' = [phase EXCEPT ![p] = "connecting"]
            /\ UNCHANGED <<attempt, live, dead, probe>>
       ELSE Exit(p)
  /\ UNCHANGED <<up, crashes>>

(* A command of a program with a pool takes a connection of the pool, any    *)
(* of them, or a new one if there is room.                                   *)
Served(p) ==
  /\ up
  /\ \/ live[p] > 0 /\ UNCHANGED live
     \/ live[p] + dead[p] < MaxSize /\ live' = [live EXCEPT ![p] = @ + 1]
  /\ UNCHANGED dead

(* Mutant: a connection that failed goes back to the pool. *)
FailedKeeping(p) ==
  /\ dead[p] > 0 \/ (~up /\ live[p] + dead[p] < MaxSize)
  /\ UNCHANGED dead

(* It fails on a dead connection, which the pool then discards, or on the    *)
(* attempt to make a new one.                                                *)
Failed(p) ==
  \/ dead[p] > 0 /\ dead' = [dead EXCEPT ![p] = @ - 1]
  \/ ~up /\ live[p] + dead[p] < MaxSize /\ UNCHANGED dead

(* DatabasePool.readiness: four queries, an exception ends it. *)
Probe ==
  /\ phase["web"] = "running"
  /\ probe < Queries
  /\ \/ Served("web") /\ probe' = probe + 1
     \/ Failed("web") /\ probe' = NotReady /\ UNCHANGED live
  /\ UNCHANGED <<up, phase, attempt, crashes>>

Reply ==
  /\ phase["web"] = "running"
  /\ probe >= Queries
  /\ probe' = 0
  /\ UNCHANGED <<up, phase, attempt, live, dead, crashes>>

(* The commands of the handlers; a failure is the answer 500. *)
Handle ==
  /\ phase["web"] = "running"
  /\ \/ Served("web")
     \/ Failed("web") /\ UNCHANGED live
  /\ UNCHANGED <<up, phase, attempt, probe, crashes>>

(* The producer's loop.  An exception of create_order leaves it by way of    *)
(* db.stop, and the process ends.                                            *)
Produce ==
  /\ phase["producer"] = "running"
  /\ \/ Served("producer") /\ UNCHANGED <<phase, attempt, probe>>
     \/ dead["producer"] > 0 /\ Exit("producer")
     \/ ~up /\ live["producer"] + dead["producer"] < MaxSize /\ Exit("producer")
  /\ UNCHANGED <<up, crashes>>

(* connect() of the monitor, the first and, inside the except block, the     *)
(* others: nothing catches its failure.                                      *)
Connect ==
  /\ phase["monitor"] = "connecting"
  /\ IF up THEN /\ phase' = [phase EXCEPT !["monitor"] = "running"]
                /\ live' = [live EXCEPT !["monitor"] = @ + 1]
                /\ UNCHANGED <<attempt, dead, probe>>
     ELSE Exit("monitor")
  /\ UNCHANGED <<up, crashes>>

(* Mutant: the monitor connects again without closing what it had. *)
PollKeeping ==
  /\ phase["monitor"] = "running"
  /\ dead["monitor"] > 0
  /\ phase' = [phase EXCEPT !["monitor"] = "connecting"]
  /\ UNCHANGED <<up, attempt, live, dead, probe, crashes>>

(* read_cluster_status fails on a dead connection, which is closed.  Where   *)
(* it succeeds nothing changes.                                              *)
Poll ==
  /\ phase["monitor"] = "running"
  /\ dead["monitor"] > 0
  /\ phase' = [phase EXCEPT !["monitor"] = "connecting"]
  /\ dead' = [dead EXCEPT !["monitor"] = 0]
  /\ UNCHANGED <<up, attempt, live, probe, crashes>>

(* asyncpg notices connections that are closed, the blocking monitor none.   *)
DatabaseDown ==
  /\ up
  /\ up' = FALSE
  /\ live' = [p \in Programs |-> 0]
  /\ \E d \in [Programs -> 0 .. MaxSize] :
       /\ \A p \in Pooled : d[p] \in dead[p] .. (dead[p] + live[p])
       /\ d["monitor"] = dead["monitor"] + live["monitor"]
       /\ dead' = d
  /\ UNCHANGED <<phase, attempt, probe, crashes>>

DatabaseUp == ~up /\ up' = TRUE /\ UNCHANGED <<phase, attempt, live, dead, probe, crashes>>

(* A program is killed, or told to stop and started again. *)
Crash(p) ==
  /\ crashes < MaxCrashes
  /\ phase[p] # "exited"
  /\ crashes' = crashes + 1
  /\ Exit(p)
  /\ UNCHANGED up

Step(p) == Boot(p) \/ Attempt(p) \/ Wake(p)

Next == \/ \E p \in Programs : Step(p) \/ Crash(p)
        \/ Probe \/ Reply \/ Handle \/ Produce \/ Connect \/ Poll
        \/ DatabaseDown \/ DatabaseUp

(* The event loop and the scheduler go on with what a program has begun,     *)
(* Docker starts it again, the producer goes on producing and the monitor    *)
(* polling.  No request has to come, and the database owes nothing.          *)
Fairness ==
  /\ \A p \in Programs : WF_svars(Step(p))
  /\ WF_svars(Probe /\ probe > 0) /\ WF_svars(Reply)
  /\ WF_svars(Produce) /\ WF_svars(Connect) /\ WF_svars(Poll)

Spec == Init /\ [][Next]_svars /\ Fairness

-----------------------------------------------------------------------------
TypeOK ==
  /\ up \in BOOLEAN
  /\ phase \in [Programs -> Phases]
  /\ attempt \in [Programs -> 0 .. Retries]
  /\ live \in [Programs -> Nat] /\ dead \in [Programs -> Nat]
  /\ probe \in 0 .. NotReady
  /\ crashes \in 0 .. MaxCrashes

(* No reconnection and no restart takes connections without giving them     *)
(* back: a pool keeps to its size, the monitor to one connection, and what   *)
(* is not running has none (db.py:58-69, wal_monitor/main.py:56-58).         *)
ConnectionsBounded ==
  \A p \in Programs :
    /\ live[p] + dead[p] <= IF p = "monitor" THEN 1 ELSE MaxSize
    /\ phase[p] # "running" => live[p] + dead[p] = 0

(* Starting ends, with a program that runs or one that Docker starts again,  *)
(* even when the database never comes (DatabasePool.start).                  *)
StartEnds ==
  \A p \in Programs :
    phase[p] \in {"connecting", "sleeping"} ~> phase[p] \in {"running", "exited"}

(* If the database stays, every program is back for good, whatever died      *)
(* with the database or waited for it.                                       *)
ComesBack == <>[]up => <>[](\A p \in Programs : phase[p] = "running")

(* /ready comes to say what is the case and stays with it: the connections   *)
(* an outage left behind do not fail it for ever, nor does it go on          *)
(* answering without a database.                                             *)
ReadyFollows ==
  /\ <>[]up => <>[](probe # NotReady)
  /\ <>[]~up => <>[](probe # Ready)

=============================================================================
