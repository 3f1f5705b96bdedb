----------------------- MODULE ServiceLifecycleProofs -----------------------
(***************************************************************************)
(* The safety of ServiceLifecycle for every pool size, every number of     *)
(* retries and of crashes.                                                 *)
(***************************************************************************)
EXTENDS ServiceLifecycle, TLAPS

(* What the loop of DatabasePool.start knows of its counter. *)
AttemptsCounted ==
  /\ attempt["monitor"] = 0
  /\ \A p \in Programs :
       /\ phase[p] = "connecting" => attempt[p] < Retries
       /\ phase[p] = "exited" => attempt[p] = 0

IInv == TypeOK /\ AttemptsCounted /\ ConnectionsBounded

LEMMA InitIInv == Init => IInv
BY RetriesAssumption, PoolSizeAssumption
DEF Init, IInv, TypeOK, AttemptsCounted, ConnectionsBounded, Programs, Pooled, Phases, NotReady, Queries

(* The end of a process leaves nothing behind. *)
LEMMA ExitStep ==
  ASSUME IInv, NEW p \in Programs, Exit(p), up' \in BOOLEAN, crashes' \in 0 .. MaxCrashes
  PROVE  IInv'
BY RetriesAssumption, PoolSizeAssumption
DEF IInv, TypeOK, AttemptsCounted, ConnectionsBounded, Exit, Phases, NotReady, Queries

(* Commands take connections only where there is room, and discard dead ones. *)
LEMMA CommandStep ==
  ASSUME IInv, NEW p \in Pooled, phase[p] = "running",
         Served(p) \/ (Failed(p) /\ UNCHANGED live),
         UNCHANGED <<up, phase, attempt, crashes>>, probe' \in 0 .. NotReady
  PROVE  IInv'
<1> USE RetriesAssumption, PoolSizeAssumption
    DEF IInv, TypeOK, AttemptsCounted, ConnectionsBounded, Programs, Pooled, Phases
<1>1. CASE Served(p)
  BY <1>1 DEF Served
<1>2. CASE Failed(p) /\ UNCHANGED live
  BY <1>2 DEF Failed
<1> QED  BY <1>1, <1>2

LEMMA DatabaseDownStep == ASSUME IInv, DatabaseDown PROVE IInv'
<1> USE RetriesAssumption, PoolSizeAssumption
    DEF IInv, TypeOK, AttemptsCounted, ConnectionsBounded, Programs, Pooled, Phases
<1>1. PICK d \in [Programs -> 0 .. MaxSize] :
        /\ \A p \in Pooled : d[p] \in dead[p] .. (dead[p] + live[p])
        /\ d["monitor"] = dead["monitor"] + live["monitor"]
        /\ dead' = d
  BY DEF DatabaseDown
<1>2. dead' \in [Programs -> Nat] /\ live' = [p \in Programs |-> 0]
  BY <1>1 DEF DatabaseDown
<1>3. up' = FALSE /\ UNCHANGED <<phase, attempt, probe, crashes>>
  BY DEF DatabaseDown
<1>4. TypeOK' /\ AttemptsCounted'
  BY <1>2, <1>3
<1>5. ASSUME NEW p \in Programs PROVE dead'[p] <= dead[p] + live[p]
  <2>1. CASE p = "monitor"
    BY <1>1, <2>1
  <2>2. CASE p \in Pooled
    BY <1>1, <2>2
  <2> QED  BY <2>1, <2>2
<1>6. ASSUME NEW p \in Programs
      PROVE  /\ live'[p] + dead'[p] <= IF p = "monitor" THEN 1 ELSE MaxSize
             /\ phase'[p] # "running" => live'[p] + dead'[p] = 0
  BY <1>2, <1>3, <1>5
<1>7. ConnectionsBounded'
  BY <1>6
<1> QED  BY <1>4, <1>7

LEMMA NextIInv == IInv /\ [Next]_svars => IInv'
<1> SUFFICES ASSUME IInv, [Next]_svars PROVE IInv'
  OBVIOUS
<1> USE RetriesAssumption, PoolSizeAssumption
<1>1. ASSUME NEW p \in Programs, Boot(p) PROVE IInv'
  BY <1>1 DEF Boot, IInv, TypeOK, AttemptsCounted, ConnectionsBounded, Phases
<1>2. ASSUME NEW p \in Programs, Attempt(p) PROVE IInv'
  BY <1>2 DEF Attempt, IInv, TypeOK, AttemptsCounted, ConnectionsBounded, Programs, Pooled, Phases
<1>3. ASSUME NEW p \in Programs, Wake(p) PROVE IInv'
  <2>1. CASE attempt[p] < Retries
    BY <1>3, <2>1 DEF Wake, IInv, TypeOK, AttemptsCounted, ConnectionsBounded, Phases
  <2>2. CASE ~(attempt[p] < Retries)
    BY <1>3, <2>2, ExitStep DEF Wake, IInv, TypeOK
  <2> QED  BY <2>1, <2>2
<1>4. ASSUME NEW p \in Programs, Crash(p) PROVE IInv'
  BY <1>4, ExitStep, RetriesAssumption DEF Crash, IInv, TypeOK
<1>5. CASE Probe
  BY <1>5, CommandStep DEF Probe, Pooled, IInv, TypeOK, NotReady, Queries
<1>6. CASE Handle
  BY <1>6, CommandStep DEF Handle, Pooled, IInv, TypeOK
<1>7. CASE Reply
  BY <1>7 DEF Reply, IInv, TypeOK, AttemptsCounted, ConnectionsBounded, NotReady, Queries
<1>8. CASE Produce
  <2>1. CASE Served("producer") /\ UNCHANGED <<phase, attempt, probe>>
    BY <1>8, <2>1, CommandStep DEF Produce, Pooled, IInv, TypeOK
  <2>2. CASE Exit("producer")
    BY <1>8, <2>2, ExitStep DEF Produce, IInv, TypeOK, Programs, Pooled
  <2> QED  BY <1>8, <2>1, <2>2 DEF Produce
<1>9. CASE Connect
  <2>1. CASE up
    BY <1>9, <2>1 DEF Connect, IInv, TypeOK, AttemptsCounted, ConnectionsBounded, Programs, Phases
  <2>2. CASE ~up
    BY <1>9, <2>2, ExitStep DEF Connect, IInv, TypeOK, Programs
  <2> QED  BY <2>1, <2>2
<1>10. CASE Poll
  <2>1. live["monitor"] = 0 /\ attempt["monitor"] < Retries
    BY <1>10 DEF Poll, IInv, TypeOK, AttemptsCounted, ConnectionsBounded, Programs
  <2> QED  BY <1>10, <2>1 DEF Poll, IInv, TypeOK, AttemptsCounted, ConnectionsBounded, Programs, Phases
<1>11. CASE DatabaseDown
  BY <1>11, DatabaseDownStep
<1>12. CASE DatabaseUp
  BY <1>12 DEF DatabaseUp, IInv, TypeOK, AttemptsCounted, ConnectionsBounded
<1>13. CASE UNCHANGED svars
  BY <1>13 DEF svars, IInv, TypeOK, AttemptsCounted, ConnectionsBounded
<1> QED
  BY <1>1, <1>2, <1>3, <1>4, <1>5, <1>6, <1>7, <1>8, <1>9, <1>10, <1>11, <1>12, <1>13
  DEF Next, Step

(* The inductive invariant holds in every reachable state. *)
THEOREM Invariance == Spec => []IInv
BY InitIInv, NextIInv, PTL DEF Spec

(* Types: in particular start makes no more attempts than it may. *)
THEOREM TypeCorrect == Spec => []TypeOK
<1>1. IInv => TypeOK
  BY DEF IInv
<1> QED  BY <1>1, Invariance, PTL

(* No reconnection, restart or outage lets connections pile up.  *)
THEOREM ConnectionsDoNotPileUp == Spec => []ConnectionsBounded
<1>1. IInv => ConnectionsBounded
  BY DEF IInv
<1> QED  BY <1>1, Invariance, PTL
=============================================================================
