------------------------- MODULE CreateOrderProofs -------------------------
(***************************************************************************)
(* CreateOrder keeps its safety properties for every set of calls,         *)
(* principals, keys and bodies, every pool size and every failure.         *)
(*                                                                         *)
(* IInv is the inductive invariant.  OneOrderPerKey is not inductive: that *)
(* two transactions never insert the same key row rests on OneWriterPerKey,*)
(* which rests on what each statement finds (CallDiscipline).              *)
(***************************************************************************)
EXTENDS CreateOrder, FiniteSetTheorems, TLAPS

IInv == /\ TypeOK
        /\ ConnectionsReturned
        /\ CallDiscipline
        /\ OneWriterPerKey
        /\ KeyBoundToItsOrder
        /\ AcknowledgedIsCommitted
        /\ ConflictIsTruthful

(* The slot of a keyed call is a slot. *)
LEMMA SlotInSlots ==
  ASSUME TypeOK, NEW c \in Calls, Keyed(c)
  PROVE  /\ req[c] \in Requests
         /\ Slot(c) \in Slots
BY DEF TypeOK, Keyed, Slot, Slots, Requests

(* The pool is finite, and stays within its size when a connection is given  *)
(* back or taken under the guard of Begin.                                   *)
LEMMA PoolCardinality ==
  ASSUME TypeOK, NEW c \in Calls
  PROVE  /\ Cardinality(pool \ {c}) <= PoolSize
         /\ Cardinality(pool) < PoolSize => Cardinality(pool \cup {c}) <= PoolSize
         /\ Cardinality({}) <= PoolSize
<1>1. IsFiniteSet(pool) /\ Cardinality(pool) \in Nat /\ Cardinality(pool) <= PoolSize
  BY FiniteCalls, FS_Subset, FS_CardinalityType DEF TypeOK
<1>2. Cardinality(pool \ {c}) = IF c \in pool THEN Cardinality(pool) - 1 ELSE Cardinality(pool)
  BY <1>1, FS_RemoveElement
<1>3. Cardinality(pool \cup {c}) = IF c \in pool THEN Cardinality(pool) ELSE Cardinality(pool) + 1
  BY <1>1, FS_AddElement
<1>4. Cardinality({}) = 0
  BY FS_EmptySet
<1> QED  BY <1>1, <1>2, <1>3, <1>4, PoolSizeAssumption

(* The invariant holds initially. *)
LEMMA InitIInv == Init => IInv
<1> SUFFICES ASSUME Init PROVE IInv
  OBVIOUS
<1>1. TypeOK
  BY FS_EmptySet, PoolSizeAssumption DEF Init, TypeOK, Steps, TxnStates
<1>2. ConnectionsReturned
  BY DEF Init, ConnectionsReturned, InTransaction, Statements
<1>3. CallDiscipline
  BY DEF Init, CallDiscipline, Disciplined, TxnAt, Ended, InTransaction, Statements
<1>4. OneWriterPerKey
  BY DEF Init, OneWriterPerKey, Holds, Live
<1>5. KeyBoundToItsOrder
  BY DEF Init, KeyBoundToItsOrder
<1>6. AcknowledgedIsCommitted /\ ConflictIsTruthful
  BY NoneAssumption DEF Init, AcknowledgedIsCommitted, ConflictIsTruthful, Conflict, Answers
<1> QED  BY <1>1, <1>2, <1>3, <1>4, <1>5, <1>6 DEF IInv

(* A step that takes no lock and commits nothing keeps what is said of the   *)
(* rows and their writers.                                                   *)
LEMMA NoNewWriter ==
  ASSUME IInv, UNCHANGED <<req, keys, orders>>,
         \A d \in Calls : \A s \in Slots : Holds(d, s)' => Holds(d, s)
  PROVE  OneWriterPerKey' /\ KeyBoundToItsOrder'
<1>1. OneWriterPerKey'
  BY DEF IInv, OneWriterPerKey
<1>2. KeyBoundToItsOrder'
  BY DEF IInv, KeyBoundToItsOrder, Keyed, Slot
<1> QED  BY <1>1, <1>2

(* A step that answers nobody and reopens no transaction of an answered call *)
(* keeps what is said of the answers.                                        *)
LEMMA NoNewAnswer ==
  ASSUME IInv, UNCHANGED <<req, keys, orders, answer>>,
         \A d \in Calls : answer[d] # None /\ Live(d)' => Live(d)
  PROVE  AcknowledgedIsCommitted' /\ ConflictIsTruthful'
<1>1. AcknowledgedIsCommitted'
  BY DEF IInv, AcknowledgedIsCommitted
<1>2. ConflictIsTruthful'
  BY NoneAssumption DEF IInv, ConflictIsTruthful, Keyed, Slot, Conflict, Answers
<1> QED  BY <1>1, <1>2

(* A step that leaves a call and its transaction alone leaves it disciplined. *)
LEMMA OthersDisciplined ==
  ASSUME IInv, NEW d \in Calls,
         pc'[d] = pc[d], req'[d] = req[d], answer'[d] = answer[d],
         txn'[d] = txn[d], work'[d] = work[d],
         d \in orders' <=> d \in orders
  PROVE  Disciplined(d)'
BY DEF IInv, CallDiscipline, Disciplined, InTransaction, TxnAt, WorkAt, FullWork, Keyed, Ended, Live

(* The end of a coroutine, with any of the answers the code gives. *)
LEMMA FinishStep ==
  ASSUME IInv, NEW c \in Calls, NEW a \in Answers, Finish(c, a),
         UNCHANGED <<req, work, keys, orders>>,
         InTransaction(c), txn[c] # "sent",
         \/ a = ServerError
         \/ a = Created(c) /\ c \in orders
         \/ /\ a = Conflict
            /\ Keyed(c)
            /\ c \notin orders
            /\ keys[Slot(c)] # NoRow
            /\ keys[Slot(c)].hash # RequestHash(req[c].body)
  PROVE  IInv'
<1>1. TypeOK'
  BY PoolCardinality DEF IInv, TypeOK, Finish, Steps, TxnStates
<1>2. ConnectionsReturned'
  BY DEF IInv, TypeOK, ConnectionsReturned, Finish, InTransaction, Statements
<1>3. CallDiscipline'
  <2>1. \A d \in Calls \ {c} : Disciplined(d)'
    BY OthersDisciplined DEF IInv, TypeOK, Finish
  <2>2. Disciplined(c)'
    BY NoneAssumption DEF IInv, TypeOK, CallDiscipline, Disciplined, Finish, InTransaction, Statements,
       Steps, TxnAt, TxnStates, WorkAt, FullWork, Keyed, Ended, Live
  <2> QED  BY <2>1, <2>2 DEF CallDiscipline
<1>4. \A d \in Calls : Live(d)' => Live(d)
  BY DEF IInv, TypeOK, Finish, Live
<1>5. OneWriterPerKey' /\ KeyBoundToItsOrder'
  BY <1>4, NoNewWriter DEF Holds, Keyed, Slot
<1>6. AcknowledgedIsCommitted'
  BY DEF IInv, TypeOK, AcknowledgedIsCommitted, Finish, Created, ServerError, Conflict
<1>7. ConflictIsTruthful'
  BY <1>4 DEF IInv, TypeOK, ConflictIsTruthful, CallDiscipline, Disciplined, Finish, Live, Created, ServerError,
     Conflict, Keyed, Slot, TxnStates
<1> QED  BY <1>1, <1>2, <1>3, <1>5, <1>6, <1>7 DEF IInv

(* The verdict on a committed row is a 409 or an error, never a replay. *)
LEMMA VerdictCases ==
  ASSUME NEW c \in Calls, NEW row
  PROVE  /\ Verdict(c, row) \in {Conflict, ServerError}
         /\ Verdict(c, row) = Conflict => row.hash # RequestHash(req[c].body)
BY DEF Verdict, AsDict, Fetched, Conflict, ServerError

LEMMA ArriveStep == ASSUME IInv, NEW c \in Calls, Arrive(c) PROVE IInv'
<1>1. TypeOK'
  BY DEF IInv, TypeOK, Arrive, Steps
<1>2. ConnectionsReturned'
  BY DEF IInv, TypeOK, ConnectionsReturned, Arrive, InTransaction, Statements
<1>3. CallDiscipline'
  <2>1. \A d \in Calls \ {c} : Disciplined(d)'
    BY OthersDisciplined DEF IInv, TypeOK, Arrive
  <2>2. Disciplined(c)'
    BY NoneAssumption DEF IInv, TypeOK, CallDiscipline, Disciplined, Arrive, InTransaction, Statements,
       TxnAt, WorkAt, FullWork, Keyed, Ended, Live
  <2> QED  BY <2>1, <2>2 DEF CallDiscipline
<1>4. req[c] = None /\ txn[c] = "none" /\ c \notin orders /\ answer[c] = None
  BY DEF IInv, CallDiscipline, Disciplined, Arrive, TxnAt, Ended
<1>5. /\ \A d \in Calls \ {c} : req'[d] = req[d]
      /\ UNCHANGED <<txn, work, keys, orders, answer>>
  BY DEF IInv, TypeOK, Arrive
<1>6. OneWriterPerKey'
  BY <1>4, <1>5 DEF IInv, OneWriterPerKey, Holds, Live, Keyed, Slot
<1>7. KeyBoundToItsOrder'
  BY <1>4, <1>5 DEF IInv, TypeOK, KeyBoundToItsOrder, Keyed, Slot
<1>8. AcknowledgedIsCommitted'
  BY <1>4, <1>5 DEF IInv, TypeOK, AcknowledgedIsCommitted
<1>9. ConflictIsTruthful'
  BY <1>4, <1>5, NoneAssumption
  DEF IInv, TypeOK, ConflictIsTruthful, Conflict, Answers, Live, Keyed, Slot
<1> QED  BY <1>1, <1>2, <1>3, <1>6, <1>7, <1>8, <1>9 DEF IInv

LEMMA BeginStep == ASSUME IInv, NEW c \in Calls, Begin(c) PROVE IInv'
<1>1. TypeOK'
  BY PoolCardinality DEF IInv, TypeOK, Begin, Steps, Statements, TxnStates
<1>2. ConnectionsReturned'
  BY DEF IInv, TypeOK, ConnectionsReturned, Begin, InTransaction, Statements
<1>3. txn[c] = "none" /\ work[c] = {} /\ answer[c] = None
  BY DEF IInv, CallDiscipline, Disciplined, Begin, TxnAt, Ended
<1>4. CallDiscipline'
  <2>1. \A d \in Calls \ {c} : Disciplined(d)'
    BY <1>3, OthersDisciplined DEF IInv, TypeOK, Begin
  <2>2. Disciplined(c)'
    BY <1>3 DEF IInv, TypeOK, CallDiscipline, Disciplined, Begin, InTransaction, Statements,
       TxnAt, WorkAt, FullWork, Keyed, Ended, Live
  <2> QED  BY <2>1, <2>2 DEF CallDiscipline
<1>5. OneWriterPerKey' /\ KeyBoundToItsOrder'
  BY <1>3, NoNewWriter DEF IInv, TypeOK, Begin, Holds, Live, Keyed, Slot
<1>6. AcknowledgedIsCommitted' /\ ConflictIsTruthful'
  BY <1>3, NoNewAnswer DEF IInv, TypeOK, Begin, Live
<1> QED  BY <1>1, <1>2, <1>4, <1>5, <1>6 DEF IInv

(* A committed key row has a response: the branch of the SELECT for a row    *)
(* without one is never taken.                                               *)
LEMMA RowsHaveResponses ==
  ASSUME IInv, NEW s \in Slots, keys[s] # NoRow
  PROVE  keys[s].response # None
BY NoneAssumption DEF IInv, TypeOK, KeyBoundToItsOrder

LEMMA SelectContinuesStep ==
  ASSUME IInv, NEW c \in Calls, SelectContinues(c) PROVE IInv'
<1>1. Keyed(c) /\ Slot(c) \in Slots
  BY SlotInSlots DEF IInv, CallDiscipline, Disciplined, SelectContinues
<1>2. keys[Slot(c)] = NoRow /\ pc' = [pc EXCEPT ![c] = "insertKey"]
  BY <1>1, RowsHaveResponses DEF SelectContinues
<1>3. TypeOK'
  BY <1>2 DEF IInv, TypeOK, SelectContinues, Steps, Statements
<1>4. ConnectionsReturned'
  BY <1>2 DEF IInv, TypeOK, ConnectionsReturned, SelectContinues, InTransaction, Statements
<1>5. CallDiscipline'
  <2>1. \A d \in Calls \ {c} : Disciplined(d)'
    BY <1>2, OthersDisciplined DEF IInv, TypeOK, SelectContinues
  <2>2. Disciplined(c)'
    BY <1>2 DEF IInv, TypeOK, CallDiscipline, Disciplined, SelectContinues, InTransaction, Statements,
       TxnAt, WorkAt, FullWork, Keyed, Ended, Live
  <2> QED  BY <2>1, <2>2 DEF CallDiscipline
<1>6. OneWriterPerKey' /\ KeyBoundToItsOrder'
  BY NoNewWriter DEF SelectContinues, Holds, Live, Keyed, Slot
<1>7. AcknowledgedIsCommitted' /\ ConflictIsTruthful'
  BY NoNewAnswer DEF SelectContinues, Live
<1> QED  BY <1>3, <1>4, <1>5, <1>6, <1>7 DEF IInv

LEMMA SelectAnswersStep ==
  ASSUME IInv, NEW c \in Calls, SelectAnswers(c) PROVE IInv'
<1> DEFINE a == Verdict(c, keys[Slot(c)])
<1>1. Keyed(c) /\ InTransaction(c) /\ c \notin orders /\ txn[c] = "open"
  BY DEF IInv, CallDiscipline, Disciplined, SelectAnswers, InTransaction, Statements
<1>2. a \in {Conflict, ServerError} /\ (a = Conflict => keys[Slot(c)].hash # RequestHash(req[c].body))
  BY VerdictCases
<1>3. a \in Answers
  BY <1>2 DEF Answers, Conflict, ServerError
<1> QED  BY <1>1, <1>2, <1>3, FinishStep DEF SelectAnswers

LEMMA InsertKeyStep ==
  ASSUME IInv, NEW c \in Calls, InsertKey(c) PROVE IInv'
<1>1. /\ pc[c] = "insertKey" /\ txn[c] = "open" /\ work[c] = {} /\ Keyed(c) /\ Slot(c) \in Slots
      /\ answer[c] = None
  BY SlotInSlots DEF IInv, CallDiscipline, Disciplined, InsertKey, Write, InTransaction, Statements, WorkAt
<1>2. /\ pc' = [pc EXCEPT ![c] = "insertOrder"]
      /\ work' = [work EXCEPT ![c] = {"key"}]
      /\ UNCHANGED <<req, answer, pool, txn, keys, orders>>
  BY <1>1 DEF IInv, TypeOK, InsertKey, Write
<1>3. TypeOK'
  BY <1>2 DEF IInv, TypeOK, Steps, Statements, Writes
<1>4. ConnectionsReturned'
  BY <1>1, <1>2 DEF IInv, TypeOK, ConnectionsReturned, InTransaction, Statements
<1>5. CallDiscipline'
  <2>1. \A d \in Calls \ {c} : pc'[d] = pc[d] /\ work'[d] = work[d]
    BY <1>2 DEF IInv, TypeOK
  <2>2. pc'[c] = "insertOrder" /\ work'[c] = {"key"}
    BY <1>2 DEF IInv, TypeOK
  <2> QED  BY <1>1, <1>2, <2>1, <2>2 DEF IInv, CallDiscipline, Disciplined, InTransaction, Statements,
             TxnAt, WorkAt, FullWork, Keyed, Ended, Live
<1>6. OneWriterPerKey'
  <2>1. \A d \in Calls : \A s \in Slots : Holds(d, s)' => Holds(d, s) \/ (d = c /\ s = Slot(c))
    BY <1>2 DEF IInv, TypeOK, Holds, Live, Keyed, Slot
  <2>2. keys[Slot(c)] = NoRow /\ \A d \in Calls \ {c} : ~Holds(d, Slot(c))
    BY DEF InsertKey, Blocked
  <2> QED  BY <1>1, <1>2, <2>1, <2>2 DEF IInv, OneWriterPerKey
<1>7. KeyBoundToItsOrder'
  BY <1>2 DEF IInv, KeyBoundToItsOrder, Keyed, Slot
<1>8. AcknowledgedIsCommitted' /\ ConflictIsTruthful'
  BY <1>2, NoNewAnswer DEF Live
<1> QED  BY <1>3, <1>4, <1>5, <1>6, <1>7, <1>8 DEF IInv

LEMMA InsertKeyViolatesStep ==
  ASSUME IInv, NEW c \in Calls, InsertKeyViolates(c) PROVE IInv'
<1>1. TypeOK'
  BY DEF IInv, TypeOK, InsertKeyViolates, Steps, Statements, TxnStates
<1>2. ConnectionsReturned'
  BY DEF IInv, TypeOK, ConnectionsReturned, InsertKeyViolates, InTransaction, Statements
<1>3. CallDiscipline'
  <2>1. \A d \in Calls \ {c} : Disciplined(d)'
    BY OthersDisciplined DEF IInv, TypeOK, InsertKeyViolates
  <2>2. Disciplined(c)'
    BY DEF IInv, TypeOK, CallDiscipline, Disciplined, InsertKeyViolates, InTransaction, Statements,
       TxnAt, WorkAt, FullWork, Keyed, Ended, Live
  <2> QED  BY <2>1, <2>2 DEF CallDiscipline
<1>4. OneWriterPerKey' /\ KeyBoundToItsOrder'
  BY NoNewWriter DEF IInv, TypeOK, InsertKeyViolates, Holds, Live, Keyed, Slot
<1>5. AcknowledgedIsCommitted' /\ ConflictIsTruthful'
  BY NoNewAnswer DEF IInv, TypeOK, InsertKeyViolates, Live
<1> QED  BY <1>1, <1>2, <1>3, <1>4, <1>5 DEF IInv

LEMMA ReselectStep ==
  ASSUME IInv, NEW c \in Calls, Reselect(c) PROVE IInv'
<1>1. InTransaction(c) /\ txn[c] = "failed"
  BY DEF IInv, CallDiscipline, Disciplined, Reselect, Live, TxnAt, Ended, InTransaction, Statements
<1>2. Finish(c, ServerError)
  BY <1>1 DEF Reselect
<1>3. ServerError \in Answers
  BY DEF ServerError, Answers
<1> QED  BY <1>1, <1>2, <1>3, FinishStep DEF Reselect

(* The order insert of every call and the key update of a keyed one. *)
LEMMA InsertOrderStep ==
  ASSUME IInv, NEW c \in Calls, InsertOrder(c) PROVE IInv'
<1>1. pc[c] = "insertOrder" /\ txn[c] = "open" /\ work[c] = IF Keyed(c) THEN {"key"} ELSE {}
  BY DEF IInv, CallDiscipline, Disciplined, InsertOrder, Write, InTransaction, Statements, WorkAt
<1>2. /\ pc' = [pc EXCEPT ![c] = IF Keyed(c) THEN "updateKey" ELSE "commit"]
      /\ work' = [work EXCEPT ![c] = IF Keyed(c) THEN {"key", "order"} ELSE {"order"}]
      /\ UNCHANGED <<req, answer, pool, txn, keys, orders>>
  BY <1>1 DEF IInv, TypeOK, InsertOrder, Write
<1>3. TypeOK'
  BY <1>2 DEF IInv, TypeOK, Steps, Statements, Writes
<1>4. ConnectionsReturned'
  BY <1>1, <1>2 DEF IInv, TypeOK, ConnectionsReturned, InTransaction, Statements
<1>5. CallDiscipline'
  <2>1. \A d \in Calls \ {c} : pc'[d] = pc[d] /\ work'[d] = work[d]
    BY <1>2 DEF IInv, TypeOK
  <2>2. /\ pc'[c] = IF Keyed(c) THEN "updateKey" ELSE "commit"
        /\ work'[c] = IF Keyed(c) THEN {"key", "order"} ELSE {"order"}
    BY <1>2 DEF IInv, TypeOK
  <2> QED  BY <1>1, <1>2, <2>1, <2>2 DEF IInv, CallDiscipline, Disciplined, InTransaction, Statements,
             TxnAt, WorkAt, FullWork, Keyed, Ended, Live
<1>6. OneWriterPerKey' /\ KeyBoundToItsOrder'
  BY <1>1, <1>2, NoNewWriter DEF IInv, TypeOK, Holds, Live, Keyed, Slot
<1>7. AcknowledgedIsCommitted' /\ ConflictIsTruthful'
  BY <1>2, NoNewAnswer DEF Live
<1> QED  BY <1>3, <1>4, <1>5, <1>6, <1>7 DEF IInv

LEMMA UpdateKeyStep ==
  ASSUME IInv, NEW c \in Calls, UpdateKey(c) PROVE IInv'
<1>1. pc[c] = "updateKey" /\ txn[c] = "open" /\ work[c] = {"key", "order"} /\ Keyed(c)
  BY DEF IInv, CallDiscipline, Disciplined, UpdateKey, Write, InTransaction, Statements, WorkAt
<1>2. /\ pc' = [pc EXCEPT ![c] = "commit"]
      /\ work' = [work EXCEPT ![c] = Writes]
      /\ UNCHANGED <<req, answer, pool, txn, keys, orders>>
  BY <1>1 DEF IInv, TypeOK, UpdateKey, Write, Writes
<1>3. TypeOK'
  BY <1>2 DEF IInv, TypeOK, Steps, Statements, Writes
<1>4. ConnectionsReturned'
  BY <1>1, <1>2 DEF IInv, TypeOK, ConnectionsReturned, InTransaction, Statements
<1>5. CallDiscipline'
  <2>1. \A d \in Calls \ {c} : Disciplined(d)'
    BY <1>1, <1>2, OthersDisciplined DEF IInv, TypeOK
  <2>2. Disciplined(c)'
    BY <1>1, <1>2 DEF IInv, TypeOK, CallDiscipline, Disciplined, InTransaction, Statements, TxnAt,
       WorkAt, FullWork, Keyed, Ended, Live
  <2> QED  BY <2>1, <2>2 DEF CallDiscipline
<1>6. OneWriterPerKey' /\ KeyBoundToItsOrder'
  BY <1>1, <1>2, NoNewWriter DEF IInv, TypeOK, Holds, Live, Keyed, Slot
<1>7. AcknowledgedIsCommitted' /\ ConflictIsTruthful'
  BY <1>2, NoNewAnswer DEF Live
<1> QED  BY <1>3, <1>4, <1>5, <1>6, <1>7 DEF IInv

LEMMA SendCommitStep ==
  ASSUME IInv, NEW c \in Calls, SendCommit(c) PROVE IInv'
<1>1. TypeOK'
  BY DEF IInv, TypeOK, SendCommit, Steps, Statements, TxnStates
<1>2. ConnectionsReturned'
  BY DEF IInv, TypeOK, ConnectionsReturned, SendCommit, InTransaction, Statements
<1>3. CallDiscipline'
  <2>1. \A d \in Calls \ {c} : Disciplined(d)'
    BY OthersDisciplined DEF IInv, TypeOK, SendCommit
  <2>2. Disciplined(c)'
    BY DEF IInv, TypeOK, CallDiscipline, Disciplined, SendCommit, InTransaction, Statements,
       TxnAt, WorkAt, FullWork, Keyed, Ended, Live
  <2> QED  BY <2>1, <2>2 DEF CallDiscipline
<1>4. OneWriterPerKey' /\ KeyBoundToItsOrder'
  BY NoNewWriter DEF IInv, TypeOK, SendCommit, Holds, Live, Keyed, Slot
<1>5. AcknowledgedIsCommitted' /\ ConflictIsTruthful'
  BY NoNewAnswer DEF IInv, TypeOK, SendCommit, Live
<1> QED  BY <1>1, <1>2, <1>3, <1>4, <1>5 DEF IInv

(* The one step that changes the committed data.  That the slot is still     *)
(* free when the row becomes visible is OneWriterPerKey.                     *)
LEMMA ServerCommitStep ==
  ASSUME IInv, NEW c \in Calls, ServerCommit(c) PROVE IInv'
<1>1. /\ txn[c] = "sent" /\ work[c] = FullWork(c)
      /\ c \notin orders
      /\ req[c] \in Requests
  BY DEF IInv, TypeOK, CallDiscipline, Disciplined, ServerCommit, TxnAt, Ended
<1>2. orders' = orders \cup {c}
  BY <1>1 DEF ServerCommit, FullWork, Writes
<1>3. /\ Keyed(c) => keys' = [keys EXCEPT ![Slot(c)] =
                                [hash |-> RequestHash(req[c].body), response |-> c]]
      /\ ~Keyed(c) => keys' = keys
  BY <1>1 DEF ServerCommit, RowWritten, FullWork, Writes
<1>4. Keyed(c) => /\ Slot(c) \in Slots
                  /\ Holds(c, Slot(c))
                  /\ keys[Slot(c)] = NoRow
  BY <1>1, SlotInSlots DEF IInv, OneWriterPerKey, Holds, Live, FullWork, Writes
<1>5. /\ txn' = [txn EXCEPT ![c] = "committed"]
      /\ UNCHANGED <<pc, req, answer, pool, work>>
  BY DEF ServerCommit, app
<1>6. TypeOK'
  <2>1. RequestHash(req[c].body) \in Hashes
    BY <1>1 DEF RequestHash, Hashes, Requests
  <2>2. keys' \in [Slots -> Rows \cup {NoRow}]
    BY <1>3, <1>4, <2>1 DEF IInv, TypeOK, Rows
  <2> QED  BY <1>2, <1>5, <2>2 DEF IInv, TypeOK, TxnStates
<1>7. ConnectionsReturned'
  BY <1>5 DEF IInv, ConnectionsReturned, InTransaction
<1>8. CallDiscipline'
  <2>1. \A d \in Calls \ {c} : Disciplined(d)'
    BY <1>1, <1>2, <1>5, OthersDisciplined DEF IInv, TypeOK
  <2>2. Disciplined(c)'
    BY <1>1, <1>2, <1>5 DEF IInv, TypeOK, CallDiscipline, Disciplined, InTransaction, Statements, TxnAt,
       TxnStates, WorkAt, FullWork, Keyed, Ended, Live
  <2> QED  BY <2>1, <2>2 DEF CallDiscipline
<1>9. OneWriterPerKey'
  <2>1. \A d \in Calls : \A s \in Slots : Holds(d, s)' => d # c /\ Holds(d, s)
    BY <1>5 DEF IInv, TypeOK, Holds, Live, Keyed, Slot
  <2>2. \A s \in Slots : keys'[s] # keys[s] => Keyed(c) /\ s = Slot(c)
    BY <1>3, <1>4 DEF IInv, TypeOK
  <2> QED  BY <1>4, <2>1, <2>2 DEF IInv, OneWriterPerKey
<1>10. KeyBoundToItsOrder'
  <2>1. \A s \in Slots : keys[s] # NoRow => keys'[s] = keys[s]
    BY <1>3, <1>4 DEF IInv, TypeOK
  <2>2. \A d \in orders : Keyed(d) => Slot(d) \in Slots
    BY SlotInSlots DEF IInv, TypeOK
  <2>3. Keyed(c) => keys'[Slot(c)] = [hash |-> RequestHash(req[c].body), response |-> c]
    BY <1>3, <1>4 DEF IInv, TypeOK
  <2>4. ASSUME NEW s \in Slots, keys'[s] # NoRow
        PROVE  \E d \in orders' : /\ Keyed(d) /\ Slot(d) = s
                                  /\ keys'[s] = [hash |-> RequestHash(req[d].body), response |-> d]
    <3>1. CASE keys[s] # NoRow
      BY <1>2, <2>1, <3>1 DEF IInv, KeyBoundToItsOrder
    <3>2. CASE keys[s] = NoRow
      <4>1. Keyed(c) /\ s = Slot(c)
        BY <1>3, <1>4, <2>4, <3>2 DEF IInv, TypeOK
      <4> QED  BY <1>2, <2>3, <4>1
    <3> QED  BY <3>1, <3>2
  <2>5. ASSUME NEW d \in orders', Keyed(d)
        PROVE  keys'[Slot(d)] # NoRow /\ keys'[Slot(d)].response = d
    <3>1. CASE d = c
      BY <1>4, <1>6, <2>3, <2>5, <3>1, NoRowAssumption, <1>1
      DEF TypeOK, Rows, Hashes, Requests, RequestHash
    <3>2. CASE d # c
      BY <1>2, <2>1, <2>2, <2>5, <3>2 DEF IInv, KeyBoundToItsOrder
    <3> QED  BY <3>1, <3>2
  <2> QED  BY <1>5, <2>4, <2>5 DEF KeyBoundToItsOrder, Keyed, Slot
<1>11. AcknowledgedIsCommitted'
  BY <1>2, <1>5 DEF IInv, AcknowledgedIsCommitted
<1>12. ConflictIsTruthful'
  <2>1. \A s \in Slots : keys[s] # NoRow => keys'[s] = keys[s]
    BY <1>3, <1>4 DEF IInv, TypeOK
  <2>2. ASSUME NEW d \in Calls, answer[d] = Conflict
        PROVE  /\ d \notin orders' /\ ~Live(d)' /\ Keyed(d)
               /\ keys'[Slot(d)] # NoRow
               /\ keys'[Slot(d)].hash # RequestHash(req[d].body)
    <3>1. /\ d \notin orders /\ ~Live(d) /\ Keyed(d)
          /\ keys[Slot(d)] # NoRow
          /\ keys[Slot(d)].hash # RequestHash(req[d].body)
      BY <2>2 DEF IInv, ConflictIsTruthful
    <3>2. d # c
      BY <1>1, <3>1 DEF Live
    <3>3. Slot(d) \in Slots
      BY <3>1, SlotInSlots DEF IInv
    <3> QED  BY <1>2, <1>5, <2>1, <3>1, <3>2, <3>3 DEF IInv, TypeOK, Live
  <2> QED  BY <1>5, <2>2 DEF ConflictIsTruthful, Keyed, Slot
<1> QED  BY <1>6, <1>7, <1>8, <1>9, <1>10, <1>11, <1>12 DEF IInv

LEMMA AcknowledgeStep ==
  ASSUME IInv, NEW c \in Calls, Acknowledge(c) PROVE IInv'
<1>1. InTransaction(c) /\ txn[c] = "committed" /\ c \in orders
  BY DEF IInv, CallDiscipline, Disciplined, Acknowledge, InTransaction, Statements
<1>2. Created(c) \in Answers
  BY DEF Created, Answers
<1> QED  BY <1>1, <1>2, FinishStep DEF Acknowledge

LEMMA SessionLostStep ==
  ASSUME IInv, NEW c \in Calls, SessionLost(c) PROVE IInv'
<1>1. ServerError \in Answers
  BY DEF ServerError, Answers
<1> QED  BY <1>1, FinishStep DEF SessionLost

LEMMA FaultStep ==
  ASSUME IInv, NEW c \in Calls, Fault(c) PROVE IInv'
<1>1. TypeOK'
  BY PoolCardinality DEF IInv, TypeOK, Fault, db, Steps, ServerError, Answers
<1>2. ConnectionsReturned'
  BY DEF IInv, TypeOK, ConnectionsReturned, Fault, db, InFlight, InTransaction, Statements
<1>3. CallDiscipline'
  <2>1. \A d \in Calls \ {c} : Disciplined(d)'
    BY OthersDisciplined DEF IInv, TypeOK, Fault, db
  <2>2. Disciplined(c)'
    BY NoneAssumption DEF IInv, TypeOK, CallDiscipline, Disciplined, Fault, db, InFlight,
       InTransaction, Statements, Steps, TxnAt, TxnStates, WorkAt, FullWork, Keyed, Ended, Live, ServerError, Answers
  <2> QED  BY <2>1, <2>2 DEF CallDiscipline
<1>4. OneWriterPerKey' /\ KeyBoundToItsOrder'
  BY NoNewWriter DEF Fault, db, Holds, Live, Keyed, Slot
<1>5. AcknowledgedIsCommitted'
  BY DEF IInv, TypeOK, AcknowledgedIsCommitted, Fault, db, ServerError
<1>6. ConflictIsTruthful'
  BY DEF IInv, TypeOK, ConflictIsTruthful, Fault, db, ServerError, Conflict, Live, Keyed, Slot
<1> QED  BY <1>1, <1>2, <1>3, <1>4, <1>5, <1>6 DEF IInv

(* Kill and Reap: the server ends a live transaction. *)
LEMMA TxnEndStep ==
  ASSUME IInv, NEW c \in Calls, Kill(c) \/ Reap(c) PROVE IInv'
<1>1. /\ Live(c)
      /\ txn' = [txn EXCEPT ![c] = "ended"]
      /\ UNCHANGED <<pc, req, answer, pool, work, keys, orders>>
  BY DEF Kill, Reap, app
<1>2. TypeOK'
  BY <1>1 DEF IInv, TypeOK, TxnStates
<1>3. ConnectionsReturned'
  BY <1>1 DEF IInv, ConnectionsReturned, InTransaction
<1>4. CallDiscipline'
  <2>1. \A d \in Calls \ {c} : Disciplined(d)'
    BY <1>1, OthersDisciplined DEF IInv, TypeOK
  <2>2. Disciplined(c)'
    BY <1>1 DEF IInv, TypeOK, CallDiscipline, Disciplined, Live, InTransaction, Statements,
       TxnAt, TxnStates, WorkAt, FullWork, Keyed, Ended, Live
  <2> QED  BY <2>1, <2>2 DEF CallDiscipline
<1>5. OneWriterPerKey' /\ KeyBoundToItsOrder'
  BY <1>1, NoNewWriter DEF IInv, TypeOK, Holds, Live, Keyed, Slot
<1>6. AcknowledgedIsCommitted' /\ ConflictIsTruthful'
  BY <1>1, NoNewAnswer DEF IInv, TypeOK, Live
<1> QED  BY <1>2, <1>3, <1>4, <1>5, <1>6 DEF IInv

LEMMA CrashStep == ASSUME IInv, Crash PROVE IInv'
<1>1. TypeOK'
  BY PoolCardinality DEF IInv, TypeOK, Crash, db, Steps
<1>2. ConnectionsReturned'
  BY DEF IInv, TypeOK, ConnectionsReturned, Crash, db, InFlight, InTransaction, Statements
<1>3. CallDiscipline'
  BY DEF IInv, TypeOK, CallDiscipline, Disciplined, Crash, db, InFlight, InTransaction, Statements,
     Steps, TxnAt, TxnStates, WorkAt, FullWork, Keyed, Ended, Live
<1>4. OneWriterPerKey' /\ KeyBoundToItsOrder'
  BY NoNewWriter DEF Crash, db, Holds, Live, Keyed, Slot
<1>5. AcknowledgedIsCommitted' /\ ConflictIsTruthful'
  BY NoNewAnswer DEF Crash, db, Live
<1> QED  BY <1>1, <1>2, <1>3, <1>4, <1>5 DEF IInv

LEMMA StutterStep == ASSUME IInv, UNCHANGED vars PROVE IInv'
BY DEF IInv, vars, TypeOK, ConnectionsReturned, CallDiscipline, Disciplined, OneWriterPerKey,
   KeyBoundToItsOrder, AcknowledgedIsCommitted, ConflictIsTruthful,
   InTransaction, TxnAt, WorkAt, FullWork, Holds, Live, Keyed, Slot, Ended

(* Every step keeps the invariant. *)
LEMMA NextIInv == IInv /\ [Next]_vars => IInv'
<1> SUFFICES ASSUME IInv, [Next]_vars PROVE IInv'
  OBVIOUS
<1>1. ASSUME NEW c \in Calls, CallStep(c) PROVE IInv'
  BY <1>1, BeginStep, SelectContinuesStep, SelectAnswersStep, InsertKeyStep,
     InsertKeyViolatesStep, ReselectStep, InsertOrderStep, UpdateKeyStep,
     SendCommitStep, AcknowledgeStep, SessionLostStep DEF CallStep
<1>2. ASSUME NEW c \in Calls, Arrive(c) \/ ServerStep(c) \/ Fault(c) \/ Kill(c) PROVE IInv'
  BY <1>2, ArriveStep, ServerCommitStep, TxnEndStep, FaultStep DEF ServerStep
<1>3. CASE Crash
  BY <1>3, CrashStep
<1>4. CASE Quiescent \/ UNCHANGED vars
  BY <1>4, StutterStep DEF Quiescent
<1> QED  BY <1>1, <1>2, <1>3, <1>4 DEF Next

(* The inductive invariant holds in every reachable state. *)
THEOREM Invariance == Spec => []IInv
BY InitIInv, NextIInv, PTL DEF Spec

(* Types, and a pool within its size. *)
THEOREM TypeCorrect == Spec => []TypeOK
<1>1. IInv => TypeOK
  BY DEF IInv
<1> QED  BY <1>1, Invariance, PTL

(* Two committed orders under one key would both own its row. *)
LEMMA OneOwner == IInv => OneOrderPerKey
BY DEF IInv, KeyBoundToItsOrder, OneOrderPerKey

(* However calls interleave, fail, are retried or crash, the calls that      *)
(* share a principal and an Idempotency-Key create at most one order.        *)
THEOREM RetriesAreSafe == Spec => []OneOrderPerKey
BY OneOwner, Invariance, PTL

(* The key row, its stored response and its order are one. *)
THEOREM KeysAndOrdersAgree == Spec => []KeyBoundToItsOrder
<1>1. IInv => KeyBoundToItsOrder
  BY DEF IInv
<1> QED  BY <1>1, Invariance, PTL

(* A 200 tells the truth: it names an order of the body that was sent, and   *)
(* that order is committed.                                                  *)
THEOREM AnswersAreTrue == Spec => []AcknowledgedIsCommitted
<1>1. IInv => AcknowledgedIsCommitted
  BY DEF IInv
<1> QED  BY <1>1, Invariance, PTL

(* So does a 409: the key is committed, for another body.                    *)
THEOREM RefusalsAreTrue == Spec => []ConflictIsTruthful
<1>1. IInv => ConflictIsTruthful
  BY DEF IInv
<1> QED  BY <1>1, Invariance, PTL

(* The primary key and its lock admit one writer of a key row at a time, and *)
(* none once a row is committed.                                             *)
THEOREM WritersExcludeEachOther == Spec => []OneWriterPerKey
<1>1. IInv => OneWriterPerKey
  BY DEF IInv
<1> QED  BY <1>1, Invariance, PTL

(* The statement a call is at determines its transaction and its writes.     *)
THEOREM CallsAreDisciplined == Spec => []CallDiscipline
<1>1. IInv => CallDiscipline
  BY DEF IInv
<1> QED  BY <1>1, Invariance, PTL

(* The connections out of the pool are those of the calls in a transaction.  *)
THEOREM NoConnectionLeaks == Spec => []ConnectionsReturned
<1>1. IInv => ConnectionsReturned
  BY DEF IInv
<1> QED  BY <1>1, Invariance, PTL

(* Only a commit touches the rows, and it finds its own row still absent.    *)
LEMMA RowsOnlyAppear ==
  ASSUME IInv, [Next]_vars, NEW s \in Slots, keys[s] # NoRow
  PROVE  keys'[s] = keys[s]
<1>1. CASE keys' = keys
  BY <1>1
<1>2. ASSUME NEW c \in Calls, ServerCommit(c) PROVE keys'[s] = keys[s]
  <2>1. CASE Keyed(c)
    <3>1. work[c] = Writes /\ Live(c)
      BY <1>2, <2>1 DEF IInv, CallDiscipline, Disciplined, ServerCommit, FullWork, Live
    <3>2. Slot(c) \in Slots
      BY <2>1, SlotInSlots DEF IInv
    <3>3. keys[Slot(c)] = NoRow
      BY <2>1, <3>1, <3>2 DEF IInv, OneWriterPerKey, Holds, Writes
    <3>4. keys' = [keys EXCEPT ![Slot(c)] = RowWritten(c)]
      BY <1>2, <2>1 DEF ServerCommit
    <3> QED  BY <3>3, <3>4 DEF IInv, TypeOK
  <2>2. CASE ~Keyed(c)
    BY <1>2, <2>2 DEF ServerCommit
  <2> QED  BY <2>1, <2>2
<1>3. ASSUME NEW c \in Calls, CallStep(c) PROVE keys' = keys
  BY <1>3 DEF CallStep, Begin, SelectContinues, SelectAnswers, InsertKey, InsertKeyViolates,
     Reselect, InsertOrder, UpdateKey, SendCommit, Acknowledge, SessionLost, Write
<1>4. ASSUME NEW c \in Calls, Arrive(c) \/ Reap(c) \/ Fault(c) \/ Kill(c) PROVE keys' = keys
  BY <1>4 DEF Arrive, Reap, Fault, Kill, db
<1>5. CASE Crash \/ Quiescent \/ UNCHANGED vars
  BY <1>5 DEF Crash, Quiescent, vars, db
<1> QED  BY <1>1, <1>2, <1>3, <1>4, <1>5 DEF Next, ServerStep

(* A visible key row, and the response stored in it, never change. *)
THEOREM KeyRowsNeverChange == Spec => KeyRowsImmutable
<1>1. IInv /\ [Next]_vars => [\A s \in Slots : keys[s] # NoRow => keys'[s] = keys[s]]_vars
  BY RowsOnlyAppear
<1> QED  BY <1>1, Invariance, PTL DEF Spec, KeyRowsImmutable

-----------------------------------------------------------------------------
(* Every step of the code is a step of IdempotentOrders, or none. *)

LEMMA PromiseInit == Init => Promise!Init
BY DEF Init, Promise!Init, Promise!Slots, Slots, Phase, Bound, Ended

(* The state the promise sees. *)
Seen == <<[c \in Calls |-> Phase(c)], req, answer, orders, [s \in Slots |-> Bound(s)]>>

(* An answer is seen as Answer(c). *)
LEMMA AnswerIsPromised ==
  ASSUME IInv, NEW c \in Calls, NEW a \in Answers, InFlight(c),
         pc' = [pc EXCEPT ![c] = "done"],
         answer' = [answer EXCEPT ![c] = a],
         UNCHANGED <<req, keys, orders>>,
         Promise!Truthful(c, a)
  PROVE  Promise!Answer(c)
<1>1. Phase(c) = "running"
  BY DEF Phase, InFlight, InTransaction, Ended, Statements
<1>2. [d \in Calls |-> Phase(d)]' = [[d \in Calls |-> Phase(d)] EXCEPT ![c] = "over"]
  BY DEF IInv, TypeOK, Phase, Ended
<1>3. [s \in Slots |-> Bound(s)]' = [s \in Slots |-> Bound(s)]
  BY DEF Bound
<1> QED  BY <1>1, <1>2, <1>3 DEF Promise!Answer, Promise!Answers, Answers

(* An error is always a true answer, a 409 when the row read has another     *)
(* hash, and a 200 when the call's own order is committed.                   *)
LEMMA ErrorIsTrue == ASSUME NEW c \in Calls PROVE Promise!Truthful(c, ServerError)
BY DEF Promise!Truthful, ServerError

LEMMA ConflictIsTrue ==
  ASSUME IInv, NEW c \in Calls, Keyed(c), c \notin orders, keys[Slot(c)] # NoRow,
         keys[Slot(c)].hash # RequestHash(req[c].body)
  PROVE  Promise!Truthful(c, Conflict)
<1>1. Slot(c) \in Slots /\ Promise!Slot(req[c]) = Slot(c)
  BY SlotInSlots DEF IInv, Promise!Slot, Slot
<1>2. PICK d \in orders : keys[Slot(c)] = [hash |-> RequestHash(req[d].body), response |-> d]
  BY <1>1 DEF IInv, KeyBoundToItsOrder
<1>3. Bound(Slot(c)) = d /\ d # None
  BY <1>2, NoneAssumption DEF IInv, TypeOK, Bound
<1>4. req[d].body # req[c].body
  BY <1>2 DEF RequestHash
<1>5. req[c].key # NoKey
  BY DEF Keyed
<1> QED  BY <1>1, <1>3, <1>4, <1>5 DEF Promise!Truthful, Conflict

LEMMA CreatedIsTrue ==
  ASSUME NEW c \in Calls, c \in orders PROVE Promise!Truthful(c, Created(c))
BY DEF Promise!Truthful, Created

LEMMA ArriveIsSubmit == ASSUME IInv, NEW c \in Calls, Arrive(c) PROVE Promise!Submit(c)
<1>1. Phase(c) = "idle"
  BY DEF Arrive, Phase, Ended
<1>2. [d \in Calls |-> Phase(d)]' = [[d \in Calls |-> Phase(d)] EXCEPT ![c] = "running"]
  BY DEF IInv, TypeOK, Arrive, Phase, Ended
<1>3. [s \in Slots |-> Bound(s)]' = [s \in Slots |-> Bound(s)]
  BY DEF Arrive, Bound
<1> QED  BY <1>1, <1>2, <1>3 DEF Arrive, Promise!Submit, Promise!Requests, Requests

LEMMA ServerCommitIsCommit ==
  ASSUME IInv, NEW c \in Calls, ServerCommit(c) PROVE Promise!Commit(c)
<1>1. /\ c \notin orders /\ pc[c] # "idle" /\ work[c] = FullWork(c) /\ Live(c)
      /\ answer[c] = None \/ answer[c].status = 500
      /\ req[c] # None
  BY DEF IInv, CallDiscipline, Disciplined, ServerCommit, Live, TxnAt, Ended
<1>2. UNCHANGED <<pc, req, answer>> /\ orders' = orders \cup {c}
  BY <1>1 DEF ServerCommit, app, FullWork, Writes
<1>3. [d \in Calls |-> Phase(d)]' = [d \in Calls |-> Phase(d)]
  BY <1>2 DEF Phase, Ended
<1>4. Phase(c) # "idle"
  BY <1>1 DEF Phase, Ended
<1>5. CASE ~Keyed(c)
  <2>1. req[c].key = NoKey
    BY <1>1, <1>5 DEF Keyed
  <2>2. [s \in Slots |-> Bound(s)]' = [s \in Slots |-> Bound(s)]
    BY <1>5 DEF ServerCommit, Bound
  <2> QED  BY <1>1, <1>2, <1>3, <1>4, <2>1, <2>2 DEF Promise!Commit
<1>6. CASE Keyed(c)
  <2>1. req[c].key # NoKey /\ Slot(c) \in Slots /\ Promise!Slot(req[c]) = Slot(c)
    BY <1>6, SlotInSlots DEF IInv, Keyed, Slot, Promise!Slot
  <2>2. keys[Slot(c)] = NoRow
    BY <1>1, <1>6, <2>1 DEF IInv, OneWriterPerKey, Holds, FullWork, Writes
  <2>3. keys' = [keys EXCEPT ![Slot(c)] = [hash |-> RequestHash(req[c].body), response |-> c]]
    BY <1>1, <1>6 DEF ServerCommit, RowWritten, FullWork, Writes
  <2>4. NoRow # [hash |-> RequestHash(req[c].body), response |-> c]
    BY <1>1, NoRowAssumption DEF IInv, TypeOK, Rows, Hashes, Requests, RequestHash
  <2>5. [s \in Slots |-> Bound(s)]' = [[s \in Slots |-> Bound(s)] EXCEPT ![Slot(c)] = c]
    BY <2>1, <2>3, <2>4 DEF IInv, TypeOK, Bound
  <2>6. Bound(Slot(c)) = None
    BY <2>2 DEF Bound
  <2> QED  BY <1>1, <1>2, <1>3, <1>4, <2>1, <2>5, <2>6 DEF Promise!Commit
<1> QED  BY <1>5, <1>6

LEMMA CrashIsDrop == ASSUME IInv, Crash PROVE Promise!Drop
<1>1. [c \in Calls |-> Phase(c)]' =
        [c \in Calls |-> IF [d \in Calls |-> Phase(d)][c] = "running" THEN "over"
                         ELSE [d \in Calls |-> Phase(d)][c]]
  BY DEF IInv, TypeOK, Crash, Phase, Ended, InFlight, InTransaction, Steps, Statements
<1>2. [s \in Slots |-> Bound(s)]' = [s \in Slots |-> Bound(s)]
  BY DEF Crash, db, Bound
<1> QED  BY <1>1, <1>2 DEF Promise!Drop, Crash, db

(* A call that moves on without an answer shows nothing. *)
LEMMA UnseenStep ==
  ASSUME IInv, NEW c \in Calls, UNCHANGED <<req, answer, keys, orders>>,
         pc' = pc \/ \E s \in Statements : InFlight(c) /\ pc' = [pc EXCEPT ![c] = s]
  PROVE  Seen' = Seen
<1>1. [d \in Calls |-> Phase(d)]' = [d \in Calls |-> Phase(d)]
  BY DEF IInv, TypeOK, Phase, Ended, InFlight, InTransaction, Statements
<1>2. [s \in Slots |-> Bound(s)]' = [s \in Slots |-> Bound(s)]
  BY DEF Bound
<1> QED  BY <1>1, <1>2 DEF Seen

LEMMA CallStepIsPromised ==
  ASSUME IInv, NEW c \in Calls, CallStep(c)
  PROVE  Promise!Answer(c) \/ Seen' = Seen
<1> USE DEF InFlight, InTransaction, Statements
<1>1. CASE Begin(c) \/ SelectContinues(c) \/ InsertKeyViolates(c) \/ SendCommit(c)
  BY <1>1, UnseenStep DEF Begin, SelectContinues, InsertKeyViolates, SendCommit
<1>2. CASE InsertKey(c) \/ InsertOrder(c) \/ UpdateKey(c)
  BY <1>2, UnseenStep DEF InsertKey, InsertOrder, UpdateKey, Write
<1>3. CASE SelectAnswers(c)
  <2>1. /\ Keyed(c) /\ c \notin orders /\ keys[Slot(c)] # NoRow /\ InFlight(c)
        /\ Finish(c, Verdict(c, keys[Slot(c)]))
        /\ UNCHANGED <<req, keys, orders>>
    BY <1>3 DEF IInv, CallDiscipline, Disciplined, SelectAnswers
  <2>2. CASE Verdict(c, keys[Slot(c)]) = Conflict
    BY <2>1, <2>2, VerdictCases, ConflictIsTrue, AnswerIsPromised DEF Finish, Answers, Conflict
  <2>3. CASE Verdict(c, keys[Slot(c)]) = ServerError
    BY <2>1, <2>3, ErrorIsTrue, AnswerIsPromised DEF Finish, Answers, ServerError
  <2> QED  BY <2>2, <2>3, VerdictCases
<1>4. CASE Reselect(c) \/ SessionLost(c)
  <2>1. InFlight(c) /\ Finish(c, ServerError) /\ UNCHANGED <<req, keys, orders>>
    BY <1>4 DEF IInv, CallDiscipline, Disciplined, TxnAt, Ended, Live, Reselect, SessionLost
  <2> QED  BY <2>1, ErrorIsTrue, AnswerIsPromised DEF Finish, Answers, ServerError
<1>5. CASE Acknowledge(c)
  <2>1. InFlight(c) /\ c \in orders /\ Finish(c, Created(c)) /\ UNCHANGED <<req, keys, orders>>
    BY <1>5 DEF IInv, CallDiscipline, Disciplined, Acknowledge
  <2> QED  BY <2>1, CreatedIsTrue, AnswerIsPromised DEF Finish, Answers, Created
<1> QED  BY <1>1, <1>2, <1>3, <1>4, <1>5 DEF CallStep

LEMMA PromiseStep == IInv /\ [Next]_vars => [Promise!Next]_(Promise!vars)
<1> SUFFICES ASSUME IInv, [Next]_vars PROVE Promise!Next \/ Seen' = Seen
  BY DEF Seen, Promise!vars
<1>1. ASSUME NEW c \in Calls, CallStep(c) PROVE Promise!Next \/ Seen' = Seen
  BY <1>1, CallStepIsPromised DEF Promise!Next
<1>2. ASSUME NEW c \in Calls, Arrive(c) PROVE Promise!Next
  BY <1>2, ArriveIsSubmit DEF Promise!Next
<1>3. ASSUME NEW c \in Calls, ServerCommit(c) PROVE Promise!Next
  BY <1>3, ServerCommitIsCommit DEF Promise!Next
<1>4. ASSUME NEW c \in Calls, Reap(c) \/ Kill(c) PROVE Seen' = Seen
  BY <1>4, UnseenStep DEF Reap, Kill, app
<1>5. ASSUME NEW c \in Calls, Fault(c) PROVE Promise!Next
  <2>1. Promise!Answer(c)
    BY <1>5, ErrorIsTrue, AnswerIsPromised DEF Fault, db, Answers, ServerError
  <2> QED  BY <2>1 DEF Promise!Next
<1>6. CASE Crash
  BY <1>6, CrashIsDrop DEF Promise!Next
<1>7. CASE Quiescent \/ UNCHANGED vars
  BY <1>7 DEF Quiescent, vars, Seen, Phase, Bound, Ended
<1> QED  BY <1>1, <1>2, <1>3, <1>4, <1>5, <1>6, <1>7 DEF Next, ServerStep

(* The code keeps the promise of IdempotentOrders. *)
THEOREM Refinement == Spec => KeepsPromise
BY PromiseInit, PromiseStep, Invariance, PTL DEF Spec, KeepsPromise, Promise!Spec
=============================================================================
