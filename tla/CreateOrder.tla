---------------------------- MODULE CreateOrder ----------------------------
(***************************************************************************)
(* The writer's create_order (src/app/common/repository.py), called by     *)
(* POST /api/v1/orders: one coroutine per HTTP call, each holding one      *)
(* connection of the asyncpg pool for one PostgreSQL transaction.  Every   *)
(* await is a step, so calls interleave between any two statements.        *)
(*                                                                         *)
(* The database is READ COMMITTED PostgreSQL as the code uses it: writes   *)
(* of an open transaction are private to it; an INSERT that meets another  *)
(* live transaction's uncommitted key row waits for that transaction; a    *)
(* statement that fails leaves the transaction failed until it is rolled   *)
(* back.  A commit takes effect at the server at some time between the     *)
(* COMMIT being sent and the answer being received, or after the           *)
(* connection is lost, or never.                                           *)
(***************************************************************************)
EXTENDS Integers, FiniteSets

CONSTANTS Calls,       \* HTTP calls; a call is also the id of the order it makes
          Principals,  \* subjects of API keys and tokens
          Keys,        \* values of the Idempotency-Key header
          Bodies,      \* request bodies
          NoKey,       \* no Idempotency-Key header
          NoRow,       \* no committed row in idempotency_keys
          None,        \* SQL NULL; also no request and no answer
          PoolSize,    \* settings.db_pool_max_size
          Failures     \* the failures the environment has, see FailureKinds

FailureKinds == {"fault", "kill", "crash"}

(* The requests, their hashes and the rows of idempotency_keys. *)
Requests == [principal : Principals, key : Keys \cup {NoKey}, body : Bodies]
Slots == Principals \X Keys
Hashes == [sha256 : Bodies]
Rows == [hash : Hashes, response : Calls \cup {None}]
Answers == [status : {200, 409, 500}, order : Calls \cup {None}]

ASSUME FiniteCalls == IsFiniteSet(Calls)
ASSUME PoolSizeAssumption == PoolSize \in Nat \ {0}
ASSUME FailuresAssumption == Failures \subseteq FailureKinds
ASSUME NoKeyAssumption == NoKey \notin Keys
ASSUME NoRowAssumption == NoRow \notin Rows
ASSUME NoneAssumption == None \notin Calls /\ None \notin Requests /\ None \notin Answers

VARIABLES
  pc,      \* where the coroutine of each call is
  req,     \* the request of each call
  answer,  \* the HTTP answer of each call
  pool,    \* the calls that hold a connection
  txn,     \* the server's state of each call's transaction
  work,    \* the uncommitted writes of each call's transaction
  keys,    \* committed idempotency_keys: (principal, key) -> row
  orders   \* committed orders, by the call that inserted them

app == <<pc, req, answer, pool>>
db == <<txn, work, keys, orders>>
vars == <<pc, req, answer, pool, txn, work, keys, orders>>

Statements == {"select", "insertKey", "reselect", "insertOrder", "updateKey",
               "commit", "committing"}
Steps == {"idle", "acquire", "done", "lost"} \cup Statements
TxnStates == {"none", "open", "failed", "sent", "committed", "ended"}
Writes == {"key", "order", "response"}

Init == /\ pc = [c \in Calls |-> "idle"]
        /\ req = [c \in Calls |-> None]
        /\ answer = [c \in Calls |-> None]
        /\ pool = {}
        /\ txn = [c \in Calls |-> "none"]
        /\ work = [c \in Calls |-> {}]
        /\ keys = [s \in Slots |-> NoRow]
        /\ orders = {}

InTransaction(c) == pc[c] \in Statements
InFlight(c) == pc[c] = "acquire" \/ InTransaction(c)
Ended(c) == pc[c] \in {"done", "lost"}
Keyed(c) == req[c] # None /\ req[c].key # NoKey
Slot(c) == <<req[c].principal, req[c].key>>

(* The server still has the transaction, whether or not a call waits for it. *)
Live(c) == txn[c] \in {"open", "failed", "sent"}

(* c's transaction has an uncommitted version of the key row s. *)
Holds(c, s) == /\ Live(c)
               /\ Keyed(c)
               /\ Slot(c) = s
               /\ work[c] \cap {"key", "response"} # {}
(* Mutant: an uncommitted key row is no obstacle. *)
BlockedNever(c) == FALSE

Blocked(c) == \E d \in Calls \ {c} : Holds(d, Slot(c))

Created(c) == [status |-> 200, order |-> c]
Conflict == [status |-> 409, order |-> None]
ServerError == [status |-> 500, order |-> None]

(* sha256 of the canonical JSON: equal for equal bodies only. *)
RequestHash(body) == [sha256 |-> body]

(* asyncpg hands a jsonb column over as text unless a codec is set, and no   *)
(* codec is set; dict(text) raises ValueError, which becomes a 500.          *)
Fetched(response) == [type |-> "str", order |-> response]
AsDict(value) == IF value.type = "dict"
                   THEN [status |-> 200, order |-> value.order]
                   ELSE ServerError

(* Mutant: the comparison of the hashes is inverted. *)
VerdictInverted(c, row) == IF row.hash = RequestHash(req[c].body)
                             THEN Conflict ELSE AsDict(Fetched(row.response))

(* The answer to a call that meets a committed row of its key. *)
Verdict(c, row) == IF row.hash # RequestHash(req[c].body)
                     THEN Conflict
                     ELSE IF row.response # None THEN AsDict(Fetched(row.response))
                                                 ELSE ServerError

(* Mutant: the connection is not given back. *)
FinishLeaking(c, a) ==
  /\ pc' = [pc EXCEPT ![c] = "done"]
  /\ answer' = [answer EXCEPT ![c] = a]
  /\ pool' = pool
  /\ txn' = [txn EXCEPT ![c] = IF @ \in {"open", "failed"} THEN "ended" ELSE @]

(* The coroutine ends: the transaction block rolls back whatever is neither  *)
(* sent nor ended, the connection goes back to the pool, the call answers.   *)
Finish(c, a) ==
  /\ pc' = [pc EXCEPT ![c] = "done"]
  /\ answer' = [answer EXCEPT ![c] = a]
  /\ pool' = pool \ {c}
  /\ txn' = [txn EXCEPT ![c] = IF @ \in {"open", "failed"} THEN "ended" ELSE @]

(* A statement of c's transaction succeeds and leaves the writes w. *)
Write(c, from, to, w) ==
  /\ pc[c] = from
  /\ txn[c] = "open"
  /\ pc' = [pc EXCEPT ![c] = to]
  /\ work' = [work EXCEPT ![c] = @ \cup w]
  /\ UNCHANGED <<req, answer, pool, txn, keys, orders>>

Arrive(c) ==
  /\ pc[c] = "idle"
  /\ \E r \in Requests : req' = [req EXCEPT ![c] = r]
  /\ pc' = [pc EXCEPT ![c] = "acquire"]
  /\ UNCHANGED <<answer, pool, txn, work, keys, orders>>

Begin(c) ==
  /\ pc[c] = "acquire"
  /\ Cardinality(pool) < PoolSize
  /\ pool' = pool \cup {c}
  /\ txn' = [txn EXCEPT ![c] = "open"]
  /\ pc' = [pc EXCEPT ![c] = IF Keyed(c) THEN "select" ELSE "insertOrder"]
  /\ UNCHANGED <<req, answer, work, keys, orders>>

(* The row read is the committed one: an uncommitted row is invisible. *)
SelectContinues(c) ==
  /\ pc[c] = "select"
  /\ txn[c] = "open"
  /\ LET row == keys[Slot(c)]
     IN  pc' = [pc EXCEPT ![c] = IF row = NoRow THEN "insertKey" ELSE "insertOrder"]
  /\ keys[Slot(c)] # NoRow => /\ keys[Slot(c)].hash = RequestHash(req[c].body)
                              /\ keys[Slot(c)].response = None
  /\ UNCHANGED <<req, answer, pool, txn, work, keys, orders>>

SelectAnswers(c) ==
  /\ pc[c] = "select"
  /\ txn[c] = "open"
  /\ keys[Slot(c)] # NoRow
  /\ \/ keys[Slot(c)].hash # RequestHash(req[c].body)
     \/ keys[Slot(c)].response # None
  /\ Finish(c, Verdict(c, keys[Slot(c)]))
  /\ UNCHANGED <<req, work, keys, orders>>

(* Mutant: INSERT ... ON CONFLICT DO UPDATE. *)
InsertKeyUpsert(c) ==
  /\ Write(c, "insertKey", "insertOrder", {"key"})
  /\ ~Blocked(c)

(* Mutant: the key row is committed by itself, ahead of the order. *)
InsertKeyAutocommit(c) ==
  /\ pc[c] = "insertKey"
  /\ txn[c] = "open"
  /\ keys[Slot(c)] = NoRow
  /\ keys' = [keys EXCEPT ![Slot(c)] = [hash |-> RequestHash(req[c].body), response |-> None]]
  /\ pc' = [pc EXCEPT ![c] = "insertOrder"]
  /\ UNCHANGED <<req, answer, pool, txn, work, orders>>

InsertKey(c) ==
  /\ Write(c, "insertKey", "insertOrder", {"key"})
  /\ ~Blocked(c)
  /\ keys[Slot(c)] = NoRow

(* UniqueViolationError: the transaction is failed until it is rolled back. *)
InsertKeyViolates(c) ==
  /\ pc[c] = "insertKey"
  /\ txn[c] = "open"
  /\ ~Blocked(c)
  /\ keys[Slot(c)] # NoRow
  /\ pc' = [pc EXCEPT ![c] = "reselect"]
  /\ txn' = [txn EXCEPT ![c] = "failed"]
  /\ UNCHANGED <<req, answer, pool, work, keys, orders>>

(* The SELECT of the except block.  In a failed transaction the server       *)
(* refuses it, and InFailedSQLTransactionError is nobody's to catch.         *)
Reselect(c) ==
  /\ pc[c] = "reselect"
  /\ Live(c)
  /\ Finish(c, IF txn[c] = "failed" \/ keys[Slot(c)] = NoRow
                 THEN ServerError
                 ELSE Verdict(c, keys[Slot(c)]))
  /\ UNCHANGED <<req, work, keys, orders>>

InsertOrder(c) ==
  Write(c, "insertOrder", IF Keyed(c) THEN "updateKey" ELSE "commit", {"order"})

UpdateKey(c) ==
  /\ Write(c, "updateKey", "commit", {"response"})
  /\ ~Blocked(c)

SendCommit(c) ==
  /\ pc[c] = "commit"
  /\ txn[c] = "open"
  /\ pc' = [pc EXCEPT ![c] = "committing"]
  /\ txn' = [txn EXCEPT ![c] = "sent"]
  /\ UNCHANGED <<req, answer, pool, work, keys, orders>>

(* The key row after c's transaction commits. *)
RowWritten(c) ==
  [hash     |-> IF "key" \in work[c] THEN RequestHash(req[c].body) ELSE keys[Slot(c)].hash,
   response |-> IF "response" \in work[c] THEN c ELSE None]

(* Mutant: the reference table commits and the shard of the order does not. *)
ServerCommitKeyOnly(c) ==
  /\ txn[c] = "sent"
  /\ txn' = [txn EXCEPT ![c] = "committed"]
  /\ keys' = IF Keyed(c) THEN [keys EXCEPT ![Slot(c)] = RowWritten(c)] ELSE keys
  /\ UNCHANGED <<app, work, orders>>

(* The server commits, whether or not the call still waits for it. *)
ServerCommit(c) ==
  /\ txn[c] = "sent"
  /\ txn' = [txn EXCEPT ![c] = "committed"]
  /\ orders' = IF "order" \in work[c] THEN orders \cup {c} ELSE orders
  /\ keys' = IF Keyed(c) THEN [keys EXCEPT ![Slot(c)] = RowWritten(c)] ELSE keys
  /\ UNCHANGED <<app, work>>

(* Mutant: 200 as soon as the COMMIT is on its way. *)
AcknowledgeEarly(c) ==
  /\ pc[c] = "committing"
  /\ txn[c] \in {"sent", "committed"}
  /\ Finish(c, Created(c))
  /\ UNCHANGED <<req, work, keys, orders>>

Acknowledge(c) ==
  /\ pc[c] = "committing"
  /\ txn[c] = "committed"
  /\ Finish(c, Created(c))
  /\ UNCHANGED <<req, work, keys, orders>>

(* The server ended the transaction under a running call: its next statement *)
(* raises.                                                                   *)
SessionLost(c) ==
  /\ InTransaction(c)
  /\ txn[c] = "ended"
  /\ Finish(c, ServerError)
  /\ UNCHANGED <<req, work, keys, orders>>

(* Acquiring, a statement or the COMMIT raises (timeout of the command, lost *)
(* connection, refused connection).  The server may not know yet: a live     *)
(* transaction stays behind until the server commits or reaps it.            *)
Fault(c) ==
  /\ "fault" \in Failures
  /\ InFlight(c)
  /\ pc' = [pc EXCEPT ![c] = "done"]
  /\ answer' = [answer EXCEPT ![c] = ServerError]
  /\ pool' = pool \ {c}
  /\ UNCHANGED <<req, db>>

(* The server ends a transaction: idle_in_transaction_session_timeout,       *)
(* statement_timeout, deadlock detection, restart of a node.                 *)
Kill(c) ==
  /\ "kill" \in Failures
  /\ Live(c)
  /\ ~Ended(c)
  /\ txn' = [txn EXCEPT ![c] = "ended"]
  /\ UNCHANGED <<app, work, keys, orders>>

(* Mutant: the server keeps the transactions of dead connections. *)
ReapNever(c) == Live(c) /\ Ended(c) /\ UNCHANGED vars

(* The server notices that nobody is behind the connection any more. *)
Reap(c) ==
  /\ Live(c)
  /\ Ended(c)
  /\ txn' = [txn EXCEPT ![c] = "ended"]
  /\ UNCHANGED <<app, work, keys, orders>>

(* The writer process dies with all its calls and its pool, and is started   *)
(* again with an empty pool.                                                 *)
Crash ==
  /\ "crash" \in Failures
  /\ \E c \in Calls : InFlight(c)
  /\ pc' = [c \in Calls |-> IF InFlight(c) THEN "lost" ELSE pc[c]]
  /\ pool' = {}
  /\ UNCHANGED <<req, answer, db>>

(* Every call has come and gone, and the server is at rest. *)
Quiescent ==
  /\ \A c \in Calls : Ended(c) /\ ~Live(c)
  /\ UNCHANGED vars

CallStep(c) ==
  \/ Begin(c)
  \/ SelectContinues(c) \/ SelectAnswers(c)
  \/ InsertKey(c) \/ InsertKeyViolates(c) \/ Reselect(c)
  \/ InsertOrder(c) \/ UpdateKey(c)
  \/ SendCommit(c) \/ Acknowledge(c) \/ SessionLost(c)

ServerStep(c) == ServerCommit(c) \/ Reap(c)

Next == \/ \E c \in Calls : \/ Arrive(c)
                            \/ CallStep(c)
                            \/ ServerStep(c)
                            \/ Fault(c)
                            \/ Kill(c)
        \/ Crash
        \/ Quiescent

Spec == Init /\ [][Next]_vars

(* A coroutine that can go on does: the event loop runs every ready task,    *)
(* the pool serves its waiters in order, and a statement that waits for a    *)
(* lock is granted it when it is free.  The server finishes a COMMIT it was  *)
(* sent and notices a dead connection.  Nothing obliges a client to call,    *)
(* and no failure is obliged to happen.                                      *)
Fairness == \A c \in Calls : WF_vars(CallStep(c)) /\ WF_vars(ServerStep(c))

FairSpec == Spec /\ Fairness

-----------------------------------------------------------------------------
(* Type correctness; the pool never lends more connections than it has. *)
TypeOK ==
  /\ pc \in [Calls -> Steps]
  /\ req \in [Calls -> Requests \cup {None}]
  /\ answer \in [Calls -> Answers \cup {None}]
  /\ pool \subseteq Calls
  /\ Cardinality(pool) <= PoolSize
  /\ txn \in [Calls -> TxnStates]
  /\ work \in [Calls -> SUBSET Writes]
  /\ keys \in [Slots -> Rows \cup {NoRow}]
  /\ orders \subseteq Calls

(* What a step of a call may count on: the statement it is at tells the      *)
(* state of its transaction and the writes in it; a transaction that was     *)
(* sent or is committed has all its writes; only an error leaves a           *)
(* transaction behind; the committed transactions are exactly the orders.    *)
FullWork(c) == IF Keyed(c) THEN Writes ELSE {"order"}

WorkAt(c) == CASE pc[c] \in {"select", "insertKey", "reselect"} -> {}
               [] pc[c] = "insertOrder" -> IF Keyed(c) THEN {"key"} ELSE {}
               [] pc[c] = "updateKey" -> {"key", "order"}
               [] OTHER -> FullWork(c)

TxnAt(c) == CASE pc[c] \in {"idle", "acquire"} -> {"none"}
              [] pc[c] = "reselect" -> {"failed", "ended"}
              [] pc[c] = "committing" -> {"sent", "committed", "ended"}
              [] Ended(c) -> TxnStates
              [] OTHER -> {"open", "ended"}

Disciplined(c) ==
  /\ pc[c] = "idle" <=> req[c] = None
  /\ answer[c] # None <=> pc[c] = "done"
  /\ answer[c] # None /\ answer[c].status # 500 => ~Live(c)
  /\ pc[c] \in {"select", "insertKey", "reselect", "updateKey"} => Keyed(c)
  /\ txn[c] \in TxnAt(c)
  /\ InTransaction(c) => work[c] = WorkAt(c)
  /\ txn[c] \in {"sent", "committed"} => work[c] = FullWork(c)
  /\ txn[c] \in {"none", "failed"} => work[c] = {}
  /\ txn[c] = "committed" <=> c \in orders

CallDiscipline == \A c \in Calls : Disciplined(c)

(* Retries are safe: whatever fails, is retried or races, the calls that     *)
(* share a principal and an Idempotency-Key have one order between them      *)
(* (create_order, the primary key of idempotency_keys).                      *)
OneOrderPerKey ==
  \A c, d \in orders : Keyed(c) /\ Keyed(d) /\ Slot(c) = Slot(d) => c = d

(* The key row, the stored response and the order are one: a committed key   *)
(* row has the response of a committed order made under that key from the    *)
(* body that was hashed, and a committed keyed order has its key row.        *)
KeyBoundToItsOrder ==
  /\ \A s \in Slots : keys[s] # NoRow =>
       \E c \in orders : /\ Keyed(c) /\ Slot(c) = s
                         /\ keys[s] = [hash |-> RequestHash(req[c].body), response |-> c]
  /\ \A c \in orders : Keyed(c) => keys[Slot(c)] # NoRow /\ keys[Slot(c)].response = c

(* An acknowledged order is durable, and is the one the caller asked for:    *)
(* no 200 before the COMMIT took effect.                                     *)
AcknowledgedIsCommitted ==
  \A c \in Calls : answer[c] # None /\ answer[c].status = 200 =>
    /\ answer[c].order \in orders
    /\ req[answer[c].order].body = req[c].body

(* A 409 is the truth and stays it: the key belongs to an order of another   *)
(* body, and the refused call leaves no order behind, not even later.        *)
ConflictIsTruthful ==
  \A c \in Calls : answer[c] = Conflict =>
    /\ c \notin orders
    /\ ~Live(c)
    /\ Keyed(c)
    /\ keys[Slot(c)] # NoRow
    /\ keys[Slot(c)].hash # RequestHash(req[c].body)

(* The lock on a new key row serialises its writers: no two live             *)
(* transactions have an uncommitted version of one key row, and none has an  *)
(* uncommitted version of a row that is already committed.                   *)
OneWriterPerKey ==
  \A c \in Calls : \A s \in Slots : Holds(c, s) =>
    /\ keys[s] = NoRow
    /\ \A d \in Calls : Holds(d, s) => d = c

(* Exactly the calls inside the transaction block hold a connection: every   *)
(* exit, by return, exception or crash, gives it back.                       *)
ConnectionsReturned == pool = {c \in Calls : InTransaction(c)}

(* A key row never changes once it is visible: the stored response of a key  *)
(* is never replaced by that of another call.                                *)
KeyRowsImmutable ==
  [][\A s \in Slots : keys[s] # NoRow => keys'[s] = keys[s]]_vars

(* Every call that arrives ends, with an answer or with the process, however *)
(* the calls queue for connections and for each other's key rows.            *)
EveryCallEnds == \A c \in Calls : pc[c] = "acquire" ~> Ended(c)

(* No key stays locked: a transaction whose call is gone is finished by the  *)
(* server, so that a retry under the same key can go on.                     *)
TransactionsEnd == \A c \in Calls : Live(c) ~> ~Live(c)

(* README "Idempotency": same key + same body = stored response replay.      *)
(* Stated for calls that nothing makes fail (Failures = {}).                 *)
SameBodyReplayed ==
  \A c, d \in Calls :
    /\ Keyed(c) /\ Keyed(d) /\ Slot(c) = Slot(d) /\ req[c].body = req[d].body
    /\ answer[c] # None /\ answer[d] # None /\ answer[c].status = 200
    => answer[d] = answer[c]

(* README "Idempotency": same key + different body = 409 Conflict.           *)
(* Stated for calls that nothing makes fail (Failures = {}).                 *)
DifferentBodyConflicts ==
  \A c, d \in Calls :
    /\ Keyed(c) /\ Keyed(d) /\ Slot(c) = Slot(d) /\ req[c].body # req[d].body
    /\ answer[c] # None /\ answer[d] # None /\ answer[c].status = 200
    => answer[d] = Conflict

(* What the calls promise, see IdempotentOrders. *)
Phase(c) == CASE pc[c] = "idle" -> "idle"
              [] Ended(c) -> "over"
              [] OTHER -> "running"
Bound(s) == IF keys[s] = NoRow THEN None ELSE keys[s].response

Promise == INSTANCE IdempotentOrders WITH
  phase <- [c \in Calls |-> Phase(c)],
  made <- orders,
  bound <- [s \in Slots |-> Bound(s)]

(* Seen from outside, every step of the code is a step of the promise: one   *)
(* atomic effect per call, and only true answers (create_order, whole).      *)
KeepsPromise == Promise!Spec
=============================================================================
