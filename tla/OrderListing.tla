---------------------------- MODULE OrderListing ----------------------------
(***************************************************************************)
(* What the readers see of orders while they are being created: the four   *)
(* queries of src/app/common/repository.py behind the GET endpoints of     *)
(* src/app/reader_service/main.py and src/app/writer_service/main.py, next *)
(* to the steps of create_order that decide which rows there are and how   *)
(* they sort.                                                              *)
(*                                                                         *)
(* An order is named by its process's clock before it waits for a          *)
(* connection; created_at is the database's clock at BEGIN; the row shows  *)
(* with the commit.  A query for one user reads one shard; one for all     *)
(* reads a shard after the other, and Citus takes no snapshot over them.   *)
(***************************************************************************)
EXTENDS UuidV7, FiniteSets

CONSTANTS
  Calls,         \* calls of create_order
  Users,         \* users, each of a shard of its own
  Limits,        \* values of settings.default_list_limit and settings.max_list_limit
  PendingLimit,  \* the default of list_pending_admin, 20
  MaxSkew,       \* bound: process clocks are ahead of the database by at most this
  MaxTime        \* bound: the last tick

ASSUME CallsAssumption == IsFiniteSet(Calls)
ASSUME LimitsAssumption == Limits \cup {PendingLimit} \subseteq Nat \ {0}
ASSUME TimeAssumption == {MaxSkew, MaxTime} \subseteq Nat
(* 48 bits of milliseconds last for 8919 years from 1970. *)
ASSUME ClockAssumption == MaxTime + MaxSkew < Stamps

VARIABLES
  max_list_limit, default_list_limit,    \* settings, which nothing relates to one another
  now,      \* the clock of the database, in milliseconds
  user,     \* the user of each call
  stage,    \* where each call is
  id,       \* its new_uuidv7()
  created,  \* its created_at
  query,    \* the query a client repeats
  limit,    \* its limit, 0 if it gives none
  todo,     \* the shards the running query has still to read; {} between queries
  rows,     \* what it has read
  due,      \* calls acknowledged before it began
  page,     \* the last answer
  pageAt    \* when that was read

ovars == <<max_list_limit, default_list_limit, now, user, stage, id, created,
           query, limit, todo, rows, due, page, pageAt>>
asked == <<max_list_limit, default_list_limit, query, limit>>
calls == <<user, stage, id, created>>
reads == <<asked, todo, rows, due, page, pageAt>>

Stages == {"idle", "named", "begun", "committed", "acknowledged", "failed"}
Committed == {c \in Calls : stage[c] \in {"committed", "acknowledged"}}

(* "user": list_orders_by_user; "pending": list_pending_orders_admin, where   *)
(* every order here is pending, as nothing changes a status; "one":          *)
(* get_order_by_user_and_id; "admin": get_order_by_id_admin.                 *)
QueryKinds == [kind : {"user"}, user : Users] \cup [kind : {"pending"}]
                \cup [kind : {"one", "admin"}, call : Calls]

Init ==
  /\ max_list_limit \in Limits /\ default_list_limit \in Limits
  /\ now = 0
  /\ user \in [Calls -> Users]
  /\ stage = [c \in Calls |-> "idle"]
  /\ id = [c \in Calls |-> 0] /\ created = [c \in Calls |-> 0]
  /\ query \in QueryKinds
  /\ limit \in IF query.kind \in {"user", "pending"} THEN 0 .. max_list_limit ELSE {0}
  /\ todo = {} /\ rows = {} /\ due = {} /\ page = {} /\ pageAt = 0

Name(c) ==
  /\ stage[c] = "idle"
  /\ stage' = [stage EXCEPT ![c] = "named"]
  /\ \E skew \in 0 .. MaxSkew : \E a \in 0 .. RandA - 1 : \E b \in 0 .. RandB - 1 :
       id' = [id EXCEPT ![c] = NewUuid(now + skew, a, b)]
  /\ UNCHANGED <<now, user, created, reads>>

(* DEFAULT now(): the start of the transaction. *)
CreatedAt(c) == now

Begin(c) ==
  /\ stage[c] = "named"
  /\ stage' = [stage EXCEPT ![c] = "begun"]
  /\ created' = [created EXCEPT ![c] = CreatedAt(c)]
  /\ UNCHANGED <<now, user, id, reads>>

(* PRIMARY KEY (user_id, id) *)
Taken(c) == \E d \in Committed : user[d] = user[c] /\ id[d] = id[c]

Commit(c) ==
  /\ stage[c] = "begun"
  /\ stage' = [stage EXCEPT ![c] = IF Taken(c) THEN "failed" ELSE "committed"]
  /\ UNCHANGED <<now, user, id, created, reads>>

Acknowledge(c) ==
  /\ stage[c] = "committed"
  /\ stage' = [stage EXCEPT ![c] = "acknowledged"]
  /\ UNCHANGED <<now, user, id, created, reads>>

(* min(limit or default, max): FastAPI checks the limit a client gives, and  *)
(* not the default.                                                          *)
SafeLimit ==
  LET given == IF limit # 0 THEN limit
               ELSE IF query.kind = "user" THEN default_list_limit ELSE PendingLimit
  IN  IF query.kind \in {"one", "admin"} THEN 1
      ELSE IF given < max_list_limit THEN given ELSE max_list_limit

(* The WHERE of the query. *)
Selects(c) ==
  CASE query.kind = "user" -> user[c] = query.user
    [] query.kind = "pending" -> TRUE
    [] query.kind = "one" -> user[c] = user[query.call] /\ id[c] = id[query.call]
    [] query.kind = "admin" -> id[c] = id[query.call]

(* Citus goes to the shard of the user the WHERE names, or to all. *)
Shards ==
  CASE query.kind = "user" -> {query.user}
    [] query.kind = "one" -> {user[query.call]}
    [] query.kind \in {"pending", "admin"} -> Users

(* Mutant: the oldest orders come first. *)
BeforeOldest(c, d) == created[c] < created[d] \/ (created[c] = created[d] /\ id[c] < id[d])

(* ORDER BY created_at DESC, id DESC *)
Before(c, d) == created[c] > created[d] \/ (created[c] = created[d] /\ id[c] > id[d])
Ordered == query.kind \in {"user", "pending"}

Ask ==
  /\ todo = {}
  /\ query.kind \in {"one", "admin"} => stage[query.call] = "acknowledged"
  /\ todo' = Shards
  /\ rows' = {}
  /\ due' = {c \in Calls : stage[c] = "acknowledged"}
  /\ UNCHANGED <<now, calls, asked, page, pageAt>>

(* One shard is read.  With the last one the answer is the first rows of     *)
(* all, in the order of the query; without an order, any.                    *)
ReadShard(u) ==
  /\ u \in todo
  /\ todo' = todo \ {u}
  /\ LET read == rows \cup {c \in Committed : user[c] = u /\ Selects(c)}
     IN  IF todo' # {} THEN rows' = read /\ UNCHANGED <<page, pageAt>>
         ELSE /\ page' \in {first \in SUBSET read :
                            /\ first = read \/ Cardinality(first) = SafeLimit
                            /\ Cardinality(first) <= SafeLimit
                            /\ Ordered => \A c \in first : \A d \in read \ first : ~Before(d, c)}
              /\ pageAt' = now
              /\ rows' = {}
  /\ UNCHANGED <<now, calls, asked, due>>

Tick ==
  /\ now < MaxTime
  /\ now' = now + 1
  /\ UNCHANGED <<calls, reads>>

(* The calls are over and the last tick is past. *)
Over ==
  /\ now = MaxTime
  /\ \A c \in Calls : stage[c] \in {"acknowledged", "failed"}
  /\ UNCHANGED ovars

Next == \/ \E c \in Calls : Name(c) \/ Begin(c) \/ Commit(c) \/ Acknowledge(c)
        \/ Ask
        \/ \E u \in Users : ReadShard(u)
        \/ Tick
        \/ Over

Spec == Init /\ [][Next]_ovars

-----------------------------------------------------------------------------
TypeOK ==
  /\ now \in 0 .. MaxTime
  /\ user \in [Calls -> Users]
  /\ stage \in [Calls -> Stages]
  /\ id \in [Calls -> 0 .. Stamps * Millisecond - 1]
  /\ created \in [Calls -> 0 .. MaxTime]
  /\ {max_list_limit, default_list_limit} \subseteq Limits
  /\ query \in QueryKinds /\ limit \in 0 .. max_list_limit
  /\ todo \subseteq Users
  /\ rows \subseteq Calls /\ due \subseteq Calls /\ page \subseteq Calls
  /\ pageAt \in 0 .. MaxTime

(* No answer is longer than MAX_LIST_LIMIT, whatever the defaults are        *)
(* (repository.py:170, 185).                                                 *)
PageBounded == Cardinality(page) <= max_list_limit

(* A client that was told of an order, by whichever process, finds it in     *)
(* every later answer that asks for it, unless the page is full of orders    *)
(* that are no older, although the shards are read one after the other.      *)
AcknowledgedIsListed ==
  todo = {} =>
    \A c \in due \ page : Selects(c) =>
      /\ Cardinality(page) = SafeLimit
      /\ Ordered => \A d \in page : created[d] >= created[c]

(* An order is found under its user and id, and nothing else is, even where  *)
(* ids collide (repository.py:157-167; ids are unique per user only).        *)
OrderIsFound ==
  query.kind = "one" /\ todo = {} /\ due # {} => page = {query.call}

(* An order leaves a client's list only for orders that sort before it.      *)
LeavesForNewer ==
  [][\A c \in page \ page' :
       Ordered => Cardinality(page') = SafeLimit /\ \A d \in page' : created[d] >= created[c]]_ovars

(* A row that turns up behind the first row of an earlier page had begun     *)
(* when that page was read: to miss none, a client has to look back by the   *)
(* length of a transaction and no further (created_at is the start of the    *)
(* transaction by the one clock of the database, 0001_init_schema.py:42).    *)
LateRowsBeganEarlier ==
  [][\A c \in page' \ page :
       /\ Ordered
       /\ \E d \in page : Before(d, c)
       => created[c] <= pageAt]_ovars

(* Ids sort with created_at, up to the difference of the clocks: an order is *)
(* named above all those that had begun more than MaxSkew before, whichever  *)
(* process named them (uuidv7.py:17-20; the 48 bits do not wrap).            *)
IdsFollowTime ==
  [][\A c, d \in Calls :
       /\ stage[c] \notin {"idle", "named"} /\ created[c] + MaxSkew < now
       /\ stage[d] = "idle" /\ stage'[d] = "named"
       => id[c] < id'[d]]_ovars

=============================================================================
