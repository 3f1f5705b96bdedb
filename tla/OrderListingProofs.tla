------------------------- MODULE OrderListingProofs -------------------------
(***************************************************************************)
(* What readers are promised, for every number of orders, users and        *)
(* processes, every limit and every difference of the clocks.              *)
(***************************************************************************)
EXTENDS OrderListing, FiniteSetTheorems, TLAPS

LEMMA TimesMonotone ==
  ASSUME NEW x \in Nat, NEW y \in Nat, NEW z \in Nat, x <= y
  PROVE  x * z <= y * z
<1>1. PICK k \in Nat : y = x + k
  <2>1. y - x \in Nat /\ y = x + (y - x)
    OBVIOUS
  <2> QED  BY <2>1
<1>2. y * z = x * z + k * z
  BY <1>1
<1>3. k * z \in Nat /\ x * z \in Nat /\ y * z \in Nat
  OBVIOUS
<1> QED  BY <1>2, <1>3

LEMMA SizesPositive ==
  /\ Below \in Nat \ {0} /\ Millisecond \in Nat \ {0}
  /\ Millisecond = 16 * (RandA * Below)
  /\ Below = 4 * RandB
<1>1. Stamps \in Nat \ {0} /\ RandA \in Nat \ {0} /\ RandB \in Nat \ {0}
  BY SizesAssumption
<1>2. Below \in Nat \ {0} /\ Below = 4 * RandB
  BY <1>1 DEF Below
<1>3. ASSUME NEW x \in Nat \ {0}, NEW y \in Nat \ {0}
      PROVE  x * y \in Nat \ {0} /\ 16 * x * y = 16 * (x * y)
  OBVIOUS
<1>4. Millisecond = 16 * (RandA * Below) /\ RandA * Below \in Nat \ {0}
  BY <1>1, <1>2, <1>3 DEF Millisecond
<1> QED  BY <1>2, <1>4

(* The fields below the timestamp do not reach it. *)
LEMMA LowPart ==
  ASSUME NEW a \in 0 .. RandA - 1, NEW b \in 0 .. RandB - 1
  PROVE  (7 * RandA + a) * Below + 2 * RandB + b \in 0 .. Millisecond - 1
<1> DEFINE high == 7 * RandA + a
<1>1. high \in Nat /\ high + 1 <= 8 * RandA /\ 8 * RandA \in Nat
  BY SizesAssumption
<1> HIDE DEF high
<1>2. (high + 1) * Below <= (8 * RandA) * Below
  BY <1>1, SizesPositive, TimesMonotone
<1>3. (high + 1) * Below = high * Below + Below /\ high * Below \in Nat
  BY <1>1, SizesPositive
<1>4. (8 * RandA) * Below = 8 * (RandA * Below) /\ RandA * Below \in Nat
  BY SizesAssumption, SizesPositive
<1>5. high * Below + 2 * RandB + b \in 0 .. Millisecond - 1
  BY <1>2, <1>3, <1>4, SizesPositive, SizesAssumption
<1> QED  BY <1>5 DEF high

(* An id lies between its millisecond and the next one. *)
LEMMA IdBetween ==
  ASSUME NEW ms \in 0 .. Stamps - 1, NEW a \in 0 .. RandA - 1, NEW b \in 0 .. RandB - 1
  PROVE  /\ NewUuid(ms, a, b) \in Nat
         /\ ms * Millisecond <= NewUuid(ms, a, b)
         /\ NewUuid(ms, a, b) < (ms + 1) * Millisecond
         /\ NewUuid(ms, a, b) \in 0 .. Stamps * Millisecond - 1
<1>1. ms % Stamps = ms
  BY SizesAssumption
<1> DEFINE low == (7 * RandA + a) * Below + 2 * RandB + b
<1>2. low \in 0 .. Millisecond - 1
  BY LowPart
<1>3. NewUuid(ms, a, b) = ms * Millisecond + low
  <2> DEFINE top == ms * Millisecond
             high == (7 * RandA + a) * Below
  <2>1. NewUuid(ms, a, b) = top + high + 2 * RandB + b
    BY <1>1 DEF NewUuid
  <2>2. 7 * RandA + a \in Nat /\ top \in Nat /\ RandB \in Nat
    BY SizesAssumption, SizesPositive
  <2>3. high \in Nat
    BY <2>2, SizesPositive
  <2> HIDE DEF top, high
  <2>4. top + high + 2 * RandB + b = top + (high + 2 * RandB + b)
    BY <2>2, <2>3
  <2> QED  BY <2>1, <2>4 DEF top, high
<1> HIDE DEF low
<1>4. ms * Millisecond \in Nat /\ (ms + 1) * Millisecond = ms * Millisecond + Millisecond
  BY SizesPositive
<1>5. (ms + 1) * Millisecond <= Stamps * Millisecond /\ Stamps * Millisecond \in Nat
  BY SizesPositive, SizesAssumption, TimesMonotone
<1> QED  BY <1>2, <1>3, <1>4, <1>5, SizesPositive

(* Of two ids the one of the earlier millisecond is the smaller, whatever    *)
(* the random parts are (uuidv7.py).                                         *)
THEOREM UuidsFollowTheClock ==
  ASSUME NEW ms1 \in 0 .. Stamps - 1, NEW ms2 \in 0 .. Stamps - 1, ms1 < ms2,
         NEW a1 \in 0 .. RandA - 1, NEW a2 \in 0 .. RandA - 1,
         NEW b1 \in 0 .. RandB - 1, NEW b2 \in 0 .. RandB - 1
  PROVE  NewUuid(ms1, a1, b1) < NewUuid(ms2, a2, b2)
<1>1. NewUuid(ms1, a1, b1) < (ms1 + 1) * Millisecond /\ NewUuid(ms1, a1, b1) \in Nat
  BY IdBetween
<1>2. ms2 * Millisecond <= NewUuid(ms2, a2, b2) /\ NewUuid(ms2, a2, b2) \in Nat
  BY IdBetween
<1>3. (ms1 + 1) * Millisecond <= ms2 * Millisecond
  BY SizesPositive, SizesAssumption, TimesMonotone
<1>4. (ms1 + 1) * Millisecond \in Nat /\ ms2 * Millisecond \in Nat
  BY SizesPositive
<1> QED  BY <1>1, <1>2, <1>3, <1>4

-----------------------------------------------------------------------------
(* Where an id may lie, given the clock that its process read it from. *)
Timed ==
  \A c \in Calls :
    /\ stage[c] = "named" => id[c] < (now + MaxSkew + 1) * Millisecond
    /\ stage[c] \notin {"idle", "named"} =>
         created[c] <= now /\ id[c] < (created[c] + MaxSkew + 1) * Millisecond

UniqueIds == \A c, d \in Committed : user[c] = user[d] /\ id[c] = id[d] => c = d

(* A query for one order is only asked about one that was acknowledged. *)
AskedAfter ==
  /\ query.kind \in {"one", "admin"}
  /\ todo # {} \/ rows # {} \/ due # {} \/ page # {}
  => query.call \in due

(* What has been read is what was asked for, and of the shards that have     *)
(* been read nothing is missing that was due or on the last page.            *)
ReadRight ==
  /\ due \subseteq Committed
  /\ \A c \in rows \cup page : c \in Committed /\ Selects(c)
  /\ \A c \in page : created[c] <= pageAt
  /\ todo \subseteq Shards
  /\ todo # {} => \A c \in due \cup page : Selects(c) /\ user[c] \notin todo => c \in rows

Promised == PageBounded /\ AcknowledgedIsListed /\ OrderIsFound

IInv == TypeOK /\ Timed /\ UniqueIds /\ AskedAfter /\ ReadRight /\ Promised

LEMMA QueryCases ==
  ASSUME TypeOK
  PROVE  \/ query.kind = "user" /\ query.user \in Users /\ Shards = {query.user}
         \/ query.kind = "pending" /\ Shards = Users
         \/ query.kind = "one" /\ query.call \in Calls /\ Shards = {user[query.call]}
         \/ query.kind = "admin" /\ query.call \in Calls /\ Shards = Users
BY DEF TypeOK, QueryKinds, Shards

LEMMA SelectCases ==
  ASSUME TypeOK, NEW c \in Calls
  PROVE  /\ query.kind = "user" => (Selects(c) <=> user[c] = query.user)
         /\ query.kind = "pending" => Selects(c)
         /\ query.kind = "one" => (Selects(c) <=> user[c] = user[query.call] /\ id[c] = id[query.call])
         /\ query.kind = "admin" => (Selects(c) <=> id[c] = id[query.call])
BY DEF Selects

(* A row is on a shard the query goes to. *)
LEMMA SelectedIsRead ==
  ASSUME TypeOK, NEW c \in Calls, Selects(c)
  PROVE  user[c] \in Shards
BY QueryCases, SelectCases DEF TypeOK

LEMMA LimitPositive == TypeOK => SafeLimit \in Nat \ {0} /\ SafeLimit <= max_list_limit
<1> SUFFICES ASSUME TypeOK PROVE SafeLimit \in Nat \ {0} /\ SafeLimit <= max_list_limit
  OBVIOUS
<1>1. /\ max_list_limit \in Nat \ {0} /\ default_list_limit \in Nat \ {0}
      /\ PendingLimit \in Nat \ {0} /\ limit \in Nat
  BY LimitsAssumption DEF TypeOK
<1> QED  BY <1>1 DEF SafeLimit

LEMMA InitIInv == Init => IInv
<1> SUFFICES ASSUME Init PROVE IInv
  OBVIOUS
<1>1. TypeOK
  <2>1. max_list_limit \in Nat \ {0} /\ now \in 0 .. MaxTime /\ pageAt \in 0 .. MaxTime
    BY LimitsAssumption, TimeAssumption DEF Init
  <2>2. Stamps * Millisecond - 1 \in Nat
    BY SizesPositive, SizesAssumption
  <2>3. id \in [Calls -> 0 .. Stamps * Millisecond - 1]
    BY <2>2 DEF Init
  <2> QED  BY <2>1, <2>3, TimeAssumption DEF Init, TypeOK, Stages
<1>2. Timed /\ UniqueIds /\ AskedAfter
  BY DEF Init, Timed, UniqueIds, AskedAfter, Committed
<1>3. ReadRight
  BY DEF Init, ReadRight
<1>4. Promised
  BY <1>1, FS_EmptySet, LimitsAssumption
  DEF Init, TypeOK, Promised, PageBounded, AcknowledgedIsListed, OrderIsFound
<1> QED  BY <1>1, <1>2, <1>3, <1>4 DEF IInv

(* Steps of calls do not touch what was read: committed rows stay what they  *)
(* are, and more of them appear.                                             *)
LEMMA CallsKeepReads ==
  ASSUME IInv, TypeOK', UNCHANGED reads, user' = user,
         \A c \in Committed : c \in Committed' /\ id'[c] = id[c] /\ created'[c] = created[c]
  PROVE  AskedAfter' /\ ReadRight' /\ Promised'
<1> USE DEF reads, asked
<1>1. AskedAfter'
  BY DEF IInv, AskedAfter
<1>2. ASSUME NEW c \in Committed, query.kind \in {"one", "admin"} => query.call \in due
      PROVE  Selects(c)' <=> Selects(c)
  <2>1. c \in Calls /\ (query.kind \in {"one", "admin"} => query.call \in Committed)
    BY <1>2 DEF IInv, ReadRight, Committed
  <2> QED  BY <2>1, SelectCases, QueryCases DEF IInv, Selects
<1>3. SafeLimit' = SafeLimit /\ Ordered' = Ordered
  BY DEF SafeLimit, Ordered
<1>4. ReadRight'
  <2>1. \A c \in (rows \cup page)' : c \in Committed' /\ Selects(c)'
    BY <1>2 DEF IInv, ReadRight, AskedAfter
  <2>2. (due \subseteq Committed)' /\ (\A c \in page : created[c] <= pageAt)'
    BY DEF IInv, ReadRight
  <2>3. (todo \subseteq Shards)'
    <3>1. todo # {} => Shards' = Shards
      BY DEF Shards
    <3> QED  BY <3>1 DEF IInv, ReadRight
  <2>4. ASSUME (todo # {})', NEW c \in (due \cup page)', Selects(c)', user'[c] \notin todo'
        PROVE  c \in rows'
    BY <2>4, <1>2 DEF IInv, ReadRight, AskedAfter
  <2> QED  BY <2>1, <2>2, <2>3, <2>4 DEF ReadRight
<1>5. PageBounded' /\ OrderIsFound'
  BY DEF IInv, Promised, PageBounded, OrderIsFound
<1>6. AcknowledgedIsListed'
  <2> SUFFICES ASSUME (todo = {})', NEW c \in (due \ page)', Selects(c)'
               PROVE  /\ Cardinality(page') = SafeLimit'
                      /\ Ordered' => \A d \in page' : created'[d] >= created'[c]
    BY DEF AcknowledgedIsListed
  <2>1. c \in due \ page /\ c \in Committed /\ Selects(c)
    BY <1>2 DEF IInv, ReadRight, AskedAfter
  <2>2. /\ Cardinality(page) = SafeLimit
        /\ Ordered => \A d \in page : created[d] >= created[c]
    BY <2>1 DEF IInv, Promised, AcknowledgedIsListed
  <2> QED  BY <1>3, <2>1, <2>2 DEF IInv, ReadRight
<1> QED  BY <1>1, <1>4, <1>5, <1>6 DEF Promised

LEMMA NameStep == ASSUME IInv, NEW c \in Calls, Name(c) PROVE IInv'
<1>1. PICK skew \in 0 .. MaxSkew, a \in 0 .. RandA - 1, b \in 0 .. RandB - 1 :
        id' = [id EXCEPT ![c] = NewUuid(now + skew, a, b)]
  BY DEF Name
<1> DEFINE new == NewUuid(now + skew, a, b)
<1>2. now + skew \in 0 .. Stamps - 1
  BY TimeAssumption, ClockAssumption, SizesAssumption DEF IInv, TypeOK
<1>3. /\ new \in 0 .. Stamps * Millisecond - 1
      /\ new < (now + skew + 1) * Millisecond
  BY <1>2, IdBetween
<1>4. new < (now + MaxSkew + 1) * Millisecond
  <2>1. (now + skew + 1) * Millisecond <= (now + MaxSkew + 1) * Millisecond
    BY SizesPositive, TimesMonotone, TimeAssumption DEF IInv, TypeOK
  <2>2. /\ (now + skew + 1) * Millisecond \in Nat /\ (now + MaxSkew + 1) * Millisecond \in Nat
        /\ Stamps * Millisecond \in Nat
    BY SizesPositive, SizesAssumption, TimeAssumption DEF IInv, TypeOK
  <2> QED  BY <1>3, <2>1, <2>2
<1> HIDE DEF new
<1>5. TypeOK'
  BY <1>1, <1>3 DEF IInv, TypeOK, Name, Stages, reads, asked, new
<1>6. Committed' = Committed
  BY DEF IInv, TypeOK, Name, Committed
<1>7. Timed'
  BY <1>1, <1>4 DEF IInv, TypeOK, Timed, Name, new
<1>8. \A d \in Committed : id'[d] = id[d] /\ created'[d] = created[d]
  BY <1>1 DEF IInv, TypeOK, Name, Committed
<1>9. UniqueIds'
  BY <1>6, <1>8 DEF IInv, UniqueIds, Name
<1> QED  BY <1>5, <1>6, <1>7, <1>8, <1>9, CallsKeepReads DEF IInv, Name

LEMMA BeginStep == ASSUME IInv, NEW c \in Calls, Begin(c) PROVE IInv'
<1>1. TypeOK'
  BY DEF IInv, TypeOK, Begin, CreatedAt, Stages, reads, asked
<1>2. Committed' = Committed
  BY DEF IInv, TypeOK, Begin, Committed
<1>3. Timed'
  BY TimeAssumption DEF IInv, TypeOK, Timed, Begin, CreatedAt
<1>4. \A d \in Committed : id'[d] = id[d] /\ created'[d] = created[d]
  BY DEF IInv, TypeOK, Begin, Committed
<1>5. UniqueIds'
  BY <1>2, <1>4 DEF IInv, UniqueIds, Begin
<1> QED  BY <1>1, <1>2, <1>3, <1>4, <1>5, CallsKeepReads DEF IInv, Begin

LEMMA CommitStep == ASSUME IInv, NEW c \in Calls, Commit(c) PROVE IInv'
<1>1. TypeOK'
  BY DEF IInv, TypeOK, Commit, Stages, reads, asked
<1>2. Committed' = IF Taken(c) THEN Committed ELSE Committed \cup {c}
  BY DEF IInv, TypeOK, Commit, Committed
<1>3. Timed'
  BY DEF IInv, TypeOK, Timed, Commit
<1>4. UniqueIds'
  BY <1>2 DEF IInv, UniqueIds, Commit, Taken
<1> QED  BY <1>1, <1>2, <1>3, <1>4, CallsKeepReads DEF IInv, Commit

LEMMA AcknowledgeStep == ASSUME IInv, NEW c \in Calls, Acknowledge(c) PROVE IInv'
<1>1. TypeOK'
  BY DEF IInv, TypeOK, Acknowledge, Stages, reads, asked
<1>2. Committed' = Committed
  BY DEF IInv, TypeOK, Acknowledge, Committed
<1>3. Timed'
  BY DEF IInv, TypeOK, Timed, Acknowledge
<1>4. UniqueIds'
  BY <1>2 DEF IInv, UniqueIds, Acknowledge
<1> QED  BY <1>1, <1>2, <1>3, <1>4, CallsKeepReads DEF IInv, Acknowledge

LEMMA TickStep == ASSUME IInv, Tick PROVE IInv'
<1>1. TypeOK'
  BY TimeAssumption DEF IInv, TypeOK, Tick, calls, reads, asked
<1>2. Committed' = Committed
  BY DEF Tick, calls, Committed
<1>3. Timed'
  <2> SUFFICES ASSUME NEW c \in Calls
      PROVE  /\ stage'[c] = "named" => id'[c] < (now' + MaxSkew + 1) * Millisecond
             /\ stage'[c] \notin {"idle", "named"} =>
                  created'[c] <= now' /\ id'[c] < (created'[c] + MaxSkew + 1) * Millisecond
    BY DEF Timed
  <2>1. (now + MaxSkew + 1) * Millisecond <= (now' + MaxSkew + 1) * Millisecond
    BY SizesPositive, TimesMonotone, TimeAssumption DEF IInv, TypeOK, Tick
  <2>2. /\ (now + MaxSkew + 1) * Millisecond \in Nat
        /\ (now' + MaxSkew + 1) * Millisecond \in Nat
    BY SizesPositive, TimeAssumption DEF IInv, TypeOK, Tick
  <2>3. id[c] \in Int /\ now \in Int /\ created[c] \in Int
    <3>1. Stamps * Millisecond - 1 \in Int
      BY SizesPositive, SizesAssumption
    <3> QED  BY <3>1 DEF IInv, TypeOK
  <2> QED  BY <2>1, <2>2, <2>3 DEF IInv, Timed, Tick, calls
<1>4. UniqueIds'
  BY <1>2 DEF IInv, UniqueIds, Tick, calls
<1> QED  BY <1>1, <1>2, <1>3, <1>4, CallsKeepReads DEF IInv, Tick, calls

LEMMA AskStep == ASSUME IInv, Ask PROVE IInv'
<1> USE DEF asked, calls
<1>1. TypeOK'
  <2>1. Shards \subseteq Users
    BY QueryCases DEF IInv, TypeOK
  <2> QED  BY <2>1 DEF IInv, TypeOK, Ask
<1>2. Timed' /\ UniqueIds' /\ Committed' = Committed /\ Shards' = Shards
  BY DEF IInv, Timed, UniqueIds, Ask, Committed, Shards
<1>3. due' \subseteq Committed
  BY DEF Ask, Committed
<1>4. \A d \in Calls : Selects(d)' <=> Selects(d)
  BY DEF Ask, Selects
<1>5. AskedAfter'
  BY QueryCases DEF IInv, AskedAfter, Ask
<1>6. ReadRight'
  <2>1. \A d \in (rows \cup page)' : d \in Committed' /\ Selects(d)'
    BY <1>2, <1>4 DEF IInv, ReadRight, Ask, Committed
  <2>2. ASSUME NEW d \in (due \cup page)', Selects(d)', user'[d] \notin todo'
        PROVE  d \in rows'
    <3>1. d \in Calls /\ Selects(d)
      BY <2>2, <1>3, <1>4 DEF IInv, ReadRight, Ask, Committed
    <3> QED  BY <2>2, <3>1, SelectedIsRead DEF IInv, Ask
  <2> QED  BY <1>2, <1>3, <2>1, <2>2 DEF IInv, ReadRight, Ask
<1>7. Promised'
  <2>1. ASSUME todo' = {}, NEW d \in due', Selects(d)' PROVE FALSE
    <3>1. d \in Calls /\ Selects(d)
      BY <2>1, <1>3, <1>4 DEF Committed
    <3> QED  BY <2>1, <3>1, SelectedIsRead DEF IInv, Ask
  <2>2. query.kind = "one" => todo' # {}
    BY QueryCases DEF IInv, Ask
  <2> QED  BY <2>1, <2>2
           DEF IInv, Ask, Promised, PageBounded, AcknowledgedIsListed, OrderIsFound
<1> QED  BY <1>1, <1>2, <1>5, <1>6, <1>7 DEF IInv

(* The rows of a query are complete when its last shard has been read.       *)
LEMMA LastRead ==
  ASSUME IInv, NEW u \in todo, todo \ {u} = {}, NEW c \in due \cup page, Selects(c)
  PROVE  c \in rows \cup {d \in Committed : user[d] = u /\ Selects(d)}
BY DEF IInv, ReadRight

LEMMA ReadShardStep ==
  ASSUME IInv, NEW u \in Users, ReadShard(u)
  PROVE  /\ IInv'
         /\ \A c \in page \ page' :
              Ordered => Cardinality(page') = SafeLimit /\ \A d \in page' : created[d] >= created[c]
<1> USE DEF asked, calls
<1> DEFINE read == rows \cup {c \in Committed : user[c] = u /\ Selects(c)}
<1>1. \A c \in read : c \in Committed /\ c \in Calls /\ Selects(c)
  BY DEF IInv, ReadRight, Committed
<1>2. /\ todo' = todo \ {u} /\ u \in todo
      /\ UNCHANGED <<now, user, stage, id, created, due>>
      /\ UNCHANGED <<max_list_limit, default_list_limit, query, limit>>
  BY DEF ReadShard
<1>3. /\ Committed' = Committed /\ Shards' = Shards
      /\ SafeLimit' = SafeLimit /\ Ordered' = Ordered
      /\ \A d \in Calls : Selects(d)' <=> Selects(d)
  BY <1>2 DEF Committed, Shards, SafeLimit, Ordered, Selects
<1>4. Timed' /\ UniqueIds'
  BY <1>2, <1>3 DEF IInv, Timed, UniqueIds
<1>5. AskedAfter'
  BY <1>2 DEF IInv, AskedAfter
<1>6. CASE todo' # {}
  <2>1. rows' = read /\ page' = page /\ pageAt' = pageAt
    BY <1>6 DEF ReadShard
  <2> HIDE DEF read
  <2>2. TypeOK'
    BY <1>1, <1>2, <2>1 DEF IInv, TypeOK, QueryKinds
  <2>3. ReadRight'
    <3>1. \A d \in rows' \cup page' : d \in Committed' /\ Selects(d)'
      BY <1>1, <1>3, <2>1 DEF IInv, ReadRight, Committed
    <3>2. ASSUME NEW d \in due' \cup page', Selects(d)', user'[d] \notin todo'
          PROVE  d \in rows'
      <4>1. d \in Committed /\ d \in Calls /\ Selects(d) /\ user[d] \notin todo \ {u}
        BY <3>2, <1>2, <1>3, <2>1 DEF IInv, ReadRight, Committed
      <4>2. CASE user[d] = u
        BY <4>1, <4>2, <2>1 DEF read
      <4>3. CASE user[d] \notin todo
        BY <4>1, <4>3, <3>2, <1>2, <2>1 DEF IInv, ReadRight, read
      <4> QED  BY <4>1, <4>2, <4>3
    <3> QED  BY <1>2, <1>3, <2>1, <3>1, <3>2 DEF IInv, ReadRight
  <2>4. Promised'
    BY <1>2, <1>6, <2>1 DEF IInv, Promised, PageBounded, AcknowledgedIsListed, OrderIsFound
  <2> QED  BY <1>4, <1>5, <2>1, <2>2, <2>3, <2>4 DEF IInv
<1>7. CASE todo' = {}
  <2>1. /\ page' \subseteq read /\ rows' = {} /\ pageAt' = now
        /\ page' = read \/ Cardinality(page') = SafeLimit
        /\ Cardinality(page') <= SafeLimit
        /\ Ordered => \A c \in page' : \A d \in read \ page' : ~Before(d, c)
    BY <1>7 DEF ReadShard
  <2>2. \A c \in due \cup page : Selects(c) => c \in read
    BY <1>2, <1>7, LastRead
  <2> HIDE DEF read
  <2>3. ASSUME NEW c \in read \ page'
        PROVE  /\ Cardinality(page') = SafeLimit
               /\ Ordered => \A d \in page' : created[d] >= created[c]
    <3>1. \A d \in Calls : created[d] \in Int
      BY DEF IInv, TypeOK
    <3> QED  BY <1>1, <2>1, <2>3, <3>1 DEF Before
  <2>4. TypeOK'
    BY <1>1, <1>2, <2>1 DEF IInv, TypeOK, QueryKinds
  <2>5. ReadRight'
    <3>1. \A d \in page' : d \in Committed /\ d \in Calls /\ Selects(d) /\ created[d] <= now
      BY <1>1, <2>1 DEF IInv, Timed, Committed
    <3> QED  BY <1>2, <1>3, <1>7, <2>1, <3>1 DEF IInv, ReadRight
  <2>6. PageBounded'
    <3>1. max_list_limit \in Nat /\ SafeLimit \in Nat /\ SafeLimit <= max_list_limit
      BY LimitPositive, LimitsAssumption DEF IInv, TypeOK
    <3>2. Cardinality(page') \in Nat
      BY <2>4, CallsAssumption, FS_Subset, FS_CardinalityType DEF TypeOK
    <3> QED  BY <1>2, <2>1, <3>1, <3>2 DEF PageBounded
  <2>7. AcknowledgedIsListed'
    <3> SUFFICES ASSUME NEW c \in due' \ page', Selects(c)'
                 PROVE  /\ Cardinality(page') = SafeLimit'
                        /\ Ordered' => \A d \in page' : created'[d] >= created'[c]
      BY DEF AcknowledgedIsListed
    <3>1. c \in Calls /\ c \in due /\ Selects(c)
      BY <1>2, <1>3 DEF IInv, TypeOK
    <3> QED  BY <1>2, <1>3, <2>2, <2>3, <3>1
  <2>8. OrderIsFound'
    <3> SUFFICES ASSUME query.kind = "one", due # {} PROVE page' = {query.call}
      BY <1>2 DEF OrderIsFound
    <3>1. query.call \in due /\ query.call \in Committed /\ query.call \in Calls
      BY DEF IInv, AskedAfter, ReadRight, Committed
    <3>2. Selects(query.call)
      BY <3>1, SelectCases DEF IInv
    <3>3. \A d \in read : d = query.call
      BY <1>1, <3>1, SelectCases DEF IInv, UniqueIds
    <3>4. SafeLimit = 1
      BY DEF SafeLimit
    <3>5. query.call \in read
      BY <2>2, <3>1, <3>2
    <3>6. page' = {} => page' = read
      BY <2>1, <3>4, FS_EmptySet
    <3>7. page' # {}
      BY <3>5, <3>6
    <3> QED  BY <2>1, <3>3, <3>7
  <2>9. ASSUME NEW c \in page \ page'
        PROVE  Ordered => Cardinality(page') = SafeLimit /\ \A d \in page' : created[d] >= created[c]
    BY <2>2, <2>3, <2>9 DEF IInv, ReadRight
  <2> QED  BY <1>4, <1>5, <2>4, <2>5, <2>6, <2>7, <2>8, <2>9 DEF IInv, Promised
<1> QED  BY <1>6, <1>7

LEMMA StutterStep == ASSUME IInv, UNCHANGED ovars PROVE IInv'
BY DEF ovars, IInv, TypeOK, Timed, UniqueIds, AskedAfter, ReadRight, Promised, PageBounded,
       AcknowledgedIsListed, OrderIsFound, Committed, Selects, Shards, SafeLimit, Ordered, QueryKinds

LEMMA NextIInv == IInv /\ [Next]_ovars => IInv'
BY NameStep, BeginStep, CommitStep, AcknowledgeStep, AskStep, ReadShardStep, TickStep, StutterStep
DEF Next, Over

(* The inductive invariant holds in every reachable state. *)
THEOREM Invariance == Spec => []IInv
BY InitIInv, NextIInv, PTL DEF Spec

(* Types; in particular created_at and the ids are what the clocks allow. *)
THEOREM TypeCorrect == Spec => []TypeOK
<1>1. IInv => TypeOK
  BY DEF IInv
<1> QED  BY <1>1, Invariance, PTL

(* No page is longer than MAX_LIST_LIMIT, whatever the defaults are. *)
THEOREM PagesAreBounded == Spec => []PageBounded
<1>1. IInv => PageBounded
  BY DEF IInv, Promised
<1> QED  BY <1>1, Invariance, PTL

(* Whoever was told of an order finds it, unless the page is full of others  *)
(* that are no older, in spite of the shards being read one by one.          *)
THEOREM AcknowledgedOrdersAreListed == Spec => []AcknowledgedIsListed
<1>1. IInv => AcknowledgedIsListed
  BY DEF IInv, Promised
<1> QED  BY <1>1, Invariance, PTL

(* An order is found by its user and id, and nothing else is. *)
THEOREM OrdersAreFound == Spec => []OrderIsFound
<1>1. IInv => OrderIsFound
  BY DEF IInv, Promised
<1> QED  BY <1>1, Invariance, PTL

(* A page of a repeated query loses an order only to newer ones. *)
THEOREM PagesForgetNothing == Spec => LeavesForNewer
<1> DEFINE Forgets == \A c \in page \ page' :
             Ordered => Cardinality(page') = SafeLimit /\ \A d \in page' : created[d] >= created[c]
<1>1. IInv /\ [Next]_ovars => [Forgets]_ovars
  <2> SUFFICES ASSUME IInv, [Next]_ovars, page' # page PROVE Forgets
    BY DEF ovars
  <2>1. \E u \in Users : ReadShard(u)
    BY DEF Next, Over, ovars, Name, Begin, Commit, Acknowledge, Ask, Tick, reads
  <2> QED  BY <2>1, ReadShardStep
<1> QED  BY <1>1, Invariance, PTL DEF Spec, LeavesForNewer

(* What turns up behind an earlier page had begun when that page was read.   *)
THEOREM LateRowsHadBegun == Spec => LateRowsBeganEarlier
<1> DEFINE Late == \A c \in page' \ page :
             /\ Ordered
             /\ \E d \in page : Before(d, c)
             => created[c] <= pageAt
<1>1. IInv /\ [Next]_ovars => [Late]_ovars
  <2> SUFFICES ASSUME IInv, [Next]_ovars, NEW c \in page' \ page, NEW d \in page, Before(d, c)
               PROVE  created[c] <= pageAt
    BY DEF ovars
  <2>1. created[d] <= pageAt /\ d \in Calls
    BY DEF IInv, ReadRight, TypeOK
  <2>2. c \in Calls
    <3>1. IInv'
      BY NextIInv
    <3> QED  BY <3>1 DEF IInv, TypeOK
  <2>3. created[c] \in Int /\ created[d] \in Int /\ pageAt \in Int
    BY <2>1, <2>2 DEF IInv, TypeOK
  <2> QED  BY <2>1, <2>3 DEF Before
<1> QED  BY <1>1, Invariance, PTL DEF Spec, LateRowsBeganEarlier

(* Ids sort with created_at, up to the difference of the clocks. *)
THEOREM IdsFollowCreation == Spec => IdsFollowTime
<1> DEFINE Follow == \A c, d \in Calls :
             /\ stage[c] \notin {"idle", "named"} /\ created[c] + MaxSkew < now
             /\ stage[d] = "idle" /\ stage'[d] = "named"
             => id[c] < id'[d]
<1>1. IInv /\ [Next]_ovars => [Follow]_ovars
  <2> SUFFICES ASSUME IInv, [Next]_ovars, NEW c \in Calls, NEW d \in Calls,
                      stage[c] \notin {"idle", "named"}, created[c] + MaxSkew < now,
                      stage[d] = "idle", stage'[d] = "named"
               PROVE  id[c] < id'[d]
    OBVIOUS
  <2>1. Name(d)
    <3>1. ASSUME NEW e \in Calls, Name(e) PROVE e = d
      BY <3>1 DEF Name, IInv, TypeOK
    <3>2. ASSUME NEW e \in Calls, Begin(e) \/ Commit(e) \/ Acknowledge(e) PROVE FALSE
      BY <3>2 DEF Begin, Commit, Acknowledge, IInv, TypeOK
    <3>3. ASSUME Ask \/ Tick \/ Over \/ UNCHANGED ovars PROVE FALSE
      BY <3>3 DEF Ask, Tick, Over, ovars, calls
    <3>4. ASSUME NEW u \in Users, ReadShard(u) PROVE FALSE
      BY <3>4 DEF ReadShard, calls
    <3> QED  BY <3>1, <3>2, <3>3, <3>4 DEF Next
  <2>2. PICK skew \in 0 .. MaxSkew, a \in 0 .. RandA - 1, b \in 0 .. RandB - 1 :
          id' = [id EXCEPT ![d] = NewUuid(now + skew, a, b)]
    BY <2>1 DEF Name
  <2>3. now + skew \in 0 .. Stamps - 1 /\ now \in Nat /\ created[c] \in Nat
    BY TimeAssumption, ClockAssumption, SizesAssumption DEF IInv, TypeOK
  <2>4. (now + skew) * Millisecond <= id'[d]
    BY <2>2, <2>3, IdBetween DEF IInv, TypeOK
  <2>5. (created[c] + MaxSkew + 1) * Millisecond <= (now + skew) * Millisecond
    <3>1. /\ created[c] + MaxSkew + 1 \in Nat /\ now + skew \in Nat
          /\ created[c] + MaxSkew + 1 <= now + skew
      BY <2>3, TimeAssumption
    <3> QED  BY <3>1, SizesPositive, TimesMonotone
  <2>6. id[c] < (created[c] + MaxSkew + 1) * Millisecond
    BY DEF IInv, Timed
  <2>7. /\ (created[c] + MaxSkew + 1) * Millisecond \in Nat
        /\ (now + skew) * Millisecond \in Nat
    BY <2>3, SizesPositive, TimeAssumption
  <2>8. id[c] \in Int /\ id'[d] \in Int
    <3>1. NewUuid(now + skew, a, b) \in Nat
      BY <2>3, IdBetween
    <3>2. Stamps * Millisecond - 1 \in Int
      BY SizesPositive, SizesAssumption
    <3> QED  BY <2>2, <3>1, <3>2 DEF IInv, TypeOK
  <2> QED  BY <2>4, <2>5, <2>6, <2>7, <2>8
<1> QED  BY <1>1, Invariance, PTL DEF Spec, IdsFollowTime
=============================================================================
