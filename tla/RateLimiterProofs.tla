------------------------- MODULE RateLimiterProofs -------------------------
(***************************************************************************)
(* The Redis limiter keeps its quota, for every number of requests,        *)
(* subjects and processes, every limit and window, and every skew and      *)
(* delay that the slack of the expiry covers; the memory of a process      *)
(* keeps its own until the process dies; and together they implement       *)
(* RateQuota.                                                              *)
(***************************************************************************)
EXTENDS RateLimiter, FiniteSetTheorems, FunctionTheorems, SequenceTheorems, TLAPS

Keys == Subjects \X Buckets

Typed ==
  /\ now \in 0 .. MaxTime
  /\ production \in BOOLEAN /\ (production => backend # "memory")
  /\ skew \in [Processes -> 0 .. MaxSkew]
  /\ counter \in [Keys -> [count : Nat, expires : 0 .. Never]]
  /\ pc \in [Requests -> Steps]
  /\ origin \in [Requests -> [process : Processes, subject : Subjects]]
  /\ bucket \in [Requests -> Buckets]
  /\ count \in [Requests -> Nat]
  /\ via \in [Requests -> {"redis", "memory", "none"}]

(* A request took its window's number from a clock, and its INCR is not late. *)
InTime ==
  \A r \in Requests :
    /\ bucket[r] * Window <= now + MaxSkew
    /\ pc[r] = "incr" => now + skew[Process(r)] < bucket[r] * Window + Window + MaxDelay

(* A key outlives the last INCR of its window. *)
Lasting ==
  \A k \in Keys :
    /\ k[2] * Window + Window + MaxDelay <= counter[k].expires
    /\ counter[k].count = 0 => counter[k].expires = Never

(* Redis gives every request of a window a number of its own. *)
Numbered ==
  /\ \A r \in Requests : count[r] <= counter[Key(r)].count
  /\ \A r \in Requests : pc[r] \in {"idle", "incr"} => count[r] = 0
  /\ \A r, q \in Requests :
       r # q /\ Key(r) = Key(q) /\ count[r] > 0 => count[q] # count[r]
  /\ \A r \in Requests : pc[r] = "expire" => count[r] = 1 /\ counter[Key(r)].expires = Never

(* Answers follow the numbers, but for those of the memory of a process. *)
Decided ==
  \A r \in Requests :
    /\ pc[r] = "admitted" /\ via[r] = "redis" => count[r] \in 1 .. Limit
    /\ pc[r] = "limited" /\ via[r] = "redis" => count[r] > Limit
    /\ pc[r] = "admitted" /\ production => via[r] = "redis"

(* The requests of a key that have had their INCR, or that never will. *)
Past(k) == {q \in Requests : Key(q) = k /\ pc[q] \notin {"idle", "incr"}}

Earned == \A k \in Keys : counter[k].count <= Cardinality(Past(k))

IInv == Typed /\ InTime /\ Lasting /\ Numbered /\ Decided /\ Earned /\ ImmortalOnlyByFailure

-----------------------------------------------------------------------------
LEMMA DivBounds ==
  ASSUME NEW x \in Nat, NEW w \in Nat \ {0}
  PROVE  /\ x \div w \in Nat
         /\ (x \div w) * w <= x
         /\ x < (x \div w) * w + w
OBVIOUS

LEMMA DivMonotone ==
  ASSUME NEW x \in Nat, NEW y \in Nat, NEW w \in Nat \ {0}, x <= y
  PROVE  x \div w <= y \div w
<1> DEFINE a == x \div w
           b == y \div w
<1>1. a \in Nat /\ b \in Nat /\ a * w <= x /\ y < b * w + w
  BY DivBounds
<1> HIDE DEF a, b
<1>2. SUFFICES ASSUME b < a PROVE FALSE
  BY <1>1 DEF a, b
<1>3. PICK k \in Nat : a = b + 1 + k
  <2>1. a - b - 1 \in Nat /\ a = b + 1 + (a - b - 1)
    BY <1>1, <1>2
  <2> QED  BY <2>1
<1>4. a * w = b * w + w + k * w
  BY <1>1, <1>3
<1>5. k * w \in Nat /\ b * w \in Nat
  BY <1>1
<1> QED  BY <1>1, <1>4, <1>5

LEMMA Sizes ==
  /\ Limit \in Nat \ {0} /\ Window \in Nat \ {0} /\ Slack \in Nat
  /\ MaxSkew \in Nat /\ MaxDelay \in Nat /\ MaxTime \in Nat
  /\ MaxSkew + MaxDelay <= Slack
  /\ Never = MaxTime + Window + Slack + 1
BY LimitAssumption, SlackAssumption, BoundsAssumption DEF Never

(* The numbers of windows, and what a key of the last one needs. *)
LEMMA BucketBounds ==
  ASSUME NEW b \in Buckets
  PROVE  b \in Nat /\ b * Window \in Nat /\ b * Window + Window + MaxDelay <= Never
<1> DEFINE last == (MaxTime + MaxSkew) \div Window
<1>1. last \in Nat /\ last * Window <= MaxTime + MaxSkew
  BY Sizes, DivBounds
<1>2. b \in Nat /\ b <= last
  BY <1>1 DEF Buckets
<1> HIDE DEF last
<1>3. PICK k \in Nat : last = b + k
  <2>1. last - b \in Nat /\ last = b + (last - b)
    BY <1>1, <1>2
  <2> QED  BY <2>1
<1>4. last * Window = b * Window + k * Window
  BY <1>2, <1>3, Sizes
<1>5. b * Window \in Nat /\ k * Window \in Nat
  BY <1>2, Sizes
<1> QED  BY <1>1, <1>2, <1>4, <1>5, Sizes

LEMMA KeyTyped ==
  ASSUME Typed, NEW r \in Requests
  PROVE  /\ Key(r) \in Keys /\ Key(r)[2] = bucket[r]
         /\ Process(r) \in Processes /\ bucket[r] \in Buckets
BY DEF Typed, Key, Keys, Process, Subject

(* An INCR in time finds the key that the first one made. *)
LEMMA NotExpired ==
  ASSUME IInv, NEW r \in Requests, pc[r] = "incr"
  PROVE  /\ Current(Key(r)) = counter[Key(r)]
         /\ Incremented(Key(r)) = [counter[Key(r)] EXCEPT !.count = @ + 1]
<1>1. now < bucket[r] * Window + Window + MaxDelay
  <2>1. bucket[r] * Window \in Nat /\ skew[Process(r)] \in Nat /\ now \in Nat
    BY KeyTyped, BucketBounds, Sizes DEF IInv, Typed
  <2> QED  BY <2>1, Sizes DEF IInv, InTime
<1>2. bucket[r] * Window + Window + MaxDelay <= counter[Key(r)].expires
  BY KeyTyped DEF IInv, Lasting
<1>3. /\ bucket[r] * Window \in Nat /\ now \in Nat
      /\ counter[Key(r)].expires \in Int
  BY KeyTyped, BucketBounds, Sizes DEF IInv, Typed
<1>4. ~(counter[Key(r)].expires <= now)
  BY <1>1, <1>2, <1>3, Sizes
<1> QED  BY <1>4 DEF Current, Incremented

(* Until its creator has come to the EXPIRE, a key does not expire. *)
LEMMA CreatorFindsKey ==
  ASSUME IInv, NEW r \in Requests, pc[r] = "expire"
  PROVE  /\ Current(Key(r)) = counter[Key(r)]
         /\ counter[Key(r)].count \in Nat \ {0}
<1>1. /\ counter[Key(r)].expires = Never /\ count[r] = 1
      /\ count[r] <= counter[Key(r)].count /\ counter[Key(r)].count \in Nat
  BY KeyTyped DEF IInv, Numbered, Typed
<1>2. ~(Never <= now)
  BY Sizes DEF IInv, Typed
<1> QED  BY <1>1, <1>2 DEF Current

(* Whoever has had its INCR stays one who has. *)
LEMMA EarnedKept ==
  ASSUME IInv, NEW k \in Keys,
         \A q \in Requests : pc[q] \notin {"idle", "incr"} =>
           pc'[q] \notin {"idle", "incr"} /\ Key(q)' = Key(q)
  PROVE  /\ Past(k) \subseteq Past(k)' /\ IsFiniteSet(Past(k)) /\ IsFiniteSet(Past(k)')
         /\ counter[k].count <= Cardinality(Past(k)')
         /\ Cardinality(Past(k)') \in Nat
<1>1. Past(k) \subseteq Past(k)' /\ Past(k) \subseteq Requests /\ Past(k)' \subseteq Requests
  BY DEF Past
<1>2. IsFiniteSet(Past(k)) /\ IsFiniteSet(Past(k)')
  BY <1>1, RequestsAssumption, FS_Subset
<1>3. /\ Cardinality(Past(k)) <= Cardinality(Past(k)')
      /\ Cardinality(Past(k)) \in Nat /\ Cardinality(Past(k)') \in Nat
  BY <1>1, <1>2, FS_Subset, FS_CardinalityType
<1>4. counter[k].count <= Cardinality(Past(k)) /\ counter[k].count \in Nat
  BY DEF IInv, Earned, Typed
<1> QED  BY <1>1, <1>2, <1>3, <1>4

(* An INCR adds one to the key and one to those who have had theirs. *)
LEMMA EarnedMore ==
  ASSUME IInv, NEW r \in Requests, pc[r] = "incr", pc'[r] \notin {"idle", "incr"},
         \A q \in Requests : Key(q)' = Key(q),
         \A q \in Requests : pc[q] \notin {"idle", "incr"} => pc'[q] \notin {"idle", "incr"}
  PROVE  counter[Key(r)].count + 1 <= Cardinality(Past(Key(r))')
<1> DEFINE k == Key(r)
           before == Past(k)
           after == Past(k)'
<1>1. k \in Keys
  BY KeyTyped DEF IInv
<1>2. before \subseteq after /\ IsFiniteSet(before) /\ IsFiniteSet(after) /\ Cardinality(after) \in Nat
  BY <1>1, EarnedKept
<1>3. r \in after /\ r \notin before
  BY DEF Past
<1> HIDE DEF before, after
<1>4. Cardinality(before \cup {r}) = Cardinality(before) + 1 /\ IsFiniteSet(before \cup {r})
  BY <1>2, <1>3, FS_AddElement
<1>5. Cardinality(before \cup {r}) <= Cardinality(after)
  BY <1>2, <1>3, FS_Subset
<1>6. counter[k].count <= Cardinality(before) /\ counter[k].count \in Nat /\ Cardinality(before) \in Nat
  BY <1>1, <1>2, FS_CardinalityType DEF IInv, Earned, Typed, before
<1> QED  BY <1>2, <1>4, <1>5, <1>6 DEF after

LEMMA InitIInv == Init => IInv
<1> SUFFICES ASSUME Init PROVE IInv
  OBVIOUS
<1>1. 0 \in Buckets
  BY Sizes, DivBounds DEF Buckets
<1>2. Typed
  BY <1>1, Sizes DEF Init, Typed, NoCounter, Keys, Steps
<1>3. InTime
  BY Sizes DEF Init, InTime
<1>4. Lasting
  <2>1. ASSUME NEW k \in Keys PROVE k[2] * Window + Window + MaxDelay <= Never /\ counter[k] = NoCounter
    BY BucketBounds DEF Init, Keys
  <2> QED  BY <2>1 DEF Lasting, NoCounter
<1>5. Numbered
  BY <1>2, KeyTyped DEF Init, Numbered, NoCounter, Keys
<1>6. Decided
  BY DEF Init, Decided
<1>7. Earned
  <2> SUFFICES ASSUME NEW k \in Keys PROVE counter[k].count <= Cardinality(Past(k))
    BY DEF Earned
  <2>1. Past(k) = {} /\ counter[k].count = 0
    BY DEF Init, Past, NoCounter, Keys
  <2> QED  BY <2>1, FS_EmptySet
<1>8. ImmortalOnlyByFailure
  BY DEF Init, ImmortalOnlyByFailure, NoCounter
<1> QED  BY <1>2, <1>3, <1>4, <1>5, <1>6, <1>7, <1>8 DEF IInv

(* The memory of a process answers for itself. *)
LEMMA MemoryAnswers ==
  ASSUME NEW r \in Requests, MemoryLimit(r) \/ RedisFailed(r)
  PROVE  \E a \in {"admitted", "limited", "unavailable"}, l \in {"memory", "none"} :
           /\ Answer(r, a, l)
           /\ (RedisFailed(r) /\ production => a = "unavailable")
BY DEF RedisFailed, MemoryLimit

LEMMA ArriveMemoryStep == ASSUME IInv, NEW r \in Requests, ArriveMemory(r) PROVE IInv'
<1>1. PICK a \in {"admitted", "limited", "unavailable"}, l \in {"memory", "none"} : Answer(r, a, l)
  BY MemoryAnswers DEF ArriveMemory
<1>2. /\ pc[r] = "idle" /\ ~production
      /\ pc' = [pc EXCEPT ![r] = a] /\ via' = [via EXCEPT ![r] = l]
      /\ UNCHANGED <<now, skew, production, backend, counter, origin, bucket, count>>
  BY <1>1 DEF ArriveMemory, Answer, settings, IInv, Typed
<1>3. \A q \in Requests : Key(q)' = Key(q) /\ Process(q)' = Process(q)
  BY <1>2 DEF Key, Subject, Process
<1>4. Typed'
  BY <1>2 DEF IInv, Typed, Steps, Answered
<1>5. InTime' /\ Lasting'
  BY <1>2, <1>3 DEF IInv, Typed, InTime, Lasting
<1>6. Numbered'
  BY <1>2, <1>3 DEF IInv, Typed, Numbered
<1>7. Decided'
  BY <1>2 DEF IInv, Typed, Decided
<1>8. Earned'
  BY <1>2, <1>3, EarnedKept DEF IInv, Typed, Earned
<1>9. ImmortalOnlyByFailure'
  <2> SUFFICES ASSUME NEW k \in Subjects \X Buckets, counter[k].count > 0, counter[k].expires = Never
               PROVE  \E q \in Requests : /\ Key(q) = k
                                          /\ \/ pc'[q] \in {"expire", "lost"}
                                             \/ pc'[q] \in Answered /\ via'[q] # "redis"
    BY <1>2, <1>3 DEF ImmortalOnlyByFailure
  <2>1. PICK q \in Requests : /\ Key(q) = k
                              /\ \/ pc[q] \in {"expire", "lost"}
                                 \/ pc[q] \in Answered /\ via[q] # "redis"
    BY DEF IInv, ImmortalOnlyByFailure
  <2>2. q # r
    BY <2>1, <1>2 DEF Answered
  <2>3. pc'[q] = pc[q] /\ via'[q] = via[q]
    BY <2>2, <1>2
  <2> QED  BY <2>1, <2>3
<1> QED  BY <1>4, <1>5, <1>6, <1>7, <1>8, <1>9 DEF IInv

(* The window that the clock of the process is in. *)
LEMMA BucketOfBounds ==
  ASSUME Typed, NEW r \in Requests
  PROVE  /\ BucketOf(r) \in Buckets
         /\ BucketOf(r) * Window <= now + MaxSkew
         /\ now + skew[Process(r)] < BucketOf(r) * Window + Window
<1>1. PICK x \in Nat : x = now + skew[Process(r)]
  BY KeyTyped, Sizes DEF Typed
<1>2. x <= now + MaxSkew /\ x <= MaxTime + MaxSkew
  <2>1. skew[Process(r)] \in 0 .. MaxSkew /\ now \in 0 .. MaxTime
    BY KeyTyped DEF Typed
  <2> QED  BY <1>1, <2>1, Sizes
<1>3. PICK last \in Nat : last = MaxTime + MaxSkew
  BY Sizes
<1>4. x \div Window \in Nat /\ (x \div Window) * Window <= x /\ x < (x \div Window) * Window + Window
  BY Sizes, DivBounds
<1>5. x \div Window <= last \div Window /\ last \div Window \in Nat
  BY <1>2, <1>3, Sizes, DivMonotone, DivBounds
<1>6. BucketOf(r) = x \div Window /\ Buckets = 0 .. (last \div Window)
  BY <1>1, <1>3 DEF BucketOf, Buckets
<1>7. PICK b \in Nat : b = x \div Window /\ b = BucketOf(r)
  BY <1>4, <1>6
<1>8. b \in Buckets
  BY <1>5, <1>6, <1>7
<1>9. PICK z \in Nat : z = b * Window
  BY Sizes
<1>10. z <= now + MaxSkew
  <2>1. z <= x
    BY <1>4, <1>7, <1>9
  <2> QED  BY <2>1, <1>2, Sizes DEF Typed
<1>11. x < z + Window
  BY <1>4, <1>7, <1>9
<1> QED  BY <1>1, <1>7, <1>8, <1>9, <1>10, <1>11

LEMMA ArriveRedisStep == ASSUME IInv, NEW r \in Requests, ArriveRedis(r) PROVE IInv'
<1>1. PICK b \in Buckets : /\ b = BucketOf(r) /\ b * Window <= now + MaxSkew
                           /\ now + skew[Process(r)] < b * Window + Window
  BY BucketOfBounds DEF IInv
<1>2. /\ pc[r] = "idle" /\ count[r] = 0
      /\ pc' = [pc EXCEPT ![r] = "incr"] /\ bucket' = [bucket EXCEPT ![r] = b]
      /\ UNCHANGED <<now, skew, production, backend, counter, origin, count, via>>
  BY <1>1 DEF ArriveRedis, settings, IInv, Numbered
<1>3. bucket[r] \in Buckets /\ bucket'[r] = b /\ \A q \in Requests : q # r => bucket'[q] = bucket[q]
  BY <1>2 DEF IInv, Typed
<1>4. pc'[r] = "incr" /\ \A q \in Requests : q # r => pc'[q] = pc[q]
  BY <1>2 DEF IInv, Typed
<1>5. Typed'
  BY <1>2 DEF IInv, Typed, Steps
<1>6. \A q \in Requests : q # r => Key(q)' = Key(q)
  BY <1>2, <1>3 DEF Key, Subject
<1>7. \A q \in Requests : Process(q)' = Process(q)
  BY <1>2 DEF Process
<1>8. InTime'
  <2> SUFFICES ASSUME NEW q \in Requests
               PROVE  /\ bucket'[q] * Window <= now + MaxSkew
                      /\ pc'[q] = "incr" =>
                           now + skew[Process(q)] < bucket'[q] * Window + Window + MaxDelay
    BY <1>2, <1>7 DEF InTime
  <2>1. CASE q # r
    BY <2>1, <1>3, <1>4 DEF IInv, InTime
  <2>2. CASE q = r
    <3>1. b * Window \in Nat /\ now + skew[Process(r)] \in Nat
      BY BucketBounds, KeyTyped, Sizes DEF IInv, Typed
    <3>2. now + skew[Process(r)] < b * Window + Window + MaxDelay
      BY <3>1, <1>1, Sizes
    <3> QED  BY <2>2, <3>2, <1>1, <1>3
  <2> QED  BY <2>1, <2>2
<1>9. Lasting'
  BY <1>2 DEF IInv, Lasting
<1>10. Numbered'
  <2>1. Key(r)' \in Keys /\ counter[Key(r)'].count \in Nat
    BY <1>5, KeyTyped, <1>2 DEF IInv, Typed, Keys, Key, Subject
  <2>2. \A q \in Requests : count[q] <= counter[Key(q)'].count
    BY <2>1, <1>2, <1>6 DEF IInv, Numbered
  <2>3. \A q, p \in Requests : q # p /\ Key(q)' = Key(p)' /\ count[q] > 0 => count[p] # count[q]
    BY <1>2, <1>6 DEF IInv, Numbered
  <2>4. \A q \in Requests : pc'[q] = "expire" => count[q] = 1 /\ counter[Key(q)'].expires = Never
    BY <1>4, <1>6 DEF IInv, Numbered
  <2>5. \A q \in Requests : pc'[q] \in {"idle", "incr"} => count[q] = 0
    BY <1>2, <1>4 DEF IInv, Numbered
  <2> QED  BY <2>2, <2>3, <2>4, <2>5, <1>2 DEF Numbered
<1>11. Decided'
  BY <1>2, <1>4 DEF IInv, Decided
<1>12. Earned'
  <2>1. \A q \in Requests : pc[q] \notin {"idle", "incr"} =>
           pc'[q] \notin {"idle", "incr"} /\ Key(q)' = Key(q)
    BY <1>2, <1>4, <1>6
  <2> QED  BY <2>1, <1>2, EarnedKept DEF Earned
<1>13. ImmortalOnlyByFailure'
  <2> SUFFICES ASSUME NEW k \in Subjects \X Buckets, counter[k].count > 0, counter[k].expires = Never
               PROVE  \E q \in Requests : /\ Key(q)' = k
                                          /\ \/ pc'[q] \in {"expire", "lost"}
                                             \/ pc'[q] \in Answered /\ via'[q] # "redis"
    BY <1>2 DEF ImmortalOnlyByFailure
  <2>1. PICK q \in Requests : /\ Key(q) = k
                              /\ \/ pc[q] \in {"expire", "lost"}
                                 \/ pc[q] \in Answered /\ via[q] # "redis"
    BY DEF IInv, ImmortalOnlyByFailure
  <2>2. q # r
    BY <2>1, <1>2 DEF Answered
  <2> QED  BY <2>1, <2>2, <1>2, <1>4, <1>6
<1> QED  BY <1>5, <1>8, <1>9, <1>10, <1>11, <1>12, <1>13 DEF IInv

(* What the INCR and the EXPIRE, done, failed or half done, have in common:  *)
(* request r leaves its step with answer a of limiter l and the number n,    *)
(* and its key holds c.                                                      *)
LEMMA CounterStep ==
  ASSUME IInv, NEW r \in Requests, NEW a, NEW l, NEW n \in Nat,
         NEW c \in [count : Nat, expires : 0 .. Never],
         pc[r] \in {"incr", "expire"}, a \in {"expire"} \cup Answered,
         l \in {"redis", "memory", "none"},
         pc' = [pc EXCEPT ![r] = a], via' = [via EXCEPT ![r] = l],
         count' = [count EXCEPT ![r] = n], counter' = [counter EXCEPT ![Key(r)] = c],
         UNCHANGED <<now, skew, production, backend, origin, bucket>>,
         counter[Key(r)].count <= c.count, n <= c.count,
         \/ c.count = counter[Key(r)].count
         \/ pc[r] = "incr" /\ c.count = counter[Key(r)].count + 1,
         n = count[r] \/ n = counter[Key(r)].count + 1,
         bucket[r] * Window + Window + MaxDelay <= c.expires,
         c.count = 0 => c.expires = Never,
         a = "expire" => n = 1,
         c.expires = counter[Key(r)].expires \/ (pc[r] = "expire" /\ a # "expire"),
         a = "expire" => c.expires = Never,
         a = "admitted" /\ l = "redis" => n \in 1 .. Limit,
         a = "limited" /\ l = "redis" => n > Limit,
         a = "admitted" /\ production => l = "redis",
         \/ c.count = 0
         \/ c.expires # Never
         \/ a = "expire"
         \/ l # "redis"
         \/ pc[r] = "incr" /\ counter[Key(r)].count > 0 /\ counter[Key(r)].expires = Never
  PROVE  IInv'
<1> DEFINE k == Key(r)
<1>1. /\ k \in Keys /\ k[2] = bucket[r] /\ counter[k].count \in Nat
      /\ \A q \in Requests : count[q] \in Nat
  BY KeyTyped DEF IInv, Typed
<1>2. \A q \in Requests : Key(q)' = Key(q) /\ Process(q)' = Process(q)
  BY DEF Key, Subject, Process
<1>3. /\ pc'[r] = a /\ via'[r] = l /\ count'[r] = n /\ counter'[k] = c
      /\ \A q \in Requests : q # r => pc'[q] = pc[q] /\ via'[q] = via[q] /\ count'[q] = count[q]
      /\ \A j \in Keys : j # k => counter'[j] = counter[j]
  BY <1>1 DEF IInv, Typed
<1> HIDE DEF k
<1>4. Typed'
  <2>1. counter' \in [Keys -> [count : Nat, expires : 0 .. Never]]
    BY <1>1 DEF IInv, Typed
  <2>2. pc' \in [Requests -> Steps] /\ via' \in [Requests -> {"redis", "memory", "none"}]
    BY DEF IInv, Typed, Steps
  <2>3. count' \in [Requests -> Nat]
    BY DEF IInv, Typed
  <2> QED  BY <2>1, <2>2, <2>3 DEF IInv, Typed
<1>5. InTime'
  <2>1. \A q \in Requests : pc'[q] = "incr" => pc[q] = "incr"
    BY <1>3 DEF Answered
  <2> QED  BY <2>1, <1>2 DEF IInv, InTime
<1>6. Lasting'
  BY <1>1, <1>3 DEF IInv, Lasting
<1>7. Numbered'
  <2>1. ASSUME NEW q \in Requests PROVE count'[q] <= counter'[Key(q)].count
    <3>1. CASE Key(q) = k
      <4>1. counter'[k].count \in Nat /\ counter[k].count <= counter'[k].count /\ n <= counter'[k].count
        BY <1>3 DEF k
      <4>2. count[q] <= counter[k].count
        BY <3>1 DEF IInv, Numbered
      <4>3. count'[q] = n \/ count'[q] = count[q]
        BY <1>3
      <4> QED  BY <3>1, <4>1, <4>2, <4>3, <1>1
    <3>2. CASE Key(q) # k
      <4>1. q # r /\ Key(q) \in Keys
        BY <3>2, KeyTyped DEF k, IInv
      <4> QED  BY <3>2, <4>1, <1>3 DEF IInv, Numbered
    <3> QED  BY <3>1, <3>2
  <2>2. ASSUME NEW q \in Requests, pc'[q] \in {"idle", "incr"} PROVE count'[q] = 0
    BY <2>2, <1>3 DEF IInv, Numbered, Answered
  <2>3. ASSUME NEW q \in Requests, NEW p \in Requests, q # p, Key(q) = Key(p), count'[q] > 0
        PROVE  count'[p] # count'[q]
    <3>1. CASE q # r /\ p # r
      BY <2>3, <3>1, <1>3 DEF IInv, Numbered
    <3>2. ASSUME NEW o \in Requests, o # r, Key(o) = k, n > 0 PROVE count[o] # n
      <4>1. CASE n = count[r]
        BY <3>2, <4>1 DEF IInv, Numbered, k
      <4>2. CASE n = counter[k].count + 1
        BY <3>2, <4>2, <1>1 DEF IInv, Numbered
      <4> QED  BY <4>1, <4>2 DEF k
    <3>3. CASE q = r
      BY <2>3, <3>2, <3>3, <1>3 DEF k
    <3>4. CASE p = r
      <4>1. q # r /\ Key(q) = k /\ count'[q] = count[q] /\ count'[p] = n
        BY <2>3, <3>4, <1>3 DEF k
      <4> QED  BY <4>1, <2>3, <3>2
    <3> QED  BY <3>1, <3>3, <3>4
  <2>4. ASSUME NEW q \in Requests, pc'[q] = "expire"
        PROVE  count'[q] = 1 /\ counter'[Key(q)].expires = Never
    <3>1. CASE q = r
      BY <2>4, <3>1, <1>3 DEF k
    <3>2. CASE q # r
      <4>1. pc[q] = "expire" /\ count[q] = 1 /\ counter[Key(q)].expires = Never /\ count'[q] = 1
        BY <2>4, <3>2, <1>3 DEF IInv, Numbered
      <4>2. CASE Key(q) # k
        <5>1. Key(q) \in Keys
          BY KeyTyped DEF IInv
        <5>2. counter'[Key(q)] = counter[Key(q)]
          BY <4>2, <5>1, <1>3
        <5> QED  BY <4>1, <5>2
      <4>3. CASE Key(q) = k
        <5>1. pc[r] # "expire"
          <6> SUFFICES ASSUME pc[r] = "expire" PROVE FALSE
            OBVIOUS
          <6>1. count[r] = 1
            BY DEF IInv, Numbered
          <6> QED  BY <3>2, <4>1, <4>3, <6>1 DEF IInv, Numbered, k
        <5>2. c.expires = counter[k].expires
          BY <5>1 DEF k
        <5> QED  BY <4>1, <4>3, <5>2, <1>3
      <4> QED  BY <4>2, <4>3
    <3> QED  BY <3>1, <3>2
  <2> QED  BY <2>1, <2>2, <2>3, <2>4, <1>2 DEF Numbered
<1>8. Decided'
  <2> SUFFICES ASSUME NEW q \in Requests
               PROVE  /\ pc'[q] = "admitted" /\ via'[q] = "redis" => count'[q] \in 1 .. Limit
                      /\ pc'[q] = "limited" /\ via'[q] = "redis" => count'[q] > Limit
                      /\ pc'[q] = "admitted" /\ production => via'[q] = "redis"
    BY DEF Decided
  <2>1. CASE q = r
    BY <2>1, <1>3
  <2>2. CASE q # r
    BY <2>2, <1>3 DEF IInv, Decided
  <2> QED  BY <2>1, <2>2
<1>9. Earned'
  <2>1. \A q \in Requests : pc[q] \notin {"idle", "incr"} => pc'[q] \notin {"idle", "incr"}
    BY <1>3 DEF Answered
  <2> SUFFICES ASSUME NEW j \in Keys PROVE counter'[j].count <= Cardinality(Past(j)')
    BY DEF Earned
  <2>2. counter[j].count <= Cardinality(Past(j)')
    BY <2>1, <1>2, EarnedKept
  <2>3. CASE j # k \/ c.count = counter[k].count
    BY <2>2, <2>3, <1>3
  <2>4. CASE j = k /\ c.count = counter[k].count + 1 /\ pc[r] = "incr"
    <3>1. counter[k].count + 1 <= Cardinality(Past(Key(r))')
      BY <2>1, <2>4, <1>2, <1>3, EarnedMore DEF Answered, k
    <3>2. counter'[j].count = counter[k].count + 1
      BY <2>4, <1>3
    <3>3. j = Key(r) /\ j = Key(r)'
      BY <2>4, <1>2 DEF k
    <3>4. Past(Key(r))' = Past(j)'
      BY <3>3 DEF Past
    <3> QED  BY <3>1, <3>2, <3>4
  <2> QED  BY <2>3, <2>4 DEF k
<1>10. ImmortalOnlyByFailure'
  <2> SUFFICES ASSUME NEW j \in Keys, counter'[j].count > 0, counter'[j].expires = Never
               PROVE  \E q \in Requests : /\ Key(q) = j
                                          /\ \/ pc'[q] \in {"expire", "lost"}
                                             \/ pc'[q] \in Answered /\ via'[q] # "redis"
    BY <1>2 DEF ImmortalOnlyByFailure, Keys
  <2>1. ASSUME NEW q \in Requests, Key(q) = j, q # r,
               \/ pc[q] \in {"expire", "lost"}
               \/ pc[q] \in Answered /\ via[q] # "redis"
        PROVE  \E p \in Requests : /\ Key(p) = j
                                   /\ \/ pc'[p] \in {"expire", "lost"}
                                      \/ pc'[p] \in Answered /\ via'[p] # "redis"
    BY <2>1, <1>3
  <2>2. CASE j # k
    <3>0. counter[j].count > 0 /\ counter[j].expires = Never
      BY <2>2, <1>3
    <3>1. PICK q \in Requests : /\ Key(q) = j
                                /\ \/ pc[q] \in {"expire", "lost"}
                                   \/ pc[q] \in Answered /\ via[q] # "redis"
      BY <3>0 DEF IInv, ImmortalOnlyByFailure, Keys
    <3> QED  BY <2>1, <2>2, <3>1 DEF k
  <2>3. CASE j = k /\ (a = "expire" \/ l # "redis")
    BY <2>3, <1>3 DEF k
  <2>4. CASE j = k /\ pc[r] = "incr" /\ counter[k].count > 0 /\ counter[k].expires = Never
    <3>1. PICK q \in Requests : /\ Key(q) = j
                                /\ \/ pc[q] \in {"expire", "lost"}
                                   \/ pc[q] \in Answered /\ via[q] # "redis"
      BY <2>4, <1>1 DEF IInv, ImmortalOnlyByFailure, Keys
    <3>2. q # r
      BY <2>4, <3>1 DEF Answered
    <3> QED  BY <2>1, <3>1, <3>2
  <2>5. counter'[j] = c \/ j # k
    BY <1>3
  <2> QED  BY <2>2, <2>3, <2>4, <2>5 DEF k
<1> QED  BY <1>4, <1>5, <1>6, <1>7, <1>8, <1>9, <1>10 DEF IInv

(* What a key holds after the INCR and after the EXPIRE. *)
LEMMA KeyAfter ==
  ASSUME IInv, NEW r \in Requests, pc[r] \in {"incr", "expire"}
  PROVE  /\ Key(r) \in Keys
         /\ counter[Key(r)] \in [count : Nat, expires : 0 .. Never]
         /\ bucket[r] * Window + Window + MaxDelay <= counter[Key(r)].expires
         /\ counter[Key(r)].count = 0 => counter[Key(r)].expires = Never
         /\ count[r] \in Nat /\ count[r] <= counter[Key(r)].count
         /\ now + Lifetime \in 0 .. Never /\ now + Lifetime # Never
         /\ bucket[r] * Window + Window + MaxDelay <= now + Lifetime
<1>1. Key(r) \in Keys /\ Key(r)[2] = bucket[r] /\ bucket[r] \in Buckets
  BY KeyTyped DEF IInv
<1>2. /\ counter[Key(r)] \in [count : Nat, expires : 0 .. Never]
      /\ count[r] \in Nat /\ count[r] <= counter[Key(r)].count
  BY <1>1 DEF IInv, Typed, Numbered
<1>3. /\ bucket[r] * Window + Window + MaxDelay <= counter[Key(r)].expires
      /\ counter[Key(r)].count = 0 => counter[Key(r)].expires = Never
  BY <1>1 DEF IInv, Lasting
<1>4. now \in 0 .. MaxTime /\ now + Lifetime \in 0 .. Never /\ now + Lifetime # Never
  BY Sizes DEF IInv, Typed, Lifetime
<1>5. bucket[r] * Window <= now + MaxSkew /\ bucket[r] * Window \in Nat
  BY <1>1, BucketBounds DEF IInv, InTime
<1>6. bucket[r] * Window + Window + MaxDelay <= now + Lifetime
  BY <1>4, <1>5, Sizes DEF Lifetime
<1> QED  BY <1>1, <1>2, <1>3, <1>4, <1>6

LEMMA IncrStep == ASSUME IInv, NEW r \in Requests, Incr(r) PROVE IInv'
<1> DEFINE k == Key(r)
           c == [counter[k] EXCEPT !.count = @ + 1]
           n == c.count
           a == IF n = 1 THEN "expire" ELSE IF n > Limit THEN "limited" ELSE "admitted"
           l == IF n = 1 THEN via[r] ELSE "redis"
<1>1. /\ pc[r] = "incr" /\ Incremented(k) = c
      /\ UNCHANGED <<now, skew, production, backend, origin, bucket>>
  BY NotExpired DEF Incr, settings
<1>2. /\ counter[k] \in [count : Nat, expires : 0 .. Never]
      /\ bucket[r] * Window + Window + MaxDelay <= counter[k].expires
      /\ counter[k].count = 0 => counter[k].expires = Never
  BY <1>1, KeyAfter
<1>3. /\ c \in [count : Nat, expires : 0 .. Never]
      /\ c.count = counter[k].count + 1 /\ c.expires = counter[k].expires /\ n \in Nat /\ n # 0
  BY <1>2
<1>4. counter' = [counter EXCEPT ![k] = c] /\ count' = [count EXCEPT ![r] = n]
  BY <1>1 DEF Incr
<1>5. pc' = [pc EXCEPT ![r] = a] /\ via' = [via EXCEPT ![r] = l] /\ l \in {"redis", "memory", "none"}
  BY <1>1 DEF Incr, Decide, Answer, IInv, Typed
<1>6. /\ a \in {"expire"} \cup Answered /\ (a = "expire" <=> n = 1)
      /\ a # "expire" => l = "redis"
      /\ a = "limited" => n > Limit
      /\ a = "admitted" => n \in 1 .. Limit
  BY <1>3, Sizes DEF Answered
<1> HIDE DEF a, l, n, c
<1>7. /\ counter[k].count <= c.count /\ n <= c.count /\ c.count # 0 /\ n = counter[k].count + 1
      /\ n = 1 => counter[k].count = 0
      /\ n # 1 => counter[k].count > 0
  BY <1>2, <1>3 DEF n
<1>8. \/ c.expires # Never
      \/ a = "expire"
      \/ pc[r] = "incr" /\ counter[k].count > 0 /\ counter[k].expires = Never
  BY <1>1, <1>3, <1>6, <1>7
<1> QED  BY <1>1, <1>2, <1>3, <1>4, <1>5, <1>6, <1>7, <1>8, CounterStep

LEMMA ExpireStep == ASSUME IInv, NEW r \in Requests, Expire(r) PROVE IInv'
<1> DEFINE k == Key(r)
           c == [counter[k] EXCEPT !.expires = now + Lifetime]
<1>1. /\ pc[r] = "expire" /\ Current(k) = counter[k] /\ counter[k].count # 0 /\ count[r] = 1
      /\ UNCHANGED <<now, skew, production, backend, origin, bucket, count>>
  BY CreatorFindsKey DEF Expire, settings, IInv, Numbered
<1>2. /\ counter[k] \in [count : Nat, expires : 0 .. Never]
      /\ count[r] \in Nat /\ count[r] <= counter[k].count
      /\ now + Lifetime \in 0 .. Never /\ now + Lifetime # Never
      /\ bucket[r] * Window + Window + MaxDelay <= now + Lifetime
  BY <1>1, KeyAfter
<1>3. /\ c \in [count : Nat, expires : 0 .. Never]
      /\ c.count = counter[k].count /\ c.expires = now + Lifetime
  BY <1>2
<1>4. counter' = [counter EXCEPT ![k] = c]
  BY <1>1 DEF Expire
<1>5. pc' = [pc EXCEPT ![r] = "admitted"] /\ via' = [via EXCEPT ![r] = "redis"]
  <2>1. ~(count[r] > Limit)
    BY <1>1, Sizes
  <2> QED  BY <2>1 DEF Expire, Decide, Answer
<1>6. count' = [count EXCEPT ![r] = count[r]] /\ count[r] \in 1 .. Limit
  BY <1>1, Sizes DEF IInv, Typed
<1>7. counter[k].count <= c.count /\ c.count # 0
  BY <1>1, <1>2, <1>3
<1> HIDE DEF c
<1> QED  BY <1>1, <1>2, <1>3, <1>4, <1>5, <1>6, <1>7, CounterStep DEF Answered

LEMMA IncrFailsStep == ASSUME IInv, NEW r \in Requests, IncrFails(r) PROVE IInv'
<1> DEFINE k == Key(r)
<1>1. PICK a \in {"admitted", "limited", "unavailable"}, l \in {"memory", "none"} :
        /\ pc' = [pc EXCEPT ![r] = a] /\ via' = [via EXCEPT ![r] = l]
        /\ production => a = "unavailable"
  BY MemoryAnswers DEF IncrFails, Answer
<1>2. /\ pc[r] = "incr" /\ Incremented(k) = [counter[k] EXCEPT !.count = @ + 1]
      /\ UNCHANGED <<now, skew, production, backend, origin, bucket, count>>
  BY NotExpired DEF IncrFails, settings
<1>3. /\ counter[k] \in [count : Nat, expires : 0 .. Never]
      /\ bucket[r] * Window + Window + MaxDelay <= counter[k].expires
      /\ counter[k].count = 0 => counter[k].expires = Never
      /\ count[r] \in Nat /\ count[r] <= counter[k].count /\ k \in Keys
  BY <1>2, KeyAfter
<1>4. PICK c \in {counter[k], Incremented(k)} : counter' = [counter EXCEPT ![k] = c]
  BY <1>3 DEF IncrFails, IInv, Typed
<1>5. /\ c \in [count : Nat, expires : 0 .. Never] /\ c.expires = counter[k].expires
      /\ c.count = counter[k].count \/ c.count = counter[k].count + 1
      /\ counter[k].count <= c.count /\ count[r] <= c.count
      /\ c.count = 0 => c.expires = Never
  BY <1>2, <1>3
<1>6. count' = [count EXCEPT ![r] = count[r]]
  BY <1>2 DEF IInv, Typed
<1>7. /\ a \in {"expire"} \cup Answered /\ a # "expire" /\ l # "redis"
      /\ l \in {"redis", "memory", "none"} /\ ~(a = "admitted" /\ production)
  BY <1>1 DEF Answered
<1> QED  BY <1>1, <1>2, <1>3, <1>4, <1>5, <1>6, <1>7, CounterStep

LEMMA ExpireFailsStep == ASSUME IInv, NEW r \in Requests, ExpireFails(r) PROVE IInv'
<1> DEFINE k == Key(r)
           e == [counter[k] EXCEPT !.expires = now + Lifetime]
<1>1. PICK a \in {"admitted", "limited", "unavailable"}, l \in {"memory", "none"} :
        /\ pc' = [pc EXCEPT ![r] = a] /\ via' = [via EXCEPT ![r] = l]
        /\ production => a = "unavailable"
  BY MemoryAnswers DEF ExpireFails, Answer
<1>2. /\ pc[r] = "expire" /\ counter[k].count \in Nat \ {0}
      /\ UNCHANGED <<now, skew, production, backend, origin, bucket, count>>
  BY CreatorFindsKey DEF ExpireFails, settings
<1>3. /\ counter[k] \in [count : Nat, expires : 0 .. Never]
      /\ bucket[r] * Window + Window + MaxDelay <= counter[k].expires
      /\ count[r] \in Nat /\ count[r] <= counter[k].count /\ k \in Keys
      /\ now + Lifetime \in 0 .. Never
      /\ bucket[r] * Window + Window + MaxDelay <= now + Lifetime
  BY <1>2, KeyAfter
<1>4. PICK c \in {counter[k], e} : counter' = [counter EXCEPT ![k] = c]
  BY <1>3 DEF ExpireFails, IInv, Typed
<1>5. /\ c \in [count : Nat, expires : 0 .. Never]
      /\ c.count = counter[k].count /\ counter[k].count <= c.count /\ c.count # 0
      /\ bucket[r] * Window + Window + MaxDelay <= c.expires
  BY <1>2, <1>3
<1>6. count' = [count EXCEPT ![r] = count[r]]
  BY <1>2 DEF IInv, Typed
<1>7. /\ a \in {"expire"} \cup Answered /\ a # "expire" /\ l # "redis"
      /\ l \in {"redis", "memory", "none"} /\ ~(a = "admitted" /\ production)
  BY <1>1 DEF Answered
<1> QED  BY <1>1, <1>2, <1>3, <1>4, <1>5, <1>6, <1>7, CounterStep

LEMMA CrashStep == ASSUME IInv, NEW p \in Processes, Crash(p) PROVE IInv'
<1>1. /\ UNCHANGED <<now, skew, production, backend, counter, origin, bucket, count, via>>
      /\ pc' = [r \in Requests |-> IF Process(r) = p /\ pc[r] \in {"incr", "expire"}
                                     THEN "lost" ELSE pc[r]]
  BY DEF Crash, settings
<1>2. /\ \A r \in Requests : Key(r)' = Key(r) /\ Process(r)' = Process(r)
      /\ \A r \in Requests : pc'[r] = pc[r] \/ (pc[r] \in {"incr", "expire"} /\ pc'[r] = "lost")
  BY <1>1 DEF Key, Subject, Process
<1>3. Typed'
  BY <1>1 DEF IInv, Typed, Steps
<1>4. InTime' /\ Lasting'
  BY <1>1, <1>2 DEF IInv, InTime, Lasting
<1>5. Numbered'
  BY <1>1, <1>2 DEF IInv, Numbered
<1>6. Decided'
  BY <1>1, <1>2 DEF IInv, Decided
<1>7. Earned'
  BY <1>1, <1>2, EarnedKept DEF Earned
<1>8. ImmortalOnlyByFailure'
  <2> SUFFICES ASSUME NEW k \in Subjects \X Buckets, counter[k].count > 0, counter[k].expires = Never
               PROVE  \E q \in Requests : /\ Key(q) = k
                                          /\ \/ pc'[q] \in {"expire", "lost"}
                                             \/ pc'[q] \in Answered /\ via[q] # "redis"
    BY <1>1, <1>2 DEF ImmortalOnlyByFailure
  <2>1. PICK q \in Requests : /\ Key(q) = k
                              /\ \/ pc[q] \in {"expire", "lost"}
                                 \/ pc[q] \in Answered /\ via[q] # "redis"
    BY DEF IInv, ImmortalOnlyByFailure
  <2>2. \/ pc'[q] \in {"expire", "lost"}
        \/ pc'[q] \in Answered /\ via[q] # "redis"
    BY <2>1, <1>2
  <2> QED  BY <2>1, <2>2
<1> QED  BY <1>3, <1>4, <1>5, <1>6, <1>7, <1>8 DEF IInv

(* The clock stops for an INCR that would come too late. *)
LEMMA TickStep == ASSUME IInv, Tick PROVE IInv'
<1>1. /\ UNCHANGED <<skew, production, backend, counter, pc, origin, bucket, count, via>>
      /\ now' = now + 1 /\ now < MaxTime
  BY DEF Tick, settings
<1>2. \A r \in Requests : Key(r)' = Key(r) /\ Process(r)' = Process(r)
  BY <1>1 DEF Key, Subject, Process
<1>3. Typed'
  BY <1>1, Sizes DEF IInv, Typed
<1>4. InTime'
  <2> SUFFICES ASSUME NEW r \in Requests
               PROVE  /\ bucket[r] * Window <= now + 1 + MaxSkew
                      /\ pc[r] = "incr" =>
                           now + 1 + skew[Process(r)] < bucket[r] * Window + Window + MaxDelay
    BY <1>1, <1>2 DEF InTime
  <2>1. PICK b \in Nat : b = bucket[r]
    BY KeyTyped, BucketBounds DEF IInv
  <2>2. PICK z \in Nat : z = b * Window
    BY Sizes
  <2>3. z <= now + 1 + MaxSkew
    BY <2>1, <2>2, Sizes DEF IInv, InTime, Typed
  <2>4. (b + 1) * Window = z + Window
    BY <2>2, Sizes
  <2>5. pc[r] = "incr" => now + 1 + skew[Process(r)] < z + Window + MaxDelay
    BY <2>1, <2>4 DEF Tick
  <2> QED  BY <2>1, <2>2, <2>3, <2>5
<1>5. Lasting'
  BY <1>1 DEF IInv, Lasting
<1>6. Numbered' /\ Decided'
  BY <1>1, <1>2 DEF IInv, Numbered, Decided
<1>7. Earned'
  BY <1>1, <1>2, EarnedKept DEF Earned
<1>8. ImmortalOnlyByFailure'
  BY <1>1, <1>2 DEF IInv, ImmortalOnlyByFailure
<1> QED  BY <1>3, <1>4, <1>5, <1>6, <1>7, <1>8 DEF IInv

LEMMA NextIInv == IInv /\ [Next]_rvars => IInv'
<1> SUFFICES ASSUME IInv, [Next]_rvars PROVE IInv'
  OBVIOUS
<1>1. ASSUME NEW r \in Requests, ArriveMemory(r) PROVE IInv'
  BY <1>1, ArriveMemoryStep
<1>2. ASSUME NEW r \in Requests, ArriveRedis(r) PROVE IInv'
  BY <1>2, ArriveRedisStep
<1>3. ASSUME NEW r \in Requests, Incr(r) PROVE IInv'
  BY <1>3, IncrStep
<1>4. ASSUME NEW r \in Requests, Expire(r) PROVE IInv'
  BY <1>4, ExpireStep
<1>5. ASSUME NEW r \in Requests, IncrFails(r) PROVE IInv'
  BY <1>5, IncrFailsStep
<1>6. ASSUME NEW r \in Requests, ExpireFails(r) PROVE IInv'
  BY <1>6, ExpireFailsStep
<1>7. ASSUME NEW p \in Processes, Crash(p) PROVE IInv'
  BY <1>7, CrashStep
<1>8. CASE Tick
  BY <1>8, TickStep
<1>9. CASE UNCHANGED rvars
  <2>1. UNCHANGED <<now, skew, production, backend, counter, pc, origin, bucket, count, via>>
    BY <1>9 DEF rvars, settings
  <2>2. \A r \in Requests : Key(r)' = Key(r) /\ Process(r)' = Process(r)
    BY <2>1 DEF Key, Subject, Process
  <2>3. Typed' /\ InTime' /\ Lasting'
    BY <2>1, <2>2 DEF IInv, Typed, InTime, Lasting
  <2>4. Numbered' /\ Decided' /\ ImmortalOnlyByFailure'
    BY <2>1, <2>2 DEF IInv, Numbered, Decided, ImmortalOnlyByFailure
  <2>5. Earned'
    BY <2>1, <2>2, EarnedKept DEF Earned
  <2> QED  BY <2>3, <2>4, <2>5 DEF IInv
<1> QED  BY <1>1, <1>2, <1>3, <1>4, <1>5, <1>6, <1>7, <1>8, <1>9 DEF Next, Over

(* The inductive invariant holds of every reachable state of the limiter. *)
THEOREM Invariance == Spec => []IInv
BY InitIInv, NextIInv, PTL DEF Spec

-----------------------------------------------------------------------------
LEMMA QuotaKept == IInv => QuotaPerWindow
<1> SUFFICES ASSUME IInv, NEW s \in Subjects, NEW b \in Buckets
             PROVE  Cardinality({r \in Admitted("redis") : Key(r) = <<s, b>>}) <= Limit
  BY DEF QuotaPerWindow
<1> DEFINE A == {r \in Admitted("redis") : Key(r) = <<s, b>>}
           f == [r \in A |-> count[r]]
<1>1. A \subseteq Requests /\ \A r \in A : f[r] \in 1 .. Limit
  BY DEF Admitted, IInv, Decided
<1>2. \A r, q \in A : r # q => f[r] # f[q]
  <2> SUFFICES ASSUME NEW r \in A, NEW q \in A, r # q PROVE count[r] # count[q]
    OBVIOUS
  <2>1. count[r] > 0 /\ r \in Requests /\ q \in Requests /\ Key(r) = Key(q)
    BY <1>1
  <2> QED  BY <2>1 DEF IInv, Numbered
<1>3. f \in Injection(A, 1 .. Limit)
  <2> HIDE DEF A
  <2> QED  BY <1>1, <1>2 DEF Injection, IsInjective
<1> HIDE DEF A, f
<1>4. IsFiniteSet(1 .. Limit) /\ Cardinality(1 .. Limit) = Limit
  BY FS_Interval, Sizes
<1> QED  BY <1>3, <1>4, FS_Injection DEF A

LEMMA LimitsAreEarned == IInv => LimitedIsEarned
<1> SUFFICES ASSUME IInv, NEW r \in Requests, pc[r] = "limited", via[r] = "redis"
             PROVE  Cardinality({q \in Requests \ {r} : Key(q) = Key(r) /\ pc[q] # "idle"}) >= Limit
  BY DEF LimitedIsEarned
<1> DEFINE others == {q \in Requests \ {r} : Key(q) = Key(r) /\ pc[q] # "idle"}
           past == Past(Key(r))
<1>1. /\ others \subseteq Requests /\ past \subseteq Requests
      /\ r \in past /\ past \ {r} \subseteq others
  BY DEF Past
<1>2. Limit < Cardinality(past)
  <2>1. count[r] > Limit /\ count[r] <= counter[Key(r)].count /\ Key(r) \in Keys
    BY KeyTyped DEF IInv, Decided, Numbered
  <2>2. /\ counter[Key(r)].count <= Cardinality(past)
        /\ count[r] \in Nat /\ counter[Key(r)].count \in Nat
    BY <2>1 DEF IInv, Earned, Typed
  <2>3. Cardinality(past) \in Nat
    BY <1>1, RequestsAssumption, FS_Subset, FS_CardinalityType
  <2> QED  BY <2>1, <2>2, <2>3, Sizes
<1> HIDE DEF others, past
<1>3. IsFiniteSet(others) /\ IsFiniteSet(past)
  BY <1>1, RequestsAssumption, FS_Subset
<1>4. Cardinality(past \ {r}) = Cardinality(past) - 1 /\ IsFiniteSet(past \ {r})
  BY <1>1, <1>3, FS_RemoveElement
<1>5. Cardinality(past \ {r}) <= Cardinality(others)
  BY <1>1, <1>3, FS_Subset
<1>6. Cardinality(past) \in Nat /\ Cardinality(others) \in Nat
  BY <1>3, FS_CardinalityType
<1> QED  BY <1>2, <1>4, <1>5, <1>6, Sizes DEF others

(* Whatever the processes, their clocks within the slack, their crashes and  *)
(* the failures of Redis, a subject is admitted at most Limit times by Redis *)
(* in one window (enforce_rate_limit).                                       *)
THEOREM QuotaHolds == Spec => []QuotaPerWindow
BY Invariance, QuotaKept, PTL

(* A 429 of Redis is preceded by Limit other requests of the same subject    *)
(* and window.                                                               *)
THEOREM LimitsAreDeserved == Spec => []LimitedIsEarned
BY Invariance, LimitsAreEarned, PTL

(* In production nobody is admitted whom Redis has not counted within the    *)
(* limit (the RedisError branch of enforce_rate_limit).                      *)
THEOREM ProductionFailsClosed == Spec => []FailsClosed
<1>1. IInv => FailsClosed
  BY DEF IInv, Decided, FailsClosed
<1> QED  BY <1>1, Invariance, PTL

(* A counter without an expiry is owed by a failure, never left behind by    *)
(* requests that were answered by Redis.                                     *)
THEOREM ImmortalKeysAreOwed == Spec => []ImmortalOnlyByFailure
<1>1. IInv => ImmortalOnlyByFailure
  BY DEF IInv
<1> QED  BY <1>1, Invariance, PTL

-----------------------------------------------------------------------------
(* The memory of a process.  A deque lists when the requests were admitted   *)
(* that it stands for, oldest first; of those it still counts none is        *)
(* missing, until the process crashes.                                       *)
Served(p, s) == {r \in Admitted("memory") : origin[r] = [process |-> p, subject |-> s]}
Counting(p, s) == {r \in Served(p, s) : at[r] > now - Window}

Ascending(d) == \A i, j \in 1 .. Len(d) : i < j => d[i] <= d[j]

Lists(d, p, s, g) ==
  /\ g \in Injection(1 .. Len(d), Served(p, s))
  /\ \A i \in 1 .. Len(d) : at[g[i]] = d[i]
  /\ p \notin crashed => \A r \in Counting(p, s) : \E i \in 1 .. Len(d) : g[i] = r

Remembers(p, s) ==
  /\ recent[p][s] \in Seq(0 .. MaxTime) /\ Len(recent[p][s]) <= Limit
  /\ Ascending(recent[p][s])
  /\ \A i \in 1 .. Len(recent[p][s]) : recent[p][s][i] <= now
  /\ \E g : Lists(recent[p][s], p, s, g)

Remembered == \A p \in Processes : \A s \in Subjects : Remembers(p, s)

MemoryTyped ==
  /\ backend \in IF production THEN Backends \ {"memory"} ELSE Backends
  /\ recent \in [Processes -> [Subjects -> Seq(0 .. MaxTime)]]
  /\ at \in [Requests -> 0 .. MaxTime]
  /\ crashed \subseteq Processes
  /\ \A r \in Admitted("memory") : at[r] <= now

MInv == MemoryTyped /\ Remembered /\ MemoryQuota

-----------------------------------------------------------------------------
(* The loop stops at the first entry that is young enough. *)
LEMMA StaleIsPrefix ==
  ASSUME NEW d \in Seq(Nat), now \in Nat
  PROVE  /\ Stale(d) \in 0 .. Len(d)
         /\ \A i \in 1 .. Stale(d) : d[i] <= now - Window
         /\ Stale(d) < Len(d) => d[Stale(d) + 1] > now - Window
<1> DEFINE S == {n \in 1 .. Len(d) : \A i \in 1 .. n : d[i] <= now - Window}
           c == Cardinality(S)
<1>1. S \subseteq 1 .. Len(d) /\ Len(d) \in Nat /\ Window \in Nat
  BY Sizes
<1>2. IsFiniteSet(1 .. Len(d)) /\ Cardinality(1 .. Len(d)) = Len(d)
  BY <1>1, FS_Interval
<1>3. IsFiniteSet(S) /\ c \in 0 .. Len(d)
  <2> HIDE DEF S
  <2>1. IsFiniteSet(S) /\ c <= Len(d)
    BY <1>1, <1>2, FS_Subset
  <2>2. c \in Nat
    BY <2>1, FS_CardinalityType
  <2> QED  BY <1>1, <2>1, <2>2
<1>4. ASSUME NEW m \in S PROVE 1 .. m \subseteq S /\ m <= c
  <2>1. m \in 1 .. Len(d) /\ 1 .. m \subseteq S
    OBVIOUS
  <2> HIDE DEF S
  <2>2. Cardinality(1 .. m) = m
    BY <1>1, <2>1, FS_Interval
  <2>3. Cardinality(1 .. m) <= c
    BY <1>3, <2>1, FS_Subset
  <2> QED  BY <2>1, <2>2, <2>3
<1>5. S = 1 .. c
  <2>1. S \subseteq 1 .. c /\ c \in Nat
    BY <1>1, <1>3, <1>4
  <2> HIDE DEF S
  <2>2. IsFiniteSet(1 .. c) /\ Cardinality(1 .. c) = c
    BY <2>1, FS_Interval
  <2> QED  BY <2>1, <2>2, FS_Subset
<1>6. Stale(d) = c
  BY DEF Stale
<1>7. \A i \in 1 .. c : d[i] <= now - Window
  <2>1. ASSUME NEW i \in 1 .. c PROVE d[i] <= now - Window
    <3>1. i \in S /\ i \in 1 .. i
      BY <1>1, <1>5
    <3> QED  BY <3>1
  <2> QED  BY <2>1
<1>8. ASSUME c < Len(d) PROVE d[c + 1] > now - Window
  <2>1. c + 1 \in 1 .. Len(d) /\ c + 1 \notin 1 .. c /\ d[c + 1] \in Nat
    BY <1>1, <1>3, <1>8
  <2>2. c + 1 \notin S
    BY <1>5, <2>1
  <2>3. PICK i \in 1 .. c + 1 : ~(d[i] <= now - Window)
    BY <2>1, <2>2
  <2>4. i = c + 1
    BY <1>3, <1>7, <2>3
  <2> QED  BY <1>1, <2>1, <2>3, <2>4
<1> QED  BY <1>3, <1>6, <1>7, <1>8

(* What is left of a deque in order: the entries within the window. *)
LEMMA FreshIsRest ==
  ASSUME NEW d \in Seq(0 .. MaxTime), Ascending(d), now \in Nat
  PROVE  /\ Stale(d) \in 0 .. Len(d)
         /\ Fresh(d) \in Seq(0 .. MaxTime) /\ Len(Fresh(d)) = Len(d) - Stale(d)
         /\ Len(Fresh(d)) \in Nat
         /\ \A i \in 1 .. Len(Fresh(d)) : /\ i + Stale(d) \in 1 .. Len(d)
                                          /\ Fresh(d)[i] = d[i + Stale(d)]
                                          /\ Fresh(d)[i] > now - Window
         /\ \A i \in 1 .. Stale(d) : d[i] <= now - Window
<1>1. d \in Seq(Nat) /\ Len(d) \in Nat /\ \A i \in 1 .. Len(d) : d[i] \in Nat
  BY Sizes
<1>2. /\ Stale(d) \in 0 .. Len(d)
      /\ \A i \in 1 .. Stale(d) : d[i] <= now - Window
      /\ Stale(d) < Len(d) => d[Stale(d) + 1] > now - Window
  BY <1>1, StaleIsPrefix
<1>3. PICK n \in 0 .. Len(d) : n = Stale(d)
  BY <1>2
<1>4. /\ Fresh(d) \in Seq(0 .. MaxTime) /\ Len(Fresh(d)) = Len(d) - n
      /\ \A i \in 1 .. Len(d) - n : Fresh(d)[i] = d[i + n]
  <2>1. \A i \in n + 1 .. Len(d) : d[i] \in 0 .. MaxTime
    <3>1. \A i \in 1 .. Len(d) : d[i] \in 0 .. MaxTime
      BY ElementOfSeq
    <3>2. \A i \in n + 1 .. Len(d) : i \in 1 .. Len(d)
      BY <1>1, <1>3
    <3> QED  BY <3>1, <3>2
  <2>2. n + 1 \in Int /\ Len(d) \in Int
    BY <1>1, <1>3
  <2>3. /\ SubSeq(d, n + 1, Len(d)) \in Seq(0 .. MaxTime)
        /\ Len(SubSeq(d, n + 1, Len(d))) =
             IF n + 1 <= Len(d) THEN Len(d) - (n + 1) + 1 ELSE 0
        /\ \A i \in 1 .. Len(d) - (n + 1) + 1 : SubSeq(d, n + 1, Len(d))[i] = d[n + 1 + i - 1]
    BY <2>1, <2>2, SubSeqProperties
  <2>4. Fresh(d) = SubSeq(d, n + 1, Len(d))
    BY <1>3 DEF Fresh
  <2>5. Len(d) - (n + 1) + 1 = Len(d) - n
    BY <1>1, <1>3
  <2>6. (IF n + 1 <= Len(d) THEN Len(d) - (n + 1) + 1 ELSE 0) = Len(d) - n
    BY <1>1, <1>3
  <2>7. ASSUME NEW i \in 1 .. Len(d) - n PROVE Fresh(d)[i] = d[i + n]
    <3>1. i \in 1 .. Len(d) - (n + 1) + 1
      BY <2>5
    <3>2. SubSeq(d, n + 1, Len(d))[i] = d[n + 1 + i - 1]
      BY <2>3, <3>1
    <3>3. n + 1 + i - 1 = i + n
      BY <1>1, <1>3
    <3> QED  BY <2>4, <3>2, <3>3
  <2> QED  BY <2>3, <2>4, <2>6, <2>7
<1>5. ASSUME NEW i \in 1 .. Len(d) - n
      PROVE  i + n \in 1 .. Len(d) /\ d[i + n] > now - Window
  <2>1. i + n \in 1 .. Len(d) /\ n + 1 \in 1 .. Len(d) /\ n < Len(d) /\ n + 1 <= i + n
    BY <1>1, <1>3
  <2>2. d[n + 1] <= d[i + n]
    BY <1>1, <2>1 DEF Ascending
  <2>3. d[n + 1] > now - Window /\ d[n + 1] \in Nat /\ d[i + n] \in Nat /\ Window \in Nat
    BY <1>1, <1>2, <1>3, <2>1, Sizes
  <2> QED  BY <2>1, <2>2, <2>3
<1> QED  BY <1>1, <1>2, <1>3, <1>4, <1>5

LEMMA Trimmed ==
  ASSUME IInv, NEW p \in Processes, NEW s \in Subjects, Remembers(p, s)
  PROVE  \E h : Lists(Fresh(recent[p][s]), p, s, h)
<1> DEFINE d == recent[p][s]
           f == Fresh(d)
           n == Stale(d)
<1>1. PICK g : Lists(d, p, s, g)
  BY DEF Remembers
<1>2. now \in Nat /\ d \in Seq(0 .. MaxTime) /\ Ascending(d) /\ Len(d) \in Nat
  BY Sizes DEF IInv, Typed, Remembers
<1>3. /\ n \in 0 .. Len(d) /\ Len(f) = Len(d) - n /\ Len(f) \in Nat
      /\ \A i \in 1 .. Len(f) : /\ i + n \in 1 .. Len(d)
                                /\ f[i] = d[i + n]
                                /\ f[i] > now - Window
      /\ \A i \in 1 .. n : d[i] <= now - Window
  BY <1>2, FreshIsRest
<1>4. \A i \in 1 .. Len(d) : d[i] \in Nat
  <2>1. \A i \in 1 .. Len(d) : d[i] \in 0 .. MaxTime
    BY <1>2, ElementOfSeq
  <2> QED  BY <2>1, Sizes
<1> HIDE DEF d, f, n
<1> DEFINE h == [i \in 1 .. Len(f) |-> g[i + n]]
<1>5. h \in Injection(1 .. Len(f), Served(p, s))
  <2>1. g \in [1 .. Len(d) -> Served(p, s)] /\ \A i, j \in 1 .. Len(d) : g[i] = g[j] => i = j
    BY <1>1 DEF Lists, Injection, IsInjective
  <2>2. h \in [1 .. Len(f) -> Served(p, s)]
    BY <1>3, <2>1
  <2>3. ASSUME NEW i \in 1 .. Len(f), NEW j \in 1 .. Len(f), h[i] = h[j] PROVE i = j
    <3>1. g[i + n] = g[j + n] /\ i + n \in 1 .. Len(d) /\ j + n \in 1 .. Len(d)
      BY <1>3, <2>3
    <3>2. i + n = j + n
      BY <2>1, <3>1
    <3> QED  BY <1>3, <3>2
  <2> HIDE DEF h
  <2> QED  BY <2>2, <2>3 DEF Injection, IsInjective
<1>6. \A i \in 1 .. Len(f) : at[h[i]] = f[i]
  BY <1>1, <1>3 DEF Lists
<1>7. ASSUME p \notin crashed, NEW r \in Counting(p, s) PROVE \E i \in 1 .. Len(f) : h[i] = r
  <2>1. PICK i \in 1 .. Len(d) : g[i] = r /\ at[r] = d[i]
    BY <1>1, <1>7 DEF Lists
  <2>2. d[i] > now - Window /\ d[i] \in Nat /\ Window \in Nat
    BY <1>4, <2>1, Sizes DEF Counting
  <2>3. i \notin 1 .. n
    BY <1>2, <1>3, <2>2
  <2>4. i - n \in 1 .. Len(f) /\ (i - n) + n = i
    BY <1>2, <1>3, <2>3
  <2>5. h[i - n] = r
    BY <2>1, <2>4
  <2> QED  BY <2>4, <2>5
<1> HIDE DEF h
<1> QED  BY <1>5, <1>6, <1>7 DEF Lists, f, d

(* What is left of a deque is as long as the requests it counts are many. *)
LEMMA Room ==
  ASSUME IInv, NEW p \in Processes, NEW s \in Subjects, Remembers(p, s)
  PROVE  /\ IsFiniteSet(Counting(p, s)) /\ Cardinality(Counting(p, s)) \in Nat
         /\ Len(Fresh(recent[p][s])) \in Nat
         /\ Len(Fresh(recent[p][s])) <= Cardinality(Counting(p, s))
         /\ p \notin crashed => Cardinality(Counting(p, s)) <= Len(Fresh(recent[p][s]))
<1> DEFINE f == Fresh(recent[p][s])
           C == Counting(p, s)
<1>1. PICK h : Lists(f, p, s, h)
  BY Trimmed
<1>2. Len(f) \in Nat /\ \A i \in 1 .. Len(f) : f[i] > now - Window
  <2>1. now \in Nat /\ recent[p][s] \in Seq(0 .. MaxTime) /\ Ascending(recent[p][s])
    BY Sizes DEF IInv, Typed, Remembers
  <2> QED  BY <2>1, FreshIsRest
<1>3. IsFiniteSet(C) /\ Cardinality(C) \in Nat
  BY RequestsAssumption, FS_Subset, FS_CardinalityType DEF Counting, Served, Admitted
<1> HIDE DEF f
<1>4. IsFiniteSet(1 .. Len(f)) /\ Cardinality(1 .. Len(f)) = Len(f)
  BY <1>2, FS_Interval
<1>5. h \in Injection(1 .. Len(f), C)
  <2>1. h \in [1 .. Len(f) -> Served(p, s)] /\ IsInjective(h)
    BY <1>1 DEF Lists, Injection
  <2>2. \A i \in 1 .. Len(f) : h[i] \in C
    BY <1>1, <1>2, <2>1 DEF Lists, Counting
  <2> HIDE DEF C
  <2> QED  BY <2>1, <2>2 DEF Injection
<1>6. ASSUME p \notin crashed PROVE Cardinality(C) <= Len(f)
  <2>1. h \in [1 .. Len(f) -> C] /\ \A r \in C : \E i \in 1 .. Len(f) : h[i] = r
    BY <1>1, <1>5, <1>6 DEF Lists, Injection
  <2> HIDE DEF C
  <2>2. h \in Surjection(1 .. Len(f), C)
    BY <2>1 DEF Surjection
  <2> QED  BY <1>4, <2>2, FS_Surjection
<1> HIDE DEF C
<1>7. Len(f) <= Cardinality(C)
  BY <1>3, <1>4, <1>5, FS_Injection
<1> QED  BY <1>2, <1>3, <1>6, <1>7 DEF f, C

LEMMA RemembersKept ==
  ASSUME IInv, NEW p \in Processes, NEW s \in Subjects, Remembers(p, s),
         recent'[p][s] = recent[p][s], Served(p, s)' = Served(p, s),
         \A q \in Served(p, s) : at'[q] = at[q] /\ at[q] \in Nat,
         crashed \subseteq crashed', now' \in Nat, now <= now'
  PROVE  Remembers(p, s)'
<1> DEFINE d == recent[p][s]
<1>1. PICK g : Lists(d, p, s, g)
  BY DEF Remembers
<1>2. now \in Nat /\ Window \in Nat
  BY Sizes DEF IInv, Typed
<1>3. Counting(p, s)' \subseteq Counting(p, s)
  <2> SUFFICES ASSUME NEW r \in Counting(p, s)' PROVE r \in Counting(p, s)
    OBVIOUS
  <2>1. r \in Served(p, s) /\ at'[r] = at[r] /\ at[r] \in Nat /\ at'[r] > now' - Window
    BY DEF Counting
  <2> QED  BY <1>2, <2>1 DEF Counting
<1>4. Lists(d, p, s, g)'
  <2>1. g \in Injection(1 .. Len(d), Served(p, s))
    BY <1>1 DEF Lists
  <2>2. \A i \in 1 .. Len(d) : g[i] \in Served(p, s) /\ at[g[i]] = d[i]
    BY <1>1, <2>1 DEF Lists, Injection
  <2>3. p \notin crashed' => \A r \in Counting(p, s)' : \E i \in 1 .. Len(d) : g[i] = r
    BY <1>1, <1>3 DEF Lists
  <2> QED  BY <2>1, <2>2, <2>3 DEF Lists
<1>5. \A i \in 1 .. Len(d) : d[i] <= now'
  <2>1. \A i \in 1 .. Len(d) : d[i] \in 0 .. MaxTime /\ d[i] <= now
    BY ElementOfSeq DEF Remembers
  <2> QED  BY <1>2, <2>1, Sizes
<1> QED  BY <1>4, <1>5 DEF Remembers

(* The requests that MemoryQuota counts. *)
Span(p, s, t) == {r \in Served(p, s) : at[r] \in t .. (t + Window - 1)}

LEMMA QuotaOfSpans ==
  MemoryQuota <=> \A p \in Processes \ crashed : \A s \in Subjects : \A t \in 0 .. MaxTime :
                    Cardinality(Span(p, s, t)) <= Limit
<1>1. \A p, s, t : Span(p, s, t) =
        {r \in Admitted("memory") :
           origin[r] = [process |-> p, subject |-> s] /\ at[r] \in t .. (t + Window - 1)}
  BY DEF Span, Served
<1> QED  BY <1>1 DEF MemoryQuota

(* A step that no memory has a part in. *)
LEMMA MemoryKept ==
  ASSUME IInv, MInv, UNCHANGED <<production, backend, recent, origin, at, crashed>>,
         Admitted("memory")' = Admitted("memory"), now' \in Nat, now <= now'
  PROVE  MInv'
<1>1. now \in Nat /\ \A r \in Requests : at[r] \in Nat
  BY Sizes DEF IInv, Typed, MInv, MemoryTyped
<1>2. \A p \in Processes : \A s \in Subjects : Served(p, s)' = Served(p, s)
  BY DEF Served
<1>3. Remembered'
  <2> SUFFICES ASSUME NEW p \in Processes, NEW s \in Subjects PROVE Remembers(p, s)'
    BY DEF Remembered
  <2>1. \A q \in Served(p, s) : at'[q] = at[q] /\ at[q] \in Nat
    BY <1>1 DEF Served, Admitted
  <2> QED  BY <1>2, <2>1, RemembersKept DEF MInv, Remembered
<1>4. MemoryQuota'
  BY DEF MInv, MemoryQuota
<1>5. MemoryTyped'
  <2>1. \A r \in Admitted("memory") : at[r] <= now'
    <3>1. \A r \in Admitted("memory") : at[r] <= now /\ at[r] \in Nat
      BY <1>1 DEF MInv, MemoryTyped, Admitted
    <3> QED  BY <1>1, <3>1
  <2> QED  BY <2>1 DEF MInv, MemoryTyped
<1> QED  BY <1>3, <1>4, <1>5 DEF MInv

(* A request answered by the memory of its process. *)
LEMMA MemoryStep ==
  ASSUME IInv, MInv, NEW r \in Requests, pc[r] \in {"idle", "incr", "expire"}, MemoryLimit(r),
         UNCHANGED <<now, production, backend, origin, crashed>>
  PROVE  MInv'
<1>0. PICK p \in Processes, s \in Subjects :
        p = Process(r) /\ s = Subject(r) /\ origin[r] = [process |-> p, subject |-> s]
  BY DEF IInv, Typed, Process, Subject
<1>1. PICK f : f = Fresh(recent[p][s]) /\ now \in 0 .. MaxTime /\ now \in Nat
  BY Sizes DEF IInv, Typed
<1>2. \A q \in Requests : at[q] \in 0 .. MaxTime /\ at[q] \in Nat
  BY Sizes DEF MInv, MemoryTyped
<1>3. /\ Remembers(p, s) /\ recent[p][s] \in Seq(0 .. MaxTime) /\ Ascending(recent[p][s])
      /\ recent \in [Processes -> [Subjects -> Seq(0 .. MaxTime)]]
      /\ \A i \in 1 .. Len(recent[p][s]) : recent[p][s][i] <= now
      /\ Len(recent[p][s]) <= Limit
  BY <1>1 DEF MInv, MemoryTyped, Remembered, Remembers
<1>4. PICK h : Lists(f, p, s, h)
  BY <1>1, <1>3, Trimmed
<1>5. /\ f \in Seq(0 .. MaxTime) /\ Len(f) \in Nat /\ Len(f) <= Len(recent[p][s])
      /\ \A i \in 1 .. Len(f) : f[i] \in 0 .. MaxTime /\ f[i] <= now
      /\ Ascending(f)
  <2>1. /\ Stale(recent[p][s]) \in 0 .. Len(recent[p][s]) /\ f \in Seq(0 .. MaxTime)
        /\ Len(f) = Len(recent[p][s]) - Stale(recent[p][s]) /\ Len(f) \in Nat
        /\ \A i \in 1 .. Len(f) : /\ i + Stale(recent[p][s]) \in 1 .. Len(recent[p][s])
                                  /\ f[i] = recent[p][s][i + Stale(recent[p][s])]
    BY <1>1, <1>3, FreshIsRest
  <2>2. \A i \in 1 .. Len(f) : f[i] \in 0 .. MaxTime /\ f[i] <= now
    BY <1>3, <2>1, ElementOfSeq
  <2>3. Ascending(f)
    <3> SUFFICES ASSUME NEW i \in 1 .. Len(f), NEW j \in 1 .. Len(f), i < j PROVE f[i] <= f[j]
      BY DEF Ascending
    <3>1. i + Stale(recent[p][s]) < j + Stale(recent[p][s])
      BY <2>1
    <3> QED  BY <1>3, <2>1, <3>1 DEF Ascending
  <2>4. Len(f) <= Len(recent[p][s])
    BY <1>3, <2>1
  <2> QED  BY <2>1, <2>2, <2>3, <2>4
<1>6. \E a \in {"admitted", "limited"} :
        /\ pc' = [pc EXCEPT ![r] = a] /\ via' = [via EXCEPT ![r] = "memory"]
        /\ a = "limited" =>
             /\ Len(f) >= Limit /\ at' = at
             /\ recent' = [recent EXCEPT ![p][s] = f]
        /\ a = "admitted" =>
             /\ Len(f) < Limit /\ at' = [at EXCEPT ![r] = now]
             /\ recent' = [recent EXCEPT ![p][s] = Append(f, now)]
  <2>1. \/ /\ Len(f) >= Limit /\ Answer(r, "limited", "memory") /\ at' = at
           /\ recent' = [recent EXCEPT ![p][s] = f]
        \/ /\ ~(Len(f) >= Limit) /\ Answer(r, "admitted", "memory") /\ at' = [at EXCEPT ![r] = now]
           /\ recent' = [recent EXCEPT ![p][s] = Append(f, now)]
    BY <1>0, <1>1 DEF MemoryLimit
  <2>2. ~(Len(f) >= Limit) => Len(f) < Limit
    BY <1>5, Sizes
  <2> QED  BY <2>1, <2>2 DEF Answer
<1>7. PICK a \in {"admitted", "limited"} :
        /\ pc' = [pc EXCEPT ![r] = a] /\ via' = [via EXCEPT ![r] = "memory"]
        /\ a = "limited" =>
             /\ Len(f) >= Limit /\ at' = at
             /\ recent' = [recent EXCEPT ![p][s] = f]
        /\ a = "admitted" =>
             /\ Len(f) < Limit /\ at' = [at EXCEPT ![r] = now]
             /\ recent' = [recent EXCEPT ![p][s] = Append(f, now)]
  BY <1>6
<1>8. /\ pc'[r] = a /\ via'[r] = "memory"
      /\ \A q \in Requests : q # r => pc'[q] = pc[q] /\ via'[q] = via[q] /\ at'[q] = at[q]
  BY <1>7 DEF IInv, Typed, MInv, MemoryTyped
<1>9. r \notin Admitted("memory")
  BY DEF Admitted
<1>10. Admitted("memory")' = IF a = "admitted" THEN Admitted("memory") \cup {r}
                                               ELSE Admitted("memory")
  BY <1>8, <1>9 DEF Admitted
<1>11. /\ Served(p, s)' = IF a = "admitted" THEN Served(p, s) \cup {r} ELSE Served(p, s)
       /\ r \notin Served(p, s)
       /\ \A u \in Processes : \A v \in Subjects :
            <<u, v>> # <<p, s>> => Served(u, v)' = Served(u, v)
  BY <1>0, <1>9, <1>10 DEF Served
<1>12. \A u \in Processes : \A v \in Subjects : \A q \in Served(u, v) :
         at'[q] = at[q] /\ at[q] \in Nat /\ q # r
  BY <1>2, <1>8, <1>9 DEF Served, Admitted
<1>13. Counting(p, s)' \subseteq Counting(p, s) \cup {r}
  BY <1>8, <1>11, <1>12 DEF Counting
<1>14. ASSUME a = "limited" PROVE Remembers(p, s)'
  <2>1. recent'[p][s] = f /\ Served(p, s)' = Served(p, s) /\ at' = at
    BY <1>1, <1>3, <1>7, <1>11, <1>14
  <2>2. Lists(f, p, s, h)'
    BY <1>4, <2>1 DEF Lists, Counting
  <2>3. Len(f) <= Limit
    BY <1>3, <1>5, Sizes, LenProperties
  <2> QED  BY <1>5, <2>1, <2>2, <2>3 DEF Remembers
<1>15. ASSUME a = "admitted" PROVE Remembers(p, s)'
  <2>0. PICK e, m, k : /\ e = Append(f, now) /\ m = Len(f) + 1
                       /\ k = [i \in 1 .. m |-> IF i = m THEN r ELSE h[i]]
    OBVIOUS
  <2>1. /\ recent'[p][s] = e /\ Served(p, s)' = Served(p, s) \cup {r}
        /\ at'[r] = now /\ Len(f) < Limit
    BY <1>1, <1>2, <1>3, <1>7, <1>11, <1>15, <2>0 DEF MInv, MemoryTyped
  <2>2. /\ e \in Seq(0 .. MaxTime) /\ Len(e) = m /\ m \in Nat /\ e[m] = now
        /\ \A i \in 1 .. Len(f) : e[i] = f[i]
    BY <1>1, <1>5, <2>0
  <2>3. \A i \in 1 .. m : i # m => i \in 1 .. Len(f)
    BY <1>5, <2>0
  <2>4. Ascending(e) /\ \A i \in 1 .. m : e[i] <= now
    <3>1. \A i \in 1 .. m : e[i] <= now
      BY <1>1, <1>5, <2>2, <2>3
    <3>2. ASSUME NEW i \in 1 .. m, NEW j \in 1 .. m, i < j PROVE e[i] <= e[j]
      <4>1. i # m
        BY <2>2, <3>2
      <4>2. CASE j = m
        BY <3>1, <2>2, <4>2
      <4>3. CASE j # m
        BY <1>5, <2>2, <2>3, <3>2, <4>1, <4>3 DEF Ascending
      <4> QED  BY <4>2, <4>3
    <3> QED  BY <2>2, <3>1, <3>2 DEF Ascending
  <2>5. h \in [1 .. Len(f) -> Served(p, s)] /\ \A i, j \in 1 .. Len(f) : h[i] = h[j] => i = j
    BY <1>4 DEF Lists, Injection, IsInjective
  <2>6. k \in Injection(1 .. m, Served(p, s)')
    <3>1. k \in [1 .. m -> Served(p, s)']
      BY <2>0, <2>1, <2>3, <2>5
    <3>2. ASSUME NEW i \in 1 .. m, NEW j \in 1 .. m, k[i] = k[j] PROVE i = j
      <4>1. \A x \in 1 .. Len(f) : h[x] # r
        BY <1>11, <2>5
      <4>2. CASE i = m \/ j = m
        BY <2>0, <2>3, <3>2, <4>1, <4>2
      <4>3. CASE i # m /\ j # m
        BY <2>0, <2>3, <2>5, <3>2, <4>3
      <4> QED  BY <4>2, <4>3
    <3> QED  BY <3>1, <3>2 DEF Injection, IsInjective
  <2>7. \A i \in 1 .. m : at'[k[i]] = e[i]
    <3>1. \A i \in 1 .. Len(f) : at'[h[i]] = f[i]
      BY <1>1, <1>4, <1>12, <2>5 DEF Lists
    <3> QED  BY <2>0, <2>1, <2>2, <2>3, <3>1
  <2>8. ASSUME p \notin crashed', NEW q \in Counting(p, s)' PROVE \E i \in 1 .. m : k[i] = q
    <3>1. CASE q = r
      <4>1. m \in 1 .. m /\ k[m] = r
        BY <1>5, <2>0
      <4> QED  BY <3>1, <4>1
    <3>2. CASE q # r
      <4>1. q \in Counting(p, s) /\ p \notin crashed
        BY <1>13, <2>8, <3>2
      <4>2. PICK i \in 1 .. Len(f) : h[i] = q
        BY <1>4, <4>1 DEF Lists
      <4>3. i \in 1 .. m /\ i # m
        BY <1>5, <2>0
      <4> QED  BY <2>0, <4>2, <4>3
    <3> QED  BY <3>1, <3>2
  <2>9. Lists(e, p, s, k)'
    BY <2>2, <2>6, <2>7, <2>8 DEF Lists
  <2>10. Len(e) <= Limit
    BY <1>5, <2>0, <2>1, <2>2, Sizes
  <2> QED  BY <2>1, <2>2, <2>4, <2>9, <2>10 DEF Remembers
<1>16. Remembered'
  <2> SUFFICES ASSUME NEW u \in Processes, NEW v \in Subjects PROVE Remembers(u, v)'
    BY DEF Remembered
  <2>1. CASE u = p /\ v = s
    BY <1>14, <1>15, <2>1
  <2>2. CASE <<u, v>> # <<p, s>>
    <3>1. recent'[u][v] = recent[u][v]
      BY <1>1, <1>3, <1>7, <2>2
    <3>2. Served(u, v)' = Served(u, v) /\ Remembers(u, v)
      BY <1>11, <2>2 DEF MInv, Remembered
    <3> QED  BY <1>1, <1>12, <3>1, <3>2, RemembersKept
  <2> QED  BY <2>1, <2>2
<1>17. MemoryTyped'
  <2>1. at' \in [Requests -> 0 .. MaxTime]
    BY <1>1, <1>7 DEF MInv, MemoryTyped
  <2>2. recent' \in [Processes -> [Subjects -> Seq(0 .. MaxTime)]]
    <3>1. Append(f, now) \in Seq(0 .. MaxTime)
      BY <1>1, <1>5
    <3>2. PICK e \in Seq(0 .. MaxTime) : recent' = [recent EXCEPT ![p][s] = e]
      BY <1>5, <1>7, <3>1
    <3> QED  BY <1>3, <3>2
  <2>3. \A q \in Admitted("memory")' : at'[q] <= now
    <3>1. \A q \in Admitted("memory") : q \in Requests /\ at'[q] <= now
      BY <1>8, <1>9 DEF MInv, MemoryTyped, Admitted
    <3>2. a = "admitted" => at'[r] <= now
      BY <1>1, <1>2, <1>7 DEF MInv, MemoryTyped
    <3> QED  BY <1>10, <3>1, <3>2
  <2> QED  BY <2>1, <2>2, <2>3 DEF MInv, MemoryTyped
<1>18. MemoryQuota'
  <2> SUFFICES ASSUME NEW u \in Processes \ crashed, NEW v \in Subjects, NEW t \in 0 .. MaxTime
               PROVE  Cardinality({q \in Admitted("memory")' :
                                     origin'[q] = [process |-> u, subject |-> v]
                                     /\ at'[q] \in t .. (t + Window - 1)}) <= Limit
    BY DEF MemoryQuota
  <2>0. Span(u, v, t)' = {q \in Admitted("memory")' : origin'[q] = [process |-> u, subject |-> v]
                                                     /\ at'[q] \in t .. (t + Window - 1)}
    BY DEF Span, Served
  <2>1. Cardinality(Span(u, v, t)) <= Limit
    BY QuotaOfSpans DEF MInv
  <2>2. CASE Span(u, v, t)' = Span(u, v, t)
    BY <2>0, <2>1, <2>2
  <2>3. CASE Span(u, v, t)' # Span(u, v, t)
    <3>1. /\ u = p /\ v = s /\ a = "admitted" /\ at'[r] = now /\ Len(f) < Limit
          /\ now \in t .. (t + Window - 1)
      <4>1. u = p /\ v = s
        BY <1>11, <1>12, <2>3 DEF Span
      <4>2. a = "admitted"
        BY <1>11, <1>12, <2>3, <4>1 DEF Span
      <4>3. at'[r] = now /\ Len(f) < Limit
        BY <1>7, <4>2 DEF MInv, MemoryTyped
      <4>4. now \in t .. (t + Window - 1)
        BY <1>11, <1>12, <2>3, <4>1, <4>3 DEF Span
      <4> QED  BY <4>1, <4>2, <4>3, <4>4
    <3>2. Span(u, v, t)' \subseteq Counting(p, s) \cup {r}
      <4> SUFFICES ASSUME NEW q \in Span(u, v, t)', q # r PROVE q \in Counting(p, s)
        OBVIOUS
      <4>1. q \in Served(p, s) /\ at[q] = at'[q] /\ at[q] \in t .. (t + Window - 1)
        BY <1>11, <1>12, <3>1 DEF Span
      <4>2. at[q] > now - Window
        BY <1>1, <3>1, <4>1, Sizes
      <4> QED  BY <4>1, <4>2 DEF Counting
    <3>3. /\ IsFiniteSet(Counting(p, s)) /\ Cardinality(Counting(p, s)) \in Nat
          /\ Cardinality(Counting(p, s)) <= Len(f)
      BY <1>1, <1>3, <3>1, Room
    <3>4. /\ IsFiniteSet(Counting(p, s) \cup {r})
          /\ Cardinality(Counting(p, s) \cup {r}) <= Cardinality(Counting(p, s)) + 1
          /\ Cardinality(Counting(p, s) \cup {r}) \in Nat
      <4>1. PICK C : C = Counting(p, s)
        OBVIOUS
      <4>2. IsFiniteSet(C \cup {r})
            /\ Cardinality(C \cup {r}) = IF r \in C THEN Cardinality(C) ELSE Cardinality(C) + 1
        BY <3>3, <4>1, FS_AddElement
      <4> QED  BY <3>3, <4>1, <4>2, FS_CardinalityType
    <3>5. Cardinality(Span(u, v, t)') <= Cardinality(Counting(p, s) \cup {r})
          /\ Cardinality(Span(u, v, t)') \in Nat
      BY <3>2, <3>4, FS_Subset, FS_CardinalityType
    <3> QED  BY <1>5, <2>0, <3>1, <3>3, <3>4, <3>5, Sizes
  <2> QED  BY <2>2, <2>3
<1> QED  BY <1>16, <1>17, <1>18 DEF MInv

LEMMA AdmittedKept ==
  ASSUME NEW r \in Requests, pc[r] \in {"idle", "incr", "expire"},
         \A q \in Requests : q # r => pc'[q] = pc[q] /\ via'[q] = via[q],
         pc'[r] # "admitted" \/ via'[r] # "memory"
  PROVE  Admitted("memory")' = Admitted("memory")
BY DEF Admitted

LEMMA NothingListed == ASSUME NEW S PROVE \E g : g \in Injection(1 .. Len(<< >>), S)
<1>1. [i \in 1 .. Len(<< >>) |-> i] \in [1 .. Len(<< >>) -> S] /\ 1 .. Len(<< >>) = {}
  OBVIOUS
<1> QED  BY <1>1 DEF Injection, IsInjective

LEMMA InitMInv == Init => MInv
<1> SUFFICES ASSUME Init PROVE MInv
  OBVIOUS
<1>1. Admitted("memory") = {} /\ \A p, s : Served(p, s) = {} /\ Counting(p, s) = {}
  BY DEF Init, Admitted, Served, Counting
<1>2. Remembered
  <2> SUFFICES ASSUME NEW p \in Processes, NEW s \in Subjects PROVE Remembers(p, s)
    BY DEF Remembered
  <2>1. recent[p][s] = << >> /\ << >> \in Seq(0 .. MaxTime) /\ Len(<< >>) = 0
    BY DEF Init
  <2>2. \E g : Lists(<< >>, p, s, g)
    BY <1>1, <2>1, NothingListed DEF Lists
  <2> QED  BY <2>1, <2>2, Sizes DEF Remembers, Ascending
<1>3. MemoryTyped
  <2>1. recent \in [Processes -> [Subjects -> Seq(0 .. MaxTime)]]
    <3>1. << >> \in Seq(0 .. MaxTime)
      OBVIOUS
    <3> QED  BY <3>1 DEF Init
  <2> QED  BY <1>1, <2>1, Sizes DEF Init, MemoryTyped
<1>4. MemoryQuota
  <2> SUFFICES ASSUME NEW p \in Processes \ crashed, NEW s \in Subjects, NEW t \in 0 .. MaxTime
               PROVE  Cardinality(Span(p, s, t)) <= Limit
    BY QuotaOfSpans
  <2>1. Span(p, s, t) = {}
    BY <1>1 DEF Span
  <2> QED  BY <2>1, FS_EmptySet, Sizes
<1> QED  BY <1>2, <1>3, <1>4 DEF MInv

(* A crash forgets, and only it takes a process from the quota. *)
LEMMA CrashForgets == ASSUME IInv, MInv, NEW p \in Processes, Crash(p) PROVE MInv'
<1>1. /\ UNCHANGED <<now, production, backend, origin, via, at>>
      /\ crashed' = crashed \cup {p} /\ now' \in Nat /\ now <= now'
      /\ recent' = [recent EXCEPT ![p] = [s \in Subjects |-> << >>]]
      /\ pc' = [r \in Requests |-> IF Process(r) = p /\ pc[r] \in {"incr", "expire"}
                                     THEN "lost" ELSE pc[r]]
  BY Sizes DEF Crash, settings, IInv, Typed
<1>2. /\ Admitted("memory")' = Admitted("memory")
      /\ \A u, v : Served(u, v)' = Served(u, v)
  BY <1>1 DEF Admitted, Served
<1>3. /\ \A v \in Subjects : recent'[p][v] = << >>
      /\ \A u \in Processes : u # p => recent'[u] = recent[u]
      /\ recent' \in [Processes -> [Subjects -> Seq(0 .. MaxTime)]]
  <2>1. << >> \in Seq(0 .. MaxTime)
    OBVIOUS
  <2> QED  BY <1>1, <2>1 DEF MInv, MemoryTyped
<1>4. Remembered'
  <2> SUFFICES ASSUME NEW u \in Processes, NEW v \in Subjects PROVE Remembers(u, v)'
    BY DEF Remembered
  <2>1. CASE u = p
    <3>1. recent'[u][v] = << >> /\ << >> \in Seq(0 .. MaxTime) /\ Len(<< >>) = 0
      BY <1>3, <2>1
    <3>2. PICK g : g \in Injection(1 .. Len(<< >>), Served(u, v))
      BY NothingListed
    <3>3. Lists(recent[u][v], u, v, g)'
      BY <1>1, <1>2, <2>1, <3>1, <3>2 DEF Lists
    <3> QED  BY <3>1, <3>3, Sizes DEF Remembers, Ascending
  <2>2. CASE u # p
    <3>1. \A q \in Served(u, v) : at'[q] = at[q] /\ at[q] \in Nat
      BY <1>1, Sizes DEF Served, Admitted, MInv, MemoryTyped
    <3> QED  BY <1>1, <1>2, <1>3, <2>2, <3>1, RemembersKept DEF MInv, Remembered
  <2> QED  BY <2>1, <2>2
<1>5. MemoryTyped'
  BY <1>1, <1>2, <1>3 DEF MInv, MemoryTyped
<1>6. MemoryQuota'
  BY <1>1, <1>2 DEF MInv, MemoryQuota
<1> QED  BY <1>4, <1>5, <1>6 DEF MInv

LEMMA NextMInv == IInv /\ MInv /\ [Next]_rvars => MInv'
<1> SUFFICES ASSUME IInv, MInv, [Next]_rvars PROVE MInv'
  OBVIOUS
<1>0. Typed /\ now \in Nat /\ now <= now
  BY Sizes DEF IInv, Typed
<1>1. ASSUME NEW r \in Requests, ArriveMemory(r) PROVE MInv'
  BY <1>1, MemoryStep DEF ArriveMemory, settings
<1>2. ASSUME NEW r \in Requests, ArriveRedis(r) PROVE MInv'
  <2>1. /\ UNCHANGED <<now, production, backend, recent, origin, at, crashed, via>>
        /\ pc[r] = "idle" /\ pc' = [pc EXCEPT ![r] = "incr"]
    BY <1>2 DEF ArriveRedis, settings
  <2>2. pc'[r] = "incr" /\ \A q \in Requests : q # r => pc'[q] = pc[q] /\ via'[q] = via[q]
    BY <1>0, <2>1 DEF Typed
  <2>3. Admitted("memory")' = Admitted("memory")
    BY <2>1, <2>2, AdmittedKept
  <2> QED  BY <1>0, <2>1, <2>3, MemoryKept
<1>3. ASSUME NEW r \in Requests, Incr(r) \/ Expire(r) PROVE MInv'
  <2>1. UNCHANGED <<now, production, backend, recent, origin, at, crashed>>
    BY <1>3 DEF Incr, Expire, settings
  <2>2. /\ pc[r] \in {"incr", "expire"}
        /\ \A q \in Requests : q # r => pc'[q] = pc[q] /\ via'[q] = via[q]
        /\ pc'[r] # "admitted" \/ via'[r] # "memory"
    BY <1>0, <1>3 DEF Incr, Expire, Decide, Answer, Typed
  <2>3. Admitted("memory")' = Admitted("memory")
    BY <2>2, AdmittedKept
  <2> QED  BY <1>0, <2>1, <2>3, MemoryKept
<1>4. ASSUME NEW r \in Requests, IncrFails(r) \/ ExpireFails(r) PROVE MInv'
  <2>1. /\ pc[r] \in {"incr", "expire"} /\ RedisFailed(r)
        /\ UNCHANGED <<now, production, backend, origin, crashed>>
    BY <1>4 DEF IncrFails, ExpireFails, settings
  <2>2. CASE production
    <3>1. /\ UNCHANGED <<recent, at>>
          /\ pc' = [pc EXCEPT ![r] = "unavailable"] /\ via' = [via EXCEPT ![r] = "none"]
      BY <2>1, <2>2 DEF RedisFailed, Answer
    <3>2. /\ \A q \in Requests : q # r => pc'[q] = pc[q] /\ via'[q] = via[q]
          /\ pc'[r] = "unavailable"
      BY <1>0, <3>1 DEF Typed
    <3>3. Admitted("memory")' = Admitted("memory")
      BY <2>1, <3>2, AdmittedKept
    <3> QED  BY <1>0, <2>1, <3>1, <3>3, MemoryKept
  <2>3. CASE ~production
    BY <2>1, <2>3, MemoryStep DEF RedisFailed
  <2> QED  BY <2>2, <2>3
<1>5. ASSUME NEW p \in Processes, Crash(p) PROVE MInv'
  BY <1>5, CrashForgets
<1>6. CASE Tick
  <2>1. /\ UNCHANGED <<production, backend, recent, origin, at, crashed, pc, via>>
        /\ now' \in Nat /\ now <= now'
    BY <1>0, <1>6 DEF Tick, settings
  <2>2. Admitted("memory")' = Admitted("memory")
    BY <2>1 DEF Admitted
  <2> QED  BY <2>1, <2>2, MemoryKept
<1>7. CASE UNCHANGED rvars
  <2>1. UNCHANGED <<now, production, backend, recent, origin, at, crashed, pc, via>>
    BY <1>7 DEF rvars, settings
  <2>2. Admitted("memory")' = Admitted("memory")
    BY <2>1 DEF Admitted
  <2> QED  BY <1>0, <2>1, <2>2, MemoryKept
<1> QED  BY <1>1, <1>2, <1>3, <1>4, <1>5, <1>6, <1>7 DEF Next, Over

LEMMA MemoryInvariance == Spec => [](IInv /\ MInv)
BY InitIInv, InitMInv, NextIInv, NextMInv, PTL DEF Spec

(* Counters and numbers are bounded by the requests there are. *)
LEMMA Types == IInv /\ MInv => TypeOK
<1> SUFFICES ASSUME IInv, MInv PROVE TypeOK
  OBVIOUS
<1>1. IsFiniteSet(Requests) /\ Cardinality(Requests) \in Nat
  BY RequestsAssumption, FS_CardinalityType
<1>2. \A k \in Keys : counter[k].count \in 0 .. Cardinality(Requests)
  <2> SUFFICES ASSUME NEW k \in Keys PROVE counter[k].count \in 0 .. Cardinality(Requests)
    OBVIOUS
  <2>1. counter[k].count <= Cardinality(Past(k)) /\ counter[k].count \in Nat
    BY DEF IInv, Earned, Typed
  <2>2. Cardinality(Past(k)) <= Cardinality(Requests) /\ Cardinality(Past(k)) \in Nat
    BY <1>1, FS_Subset, FS_CardinalityType DEF Past
  <2> QED  BY <1>1, <2>1, <2>2
<1>3. counter \in [Subjects \X Buckets -> Counters]
  BY <1>2 DEF IInv, Typed, Counters, Keys
<1>4. count \in [Requests -> 0 .. Cardinality(Requests)]
  <2>1. ASSUME NEW r \in Requests PROVE count[r] \in 0 .. Cardinality(Requests)
    <3>1. count[r] \in Nat /\ count[r] <= counter[Key(r)].count /\ Key(r) \in Keys
      BY KeyTyped DEF IInv, Typed, Numbered
    <3>2. counter[Key(r)].count \in 0 .. Cardinality(Requests)
      BY <1>2, <3>1
    <3> QED  BY <1>1, <3>1, <3>2
  <2> QED  BY <2>1 DEF IInv, Typed
<1>5. \A p \in Processes : \A s \in Subjects :
        recent[p][s] \in Seq(0 .. MaxTime) /\ Len(recent[p][s]) <= Limit
  BY DEF MInv, Remembered, Remembers
<1> QED  BY <1>3, <1>4, <1>5 DEF IInv, Typed, MInv, MemoryTyped, TypeOK

(* The variables keep their types: a counter never passes the number of      *)
(* requests, and a deque never the limit (_RATE_WINDOWS, security.py:147).   *)
THEOREM TypeCorrect == Spec => []TypeOK
BY MemoryInvariance, Types, PTL

(* The memory of a process admits a subject at most Limit times in any span  *)
(* shorter than the window, whatever comes between, until the process dies.  *)
THEOREM MemoryQuotaHolds == Spec => []MemoryQuota
<1>1. MInv => MemoryQuota
  BY DEF MInv
<1> QED  BY <1>1, MemoryInvariance, PTL

-----------------------------------------------------------------------------
(* The limiter implements RateQuota: every step is one of its steps, or none *)
(* that a caller could see.  Both count alike.                               *)
LEMMA SameSize == ASSUME NEW S PROVE Promise!Cardinality(S) = Cardinality(S)
BY DEF Promise!Cardinality, Promise!IsFiniteSet, Cardinality, IsFiniteSet

LEMMA PromiseInit == Init => Promise!Init
BY DEF Init, Promise!Init, State

LEMMA StateStep ==
  ASSUME Typed, NEW r \in Requests, NEW a, pc' = [pc EXCEPT ![r] = a]
  PROVE  State' = [State EXCEPT ![r] = IF a \in {"incr", "expire"} THEN "asking" ELSE a]
BY DEF Typed, State

(* Whoever asks does so in the window of a clock. *)
LEMMA ArriveRedisAsks ==
  ASSUME IInv, NEW r \in Requests, ArriveRedis(r)
  PROVE  Promise!Ask(r)
<1>1. PICK b \in Buckets : b = BucketOf(r)
  BY BucketOfBounds DEF IInv
<1>2. b \in Nat /\ b * Window \in Nat /\ now \in Nat /\ skew[Process(r)] \in Nat
  BY <1>1, BucketBounds, KeyTyped, Sizes DEF IInv, Typed
<1>3. b * Window <= now + MaxSkew /\ now < b * Window + Window
  <2>1. b * Window <= now + MaxSkew /\ now + skew[Process(r)] < b * Window + Window
    BY <1>1, BucketOfBounds DEF IInv
  <2> QED  BY <1>2, <2>1, Sizes
<1>4. b \in 0 .. now + MaxSkew
  <2>1. PICK k \in Nat : Window = k + 1
    <3>1. Window - 1 \in Nat /\ Window = (Window - 1) + 1
      BY Sizes
    <3> QED  BY <3>1
  <2>2. b * Window = b * k + b /\ b * k \in Nat
    BY <1>2, <2>1
  <2> QED  BY <1>2, <1>3, <2>2, Sizes
<1>5. /\ State[r] = "idle" /\ State' = [State EXCEPT ![r] = "asking"]
      /\ bucket' = [bucket EXCEPT ![r] = b]
      /\ UNCHANGED <<now, production, crashed, origin, via, at>>
  <2>1. pc[r] = "idle" /\ pc' = [pc EXCEPT ![r] = "incr"]
    BY <1>1 DEF ArriveRedis
  <2>2. State' = [State EXCEPT ![r] = "asking"]
    BY <2>1, StateStep DEF IInv
  <2> QED  BY <1>1, <2>1, <2>2 DEF ArriveRedis, State, settings
<1> QED  BY <1>3, <1>4, <1>5 DEF Promise!Ask

LEMMA AdmissionIsPromised ==
  ASSUME IInv, QuotaPerWindow', NEW r \in Requests, pc[r] \in {"incr", "expire"},
         pc' = [pc EXCEPT ![r] = "admitted"], via' = [via EXCEPT ![r] = "redis"],
         UNCHANGED <<now, production, crashed, origin, bucket, at>>
  PROVE  Promise!AdmitInWindow(r)
<1>1. PICK s \in Subjects, b \in Buckets : Key(r) = <<s, b>>
  BY KeyTyped DEF IInv, Keys
<1> DEFINE A == {q \in Requests : State[q] = "admitted" /\ via[q] = "redis" /\ Key(q) = <<s, b>>}
           B == {q \in Admitted("redis")' : Key(q)' = <<s, b>>}
<1>2. /\ \A q \in Requests : Key(q)' = Key(q) /\ (State[q] = "admitted" <=> pc[q] = "admitted")
      /\ pc'[r] = "admitted" /\ via'[r] = "redis"
      /\ \A q \in Requests : q # r => pc'[q] = pc[q] /\ via'[q] = via[q]
  BY DEF IInv, Typed, Key, Subject, State
<1>3. B = A \cup {r} /\ r \notin A
  BY <1>1, <1>2 DEF Admitted
<1>4. Cardinality(B) <= Limit
  BY DEF QuotaPerWindow
<1>5. IsFiniteSet(A)
  BY RequestsAssumption, FS_Subset
<1> HIDE DEF A, B
<1>6. Cardinality(B) = Cardinality(A) + 1 /\ Cardinality(A) \in Nat
  BY <1>3, <1>5, FS_AddElement, FS_CardinalityType
<1>7. Cardinality(A) < Limit
  BY <1>4, <1>6, Sizes
<1>8. Promise!AdmittedIn(Promise!Key(r)) = A
  BY <1>1 DEF Promise!AdmittedIn, Promise!Key, Key, Subject, A
<1>9. State[r] = "asking" /\ State' = [State EXCEPT ![r] = "admitted"]
  BY StateStep DEF IInv, State
<1> QED  BY <1>7, <1>8, <1>9, SameSize DEF Promise!AdmitInWindow, Promise!Answer

LEMMA LimitIsPromised ==
  ASSUME IInv, LimitedIsEarned', NEW r \in Requests, pc[r] \in {"incr", "expire"},
         pc' = [pc EXCEPT ![r] = "limited"], via' = [via EXCEPT ![r] = "redis"],
         UNCHANGED <<now, production, crashed, origin, bucket, at>>
  PROVE  Promise!LimitInWindow(r)
<1>1. /\ \A q \in Requests : Key(q)' = Key(q) /\ (State[q] = "idle" <=> pc[q] = "idle")
      /\ pc'[r] = "limited" /\ via'[r] = "redis"
      /\ \A q \in Requests : q # r => pc'[q] = pc[q]
  BY DEF IInv, Typed, Key, Subject, State
<1>2. Cardinality({q \in Requests \ {r} : Key(q)' = Key(r)' /\ pc'[q] # "idle"}) >= Limit
  BY <1>1 DEF LimitedIsEarned
<1>3. {q \in Requests \ {r} : Promise!Key(q) = Promise!Key(r) /\ State[q] # "idle"}
        = {q \in Requests \ {r} : Key(q)' = Key(r)' /\ pc'[q] # "idle"}
  BY <1>1 DEF Promise!Key, Key, Subject
<1>4. State[r] = "asking" /\ State' = [State EXCEPT ![r] = "limited"]
  BY StateStep DEF IInv, State
<1> QED  BY <1>2, <1>3, <1>4, SameSize DEF Promise!LimitInWindow, Promise!Answer

LEMMA MemoryIsPromised ==
  ASSUME IInv, MInv, NEW r \in Requests, pc[r] \in {"idle", "incr", "expire"}, MemoryLimit(r),
         ~production, UNCHANGED <<now, production, origin, bucket, crashed>>
  PROVE  Promise!AdmitByMemory(r) \/ Promise!LimitByMemory(r)
<1>0. PICK p \in Processes, s \in Subjects :
        p = Process(r) /\ s = Subject(r) /\ origin[r] = [process |-> p, subject |-> s]
  BY DEF IInv, Typed, Process, Subject
<1>1. PICK f : f = Fresh(recent[p][s])
  OBVIOUS
<1>2. Promise!Recent(r) = Counting(p, s)
  BY <1>0 DEF Promise!Recent, Counting, Served, Admitted, State
<1>3. /\ Cardinality(Counting(p, s)) \in Nat /\ Len(f) \in Nat
      /\ Len(f) <= Cardinality(Counting(p, s))
      /\ p \notin crashed => Cardinality(Counting(p, s)) <= Len(f)
  BY <1>1, Room DEF MInv, Remembered
<1>4. State[r] \in {"idle", "asking"} /\ origin[r].process = p
  BY <1>0 DEF State
<1>5. CASE Len(f) >= Limit
  <2>1. pc' = [pc EXCEPT ![r] = "limited"] /\ via' = [via EXCEPT ![r] = "memory"] /\ at' = at
    BY <1>0, <1>1, <1>5 DEF MemoryLimit, Answer
  <2>2. State' = [State EXCEPT ![r] = "limited"]
    BY <2>1, StateStep DEF IInv
  <2>3. Cardinality(Promise!Recent(r)) >= Limit
    BY <1>2, <1>3, <1>5, Sizes
  <2> QED  BY <1>4, <2>1, <2>2, <2>3, SameSize DEF Promise!LimitByMemory, Promise!Answer
<1>6. CASE ~(Len(f) >= Limit)
  <2>1. /\ pc' = [pc EXCEPT ![r] = "admitted"] /\ via' = [via EXCEPT ![r] = "memory"]
        /\ at' = [at EXCEPT ![r] = now]
    BY <1>0, <1>1, <1>6 DEF MemoryLimit, Answer
  <2>2. State' = [State EXCEPT ![r] = "admitted"]
    BY <2>1, StateStep DEF IInv
  <2>3. p \notin crashed => Cardinality(Promise!Recent(r)) < Limit
    BY <1>2, <1>3, <1>6, Sizes
  <2> QED  BY <1>4, <2>1, <2>2, <2>3, SameSize DEF Promise!AdmitByMemory, Promise!Answer
<1> QED  BY <1>5, <1>6

LEMMA CrashIsPromised == ASSUME IInv, NEW p \in Processes, Crash(p) PROVE Promise!Crash(p)
<1>1. State' = [r \in Requests |-> IF origin[r].process = p /\ State[r] = "asking"
                                     THEN "lost" ELSE State[r]]
  <2>1. \A r \in Requests : pc[r] \in Steps
    BY DEF IInv, Typed
  <2> QED  BY <2>1 DEF Crash, State, Process, Steps, Answered
<1> QED  BY <1>1 DEF Crash, Promise!Crash, settings

(* What the caller sees. *)
Seen == <<now, production, crashed, origin, State, bucket, via, at>>

LEMMA PromiseStep ==
  IInv /\ MInv /\ QuotaPerWindow' /\ LimitedIsEarned' /\ [Next]_rvars
    => [Promise!Next]_(Promise!vars)
<1> SUFFICES ASSUME IInv, MInv, QuotaPerWindow', LimitedIsEarned', [Next]_rvars
             PROVE  Promise!Next \/ Seen' = Seen
  BY DEF Seen, Promise!vars
<1>1. ASSUME NEW r \in Requests, ArriveMemory(r) PROVE Promise!Next
  <2>1. ~production
    BY <1>1 DEF ArriveMemory, IInv, Typed
  <2> QED  BY <1>1, <2>1, MemoryIsPromised DEF ArriveMemory, settings, Promise!Next
<1>2. ASSUME NEW r \in Requests, ArriveRedis(r) PROVE Promise!Next
  BY <1>2, ArriveRedisAsks DEF Promise!Next
<1>3. ASSUME NEW r \in Requests, Incr(r) \/ Expire(r) PROVE Promise!Next \/ Seen' = Seen
  <2>1. /\ pc[r] \in {"incr", "expire"}
        /\ UNCHANGED <<now, production, crashed, origin, bucket, at>>
    BY <1>3 DEF Incr, Expire, settings
  <2>2. CASE pc' = [pc EXCEPT ![r] = "expire"] /\ via' = via
    <3>1. State' = [State EXCEPT ![r] = "asking"]
      BY <2>2, StateStep DEF IInv
    <3>2. State[r] = "asking" /\ State \in [Requests -> {State[q] : q \in Requests}]
      BY <2>1 DEF State
    <3> QED  BY <2>1, <2>2, <3>1, <3>2 DEF Seen
  <2>3. CASE pc' = [pc EXCEPT ![r] = "admitted"] /\ via' = [via EXCEPT ![r] = "redis"]
    BY <2>1, <2>3, AdmissionIsPromised DEF Promise!Next
  <2>4. CASE pc' = [pc EXCEPT ![r] = "limited"] /\ via' = [via EXCEPT ![r] = "redis"]
    BY <2>1, <2>4, LimitIsPromised DEF Promise!Next
  <2> QED  BY <1>3, <2>2, <2>3, <2>4 DEF Incr, Expire, Decide, Answer
<1>4. ASSUME NEW r \in Requests, IncrFails(r) \/ ExpireFails(r) PROVE Promise!Next
  <2>1. /\ pc[r] \in {"incr", "expire"} /\ RedisFailed(r)
        /\ UNCHANGED <<now, production, crashed, origin, bucket>>
    BY <1>4 DEF IncrFails, ExpireFails, settings
  <2>2. CASE production
    <3>1. /\ pc' = [pc EXCEPT ![r] = "unavailable"] /\ via' = [via EXCEPT ![r] = "none"]
          /\ at' = at
      BY <2>1, <2>2 DEF RedisFailed, Answer
    <3>2. State[r] = "asking" /\ State' = [State EXCEPT ![r] = "unavailable"]
      BY <2>1, <3>1, StateStep DEF IInv, State
    <3>3. Promise!Refuse(r)
      BY <2>1, <2>2, <3>1, <3>2 DEF Promise!Refuse, Promise!Answer
    <3> QED  BY <3>3 DEF Promise!Next
  <2>3. CASE ~production
    <3>1. MemoryLimit(r)
      BY <2>1, <2>3 DEF RedisFailed
    <3> QED  BY <2>1, <2>3, <3>1, MemoryIsPromised DEF Promise!Next
  <2> QED  BY <2>2, <2>3
<1>5. ASSUME NEW p \in Processes, Crash(p) PROVE Promise!Next
  BY <1>5, CrashIsPromised DEF Promise!Next
<1>6. CASE Tick
  BY <1>6 DEF Tick, settings, State, Promise!Tick, Promise!Next
<1>7. CASE UNCHANGED rvars
  BY <1>7 DEF rvars, settings, State, Seen
<1> QED  BY <1>1, <1>2, <1>3, <1>4, <1>5, <1>6, <1>7 DEF Next, Over

(* Counters that expire, deques that are trimmed, clocks that differ and the *)
(* fallback from Redis to memory come to the quotas of RateQuota: whoever is *)
(* admitted, limited or refused may be (security.py:147-189).                *)
THEOREM Refinement == Spec => KeepsQuota
BY PromiseInit, PromiseStep, MemoryInvariance, QuotaKept, LimitsAreEarned, PTL
   DEF Spec, KeepsQuota, Promise!Spec
=============================================================================
