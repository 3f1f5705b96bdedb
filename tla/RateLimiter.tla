---------------------------- MODULE RateLimiter ----------------------------
(***************************************************************************)
(* The rate limiter of the reader and the writer                           *)
(* (src/app/common/security.py): a fixed window per subject counted in     *)
(* Redis with INCR, which the first request of the window follows with an  *)
(* EXPIRE.  Processes share the counters of Redis; each has a clock of its *)
(* own, and a sliding window per subject in its memory, which is used by   *)
(* the memory backend and, outside production, when Redis fails.           *)
(*                                                                         *)
(* An await is a step: any number of other requests, clock ticks and       *)
(* failures fit between taking the window's number, the INCR and the       *)
(* EXPIRE.                                                                 *)
(***************************************************************************)
EXTENDS Integers, FiniteSets, Sequences

CONSTANTS Requests,    \* authenticated requests, each made once
          Subjects,    \* principals: counters are per subject
          Processes,   \* reader and writer processes
          Limit,       \* settings.rate_limit_requests
          Window,      \* settings.rate_limit_window_seconds
          Slack,       \* what the EXPIRE adds to the window
          Backends,    \* values of settings.rate_limit_backend tried
          Failures,    \* the failures the environment has, see FailureKinds
          MaxSkew,     \* bound: processes' clocks differ by at most this
          MaxDelay,    \* bound: an INCR comes less than this after the end of its window
          MaxTime      \* bound: the last tick

FailureKinds == {"redis", "crash"}

ASSUME RequestsAssumption == IsFiniteSet(Requests)
ASSUME LimitAssumption == Limit \in Nat \ {0} /\ Window \in Nat \ {0} /\ Slack \in Nat
ASSUME BackendAssumption == Backends \subseteq {"redis", "memory"}
ASSUME RateFailuresAssumption == Failures \subseteq FailureKinds
(* The 5 seconds the EXPIRE adds pay for what may keep an INCR of the old    *)
(* window on its way when the key expires.                                   *)
ASSUME SlackAssumption == MaxSkew + MaxDelay <= Slack
ASSUME BoundsAssumption == MaxSkew \in Nat /\ MaxDelay \in Nat /\ MaxTime \in Nat

Never == MaxTime + Window + Slack + 1    \* the expiry of a key without one
Buckets == 0 .. ((MaxTime + MaxSkew) \div Window)

VARIABLES
  now,         \* the clock of Redis
  production,  \* settings.app_env = "production"
  backend,     \* settings.rate_limit_backend; validate() refuses "memory" in production
  skew,     \* how far each process's wall clock is ahead of it
  counter,  \* (subject, bucket) -> count and expiry of the key in Redis; count 0 = no key
  recent,   \* each process's deque of admission times, per subject
  pc,       \* where each request is
  origin,   \* the process and subject of each request
  bucket,   \* the number of the window each request took
  count,    \* what the INCR of each request returned, 0 before it
  via,      \* which limiter answered: "redis", "memory" or "none"
  at,       \* when the request was admitted by a process's memory
  crashed   \* processes that have died and started again

settings == <<production, backend>>
rvars == <<now, settings, skew, counter, recent, pc, origin, bucket, count, via, at, crashed>>

Answered == {"admitted", "limited", "unavailable"}
Steps == {"idle", "incr", "expire", "lost"} \cup Answered

Counters == [count : 0 .. Cardinality(Requests), expires : 0 .. Never]
NoCounter == [count |-> 0, expires |-> Never]

Init ==
  /\ now = 0
  /\ production \in BOOLEAN
  /\ backend \in IF production THEN Backends \ {"memory"} ELSE Backends
  /\ skew \in [Processes -> 0 .. MaxSkew]
  /\ counter = [k \in Subjects \X Buckets |-> NoCounter]
  /\ recent = [p \in Processes |-> [s \in Subjects |-> <<>>]]
  /\ pc = [r \in Requests |-> "idle"]
  /\ origin \in [Requests -> [process : Processes, subject : Subjects]]
  /\ bucket = [r \in Requests |-> 0]
  /\ count = [r \in Requests |-> 0]
  /\ via = [r \in Requests |-> "none"]
  /\ at = [r \in Requests |-> 0]
  /\ crashed = {}

Process(r) == origin[r].process
Subject(r) == origin[r].subject
Key(r) == <<Subject(r), bucket[r]>>

(* The key as Redis sees it: one whose time has come is gone. *)
Current(k) == IF counter[k].expires <= now THEN NoCounter ELSE counter[k]

Answer(r, a, limiter) ==
  /\ pc' = [pc EXCEPT ![r] = a]
  /\ via' = [via EXCEPT ![r] = limiter]

(* Mutant: an entry is kept until it is older than the window. *)
StaleStrict(d) == Cardinality({n \in 1 .. Len(d) : \A i \in 1 .. n : d[i] < now - Window})

(* How many entries the while loop takes from the head of a deque. *)
Stale(d) == Cardinality({n \in 1 .. Len(d) : \A i \in 1 .. n : d[i] <= now - Window})

Fresh(d) == SubSeq(d, Stale(d) + 1, Len(d))

(* Mutant: the limit is off by one. *)
MemoryLimitLoose(r) ==
  LET fresh == Fresh(recent[Process(r)][Subject(r)])
  IN  IF Len(fresh) > Limit
        THEN Answer(r, "limited", "memory") /\ UNCHANGED <<recent, at>>
        ELSE /\ Answer(r, "admitted", "memory")
             /\ recent' = [recent EXCEPT ![Process(r)][Subject(r)] = Append(fresh, now)]
             /\ at' = [at EXCEPT ![r] = now]

(* _enforce_memory_rate_limit awaits nothing, so it is one step: old entries *)
(* leave the deque, and the request is admitted if there is room.            *)
MemoryLimit(r) ==
  LET fresh == Fresh(recent[Process(r)][Subject(r)])
  IN  IF Len(fresh) >= Limit
        THEN /\ Answer(r, "limited", "memory")
             /\ recent' = [recent EXCEPT ![Process(r)][Subject(r)] = fresh]
             /\ at' = at
        ELSE /\ Answer(r, "admitted", "memory")
             /\ recent' = [recent EXCEPT ![Process(r)][Subject(r)] = Append(fresh, now)]
             /\ at' = [at EXCEPT ![r] = now]

(* Mutant: production, too, falls back on the memory of the process. *)
RedisFailedOpen(r) == MemoryLimit(r)

(* RedisError: production refuses, other environments count in memory. *)
RedisFailed(r) ==
  IF production THEN Answer(r, "unavailable", "none") /\ UNCHANGED <<recent, at>>
                ELSE MemoryLimit(r)

(* int(time.time() // window) on the clock of the process. *)
BucketOf(r) == (now + skew[Process(r)]) \div Window

ArriveMemory(r) ==
  /\ backend = "memory"
  /\ pc[r] = "idle"
  /\ MemoryLimit(r)
  /\ UNCHANGED <<now, settings, skew, counter, origin, bucket, count, crashed>>

ArriveRedis(r) ==
  /\ backend = "redis"
  /\ pc[r] = "idle"
  /\ bucket' = [bucket EXCEPT ![r] = BucketOf(r)]
  /\ pc' = [pc EXCEPT ![r] = "incr"]
  /\ UNCHANGED <<now, settings, skew, counter, recent, origin, count, via, at, crashed>>

(* Mutant: the comparison is off by one. *)
DecideStrict(r, n) == Answer(r, IF n >= Limit THEN "limited" ELSE "admitted", "redis")

Decide(r, n) == Answer(r, IF n > Limit THEN "limited" ELSE "admitted", "redis")

Incremented(k) == [Current(k) EXCEPT !.count = @ + 1]

(* Mutant: every request decides at once, and the key gets no expiry. *)
IncrOnly(r) ==
  /\ pc[r] = "incr"
  /\ LET n == Incremented(Key(r)).count
     IN  /\ counter' = [counter EXCEPT ![Key(r)] = Incremented(Key(r))]
         /\ count' = [count EXCEPT ![r] = n]
         /\ Decide(r, n)
  /\ UNCHANGED <<now, settings, skew, recent, origin, bucket, at, crashed>>

(* The INCR.  Only the request that created the key goes on to the EXPIRE. *)
Incr(r) ==
  /\ pc[r] = "incr"
  /\ LET n == Incremented(Key(r)).count
     IN  /\ counter' = [counter EXCEPT ![Key(r)] = Incremented(Key(r))]
         /\ count' = [count EXCEPT ![r] = n]
         /\ IF n = 1 THEN /\ pc' = [pc EXCEPT ![r] = "expire"]
                          /\ via' = via
                     ELSE Decide(r, n)
  /\ UNCHANGED <<now, settings, skew, recent, origin, bucket, at, crashed>>

(* Mutant: the key lives for the window only. *)
LifetimeWindowOnly == Window

Lifetime == Window + Slack

(* The EXPIRE of the creator; nothing happens if the key is gone. *)
Expire(r) ==
  /\ pc[r] = "expire"
  /\ counter' = [counter EXCEPT ![Key(r)] =
                   IF Current(Key(r)).count = 0 THEN NoCounter
                   ELSE [Current(Key(r)) EXCEPT !.expires = now + Lifetime]]
  /\ Decide(r, count[r])
  /\ UNCHANGED <<now, settings, skew, recent, origin, bucket, count, at, crashed>>

(* The INCR or the EXPIRE raises RedisError, done or not done. *)
IncrFails(r) ==
  /\ "redis" \in Failures
  /\ pc[r] = "incr"
  /\ \/ counter' = counter
     \/ counter' = [counter EXCEPT ![Key(r)] = Incremented(Key(r))]
  /\ RedisFailed(r)
  /\ UNCHANGED <<now, settings, skew, origin, bucket, count, crashed>>

ExpireFails(r) ==
  /\ "redis" \in Failures
  /\ pc[r] = "expire"
  /\ \/ counter' = counter
     \/ /\ Current(Key(r)).count # 0
        /\ counter' = [counter EXCEPT ![Key(r)].expires = now + Lifetime]
  /\ RedisFailed(r)
  /\ UNCHANGED <<now, settings, skew, origin, bucket, count, crashed>>

(* A process that has something to lose dies and starts again: its requests  *)
(* and its deques are gone.                                                  *)
Crash(p) ==
  /\ "crash" \in Failures
  /\ \/ \E r \in Requests : Process(r) = p /\ pc[r] \in {"incr", "expire"}
     \/ \E s \in Subjects : recent[p][s] # <<>>
  /\ crashed' = crashed \cup {p}
  /\ pc' = [r \in Requests |-> IF Process(r) = p /\ pc[r] \in {"incr", "expire"}
                                 THEN "lost" ELSE pc[r]]
  /\ recent' = [recent EXCEPT ![p] = [s \in Subjects |-> <<>>]]
  /\ UNCHANGED <<now, settings, skew, counter, origin, bucket, count, via, at>>

Tick ==
  /\ now < MaxTime
  /\ \A r \in Requests : pc[r] = "incr" => now + 1 + skew[Process(r)] < (bucket[r] + 1) * Window + MaxDelay
  /\ now' = now + 1
  /\ UNCHANGED <<settings, skew, counter, recent, pc, origin, bucket, count, via, at, crashed>>

(* Every request is over: nothing but the time bound stops the clock. *)
Over ==
  /\ now = MaxTime
  /\ \A r \in Requests : pc[r] \in Answered \cup {"lost"}
  /\ UNCHANGED rvars

Next == \/ \E r \in Requests : \/ ArriveMemory(r) \/ ArriveRedis(r)
                               \/ Incr(r) \/ Expire(r)
                               \/ IncrFails(r) \/ ExpireFails(r)
        \/ \E p \in Processes : Crash(p)
        \/ Tick
        \/ Over

Spec == Init /\ [][Next]_rvars

-----------------------------------------------------------------------------
TypeOK ==
  /\ now \in 0 .. MaxTime
  /\ production \in BOOLEAN
  /\ backend \in IF production THEN Backends \ {"memory"} ELSE Backends
  /\ skew \in [Processes -> 0 .. MaxSkew]
  /\ counter \in [Subjects \X Buckets -> Counters]
  /\ \A p \in Processes : \A s \in Subjects :
       recent[p][s] \in Seq(0 .. MaxTime) /\ Len(recent[p][s]) <= Limit
  /\ pc \in [Requests -> Steps]
  /\ origin \in [Requests -> [process : Processes, subject : Subjects]]
  /\ bucket \in [Requests -> Buckets]
  /\ count \in [Requests -> 0 .. Cardinality(Requests)]
  /\ via \in [Requests -> {"redis", "memory", "none"}]
  /\ at \in [Requests -> 0 .. MaxTime]
  /\ crashed \subseteq Processes

Admitted(limiter) == {r \in Requests : pc[r] = "admitted" /\ via[r] = limiter}

(* Across all processes, at most Limit requests of a subject are admitted in *)
(* one window, although the check is after the fact and the key expires:     *)
(* provided skew and delay stay within the slack of the expiry.              *)
QuotaPerWindow ==
  \A s \in Subjects : \A b \in Buckets :
    Cardinality({r \in Admitted("redis") : Key(r) = <<s, b>>}) <= Limit

(* Nobody is limited on account of another subject or an earlier window: a   *)
(* 429 is preceded by Limit other requests of the same subject and window.   *)
LimitedIsEarned ==
  \A r \in Requests : pc[r] = "limited" /\ via[r] = "redis" =>
    Cardinality({q \in Requests \ {r} : Key(q) = Key(r) /\ pc[q] # "idle"}) >= Limit

(* One process admits at most Limit requests of a subject by its memory in   *)
(* any span shorter than the window (_enforce_memory_rate_limit), as long as *)
(* it does not crash, which empties the memory.                              *)
MemoryQuota ==
  \A p \in Processes \ crashed : \A s \in Subjects : \A t \in 0 .. MaxTime :
    Cardinality({r \in Admitted("memory") :
                   origin[r] = [process |-> p, subject |-> s] /\ at[r] \in t .. (t + Window - 1)})
      <= Limit

(* Production admits nobody whom Redis has not counted, whatever fails. *)
FailsClosed ==
  production => \A r \in Requests : pc[r] = "admitted" =>
                  via[r] = "redis" /\ count[r] \in 1 .. Limit

(* A counter that will never expire is due to a failure: its creator has not *)
(* come to the EXPIRE yet, or died or lost Redis on the way to it.  What no  *)
(* failure touches leaves no key behind.                                     *)
ImmortalOnlyByFailure ==
  \A k \in Subjects \X Buckets : counter[k].count > 0 /\ counter[k].expires = Never =>
    \E r \in Requests : /\ Key(r) = k
                        /\ \/ pc[r] \in {"expire", "lost"}
                           \/ pc[r] \in Answered /\ via[r] # "redis"

-----------------------------------------------------------------------------
(* A request is asking from the number of its window to its answer. *)
State == [r \in Requests |-> IF pc[r] \in {"incr", "expire"} THEN "asking" ELSE pc[r]]

Promise == INSTANCE RateQuota WITH state <- State, Skew <- MaxSkew

(* The limiter keeps the promise of RateQuota at every answer: counters, the *)
(* expiry of keys, deques and the fallback between them come to quotas of    *)
(* requests, also for the 429s of the memory (security.py:147-178).          *)
KeepsQuota == Promise!Spec

=============================================================================
