----------------------------- MODULE RateQuota -----------------------------
(***************************************************************************)
(* What the rate limiter promises of its answers, without counters, keys,  *)
(* expiries or deques: quotas are numbers of requests.                     *)
(*                                                                         *)
(* A request asks in a window that its process's clock is in, at most Skew *)
(* ahead.  In a window a subject is admitted Limit times among all         *)
(* processes, and limited only for Limit other requests of that window.    *)
(* Outside production a process may answer by its memory instead: it       *)
(* admits Limit times in any span of the window's length, until a crash    *)
(* makes it forget, and it limits only what such a span is full of.        *)
(* Production may refuse any request, and admits none by memory.           *)
(*                                                                         *)
(* RateLimiter.tla is the code; it is shown to implement this module.      *)
(***************************************************************************)
EXTENDS Integers, FiniteSets

CONSTANTS Requests, Subjects, Processes, Limit, Window,
          Skew     \* how far a process's clock may be ahead

VARIABLES now,         \* the time
          production,  \* fixed
          crashed,     \* processes that have forgotten what they admitted
          origin,      \* the process and subject of each request, fixed
          state,       \* "idle", "asking", "lost" or the answer of each request
          bucket,      \* the window each request asks in
          via,         \* who answered: "redis", "memory" or "none"
          at           \* when the request was admitted by memory

vars == <<now, production, crashed, origin, state, bucket, via, at>>

Key(r) == <<origin[r].subject, bucket[r]>>

AdmittedIn(k) == {q \in Requests : state[q] = "admitted" /\ via[q] = "redis" /\ Key(q) = k}

(* What the process of r has admitted by memory for its subject within the   *)
(* length of a window.                                                       *)
Recent(r) ==
  {q \in Requests : /\ state[q] = "admitted" /\ via[q] = "memory"
                    /\ origin[q] = origin[r] /\ at[q] > now - Window}

Init ==
  /\ now = 0 /\ production \in BOOLEAN /\ crashed = {}
  /\ origin \in [Requests -> [process : Processes, subject : Subjects]]
  /\ state = [r \in Requests |-> "idle"]
  /\ bucket = [r \in Requests |-> 0]
  /\ via = [r \in Requests |-> "none"]
  /\ at = [r \in Requests |-> 0]

Ask(r) ==
  /\ state[r] = "idle"
  /\ \E b \in 0 .. now + Skew :
       /\ b * Window <= now + Skew /\ now < b * Window + Window
       /\ bucket' = [bucket EXCEPT ![r] = b]
  /\ state' = [state EXCEPT ![r] = "asking"]
  /\ UNCHANGED <<now, production, crashed, origin, via, at>>

Answer(r, a, limiter) ==
  /\ state' = [state EXCEPT ![r] = a]
  /\ via' = [via EXCEPT ![r] = limiter]
  /\ UNCHANGED <<now, production, crashed, origin, bucket>>

AdmitInWindow(r) ==
  /\ state[r] = "asking"
  /\ Cardinality(AdmittedIn(Key(r))) < Limit
  /\ Answer(r, "admitted", "redis") /\ UNCHANGED at

LimitInWindow(r) ==
  /\ state[r] = "asking"
  /\ Cardinality({q \in Requests \ {r} : Key(q) = Key(r) /\ state[q] # "idle"}) >= Limit
  /\ Answer(r, "limited", "redis") /\ UNCHANGED at

AdmitByMemory(r) ==
  /\ state[r] \in {"idle", "asking"} /\ ~production
  /\ origin[r].process \notin crashed => Cardinality(Recent(r)) < Limit
  /\ Answer(r, "admitted", "memory")
  /\ at' = [at EXCEPT ![r] = now]

LimitByMemory(r) ==
  /\ state[r] \in {"idle", "asking"} /\ ~production
  /\ Cardinality(Recent(r)) >= Limit
  /\ Answer(r, "limited", "memory") /\ UNCHANGED at

Refuse(r) ==
  /\ state[r] = "asking" /\ production
  /\ Answer(r, "unavailable", "none") /\ UNCHANGED at

Crash(p) ==
  /\ crashed' = crashed \cup {p}
  /\ state' = [r \in Requests |-> IF origin[r].process = p /\ state[r] = "asking"
                                    THEN "lost" ELSE state[r]]
  /\ UNCHANGED <<now, production, origin, bucket, via, at>>

Tick ==
  /\ now' = now + 1
  /\ UNCHANGED <<production, crashed, origin, state, bucket, via, at>>

Next == \/ \E r \in Requests : \/ Ask(r) \/ AdmitInWindow(r) \/ LimitInWindow(r)
                               \/ AdmitByMemory(r) \/ LimitByMemory(r) \/ Refuse(r)
        \/ \E p \in Processes : Crash(p)
        \/ Tick

Spec == Init /\ [][Next]_vars

=============================================================================
