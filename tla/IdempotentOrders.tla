-------------------------- MODULE IdempotentOrders --------------------------
(***************************************************************************)
(* What POST /api/v1/orders promises its callers, without connections,     *)
(* transactions or statements: every call creates at most one order, all   *)
(* calls that share a (principal, Idempotency-Key) create at most one      *)
(* order between them, and an answer other than an error tells the truth   *)
(* about the committed data.  An error (500) promises nothing: the order   *)
(* may exist, may appear later or may never appear.                        *)
(*                                                                         *)
(* CreateOrder.tla is the code; it is shown to implement this module.      *)
(***************************************************************************)
EXTENDS Integers

CONSTANTS Calls,       \* one element per HTTP call; also the id of its order
          Principals,  \* authenticated subjects, "anonymous" included
          Keys,        \* values of the Idempotency-Key header
          Bodies,      \* request bodies, up to the canonical form that is hashed
          NoKey,       \* the header is absent
          None         \* no request, no answer, no order

VARIABLES phase,   \* of each call: "idle", "running" or "over"
          req,     \* the request of each call
          answer,  \* the HTTP answer of each call, None if it has none
          made,    \* calls whose order exists
          bound    \* the call whose order a (principal, key) pair stands for

vars == <<phase, req, answer, made, bound>>

Slots == Principals \X Keys
Requests == [principal : Principals, key : Keys \cup {NoKey}, body : Bodies]
Answers == [status : {200, 409, 500}, order : Calls \cup {None}]

Slot(r) == <<r.principal, r.key>>

Init == /\ phase = [c \in Calls |-> "idle"]
        /\ req = [c \in Calls |-> None]
        /\ answer = [c \in Calls |-> None]
        /\ made = {}
        /\ bound = [s \in Slots |-> None]

Submit(c) ==
  /\ phase[c] = "idle"
  /\ \E r \in Requests : req' = [req EXCEPT ![c] = r]
  /\ phase' = [phase EXCEPT ![c] = "running"]
  /\ UNCHANGED <<answer, made, bound>>

(* The order of call c and the binding of its key appear in one step, once. *)
(* A call already answered with an error may still take effect.             *)
Commit(c) ==
  /\ phase[c] # "idle"
  /\ c \notin made
  /\ answer[c] = None \/ answer[c].status = 500
  /\ made' = made \cup {c}
  /\ IF req[c].key = NoKey
       THEN bound' = bound
       ELSE /\ bound[Slot(req[c])] = None
            /\ bound' = [bound EXCEPT ![Slot(req[c])] = c]
  /\ UNCHANGED <<phase, req, answer>>

(* The answers that are true of the committed data when they are given. *)
Truthful(c, a) ==
  \/ a = [status |-> 500, order |-> None]
  \/ /\ a.status = 200
     /\ a.order \in made
     /\ req[a.order].body = req[c].body
     /\ a.order # c => /\ req[c].key # NoKey
                       /\ bound[Slot(req[c])] = a.order
  \/ /\ a = [status |-> 409, order |-> None]
     /\ c \notin made
     /\ req[c].key # NoKey
     /\ bound[Slot(req[c])] # None
     /\ req[bound[Slot(req[c])]].body # req[c].body

Answer(c) ==
  /\ phase[c] = "running"
  /\ \E a \in Answers : /\ Truthful(c, a)
                        /\ answer' = [answer EXCEPT ![c] = a]
  /\ phase' = [phase EXCEPT ![c] = "over"]
  /\ UNCHANGED <<req, made, bound>>

(* The writer stops: every running call ends without an answer. *)
Drop ==
  /\ phase' = [c \in Calls |-> IF phase[c] = "running" THEN "over" ELSE phase[c]]
  /\ UNCHANGED <<req, answer, made, bound>>

Next == (\E c \in Calls : Submit(c) \/ Commit(c) \/ Answer(c)) \/ Drop

Spec == Init /\ [][Next]_vars
=============================================================================
