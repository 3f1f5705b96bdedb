----------------------------- MODULE OrderBody -----------------------------
(***************************************************************************)
(* What may be in the body of POST /api/v1/orders, where it is judged, and *)
(* what becomes of it: the validation of the writer                        *)
(* (src/app/writer_service/main.py), the hash an idempotency key is bound  *)
(* to (src/app/common/repository.py) and the row the table accepts         *)
(* (src/alembic/versions/0001_init_schema.py).                             *)
(*                                                                         *)
(* A Decimal keeps the sign and the digits it was written with: 1.0 and    *)
(* 1.00, and 0.0 and -0.0, are the same number and two texts.  An amount   *)
(* is its text: a sign, and a number of units of 10^-scale.                *)
(***************************************************************************)
EXTENDS Integers

CONSTANTS
  TableMax,   \* the CHECK of orders.amount: amount <= 1000000
  MaxUserId,  \* the largest bigint
  Places,     \* decimal places of numeric(12, 2) and of the request
  Digits,     \* digits of numeric(12, 2) and of the request
  MaxScale,   \* bound: digits after the point in the amounts tried
  MaxUnits    \* bound: units in the amounts tried

ASSUME TableAssumption == TableMax \in Nat /\ MaxUserId \in Nat \ {0}
ASSUME ScaleAssumption ==
  /\ Places \in Nat /\ Digits \in Nat /\ MaxScale \in Nat /\ MaxUnits \in Nat
  /\ Places < Digits /\ Places <= MaxScale

Amounts == [sign : {-1, 1}, units : 0 .. MaxUnits, scale : 0 .. MaxScale]
Statuses == {"pending", "paid", "unknown"}    \* "unknown": none of OrderStatus
(* "absent": left out; "large": over max_payload_bytes; "unstorable": JSON  *)
(* for Python and not for jsonb (NaN, Infinity, \u0000).                    *)
Payloads == {"absent", "{}", "small", "large", "unstorable"}
Bodies == [user_id : 0 .. MaxUserId + 1, amount : Amounts, status : Statuses, payload : Payloads]

(* Powers of ten. *)
TenTo[n \in Nat] == IF n = 0 THEN 1 ELSE 10 * TenTo[n - 1]

(* The number itself, in units of 10^-MaxScale. *)
Magnitude(a) == a.units * TenTo[MaxScale - a.scale]
Number(a) == a.sign * Magnitude(a)
Whole(n) == n * TenTo[MaxScale]

(* What the last place of numeric(12, 2) is worth in these units. *)
Cent == TenTo[MaxScale - Places]

(* Mutant: the places are not limited, and PostgreSQL rounds. *)
HasPlacesAny(a) == TRUE

(* pydantic's decimal_places counts the digits that remain when the zeros   *)
(* at the end are dropped: 1.000 has none.                                  *)
HasPlaces(a) == Magnitude(a) % Cent = 0

(* max_digits leaves Digits - Places of them for the whole part. *)
HasDigits(a) == Magnitude(a) < Whole(TenTo[Digits - Places])

InRange(a, max) == Number(a) >= 0 /\ Number(a) <= Whole(max)

(* Mutant: the sign is not looked at. *)
AcceptableAnySign(b, max) ==
  /\ b.user_id > 0
  /\ HasPlaces(b.amount) /\ HasDigits(b.amount) /\ Number(b.amount) <= Whole(max)
  /\ b.status # "unknown" /\ b.payload # "large"

(* CreateOrderRequest, where max is settings.max_order_amount. *)
Acceptable(b, max) ==
  /\ b.user_id > 0
  /\ HasPlaces(b.amount) /\ HasDigits(b.amount) /\ InRange(b.amount, max)
  /\ b.status # "unknown"
  /\ b.payload # "large"

(* A refusal whose report is no JSON.  The handler puts exc.errors() as it is *)
(* into the answer, and there the bound of "ge" is a Decimal and the error of *)
(* a validator an exception: a negative amount, one over the maximum, or a    *)
(* payload that is too large.  Places and digits are looked at before the     *)
(* range, and their reports are numbers.                                      *)
Unprintable(b, max) ==
  \/ HasPlaces(b.amount) /\ HasDigits(b.amount) /\ ~InRange(b.amount, max)
  \/ b.payload = "large"

Payload(b) == IF b.payload = "absent" THEN "{}" ELSE b.payload

(* The types and CHECKs of orders. *)
Storable(b) ==
  /\ b.user_id \in 1 .. MaxUserId
  /\ Number(b.amount) \in 0 .. Whole(TableMax)
  /\ b.status # "unknown"
  /\ Payload(b) # "unstorable"

(* The row: numeric(12, 2) rounds to its places, half away from zero. *)
Row(b) ==
  [user_id |-> b.user_id, amount |-> (2 * Number(b.amount) + Cent) \div (2 * Cent),
   status |-> b.status, payload |-> Payload(b)]

(* Mutant: the digits are hashed without the point. *)
RequestHashOfDigits(b) ==
  [user_id |-> b.user_id, amount |-> <<b.amount.sign, b.amount.units>>, status |-> b.status,
   payload |-> Payload(b)]

(* idempotency_request_hash, which hashes format(amount, "f"): SHA-256 of a  *)
(* canonical text tells texts apart.                                         *)
RequestHash(b) ==
  [user_id |-> b.user_id, amount |-> b.amount, status |-> b.status, payload |-> Payload(b)]

=============================================================================
