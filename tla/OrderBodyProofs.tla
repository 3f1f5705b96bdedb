-------------------------- MODULE OrderBodyProofs --------------------------
(***************************************************************************)
(* What the writer accepts the table stores exactly, and the hash of a     *)
(* body names its row: for every number of places and digits and every     *)
(* limit.                                                                  *)
(*                                                                         *)
(* The library states induction for predicates, which are parameters that  *)
(* the provers do not instantiate.  Here it is derived for sets, from the  *)
(* fact that finite sets are well-founded under inclusion.                 *)
(***************************************************************************)
EXTENDS OrderBody, FiniteSetTheorems, WellFoundedInduction, TLAPS

LEMMA Induction ==
  ASSUME NEW S \in SUBSET Nat, 0 \in S, \A n \in Nat : n \in S => n + 1 \in S
  PROVE  S = Nat
<1> SUFFICES ASSUME NEW m \in Nat, m \notin S PROVE FALSE
  OBVIOUS
<1> DEFINE Missing == {0 .. n : n \in Nat \ S}
<1>1. Missing \subseteq FiniteSubsetsOf(Nat) /\ Missing # {}
  <2>1. ASSUME NEW n \in Nat PROVE 0 .. n \in FiniteSubsetsOf(Nat)
    <3>1. IsFiniteSet(0 .. n) /\ 0 .. n \subseteq Nat
      BY FS_Interval
    <3> QED  BY <3>1 DEF FiniteSubsetsOf
  <2> QED  BY <2>1
<1>2. PICK x \in Missing : \A y \in Missing : ~ (<<y, x>> \in StrictSubsetOrdering(Nat))
  <2>1. IsWellFoundedOn(StrictSubsetOrdering(Nat), FiniteSubsetsOf(Nat))
    BY FS_StrictSubsetOrderingWellFounded
  <2> HIDE DEF Missing
  <2> QED  BY <1>1, <2>1, WFMin
<1>3. PICK n \in Nat \ S : x = 0 .. n
  OBVIOUS
<1>4. n # 0 /\ n - 1 \in Nat /\ n - 1 \notin S
  <2>1. n # 0 /\ n - 1 \in Nat /\ (n - 1) + 1 = n
    BY <1>3
  <2> QED  BY <2>1
<1>5. 0 .. (n - 1) \in Missing
  BY <1>4
<1>6. <<0 .. (n - 1), x>> \in StrictSubsetOrdering(Nat)
  <2>1. /\ 0 .. (n - 1) \in SUBSET Nat /\ x \in SUBSET Nat
        /\ 0 .. (n - 1) \subseteq x /\ n \in x /\ n \notin 0 .. (n - 1)
    BY <1>3, <1>4
  <2> QED  BY <2>1 DEF StrictSubsetOrdering
<1> QED  BY <1>2, <1>5, <1>6

-----------------------------------------------------------------------------
(* Tables of the first powers: that they exist and agree is what makes the   *)
(* recursive definition of TenTo one.                                        *)
IsTable(g, n) ==
  g \in [0 .. n -> Nat \ {0}] /\ g[0] = 1 /\ \A i \in 1 .. n : g[i] = 10 * g[i - 1]

LEMMA TablesExist == \A n \in Nat : \E g : IsTable(g, n)
<1> DEFINE S == {n \in Nat : \E g : IsTable(g, n)}
<1>1. 0 \in S
  <2>1. IsTable([i \in 0 .. 0 |-> 1], 0)
    BY DEF IsTable
  <2> QED  BY <2>1
<1>2. ASSUME NEW n \in Nat, n \in S PROVE n + 1 \in S
  <2>1. PICK g : IsTable(g, n)
    BY <1>2
  <2> DEFINE h == [i \in 0 .. n + 1 |-> IF i = n + 1 THEN 10 * g[n] ELSE g[i]]
  <2>2. h \in [0 .. n + 1 -> Nat \ {0}] /\ h[0] = 1
    BY <2>1 DEF IsTable
  <2>3. ASSUME NEW i \in 1 .. n + 1 PROVE h[i] = 10 * h[i - 1]
    <3>1. i - 1 \in 0 .. n /\ h[i - 1] = g[i - 1]
      OBVIOUS
    <3>2. CASE i = n + 1
      BY <3>1, <3>2
    <3>3. CASE i # n + 1
      <4>1. i \in 1 .. n /\ h[i] = g[i]
        BY <3>3
      <4> QED  BY <2>1, <3>1, <4>1 DEF IsTable
    <3> QED  BY <3>2, <3>3
  <2> HIDE DEF h
  <2>4. IsTable(h, n + 1)
    BY <2>2, <2>3 DEF IsTable
  <2> QED  BY <2>4
<1> HIDE DEF S
<1>3. S = Nat
  BY <1>1, <1>2, Induction DEF S
<1> QED  BY <1>3 DEF S

LEMMA TablesAgree ==
  ASSUME NEW n \in Nat, NEW m \in Nat, NEW g, NEW h, IsTable(g, n), IsTable(h, m)
  PROVE  \A i \in Nat : i <= n /\ i <= m => g[i] = h[i]
<1> DEFINE S == {i \in Nat : i <= n /\ i <= m => g[i] = h[i]}
<1>1. 0 \in S
  BY DEF IsTable
<1>2. ASSUME NEW i \in Nat, i \in S PROVE i + 1 \in S
  <2> SUFFICES ASSUME i + 1 <= n, i + 1 <= m PROVE g[i + 1] = h[i + 1]
    OBVIOUS
  <2>1. g[i] = h[i] /\ i + 1 \in 1 .. n /\ i + 1 \in 1 .. m /\ (i + 1) - 1 = i
    BY <1>2
  <2> QED  BY <2>1 DEF IsTable
<1> HIDE DEF S
<1>3. S = Nat
  BY <1>1, <1>2, Induction DEF S
<1> QED  BY <1>3 DEF S

LEMMA TenToDefined == TenTo = [n \in Nat |-> IF n = 0 THEN 1 ELSE 10 * TenTo[n - 1]]
<1> DEFINE T(n) == CHOOSE g : IsTable(g, n)
           f == [n \in Nat |-> T(n)[n]]
           F(g) == [n \in Nat |-> IF n = 0 THEN 1 ELSE 10 * g[n - 1]]
<1>1. \A n \in Nat : IsTable(T(n), n)
  BY TablesExist
<1> HIDE DEF T
<1>2. f = F(f)
  <2>1. ASSUME NEW n \in Nat PROVE f[n] = IF n = 0 THEN 1 ELSE 10 * f[n - 1]
    <3>1. CASE n = 0
      BY <1>1, <3>1 DEF IsTable
    <3>2. CASE n # 0
      <4>1. n - 1 \in Nat /\ n - 1 <= n /\ n \in 1 .. n
        BY <3>2
      <4>2. T(n)[n - 1] = T(n - 1)[n - 1]
        BY <1>1, <4>1, TablesAgree
      <4>3. T(n)[n] = 10 * T(n)[n - 1]
        BY <1>1, <4>1 DEF IsTable
      <4> QED  BY <3>2, <4>1, <4>2, <4>3
    <3> QED  BY <3>1, <3>2
  <2> HIDE DEF f
  <2>2. f = [n \in Nat |-> f[n]]
    BY DEF f
  <2> QED  BY <2>1, <2>2
<1>3. TenTo = CHOOSE g : g = F(g)
  BY DEF TenTo
<1> HIDE DEF f, F
<1>4. TenTo = F(TenTo)
  BY <1>2, <1>3
<1> QED  BY <1>4 DEF F

LEMMA TenToSteps == TenTo[0] = 1 /\ \A n \in Nat : TenTo[n + 1] = 10 * TenTo[n]
<1>1. TenTo[0] = 1
  BY TenToDefined
<1>2. ASSUME NEW n \in Nat PROVE TenTo[n + 1] = 10 * TenTo[n]
  <2>1. n + 1 \in Nat /\ n + 1 # 0 /\ (n + 1) - 1 = n
    OBVIOUS
  <2> QED  BY <2>1, TenToDefined
<1> QED  BY <1>1, <1>2

LEMMA TenToPositive == \A n \in Nat : TenTo[n] \in Nat \ {0}
<1> DEFINE S == {n \in Nat : TenTo[n] \in Nat \ {0}}
<1>1. 0 \in S
  BY TenToSteps
<1>2. ASSUME NEW n \in Nat, n \in S PROVE n + 1 \in S
  BY <1>2, TenToSteps
<1> HIDE DEF S
<1>3. S = Nat
  BY <1>1, <1>2, Induction DEF S
<1> QED  BY <1>3 DEF S

LEMMA TenToAdds == \A m, n \in Nat : TenTo[m + n] = TenTo[m] * TenTo[n]
<1> SUFFICES ASSUME NEW m \in Nat PROVE \A n \in Nat : TenTo[m + n] = TenTo[m] * TenTo[n]
  OBVIOUS
<1> DEFINE S == {n \in Nat : TenTo[m + n] = TenTo[m] * TenTo[n]}
<1>1. 0 \in S
  BY TenToSteps, TenToPositive
<1>2. ASSUME NEW n \in Nat, n \in S PROVE n + 1 \in S
  <2>1. TenTo[m + n] = TenTo[m] * TenTo[n] /\ m + n \in Nat /\ m + (n + 1) = (m + n) + 1
    BY <1>2
  <2>2. TenTo[m + (n + 1)] = 10 * (TenTo[m] * TenTo[n]) /\ TenTo[n + 1] = 10 * TenTo[n]
    BY <2>1, TenToSteps
  <2>3. TenTo[m] \in Nat /\ TenTo[n] \in Nat
    BY TenToPositive
  <2>4. 10 * (TenTo[m] * TenTo[n]) = TenTo[m] * (10 * TenTo[n])
    BY <2>3
  <2> QED  BY <2>2, <2>4
<1> HIDE DEF S
<1>3. S = Nat
  BY <1>1, <1>2, Induction DEF S
<1> QED  BY <1>3 DEF S

-----------------------------------------------------------------------------
(* The quotient is the only number that the remainder leaves. *)
LEMMA QuotientOf ==
  ASSUME NEW q \in Nat, NEW w \in Nat \ {0}, NEW r \in 0 .. (w - 1)
  PROVE  (q * w + r) \div w = q
<1> DEFINE p == (q * w + r) \div w
<1>1. q * w \in Nat /\ q * w + r \in Nat
  OBVIOUS
<1>2. p \in Nat /\ p * w <= q * w + r /\ q * w + r < p * w + w
  <2>1. \A x \in Nat : x \div w \in Nat /\ (x \div w) * w <= x /\ x < (x \div w) * w + w
    OBVIOUS
  <2> QED  BY <1>1, <2>1
<1> HIDE DEF p
<1>3. ~(p < q)
  <2> SUFFICES ASSUME p < q PROVE FALSE
    OBVIOUS
  <2>1. PICK k \in Nat : q = p + 1 + k
    <3>1. q - p - 1 \in Nat /\ q = p + 1 + (q - p - 1)
      BY <1>2
    <3> QED  BY <3>1
  <2>2. q * w = p * w + w + k * w /\ k * w \in Nat /\ p * w \in Nat
    BY <1>2, <2>1
  <2> QED  BY <1>1, <1>2, <2>2
<1>4. ~(q < p)
  <2> SUFFICES ASSUME q < p PROVE FALSE
    OBVIOUS
  <2>1. PICK k \in Nat : p = q + 1 + k
    <3>1. p - q - 1 \in Nat /\ p = q + 1 + (p - q - 1)
      BY <1>2
    <3> QED  BY <3>1
  <2>2. p * w = q * w + w + k * w /\ k * w \in Nat
    BY <1>2, <2>1
  <2> QED  BY <1>1, <1>2, <2>2
<1> QED  BY <1>2, <1>3, <1>4 DEF p

(* Rounding to a multiple of u leaves a multiple of u alone. *)
LEMMA NothingToRound ==
  ASSUME NEW n \in Nat, NEW u \in Nat \ {0}, n % u = 0
  PROVE  /\ (2 * n + u) \div (2 * u) \in Nat
         /\ ((2 * n + u) \div (2 * u)) * u = n
<1>1. PICK q \in Nat : n = q * u
  <2>1. n \div u \in Nat /\ n = (n \div u) * u + (n % u)
    OBVIOUS
  <2>2. PICK q \in Nat : q = n \div u
    BY <2>1
  <2>3. n = q * u
    BY <2>1, <2>2
  <2> QED  BY <2>3
<1>2. PICK w \in Nat \ {0} : w = 2 * u
  OBVIOUS
<1>3. 2 * n + u = q * w + u
  BY <1>1, <1>2
<1>4. u \in 0 .. (w - 1)
  BY <1>2
<1>5. (2 * n + u) \div (2 * u) = q
  BY <1>2, <1>3, <1>4, QuotientOf
<1> QED  BY <1>1, <1>5

(* A product with a positive factor is as large as the other factor. *)
LEMMA TimesOrder ==
  ASSUME NEW a \in Int, NEW b \in Int, NEW u \in Nat \ {0}
  PROVE  (a * u <= b * u) <=> (a <= b)
<1>1. CASE a <= b
  <2>1. PICK k \in Nat : b = a + k
    <3>1. b - a \in Nat /\ b = a + (b - a)
      BY <1>1
    <3> QED  BY <3>1
  <2>2. b * u = a * u + k * u /\ k * u \in Nat /\ a * u \in Int
    BY <2>1
  <2> QED  BY <1>1, <2>2
<1>2. CASE b < a
  <2>1. PICK k \in Nat : a = b + 1 + k
    <3>1. a - b - 1 \in Nat /\ a = b + 1 + (a - b - 1)
      BY <1>2
    <3> QED  BY <3>1
  <2>2. a * u = b * u + u + k * u /\ k * u \in Nat /\ b * u \in Int
    BY <2>1
  <2> QED  BY <1>2, <2>2
<1> QED  BY <1>1, <1>2

-----------------------------------------------------------------------------
LEMMA Units ==
  /\ Cent \in Nat \ {0} /\ TenTo[Places] \in Nat \ {0} /\ TenTo[MaxScale] \in Nat \ {0}
  /\ TenTo[MaxScale] = Cent * TenTo[Places]
<1>1. MaxScale - Places \in Nat /\ (MaxScale - Places) + Places = MaxScale
  BY ScaleAssumption
<1>2. TenTo[MaxScale] = TenTo[MaxScale - Places] * TenTo[Places]
  BY <1>1, ScaleAssumption, TenToAdds
<1> QED  BY <1>1, <1>2, ScaleAssumption, TenToPositive DEF Cent

LEMMA NumberOf ==
  ASSUME NEW a \in Amounts
  PROVE  /\ TenTo[MaxScale - a.scale] \in Nat \ {0}
         /\ Magnitude(a) = a.units * TenTo[MaxScale - a.scale]
         /\ Magnitude(a) \in Nat /\ Number(a) \in Int
         /\ a.sign = 1 => Number(a) = Magnitude(a)
         /\ a.sign = -1 => Number(a) = -Magnitude(a)
<1>1. a.units \in Nat /\ MaxScale - a.scale \in Nat /\ a.sign \in {-1, 1}
  BY ScaleAssumption DEF Amounts
<1>2. TenTo[MaxScale - a.scale] \in Nat \ {0}
  BY <1>1, TenToPositive
<1>3. Magnitude(a) = a.units * TenTo[MaxScale - a.scale] /\ Magnitude(a) \in Nat
  BY <1>1, <1>2 DEF Magnitude
<1>4. \A m \in Nat : 1 * m = m /\ (-1) * m = -m
  OBVIOUS
<1>5. /\ a.sign = 1 => Number(a) = Magnitude(a)
      /\ a.sign = -1 => Number(a) = -Magnitude(a)
  BY <1>3, <1>4 DEF Number
<1> QED  BY <1>1, <1>2, <1>3, <1>5

(* The number of an accepted amount is its magnitude, the sign of a zero     *)
(* notwithstanding.                                                        *)
LEMMA AcceptedNumber ==
  ASSUME NEW b \in Bodies, NEW max \in Nat, Acceptable(b, max)
  PROVE  /\ Number(b.amount) = Magnitude(b.amount)
         /\ Number(b.amount) \in Nat /\ Number(b.amount) % Cent = 0
         /\ Number(b.amount) <= Whole(max)
<1>1. b.amount \in Amounts /\ b.amount.sign \in {-1, 1}
  BY DEF Bodies, Amounts
<1>2. /\ Number(b.amount) >= 0 /\ Number(b.amount) <= Whole(max)
      /\ Magnitude(b.amount) % Cent = 0
  BY DEF Acceptable, InRange, HasPlaces
<1>3. Number(b.amount) = Magnitude(b.amount) /\ Magnitude(b.amount) \in Nat
  BY <1>1, <1>2, NumberOf
<1> QED  BY <1>2, <1>3

(* What numeric(12, 2) makes of an accepted amount: the cents of the number. *)
LEMMA CentsOf ==
  ASSUME NEW b \in Bodies, NEW max \in Nat, Acceptable(b, max)
  PROVE  Row(b).amount \in Nat /\ Row(b).amount * Cent = Number(b.amount)
<1>1. Number(b.amount) \in Nat /\ Number(b.amount) % Cent = 0
  BY AcceptedNumber
<1> QED  BY <1>1, Units, NothingToRound DEF Row

(* An accepted amount is stored as it was sent, for every number of places   *)
(* of the column, digits of the body and limit of the settings: there is     *)
(* nothing to round (main.py:26, 0001_init_schema.py:39).                    *)
THEOREM StoredAsSent ==
  ASSUME NEW b \in Bodies, NEW max \in Nat, Acceptable(b, max)
  PROVE  Whole(Row(b).amount) = Number(b.amount) * TenTo[Places]
<1>1. PICK r \in Nat, n \in Nat : r = Row(b).amount /\ n = Number(b.amount) /\ r * Cent = n
  <2>1. Number(b.amount) \in Nat
    BY AcceptedNumber
  <2>2. Row(b).amount \in Nat /\ Row(b).amount * Cent = Number(b.amount)
    BY CentsOf
  <2> QED  BY <2>1, <2>2
<1>2. PICK c \in Nat, t \in Nat : c = Cent /\ t = TenTo[Places] /\ TenTo[MaxScale] = c * t
  BY Units
<1>3. r * (c * t) = (r * c) * t
  BY <1>1, <1>2
<1> QED  BY <1>1, <1>2, <1>3 DEF Whole

(* Of two accepted bodies, the hashes are equal exactly if the rows are and  *)
(* the amounts have equally many digits after the point and one sign: a      *)
(* replay by the hash never hides another order (repository.py:37-44).       *)
THEOREM HashNamesRow ==
  ASSUME NEW max \in Nat, NEW b \in Bodies, NEW c \in Bodies, Acceptable(b, max), Acceptable(c, max)
  PROVE  RequestHash(b) = RequestHash(c) <=>
           Row(b) = Row(c) /\ b.amount.scale = c.amount.scale /\ b.amount.sign = c.amount.sign
<1>1. RequestHash(b) = RequestHash(c) =>
        Row(b) = Row(c) /\ b.amount.scale = c.amount.scale /\ b.amount.sign = c.amount.sign
  BY DEF RequestHash, Row
<1>2. ASSUME Row(b) = Row(c), b.amount.scale = c.amount.scale, b.amount.sign = c.amount.sign
      PROVE  RequestHash(b) = RequestHash(c)
  <2>1. Magnitude(b.amount) = Magnitude(c.amount)
    BY <1>2, CentsOf, AcceptedNumber
  <2>2. PICK u \in Nat \ {0} : u = TenTo[MaxScale - b.amount.scale]
    BY NumberOf DEF Bodies
  <2>3. /\ b.amount.units \in Int /\ c.amount.units \in Int
        /\ b.amount.units * u = c.amount.units * u
    BY <1>2, <2>1, <2>2, NumberOf DEF Bodies, Amounts
  <2>4. b.amount.units = c.amount.units
    <3>1. b.amount.units * u <= c.amount.units * u /\ c.amount.units * u <= b.amount.units * u
      BY <2>3
    <3>2. b.amount.units <= c.amount.units /\ c.amount.units <= b.amount.units
      BY <2>3, <3>1, TimesOrder
    <3> QED  BY <2>3, <3>2
  <2>5. b.amount = c.amount
    BY <1>2, <2>4 DEF Bodies, Amounts
  <2>6. b.user_id = c.user_id /\ b.status = c.status /\ Payload(b) = Payload(c)
    BY <1>2 DEF Row
  <2> QED  BY <2>5, <2>6 DEF RequestHash
<1> QED  BY <1>1, <1>2

(* What the writer accepts the table accepts, but for a user id over bigint, *)
(* a payload that is no jsonb, and a limit of the settings over the CHECK.   *)
THEOREM AcceptedIsStorable ==
  ASSUME NEW b \in Bodies, NEW max \in Nat, Acceptable(b, max),
         b.user_id <= MaxUserId, b.payload # "unstorable", max <= TableMax
  PROVE  Storable(b)
<1>1. b.user_id \in 1 .. MaxUserId
  BY TableAssumption DEF Bodies, Acceptable
<1>2. Number(b.amount) \in 0 .. Whole(TableMax)
  <2>1. Number(b.amount) \in Nat /\ Number(b.amount) <= max * TenTo[MaxScale]
    BY AcceptedNumber DEF Whole
  <2>2. max * TenTo[MaxScale] <= TableMax * TenTo[MaxScale]
    BY Units, TableAssumption, TimesOrder
  <2>3. max * TenTo[MaxScale] \in Nat /\ TableMax * TenTo[MaxScale] \in Nat
    BY Units, TableAssumption
  <2> QED  BY <2>1, <2>2, <2>3 DEF Whole
<1> QED  BY <1>1, <1>2 DEF Storable, Acceptable, Payload
=============================================================================
