------------------------------- MODULE UuidV7 -------------------------------
(***************************************************************************)
(* new_uuidv7 of src/app/common/uuidv7.py: the number an order is named    *)
(* by, most significant part first the millisecond of the process's clock, *)
(* the version, 12 random bits, the variant and 62 random bits.  The       *)
(* constants are the sizes of the three variable fields, not their widths  *)
(* in bits.                                                                *)
(***************************************************************************)
EXTENDS Integers

CONSTANTS Stamps,  \* 2^48
          RandA,   \* 2^12
          RandB    \* 2^62

ASSUME SizesAssumption == {Stamps, RandA, RandB} \subseteq Nat \ {0}

Below == 4 * RandB                 \* what one unit of rand_a is worth
Millisecond == 16 * RandA * Below  \* what one of the timestamp is worth

(* Mutant: the mask leaves the highest bit of the timestamp out. *)
NewUuidNarrow(ms, a, b) ==
  (ms % (Stamps \div 2)) * Millisecond + (7 * RandA + a) * Below + 2 * RandB + b

NewUuid(ms, a, b) ==
  (ms % Stamps) * Millisecond + (7 * RandA + a) * Below + 2 * RandB + b

=============================================================================
