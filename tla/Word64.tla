------------------------------- MODULE Word64 -------------------------------
(***************************************************************************)
(* C's 64-bit integer arithmetic for the option parsers: a uint64_t (or    *)
(* the bit pattern of an int64_t) is a little-endian sequence of eight     *)
(* 8-bit limbs, so that TLC, whose integers are 32-bit, can multiply       *)
(* modulo 2^64 and tell the sign bit.  Values of any length may be formed  *)
(* (an exact product) and truncated to 64 bits as the C code does.         *)
(***************************************************************************)
EXTENDS Naturals, Sequences

LimbBase == 256
NLimbs == 8

(* Whether w is a 64-bit word.  A predicate, not the set of 2^64 words. *)
IsWord(w) == DOMAIN w = 1 .. NLimbs /\ \A i \in 1 .. NLimbs : w[i] \in 0 .. LimbBase - 1

RECURSIVE LimbsOf(_, _)
LimbsOf(n, k) ==
  IF k = 0 THEN << >> ELSE << n % LimbBase >> \o LimbsOf(n \div LimbBase, k - 1)

(* The 64-bit word of a natural number below 2^31. *)
W64(n) == LimbsOf(n, NLimbs)

(* Limb sequence of column sums, carries propagated; it grows as needed. *)
RECURSIVE Carried(_, _)
Carried(cols, c) ==
  IF cols = << >>
    THEN IF c = 0 THEN << >> ELSE << c % LimbBase >> \o Carried(<< >>, c \div LimbBase)
    ELSE LET v == Head(cols) + c
         IN << v % LimbBase >> \o Carried(Tail(cols), v \div LimbBase)

RECURSIVE ColumnSum(_, _, _, _)
ColumnSum(a, b, k, i) ==
  IF i > Len(a) THEN 0
  ELSE (IF k + 1 - i \in 1 .. Len(b) THEN a[i] * b[k + 1 - i] ELSE 0)
         + ColumnSum(a, b, k, i + 1)

(* The exact product and the exact sum of two limb sequences. *)
MulExact(a, b) ==
  Carried([k \in 1 .. Len(a) + Len(b) - 1 |-> ColumnSum(a, b, k, 1)], 0)

LimbAt(a, i) == IF i <= Len(a) THEN a[i] ELSE 0

AddExact(a, b) ==
  LET n == IF Len(a) > Len(b) THEN Len(a) ELSE Len(b)
  IN Carried([i \in 1 .. n |-> LimbAt(a, i) + LimbAt(b, i)], 0)

(* Truncation to 64 bits, and whether nothing was lost by it. *)
Trunc64(a) == [i \in 1 .. NLimbs |-> LimbAt(a, i)]
Fits64(a) == \A i \in 1 .. Len(a) : i > NLimbs => a[i] = 0

Mul64(a, b) == Trunc64(MulExact(a, b))
Add64(a, b) == Trunc64(AddExact(a, b))

(* Two's complement negation modulo 2^64, and the sign of an int64_t. *)
Negate64(a) ==
  Trunc64(Carried([i \in 1 .. NLimbs |->
                     (LimbBase - 1 - LimbAt(a, i)) + (IF i = 1 THEN 1 ELSE 0)], 0))
IsNeg64(a) == a[NLimbs] >= 128

IsZero(a) == \A i \in 1 .. Len(a) : a[i] = 0

(* The value of a word below 2^31, and whether it is below 2^31. *)
IsSmall(a) == a[4] < 128 /\ \A i \in 5 .. NLimbs : a[i] = 0
SmallOf(a) == a[1] + 256 * a[2] + 65536 * a[3] + 16777216 * a[4]

(* An int64_t above UINT_MAX, as a signed comparison. *)
AboveU32(a) == ~IsNeg64(a) /\ \E i \in 5 .. NLimbs : a[i] > 0
=============================================================================
