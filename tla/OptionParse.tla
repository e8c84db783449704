---------------------------- MODULE OptionParse -----------------------------
(***************************************************************************)
(* The value parsers of the option registry (src/libdtrace/dt_options.c):  *)
(* strtoull/strtoll as dt_options.c calls them (base 0), dt_optval_parse() *)
(* for sizes, and the string-to-value parts of dt_opt_runtime() and        *)
(* dt_opt_rate().  Arguments are TLA+ strings; a C index i is position     *)
(* i + 1 here, and reading past the end gives "", the NUL byte.  Values    *)
(* are 64-bit words (Word64); a parser's verdict is a record               *)
(* [ok |-> BOOLEAN, val |-> word].                                         *)
(***************************************************************************)
EXTENDS Integers, Sequences, Word64, CStr

LowerDigits == "0123456789abcdefghijklmnopqrstuvwxyz"
UpperDigits == "0123456789ABCDEFGHIJKLMNOPQRSTUVWXYZ"

(* The value of c as a digit of any base up to 36, or 36 for a non-digit, *)
(* and its value in the given base, or -1.                                 *)
Digit36(c) ==
  IF \E i \in 1 .. 36 : c \in {Chr(LowerDigits, i), Chr(UpperDigits, i)}
    THEN CHOOSE d \in 0 .. 35 : c \in {Chr(LowerDigits, d + 1), Chr(UpperDigits, d + 1)}
    ELSE 36
BelowBase(d, base) == IF d < base THEN d ELSE -1
DigitOf(c, base) == BelowBase(Digit36(c), base)

(* strcasecmp's folding: the lower-case form of a string. *)
LowerChar(c) ==
  IF \E i \in 11 .. 36 : c = Chr(UpperDigits, i)
    THEN Chr(LowerDigits, CHOOSE i \in 11 .. 36 : c = Chr(UpperDigits, i))
    ELSE c
RECURSIVE Lower(_)
Lower(s) == IF s = "" THEN "" ELSE LowerChar(Chr(s, 1)) \o Lower(SubSeq(s, 2, Len(s)))

RECURSIVE SkipSpace(_, _)
SkipSpace(s, i) == IF Chr(s, i) \in {" ", "\t"} THEN SkipSpace(s, i + 1) ELSE i

RECURSIVE DigitRun(_, _, _)
DigitRun(s, i, base) == IF DigitOf(Chr(s, i), base) >= 0 THEN 1 + DigitRun(s, i + 1, base) ELSE 0

(* The n digits starting at position i, accumulated into 64 bits, and    *)
(* whether the value ever left them.  Step v is acc * base + digit,       *)
(* exactly; testing its truncation for being a word makes TLC evaluate it *)
(* before the next digit.                                                  *)
RECURSIVE Accumulate(_, _, _, _, _)
AccStep(s, i, n, base, over, v) ==
  IF IsWord(Trunc64(v))
    THEN Accumulate(s, i + 1, n - 1, base, [val |-> Trunc64(v), over |-> over \/ ~Fits64(v)])
    ELSE [val |-> Trunc64(v), over |-> TRUE]
Accumulate(s, i, n, base, acc) ==
  IF n = 0 THEN acc
  ELSE AccStep(s, i, n, base, acc.over,
               AddExact(MulExact(acc.val, << base >>), << DigitOf(Chr(s, i), base) >>))

ULLongMax == [k \in 1 .. NLimbs |-> LimbBase - 1]

(***************************************************************************)
(* strtoull(s, &end, 0) together with the sign of strtoll(s, NULL, 0): skip *)
(* blanks, an optional sign, a 0x prefix (hexadecimal) or a leading 0     *)
(* (octal), then digits.  No digit leaves end at s.  A magnitude past     *)
(* 2^64 - 1 gives ULLONG_MAX and ERANGE; a '-' negates modulo 2^64.       *)
(* strtoll is negative exactly when a '-' precedes a non-zero magnitude   *)
(* (LLONG_MIN when it overflows).  Each stage passes what it found to the *)
(* next: i0 after the blanks, i1 after the sign, i2 at the first digit.   *)
(***************************************************************************)
IsHexPrefix(s, i1) ==
  Chr(s, i1) = "0" /\ Chr(s, i1 + 1) \in {"x", "X"} /\ DigitOf(Chr(s, i1 + 2), 16) >= 0

ScanResult(neg, i2, n, acc) ==
  [end    |-> IF n > 0 THEN i2 + n ELSE 1,
   val    |-> IF acc.over THEN ULLongMax
              ELSE IF neg THEN Negate64(acc.val) ELSE acc.val,
   erange |-> acc.over,
   llneg  |-> neg /\ (acc.over \/ ~IsZero(acc.val))]

ScanDigits(s, neg, base, i2, n) ==
  ScanResult(neg, i2, n, Accumulate(s, i2, n, base, [val |-> W64(0), over |-> FALSE]))

ScanBase(s, neg, base, i2) == ScanDigits(s, neg, base, i2, DigitRun(s, i2, base))

ScanPrefix(s, neg, i1, hex) ==
  IF hex THEN ScanBase(s, neg, 16, i1 + 2)
  ELSE ScanBase(s, neg, IF Chr(s, i1) = "0" THEN 8 ELSE 10, i1)

ScanSign(s, i0) ==
  LET i1 == IF Chr(s, i0) \in {"+", "-"} THEN i0 + 1 ELSE i0
  IN ScanPrefix(s, Chr(s, i0) = "-", i1, IsHexPrefix(s, i1))

StrToULL(s) == ScanSign(s, SkipSpace(s, 1))

RECURSIVE Pow1024(_)
Pow1024(k) == IF k = 0 THEN W64(1) ELSE Mul64(Pow1024(k - 1), W64(1024))

(* The switch of dt_optval_parse on the last character: t, g, m and k     *)
(* fall through to each other, each multiplying by 1024.                  *)
SuffixPower(c) ==
  CASE c \in {"t", "T"} -> 4 [] c \in {"g", "G"} -> 3
    [] c \in {"m", "M"} -> 2 [] c \in {"k", "K"} -> 1 [] OTHER -> 0

(* The verdict for suffix power k: r.val * 1024^k, refused when the       *)
(* number does not end where the suffix (or the string) begins, when the  *)
(* product or strtoll is negative, or on ERANGE.                          *)
SizeVerdict(len, r, k, rval) ==
  [ok  |-> ~( (k > 0 /\ r.end # len) \/ (k = 0 /\ r.end # len + 1)
              \/ IsNeg64(rval) \/ r.llneg \/ r.erange ),
   val |-> rval]

(***************************************************************************)
(* dt_optval_parse(arg, &val).  For an empty argument the switch reads     *)
(* arg[-1], a byte outside the string: any byte may be there, so each     *)
(* suffix case is a possible outcome and the result is a set of verdicts. *)
(* The product strtoull(...) * mul is not checked for overflow.           *)
(***************************************************************************)
SizeVerdicts(arg, r) ==
  LET lastChars == IF Len(arg) = 0 THEN {"", "t", "g", "m", "k"} ELSE {Chr(arg, Len(arg))}
  IN {SizeVerdict(Len(arg), r, SuffixPower(c), Mul64(r.val, Pow1024(SuffixPower(c)))) :
        c \in lastChars}

OptvalParse(arg) == SizeVerdicts(arg, StrToULL(arg))

(* DTRACEOPT_UNSET, (dtrace_optval_t)-2. *)
OptUnset == Negate64(W64(2))

Positives == {"yes", "enable", "enabled", "true", "on", "set"}
Negatives == {"no", "disable", "disabled", "false", "off", "unset"}

(* The value dt_opt_runtime computes from a non-NULL argument; lower is  *)
(* its case-folded form, r its strtoull scan.                             *)
RuntimeVerdict(arg, lower, r) ==
  CASE arg = "" -> [ok |-> TRUE, val |-> OptUnset]
    [] lower \in Positives -> [ok |-> TRUE, val |-> W64(1)]
    [] lower \in Negatives -> [ok |-> TRUE, val |-> OptUnset]
    [] OTHER -> [ok  |-> ~(r.end # Len(arg) + 1 \/ r.erange \/ IsNeg64(r.val) \/ r.llneg),
                 val |-> r.val]

RuntimeParse(arg) == RuntimeVerdict(arg, Lower(arg), StrToULL(arg))

NanoSec == 1000000000
W64NanoSec == W64(NanoSec)

(* The suffix table of dt_opt_rate: nanoseconds per unit, 0 for hz. *)
RateMul ==
  LET min == Mul64(W64NanoSec, W64(60)) IN
  [s \in {"ns", "nsec", "us", "usec", "ms", "msec", "s", "sec",
          "m", "min", "h", "hour", "d", "day", "hz"} |->
     CASE s \in {"ns", "nsec"} -> W64(1)
       [] s \in {"us", "usec"} -> W64(1000)
       [] s \in {"ms", "msec"} -> W64(1000000)
       [] s \in {"s", "sec"}   -> W64NanoSec
       [] s \in {"m", "min"}   -> min
       [] s \in {"h", "hour"}  -> Mul64(min, W64(60))
       [] s \in {"d", "day"}   -> Mul64(W64NanoSec, W64(24 * 60 * 60))
       [] s = "hz"             -> W64(0)]
RateUnitNames == DOMAIN RateMul

(* The stored value: a unit multiplies, unchecked; hz divides NANOSEC by  *)
(* a non-zero value (as an int64_t division).                             *)
RateValue(r, mul) ==
  IF ~IsZero(mul) THEN Mul64(r.val, mul)
  ELSE IF IsZero(r.val) THEN r.val
  ELSE IF IsSmall(r.val) THEN W64(NanoSec \div SmallOf(r.val))
  ELSE W64(0)

(* The verdict for the scan r and the case-folded rest after the number: *)
(* none and an empty rest leave mul at 1; errno is not checked.           *)
RateVerdict(r, rest, known) ==
  [ok  |-> ~((~known /\ rest # "") \/ IsNeg64(r.val) \/ r.llneg),
   val |-> RateValue(r, IF known THEN RateMul[rest] ELSE W64(1))]

RateFrom(arg, r) ==
  LET rest == Lower(SubSeq(arg, r.end, Len(arg)))
  IN RateVerdict(r, rest, rest \in RateUnitNames)

(* The value dt_opt_rate computes from a non-NULL argument. *)
RateParse(arg) == RateFrom(arg, StrToULL(arg))

(***************************************************************************)
(* atoi(arg), as the integer handlers call it: blanks, an optional sign,  *)
(* then decimal digits up to the first non-digit; no digit gives 0.  The  *)
(* arguments are short, so the overflow atoi leaves undefined never       *)
(* arises.                                                                 *)
(***************************************************************************)
RECURSIVE DecAcc(_, _, _, _)
DecAcc(s, i, n, acc) ==
  IF n = 0 THEN acc ELSE DecAcc(s, i + 1, n - 1, 10 * acc + DigitOf(Chr(s, i), 10))

AtoiFrom(s, i1, neg) ==
  (IF neg THEN -1 ELSE 1) * DecAcc(s, i1, DigitRun(s, i1, 10), 0)

AtoiSign(s, i0) ==
  AtoiFrom(s, IF Chr(s, i0) \in {"+", "-"} THEN i0 + 1 ELSE i0, Chr(s, i0) = "-")

Atoi(s) == AtoiSign(s, SkipSpace(s, 1))

(***************************************************************************)
(* strtok_r(arg, " \f\n\r\t\v", ...) in a loop: the maximal runs of       *)
(* non-blank characters, in order.                                         *)
(***************************************************************************)
Blanks == {" ", "\t", "\n", "\r", "\f"}

RECURSIVE WordEnd(_, _)
WordEnd(s, i) == IF Chr(s, i) \notin Blanks \cup {""} THEN WordEnd(s, i + 1) ELSE i

RECURSIVE TokensFrom(_, _)
TokensFrom(s, i) ==
  CASE Chr(s, i) = "" -> << >>
    [] Chr(s, i) \in Blanks -> TokensFrom(s, i + 1)
    [] OTHER -> << SubSeq(s, i, WordEnd(s, i) - 1) >> \o TokensFrom(s, WordEnd(s, i))

Tokens(s) == TokensFrom(s, 1)
=============================================================================
