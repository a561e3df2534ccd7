--------------------------------- MODULE Numbers --------------------------------
(***************************************************************************)
(* From digits to numbers: strtol, strtod and ldexp of the library TinyCC  *)
(* is first linked with (hcc/support/tcc-bootstrap-support.c, "seed") and  *)
(* strtod of the one it is linked with later (nix/sources/mes-libc/        *)
(* strtod.c, "mes").  Both turn an integer into a double by shifting it    *)
(* until it has as many bits as a double's mantissa.                       *)
(*                                                                         *)
(* An unsigned long has WordBits bits (64) and a mantissa MantBits (53); a *)
(* double is zero, infinite, or m * 2^e with m of exactly MantBits bits.   *)
(* One action is one digit, one halving of the number read so far, or the  *)
(* conversion.                                                             *)
(***************************************************************************)
EXTENDS Integers, Sequences, SequencesExt

CONSTANTS
    WordBits, MantBits,   \* 64 and 53
    MaxExp,               \* a double is below 2^MaxExp (1024)
    ExpCap,               \* the largest exp2 of abtod (4096)
    Numbers,              \* the numbers that are read
    Bases                 \* the bases they are written in

ASSUME NumbersAssumption ==
    /\ WordBits \in Nat /\ MantBits \in Nat \ {0} /\ MantBits < WordBits
    /\ MaxExp \in Nat /\ ExpCap \in Nat /\ ExpCap >= MaxExp
    /\ Numbers \subseteq Nat /\ Bases \subseteq Nat \ {0, 1}

VARIABLES
    lib,             \* whose strtod it is
    negative,        \* is there a minus sign?
    number, base,    \* the number that is written, and its base
    read,            \* how many of its digits are read
    integer, exp2,   \* the number read so far: integer * 2^exp2
    double           \* the result

numberVars == <<lib, negative, number, base, read, integer, exp2, double>>

ULongMax == 2 ^ WordBits - 1
Zero == [kind |-> "zero", m |-> 0, e |-> 0]
Infinity == [kind |-> "infinite", m |-> 0, e |-> 0]
NotYet == [kind |-> "none", m |-> 0, e |-> 0]

\* The digits of the number, first to last.
digits ==
    LET n == CHOOSE k \in 1..32 : number \div base ^ (k - 1) < base /\ (k > 1 => number \div base ^ (k - 1) > 0)
    IN  [k \in 1..n |-> (number \div base ^ (n - k)) % base]

NumbersInit ==
    /\ lib \in {"seed", "mes"} /\ negative \in BOOLEAN
    /\ number \in Numbers /\ base \in Bases
    /\ read = 0 /\ integer = 0 /\ exp2 = 0
    /\ double = NotYet

More == read < Len(digits)
digit == digits[read + 1]

\* parse_unsigned: the value wraps.
parse_unsigned ==
    /\ lib = "seed" /\ More
    /\ integer' = (integer * base + digit) % 2 ^ WordBits
    /\ read' = read + 1
    /\ UNCHANGED <<lib, negative, number, base, exp2, double>>

\* Mutant: the digit is left out of the test.
MutWithoutDigit == integer > ULongMax \div base

\* abtod: would the next digit overflow?
TooLarge == integer > (ULongMax - digit) \div base

\* abtod: one turn of the inner loop.
Reduce ==
    /\ lib = "mes" /\ More /\ TooLarge
    /\ integer' = integer \div 2
    /\ exp2' = IF exp2 < ExpCap THEN exp2 + 1 ELSE exp2
    /\ UNCHANGED <<lib, negative, number, base, read, double>>

\* abtod: one turn of the loop over the digits.
TakeDigit ==
    /\ lib = "mes" /\ More /\ ~TooLarge
    /\ integer' = (integer * base + (IF exp2 < WordBits THEN digit \div 2 ^ exp2 ELSE 0)) % 2 ^ WordBits
    /\ read' = read + 1
    /\ UNCHANGED <<lib, negative, number, base, exp2, double>>

\* hcc_double_from_scaled_uint64: one bit less, rounded up.
Half(m) == IF lib = "seed" THEN ((m + 1) % 2 ^ WordBits) \div 2 ELSE (m \div 2) + (m % 2)

\* Its two loops: the mantissa gets MantBits bits.
Normal[me \in Nat \X Int] ==
    LET m == me[1]  e == me[2]
    IN  IF m >= 2 ^ MantBits THEN Normal[<<Half(m), e + 1>>]
        ELSE IF m < 2 ^ (MantBits - 1) THEN Normal[<<2 * m, e - 1>>]
        ELSE me

hcc_double_from_scaled_uint64(m, e) ==
    LET n == Normal[<<m, e>>]  exponent == n[2] + MantBits - 1
    IN  IF m = 0 \/ exponent <= -(MaxExp - 1) THEN Zero
        ELSE IF exponent >= MaxExp THEN Infinity
        ELSE [kind |-> "finite", m |-> n[1], e |-> n[2]]

\* strtol: what the digits read so far give as a long.
AsLong(w) == LET v == w % 2 ^ WordBits IN IF v >= 2 ^ (WordBits - 1) THEN v - 2 ^ WordBits ELSE v
strtol == AsLong(IF negative THEN -integer ELSE integer)

\* strtod: the magnitude of that long, or the number abtod has read.
Convert ==
    /\ ~More /\ double = NotYet
    /\ double' = hcc_double_from_scaled_uint64(
                     IF lib = "seed" THEN (IF strtol < 0 THEN -strtol ELSE strtol) ELSE integer, exp2)
    /\ UNCHANGED <<lib, negative, number, base, read, integer, exp2>>

NumbersNext == parse_unsigned \/ Reduce \/ TakeDigit \/ Convert

(***************************************************************************)
(* Properties.                                                             *)
(***************************************************************************)
Fits == number < 2 ^ (WordBits - 1) \/ (negative /\ number = 2 ^ (WordBits - 1))

\* strtod is faithful: a number a double can hold is converted exactly, any
\* other to one of the two doubles around it, and only one that is too large
\* becomes infinite.  For the first library this is so of every number that
\* fits a long, the most negative one included; for the second also of longer
\* numbers, because abtod makes room before it multiplies.
StrtodFaithful ==
    ~More /\ double # NotYet /\ (lib = "seed" => Fits) =>
        LET d == double
        IN  CASE d.kind = "zero" -> number = 0
              [] d.kind = "infinite" -> number + 1 > (2 ^ MantBits - 1) * 2 ^ (MaxExp - MantBits)
              [] d.kind = "finite" ->
                   IF d.e < 0 THEN d.m = number * 2 ^ (-d.e)
                   ELSE /\ number < (d.m + 1) * 2 ^ d.e
                        /\ number > (d.m - 1) * 2 ^ d.e
                        /\ number % 2 ^ d.e = 0 /\ number \div 2 ^ d.e < 2 ^ MantBits
                             => number = d.m * 2 ^ d.e
=============================================================================
