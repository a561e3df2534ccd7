-------------------------------- MODULE ConstWord --------------------------------
(***************************************************************************)
(* The integers hcc1 folds constant expressions with (Literal.hs): little- *)
(* endian lists of bytes of a given size and signedness, so that neither   *)
(* GHC's Int nor the seed compiler's Int decides what the target computes. *)
(* Addition, multiplication and long division are done byte by byte.       *)
(***************************************************************************)
EXTENDS CTypes

Base == 2 ^ ByteBits

Constant(size, unsigned, bytes) == [size |-> size, unsigned |-> unsigned, bytes |-> bytes]
Bad == Constant(0, FALSE, <<>>)

\* The carry loop of byteWordAddSmallCarry, byteWordMulSmallCarry and
\* constWordAdd: totals per byte become bytes, what is left over is dropped.
RECURSIVE Carry(_, _)
Carry(carry, totals) ==
    IF totals = <<>> THEN <<>>
    ELSE LET total == Head(totals) + carry
         IN  <<total % Base>> \o Carry(total \div Base, Tail(totals))

byteWordAddSmallCarry(carry, bytes) == Carry(carry, bytes)
byteWordMulSmall(factor, bytes) == Carry(0, [i \in DOMAIN bytes |-> bytes[i] * factor])
constWordAdd(a, b) == Carry(0, [i \in DOMAIN a |-> a[i] + b[i]])
constWordNegate(a) == byteWordAddSmallCarry(1, [i \in DOMAIN a |-> Base - 1 - a[i]])

Zero(n) == [i \in 1..n |-> 0]

\* intBytes
RECURSIVE intBytes(_, _)
intBytes(size, value) ==
    IF size = 0 THEN <<>> ELSE <<value % Base>> \o intBytes(size - 1, value \div Base)

\* The number a list of bytes stands for.
RECURSIVE Value(_)
Value(bytes) == IF bytes = <<>> THEN 0 ELSE Head(bytes) + Base * Value(Tail(bytes))

\* constWordCompare: from the most significant byte down.
RECURSIVE constWordCompare(_, _)
constWordCompare(a, b) ==
    IF a = <<>> THEN 0
    ELSE IF Last(a) # Last(b) THEN IF Last(a) < Last(b) THEN -1 ELSE 1
    ELSE constWordCompare(Front(a), Front(b))

\* constWordMultiply: shift and add, byte by byte.
RECURSIVE MultiplyFrom(_, _, _)
MultiplyFrom(shifted, rest, acc) ==
    IF rest = <<>> THEN acc
    ELSE MultiplyFrom(<<0>> \o Front(shifted), Tail(rest),
                      constWordAdd(acc, byteWordMulSmall(Head(rest), shifted)))
constWordMultiply(a, b) == MultiplyFrom(a, b, Zero(Len(a)))

\* The loop of constWordDivide: one bit of the dividend at a time, from the top.
RECURSIVE DivideFrom(_, _, _, _)
DivideFrom(bits, divisor, q, r) ==
    IF bits = <<>> THEN [q |-> q, r |-> r]
    ELSE LET trial == byteWordAddSmallCarry(Head(bits), byteWordMulSmall(2, r))
             fits == constWordCompare(trial, divisor) >= 0
             r2 == IF fits THEN constWordAdd(trial, constWordNegate(divisor)) ELSE trial
             q2 == byteWordAddSmallCarry(IF fits THEN 1 ELSE 0, byteWordMulSmall(2, q))
         IN  DivideFrom(Tail(bits), divisor, q2, r2)
BitsDown(a) ==
    [i \in 1..Len(a) * ByteBits |->
        LET bit == Len(a) * ByteBits - i IN (a[(bit \div ByteBits) + 1] \div 2 ^ (bit % ByteBits)) % 2]

\* constWordDivide; the remainder has a byte more than a.
constWordDivide(a, b) == DivideFrom(BitsDown(a), b \o <<0>>, Zero(Len(a)), Zero(Len(a) + 1))

\* constWordRight: one bit to the right, fill coming in at the top.
constWordRight(fill, bytes) ==
    [i \in DOMAIN bytes |->
        (bytes[i] \div 2)
            + IF i = Len(bytes) THEN fill ELSE (bytes[i + 1] % 2) * (Base \div 2)]

-----------------------------------------------------------------------------
(* Constants *)

constantTrue(c) == \E i \in DOMAIN c.bytes : c.bytes[i] # 0
constNegative(c) == ~c.unsigned /\ Last(c.bytes) >= Base \div 2

\* constConvert
constConvert(size, unsigned, c) ==
    Constant(size, unsigned,
             [i \in 1..size |-> IF i <= c.size THEN c.bytes[i]
                                ELSE IF constNegative(c) THEN Base - 1 ELSE 0])

constantPromote(c) == IF c.size < 4 THEN constConvert(4, FALSE, c) ELSE c
constantInt(size, value) == Constant(size, FALSE, intBytes(size, value))

\* constantCommon
CommonSize(a, b) == Larger(a.size, b.size)
CommonUnsigned(a, b) ==
    IF a.size = b.size THEN a.unsigned \/ b.unsigned
    ELSE IF a.size > b.size THEN a.unsigned ELSE b.unsigned

\* constantUnary, except "!"
constantUnary(op, c) ==
    CASE op = "-" -> [c EXCEPT !.bytes = constWordNegate(@)]
      [] op = "~" -> [c EXCEPT !.bytes = [i \in DOMAIN @ |-> Base - 1 - @[i]]]
      [] OTHER -> c

RECURSIVE ShiftBy(_, _, _, _)
ShiftBy(right, fill, n, bytes) ==
    IF n = 0 THEN bytes
    ELSE ShiftBy(right, fill, n - 1,
                 IF right THEN constWordRight(fill, bytes) ELSE byteWordMulSmall(2, bytes))

\* constShift
constShift(right, c, count) ==
    IF constNegative(count) \/ Value(count.bytes) >= c.size * ByteBits THEN Bad
    ELSE [c EXCEPT !.bytes = ShiftBy(right, IF constNegative(c) THEN Base \div 2 ELSE 0,
                                     Value(count.bytes), @)]

Magnitude(c) == IF constNegative(c) THEN constWordNegate(c.bytes) ELSE c.bytes

\* The bits of two bytes combined: bitAndInt, bitOrInt, bitXorInt.
BitOp(op, x, y) ==
    LET Bit(v, i) == (v \div 2 ^ i) % 2
        On(i) == CASE op = "&" -> Bit(x, i) + Bit(y, i) = 2
                   [] op = "|" -> Bit(x, i) + Bit(y, i) > 0
                   [] op = "^" -> Bit(x, i) + Bit(y, i) = 1
    IN  FoldLeft(LAMBDA s, i : s + IF On(i) THEN 2 ^ i ELSE 0, 0, [i \in 1..ByteBits |-> i - 1])

\* The order (cmp) of constantBinary
ConstantOrder(a, b) ==
    IF constNegative(a) # constNegative(b) THEN IF constNegative(a) THEN -1 ELSE 1
    ELSE constWordCompare(a.bytes, b.bytes)

\* divide of constantBinary
ConstantDivide(op, a, b) ==
    LET signed(negative, bytes) == [a EXCEPT !.bytes = IF negative THEN constWordNegate(bytes) ELSE bytes]
        Part(d) == IF op = "/" THEN signed(constNegative(a) # constNegative(b), d.q)
                   ELSE signed(constNegative(a), Front(d.r))
    IN  IF ~constantTrue(b) THEN Bad ELSE Part(constWordDivide(Magnitude(a), Magnitude(b)))

\* The operators of constantBinary that compare: the result is an int.
ConstantTruth(op, a, b) ==
    LET Test(cmp) == CASE op = "==" -> cmp = 0 [] op = "!=" -> cmp # 0 [] op = "<" -> cmp < 0
                       [] op = "<=" -> cmp <= 0 [] op = ">" -> cmp > 0 [] op = ">=" -> cmp >= 0
        truth == CASE op = "&&" -> constantTrue(a) /\ constantTrue(b)
                   [] op = "||" -> constantTrue(a) \/ constantTrue(b)
                   [] OTHER -> Test(ConstantOrder(a, b))
    IN  constantInt(4, IF truth THEN 1 ELSE 0)

\* The operators of constantBinary on two constants of one type.
ConstantOperate(op, a, b) ==
    CASE op = "+" -> [a EXCEPT !.bytes = constWordAdd(@, b.bytes)]
      [] op = "-" -> [a EXCEPT !.bytes = constWordAdd(@, constWordNegate(b.bytes))]
      [] op = "*" -> [a EXCEPT !.bytes = constWordMultiply(@, b.bytes)]
      [] op \in {"/", "%"} -> ConstantDivide(op, a, b)
      [] op \in {"&", "|", "^"} -> [a EXCEPT !.bytes = [i \in DOMAIN @ |-> BitOp(op, @[i], b.bytes[i])]]
      [] OTHER -> ConstantTruth(op, a, b)

\* constantBinary; Bad stands for its Left.
constantBinary(op, left, right) ==
    LET size == CommonSize(left, right)
        unsigned == CommonUnsigned(left, right)
    IN  IF op \in {"<<", ">>"} THEN constShift(op = ">>", left, right)
        ELSE ConstantOperate(op, constConvert(size, unsigned, left), constConvert(size, unsigned, right))

-----------------------------------------------------------------------------
(* Literals.  A literal is its value and its spelling: how many l's, a u, and
   whether it is decimal. *)

\* constantLiteralRanked: the first candidate type that holds the value.
LiteralCandidates(l) ==
    LET sizes == CASE l.longs = 2 -> <<3>> [] l.longs = 1 -> <<2, 3>> [] OTHER -> <<1, 2, 3>>
        signs == IF l.u THEN <<TRUE>> ELSE IF l.decimal THEN <<FALSE>> ELSE <<FALSE, TRUE>>
    IN  [i \in 1..(Len(sizes) * Len(signs)) |->
            [rank |-> sizes[((i - 1) \div Len(signs)) + 1], unsigned |-> signs[((i - 1) % Len(signs)) + 1]]]

RankSize(rank) == CASE rank = 1 -> 4 [] rank = 2 -> targetWordSize [] OTHER -> 8

Holds(candidate, v) ==
    v < 2 ^ (RankSize(candidate.rank) * ByteBits - IF candidate.unsigned THEN 0 ELSE 1)

constantLiteralRanked(l) ==
    LET candidates == LiteralCandidates(l)
        fit == {i \in DOMAIN candidates : Holds(candidates[i], l.v)}
    IN  IF fit = {} THEN [rank |-> 3, unsigned |-> TRUE]
        ELSE candidates[CHOOSE i \in fit : \A j \in fit : i <= j]

LiteralOf(r, v) == Constant(RankSize(r.rank), r.unsigned, intBytes(RankSize(r.rank), v))
constantLiteral(l) == LiteralOf(constantLiteralRanked(l), l.v)

\* integerLiteralType
RankType(r) ==
    CASE r.rank = 1 -> IF r.unsigned THEN CUnsigned ELSE CInt
      [] r.rank = 2 -> IF r.unsigned THEN CUnsignedLong ELSE CLong
      [] OTHER -> IF r.unsigned THEN CUnsignedLongLong ELSE CLongLong
integerLiteralType(l) == RankType(constantLiteralRanked(l))
==================================================================================
