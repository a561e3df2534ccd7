-------------------------------- MODULE LowerExpr --------------------------------
(***************************************************************************)
(* Lowering of expressions (Lower.hs: lowerExpr and what it calls).        *)
(*                                                                         *)
(* An expression is the tree the parser built.  Lowering returns the       *)
(* instructions i, the operand o that holds the value, and the next free   *)
(* temp n (csNextTemp, the only part of CompileM that expressions change). *)
(* A scalar local lives in its temp, at the full width of a word and with  *)
(* whatever bits the last store left above the type's width; everything    *)
(* else lives in memory.                                                   *)
(***************************************************************************)
EXTENDS ConstWord

CONSTANT HostIntBytes   \* of the Int that hcc1 computes with: 8 built by GHC, 4 by Blynn

VARIABLES
    csVars,             \* local name -> [temp, ty]
    csGlobals,          \* global name -> type
    csFunctionTypes     \* function name -> type

-----------------------------------------------------------------------------
(* Expressions *)

ELit(v, u, longs, decimal) == [e |-> "int", v |-> v, u |-> u, longs |-> longs, decimal |-> decimal]
EInt(v) == ELit(v, FALSE, 0, TRUE)
EVar(name) == [e |-> "var", name |-> name]
EUnary(op, a) == [e |-> "unary", op |-> op, a |-> a]
EPostfix(op, a) == [e |-> "postfix", op |-> op, a |-> a]
ECast(ty, a) == [e |-> "cast", ty |-> ty, a |-> a]
ESizeofExpr(a) == [e |-> "sizeof", a |-> a]
EBinary(op, a, b) == [e |-> "binary", op |-> op, a |-> a, b |-> b]
EAssign(a, b) == [e |-> "assign", a |-> a, b |-> b]
ECompoundAssign(op, a, b) == [e |-> "compound", op |-> op, a |-> a, b |-> b]
ECond(c, a, b) == [e |-> "cond", c |-> c, a |-> a, b |-> b]
EIndex(a, b) == [e |-> "index", a |-> a, b |-> b]
EMember(a, field) == [e |-> "member", a |-> a, field |-> field]
EPtrMember(a, field) == [e |-> "ptrmember", a |-> a, field |-> field]
ECall(name, a) == [e |-> "call", name |-> name, a |-> a]
EInitList(items) == [e |-> "list", items |-> items]

Comparisons == {"<", "<=", ">", ">="}
Equalities == {"==", "!="}

-----------------------------------------------------------------------------
(* Operands and instructions *)

OTemp(t) == [kind |-> "temp", v |-> t]
OImm(v) == [kind |-> "imm", v |-> v]
OImmBytes(v) == [kind |-> "immbytes", v |-> v]
OGlobal(name) == [kind |-> "global", v |-> name]
OErr == [kind |-> "error", v |-> 0]

NoTemp == -1    \* a call whose result is not used
IConst(t, v) == [op |-> "CONST", t |-> t, a |-> OImm(v)]
ICopy(t, a) == [op |-> "COPY", t |-> t, a |-> a]
IExt(op, t, size, a) == [op |-> op, t |-> t, size |-> size, a |-> a]
IBin(t, f, a, b) == [op |-> "BIN", t |-> t, f |-> f, a |-> a, b |-> b]
ILoad(t, size, signed, a) == [op |-> "LOAD", t |-> t, size |-> size, signed |-> signed, a |-> a]
IStore(size, a, b) == [op |-> "STORE", size |-> size, a |-> a, b |-> b]
IAddrOf(t, u) == [op |-> "ADDROF", t |-> t, u |-> u]
IAlloca(t, size) == [op |-> "ALLOCA", t |-> t, size |-> size]
ICall(t, name, a) == [op |-> "CALL", t |-> t, name |-> name, a |-> a]
ICond(t, ci, co, yi, yo, ni, no) ==
    [op |-> "COND", t |-> t, ci |-> ci, co |-> co, yi |-> yi, yo |-> yo, ni |-> ni, no |-> no]

Low(i, o, n) == [i |-> i, o |-> o, n |-> n]
\* Instructions of a, then those of b; the value is b's.
Then(a, b) == Low(a.i \o b.i, b.o, b.n)
Append1(a, in, o, n) == Low(Append(a.i, in), o, n)

\* The bind of CompileM: x is lowered, then what Rest makes of its result.
Bind(x, Rest(_)) == Rest(x)

-----------------------------------------------------------------------------
(* Types of expressions *)

\* usualArithmeticType, of the types of the operands
usualArithmeticType(left, right) == usualArithmeticTypes(promoteIntegerType(left), promoteIntegerType(right))

\* conditionalType, of the types of the two arms
conditionalType(yes, no) ==
    IF isIntegerType(yes) /\ isIntegerType(no)
    THEN usualArithmeticType(yes, no)
    ELSE IF pointerElementType(yes) # NoType THEN CPtr(yes.of)
    ELSE IF pointerElementType(no) # NoType THEN CPtr(no.of)
    ELSE yes

\* EBinary in exprType, for the operators on numbers
BinaryType(op, left, right, arithmetic) ==
    CASE op = "+" -> addExprResultType(left, right, arithmetic)
      [] op = "-" -> subExprResultType(left, right, arithmetic)
      [] OTHER -> arithmetic

RECURSIVE exprType(_)

\* exprType
exprType(e) ==
    LET TA == exprType(e.a)
        TB == exprType(e.b)
    IN  CASE e.e = "int" -> integerLiteralType(e)
          [] e.e = "var" -> IF e.name \in DOMAIN csVars THEN csVars[e.name].ty ELSE csGlobals[e.name]
          [] e.e = "sizeof" -> CSizeT
          [] e.e = "cast" -> e.ty
          [] e.e = "unary" /\ e.op \in {"+", "-", "~"} -> promoteIntegerType(TA)
          [] e.e = "unary" /\ e.op = "!" -> CInt
          [] e.e = "unary" /\ e.op = "&" -> CPtr(TA)
          [] (e.e = "unary" /\ e.op = "*") \/ e.e = "index" -> pointerElementType(TA)
          [] e.e \in {"assign", "compound", "postfix"} \/ (e.e = "unary" /\ e.op \in {"++", "--"}) -> TA
          [] e.e \in {"member", "ptrmember"} ->
                memberInfo(IF e.e = "member" THEN TA ELSE TA.of, e.field).ty
          [] e.e = "call" -> csFunctionTypes[e.name].ret
          [] e.e = "cond" -> conditionalType(TA, TB)
          [] e.e = "binary" /\ e.op = "," -> TB
          [] e.e = "binary" /\ e.op \in {"&&", "||"} \cup Comparisons \cup Equalities -> CInt
          [] e.e = "binary" /\ e.op \in {"<<", ">>"} -> promoteIntegerType(TA)
          [] e.e = "binary" -> BinaryType(e.op, TA, TB, usualArithmeticType(TA, TB))

promotedExprType(e) == promoteIntegerType(exprType(e))

\* comparisonOperandType, of the types of the operands
comparisonOperandType(left, right) ==
    IF pointerElementType(left) # NoType THEN CPtr(left.of)
    ELSE IF pointerElementType(right) # NoType THEN CPtr(right.of)
    ELSE usualArithmeticType(left, right)

\* lowerBinOp, comparisonOp and shiftRightOp: the operation that fits the type.
BinOpOf(op, ty) ==
    LET signedOp == [op0 \in {"/", "%", ">>"} \cup Comparisons |->
                        CASE op0 = "/" -> "DIV" [] op0 = "%" -> "MOD" [] op0 = ">>" -> "SAR"
                          [] op0 = "<" -> "LT" [] op0 = "<=" -> "LE" [] op0 = ">" -> "GT" [] op0 = ">=" -> "GE"]
        unsignedOp == [op0 \in {"/", "%", ">>"} \cup Comparisons |->
                        CASE op0 = "/" -> "UDIV" [] op0 = "%" -> "UMOD" [] op0 = ">>" -> "SHR"
                          [] op0 = "<" -> "ULT" [] op0 = "<=" -> "ULE" [] op0 = ">" -> "UGT" [] op0 = ">=" -> "UGE"]
    IN  CASE op = "+" -> "ADD" [] op = "-" -> "SUB" [] op = "*" -> "MUL" [] op = "<<" -> "SHL"
          [] op = "&" -> "AND" [] op = "|" -> "OR" [] op = "^" -> "XOR"
          [] op = "==" -> "EQ" [] op = "!=" -> "NE"
          [] OTHER -> IF isUnsignedType(ty) THEN unsignedOp[op] ELSE signedOp[op]

\* loadInstr and storeInstr
loadInstr(t, ty, addr) == ILoad(t, typeSize(ty), isSignedIntegerType(ty), addr)
storeInstr(ty, addr, value) == IStore(typeSize(ty), addr, value)

-----------------------------------------------------------------------------
(* Coercion.  Every operand lowerExpr returns is normal for its type: the word
   that sign- or zero-extends the value. *)

\* intConstOperand: a literal that does not fit a signed 32-bit word is bytes.
intConstOperand(l) == IF l.v >= 2 ^ (4 * ByteBits - 1) THEN OImmBytes(l.v) ELSE OImm(l.v)

\* immediateScalarValue: computed in the Int of the compiler hcc1 is built with.
immediateScalarValue(o) ==
    IF o.kind = "imm" THEN o.v ELSE o.v % 2 ^ (HostIntBytes * ByteBits)

IsImmediate(o) == o.kind \in {"imm", "immbytes"}

\* coerceImmediateScalar below the size of an int.
NarrowImmediate(signed, size, v) ==
    LET modulus == 2 ^ (size * ByteBits)
        masked == v % modulus
    IN  OImm(IF signed /\ masked >= modulus \div 2 THEN masked - modulus ELSE masked)

\* A mutant: reading a local does not drop the bits above its width
MutCoerce(ty, o, n) ==
    IF ty # CBool /\ isIntegerType(ty) /\ scalarSize(ty) < 4 /\ o.kind = "temp" THEN Low(<<>>, o, n)
    ELSE IF ty = CBool THEN Low(<<IBin(n, "NE", o, OImm(0))>>, OTemp(n), n + 1)
    ELSE Low(<<>>, o, n)

\* coerceScalar
coerceScalar(ty, o, n) ==
    LET size == scalarSize(ty)
        signed == isSignedIntegerType(ty)
    IN  IF ty = CBool
        THEN IF IsImmediate(o) THEN Low(<<>>, OImm(IF immediateScalarValue(o) = 0 THEN 0 ELSE 1), n)
             ELSE Low(<<IBin(n, "NE", o, OImm(0))>>, OTemp(n), n + 1)
        ELSE IF ~isIntegerType(ty) \/ size >= 8 THEN Low(<<>>, o, n)
        ELSE IF size < 4 /\ IsImmediate(o)
        THEN Low(<<>>, NarrowImmediate(signed, size, immediateScalarValue(o)), n)
        ELSE IF size >= 4 /\ o.kind = "imm" /\ (signed \/ o.v >= 0) THEN Low(<<>>, o, n)
        ELSE Low(<<IExt(IF signed THEN "SEXT" ELSE "ZEXT", n, size, o)>>, OTemp(n), n + 1)

Coerced(a, ty) == Then(a, coerceScalar(ty, a.o, a.n))

\* offsetAddress
offsetAddress(base, offset, n) ==
    IF offset = 0 THEN Low(<<>>, base, n)
    ELSE Low(<<IBin(n, "ADD", base, OImm(offset))>>, OTemp(n), n + 1)

\* The width copyObjectBytes and zeroObjectBytes move next.
ChunkWidth(remaining) ==
    IF remaining >= targetWordSize THEN targetWordSize ELSE IF remaining >= 4 THEN 4 ELSE 1

\* copyObjectBytes
RECURSIVE copyObjectBytes(_, _, _, _, _)
copyObjectBytes(dst, src, offset, remaining, n) ==
    IF remaining <= 0 THEN Low(<<>>, dst, n)
    ELSE LET width == ChunkWidth(remaining)
         IN  Bind(offsetAddress(dst, offset, n), LAMBDA d :
             Bind(offsetAddress(src, offset, d.n), LAMBDA s :
                Then(Low(d.i \o s.i \o <<ILoad(s.n, width, FALSE, s.o), IStore(width, d.o, OTemp(s.n))>>, d.o, s.n + 1),
                     copyObjectBytes(dst, src, offset + width, remaining - width, s.n + 1))))
copyObject(dst, src, ty, n) == copyObjectBytes(dst, src, 0, typeSize(ty), n)

-----------------------------------------------------------------------------
(* Lvalues: a local's temp, or an address *)

LLocal(t, ty) == [kind |-> "local", o |-> OTemp(t), ty |-> ty]
LAddress(o, ty) == [kind |-> "address", o |-> o, ty |-> ty]

\* readLValue
readLValue(lv, n) ==
    IF lv.kind = "local" THEN coerceScalar(lv.ty, lv.o, n)
    ELSE IF isAggregateType(lv.ty) THEN Low(<<>>, lv.o, n)
    ELSE Low(<<loadInstr(n, lv.ty, lv.o)>>, OTemp(n), n + 1)

\* writeLValue
writeLValue(lv, value, n) ==
    IF isAggregateType(lv.ty) THEN [copyObject(lv.o, value, lv.ty, n) EXCEPT !.o = value]
    ELSE IF lv.kind = "local" THEN Low(<<ICopy(lv.o.v, value)>>, value, n)
    ELSE Low(<<storeInstr(lv.ty, lv.o, value)>>, value, n)

\* scaledOffset and scaledIndex: the first folds an immediate.
scaledOffset(o, size, n) ==
    IF size = 1 THEN Low(<<>>, o, n)
    ELSE IF o.kind = "imm" THEN Low(<<>>, OImm(o.v * size), n)
    ELSE Low(<<IBin(n, "MUL", o, OImm(size))>>, OTemp(n), n + 1)
scaledIndex(o, size, n) ==
    IF size = 1 THEN Low(<<>>, o, n) ELSE Low(<<IBin(n, "MUL", o, OImm(size))>>, OTemp(n), n + 1)

-----------------------------------------------------------------------------
(* Expressions *)

RECURSIVE lowerExpr(_, _), lowerLValue(_, _), lowerLValueAddress(_, _), lowerSideEffect(_, _)

\* lowerVarExpr, for names that are no constants
lowerVarExpr(name, n) ==
    IF name \in DOMAIN csVars THEN coerceScalar(csVars[name].ty, OTemp(csVars[name].temp), n)
    ELSE readLValue(LAddress(OGlobal(name), csGlobals[name]), n)

\* Both operands, then both coercions: lowerComparisonOperands and the first half
\* of lowerPlainBin.
LowerOperands(e, ty, n) ==
    Bind(lowerExpr(e.a, n), LAMBDA a :
    Bind(lowerExpr(e.b, a.n), LAMBDA b :
    Bind(coerceScalar(ty, a.o, b.n), LAMBDA ca :
    Bind(coerceScalar(ty, b.o, ca.n), LAMBDA cb :
        [i |-> a.i \o b.i \o ca.i \o cb.i, ao |-> ca.o, bo |-> cb.o, n |-> cb.n]))))

\* lowerPlainBin, lowerBinaryExpr, lowerComparisonExpr
lowerPlainBin(e, n) ==
    LET compares == e.op \in Comparisons \cup Equalities
        TypeOf(left, right) == IF compares THEN comparisonOperandType(left, right) ELSE usualArithmeticType(left, right)
    IN  Bind(TypeOf(exprType(e.a), exprType(e.b)), LAMBDA ty :
        Bind(LowerOperands(e, ty, n), LAMBDA x :
        Bind(Low(Append(x.i, IBin(x.n, BinOpOf(e.op, ty), x.ao, x.bo)), OTemp(x.n), x.n + 1), LAMBDA r :
            IF compares THEN r ELSE Coerced(r, ty))))

\* lowerShiftExpr
lowerShiftExpr(e, n) ==
    Bind(lowerExpr(e.a, n), LAMBDA a :
    Bind(lowerExpr(e.b, a.n), LAMBDA b :
        Coerced(Low(a.i \o b.i \o <<IBin(b.n, BinOpOf(e.op, promotedExprType(e.a)), a.o, b.o)>>,
                    OTemp(b.n), b.n + 1), exprType(e))))

\* lowerPointerOffset
lowerPointerOffset(op, ptr, offset, elemTy, n) ==
    Bind(lowerExpr(ptr, n), LAMBDA p :
    Bind(lowerExpr(offset, p.n), LAMBDA o :
    Bind(scaledOffset(o.o, typeSize(elemTy), o.n), LAMBDA s :
        Low(p.i \o o.i \o s.i \o <<IBin(s.n, op, p.o, s.o)>>, OTemp(s.n), s.n + 1))))

\* lowerPointerDiff
lowerPointerDiff(e, elemTy, n) ==
    Bind(lowerExpr(e.a, n), LAMBDA a :
    Bind(lowerExpr(e.b, a.n), LAMBDA b :
        Low(a.i \o b.i \o <<IBin(b.n, "SUB", a.o, b.o),
                             IBin(b.n + 1, "DIV", OTemp(b.n), OImm(typeSize(elemTy)))>>,
            OTemp(b.n + 1), b.n + 2)))

\* lowerAddExpr and lowerSubExpr
lowerAdditive(e, n) ==
    LET iop == IF e.op = "+" THEN "ADD" ELSE "SUB"
    IN  Bind(pointerElementType(exprType(e.a)), LAMBDA aElem :
        Bind(pointerElementType(exprType(e.b)), LAMBDA bElem :
            IF aElem # NoType /\ bElem # NoType /\ e.op = "-" THEN lowerPointerDiff(e, aElem, n)
            ELSE IF aElem # NoType THEN lowerPointerOffset(iop, e.a, e.b, aElem, n)
            ELSE IF bElem # NoType /\ e.op = "+" THEN lowerPointerOffset(iop, e.b, e.a, bElem, n)
            ELSE lowerPlainBin(e, n)))

\* exprIsBoolean
exprIsBoolean(e) ==
    \/ e.e = "unary" /\ e.op = "!"
    \/ e.e = "binary" /\ e.op \in {"&&", "||"} \cup Comparisons \cup Equalities

\* lowerShortCircuit, with lowerTruthExpr of the right operand
lowerShortCircuit(e, n) ==
    LET TruthOf(b) == IF exprIsBoolean(e.b) THEN b
                      ELSE Append1(b, IBin(b.n, "NE", b.o, OImm(0)), OTemp(b.n), b.n + 1)
    IN  Bind(lowerExpr(e.a, n), LAMBDA a :
        Bind(TruthOf(lowerExpr(e.b, a.n)), LAMBDA b :
            Low(<<IF e.op = "&&" THEN ICond(b.n, a.i, a.o, b.i, b.o, <<>>, OImm(0))
                  ELSE ICond(b.n, a.i, a.o, <<>>, OImm(1), b.i, b.o)>>, OTemp(b.n), b.n + 1)))

\* ECond in lowerExpr
lowerCond(e, n) ==
    Bind(exprType(e), LAMBDA ty :
    Bind(lowerExpr(e.c, n), LAMBDA c :
    Bind(lowerExpr(e.a, c.n), LAMBDA y :
    Bind(lowerExpr(e.b, y.n), LAMBDA f :
    Bind(coerceScalar(ty, y.o, f.n), LAMBDA yc :
    Bind(coerceScalar(ty, f.o, yc.n), LAMBDA fc :
        Low(<<ICond(fc.n, c.i, c.o, y.i \o yc.i, yc.o, f.i \o fc.i, fc.o)>>, OTemp(fc.n), fc.n + 1)))))))

\* A mutant: an aggregate argument is passed without a copy.
MutCallArg(a, n) == lowerExpr(a, n)

\* lowerCallArg: a struct is copied where it is evaluated.
lowerCallArg(a, n) ==
    Bind(exprType(a), LAMBDA ty :
    Bind(lowerExpr(a, n), LAMBDA x :
    Bind(copyObject(OTemp(x.n), x.o, ty, x.n + 1), LAMBDA copy :
        IF ~HasFields(ty) THEN x
        ELSE Low(x.i \o <<IAlloca(x.n, typeSize(ty))>> \o copy.i, OTemp(x.n), copy.n))))

\* lowerDirectCallExpr, of one argument
lowerCall(e, n) ==
    Bind(lowerCallArg(e.a, n), LAMBDA a : Append1(a, ICall(a.n, e.name, a.o), OTemp(a.n), a.n + 1))

\* lowerAssignment
lowerAssignment(e, n) ==
    Bind(lowerLValue(e.a, n), LAMBDA l :
    Bind(lowerExpr(e.b, l.n), LAMBDA r :
    Bind(coerceScalar(l.lv.ty, r.o, r.n), LAMBDA c :
    Bind(writeLValue(l.lv, c.o, c.n), LAMBDA w :
        Low(l.i \o r.i \o c.i \o w.i, c.o, w.n)))))

\* compoundBinOp and pointerCompoundOffset
compoundBinOp(op, targetTy, lhs, rhs, rhsTy, n) ==
    LET shifts == op \in {"<<", ">>"}
        leftTy == promoteIntegerType(targetTy)
        rightTy == promoteIntegerType(rhsTy)
    IN  IF targetTy.k = "ptr"
        THEN Bind(scaledIndex(rhs, typeSize(targetTy.of), n), LAMBDA s :
                Append1(s, IBin(s.n, BinOpOf(op, targetTy), lhs, s.o), OTemp(s.n), s.n + 1))
        ELSE Bind(IF shifts THEN leftTy ELSE usualArithmeticTypes(leftTy, rightTy), LAMBDA commonTy :
             Bind(coerceScalar(commonTy, lhs, n), LAMBDA l :
             Bind(coerceScalar(IF shifts THEN rightTy ELSE commonTy, rhs, l.n), LAMBDA r :
                Low(l.i \o r.i \o <<IBin(r.n, BinOpOf(op, commonTy), l.o, r.o)>>, OTemp(r.n), r.n + 1))))

\* lowerCompoundAssignment
lowerCompoundAssignment(e, n) ==
    Bind(lowerLValue(e.a, n), LAMBDA l :
    Bind(readLValue(l.lv, l.n), LAMBDA cur :
    Bind(lowerExpr(e.b, cur.n), LAMBDA r :
    Bind(compoundBinOp(e.op, l.lv.ty, cur.o, r.o, exprType(e.b), r.n), LAMBDA x :
    Bind(coerceScalar(l.lv.ty, x.o, x.n), LAMBDA c :
    Bind(writeLValue(l.lv, c.o, c.n), LAMBDA w :
        Low(l.i \o cur.i \o r.i \o x.i \o c.i \o w.i, c.o, w.n)))))))

\* The prefix form of lowerIncDec: the new value is coerced, stored and returned.
StepThenRead(lv, op, step, cur) ==
    Bind(coerceScalar(lv.ty, OTemp(cur.n), cur.n + 1), LAMBDA c :
    Bind(writeLValue(lv, c.o, c.n), LAMBDA w :
        Low(cur.i \o <<IBin(cur.n, op, cur.o, OImm(step))>> \o c.i \o w.i, c.o, w.n)))

\* The postfix form: the old value is kept, the new one is stored as it is.
ReadThenStep(lv, op, step, cur) ==
    LET old == cur.n + 1
    IN  Bind(writeLValue(lv, OTemp(cur.n), old + 1), LAMBDA w :
            Low(cur.i \o <<IBin(old, "ADD", cur.o, OImm(0)), IBin(cur.n, op, OTemp(old), OImm(step))>>
                    \o w.i, OTemp(old), w.n))

\* lowerIncDec
lowerIncDec(prefix, op, a, n) ==
    Bind(lowerLValue(a, n), LAMBDA l :
    Bind(readLValue(l.lv, l.n), LAMBDA r :
    Bind(Low(l.i \o r.i, r.o, r.n), LAMBDA cur :
    Bind(IF l.lv.ty.k = "ptr" THEN typeSize(l.lv.ty.of) ELSE 1, LAMBDA step :
        IF prefix THEN StepThenRead(l.lv, op, step, cur) ELSE ReadThenStep(l.lv, op, step, cur)))))

IncDecOp(op) == IF op = "++" THEN "ADD" ELSE "SUB"

\* readLValueExpr
readLValueExpr(e, n) == Bind(lowerLValue(e, n), LAMBDA l : Then(Low(l.i, OErr, l.n), readLValue(l.lv, l.n)))

\* The unary operators that compute: the zero they subtract from is a temp.
LowerNegation(op, a) ==
    LET z == a.n
        Minus(rest, last) == Low(a.i \o <<IConst(z, 0), IBin(z + 1, "SUB", OTemp(z), a.o)>> \o rest, OTemp(last), last + 1)
    IN  CASE op = "+" -> a
          [] op = "-" -> Minus(<<>>, z + 1)
          [] op = "~" -> Minus(<<IBin(z + 2, "SUB", OTemp(z + 1), OImm(1))>>, z + 2)

\* lowerUnary: the unary cases of lowerExpr
lowerUnary(e, n) ==
    CASE e.op \in {"+", "-", "~"} -> Coerced(LowerNegation(e.op, lowerExpr(e.a, n)), exprType(e))
      [] e.op = "!" ->
            Bind(lowerExpr(e.a, n), LAMBDA a :
                Low(a.i \o <<IConst(a.n, 0), IBin(a.n + 1, "EQ", a.o, OTemp(a.n))>>, OTemp(a.n + 1), a.n + 2))
      [] e.op = "&" -> lowerLValueAddress(e.a, n)
      [] e.op \in {"++", "--"} -> lowerIncDec(TRUE, IncDecOp(e.op), e.a, n)
      [] e.op = "*" -> IF e.a.e = "unary" /\ e.a.op = "&" THEN lowerExpr(e.a.a, n) ELSE readLValueExpr(e, n)

\* lowerExpr
lowerExpr(e, n) ==
    CASE e.e = "int" -> Low(<<>>, intConstOperand(e), n)
      [] e.e = "var" -> lowerVarExpr(e.name, n)
      [] e.e = "unary" -> lowerUnary(e, n)
      [] e.e = "postfix" -> lowerIncDec(FALSE, IncDecOp(e.op), e.a, n)
      [] e.e = "cast" -> Coerced(lowerExpr(e.a, n), e.ty)
      [] e.e = "sizeof" -> Low(<<IConst(n, typeSize(exprType(e.a)))>>, OTemp(n), n + 1)
      [] e.e = "cond" -> lowerCond(e, n)
      [] e.e = "binary" /\ e.op = "," ->
            Bind(lowerSideEffect(e.a, n), LAMBDA a : Then(a, lowerExpr(e.b, a.n)))
      [] e.e = "binary" /\ e.op \in {"&&", "||"} -> lowerShortCircuit(e, n)
      [] e.e = "binary" /\ e.op \in {"+", "-"} -> lowerAdditive(e, n)
      [] e.e = "binary" /\ e.op \in {"<<", ">>"} -> lowerShiftExpr(e, n)
      [] e.e = "binary" /\ e.op \notin {",", "&&", "||", "+", "-", "<<", ">>"} -> lowerPlainBin(e, n)
      [] e.e \in {"index", "member", "ptrmember"} -> readLValueExpr(e, n)
      [] e.e = "call" -> lowerCall(e, n)
      [] e.e = "assign" -> lowerAssignment(e, n)
      [] e.e = "compound" -> lowerCompoundAssignment(e, n)

\* lowerSideEffect: a postfix step whose value nobody uses is lowered as a prefix
\* one, and a call gets no temp.
lowerSideEffect(e, n) ==
    CASE e.e = "postfix" -> lowerIncDec(TRUE, IncDecOp(e.op), e.a, n)
      [] e.e = "call" -> Bind(lowerCallArg(e.a, n), LAMBDA a : Append1(a, ICall(NoTemp, e.name, a.o), OErr, a.n))
      [] OTHER -> lowerExpr(e, n)

Lv(i, lv, n) == [i |-> i, lv |-> lv, n |-> n]

\* EIndex in lowerLValue
LowerIndex(e, n) ==
    Bind(lowerExpr(e.a, n), LAMBDA a :
    Bind(lowerExpr(e.b, a.n), LAMBDA b :
    Bind(pointerElementType(exprType(e.a)), LAMBDA elemTy :
    Bind(scaledIndex(b.o, typeSize(elemTy), b.n), LAMBDA s :
        Lv(a.i \o b.i \o s.i \o <<IBin(s.n, "ADD", a.o, s.o)>>, LAddress(OTemp(s.n), elemTy), s.n + 1)))))

\* EMember and EPtrMember in lowerLValue: the member m of the object at base
MemberLValue(base, m) ==
    Bind(offsetAddress(base.o, m.offset, base.n), LAMBDA o : Lv(base.i \o o.i, LAddress(o.o, m.ty), o.n))

\* lowerLValue
lowerLValue(e, n) ==
    CASE e.e = "var" /\ e.name \in DOMAIN csVars ->
            Lv(<<>>, LLocal(csVars[e.name].temp, csVars[e.name].ty), n)
      [] e.e = "var" /\ e.name \notin DOMAIN csVars -> Lv(<<>>, LAddress(OGlobal(e.name), csGlobals[e.name]), n)
      [] e.e = "unary" /\ e.op = "*" -> Bind(lowerExpr(e.a, n), LAMBDA a : Lv(a.i, LAddress(a.o, exprType(e)), a.n))
      [] e.e = "index" -> LowerIndex(e, n)
      [] e.e \in {"member", "ptrmember"} ->
            Bind(exprType(e.a), LAMBDA ty :
                MemberLValue(IF e.e = "member" THEN lowerLValueAddress(e.a, n) ELSE lowerExpr(e.a, n),
                             memberInfo(IF e.e = "member" THEN ty ELSE ty.of, e.field)))
      [] OTHER -> Lv(<<>>, LAddress(OErr, CInt), n)

\* lowerLValueAddress
lowerLValueAddress(e, n) ==
    Bind(lowerLValue(e, n), LAMBDA l :
        IF l.lv.kind = "address" \/ isAggregateType(l.lv.ty) THEN Low(l.i, l.lv.o, l.n)
        ELSE Low(Append(l.i, IAddrOf(l.n, l.lv.o.v)), OTemp(l.n), l.n + 1))

==================================================================================
