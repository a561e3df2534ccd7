-------------------------------- MODULE LowerInit --------------------------------
(***************************************************************************)
(* Constant expressions and initializers (Lower.hs).  A local struct or    *)
(* array is initialized from a template in static data when its list is    *)
(* made of constants, and by zeroing and storing otherwise; the template   *)
(* is built by a third walk over the same fields.                          *)
(***************************************************************************)
EXTENDS LowerExpr

-----------------------------------------------------------------------------
(* Constant expressions; Bad stands for throwC *)

\* castConstant
castConstant(ty, c) ==
    IF c = Bad THEN Bad
    ELSE IF ty = CBool THEN constantInt(1, IF constantTrue(c) THEN 1 ELSE 0)
    ELSE IF isIntegerType(ty) \/ ty.k = "ptr" THEN constConvert(typeSize(ty), isUnsignedType(ty), c)
    ELSE Bad

sizeConstant(n) == constConvert(targetWordSize, TRUE, constantInt(targetWordSize, n))

\* unevaluatedConstant: an arm that is not taken has a type and no value.
unevaluatedConstant(e) == castConstant(exprType(e), constantInt(4, 0))

Truth(b) == constantInt(4, IF b THEN 1 ELSE 0)

RECURSIVE constExprTyped(_, _)

\* A mutant: both operands of && and || are folded as if they were evaluated.
MutRightLive(op, live, a) == live

\* The operand an operator's left side leaves live.
RightLive(op, live, a) ==
    live /\ (op = "&&" => constantTrue(a)) /\ (op = "||" => ~constantTrue(a))

\* The binary case of constExprTyped
FoldBinary(live, e) ==
    LET Unevaluated(pa, pb) ==
            IF live THEN Bad
            ELSE IF e.op \in {"<<", ">>"} THEN pa
            ELSE constConvert(CommonSize(pa, pb), CommonUnsigned(pa, pb), pa)
        Fold(pa, pb) == Bind(constantBinary(e.op, pa, pb), LAMBDA r : IF r # Bad THEN r ELSE Unevaluated(pa, pb))
    IN  Bind(constExprTyped(live, e.a), LAMBDA a :
        Bind(constExprTyped(RightLive(e.op, live, a), e.b), LAMBDA b :
            IF Bad \in {a, b} THEN Bad ELSE Fold(constantPromote(a), constantPromote(b))))

\* The conditional case of constExprTyped
FoldCond(live, e) ==
    LET Arm(first, pa, pb) ==
            constConvert(CommonSize(pa, pb), CommonUnsigned(pa, pb), IF first THEN pa ELSE pb)
    IN  Bind(constExprTyped(live, e.c), LAMBDA c :
        Bind(constExprTyped(live /\ constantTrue(c), e.a), LAMBDA a :
        Bind(constExprTyped(live /\ ~constantTrue(c), e.b), LAMBDA b :
            IF Bad \in {c, a, b} THEN Bad
            ELSE Arm(constantTrue(c), constantPromote(a), constantPromote(b)))))

\* constExprTyped
constExprTyped(live, e) ==
    LET a == constExprTyped(live, e.a)
    IN  CASE e.e = "int" -> constantLiteral(e)
          [] e.e = "sizeof" -> sizeConstant(typeSize(exprType(e.a)))
          [] e.e = "cast" -> castConstant(e.ty, a)
          [] e.e = "unary" /\ e.op \in {"-", "+", "~", "!"} ->
                IF a = Bad THEN Bad
                ELSE IF e.op = "!" THEN Truth(~constantTrue(a)) ELSE constantUnary(e.op, constantPromote(a))
          [] e.e = "binary" -> FoldBinary(live, e)
          [] e.e = "cond" -> FoldCond(live, e)
          [] OTHER -> IF live THEN Bad ELSE unevaluatedConstant(e)

-----------------------------------------------------------------------------
(* Static data: a list of bytes *)

NoInit == [e |-> "none"]

\* padDataTarget: cut or filled with zeros to size.
padDataTarget(size, bytes) == [i \in 1..size |-> IF i <= Len(bytes) THEN bytes[i] ELSE 0]

RECURSIVE globalDataValue(_, _), globalArrayData(_, _), structFields(_, _, _)

\* globalDataValue, globalDataExpr, globalInitListData
globalDataValue(ty, init) ==
    CASE init = NoInit -> Zero(typeSize(ty))
      [] init.e = "list" /\ ~isAggregateType(ty) /\ Len(init.items) = 1 -> globalDataValue(ty, init.items[1])
      [] init.e = "list" /\ ty.k = "array" -> padDataTarget(typeSize(ty), globalArrayData(ty.of, init.items))
      [] init.e = "list" /\ HasFields(ty) /\ ~aggregateFields(ty).union ->
            structFields(0, aggregateFields(ty).fields, init.items)
      [] init.e = "list" /\ HasFields(ty) /\ aggregateFields(ty).union ->
            IF init.items = <<>> THEN Zero(unionFields(aggregateFields(ty).fields).size)
            ELSE padDataTarget(unionFields(aggregateFields(ty).fields).size,
                               globalDataValue(Head(aggregateFields(ty).fields).ty, init.items[1]))
      [] OTHER -> castConstant(ty, constExprTyped(TRUE, init)).bytes

\* globalArrayData
globalArrayData(inner, items) ==
    IF items = <<>> THEN <<>>
    ELSE padDataTarget(typeSize(inner), globalDataValue(inner, Head(items))) \o globalArrayData(inner, Tail(items))

\* structFields
structFields(offset, fields, items) ==
    IF fields = <<>> THEN <<>>
    ELSE LET ty == Head(fields).ty
             item == IF items = <<>> THEN NoInit ELSE Head(items)
             rest == IF items = <<>> THEN <<>> ELSE Tail(items)
         IN  Bind(alignUp(offset, typeAlign(ty)), LAMBDA aligned :
                Zero(aligned - offset) \o padDataTarget(typeSize(ty), globalDataValue(ty, item))
                    \o structFields(aligned + typeSize(ty), Tail(fields), rest))

\* globalData
globalData(ty, init) == padDataTarget(typeSize(ty), globalDataValue(ty, init))

-----------------------------------------------------------------------------
(* Stores *)

\* zeroObjectBytes
RECURSIVE zeroObjectBytes(_, _, _, _)
zeroObjectBytes(dst, offset, remaining, n) ==
    IF remaining <= 0 THEN Low(<<>>, dst, n)
    ELSE LET width == ChunkWidth(remaining)
         IN  Bind(offsetAddress(dst, offset, n), LAMBDA d :
                Then(Append1(d, IStore(width, d.o, OImm(0)), d.o, d.n),
                     zeroObjectBytes(dst, offset + width, remaining - width, d.n)))

RECURSIVE lowerAggregateInitList(_, _, _, _), lowerArrayInitWrites(_, _, _, _, _),
          lowerStructInitWrites(_, _, _, _, _), lowerElementWrite(_, _, _, _, _)

\* lowerAggregateInitList and lowerUnionInitWrites
lowerAggregateInitList(dst, ty, items, n) ==
    IF ty.k = "array" THEN lowerArrayInitWrites(dst, ty.of, 0, items, n)
    ELSE IF ~aggregateFields(ty).union
    THEN lowerStructInitWrites(dst, 0, aggregateFields(ty).fields, items, n)
    ELSE IF items = <<>> THEN Low(<<>>, dst, n)
    ELSE lowerElementWrite(dst, 0, Head(aggregateFields(ty).fields).ty, Head(items), n)

lowerArrayInitWrites(dst, inner, index, items, n) ==
    IF items = <<>> THEN Low(<<>>, dst, n)
    ELSE Bind(lowerElementWrite(dst, index * typeSize(inner), inner, Head(items), n), LAMBDA w :
            Then(w, lowerArrayInitWrites(dst, inner, index + 1, Tail(items), w.n)))

lowerStructInitWrites(dst, offset, fields, items, n) ==
    IF fields = <<>> \/ items = <<>> THEN Low(<<>>, dst, n)
    ELSE LET ty == Head(fields).ty
         IN  Bind(alignUp(offset, typeAlign(ty)), LAMBDA aligned :
             Bind(lowerElementWrite(dst, aligned, ty, Head(items), n), LAMBDA w :
                Then(w, lowerStructInitWrites(dst, aligned + typeSize(ty), Tail(fields), Tail(items), w.n))))

\* lowerAggregateElementWrite: a list inside an aggregate, a whole aggregate, or a
\* scalar (perhaps in braces of its own).
lowerElementWrite(dst, offset, ty, item, n) ==
    LET Stored(at, x) == Append1(Then(at, x), storeInstr(ty, at.o, x.o), at.o, x.n)
        Copied(at, x) == Then(at, Then(x, copyObject(at.o, x.o, ty, x.n)))
    IN  Bind(offsetAddress(dst, offset, n), LAMBDA at :
            IF item.e = "list" /\ isAggregateType(ty)
            THEN Then(at, lowerAggregateInitList(at.o, ty, item.items, at.n))
            ELSE IF item.e = "list" THEN lowerElementWrite(dst, offset, ty, item.items[1], n)
            ELSE Bind(lowerExpr(item, at.n), LAMBDA value :
                    IF isAggregateType(ty) THEN Copied(at, value) ELSE Stored(at, Coerced(value, ty))))

\* staticInitializerExpr
RECURSIVE staticInitializerExpr(_)
staticInitializerExpr(e) ==
    CASE e.e = "list" -> \A i \in DOMAIN e.items : staticInitializerExpr(e.items[i])
      [] e.e \in {"int", "sizeof"} -> TRUE
      [] e.e = "cast" \/ (e.e = "unary" /\ e.op \in {"-", "+", "~", "!"}) -> staticInitializerExpr(e.a)
      [] OTHER -> FALSE

TemplateLabel == "HCC_DATA"

\* lowerAggregateDeclInit and lowerAggregateDeclRuntime: from a template, by stores over zeros, or a copy.
lowerAggregateDeclInit(o, ty, init, n) ==
    IF init = NoInit THEN Low(<<>>, o, n)
    ELSE IF init.e = "list" /\ staticInitializerExpr(init) THEN copyObject(o, OGlobal(TemplateLabel), ty, n)
    ELSE IF init.e = "list"
    THEN Bind(zeroObjectBytes(o, 0, typeSize(ty), n), LAMBDA zero :
            Then(zero, lowerAggregateInitList(o, ty, init.items, zero.n)))
    ELSE Bind(lowerExpr(init, n), LAMBDA value : Then(value, copyObject(o, value.o, ty, value.n)))

\* lowerScalarDecl
lowerScalarDecl(temp, ty, init, n) ==
    IF init = NoInit THEN Low(<<IConst(temp, 0)>>, OTemp(temp), n)
    ELSE Bind(Coerced(lowerExpr(init, n), ty), LAMBDA x : Append1(x, ICopy(temp, x.o), OTemp(temp), x.n))

\* lowerDecl and lowerAggregateDecl
lowerDecl(temp, ty, init, n) ==
    IF isAggregateType(ty)
    THEN Then(Low(<<IAlloca(temp, typeSize(ty))>>, OErr, n), lowerAggregateDeclInit(OTemp(temp), ty, init, n))
    ELSE lowerScalarDecl(temp, ty, init, n)

\* localAggregateTemplateData: the data lowerAggregateDecl copies from, if any.
localAggregateTemplateData(ty, init) ==
    IF isAggregateType(ty) /\ init.e = "list" /\ staticInitializerExpr(init) THEN globalData(ty, init) ELSE <<>>
==================================================================================
