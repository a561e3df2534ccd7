-------------------------------- MODULE CSemantics --------------------------------
(***************************************************************************)
(* What C says an expression means: the reference the lowering is compared *)
(* with.  Nothing here comes from hcc1 except the trees and the size of an *)
(* object; the types, the conversions and the memory are defined anew.     *)
(*                                                                         *)
(* Memory is a function from scalar locations to values.  A location is an *)
(* object and a path of members and indices into it, so that it has no     *)
(* layout.  Integers are numbers, a pointer is a location.  What C leaves  *)
(* undefined (overflow, a bad shift, a pointer outside its object, two     *)
(* unsequenced accesses of which one writes) evaluates to Undefined, and   *)
(* nothing is asked of the lowering there.                                 *)
(***************************************************************************)
EXTENDS LowerInit

Loc(obj, path) == [obj |-> obj, path |-> path]
Index(i) == <<"[]", i>>
Member(f) == <<f, 0>>
Sub(loc, p) == [loc EXCEPT !.path = Append(@, p)]

VInt(v) == [k |-> "int", v |-> v]
VPtr(loc) == [k |-> "ptr", v |-> loc]
VAgg(f) == [k |-> "agg", v |-> f]

-----------------------------------------------------------------------------
(* Types *)

Rank(ty) ==
    CASE ty.k = "bool" -> 0 [] ty.k \in {"char", "uchar"} -> 1 [] ty.k \in {"short", "ushort"} -> 2
      [] ty.k \in {"int", "uint"} -> 3 [] ty.k \in {"long", "ulong"} -> 4 [] ty.k \in {"llong", "ullong"} -> 5

Width(ty) == <<1, ByteBits, 2 * ByteBits, 4 * ByteBits, (csTargetBits \div 8) * ByteBits, 8 * ByteBits>>[Rank(ty) + 1]

IsInt(ty) == ty.k \in SignedKinds \cup (UnsignedKinds \ {"size_t"})
Signed(ty) == ty.k \in SignedKinds
MinOf(ty) == IF Signed(ty) THEN -(2 ^ (Width(ty) - 1)) ELSE 0
MaxOf(ty) == IF Signed(ty) THEN 2 ^ (Width(ty) - 1) - 1 ELSE 2 ^ Width(ty) - 1
InRange(ty, v) == MinOf(ty) <= v /\ v <= MaxOf(ty)

\* Conversion of an integer to a type.
Representative(u, max, count) == IF u > max THEN u - count ELSE u
Conv(ty, v) ==
    IF ty = CBool THEN IF v = 0 THEN 0 ELSE 1
    ELSE Representative(v % 2 ^ Width(ty), MaxOf(ty), 2 ^ Width(ty))

Promote(ty) == IF Rank(ty) < 3 THEN CInt ELSE ty
Unsigned(ty) == CASE Rank(ty) = 3 -> CUnsigned [] Rank(ty) = 4 -> CUnsignedLong [] OTHER -> CUnsignedLongLong

\* The usual arithmetic conversions, of promoted types, then of any.
CommonPromoted(a, b) ==
    LET s == IF Signed(a) THEN a ELSE b
        u == IF Signed(a) THEN b ELSE a
    IN  IF Signed(a) = Signed(b) THEN IF Rank(a) >= Rank(b) THEN a ELSE b
        ELSE IF Rank(u) >= Rank(s) THEN u
        ELSE IF MaxOf(u) <= MaxOf(s) THEN s ELSE Unsigned(s)
Common(x, y) == CommonPromoted(Promote(x), Promote(y))

\* The first type of the list for its spelling that can hold a literal.
LiteralType(l) ==
    LET all == <<CInt, CUnsigned, CLong, CUnsignedLong, CLongLong, CUnsignedLongLong>>
        ok(ty) == /\ l.v <= MaxOf(ty)
                  /\ Rank(ty) >= l.longs + 3
                  /\ l.u => ~Signed(ty)
                  /\ (l.decimal /\ ~l.u) => Signed(ty)
    IN  SelectSeq(all, ok)[1]

SizeType == IF csTargetBits = 32 THEN CUnsigned ELSE CUnsignedLong
IsPtr(ty) == ty.k = "ptr"
Decay(ty) == IF ty.k = "array" THEN CPtr(ty.of) ELSE ty
IsScalar(ty) == IsInt(ty) \/ IsPtr(ty)

\* The members of a struct, those of anonymous members included.
RECURSIVE Members(_)
Members(ty) ==
    LET fields == aggregateFields(ty).fields
    IN  UNION {IF fields[i].name = Anonymous THEN Members(fields[i].ty)
               ELSE {fields[i]} : i \in DOMAIN fields}
MemberType(ty, f) == (CHOOSE m \in Members(ty) : m.name = f).ty
HasMember(ty, f) == HasFields(ty) /\ \E m \in Members(ty) : m.name = f

RECURSIVE IsLvalue(_)
IsLvalue(e) ==
    \/ e.e \in {"var", "index", "ptrmember"} \/ (e.e = "unary" /\ e.op = "*")
    \/ e.e = "member" /\ IsLvalue(e.a)

Assignable(to, from) == (IsInt(to) /\ IsInt(from)) \/ (to = from /\ to.k # "array")

\* The type of an expression, NoType when it has none.
RECURSIVE RefType(_)
RefType(e) ==
    LET TA == RefType(e.a)
        TB == RefType(e.b)
        A == Decay(TA)
        B == Decay(TB)
        ints == IsInt(A) /\ IsInt(B)
        If(ok, ty) == IF ok THEN ty ELSE NoType
        \* What an assignment operator applies to its target.
        steps == IsLvalue(e.a) /\ IsScalar(TA)
    IN  CASE e.e = "int" -> LiteralType(e)
          [] e.e = "var" -> IF e.name \in DOMAIN csVars THEN csVars[e.name].ty ELSE csGlobals[e.name]
          [] e.e = "list" -> NoType
          [] e.e = "sizeof" -> If(TA # NoType, SizeType)
          [] e.e = "cast" -> If(IsInt(A), e.ty)
          [] e.e = "call" -> If(Assignable(csFunctionTypes[e.name].param, A), csFunctionTypes[e.name].ret)
          [] e.e = "unary" /\ e.op \in {"+", "-", "~"} -> IF IsInt(A) THEN Promote(A) ELSE NoType
          [] e.e = "unary" /\ e.op = "!" -> If(IsScalar(A), CInt)
          [] e.e = "unary" /\ e.op = "&" -> If(IsLvalue(e.a) /\ TA # NoType, CPtr(TA))
          [] e.e = "unary" /\ e.op = "*" -> IF IsPtr(A) THEN A.of ELSE NoType
          [] e.e = "postfix" \/ (e.e = "unary" /\ e.op \in {"++", "--"}) -> If(steps, TA)
          [] e.e = "index" -> IF IsPtr(A) /\ IsInt(B) THEN A.of ELSE NoType
          [] e.e = "member" -> IF IsLvalue(e.a) /\ HasMember(TA, e.field) THEN MemberType(TA, e.field) ELSE NoType
          [] e.e = "ptrmember" ->
                IF IsPtr(A) /\ HasMember(A.of, e.field) THEN MemberType(A.of, e.field) ELSE NoType
          [] e.e = "assign" -> If(IsLvalue(e.a) /\ Assignable(TA, B), TA)
          [] e.e = "compound" -> If(steps /\ IsInt(B) /\ (IsInt(A) \/ e.op \in {"+", "-"}), TA)
          [] e.e = "cond" ->
                IF ~IsScalar(Decay(RefType(e.c))) THEN NoType
                ELSE IF ints THEN Common(A, B) ELSE If(A = B, A)
          [] e.e = "binary" /\ e.op = "," -> B
          [] e.e = "binary" /\ e.op \in {"&&", "||"} -> If(IsScalar(A) /\ IsScalar(B), CInt)
          [] e.e = "binary" /\ e.op \in Comparisons \cup Equalities -> If(ints \/ (IsPtr(A) /\ A = B), CInt)
          [] e.e = "binary" /\ e.op \in {"<<", ">>"} -> IF ints THEN Promote(A) ELSE NoType
          [] e.e = "binary" /\ e.op \in {"*", "/", "%", "&", "|", "^"} -> IF ints THEN Common(A, B) ELSE NoType
          [] e.e = "binary" /\ e.op \in {"+", "-"} ->
                IF ints THEN Common(A, B)
                ELSE IF IsPtr(A) /\ IsInt(B) THEN A
                ELSE IF e.op = "+" /\ IsInt(A) /\ IsPtr(B) THEN B
                ELSE If(e.op = "-" /\ IsPtr(A) /\ A = B, CLong)

-----------------------------------------------------------------------------
(* Locations.  Of a union only the first member is ever in use. *)

RECURSIVE LeafPaths(_)
LeafPaths(ty) ==
    IF ty.k = "array"
    THEN UNION {{<<Index(i)>> \o p : p \in LeafPaths(ty.of)} : i \in 0..(ty.n - 1)}
    ELSE IF HasFields(ty) /\ aggregateFields(ty).union
    THEN LET m == aggregateFields(ty).fields[1] IN {<<Member(m.name)>> \o p : p \in LeafPaths(m.ty)}
    ELSE IF HasFields(ty)
    THEN UNION {{<<Member(m.name)>> \o p : p \in LeafPaths(m.ty)} : m \in Members(ty)}
    ELSE {<<>>}
Leaves(loc, ty) == {[loc EXCEPT !.path = @ \o p] : p \in LeafPaths(ty)}

ObjectType(obj) == IF obj \in DOMAIN csVars THEN csVars[obj].ty ELSE csGlobals[obj]

\* The type at the end of a path; NoType outside the object.
RECURSIVE TypeAt(_, _)
TypeAt(ty, path) ==
    IF path = <<>> THEN ty
    ELSE IF ty.k = "array"
    THEN IF Head(path)[2] \in 0..(ty.n - 1) THEN TypeAt(ty.of, Tail(path)) ELSE NoType
    ELSE TypeAt(MemberType(ty, Head(path)[1]), Tail(path))
LocType(loc) == TypeAt(ObjectType(loc.obj), loc.path)

\* How many elements the array that loc points into has.
IsElement(loc) == loc.path # <<>> /\ Last(loc.path)[1] = "[]"
Elements(loc) == TypeAt(ObjectType(loc.obj), Front(loc.path)).n
Place(loc) == IF IsElement(loc) THEN Last(loc.path)[2] ELSE 0
Moved(loc, d) == IF d = 0 THEN loc ELSE [loc EXCEPT !.path[Len(loc.path)] = Index(Place(loc) + d)]
CanMove(loc, d) == d = 0 \/ (IsElement(loc) /\ Place(loc) + d \in 0..Elements(loc))
SameArray(x, y) == x.obj = y.obj /\ (x = y \/ (IsElement(x) /\ IsElement(y) /\ Front(x.path) = Front(y.path)))

-----------------------------------------------------------------------------
(* Values.  A result has the value, the memory after the side effects, and the
   locations read and written without a sequence point in between. *)

Undefined == [ok |-> FALSE, v |-> VInt(0), m |-> <<>>, r |-> {}, w |-> {}]
Done(v, m, r, w) == [ok |-> TRUE, v |-> v, m |-> m, r |-> r, w |-> w]

Conflict(x, y) == x.w \cap (y.r \cup y.w) # {} \/ y.w \cap x.r # {}

Truth01(b) == IF b THEN 1 ELSE 0
IsTrue(v) == v.k = "ptr" \/ v.v # 0

\* C's division truncates towards zero.
Quotient(x, y) ==
    LET Abs(z) == IF z < 0 THEN -z ELSE z
        q == Abs(x) \div Abs(y)
    IN  IF (x < 0) = (y < 0) THEN q ELSE -q

\* Products are taken of the signed representatives: those of two 16-bit words
\* stay below 2^31.
ProductOf(ty, x, y) ==
    LET half == 2 ^ (Width(ty) - 1)
        Rep(z) == IF z >= half THEN z - 2 * half ELSE z
    IN  Rep(x) * Rep(y)

\* Bitwise operations on two numbers below 2^width.
RECURSIVE BitsOf(_, _, _, _)
BitsOf(op, x, y, width) ==
    LET on == CASE op = "&" -> x % 2 = 1 /\ y % 2 = 1
                [] op = "|" -> x % 2 = 1 \/ y % 2 = 1
                [] op = "^" -> x % 2 # y % 2
    IN  IF width = 0 THEN 0 ELSE Truth01(on) + 2 * BitsOf(op, x \div 2, y \div 2, width - 1)

NoNumber == [ok |-> FALSE, v |-> 0]
Number(v) == [ok |-> TRUE, v |-> v]

\* An operation on two numbers of type ty; the count of a shift is any integer.
Arith(op, ty, x, y) ==
    LET Fit(v) == IF Signed(ty) THEN IF InRange(ty, v) THEN Number(v) ELSE NoNumber ELSE Number(Conv(ty, v))
    IN  CASE op = "+" -> Fit(x + y)
          [] op = "-" -> Fit(x - y)
          [] op = "*" -> Fit(ProductOf(ty, x, y))
          [] op \in {"/", "%"} ->
                IF y = 0 \/ ~InRange(ty, Quotient(x, y)) THEN NoNumber
                ELSE Number(IF op = "/" THEN Quotient(x, y) ELSE x - Quotient(x, y) * y)
          [] op \in {"&", "|", "^"} ->
                Number(Conv(ty, BitsOf(op, x % 2 ^ Width(ty), y % 2 ^ Width(ty), Width(ty))))
          [] op = "<<" ->
                IF y \notin 0..(Width(ty) - 1) \/ x < 0 \/ (Signed(ty) /\ x > MaxOf(ty) \div 2 ^ y) THEN NoNumber
                ELSE Number((x % 2 ^ (Width(ty) - y)) * 2 ^ y)
          [] op = ">>" -> IF y \notin 0..(Width(ty) - 1) THEN NoNumber ELSE Number(x \div 2 ^ y)
          [] op = "==" -> Number(Truth01(x = y))
          [] op = "!=" -> Number(Truth01(x # y))
          [] op = "<" -> Number(Truth01(x < y))
          [] op = "<=" -> Number(Truth01(x <= y))
          [] op = ">" -> Number(Truth01(x > y))
          [] op = ">=" -> Number(Truth01(x >= y))

Wrapped(x) == [ok |-> x.ok, v |-> VInt(x.v)]

\* The value of a op b, of the (decayed) types tyA and tyB.
Combine(op, tyA, tyB, a, b) ==
    LET ty == IF op \in {"<<", ">>"} THEN Promote(tyA) ELSE Common(tyA, tyB)
        n == Arith(op, ty, Conv(ty, a.v), IF op \in {"<<", ">>"} THEN b.v ELSE Conv(ty, b.v))
        Move(p, d) == [ok |-> p.k = "ptr" /\ CanMove(p.v, d),
                       v |-> IF p.k = "ptr" /\ CanMove(p.v, d) THEN VPtr(Moved(p.v, d)) ELSE p]
    IN  IF IsInt(tyA) /\ IsInt(tyB) THEN Wrapped(n)
        ELSE IF IsPtr(tyA) /\ IsInt(tyB) THEN Move(a, IF op = "+" THEN b.v ELSE -b.v)
        ELSE IF IsInt(tyA) THEN Move(b, a.v)
        ELSE IF op \in Equalities THEN [ok |-> TRUE, v |-> VInt(Truth01((op = "==") = (a = b)))]
        ELSE IF ~SameArray(a.v, b.v) THEN [ok |-> FALSE, v |-> a]
        ELSE IF op = "-" THEN [ok |-> TRUE, v |-> VInt(Place(a.v) - Place(b.v))]
        ELSE Wrapped(Arith(op, CLong, Place(a.v), Place(b.v)))

Convert(ty, v) == IF IsInt(ty) THEN VInt(Conv(ty, v.v)) ELSE v

\* Reading an lvalue, and writing one once its operands are evaluated.
Read(x, ty) ==
    LET leaves == Leaves(x.v.v, ty)
    IN  IF ty.k = "array" THEN [x EXCEPT !.v = VPtr(Sub(x.v.v, Index(0)))]
        ELSE IF ~(leaves \subseteq DOMAIN x.m) THEN Undefined
        ELSE [x EXCEPT !.r = @ \cup leaves,
                       !.v = IF HasFields(ty)
                             THEN VAgg([p \in LeafPaths(ty) |-> x.m[[x.v.v EXCEPT !.path = @ \o p]]])
                             ELSE x.m[x.v.v]]
Write(x, loc, ty, v) ==
    LET leaves == Leaves(loc, ty)
        At(l) == IF v.k = "agg" THEN v.v[SubSeq(l.path, Len(loc.path) + 1, Len(l.path))] ELSE v
    IN  IF leaves \cap x.w # {} \/ ~(leaves \subseteq DOMAIN x.m) THEN Undefined
        ELSE Done(v, [l \in DOMAIN x.m |-> IF l \in leaves THEN At(l) ELSE x.m[l]], x.r, x.w \cup leaves)

\* What a function of the model does with its argument: it changes its own copy,
\* and returns the argument or its member x.
CalleeResult(f, v) ==
    IF v.k = "agg" THEN Convert(f.ret, v.v[<<Member("x")>>]) ELSE Convert(f.ret, Convert(f.param, v))

RECURSIVE Eval(_, _), EvalLvalue(_, _)

\* a, then b in the memory a left, unsequenced or not.
Both(a, b) ==
    IF ~a.ok \/ ~b.ok \/ Conflict(a, b) THEN Undefined
    ELSE [b EXCEPT !.r = @ \cup a.r, !.w = @ \cup a.w]
InOrder(a, b) == IF ~a.ok \/ ~b.ok THEN Undefined ELSE [b EXCEPT !.r = @ \cup a.r, !.w = @ \cup a.w]

\* The outcome r of an operation becomes the value of x; it is stored in loc.
Result(x, r) == IF r.ok THEN [x EXCEPT !.v = r.v] ELSE Undefined
Stored(x, loc, ty, r) == IF r.ok THEN Write(x, loc, ty, Convert(ty, r.v)) ELSE Undefined

\* ++ and -- store r; the value of the postfix form is the old one.
Stepped(postfix, l, r, ty) ==
    LET Keep(w) == IF w.ok /\ postfix THEN [w EXCEPT !.v = l.m[l.v.v]] ELSE w
    IN  Keep(Stored(l, l.v.v, ty, r))

\* The location an lvalue names.
EvalLvalue(e, m) ==
    LET a == Eval(e.a, m)
        b == Eval(e.b, a.m)
        ab == Both(a, b)
        base == EvalLvalue(e.a, m)
        Valid(x, loc) == IF LocType(loc) = NoType THEN Undefined ELSE [x EXCEPT !.v = VPtr(loc)]
    IN  CASE e.e = "var" -> Done(VPtr(Loc(e.name, <<>>)), m, {}, {})
          [] e.e = "member" -> IF base.ok THEN [base EXCEPT !.v = VPtr(Sub(base.v.v, Member(e.field)))] ELSE Undefined
          [] e.e \in {"unary", "ptrmember"} ->
                IF ~a.ok \/ a.v.k # "ptr" \/ LocType(a.v.v) = NoType THEN Undefined
                ELSE [a EXCEPT !.v = VPtr(IF e.e = "unary" THEN a.v.v ELSE Sub(a.v.v, Member(e.field)))]
          [] e.e = "index" ->
                IF ~a.ok \/ ~ab.ok \/ a.v.k # "ptr" \/ ~CanMove(a.v.v, b.v.v) THEN Undefined
                ELSE Valid(ab, Moved(a.v.v, b.v.v))

Eval(e, m) ==
    LET TA == RefType(e.a)
        TB == RefType(e.b)
        ty == RefType(e)
        a == Eval(e.a, m)
        b == Eval(e.b, a.m)
        ab == Both(a, b)
        l == EvalLvalue(e.a, m)                              \* the target of an assignment
        rhs == Eval(e.b, l.m)
        lr == Both(l, rhs)
        arm == Eval(IF IsTrue(Eval(e.c, m).v) THEN e.a ELSE e.b, Eval(e.c, m).m)
        Scalar(x) == x.ok /\ x.v.v \in DOMAIN x.m
    IN  CASE e.e = "int" -> Done(VInt(e.v), m, {}, {})
          [] e.e = "sizeof" -> Done(VInt(typeSize(TA)), m, {}, {})
          [] e.e \in {"var", "index", "member", "ptrmember"} \/ (e.e = "unary" /\ e.op = "*") ->
                LET x == EvalLvalue(e, m) IN IF x.ok THEN Read(x, ty) ELSE Undefined
          [] e.e = "unary" /\ e.op = "&" -> EvalLvalue(e.a, m)
          [] e.e = "cast" \/ (e.e = "unary" /\ e.op = "+") -> IF a.ok THEN [a EXCEPT !.v = Convert(ty, @)] ELSE Undefined
          [] e.e = "unary" /\ e.op = "!" -> IF a.ok THEN [a EXCEPT !.v = VInt(Truth01(~IsTrue(@)))] ELSE Undefined
          [] e.e = "unary" /\ e.op = "-" ->
                IF a.ok THEN Result(a, Wrapped(Arith("-", ty, 0, Conv(ty, a.v.v)))) ELSE Undefined
          [] e.e = "unary" /\ e.op = "~" ->
                IF a.ok THEN [a EXCEPT !.v = VInt(Conv(ty, -1 - Conv(ty, @.v)))] ELSE Undefined
          [] e.e = "postfix" \/ (e.e = "unary" /\ e.op \in {"++", "--"}) ->
                IF ~Scalar(l) THEN Undefined
                ELSE Stepped(e.e = "postfix", l, Combine(IF e.op = "++" THEN "+" ELSE "-", TA, CInt, l.m[l.v.v], VInt(1)), TA)
          [] e.e = "assign" ->
                IF ~lr.ok THEN Undefined ELSE Write(lr, l.v.v, TA, Convert(TA, rhs.v))
          [] e.e = "compound" ->
                IF ~lr.ok \/ ~Scalar(l) \/ l.v.v \in rhs.w THEN Undefined
                ELSE Stored(lr, l.v.v, TA, Combine(e.op, TA, Decay(TB), lr.m[l.v.v], rhs.v))
          [] e.e = "cond" ->
                IF ~Eval(e.c, m).ok \/ ~arm.ok THEN Undefined
                ELSE [InOrder(Eval(e.c, m), arm) EXCEPT !.v = Convert(ty, @)]
          [] e.e = "call" ->
                IF ~a.ok THEN Undefined ELSE [a EXCEPT !.v = CalleeResult(csFunctionTypes[e.name], @)]
          [] e.e = "binary" /\ e.op = "," -> InOrder(a, b)
          [] e.e = "binary" /\ e.op \in {"&&", "||"} ->
                IF ~a.ok THEN Undefined
                ELSE IF IsTrue(a.v) = (e.op = "||") THEN [a EXCEPT !.v = VInt(Truth01(IsTrue(@)))]
                ELSE IF ~b.ok THEN Undefined
                ELSE [InOrder(a, b) EXCEPT !.v = VInt(Truth01(IsTrue(@)))]
          [] OTHER -> IF ab.ok THEN Result(ab, Combine(e.op, Decay(TA), Decay(TB), a.v, b.v)) ELSE Undefined

-----------------------------------------------------------------------------
(* Initializers: the value of one leaf *)

Position(ty, f) == CHOOSE i \in DOMAIN aggregateFields(ty).fields : aggregateFields(ty).fields[i].name = f

RECURSIVE InitialAt(_, _, _, _)
InitialAt(ty, path, init, m) ==
    LET step == Head(path)
        k == IF ty.k = "array" THEN step[2] + 1 ELSE Position(ty, step[1])
        inner == IF ty.k = "array" THEN ty.of ELSE MemberType(ty, step[1])
        given == IF init.e = "list" /\ k \in DOMAIN init.items THEN init.items[k] ELSE NoInit
        Part(v) == IF path = <<>> THEN Convert(ty, v) ELSE v.v[path]
    IN  IF init = NoInit THEN VInt(0)
        ELSE IF init.e # "list" THEN Part(Eval(init, m).v)
        ELSE IF path = <<>> THEN InitialAt(ty, path, init.items[1], m)
        ELSE InitialAt(inner, Tail(path), given, m)

\* An initializer fits a type when every item does.
RECURSIVE InitFits(_, _)
InitFits(ty, init) ==
    IF init.e # "list" THEN Assignable(ty, Decay(RefType(init)))
    ELSE IF ty.k = "array" THEN Len(init.items) <= ty.n /\ \A i \in DOMAIN init.items : InitFits(ty.of, init.items[i])
    ELSE IF HasFields(ty)
    THEN /\ Len(init.items) <= Len(aggregateFields(ty).fields)
         /\ \A i \in DOMAIN init.items : InitFits(aggregateFields(ty).fields[i].ty, init.items[i])
    ELSE Len(init.items) = 1 /\ init.items[1].e # "list" /\ InitFits(ty, init.items[1])

\* Every item is defined and writes nothing.
RECURSIVE Pure(_, _)
Pure(init, m) ==
    IF init.e = "list" THEN \A i \in DOMAIN init.items : Pure(init.items[i], m)
    ELSE LET Quiet(x) == x.ok /\ x.w = {} IN Quiet(Eval(init, m))
===================================================================================
