--------------------------------- MODULE ExprExec ---------------------------------
(***************************************************************************)
(* Expressions from the parser to their value.  A tree is built the way    *)
(* the functions of Parser.hs build it, a node at a time and operands      *)
(* first, out of the names and operators a world offers; only trees that C *)
(* gives a type are built.  It is lowered as the value of a statement or   *)
(* as the initializer of a declaration, and run from several memories,     *)
(* by the rules of C and by the instructions.                              *)
(*                                                                         *)
(* A world is a target, what is in scope, and what an expression may use:  *)
(*   bits, structs, vars, globals, functions   the environment             *)
(*   order       a number for each object, from 1                          *)
(*   points      where each pointer points initially                       *)
(*   leaves, unary, postfix, casts, sizeof, binary, compound, assign,      *)
(*   cond, index, fields, calls, lists         the syntax in use           *)
(*   size        bound: nodes of a tree                                    *)
(*   inits       the initial values: a pair of Kinds, for every other leaf *)
(* The variable "d" is the one a declaration makes.                        *)
(***************************************************************************)
EXTENDS IrExec

CONSTANT Worlds

VARIABLES
    world,
    stack,      \* the trees built so far; the parser's recursion in reverse
    nodes,      \* how many nodes they have
    code,       \* what the tree was lowered to
    out         \* the result of a run

exprVars == <<csTargetBits, csStructs, csVars, csGlobals, csFunctionTypes, world, stack, nodes, code, out>>

NoCode == [i |-> <<>>, o |-> OErr, n |-> 0, decl |-> FALSE, data |-> <<>>]
NoOut == [c |-> Undefined, ir |-> Machine(<<>>, 0), addr |-> <<>>]

Declared == "d"
Objects == DOMAIN csVars \cup DOMAIN csGlobals

-----------------------------------------------------------------------------
(* The memory an expression starts from *)

ObjectsBefore == Objects \ {Declared}

\* Aggregates of locals and all globals have a region each.
RegionSize == alignUp(LET sizes == {typeSize(ObjectType(o)) : o \in ObjectsBefore}
                      IN  CHOOSE s \in sizes : \A r \in sizes : r <= s, targetWordSize)
RegionStart == Slot(NVars)
Region(o) == RegionStart + RegionSize * (world.order[o] - 1)
StackStart == RegionStart + RegionSize * Cardinality(ObjectsBefore)
TemplateAt == MemTop + 1 - 4 * targetWordSize

Before(o) == IF o \in DOMAIN csVars /\ ~isAggregateType(csVars[o].ty) THEN Slot(csVars[o].temp) ELSE Region(o)

\* The address of a location, given those of the objects: the layout hcc1 chose.
RECURSIVE OffsetOf(_, _)
OffsetOf(ty, path) ==
    IF path = <<>> THEN 0
    ELSE IF ty.k = "array" THEN typeSize(ty.of) * Head(path)[2] + OffsetOf(ty.of, Tail(path))
    ELSE LET m == memberInfo(ty, Head(path)[1]) IN m.offset + OffsetOf(m.ty, Tail(path))
AddressOf(base, loc) == base[loc.obj] + OffsetOf(ObjectType(loc.obj), loc.path)

\* The word that stands for a value.
AsWord(base, v) == Word(IF v.k = "ptr" THEN AddressOf(base, v.v) ELSE v.v)

AllLeaves == UNION {Leaves(Loc(o, <<>>), ObjectType(o)) : o \in ObjectsBefore}

\* Neighbours differ in kind.
Parity(loc) == (world.order[loc.obj] + IF loc.path = <<>> THEN 0 ELSE Last(loc.path)[2] + Len(loc.path)) % 2

ValueOfKind(ty, kind) ==
    CASE kind = "min" -> MinOf(ty) [] kind = "max" -> MaxOf(ty)
      [] kind = "ones" -> Conv(ty, -1) [] kind = "one" -> 1 [] kind = "two" -> Conv(ty, 2)

InitialValue(loc, kinds) ==
    LET ty == LocType(loc)
    IN  IF IsPtr(ty) THEN VPtr(world.points[loc.obj]) ELSE VInt(ValueOfKind(ty, kinds[Parity(loc) + 1]))
RefMemory(kinds) == [loc \in AllLeaves |-> InitialValue(loc, kinds)]

\* A local's slot has room for more than its value: what is above it is junk,
\* left by an assignment through a pointer or a postfix step (kind "min" here).
\* A _Bool has none, and the words of an aggregate are its address.
JunkOver(ty, w, kinds) ==
    IF ~IsInt(ty) \/ ty = CBool \/ kinds[1] # "min" THEN w
    ELSE Word(Extend(typeSize(ty), FALSE, w) + 2 ^ Width(ty) * 2)

RECURSIVE WriteAll(_, _)
WriteAll(m, stores) ==
    IF stores = {} THEN m
    ELSE LET st == CHOOSE x \in stores : TRUE IN WriteAll(StoreBytes(m, st.at, st.size, st.w), stores \ {st})

InitialBytes(kinds) ==
    LET base == [o \in ObjectsBefore |-> Before(o)]
        ref == RefMemory(kinds)
        LeafStore(loc) ==
            LET ty == LocType(loc)
                w == AsWord(base, ref[loc])
            IN  IF loc.path = <<>> /\ loc.obj \in DOMAIN csVars
                THEN [at |-> base[loc.obj], size |-> targetWordSize, w |-> JunkOver(ty, w, kinds)]
                ELSE [at |-> AddressOf(base, loc), size |-> typeSize(ty), w |-> w]
        SlotStore(o) == [at |-> Slot(csVars[o].temp), size |-> targetWordSize, w |-> base[o]]
        aggregates == {o \in ObjectsBefore \cap DOMAIN csVars : isAggregateType(csVars[o].ty)}
    IN  WriteAll([a \in 0..MemTop |-> 1],
                 {LeafStore(loc) : loc \in AllLeaves} \cup {SlotStore(o) : o \in aggregates}
                 \cup {[at |-> TemplateAt + i - 1, size |-> 1, w |-> code.data[i]] : i \in DOMAIN code.data})

-----------------------------------------------------------------------------
(* Building a tree *)

Init ==
    /\ world \in Worlds
    /\ csTargetBits = world.bits
    /\ csStructs = world.structs
    /\ csVars = world.vars
    /\ csGlobals = world.globals
    /\ csFunctionTypes = world.functions
    /\ stack = <<>>
    /\ nodes = 0
    /\ code = NoCode
    /\ out = NoOut

environment == <<csTargetBits, csStructs, csVars, csGlobals, csFunctionTypes, world>>

Top(i) == stack[Len(stack) - i]

\* The last k trees become operands of e, when e has a type (a list has none).
Build(k, e) ==
    /\ code = NoCode
    /\ nodes + 1 + (Len(stack) - k) <= world.size
    /\ e.e = "list" \/ RefType(e) # NoType
    /\ stack' = Append(SubSeq(stack, 1, Len(stack) - k), e)
    /\ nodes' = nodes + 1
    /\ UNCHANGED <<environment, code, out>>

IsList(e) == e.e = "list"
Plain(k) == Len(stack) >= k /\ \A i \in 0..(k - 1) : ~IsList(Top(i))

\* unary: a constant or a name.
Primary == \E x \in world.leaves : Build(0, x)

\* unary: a prefix operator, a cast, sizeof.
Prefix == Plain(1) /\ \E op \in world.unary : Build(1, EUnary(op, Top(0)))
CastTo == Plain(1) /\ \E ty \in world.casts : Build(1, ECast(ty, Top(0)))
Sizeof == Plain(1) /\ world.sizeof /\ Build(1, ESizeofExpr(Top(0)))

\* postfix: what follows a primary expression.
PostStep == Plain(1) /\ \E op \in world.postfix : Build(1, EPostfix(op, Top(0)))
Call == Plain(1) /\ \E f \in world.calls : Build(1, ECall(f, Top(0)))
Subscript == Plain(2) /\ world.index /\ Build(2, EIndex(Top(1), Top(0)))
Dot == Plain(1) /\ \E f \in world.fields : Build(1, EMember(Top(0), f))
Arrow == Plain(1) /\ \E f \in world.fields : Build(1, EPtrMember(Top(0), f))

\* expression and assignNode
BinaryOp == Plain(2) /\ \E op \in world.binary : Build(2, EBinary(op, Top(1), Top(0)))
AssignOp ==
    /\ Plain(2)
    /\ \/ world.assign /\ Build(2, EAssign(Top(1), Top(0)))
       \/ \E op \in world.compound : Build(2, ECompoundAssign(op, Top(1), Top(0)))
Conditional == Plain(3) /\ world.cond /\ Build(3, ECond(Top(2), Top(1), Top(0)))

\* initializer: a list in braces.
BraceList ==
    \E k \in world.lists : Len(stack) >= k /\ Build(k, EInitList(SubSeq(stack, Len(stack) - k + 1, Len(stack))))

-----------------------------------------------------------------------------
(* Lowering and running *)

FirstTemp == NVars
Lowered(x, decl, data) == [i |-> x.i, o |-> x.o, n |-> x.n, decl |-> decl, data |-> data]

\* The tree is the value of a return statement.
Lower ==
    /\ code = NoCode /\ Len(stack) = 1 /\ ~IsList(Top(0))
    /\ Declared \notin DOMAIN csVars
    /\ code' = Lowered(lowerExpr(Top(0), FirstTemp), FALSE, <<>>)
    /\ UNCHANGED <<environment, stack, nodes, out>>

\* The tree is the initializer of d; lowerExpr refuses a scalar's in braces.
Declare ==
    /\ code = NoCode /\ Len(stack) = 1
    /\ Declared \in DOMAIN csVars /\ InitFits(csVars[Declared].ty, Top(0))
    /\ IsList(Top(0)) => isAggregateType(csVars[Declared].ty)
    /\ LET d == csVars[Declared]
       IN  code' = Lowered(lowerDecl(d.temp, d.ty, Top(0), FirstTemp), TRUE, localAggregateTemplateData(d.ty, Top(0)))
    /\ UNCHANGED <<environment, stack, nodes, out>>

GlobalAddresses ==
    [g \in DOMAIN csGlobals \cup {TemplateLabel} |-> IF g = TemplateLabel THEN TemplateAt ELSE Region(g)]

\* By the rules of C: the memory gains the leaves of d.
RefRun(m) ==
    LET e == Top(0)
        ty == csVars[Declared].ty
        d == Leaves(Loc(Declared, <<>>), ty)
        leaves == d \cup DOMAIN m
    IN  IF ~code.decl THEN Eval(e, m)
        ELSE IF ~Pure(e, m) THEN Undefined
        ELSE Done(VInt(0), [l \in leaves |-> IF l \in d THEN InitialAt(ty, l.path, e, m) ELSE m[l]], {}, {})

Run ==
    /\ code # NoCode /\ out = NoOut
    /\ \E kinds \in world.inits :
          out' = [c |-> RefRun(RefMemory(kinds)),
                  ir |-> RunCode(Machine(InitialBytes(kinds), StackStart), GlobalAddresses, code.i),
                  addr |-> GlobalAddresses]
    /\ UNCHANGED <<environment, stack, nodes, code>>

Next ==
    \/ Primary \/ Prefix \/ CastTo \/ Sizeof \/ PostStep \/ Call \/ Subscript \/ Dot \/ Arrow
    \/ BinaryOp \/ AssignOp \/ Conditional \/ BraceList
    \/ Lower \/ Declare \/ Run

Spec == Init /\ [][Next]_exprVars

-----------------------------------------------------------------------------
(* Properties *)

Ran == out # NoOut /\ out.c.ok

\* Where each object is after the run.
BaseAfter ==
    [o \in Objects |->
        IF o \in DOMAIN csGlobals THEN Region(o)
        ELSE IF isAggregateType(csVars[o].ty) THEN LoadBytes(out.ir.m, Slot(csVars[o].temp), targetWordSize)
        ELSE Slot(csVars[o].temp)]

\* The word at an address, read as an object of type ty.
ReadAs(ty, a) == Extend(typeSize(ty), isSignedIntegerType(ty), LoadBytes(out.ir.m, a, typeSize(ty)))

\* The operand that lowerExpr returns (Lower.hs) holds the value C gives to the
\* expression, extended to a word as its type requires; for a struct it is the
\* address of such an object.
ValueAgrees ==
    (Ran /\ ~code.decl) =>
        /\ out.ir.ok /\ Known(out.ir, code.o)
        /\ LET w == OperandWord(out.ir, out.addr, code.o)
               v == out.c.v
               ty == RefType(Top(0))
           IN  IF v.k # "agg" THEN w = AsWord(BaseAfter, v)
               ELSE \A p \in DOMAIN v.v :
                       ReadAs(TypeAt(ty, p), w + OffsetOf(ty, p)) = AsWord(BaseAfter, v.v[p])

\* Every object holds afterwards what C says, in memory and, for a local whose
\* value is in a temp, when it is read by its name: a store changes its object
\* and nothing beside it, an operand that is not evaluated changes nothing, and a
\* declaration initializes every member, from a template (globalData) as by stores.
ObjectsAgree ==
    Ran =>
        /\ out.ir.ok
        /\ \A loc \in DOMAIN out.c.m :
              LET ty == LocType(loc)
                  w == AsWord(BaseAfter, out.c.m[loc])
                  read == readLValue(LLocal(csVars[loc.obj].temp, ty), FirstTemp)
              IN  /\ ReadAs(ty, AddressOf(BaseAfter, loc)) = w
                  /\ (loc.path = <<>> /\ loc.obj \in DOMAIN csVars) =>
                        OperandWord(RunCode(out.ir, out.addr, read.i), out.addr, read.o) = w

\* exprType (Lower.hs), which chooses signed or unsigned operations, widths and
\* scales, is the type of C.
TypesAgree ==
    (stack # <<>> /\ ~IsList(Top(0))) => Decay(canonicalIntegerType(exprType(Top(0)))) = Decay(RefType(Top(0)))

RECURSIVE IsConstant(_)
IsConstant(e) ==
    \/ e.e \in {"int", "sizeof"}
    \/ e.e \in {"cast", "unary"} /\ IsConstant(e.a)
    \/ e.e = "binary" /\ e.op # "," /\ IsConstant(e.a) /\ IsConstant(e.b)
    \/ e.e = "cond" /\ IsConstant(e.c) /\ IsConstant(e.a) /\ IsConstant(e.b)

\* Constant folding (constExprTyped, on lists of bytes) and evaluation agree: the
\* same value at the same width and signedness whenever C defines one, so folding
\* never refuses such an expression, not even for what an arm that is not taken
\* would do.
FoldAgrees ==
    LET Same(ty, c, f) ==
            c.ok => /\ f # Bad
                    /\ f.size * ByteBits = Width(ty) /\ f.unsigned = ~Signed(ty)
                    /\ Conv(ty, Value(f.bytes)) = c.v.v
        Promoted(f) == IF f = Bad THEN Bad ELSE constantPromote(f)
    IN  (Len(stack) = 1 /\ ~IsList(Top(0)) /\ IsConstant(Top(0))) =>
            Same(Promote(RefType(Top(0))), Eval(Top(0), <<>>), Promoted(constExprTyped(TRUE, Top(0))))

\* Layout (fieldOffset, typeSize): the members of every struct are aligned, lie
\* inside it and do not overlap, and it can be repeated in an array.
LayoutSound ==
    stack = <<>> =>
        \A tag \in DOMAIN csStructs :
            LET ty == CStruct(tag)
                At(m) == memberInfo(ty, m.name).offset
                Bytes(m) == At(m)..(At(m) + typeSize(m.ty) - 1)
            IN  /\ typeSize(ty) % typeAlign(ty) = 0
                /\ \A m \in Members(ty) :
                      /\ memberInfo(ty, m.name).ty = m.ty
                      /\ At(m) % typeAlign(m.ty) = 0 /\ typeAlign(ty) % typeAlign(m.ty) = 0
                      /\ At(m) + typeSize(m.ty) <= typeSize(ty)
                      /\ \A o \in Members(ty) \ {m} : ~csStructs[tag].union => Bytes(m) \cap Bytes(o) = {}

\* A _Bool in memory holds 0 or 1 after every expression.
BoolHoldsTruth ==
    Ran => \A loc \in DOMAIN out.c.m : LocType(loc) = CBool => out.ir.m[AddressOf(BaseAfter, loc)] \in {0, 1}

\* What hcc1 knows of types (exprType, typeSize, memberInfo) is what C says: the
\* type of each expression, and a layout in which no member meets another.
TypesSound == TypesAgree /\ LayoutSound
===================================================================================
