---------------------------------- MODULE MCExpr ----------------------------------
(***************************************************************************)
(* Worlds for ExprExec.  Each one offers the names and operators of one    *)
(* concern, so that the trees over them can be enumerated.                 *)
(***************************************************************************)
EXTENDS ExprExec

Order(names) == [n \in Range(names) |-> CHOOSE i \in DOMAIN names : names[i] = n]
V(t, ty) == [temp |-> t, ty |-> ty]
NoMap == [x \in {} |-> 0]

Pair == [union |-> FALSE, fields |-> <<Field(CChar, "c"), Field(CInt, "x"), Field(CArray(CShort, 2), "s")>>]
Inner == [union |-> FALSE, fields |-> <<Field(CShort, "p"), Field(CLong, "q")>>]
Mixed == [union |-> FALSE, fields |-> <<
    Field(CChar, "a"), Field(CUnionDef(<<Field(CInt, "u"), Field(CChar, "v")>>), "w"),
    Field(CStructDef(<<Field(CChar, "e"), Field(CLong, "f")>>), Anonymous), Field(CChar, "z")>>]
Either == [union |-> TRUE, fields |-> <<Field(CShort, "g"), Field(CLong, "h"), Field(CArray(CChar, 3), "k")>>]
Structs == [t \in {"Pair", "Inner", "Mixed", "Either"} |->
    CASE t = "Pair" -> Pair [] t = "Inner" -> Inner [] t = "Mixed" -> Mixed [] t = "Either" -> Either]

Blank == [
    bits |-> 64, structs |-> Structs, vars |-> NoMap, globals |-> NoMap, functions |-> NoMap, order |-> NoMap, points |-> NoMap,
    leaves |-> {}, unary |-> {}, postfix |-> {}, casts |-> {}, sizeof |-> FALSE, binary |-> {}, compound |-> {},
    assign |-> FALSE, cond |-> FALSE, index |-> FALSE, fields |-> {}, calls |-> {}, lists |-> {},
    size |-> 3, inits |-> {<<"min", "one">>}]

Vars(names) == {EVar(n) : n \in names}

\* Arithmetic on every pair of types, then under casts and unary operators.  A
\* 32-bit target has no long long here: its words do not hold one.
ArithmeticVars == ("c" :> V(0, CChar)) @@ ("h" :> V(1, CUnsignedShort)) @@ ("i" :> V(2, CInt))
                      @@ ("u" :> V(3, CUnsigned)) @@ ("l" :> V(4, CLong))
Arithmetic == [Blank EXCEPT
    !.vars = ArithmeticVars,
    !.globals = ("b" :> CBool) @@ ("m" :> CUnsignedLongLong),
    !.order = Order(<<"c", "h", "i", "u", "l", "b", "m">>),
    !.leaves = Vars({"c", "h", "i", "u", "l", "b", "m"}) \cup {EInt(3), EInt(200)},
    !.binary = {"+", "-", "*", "/", "%", "&", "|", "^", "<<", ">>", "<", "<=", ">", ">=", "==", "!="},
    !.inits = {<<"min", "ones">>, <<"max", "two">>, <<"ones", "max">>}]
Arithmetic32 == [Arithmetic EXCEPT
    !.bits = 32,
    !.globals = ("b" :> CBool) @@ ("m" :> CUnsignedLong),
    !.leaves = Vars({"c", "h", "i", "u", "l", "b", "m"}) \cup {EInt(3), ELit(200, FALSE, 0, FALSE)}]
Nested == [Arithmetic EXCEPT
    !.leaves = Vars({"c", "u", "l"}) \cup {EInt(3)},
    !.binary = {"-", "*", "/", ">>", "<"},
    !.unary = {"-", "~", "!", "+"},
    !.casts = {CChar, CBool, CUnsignedShort, CUnsigned, CLong},
    !.size = 4]

\* Assignments to every kind of scalar, and their values.
Assignment == [Blank EXCEPT
    !.vars = ("c" :> V(0, CChar)) @@ ("i" :> V(1, CInt)) @@ ("l" :> V(2, CUnsignedLong)),
    !.globals = ("b" :> CBool) @@ ("h" :> CUnsignedShort),
    !.order = Order(<<"c", "i", "l", "b", "h">>),
    !.leaves = Vars({"c", "i", "l", "b", "h"}) \cup {EInt(300)},
    !.assign = TRUE,
    !.compound = {"+", "-", "*", "/", "%", "<<", ">>", "&", "|", "^"},
    !.unary = {"++", "--"},
    !.size = 5,
    !.inits = {<<"min", "ones">>, <<"max", "two">>}]
Chained == [Assignment EXCEPT
    !.globals = ("h" :> CUnsignedShort),
    !.leaves = Vars({"c", "i", "h"}),
    !.compound = {"-", ">>"},
    !.postfix = {"++", "--"},
    !.binary = {"+", ","},
    !.unary = {},
    !.size = 6]

\* Pointers into arrays, to locals and to globals.
Pointers == [Blank EXCEPT
    !.vars = ("a" :> V(0, CArray(CInt, 3))) @@ ("p" :> V(1, CPtr(CInt))) @@ ("i" :> V(2, CInt))
             @@ ("q" :> V(3, CPtr(CShort))) @@ ("j" :> V(4, CChar)) @@ ("r" :> V(5, CPtr(CChar))),
    !.globals = ("g" :> CArray(CShort, 2)),
    !.order = Order(<<"a", "p", "i", "q", "j", "r", "g">>),
    !.points = ("p" :> Loc("a", <<Index(1)>>)) @@ ("q" :> Loc("g", <<Index(0)>>)) @@ ("r" :> Loc("j", <<>>)),
    !.leaves = Vars({"a", "p", "i", "q", "g", "r"}) \cup {EInt(1)},
    !.unary = {"*", "&", "++", "!"},
    !.postfix = {"--"},
    !.index = TRUE,
    !.binary = {"+", "-", "<", "=="},
    !.assign = TRUE,
    !.compound = {"+", "-"},
    !.size = 5,
    !.inits = {<<"one", "ones">>, <<"min", "one">>}]

\* Structs: members, copies, arguments.
Records == [Blank EXCEPT
    !.vars = ("s" :> V(0, CStruct("Pair"))) @@ ("p" :> V(1, CPtr(CStruct("Pair")))) @@ ("i" :> V(2, CInt)),
    !.globals = ("t" :> CStruct("Pair")),
    !.functions = ("f" :> CFunc(CChar, CStruct("Pair"))),
    !.order = Order(<<"s", "p", "i", "t">>),
    !.points = ("p" :> Loc("t", <<>>)),
    !.leaves = Vars({"s", "p", "i", "t"}),
    !.unary = {"*", "&", "--"},
    !.fields = {"c", "x", "s"},
    !.index = TRUE,
    !.assign = TRUE,
    !.cond = TRUE,
    !.calls = {"f"},
    !.sizeof = TRUE,
    !.size = 6,
    !.inits = {<<"one", "ones">>}]
Packed == [Records EXCEPT
    !.bits = 32,
    !.vars = ("s" :> V(0, CStruct("Mixed"))) @@ ("p" :> V(1, CPtr(CStruct("Mixed")))) @@ ("i" :> V(2, CInt)),
    !.globals = ("t" :> CStruct("Mixed")),
    !.functions = NoMap, !.calls = {},
    !.unary = {"*"},
    !.fields = {"a", "w", "u", "e", "f", "z"},
    !.index = FALSE, !.cond = FALSE, !.sizeof = FALSE]

\* Operands that are evaluated only sometimes.
Control == [Blank EXCEPT
    !.vars = ("i" :> V(0, CInt)) @@ ("u" :> V(1, CUnsigned)) @@ ("c" :> V(2, CChar)),
    !.order = Order(<<"i", "u", "c">>),
    !.leaves = Vars({"i", "u", "c"}) \cup {EInt(0)},
    !.postfix = {"++"},
    !.binary = {"&&", "||", ","},
    !.cond = TRUE,
    !.sizeof = TRUE,
    !.unary = {"!"},
    !.size = 6,
    !.inits = {<<"ones", "one">>}]

\* Arguments and results of other types than the parameter and the return type.
Calls == [Arithmetic EXCEPT
    !.functions = ("f" :> CFunc(CUnsignedShort, CChar)) @@ ("g" :> CFunc(CBool, CLong)) @@ ("k" :> CFunc(CLong, CUnsigned)),
    !.calls = {"f", "g", "k"},
    !.binary = {"+", "<", ","},
    !.unary = {"-"},
    !.size = 4]

\* Constant expressions.
Constants == [Blank EXCEPT
    !.leaves = {EInt(0), EInt(3), EInt(200), ELit(200, FALSE, 0, FALSE), ELit(1, FALSE, 1, TRUE),
                ELit(130, TRUE, 2, TRUE)},
    !.vars = ("i" :> V(0, CInt)), !.order = Order(<<"i">>),
    !.binary = {"+", "-", "*", "/", "%", "&", "|", "^", "<<", ">>", "<", "==", "&&", "||"},
    !.unary = {"-", "~", "!"},
    !.casts = {CChar, CUnsignedShort, CBool},
    !.sizeof = TRUE,
    !.size = 4]
Guarded == [Constants EXCEPT
    !.bits = 32,
    !.leaves = {EInt(0), EInt(3), ELit(200, FALSE, 0, FALSE), ELit(1, TRUE, 1, TRUE)},
    !.binary = {"/", "<<", ">>", "&&", "||"},
    !.unary = {}, !.casts = {}, !.sizeof = FALSE,
    !.cond = TRUE,
    !.size = 5]

\* Initializers.
Initializer(ty) == [Blank EXCEPT
    !.vars = ("i" :> V(0, CInt)) @@ ("s" :> V(1, CStruct("Pair"))) @@ ("d" :> V(2, ty)),
    !.order = Order(<<"i", "s", "d">>),
    !.leaves = Vars({"i", "s"}) \cup {EInt(1), EInt(300)},
    !.unary = {"-"},
    !.lists = {1, 2, 3},
    !.size = 6,
    !.inits = {<<"min", "one">>}]
Initializers == {Initializer(ty) : ty \in
    {CChar, CBool, CArray(CShort, 3), CStruct("Pair"), CStruct("Either"), CArray(CStruct("Pair"), 2)}}

\* A _Bool in memory, stepped.
Flag == [Blank EXCEPT
    !.globals = ("b" :> CBool), !.order = Order(<<"b">>),
    !.leaves = Vars({"b"}),
    !.unary = {"++", "!"},
    !.postfix = {"++"},
    !.assign = TRUE,
    !.inits = {<<"one", "one">>}]
FlagWorlds == {Flag}

MCWorlds == {Arithmetic, Arithmetic32, Nested, Assignment, Chained, Pointers, Records, Packed, Control, Calls,
             Constants, Guarded} \cup Initializers
===================================================================================
