------------------------------- MODULE StmtParse -------------------------------
(***************************************************************************)
(* hcc1 parsing the statements of one function body                        *)
(* (hcc/src/Hcc/Parser.hs: compound, stmt, stmtAsBlock and the parse*      *)
(* functions of the statements).                                           *)
(*                                                                         *)
(* The statement tree is a table: statement u is prog[u], numbered in the  *)
(* order of the source; prog[u].p is the statement it is inside (0: the    *)
(* function body) and prog[u].arm which of that statement's lists it is    *)
(* in (2: the else arm).  Expressions are reduced to the variable they     *)
(* read.                                                                   *)
(***************************************************************************)
EXTENDS Integers, Sequences, FiniteSets, SequencesExt

CONSTANTS
    Stmts,      \* the statements a function body may hold
    Names,      \* the names of variables
    MaxStmts    \* bound: statements of one function

ASSUME MaxStmtsAssumption == MaxStmts \in Nat

VARIABLES
    phase,      \* "parse", "lower", then the phases of running both
    prog,       \* the statements parsed so far
    open,       \* the lists being parsed, innermost last
    noElse      \* the next token is known not to be "else"

parseVars == <<phase, prog, open, noElse>>

(***************************************************************************)
(* Statements (TypesAst.Stmt) and conditions.                              *)
(***************************************************************************)
None == "none"

Use(n)          == [k |-> "use", n |-> n]                   \* SExpr
Decl(n, init)   == [k |-> "decl", n |-> n, init |-> init]   \* SDecl
Return          == [k |-> "ret"]
Goto(l)         == [k |-> "goto", l |-> l]
Label(l)        == [k |-> "label", l |-> l]
Break           == [k |-> "break"]
Continue        == [k |-> "continue"]
Case(v)         == [k |-> "case", v |-> v]
Default         == [k |-> "default"]
Block           == [k |-> "block"]
If(c)           == [k |-> "if", c |-> c]
While(c)        == [k |-> "while", c |-> c]
DoWhile(c)      == [k |-> "do", c |-> c]
\* n: the variable declared in the init clause; c is NoCond in "for (;;)";
\* step: the variable the step expression reads.
For(n, c, step) == [k |-> "for", n |-> n, c |-> c, step |-> step]
Switch(n)       == [k |-> "switch", n |-> n]

NoCond    == [op |-> "none"]
Test(n)   == [op |-> "test", n |-> n]
And(a, b) == [op |-> "&&", a |-> a, b |-> b]
Or(a, b)  == [op |-> "||", a |-> a, b |-> b]
Not(a)    == [op |-> "!", a |-> a]

BodyKinds == {"if", "while", "do", "for", "switch"}    \* their body is stmtAsBlock
JumpKinds == {"ret", "goto", "break", "continue"}

Kids(p, arm) ==
    SetToSortSeq({u \in DOMAIN prog : prog[u].p = p /\ prog[u].arm = arm}, <)

ParseInit ==
    /\ phase = "parse"
    /\ prog = <<>>
    /\ open = <<[p |-> 0, arm |-> 1, single |-> FALSE]>>
    /\ noElse = FALSE

Top == Last(open)

\* stmtAsBlock without braces takes one statement, or a label and one more.
Full ==
    LET ks == Kids(Top.p, Top.arm)
    IN  Top.single /\ ks # <<>> /\ (Len(ks) = 2 \/ prog[ks[1]].s.k # "label")

\* stmt: one statement begins, and ends unless it has a body.
Statement(s) ==
    /\ phase = "parse"
    /\ Len(prog) < MaxStmts
    /\ ~Full
    /\ prog' = Append(prog, [s |-> s, p |-> Top.p, arm |-> Top.arm])
    /\ open' = LET body == [p |-> Len(prog) + 1, arm |-> 1, single |-> s.k # "block"]
               IN  IF s.k \in BodyKinds \cup {"block"} THEN Append(open, body) ELSE open
    /\ noElse' = FALSE
    /\ UNCHANGED phase

\* compound: "}"
CloseBlock ==
    /\ phase = "parse"
    /\ ~Top.single
    /\ Len(open) > 1
    /\ open' = Front(open)
    /\ noElse' = FALSE
    /\ UNCHANGED <<phase, prog>>

\* The body of a statement is complete; after the first arm of an if, the next
\* token is not "else".
CloseBody ==
    /\ phase = "parse"
    /\ Full
    /\ open' = Front(open)
    /\ noElse' = (noElse \/ (prog[Top.p].s.k = "if" /\ Top.arm = 1))
    /\ UNCHANGED <<phase, prog>>

\* parseIf: "else" belongs to the innermost if that can take it.
ParseElse ==
    /\ phase = "parse"
    /\ Full
    /\ ~noElse
    /\ prog[Top.p].s.k = "if" /\ Top.arm = 1
    /\ open' = Append(Front(open), [Top EXCEPT !.arm = 2])
    /\ UNCHANGED <<phase, prog, noElse>>

\* The "}" of the function body.
EndFunction ==
    /\ phase = "parse"
    /\ Len(open) = 1
    /\ phase' = "lower"
    /\ UNCHANGED <<prog, open, noElse>>

ParseNext ==
    \/ \E s \in Stmts : Statement(s)
    \/ CloseBlock
    \/ CloseBody
    \/ ParseElse
    \/ EndFunction
===============================================================================
