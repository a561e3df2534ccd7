------------------------------- MODULE LowerStmt -------------------------------
(***************************************************************************)
(* hcc1 lowering the statements of one function to basic blocks            *)
(* (hcc/src/Hcc/Lower.hs: lowerFunction, lowerStatementsFrom and the       *)
(* functions it calls for statements and conditions; CompileM.hs and       *)
(* ScopeMap.hs for the state that is threaded through them).               *)
(*                                                                         *)
(* The state S of CompileM is [next, vars, labels, brk, cont, err]:        *)
(* csNextBlock, csVars (innermost scope first), csLabels, csBreakTargets,  *)
(* csContinueTargets, and whether throwC was called.  A temp is named by   *)
(* the statement that declares it (freshTemp gives each declaration a temp *)
(* of its own); 0 stands for a name without a local declaration.           *)
(***************************************************************************)
EXTENDS StmtParse

VARIABLE blocks    \* the function's BasicBlocks, in the order of the IR file

lowerVars == <<parseVars, blocks>>

(***************************************************************************)
(* Instructions, terminators, blocks.                                      *)
(***************************************************************************)
IUse(d)        == [k |-> "use", d |-> d]
IDecl(u)       == [k |-> "decl", d |-> u]
IValue(d, u)   == [k |-> "value", d |-> d, u |-> u]    \* a switch's operand
TRet(u)        == [k |-> "ret", u |-> u]
TJump(b)       == [k |-> "jump", yes |-> b]
TBranch(d, y, n) == [k |-> "branch", d |-> d, yes |-> y, no |-> n]
TCase(u, v, y, n) == [k |-> "case", u |-> u, v |-> v, yes |-> y, no |-> n]
BasicBlock(id, ins, term) == [id |-> id, ins |-> ins, term |-> term]

Lowered(S, bl) == [s |-> S, bl |-> bl]

(***************************************************************************)
(* CompileM.                                                               *)
(***************************************************************************)
emptyScope == [n \in Names |-> 0]
LabelNames == {prog[u].s.l : u \in {w \in DOMAIN prog : prog[w].s.k \in {"goto", "label"}}}

initialState ==
    [next |-> 0, vars |-> <<emptyScope>>, labels |-> [l \in LabelNames |-> -1],
     brk |-> <<>>, cont |-> <<>>, err |-> FALSE]

\* The next block ids are S.next, S.next + 1, ...
freshBlocks(S, n) == [S EXCEPT !.next = @ + n]
throwC(S) == [S EXCEPT !.err = TRUE]

bindVar(S, n, u) == [S EXCEPT !.vars[1][n] = u]

scopeMapLookup(S, n) ==
    LET bound == {i \in DOMAIN S.vars : S.vars[i][n] # 0}
    IN  IF bound = {} THEN 0 ELSE S.vars[Min(bound)][n]

scopeMapEnter(S) == [S EXCEPT !.vars = <<emptyScope>> \o @]

\* Mutant: the scope stays open.
MutLeave(S) == S
scopeMapLeave(S) == [S EXCEPT !.vars = Tail(@)]

\* Mutant: switch has no break target of its own.
MutNoBreakTarget(S, b) == S
withBreakTarget(S, b) == [S EXCEPT !.brk = <<b>> \o @]
\* Mutant: continue keeps the target of the outer loop.
MutLoopTargets(S, b, c) == [S EXCEPT !.brk = <<b>> \o @, !.cont = @ \o <<c>>]
withLoopTargets(S, b, c) == [S EXCEPT !.brk = <<b>> \o @, !.cont = <<c>> \o @]
\* Mutant: a loop's targets stay in force after it.
MutTargetsKept(S, outer) == S
TargetsOf(S, outer) == [S EXCEPT !.brk = outer.brk, !.cont = outer.cont]

\* The block of a label is allocated by the first goto or label that names it.
labelBlock(S, l) ==
    IF S.labels[l] # -1 THEN [s |-> S, id |-> S.labels[l]]
    ELSE [s |-> [freshBlocks(S, 1) EXCEPT !.labels[l] = S.next], id |-> S.next]

(***************************************************************************)
(* Conditions.                                                             *)
(***************************************************************************)
RECURSIVE lowerConditionBlock(_, _, _, _, _, _)
lowerConditionBlock(S, bid, ins, c, yes, no) ==
    LET right == S.next
        two(yes1, no1) ==
            LET L == lowerConditionBlock(freshBlocks(S, 1), bid, ins, c.a, yes1, no1)
                R == lowerConditionBlock(L.s, right, <<>>, c.b, yes, no)
            IN  Lowered(R.s, L.bl \o R.bl)
    IN
    CASE c.op = "&&"   -> two(right, no)
      [] c.op = "||"   -> two(yes, right)
      [] c.op = "!"    -> lowerConditionBlock(S, bid, ins, c.a, no, yes)
      [] c.op = "test" ->
            Lowered(S, <<BasicBlock(bid, ins, TBranch(scopeMapLookup(S, c.n), yes, no))>>)
      [] c.op = "none" -> Lowered(S, <<BasicBlock(bid, ins, TJump(yes))>>)

(***************************************************************************)
(* switch: the clauses of the body; what stands before the first case      *)
(* belongs to none.                                                        *)
(***************************************************************************)
\* switchBodyStatements: the braces around the body are dropped.
switchBodyStatements(u) ==
    LET body == Kids(u, 1)
    IN  IF Len(body) = 1 /\ prog[body[1]].s.k = "block" THEN Kids(body[1], 1) ELSE body

collectSwitchClauses(list) ==
    LET heads == SetToSortSeq({i \in DOMAIN list : prog[list[i]].s.k \in {"case", "default"}}, <)
        end(j) == IF j = Len(heads) THEN Len(list) ELSE heads[j + 1] - 1
    IN  [j \in DOMAIN heads |-> [label |-> prog[list[heads[j]]].s,
                                 body |-> SubSeq(list, heads[j] + 1, end(j))]]

\* Mutant: default is only taken where it is the last clause.
MutDefaultTarget(clauses, first, restId) ==
    LET n == Len(clauses)
    IN  IF n > 0 /\ clauses[n].label.k = "default" THEN first + n - 1 ELSE restId

\* Clause j has block first + j - 1.
switchDefaultTarget(clauses, first, restId) ==
    LET ds == {j \in DOMAIN clauses : clauses[j].label.k = "default"}
    IN  IF ds = {} THEN restId ELSE first + Min(ds) - 1

\* lowerSwitchDispatch: the cases are compared in order; the first comparison
\* is in block dispatchId, the others in blocks S.next, S.next + 1, ...
lowerSwitchDispatch(S, u, dispatchId, default, clauses, first) ==
    LET cases == SetToSortSeq({j \in DOMAIN clauses : clauses[j].label.k = "case"}, <)
        n == Len(cases)
        id(i) == IF i = 1 THEN dispatchId ELSE S.next + i - 2
        compare(i) ==
            BasicBlock(id(i), <<>>, TCase(u, clauses[cases[i]].label.v, first + cases[i] - 1,
                                          IF i = n THEN default ELSE id(i + 1)))
    IN  IF n = 0 THEN Lowered(S, <<BasicBlock(dispatchId, <<>>, TJump(default))>>)
        ELSE Lowered(freshBlocks(S, n - 1), [i \in 1..n |-> compare(i)])

(***************************************************************************)
(* Statements.                                                             *)
(***************************************************************************)
lowerDecl(S, u, n, init) ==
    LET B == bindVar(S, n, u)
    IN  [s |-> B, ins |-> (IF init = None THEN <<>> ELSE <<IUse(scopeMapLookup(B, init))>>)
                          \o <<IDecl(u)>>]

\* Mutant: the labels after a jump are not looked for.
MutAfterLabel(list) == 0

\* lowerUnreachableLabels goes on at the first label of the same list.
AfterLabel(list) ==
    LET ls == {i \in DOMAIN list : prog[list[i]].s.k = "label"}
    IN  IF ls = {} THEN 0 ELSE Min(ls)

RECURSIVE lowerStatementsFrom(_, _, _, _, _)
RECURSIVE lowerSwitchClauses(_, _, _, _, _)

lowerUnreachableLabels(S, list, term) ==
    LET i == AfterLabel(list) IN
    IF i = 0 THEN Lowered(S, <<>>)
    ELSE LET L == labelBlock(S, prog[list[i]].s.l)
         IN  lowerStatementsFrom(L.s, L.id, <<>>, SubSeq(list, i + 1, Len(list)), term)

\* A block that ends in a jump, and what of the rest can still be reached.
EndsWith(S, bid, ins, jump, rest, term) ==
    LET T == lowerUnreachableLabels(S, rest, term)
    IN  Lowered(T.s, <<BasicBlock(bid, ins, jump)>> \o T.bl)

\* SBlock
lowerBlock(S, u, bid, ins, rest, term) ==
    IF rest = <<>>
    THEN LET B == lowerStatementsFrom(scopeMapEnter(S), bid, ins, Kids(u, 1), term)
         IN  Lowered(scopeMapLeave(B.s), B.bl)
    ELSE LET B == lowerStatementsFrom(scopeMapEnter(freshBlocks(S, 1)), bid, ins,
                                      Kids(u, 1), TJump(S.next))
             T == lowerStatementsFrom(scopeMapLeave(B.s), S.next, <<>>, rest, term)
         IN  Lowered(T.s, B.bl \o T.bl)

\* SWhile, SDoWhile: the condition is lowered before the body, and the rest last.
lowerWhile(S, u, bid, ins, rest, term) ==
    LET do == prog[u].s.k = "do"
        condId == IF do THEN S.next + 1 ELSE S.next
        bodyId == IF do THEN S.next ELSE S.next + 1
        restId == S.next + 2
        C == lowerConditionBlock(freshBlocks(S, 3), condId, <<>>, prog[u].s.c, bodyId, restId)
        B == lowerStatementsFrom(withLoopTargets(C.s, restId, condId), bodyId, <<>>,
                                 Kids(u, 1), TJump(condId))
        T == lowerStatementsFrom(TargetsOf(B.s, S), restId, <<>>, rest, term)
    IN  Lowered(T.s, <<BasicBlock(bid, ins, TJump(IF do THEN bodyId ELSE condId))>>
                     \o (IF do THEN B.bl \o C.bl ELSE C.bl \o B.bl) \o T.bl)

\* SFor, lowerForLoop: an init clause that declares opens a scope.
lowerFor(S, u, bid, ins, rest, term) ==
    LET s == prog[u].s
        restId == S.next
        D == IF s.n = None THEN [s |-> freshBlocks(S, 1), ins |-> <<>>]
             ELSE lowerDecl(scopeMapEnter(freshBlocks(S, 1)), u, s.n, None)
        condId == D.s.next
        stepId == condId + 2
        C == lowerConditionBlock(freshBlocks(D.s, 3), condId, <<>>, s.c, condId + 1, restId)
        step == IF s.step = None THEN <<>> ELSE <<IUse(scopeMapLookup(C.s, s.step))>>
        B == lowerStatementsFrom(withLoopTargets(C.s, restId, stepId), condId + 1, <<>>,
                                 Kids(u, 1), TJump(stepId))
        L == TargetsOf(B.s, S)
        T == lowerStatementsFrom(IF s.n = None THEN L ELSE scopeMapLeave(L),
                                 restId, <<>>, rest, term)
    IN  Lowered(T.s, <<BasicBlock(bid, ins \o D.ins, TJump(condId))>> \o C.bl \o B.bl
                     \o <<BasicBlock(stepId, step, TJump(condId))>> \o T.bl)

\* SIf: the statements after the if are lowered before its arms and its
\* condition; without any, the arms jump where the list jumps.
lowerIf(S, u, bid, ins, rest, term) ==
    LET yesId == S.next
        noId == S.next + 1
        direct == rest = <<>> /\ term.k = "jump"
        restId == IF direct THEN term.yes ELSE S.next + 2
        T == IF direct THEN Lowered(freshBlocks(S, 2), <<>>)
             ELSE lowerStatementsFrom(freshBlocks(S, 3), restId, <<>>, rest, term)
        no == Kids(u, 2)
        Y == lowerStatementsFrom(T.s, yesId, <<>>, Kids(u, 1), TJump(restId))
        N == IF no = <<>> THEN Lowered(Y.s, <<>>)
             ELSE lowerStatementsFrom(Y.s, noId, <<>>, no, TJump(restId))
        C == lowerConditionBlock(N.s, bid, ins, prog[u].s.c, yesId,
                                 IF no = <<>> THEN restId ELSE noId)
    IN  Lowered(C.s, C.bl \o Y.bl \o N.bl \o T.bl)

\* Each clause falls through to the next one.
lowerSwitchClauses(S, clauses, j, first, restId) ==
    IF j > Len(clauses) THEN Lowered(S, <<>>)
    ELSE LET next == IF j = Len(clauses) THEN restId ELSE first + j
             B == lowerStatementsFrom(S, first + j - 1, <<>>, clauses[j].body, TJump(next))
             T == lowerSwitchClauses(B.s, clauses, j + 1, first, restId)
         IN  Lowered(T.s, B.bl \o T.bl)

\* SSwitch, lowerSwitch
lowerSwitch(S, u, bid, ins, rest, term) ==
    LET dispatchId == S.next
        restId == S.next + 1
        first == S.next + 2
        clauses == collectSwitchClauses(switchBodyStatements(u))
        D == lowerSwitchDispatch(freshBlocks(S, 2 + Len(clauses)), u, dispatchId,
                                 switchDefaultTarget(clauses, first, restId), clauses, first)
        B == lowerSwitchClauses(withBreakTarget(D.s, restId), clauses, 1, first, restId)
        T == lowerStatementsFrom(TargetsOf(B.s, S), restId, <<>>, rest, term)
        value == IValue(scopeMapLookup(S, prog[u].s.n), u)
    IN  Lowered(T.s, <<BasicBlock(bid, Append(ins, value), TJump(dispatchId))>>
                     \o D.bl \o B.bl \o T.bl)

lowerStatementsFrom(S, bid, ins, list, term) ==
    IF list = <<>> THEN Lowered(S, <<BasicBlock(bid, ins, term)>>)
    ELSE
    LET u == Head(list)
        s == prog[u].s
        rest == Tail(list)
        failed == Lowered(throwC(S), <<>>)
    IN
    CASE s.k = "use"  ->
            lowerStatementsFrom(S, bid, Append(ins, IUse(scopeMapLookup(S, s.n))), rest, term)
      [] s.k = "decl" ->
            LET D == lowerDecl(S, u, s.n, s.init)
            IN  lowerStatementsFrom(D.s, bid, ins \o D.ins, rest, term)
      [] s.k = "ret"  -> EndsWith(S, bid, ins, TRet(u), rest, term)
      [] s.k = "goto" ->
            LET L == labelBlock(S, s.l) IN EndsWith(L.s, bid, ins, TJump(L.id), rest, term)
      [] s.k = "label" ->
            LET L == labelBlock(S, s.l)
                T == lowerStatementsFrom(L.s, L.id, <<>>, rest, term)
            IN  Lowered(T.s, <<BasicBlock(bid, ins, TJump(L.id))>> \o T.bl)
      [] s.k = "break" ->
            IF S.brk = <<>> THEN failed
            ELSE EndsWith(S, bid, ins, TJump(Head(S.brk)), rest, term)
      [] s.k = "continue" ->
            IF S.cont = <<>> THEN failed
            ELSE EndsWith(S, bid, ins, TJump(Head(S.cont)), rest, term)
      [] s.k = "block"  -> lowerBlock(S, u, bid, ins, rest, term)
      [] s.k = "if"     -> lowerIf(S, u, bid, ins, rest, term)
      [] s.k \in {"while", "do"} -> lowerWhile(S, u, bid, ins, rest, term)
      [] s.k = "for"    -> lowerFor(S, u, bid, ins, rest, term)
      [] s.k = "switch" -> lowerSwitch(S, u, bid, ins, rest, term)
      [] s.k \in {"case", "default"} -> failed

LowerInit == ParseInit /\ blocks = <<>>

\* lowerFunction; throwC ends the compilation.
LowerFunction ==
    /\ phase = "lower"
    /\ LET L == lowerStatementsFrom(freshBlocks(initialState, 1), 0, <<>>, Kids(0, 1), TRet(0))
       IN  /\ phase' = IF L.s.err THEN "error" ELSE "lowered"
           /\ blocks' = IF L.s.err THEN <<>> ELSE L.bl
    /\ UNCHANGED <<prog, open, noElse>>

LowerNext ==
    \/ ParseNext /\ UNCHANGED blocks
    \/ LowerFunction
===============================================================================
