-------------------------------- MODULE StmtExec --------------------------------
(***************************************************************************)
(* Running the lowered function against its source.  The source is run on  *)
(* the statement table by the rules of C, which know nothing of blocks:    *)
(* what comes after a statement, where break, continue, goto and case      *)
(* lead, which declaration a name refers to.  Its trace is then replayed   *)
(* by the blocks.  A test and the value of a switch may come out any way   *)
(* in the source run; the blocks meet the same outcome at the same place   *)
(* of the trace.                                                           *)
(***************************************************************************)
EXTENDS LowerStmt

CONSTANT MaxTrace    \* bound: events of one run

ASSUME MaxTraceAssumption == MaxTrace \in Nat

VARIABLES
    x,      \* the source: u, pt ("in": enter u, "cond", "step"), tr
    b       \* the blocks: id, pc, sw (the value of each switch), tr

execVars == <<lowerVars, x, b>>

(***************************************************************************)
(* The structure of the source.                                            *)
(***************************************************************************)
RECURSIVE Ancestors(_)
Ancestors(u) == IF prog[u].p = 0 THEN {} ELSE {prog[u].p} \cup Ancestors(prog[u].p)

KindIs(u, kinds) == prog[u].s.k \in kinds
Within(u, kinds) == {w \in Ancestors(u) : KindIs(w, kinds)}
Innermost(u, kinds) == Max(Within(u, kinds))
Siblings(u) == {w \in DOMAIN prog : prog[w].p = prog[u].p /\ prog[w].arm = prog[u].arm}
Earlier(u) == {w \in Siblings(u) : w < u}
Later(u) == {w \in Siblings(u) : w > u}

\* The declaration a name in statement u refers to: the last one before u in a
\* list that u is in, or in the init clause of a for statement around u.
Visible(u, n) ==
    LET chain == {u} \cup Ancestors(u)
        ds == {d \in DOMAIN prog : KindIs(d, {"decl"}) /\ prog[d].s.n = n
                                   /\ \E w \in chain : d \in Earlier(w) \cup {u}}
        fs == {d \in chain : KindIs(d, {"for"}) /\ prog[d].s.n = n}
    IN  IF ds \cup fs = {} THEN 0 ELSE Max(ds \cup fs)

LabelsNamed(l) == {u \in DOMAIN prog : prog[u].s = Label(l)}
CasesOf(sw) == {u \in DOMAIN prog : KindIs(u, {"case", "default"}) /\ Within(u, {"switch"}) # {}
                                    /\ Innermost(u, {"switch"}) = sw}

\* The function obeys the constraints of C.
Valid ==
    /\ \A u \in DOMAIN prog :
         /\ KindIs(u, {"goto"}) => Cardinality(LabelsNamed(prog[u].s.l)) = 1
         /\ KindIs(u, {"label"}) => Cardinality(LabelsNamed(prog[u].s.l)) = 1
         /\ KindIs(u, {"label", "case", "default"}) => Later(u) # {}
         /\ KindIs(u, {"break"}) => Within(u, {"while", "do", "for", "switch"}) # {}
         /\ KindIs(u, {"continue"}) => Within(u, {"while", "do", "for"}) # {}
         /\ KindIs(u, {"case", "default"}) => Within(u, {"switch"}) # {}
         /\ KindIs(u, {"decl"}) =>
              /\ prog[u].p = 0 \/ KindIs(prog[u].p, {"block"})
              /\ \A d \in Earlier(u) : KindIs(d, {"decl"}) => prog[d].s.n # prog[u].s.n
    /\ \A sw \in DOMAIN prog : \A c, d \in CasesOf(sw) : c # d => prog[c].s # prog[d].s

InSwitchList(w) ==
    /\ prog[w].p # 0
    /\ \/ KindIs(prog[w].p, {"switch"}) /\ ~KindIs(w, {"block"})
       \/ /\ KindIs(prog[w].p, {"block"})
          /\ prog[prog[w].p].p \in Within(w, {"switch"})

\* Code that lowerUnreachableLabels or collectSwitchClauses leaves out: what
\* follows a jump up to the next label of the same list or clause, and what
\* precedes the first case of a switch.
LeftOut(w) ==
    LET entries == {l \in Earlier(w) \cup {w} :
                      KindIs(l, IF InSwitchList(w) THEN {"label", "case", "default"} ELSE {"label"})}
    IN  \/ \E j \in Earlier(w) : KindIs(j, JumpKinds) /\ \A l \in entries : l < j
        \/ InSwitchList(w) /\ \A l \in entries : KindIs(l, {"label"})

Lost(u) == \E w \in {u} \cup Ancestors(u) : LeftOut(w)

\* A goto, or a switch, leads to a label in code that is left out.
GotoLost ==
    \E u \in DOMAIN prog :
        KindIs(u, {"goto"}) /\ ~Lost(u) /\ \E l \in LabelsNamed(prog[u].s.l) : Lost(l)
CaseLost ==
    \E u \in DOMAIN prog : KindIs(u, {"switch"}) /\ ~Lost(u) /\ \E c \in CasesOf(u) : Lost(c)

\* No declaration follows an if or a jump in its list, or stands in the list of
\* a switch.
ScopeSafe ==
    \A d \in DOMAIN prog : KindIs(d, {"decl"}) =>
        /\ \A w \in Earlier(d) : ~KindIs(w, JumpKinds \cup {"if"})
        /\ ~InSwitchList(d)

(***************************************************************************)
(* The source run.                                                         *)
(***************************************************************************)
Point(u, pt) == [u |-> u, pt |-> pt]

\* Where control goes at the end of a list of statement p, and after u.
RECURSIVE Finish(_)
After(u) == IF Later(u) # {} THEN Point(Min(Later(u)), "in") ELSE Finish(prog[u].p)
Finish(p) ==
    IF p = 0 THEN Point(0, "in")
    ELSE IF KindIs(p, {"while", "do"}) THEN Point(p, "cond")
    ELSE IF KindIs(p, {"for"}) THEN Point(p, "step")
    ELSE After(p)

First(p, arm) ==
    LET ks == Kids(p, arm) IN IF ks = <<>> THEN Finish(p) ELSE Point(ks[1], "in")

\* The ways a condition can come out, with the tests made on the way.
RECURSIVE Evaluations(_, _)
Evaluations(u, c) ==
    LET ends(set, r, more) ==
            {e \in set : e.r # r} \cup
            {[ev |-> e.ev \o f.ev, r |-> f.r] : e \in {d \in set : d.r = r}, f \in more}
    IN
    CASE c.op = "test" -> {[ev |-> <<<<"test", Visible(u, c.n), r>>>>, r |-> r] : r \in BOOLEAN}
      [] c.op = "none" -> {[ev |-> <<>>, r |-> TRUE]}
      [] c.op = "!"    -> {[e EXCEPT !.r = ~@] : e \in Evaluations(u, c.a)}
      [] c.op = "&&"   -> ends(Evaluations(u, c.a), TRUE, Evaluations(u, c.b))
      [] c.op = "||"   -> ends(Evaluations(u, c.a), FALSE, Evaluations(u, c.b))

Goes(point, ev) == x' = [u |-> point.u, pt |-> point.pt, tr |-> x.tr \o ev]

Running == phase = "run" /\ Len(x.tr) < MaxTrace /\ x.u # 0
S0 == prog[x.u].s
In(kinds) == Running /\ x.pt = "in" /\ S0.k \in kinds

RunSimple ==
    \/ In({"use"}) /\ Goes(After(x.u), <<<<"use", Visible(x.u, S0.n)>>>>)
    \/ /\ In({"decl"})
       /\ Goes(After(x.u), (IF S0.init = None THEN <<>>
                            ELSE <<<<"use", Visible(x.u, S0.init)>>>>) \o <<<<"decl", x.u>>>>)
    \/ In({"label", "case", "default"}) /\ Goes(After(x.u), <<>>)
    \/ In({"block"}) /\ Goes(First(x.u, 1), <<>>)

RunJump ==
    \/ In({"goto"}) /\ Goes(Point(Min(LabelsNamed(S0.l)), "in"), <<>>)
    \/ In({"break"}) /\ Goes(After(Innermost(x.u, {"while", "do", "for", "switch"})), <<>>)
    \/ In({"continue"})
       /\ Goes(Finish(Innermost(x.u, {"while", "do", "for"})), <<>>)
    \/ In({"ret"}) /\ Goes(Point(0, "in"), <<<<"ret", x.u>>>>)

RunIf ==
    /\ In({"if"})
    /\ \E e \in Evaluations(x.u, S0.c) :
         Goes(IF e.r THEN First(x.u, 1)
              ELSE IF Kids(x.u, 2) # <<>> THEN First(x.u, 2) ELSE After(x.u), e.ev)

RunLoop ==
    \/ In({"while"}) /\ Goes(Point(x.u, "cond"), <<>>)
    \/ In({"do"}) /\ Goes(First(x.u, 1), <<>>)
    \/ In({"for"}) /\ Goes(Point(x.u, "cond"), IF S0.n = None THEN <<>> ELSE <<<<"decl", x.u>>>>)
    \/ /\ Running /\ x.pt = "cond"
       /\ \E e \in Evaluations(x.u, S0.c) :
            Goes(IF e.r THEN First(x.u, 1) ELSE After(x.u), e.ev)
    \/ /\ Running /\ x.pt = "step"
       /\ Goes(Point(x.u, "cond"),
               IF S0.step = None THEN <<>> ELSE <<<<"use", Visible(x.u, S0.step)>>>>)

RunSwitch ==
    /\ In({"switch"})
    /\ LET cases == CasesOf(x.u)
           values == {prog[c].s.v : c \in {d \in cases : KindIs(d, {"case"})}}
           at(v) == {c \in cases : prog[c].s = Case(v)}
           default == {c \in cases : KindIs(c, {"default"})}
           target(v) == IF at(v) # {} THEN Point(Min(at(v)), "in")
                        ELSE IF default # {} THEN Point(Min(default), "in") ELSE After(x.u)
       IN  \E v \in values \cup {None} :
             Goes(target(v), <<<<"value", Visible(x.u, S0.n), v>>>>)

\* The function is one that C gives a meaning and lowering keeps the labels of.
RunStart ==
    /\ phase = "lowered"
    /\ phase' = IF Valid /\ ~GotoLost /\ ~CaseLost THEN "run" ELSE "undef"
    /\ Goes(First(0, 1), <<>>)
    /\ UNCHANGED b

\* The end of the function, or the bound.
RunEnd ==
    /\ phase = "run"
    /\ x.u = 0 \/ Len(x.tr) >= MaxTrace
    /\ phase' = "exec"
    /\ x' = LET returned == x.tr # <<>> /\ Last(x.tr)[1] = "ret"
            IN  IF x.u = 0 /\ ~returned THEN [x EXCEPT !.tr = Append(@, <<"ret", 0>>)] ELSE x
    /\ UNCHANGED b

RunStep ==
    /\ RunSimple \/ RunJump \/ RunIf \/ RunLoop \/ RunSwitch
    /\ UNCHANGED <<phase, b>>

(***************************************************************************)
(* The blocks.                                                             *)
(***************************************************************************)
BlocksWith(id) == {i \in DOMAIN blocks : blocks[i].id = id}
Found == BlocksWith(b.id) # {}
Blk == blocks[Min(BlocksWith(b.id))]

\* The outcome that the source run met at this point of the trace.
Met(kind, d) ==
    LET i == Len(b.tr) + 1
    IN  IF i \in DOMAIN x.tr /\ x.tr[i][1] = kind /\ x.tr[i][2] = d THEN x.tr[i]
        ELSE <<kind, d, FALSE>>

Enter(id) == [b EXCEPT !.id = id, !.pc = 1]
See(B, e) == [B EXCEPT !.tr = Append(@, e)]

ExecInstr(i) ==
    LET B == [b EXCEPT !.pc = @ + 1] IN
    CASE i.k \in {"use", "decl"} -> See(B, <<i.k, i.d>>)
      [] i.k = "value" -> LET e == Met("value", i.d)
                          IN  [See(B, e) EXCEPT !.sw[i.u] = e[3]]

ExecTerm(t) ==
    CASE t.k = "jump"   -> Enter(t.yes)
      [] t.k = "branch" -> LET e == Met("test", t.d)
                           IN  See(Enter(IF e[3] THEN t.yes ELSE t.no), e)
      [] t.k = "case"   -> Enter(IF b.sw[t.u] = t.v THEN t.yes ELSE t.no)
      [] t.k = "ret"    -> See(b, <<"ret", t.u>>)

Agrees == IsPrefix(b.tr, x.tr)

ExecBlock ==
    /\ phase = "exec"
    /\ Found /\ Agrees /\ b.tr # x.tr
    /\ b' = IF b.pc <= Len(Blk.ins) THEN ExecInstr(Blk.ins[b.pc]) ELSE ExecTerm(Blk.term)
    /\ UNCHANGED <<phase, x>>

ExecEnd ==
    /\ phase = "exec"
    /\ b.tr = x.tr
    /\ phase' = "halt"
    /\ UNCHANGED <<x, b>>

StmtExecInit ==
    /\ LowerInit
    /\ x = [u |-> 0, pt |-> "in", tr |-> <<>>]
    /\ b = [id |-> 0, pc |-> 1, sw |-> [u \in 1..MaxStmts |-> None], tr |-> <<>>]

StmtExecNext ==
    \/ LowerNext /\ UNCHANGED <<x, b>>
    \/ (RunStart \/ RunStep \/ RunEnd \/ ExecBlock \/ ExecEnd)
       /\ UNCHANGED <<prog, open, noElse, blocks>>

\* The blocks are run by a processor: it does not stop.
Fairness == WF_execVars((ExecBlock \/ ExecEnd) /\ UNCHANGED <<prog, open, noElse, blocks>>)

StmtExecSpec == StmtExecInit /\ [][StmtExecNext]_execVars /\ Fairness

---------------------------------------------------------------------------------
(***************************************************************************)
(* Properties.                                                             *)
(***************************************************************************)

\* The blocks that lowerStatementsFrom makes do what the source says: the same
\* tests, uses, declarations and switch values in the same order, each name
\* meaning the declaration C gives it, until the same return.
LoweredFollowsSource == phase \in {"exec", "halt"} => Agrees

\* The same for functions in which no declaration follows an if or a jump in
\* its own list or stands directly in a switch.
ScopedFollowsSource == ScopeSafe => LoweredFollowsSource

\* The blocks never loop without doing anything the source does, and never
\* jump to a block that does not exist: every run of the blocks catches up with
\* the run of the source.
BlocksCatchUp == phase = "exec" ~> phase = "halt"

Jumps(t) ==
    CASE t.k = "jump" -> {t.yes} [] t.k \in {"branch", "case"} -> {t.yes, t.no} [] OTHER -> {}

\* Block ids are unique, and every jump of a function that C accepts has its
\* block, except when a goto names a label in code that lowering leaves out.
BlocksClosed ==
    phase = "lowered" /\ Valid =>
        /\ \A i, j \in DOMAIN blocks : i # j => blocks[i].id # blocks[j].id
        /\ (\A i \in DOMAIN blocks : \A t \in Jumps(blocks[i].term) : BlocksWith(t) # {})
             <=> ~GotoLost

\* Lowering refuses a function ("break outside loop or switch", "continue
\* outside loop", "unsupported statement") exactly when one of these stands in
\* code that it does not leave out: nothing valid is refused but a case label
\* inside a nested statement, and nothing else is let through.
RefusedExactly ==
    phase \in {"error", "lowered"} =>
        (phase = "error" <=>
           \E u \in DOMAIN prog :
              /\ ~Lost(u)
              /\ \/ KindIs(u, {"break"}) /\ Within(u, {"while", "do", "for", "switch"}) = {}
                 \/ KindIs(u, {"continue"}) /\ Within(u, {"while", "do", "for"}) = {}
                 \/ KindIs(u, {"case", "default"}) /\ ~InSwitchList(u))
=================================================================================
