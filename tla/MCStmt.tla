--------------------------------- MODULE MCStmt ---------------------------------
(***************************************************************************)
(* Small instances of StmtExec: every function body that can be parsed     *)
(* from one of the sets of statements, up to MaxStmts of them.             *)
(***************************************************************************)
EXTENDS StmtExec

MCNames == {"v", "w", "none"}

\* Jumps: goto forwards, backwards, into and out of loops and arms.
JumpStmts == {
    Use("v"), Return, Goto("L"), Label("L"), Break, Continue, Block,
    If(Or(Test("v"), Not(Test("w")))), While(Test("w")), DoWhile(And(Test("v"), Test("w")))}

\* switch inside and around loops.
SwitchStmts == {
    Use("v"), Break, Continue, Block, Case("1"), Case("2"), Default,
    Switch("v"), For(None, NoCond, "w")}

\* The least that shows a declaration bound too early.
ShadowStmts == {Use("v"), Decl("v", "none"), If(Test("v"))}

\* Declarations that shadow one another in every scope.
ScopeStmts == {
    Use("v"), Decl("v", "v"), Block, If(Test("v")), While(Test("v")),
    For("v", Test("v"), "v"), Switch("v"), Default}

\* All of them, each function from one set.
AllStmts == JumpStmts \cup SwitchStmts \cup ScopeStmts
OneFamily ==
    phase = "parse" =>
        \E F \in {JumpStmts, SwitchStmts, ScopeStmts} : \A u \in DOMAIN prog : prog[u].s \in F

MCSpec == StmtExecInit /\ [][StmtExecNext /\ OneFamily']_execVars
=================================================================================
