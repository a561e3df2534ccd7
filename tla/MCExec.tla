--------------------------------- MODULE MCExec ---------------------------------
(***************************************************************************)
(* Small instances of M1Exec.  Each set of lines is chosen so that one     *)
(* kind of case arises in all its orders: every function body that can be  *)
(* made of the lines of one set, up to its bound, is compiled and run.     *)
(***************************************************************************)
EXTENDS M1Exec

MCTemps == {1, 2, 3}
MCAddImmediates == {5}

T(t) == OTemp(t)

\* Arithmetic and memory: the temp in acc is read as left or right operand, as
\* address or as value, and through its own address.
MemoryLines == {
    Block(0), Param(1, 0), Param(2, 1),
    AddrOf(3, 1),
    Alloca(3, 32768),
    Load(2, 4, T(3)),
    Store(1, T(3), T(2)), Store(4, T(2), T(1)),
    Bin(2, "SUB", T(1), T(2)),
    Bin(1, "ADD", OImm(5), T(2)),
    Bin(3, "MUL", T(1), T(2)),
    Ret(T(2))}

\* Calls: none, one, six, seven and nine arguments, the result used next or
\* later, indirect through a temp, temps as first, last and stack arguments.
CallLines == {
    Block(0), Param(1, 0),
    Alloca(3, 9),
    Copy(2, T(1)),
    Call(2, "f", <<T(2)>>),
    Call(NoTemp, "g", <<OImm(1), T(3), OImm(3), OImm(4), OImm(5), OImm(6), T(1)>>),
    Call(2, "h", <<T(2), OImm(2), OImm(3), OImm(4), OImm(5), OImm(6), T(1), OImm(8), T(2)>>),
    CallI(2, T(2), <<T(1), T(2)>>),
    CallI(2, T(1), <<T(2), OImm(2), OImm(3), OImm(4), OImm(5), OImm(6), OImm(7), T(2), T(1)>>),
    Ret(T(2))}

\* An indirect call in a frame of more than 4096 words.
FarLines == {
    Block(0), Param(1, 0),
    Alloca(3, 32768),
    Copy(2, T(1)),
    CallI(NoTemp, T(1), <<T(2)>>),
    Ret(OImm(0))}

\* Conditional expressions, nested in each of their lists; an operand is the
\* temp in acc, the inner result or an immediate.
CondLines == {
    Block(0),
    Cond(2), Cond(3),
    CondOp(OImm(0)), CondOp(T(3)),
    Const(3, 7),
    Ret(T(2))}

\* The same with nothing but operands in the lists: a nested expression in
\* every list takes ten lines.
NestedLines == CondLines \ {Const(3, 7)}

\* Branches: fall through to either target or to neither, loops, a value that
\* lives across blocks, comparisons of the temp in acc with another.
BranchLines == {
    Block(0), Block(1), Block(2),
    Param(1, 0), Param(2, 1),
    Bin(2, "SUB", T(2), T(1)),
    Jump(1),
    Branch(T(2), 1, 2),
    BranchCmp("LE", T(1), T(2), 2, 1), BranchCmp("LE", OImm(7), T(1), 2, 1),
    Ret(T(1))}

\* With one parameter, the second temp has a value only on some paths.
LoopLines == BranchLines \ {Param(2, 1)}

\* The lines of the run over all four; each function is made of one set.
AllLines == MemoryLines \cup CallLines \cup CondLines \cup BranchLines

\* The bound on the functions read: lines of one set, up to max of them.
InFamily(lines, max, archs) ==
    /\ target_arch \in archs
    /\ Len(body) <= max
    /\ \A i \in DOMAIN body : body[i] \in lines

OneFamily ==
    phase = "read" =>
        \/ InFamily(MemoryLines, 6, {"amd64"})
        \/ InFamily(MemoryLines, 5, Archs)
        \/ InFamily(CallLines, 6, Archs)
        \/ InFamily(CondLines, 8, {"amd64"})
        \/ InFamily(NestedLines, 10, {"amd64"})
        \/ InFamily(LoopLines, 7, {"amd64"})
        \/ InFamily(BranchLines, 6, {"amd64", "aarch64", "riscv64"})

MCSpec == ExecInit /\ [][ExecNext /\ OneFamily']_execVars
=================================================================================
