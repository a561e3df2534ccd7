-------------------------------- MODULE MCAlloc --------------------------------
(***************************************************************************)
(* Small instance of M1Alloc: every function body of up to MaxBody lines   *)
(* over a set of lines in which temps are redefined, made into objects,    *)
(* read in all positions and never defined, and CONDs nest.                *)
(***************************************************************************)
EXTENDS M1Alloc

MCTemps == {1, 2, 3}

MCLines == {
    Block(0),
    Alloca(1, 9), Alloca(2, 0),
    Const(1, 7),
    Bin(2, "SUB", OTemp(1), OTemp(1)),
    AddrOf(3, 2),
    CallI(NoTemp, OTemp(3), <<OTemp(1), OImm(0)>>),
    Cond(3),
    CondOp(OTemp(2)),
    CondOp(OImm(0)),
    Ret(OTemp(4)),
    Ret(ONone),
    BranchCmp("LT", OImm(0), OTemp(3), 1, 2)}
===============================================================================
