--------------------------------- MODULE M1Exec ---------------------------------
(***************************************************************************)
(* Running what hcc-m1 wrote.  After M1Emit has emitted a function, the IR *)
(* lines are run by an interpreter that knows neither slots nor registers  *)
(* (temps hold values), and then the code is run on a machine with         *)
(* registers, a stack pointer and a stack.  Both record what the rest of   *)
(* the program can observe.                                                *)
(*                                                                         *)
(* Values are terms: an operation builds a term from its operands and      *)
(* nothing is computed, so two runs that agree here agree for all numbers. *)
(* A branch may go either way the first time its condition (a term) is     *)
(* met, and goes the same way whenever that term is met again, in both     *)
(* runs.  The interpreter is the meaning the IR has for hcc1; functions    *)
(* called from the code and the assembler (M1, hex2) are external.         *)
(***************************************************************************)
EXTENDS M1Emit, TLC

CONSTANT MaxTrace    \* bound: observable events of one run

ASSUME MaxTraceAssumption == MaxTrace \in Nat

VARIABLES
    decided,    \* the outcomes of the conditions met so far: [key, holds]
    x,          \* the interpreter: ip, env, conds, tr
    m           \* the machine: pc, r, sp, mem, cmp, lr, tr

execVars == <<emitVars, decided, x, m>>

(***************************************************************************)
(* Values.                                                                 *)
(***************************************************************************)
Uninit    == <<"uninit", 0>>      \* memory nobody has written
Clobbered == <<"clobbered", 0>>   \* a register after an operation that spoils it
RetAddr   == <<"retaddr", 0>>
ParamVal(i) == <<"param", i>>
FrameAddr(s) == <<"fp", s>>       \* the address of slot s of the frame
IsFrameAddr(v) == v[1] = "fp"

BinVal(op, u, v) ==
    <<"bin", op, IF binop_is_commutative(op) THEN {u, v} ELSE <<u, v>>>>

\* A memory access of w bytes to a word of the frame.
ReadWidth(w, cell) == IF w = SlotBytes THEN cell ELSE <<"low", w, cell>>
WriteWidth(w, cell, v) == IF w = SlotBytes \/ v = cell THEN v ELSE <<"merge", w, cell, v>>

\* A comparison as a condition that holds or not, and the way round.
CmpKey(op, u, v) ==
    CASE op \in {"EQ", "NE"}   -> <<"EQ", {u, v}>>
      [] op \in {"LT", "GE"}   -> <<"LT", <<u, v>>>>
      [] op \in {"GT", "LE"}   -> <<"LT", <<v, u>>>>
      [] op \in {"ULT", "UGE"} -> <<"ULT", <<u, v>>>>
      [] op \in {"UGT", "ULE"} -> <<"ULT", <<v, u>>>>
CmpHolds(op) == op \in {"EQ", "LT", "GT", "ULT", "UGT"}
TruthKey(v) == <<"nonzero", v>>

Known(key) == \E d \in decided : d.key = key
Outcome(key) == (CHOOSE d \in decided : d.key = key).holds

ExecInit ==
    /\ EmitInit
    /\ decided = {}
    /\ x = [ip |-> 1, env |-> [t \in Temps |-> Uninit], conds |-> <<>>, tr |-> <<>>]
    /\ m = [pc |-> 1, sp |-> 0, cmp |-> <<>>, lr |-> RetAddr, tr |-> <<>>,
            r |-> [i \in -2..8 |-> Clobbered], mem |-> <<>>]

(***************************************************************************)
(* What hcc1 guarantees of the functions it writes (lowerFunction): the    *)
(* parameters come first and in order, blocks and CONDs have ids of their  *)
(* own, and no block jumps to the function's first block (the only one     *)
(* that may have id 0 and therefore no label).                             *)
(***************************************************************************)
PosOf(kinds) == {i \in DOMAIN body : body[i].k \in kinds}
Targets(l) ==
    CASE l.k = "J" -> {l.yes} [] l.k \in {"B", "C"} -> {l.yes, l.no} [] OTHER -> {}

Contract ==
    /\ body # <<>>
    /\ \A i \in PosOf({"PARAM"}) : body[i].n = i - 2 /\ body[i - 1].k \in {"L", "PARAM"}
    /\ \A i, j \in PosOf({"L"}) : i # j => body[i].id # body[j].id
    /\ \A i, j \in PosOf({"COND"}) : i # j => body[i].t # body[j].t
    /\ \A i \in PosOf(TermKinds) :
          Targets(body[i]) \subseteq {body[j].id : j \in PosOf({"L"}) \ {1}}

(***************************************************************************)
(* The interpreter.                                                        *)
(***************************************************************************)
ValOf(a) ==
    IF a.kind # "temp" THEN <<a.kind, a.v>>
    ELSE IF InStack(a) THEN x.env[a.v]
    ELSE FrameAddr(locs[a.v].slot)

OwnerOf(s) == CHOOSE t \in Temps : Allocated(t) /\ locs[t].slot = s

\* A temp is read before anything was assigned to it.
ReadsUninit(l) ==
    \E i \in DOMAIN CountedOperands(l) :
        LET a == CountedOperands(l)[i]
        IN  l.k # "ADDROF" /\ InStack(a) /\ x.env[a.v] = Uninit

\* The line that closes the list which starts at line p.
ListEnd(p) ==
    LET in(q, k) == Cardinality({i \in p..(q - 1) : body[i].k = k})
        closes(q) == body[q].k = "O" /\ in(q, "O") = 3 * in(q, "COND")
    IN  CHOOSE q \in p..Len(body) : closes(q) /\ \A i \in p..(q - 1) : ~closes(i)

BlockStart(id) == CHOOSE i \in DOMAIN body : body[i] = Block(id)

Goto(X, i)     == [X EXCEPT !.ip = i]
Assign(X, t, v) == IF t = NoTemp THEN X ELSE [X EXCEPT !.env[t] = v]
Observe(X, e)  == [X EXCEPT !.tr = Append(@, e)]
Fresh(X, tag)  == <<tag, Len(X.tr) + 1>>

\* A callee writes through the frame addresses it is given.
CalleeWrites(X, args) ==
    [X EXCEPT !.env = [t \in Temps |->
        IF Allocated(t) /\ \E i \in DOMAIN args : args[i] = FrameAddr(locs[t].slot)
        THEN Fresh(X, "written") ELSE @[t]]]

RunCall(X, l, callee) ==
    LET args == [i \in DOMAIN l.args |-> ValOf(l.args[i])]
    IN  Observe(Assign(CalleeWrites(X, args), l.t, Fresh(X, "result")), <<"call", callee, args>>)

RunInstr(l) ==
    CASE l.k = "ALLOCA" -> x
      [] l.k = "PARAM"  -> Assign(x, l.t, ParamVal(l.n))
      [] l.k = "CONST"  -> Assign(x, l.t, <<"imm", l.n>>)
      [] l.k = "COPY"   -> Assign(x, l.t, ValOf(l.a))
      [] l.k = "ADDROF" -> Assign(x, l.t, FrameAddr(locs[l.u].slot))
      [] l.k = "EXT"    -> Assign(x, l.t, <<"ext", l.w, ValOf(l.a)>>)
      [] l.k = "BIN"    -> Assign(x, l.t, BinVal(l.op, ValOf(l.a), ValOf(l.b)))
      [] l.k = "LOAD"   ->
            IF IsFrameAddr(ValOf(l.a))
            THEN Assign(x, l.t, ReadWidth(l.w, x.env[OwnerOf(ValOf(l.a)[2])]))
            ELSE Observe(Assign(x, l.t, Fresh(x, "loaded")), <<"load", l.w, ValOf(l.a)>>)
      [] l.k = "STORE"  ->
            IF IsFrameAddr(ValOf(l.a))
            THEN LET t == OwnerOf(ValOf(l.a)[2])
                 IN  Assign(x, t, WriteWidth(l.w, x.env[t], ValOf(l.b)))
            ELSE Observe(x, <<"store", l.w, ValOf(l.a), ValOf(l.b)>>)
      [] l.k = "CALL"   -> RunCall(x, l, <<"direct", l.f>>)
      [] l.k = "CALLI"  -> RunCall(x, l, ValOf(l.c))

Line == body[x.ip]
Running == phase = "ir" /\ ~ReadsUninit(Line) /\ Len(x.tr) < MaxTrace

\* Decide(key, b): the condition may have outcome b.
Decide(key, b) ==
    /\ Known(key) => Outcome(key) = b
    /\ decided' = decided \cup {[key |-> key, holds |-> b]}

RunBlock ==
    /\ Running /\ Line.k = "L"
    /\ x' = LET X == Goto(x, x.ip + 1)
            IN  IF Line.id = 0 THEN X ELSE Observe(X, <<"at", Line.id>>)
    /\ UNCHANGED <<phase, decided>>

RunLine ==
    /\ Running /\ Line.k \in InstrKinds
    /\ x' = Goto(RunInstr(Line), x.ip + 1)
    /\ UNCHANGED <<phase, decided>>

RunCond ==
    /\ Running /\ Line.k = "COND"
    /\ x' = [x EXCEPT !.ip = @ + 1, !.conds = <<[t |-> Line.t, arm |-> "cond"]>> \o @]
    /\ UNCHANGED <<phase, decided>>

RunCondOp ==
    /\ Running /\ Line.k = "O"
    /\ LET c == Head(x.conds)
           v == ValOf(Line.a)
           enter(arm) == [x EXCEPT !.conds = <<[c EXCEPT !.arm = arm]>> \o Tail(@)]
           leave == Assign([x EXCEPT !.conds = Tail(@)], c.t, v)
       IN  \/ /\ c.arm = "cond"
              /\ \E b \in BOOLEAN :
                   /\ Decide(TruthKey(v), b)
                   /\ x' = IF b THEN Goto(enter("true"), x.ip + 1)
                                ELSE Goto(enter("false"), ListEnd(x.ip + 1) + 1)
           \/ c.arm = "true" /\ x' = Goto(leave, ListEnd(x.ip + 1) + 1) /\ UNCHANGED decided
           \/ c.arm = "false" /\ x' = Goto(leave, x.ip + 1) /\ UNCHANGED decided
    /\ UNCHANGED phase

RunJump ==
    /\ Running /\ Line.k = "J"
    /\ x' = Goto(x, BlockStart(Line.yes))
    /\ UNCHANGED <<phase, decided>>

RunBranch ==
    /\ Running /\ Line.k \in {"B", "C"}
    /\ \E b \in BOOLEAN :
         /\ IF Line.k = "B" THEN Decide(TruthKey(ValOf(Line.a)), b)
            ELSE Decide(CmpKey(Line.op, ValOf(Line.a), ValOf(Line.b)), b = CmpHolds(Line.op))
         /\ x' = Goto(x, BlockStart(IF b THEN Line.yes ELSE Line.no))
    /\ UNCHANGED phase

\* The interpreter has returned or has reached the bound: the machine starts,
\* called with the parameters in registers and above the return address.
StackParamBase == IF ArgsInAcc THEN 0 ELSE 1
ArgReg(i) == IF ArgsInAcc THEN (CASE i = 1 -> 0 [] i = 2 -> -1 [] OTHER -> i) ELSE i

EntryRegs ==
    [i \in -2..8 |-> IF \E j \in 1..target_register_arg_count : ArgReg(j) = i
                     THEN ParamVal((CHOOSE j \in 1..8 : ArgReg(j) = i) - 1) ELSE Clobbered]
EntryMem ==
    [i \in 0..3 |-> IF i < StackParamBase THEN RetAddr
                    ELSE ParamVal(target_register_arg_count + i - StackParamBase)]

StartMachine ==
    /\ phase' = "mc"
    /\ m' = [m EXCEPT !.r = EntryRegs, !.mem = EntryMem]

RunRet ==
    /\ Running /\ Line.k = "R"
    /\ x' = Observe(x, <<"ret", IF Line.a = ONone THEN <<"imm", 0>> ELSE ValOf(Line.a)>>)
    /\ StartMachine
    /\ UNCHANGED decided

RunCut ==
    /\ phase = "ir" /\ Len(x.tr) = MaxTrace
    /\ StartMachine
    /\ UNCHANGED <<decided, x>>

\* A function outside the contract or a read of an unassigned temp: no claim.
RunUndefined ==
    /\ \/ phase = "done" /\ ~Contract
       \/ phase = "ir" /\ ReadsUninit(Line)
    /\ phase' = "undef"
    /\ UNCHANGED <<decided, x>>

RunStart ==
    /\ phase = "done" /\ Contract
    /\ phase' = "ir"
    /\ UNCHANGED <<decided, x>>

(***************************************************************************)
(* The machine.  Registers: 0 is acc, -1 scr, -2 the callee's (x16, t2),   *)
(* 1..8 the argument registers, the first two of which are acc and scr on  *)
(* aarch64 and riscv64.  The stack grows down from 0.                      *)
(***************************************************************************)
Acc == 0
Scr == -1
CalleeReg == -2

FrameBase == -(next_slot + IF ArgsInAcc THEN 1 ELSE 0)
At0(M, i) == IF i \in DOMAIN M.mem THEN M.mem[i] ELSE Uninit

SetReg(M, i, v) == [M EXCEPT !.r[i] = v]
SetMem(M, i, v) == [M EXCEPT !.mem = (i :> v) @@ @]
Jump0(M, l) == [M EXCEPT !.pc = CHOOSE i \in DOMAIN code : code[i] = OpL("label", l)]

\* An operation that may use the other registers for its own purposes
\* (mul, div, shifts, extensions).
Spoil(M) == [M EXCEPT !.r = [i \in DOMAIN @ |-> IF i \in {Acc, CalleeReg} THEN @[i] ELSE Clobbered]]

\* A call: the callee sees its arguments, writes through frame addresses, uses
\* the stack below sp and keeps no register but sp.
MachineCall(M, callee, argc) ==
    LET args == [i \in 1..argc |->
                   IF i <= RegArgs(argc) THEN M.r[ArgReg(i)]
                   ELSE At0(M, M.sp + i - RegArgs(argc) - 1)]
        written == {FrameBase + args[i][2] : i \in {j \in 1..argc : IsFrameAddr(args[j])}}
        above == {i \in DOMAIN M.mem : i >= M.sp} \cup written
    IN  [M EXCEPT !.mem = [i \in above |-> IF i \in written THEN Fresh(M, "written") ELSE @[i]],
                  !.r = [i \in DOMAIN @ |-> IF i = Acc THEN Fresh(M, "result") ELSE Clobbered],
                  !.tr = Append(@, <<"call", callee, args>>)]

Exec(op) ==
    LET M == [m EXCEPT !.pc = @ + 1]
        acc == m.r[Acc]
        scr == m.r[Scr]
        cell(i) == At0(m, FrameBase + i)
    IN
    CASE op.o = "label"    -> IF op.l[1] = "HCC_BLOCK" THEN Observe(M, <<"at", op.l[2]>>) ELSE M
      [] op.o = "imm"      -> SetReg(M, Acc, <<op.a.kind, op.a.v>>)
      [] op.o = "lds"      -> SetReg(M, Acc, At0(m, m.sp + op.n))
      [] op.o = "sts"      -> SetMem(M, m.sp + op.n, acc)
      [] op.o = "lea"      -> SetReg(M, Acc, FrameAddr(m.sp + op.n - FrameBase))
      [] op.o = "lea16"    -> SetReg(M, CalleeReg, FrameAddr(m.sp + op.n - FrameBase))
      [] op.o = "cp"       -> SetReg(M, Scr, acc)
      [] op.o = "xchg"     -> SetReg(SetReg(M, Scr, acc), Acc, scr)
      [] op.o = "bin"      -> SetReg(Spoil(M), Acc, BinVal(op.op, scr, acc))
      [] op.o = "addi"     -> SetReg(M, Acc, BinVal("ADD", acc, <<op.a.kind, op.a.v>>))
      [] op.o = "ext"      -> SetReg(Spoil(M), Acc, <<"ext", op.n, acc>>)
      [] op.o = "ld"       ->
            IF IsFrameAddr(acc) THEN SetReg(M, Acc, ReadWidth(op.n, cell(acc[2])))
            ELSE Observe(SetReg(M, Acc, Fresh(m, "loaded")), <<"load", op.n, acc>>)
      [] op.o = "st"       ->
            IF IsFrameAddr(scr)
            THEN SetMem(M, FrameBase + scr[2], WriteWidth(op.n, cell(scr[2]), acc))
            ELSE Observe(M, <<"store", op.n, scr, acc>>)
      [] op.o = "push"     -> SetMem([M EXCEPT !.sp = @ - 1], m.sp - 1, acc)
      [] op.o = "addsp"    -> [M EXCEPT !.sp = @ + op.n]
      [] op.o = "toarg"    -> SetReg(M, ArgReg(op.n), acc)
      [] op.o = "fromarg"  -> SetReg(M, Acc, m.r[ArgReg(op.n)])
      [] op.o = "tocallee" -> SetReg(M, CalleeReg, acc)
      [] op.o = "call"     ->
            MachineCall(M, CASE op.f = "acc" -> acc
                             [] op.f = "callee" -> m.r[CalleeReg]
                             [] OTHER -> <<"direct", op.f>>, op.n)
      [] op.o = "cmp"      -> [M EXCEPT !.cmp = <<scr, acc>>]
      [] op.o = "jmp"      -> Jump0(M, op.l)
      [] op.o = "jz"       -> IF Outcome(TruthKey(acc)) THEN M ELSE Jump0(M, op.l)
      [] op.o = "jnz"      -> IF Outcome(TruthKey(acc)) THEN Jump0(M, op.l) ELSE M
      [] op.o = "jcc"      ->
            IF Outcome(CmpKey(op.op, m.cmp[1], m.cmp[2])) = CmpHolds(op.op)
            THEN Jump0(M, op.l) ELSE M
      [] op.o = "pushlr"   -> SetMem([M EXCEPT !.sp = @ - 1], m.sp - 1, m.lr)
      [] op.o = "poplr"    -> [M EXCEPT !.lr = At0(m, m.sp), !.sp = @ + 1]
      [] op.o = "ret"      -> Observe(M, <<"ret", acc>>)

\* What the machine needs to go on: an operation to fetch, a label that exists
\* and a condition that the interpreter has met as well.
CanExec(op) ==
    /\ op.o \in {"jmp", "jz", "jnz", "jcc"} =>
          \E i \in DOMAIN code : code[i] = OpL("label", op.l)
    /\ op.o \in {"jz", "jnz"} => Known(TruthKey(m.r[Acc]))
    /\ op.o = "jcc" => m.cmp # <<>> /\ Known(CmpKey(op.op, m.cmp[1], m.cmp[2]))

MachineReturned == m.tr # <<>> /\ m.tr[Len(m.tr)][1] = "ret"
MachineAtEnd == MachineReturned \/ m.tr = x.tr
MachineStuck == m.pc \notin DOMAIN code \/ ~CanExec(code[m.pc])

MachineStep ==
    /\ phase = "mc" /\ ~MachineAtEnd /\ ~MachineStuck
    /\ m' = Exec(code[m.pc])
    /\ UNCHANGED <<phase, decided, x>>

MachineHalt ==
    /\ phase = "mc" /\ MachineAtEnd
    /\ phase' = "halt"
    /\ UNCHANGED <<decided, x, m>>

ExecStep ==
    /\ \/ (RunStart \/ RunUndefined \/ RunBlock \/ RunLine \/ RunCond \/ RunCondOp \/ RunJump
             \/ RunBranch) /\ UNCHANGED m
       \/ RunRet \/ RunCut \/ MachineStep \/ MachineHalt
    /\ UNCHANGED <<target_arch, body, nest, pos, conds, locs, next_slot, rax_temp, code>>

ExecNext ==
    \/ EmitNext /\ UNCHANGED <<decided, x, m>>
    \/ ExecStep

ExecSpec == ExecInit /\ [][ExecNext]_execVars

---------------------------------------------------------------------------------
(***************************************************************************)
(* Properties.                                                             *)
(***************************************************************************)

\* The emitted code does what the IR says: the same blocks are entered, the
\* same memory is read and written and the same calls are made with the same
\* arguments, in the same order, and the same value is returned, whatever
\* stores and loads emit_instrs and emit_load_operand have dropped.
CodeFollowsIr == phase \in {"mc", "halt"} => IsPrefix(m.tr, x.tr)

\* The code never runs off its end, jumps to a label that was not emitted
\* (block 0 has none) or tests a condition the IR does not test.
CodeNeverStuck == phase = "mc" => MachineAtEnd \/ ~MachineStuck

\* On every path the pushes of call arguments and the frame are undone before
\* the return, and the return address is still the caller's.
ReturnsToCaller ==
    phase = "halt" /\ MachineReturned =>
        /\ m.sp = 0
        /\ (IF ArgsInAcc THEN m.lr ELSE At0(m, m.sp)) = RetAddr

\* The labels of one function are distinct: HCC_BLOCK by block id,
\* HCC_COND_ELSE and HCC_COND_DONE by the COND's temp.
LabelsDistinct ==
    phase = "ir" => \A i, j \in DOMAIN code :
        i # j /\ code[i].o = "label" /\ code[j].o = "label" => code[i] # code[j]

\* The code a function becomes (emit_function) leads from its entry to its
\* caller: on every path each jump finds its one label, and the return is made with
\* the caller's stack and address.
ControlSound == CodeNeverStuck /\ ReturnsToCaller /\ LabelsDistinct
=================================================================================
