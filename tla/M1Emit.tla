--------------------------------- MODULE M1Emit ---------------------------------
(***************************************************************************)
(* hcc-m1 emitting the code of the function that M1Alloc has read, laid    *)
(* out and counted (hcc/cbits/hcc_m1.c: emit_function, emit_instrs,        *)
(* emit_instr, emit_terminator and what they call).                        *)
(*                                                                         *)
(* The output is a sequence of abstract machine operations, one per idea   *)
(* of the four instruction sets: acc is rax/eax/x0/a0, scr is rbx/ebx/x1/  *)
(* a1.  Stack offsets are in words: every offset the code computes is a    *)
(* multiple of the target's word.  emit_instrs drops the store of a temp   *)
(* that only the next instruction reads, and EmitState.rax_temp remembers  *)
(* which temp acc holds, so that its load can be dropped too.              *)
(***************************************************************************)
EXTENDS M1Alloc, SequencesExt

CONSTANT AddImmediates    \* the immediates HCC_ADD_IMMEDIATE_to_rax can hold (int)

ASSUME AddImmediatesAssumption == AddImmediates \subseteq Int

VARIABLES
    rax_temp,         \* EmitState.rax_temp: the temp acc holds, or NoTemp
    code              \* the operations written to the output file

emitVars == <<target_arch, phase, body, nest, pos, conds, locs, next_slot, rax_temp, code>>

EmitInit == AllocInit /\ rax_temp = NoTemp /\ code = <<>>

(***************************************************************************)
(* Machine operations.                                                     *)
(***************************************************************************)
Op(o)        == [o |-> o]
OpN(o, n)    == [o |-> o, n |-> n]        \* an offset, a width, a register
OpA(o, a)    == [o |-> o, a |-> a]        \* an IR operand as an immediate
OpL(o, l)    == [o |-> o, l |-> l]        \* a label
OpB(o, op)   == [o |-> o, op |-> op]
Jcc(op, l)   == [o |-> "jcc", op |-> op, l |-> l]
OpCall(f, n) == [o |-> "call", f |-> f, n |-> n]

BlockLabel(id) == <<"HCC_BLOCK", id>>
ElseLabel(t)   == <<"HCC_COND_ELSE", t>>
DoneLabel(t)   == <<"HCC_COND_DONE", t>>

\* target_register_arg_count (six on amd64, none on i386).
target_register_arg_count ==
    CASE target_arch = "i386" -> 0
      [] target_arch = "amd64" -> 6
      [] OTHER -> 8

\* aarch64 and riscv64: acc and scr are also the first two argument registers.
ArgsInAcc == target_arch \in {"aarch64", "riscv64"}

(***************************************************************************)
(* Emission of an operation is a function on the state E of the emitter:   *)
(* E.c the code, E.r rax_temp.                                             *)
(***************************************************************************)
Put(E, op)      == [E EXCEPT !.c = Append(@, op)]
Forget(E)       == [E EXCEPT !.r = NoTemp]
Remember(E, t)  == [E EXCEPT !.r = t]

\* aarch64_emit_load_store: the scaled offset of a load or store has 12 bits; a
\* word farther from sp is reached through x16.
NearWords == 4096
StackAccess(E, o, n) ==
    IF target_arch = "aarch64" /\ n >= NearWords
    THEN Put(Put(E, OpN("lea16", n)), OpN(o, n))
    ELSE Put(E, OpN(o, n))

InStack(a) == a.kind = "temp" /\ locs[a.v].kind = "STACK"

\* emit_load_immediate, emit_load_immediate_bytes, emit_load_location
Loaded(E, bias, a) ==
    IF a.kind # "temp" THEN Put(E, OpA("imm", a))
    ELSE IF InStack(a) THEN StackAccess(E, "lds", locs[a.v].slot + bias)
    ELSE Put(E, OpN("lea", locs[a.v].slot + bias))

emit_load_operand(E, bias, a) ==
    IF bias = 0 /\ InStack(a) /\ E.r = a.v THEN E
    ELSE LET L == Loaded(Forget(E), bias, a)
         IN  IF bias = 0 /\ InStack(a) THEN Remember(L, a.v) ELSE L

\* emit_store_temp for a temp in the stack; omit is omit_store_temp.
emit_store_temp(E, omit, t) ==
    IF omit = t THEN Remember(E, t)
    ELSE Remember(StackAccess(E, "sts", locs[t].slot), t)

\* emit_address_of
emit_address_of(E, t) == Put(Forget(E), OpN("lea", locs[t].slot))

\* The two operands of STORE, BIN and a comparison: the first in scr, the
\* second in acc.
LoadPair(E, a, b) ==
    emit_load_operand(Put(emit_load_operand(E, 0, a), Op("cp")), 0, b)

\* amd64, the second already in acc: move it aside and exchange.
LoadPairSwapped(E, a) ==
    Forget(Put(emit_load_operand(Put(E, Op("cp")), 0, a), Op("xchg")))

\* A label: what acc holds depends on where control comes from.
EmitLabel(E, l) == Forget(Put(E, OpL("label", l)))

InAcc(E, a) == a.kind = "temp" /\ a.v = E.r

\* emit_compare
emit_compare(E, a, b) ==
    Put(IF target_arch = "amd64" /\ InAcc(E, b)
        THEN LoadPairSwapped(E, a)
        ELSE LoadPair(E, a, b), Op("cmp"))

(***************************************************************************)
(* Calls.                                                                  *)
(***************************************************************************)
Descending(hi, lo) == [k \in 1..(hi - lo + 1) |-> hi - k + 1]
Ascending(lo, hi)  == [k \in 1..(hi - lo + 1) |-> lo + k - 1]

\* call_stack_bytes, in words
StackArgs(argc) ==
    IF argc > target_register_arg_count THEN argc - target_register_arg_count ELSE 0

RegArgs(argc) == argc - StackArgs(argc)

\* The arguments past the registers are pushed, last first; each push moves
\* sp, so the loads after it are biased.  emit_argument_move then moves the
\* others to their registers: the last first where acc is the first argument's
\* register.
ArgumentsBiased(E, args, bias(_)) ==
    LET argc == Len(args)
        push(S, i) == Put(emit_load_operand(S, bias(argc - i), args[i]), Op("push"))
        move(S, i) == Put(emit_load_operand(S, StackArgs(argc), args[i]), OpN("toarg", i))
        pushed == FoldLeft(push, E, Descending(argc, RegArgs(argc) + 1))
        order == IF ArgsInAcc THEN Descending(RegArgs(argc), 1)
                              ELSE Ascending(1, RegArgs(argc))
    IN  FoldLeft(move, pushed, order)

\* Mutant: the loads between the pushes are not biased.
MutArgumentsUnbiased(E, args) == LET none(pushed) == 0 IN ArgumentsBiased(E, args, none)

\* emit_arguments
emit_arguments(E, args) == LET words(pushed) == pushed IN ArgumentsBiased(E, args, words)

\* Mutant: arguments beyond the first stack argument stay on the stack.
MutCleanupOneWord(E, argc) ==
    IF StackArgs(argc) > 0 THEN Put(E, OpN("addsp", 1)) ELSE E

\* emit_call_cleanup
emit_call_cleanup(E, argc) ==
    IF StackArgs(argc) > 0 THEN Put(E, OpN("addsp", StackArgs(argc))) ELSE E

\* IK_CALLI: the callee is loaded before the arguments where acc is an
\* argument register, after them elsewhere.
CallIndirect(E, c, args) ==
    LET n == Len(args) IN
    IF ArgsInAcc
    THEN Put(emit_arguments(Put(emit_load_operand(E, 0, c), Op("tocallee")), args),
             OpCall("callee", n))
    ELSE Put(emit_load_operand(emit_arguments(E, args), StackArgs(n), c), OpCall("acc", n))

AfterCall(E, l, omit) ==
    LET C == emit_call_cleanup(Forget(E), Len(l.args))
    IN  IF l.t = NoTemp THEN C ELSE emit_store_temp(C, omit, l.t)

(***************************************************************************)
(* emit_instr, for the instructions other than COND.                       *)
(***************************************************************************)
\* IK_PARAM: a register, or the caller's stack above the frame and the
\* return address.
EmitParam(E, i) ==
    IF i < target_register_arg_count
    THEN IF ArgsInAcc /\ i = 0 THEN E ELSE Put(E, OpN("fromarg", i + 1))
    ELSE StackAccess(E, "lds", next_slot + 1 + (i - target_register_arg_count))

\* IK_BIN
EmitBin(E, l) ==
    LET swap == target_arch = "amd64" /\ l.op = "ADD" /\ l.a.kind = "imm" /\ l.b.kind # "imm"
        x == IF swap THEN l.b ELSE l.a
        y == IF swap THEN l.a ELSE l.b
    IN  IF target_arch = "amd64" /\ l.op = "ADD" /\ y.kind = "imm" /\ y.v \in AddImmediates
        THEN Forget(Put(emit_load_operand(E, 0, x), OpA("addi", y)))
        ELSE Put(CASE binop_is_commutative(l.op) /\ InAcc(E, y) -> LoadPair(E, l.b, l.a)
                   [] ~binop_is_commutative(l.op) /\ InAcc(E, y) /\ target_arch = "amd64" ->
                         LoadPairSwapped(E, x)
                   [] OTHER -> LoadPair(E, x, y),
                 OpB("bin", l.op))

emit_instr(E, l, omit) ==
    CASE l.k = "ALLOCA" -> E
      [] l.k = "PARAM"  -> emit_store_temp(EmitParam(E, l.n), omit, l.t)
      [] l.k = "CONST"  -> emit_store_temp(emit_load_operand(E, 0, OImm(l.n)), omit, l.t)
      [] l.k = "COPY"   -> emit_store_temp(emit_load_operand(E, 0, l.a), omit, l.t)
      [] l.k = "ADDROF" -> emit_store_temp(emit_address_of(E, l.u), omit, l.t)
      [] l.k = "LOAD"   ->
            emit_store_temp(Put(emit_load_operand(E, 0, l.a), OpN("ld", l.w)), omit, l.t)
      [] l.k = "EXT"    ->
            emit_store_temp(Forget(Put(emit_load_operand(E, 0, l.a), OpN("ext", l.w))), omit, l.t)
      [] l.k = "STORE"  -> Put(LoadPair(E, l.a, l.b), OpN("st", l.w))
      [] l.k = "BIN"    -> emit_store_temp(EmitBin(E, l), omit, l.t)
      [] l.k = "CALL"   ->
            AfterCall(Put(emit_arguments(E, l.args), OpCall(l.f, Len(l.args))), l, omit)
      [] l.k = "CALLI"  -> AfterCall(CallIndirect(E, l.c, l.args), l, omit)

(***************************************************************************)
(* emit_instrs: which store to omit.                                       *)
(***************************************************************************)
Reads(a, t) == a.kind = "temp" /\ a.v = t

\* instr_consumes_rax_temp: line l loads temp t before it changes acc.
instr_consumes_rax_temp(l, t) ==
    \/ l.k \in {"COPY", "LOAD", "EXT", "STORE", "BIN"} /\ Reads(l.a, t)
    \/ l.k = "BIN" /\ binop_is_commutative(l.op) /\ Reads(l.b, t)
    \/ /\ l.k \in CallKinds
       /\ target_arch = "amd64"
       /\ Len(l.args) \in 1..6
       /\ Reads(l.args[1], t)

\* block_first_term_temp; def is the definition of the block's last line.
block_first_term_temp(l, def) ==
    CASE l.k \in {"R", "B"} -> operand_temp(l.a)
      [] l.k = "C" /\ (Reads(l.a, def) \/ (target_arch = "amd64" /\ Reads(l.b, def))) -> def
      [] OTHER -> NoTemp

\* The line after body[pos], which defines def, takes def from acc: the next
\* instruction of its list, or the operand or terminator that ends the list.
TakenFromAcc(def) ==
    LET next == body[pos + 1] IN
    CASE next.k \in InstrKinds \cup {"COND"} -> instr_consumes_rax_temp(next, def)
      [] next.k = "O" -> operand_temp(next.a) = def
      [] OTHER -> block_first_term_temp(next, def) = def

\* Mutant: the number of uses is not looked at.
MutOmitAnyUse ==
    LET def == instr_def_temp(body[pos])
    IN  IF def # NoTemp /\ TakenFromAcc(def) THEN def ELSE NoTemp

\* omit_store_temp while body[pos] is emitted.
OmitStoreTemp ==
    LET def == instr_def_temp(body[pos])
    IN  IF def # NoTemp /\ locs[def].uses = 1 /\ TakenFromAcc(def) THEN def ELSE NoTemp

(***************************************************************************)
(* Terminators.                                                            *)
(***************************************************************************)
\* The id of the block after this one, or -1 (emit_terminator).
NextId == IF pos < Len(body) THEN body[pos + 1].id ELSE -1

\* The jump taken when the condition of a branch holds, and when it does not.
JumpIf(l, label) == IF l.k = "B" THEN OpL("jnz", label) ELSE Jcc(l.op, label)
JumpUnless(l, label) == IF l.k = "B" THEN OpL("jz", label) ELSE Jcc(invert_binop(l.op), label)

\* emit_truth_branch and emit_compare_branch: fall through where possible.
EmitBranch(E, l) ==
    IF NextId = l.yes THEN Put(E, JumpUnless(l, BlockLabel(l.no)))
    ELSE IF NextId = l.no THEN Put(E, JumpIf(l, BlockLabel(l.yes)))
    ELSE Put(Put(E, JumpIf(l, BlockLabel(l.yes))), OpL("jmp", BlockLabel(l.no)))

\* emit_cleanup_stack and the return of the target
EmitReturn(E) ==
    LET F == IF next_slot > 0 THEN Put(E, OpN("addsp", next_slot)) ELSE E
    IN  Put(IF ArgsInAcc THEN Put(F, Op("poplr")) ELSE F, Op("ret"))

emit_terminator(E, l) ==
    Forget(CASE l.k = "R" ->
                  EmitReturn(emit_load_operand(E, 0, IF l.a = ONone THEN OImm(0) ELSE l.a))
             [] l.k = "J" -> IF NextId = l.yes THEN E ELSE Put(E, OpL("jmp", BlockLabel(l.yes)))
             [] l.k = "B" -> EmitBranch(emit_load_operand(E, 0, l.a), l)
             [] l.k = "C" -> EmitBranch(emit_compare(E, l.a, l.b), l))

(***************************************************************************)
(* The walk over the body.                                                 *)
(***************************************************************************)
E0 == [c |-> code, r |-> rax_temp]

Emitted(E) ==
    /\ code' = E.c
    /\ rax_temp' = E.r
    /\ conds' = CondsAfter(body[pos])
    /\ pos' = pos + 1
    /\ UNCHANGED <<target_arch, phase, body, nest, locs, next_slot>>

\* The lines emit_instr refuses: "cannot assign stack object", a 64-bit access
\* on i386, a comparison that no branch can test.
AssignedTemp(l) ==
    IF l.k = "O" THEN (IF Head(conds).arm = "cond" THEN NoTemp ELSE Head(conds).t)
    ELSE instr_def_temp(l)
Refused(l) ==
    \/ AssignedTemp(l) # NoTemp /\ locs[AssignedTemp(l)].kind = "OBJECT"
    \/ target_arch = "i386" /\ l.k \in {"LOAD", "STORE"} /\ l.w = 8
    \/ l.k = "C" /\ l.op \notin CompareOps

EmitDie ==
    /\ phase = "emit"
    /\ pos <= Len(body)
    /\ Refused(body[pos])
    /\ Dead
    /\ UNCHANGED <<rax_temp, code>>

At(kinds) ==
    /\ phase = "emit"
    /\ pos <= Len(body)
    /\ body[pos].k \in kinds
    /\ ~Refused(body[pos])

\* emit_function's prologue, before the first block.
EmitPrologue ==
    LET P == IF ArgsInAcc THEN Put(E0, Op("pushlr")) ELSE E0
    IN  IF next_slot > 0 THEN Put(P, OpN("addsp", -next_slot)) ELSE P

\* A block has a label unless its id is 0.
MutHasLabel(id) == id > 1
HasLabel(id) == id # 0

EmitBlock ==
    /\ At({"L"})
    /\ LET B == IF pos = 1 THEN EmitPrologue ELSE E0
           id == body[pos].id
       IN  Emitted(IF HasLabel(id) THEN EmitLabel(B, BlockLabel(id)) ELSE B)

EmitInstr ==
    /\ At(InstrKinds)
    /\ Emitted(emit_instr(E0, body[pos], OmitStoreTemp))

\* IK_COND: its three lists follow.
EmitCond == At({"COND"}) /\ Emitted(E0)

\* The operand that ends each list of the innermost open COND.
EmitCondOp ==
    /\ At({"O"})
    /\ LET t == Head(conds).t
           L == emit_load_operand(E0, 0, body[pos].a)
           S == emit_store_temp(L, NoTemp, t)
       IN  Emitted(
             CASE Head(conds).arm = "cond"  -> Forget(Put(L, OpL("jz", ElseLabel(t))))
               [] Head(conds).arm = "true"  ->
                    EmitLabel(Put(S, OpL("jmp", DoneLabel(t))), ElseLabel(t))
               [] Head(conds).arm = "false" -> EmitLabel(S, DoneLabel(t)))

EmitTerm ==
    /\ At(TermKinds)
    /\ Emitted(emit_terminator(E0, body[pos]))

EmitDone ==
    /\ phase = "emit"
    /\ pos > Len(body)
    /\ phase' = "done"
    /\ UNCHANGED <<target_arch, body, nest, pos, conds, locs, next_slot, rax_temp, code>>

EmitStep == EmitBlock \/ EmitInstr \/ EmitCond \/ EmitCondOp \/ EmitTerm \/ EmitDie \/ EmitDone

EmitNext ==
    \/ AllocNext /\ UNCHANGED <<rax_temp, code>>
    \/ EmitStep

EmitSpec == EmitInit /\ [][EmitNext]_emitVars
=================================================================================
