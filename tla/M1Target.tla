-------------------------------- MODULE M1Target --------------------------------
(***************************************************************************)
(* The code hcc-m1 writes for one operation (hcc/cbits/hcc_m1.c), run on   *)
(* the processor it is written for.  M1Emit composes operations such as    *)
(* "add the scratch register to the accumulator" or "jump when less"; a    *)
(* task here is one of them, on one target, with chosen operands, and the  *)
(* properties say that the instructions do what M1Emit takes them to do.   *)
(***************************************************************************)
EXTENDS M1Code

VARIABLES task, machine
vars == <<task, machine>>

IsX86(arch) == arch \in {"amd64", "i386"}
Block == <<"HCC_BLOCK", 1>>        \* the label a jump names
Away == 90                         \* where that block is
Base == 100                        \* the stack pointer when a fragment starts

(***************************************************************************)
(* The functions of hcc_m1.c that choose by target.                        *)
(***************************************************************************)
emit_load_immediate(arch, c, value) ==
    CASE arch = "aarch64" -> c \o aarch64_emit_load_immediate(0, Low(8, value))
      [] arch = "riscv64" -> riscv64_emit_load_immediate(c, 10, value)
      [] arch = "i386" -> Append(c, XN("imm32", Low(4, value)))
      [] arch = "amd64" -> Append(c, IF Signed(4, value) = value THEN XN("imm32", Low(4, value))
                                     ELSE XN("imm64", Bytes(8, value)))

Padded(bytes) == [i \in 1..8 |-> IF i <= Len(bytes) THEN bytes[i] ELSE 0]
HalfByte == Size(1) \div 2
LI64_80000000 == <<0, 0, 0, HalfByte, 0, 0, 0, 0>>
LI64_FFFFFFFF == [i \in 1..8 |-> IF i <= 4 THEN Size(1) - 1 ELSE 0]
emit_load_immediate_bytes(arch, c, op) ==
    LET bytes == Padded(op)
    IN CASE arch = "i386" -> Append(c, XN("imm32", Number(SubSeq(bytes, 1, 4))))
         [] arch = "aarch64" -> c \o aarch64_emit_load_immediate(0, Number(bytes))
         [] arch = "riscv64" -> riscv64_emit_load_immediate(c, 10, Signed(8, Number(bytes)))
         [] arch = "amd64" -> Append(c, XN("imm64", CASE bytes = LI64_80000000 -> LI64_80000000
                                                      [] bytes = LI64_FFFFFFFF -> LI64_FFFFFFFF
                                                      [] OTHER -> [i \in 1..8 |-> emit_byte(bytes[i])]))

\* The x86 and amd64 sequences differ in their mnemonics only.
MutNotExchanged(signed) == IF signed THEN <<X("cdq"), X("idiv")>> ELSE <<X("xordx"), X("div")>>
X86Divide(signed) ==
    <<X("xchg")>> \o IF signed THEN <<X("cdq"), X("idiv")>> ELSE <<X("xordx"), X("div")>>
x86_emit_binop(op) ==
    CASE op = "ADD" -> <<X("add")>>
      [] op = "SUB" -> <<X("subbx"), XN("from", 3)>>
      [] op = "MUL" -> <<X("mul")>>
      [] op = "DIV" -> X86Divide(TRUE)
      [] op = "MOD" -> X86Divide(TRUE) \o <<XN("from", 2)>>
      [] op = "UDIV" -> X86Divide(FALSE)
      [] op = "UMOD" -> X86Divide(FALSE) \o <<XN("from", 2)>>
      [] op = "SHL" -> <<XN("to", 1), XN("from", 3), X("sll")>>
      [] op = "SHR" -> <<XN("to", 1), XN("from", 3), X("srl")>>
      [] op = "SAR" -> <<XN("to", 1), XN("from", 3), X("sra")>>
      [] op = "AND" -> <<X("and")>> [] op = "OR" -> <<X("or")>> [] op = "XOR" -> <<X("xor")>>
      [] OTHER -> <<X("cmp"), XN("setcc", op), XN("zext", 1)>>
emit_binop(arch, c, op) ==
    c \o CASE IsX86(arch) -> x86_emit_binop(op)
           [] arch = "aarch64" -> aarch64_emit_binop(op)
           [] arch = "riscv64" -> riscv64_emit_binop(op)

mask_for_size(size) == CASE size <= 1 -> Size(1) - 1 [] size <= 2 -> Size(2) - 1
                         [] size <= 4 -> Size(4) - 1 [] OTHER -> -1
MutSignBitOfHalf(size) == Size(2) \div 2
sign_bit_for_size(size) == CASE size <= 1 -> Size(1) \div 2 [] size <= 2 -> Size(2) \div 2
                             [] OTHER -> Size(4) \div 2
emit_copy_acc_to_scratch(arch, c) ==
    c \o CASE arch = "aarch64" -> Line("SET_X1_FROM_X0")
           [] arch = "riscv64" -> RdRs1(11, 10, "mv", 0)
           [] OTHER -> <<XN("to", 3)>>
With(arch, c, value, op) ==         \* acc := acc op value, by way of the scratch register
    emit_binop(arch, emit_load_immediate(arch, emit_copy_acc_to_scratch(arch, c), value), op)
Masked(arch, c, size) == With(arch, c, mask_for_size(size), "AND")
SignExtended(arch, c, size) ==
    With(arch, With(arch, Masked(arch, c, size), sign_bit_for_size(size), "XOR"),
         sign_bit_for_size(size), "SUB")
amd64_ext(c, o, size) ==
    IF size > 4 THEN c ELSE Append(c, XN(o, IF size <= 1 THEN 1 ELSE IF size <= 2 THEN 2 ELSE 4))
emit_zext_loaded_acc(arch, c, size) ==
    CASE arch = "i386" -> IF size >= 4 THEN c ELSE Masked(arch, c, size)
      [] arch = "amd64" -> amd64_ext(c, "zext", size)
      [] OTHER -> IF arch = "aarch64" /\ size = 4 THEN c \o Line("UXTW_X0_W0")
                  ELSE IF size < 8 THEN Masked(arch, c, size) ELSE c
emit_sext_loaded_acc(arch, c, size) ==
    CASE arch = "i386" -> IF size >= 4 THEN c ELSE SignExtended(arch, c, size)
      [] arch = "amd64" -> amd64_ext(c, "sext", size)
      [] OTHER -> IF arch = "aarch64" /\ size = 4 THEN c \o Line("SXTW_X0_W0")
                  ELSE IF size < 8 THEN SignExtended(arch, c, size) ELSE c

\* The compare of emit_compare; RISC-V compares in the branch itself.
Compare(arch, c) == c \o CASE IsX86(arch) -> <<X("cmp")>>
                           [] arch = "aarch64" -> Line("CMP_X1_X0") [] OTHER -> <<>>
emit_compare_jump(arch, c, op) ==
    CASE arch = "aarch64" -> c \o aarch64_emit_compare_jump(op, Away)
      [] arch = "riscv64" -> riscv64_emit_compare_jump(c, op, Block)
      [] OTHER -> Append(c, XN("jcc", op))
emit_jump(arch, c) ==
    CASE arch = "aarch64" -> c \o aarch64_emit_jump(Away)
      [] arch = "riscv64" -> riscv64_emit_jump(c, Block)
      [] OTHER -> Append(c, X("jmp"))
emit_truth_jump(arch, c, jump_if_true) ==
    CASE arch = "aarch64" -> c \o aarch64_emit_truth_jump(jump_if_true, Away)
      [] arch = "riscv64" -> riscv64_emit_truth_jump(c, jump_if_true, Block)
      [] OTHER -> c \o <<X("test"), XN("jcc", IF jump_if_true THEN "NE" ELSE "EQ")>>

emit_load_location(arch, c, offset) ==
    CASE arch = "aarch64" -> c \o aarch64_emit_load_store(TRUE, 8, FALSE, 18, offset)
      [] arch = "riscv64" -> riscv64_emit_load_store_from(c, TRUE, 8, FALSE, 2, offset, 10)
      [] OTHER -> Append(c, XN("loadsp", offset))
emit_address_of(arch, c, offset) ==
    CASE arch = "aarch64" -> c \o aarch64_emit_add_imm_reg(0, 18, offset)
      [] arch = "riscv64" -> riscv64_emit_add_imm_reg(c, 10, 2, offset)
      [] OTHER -> Append(c, XN("leasp", offset))
emit_store_temp(arch, c, offset) ==
    CASE arch = "aarch64" -> c \o aarch64_emit_load_store(FALSE, 8, FALSE, 18, offset)
      [] arch = "riscv64" -> riscv64_emit_load_store_from(c, FALSE, 8, FALSE, 2, offset, 10)
      [] OTHER -> Append(c, XN("storesp", offset))
emit_memory_load(arch, c, size, is_signed) ==
    CASE arch = "aarch64" -> c \o aarch64_emit_load_store(TRUE, size, is_signed, 0, 0)
      [] arch = "riscv64" -> riscv64_emit_load_store_from(c, TRUE, size, is_signed, 10, 0, 10)
      [] arch = "amd64" /\ size = 1 /\ ~is_signed -> c \o <<X("loadal"), XN("zext", 1)>>
      [] OTHER -> Append(c, XN(IF is_signed THEN "loads" ELSE "load", size))
emit_memory_store(arch, c, size) ==
    CASE arch = "aarch64" -> c \o aarch64_emit_load_store(FALSE, size, FALSE, 1, 0)
      [] arch = "riscv64" -> riscv64_emit_load_store_from(c, FALSE, size, FALSE, 11, 0, 10)
      [] OTHER -> Append(c, XN("store", size))

\* The argument registers, by index, and the reads of emit_instr's IK_PARAM.
amd64_args == <<7, 6, 2, 1, 8, 9>>
emit_argument_move(arch, c, index) ==
    CASE arch = "aarch64" -> c \o IF index = 0 THEN <<>>
                                  ELSE IF index = 7 THEN aarch64_emit_mov_reg(7, 0)
                                  ELSE Line(<<"SET_X1_FROM_X0", "SET_X2_FROM_X0", "SET_X3_FROM_X0",
                                              "SET_X4_FROM_X0", "SET_X5_FROM_X0", "SET_X6_FROM_X0">>[index])
      [] arch = "riscv64" -> IF index = 0 THEN c ELSE riscv64_emit_mov_reg(c, index + 10, 10)
      [] arch = "amd64" -> Append(c, XN("to", amd64_args[index + 1]))
EmitParam(arch, c, index) ==
    CASE arch = "aarch64" -> IF index = 0 THEN c ELSE c \o aarch64_emit_mov_reg(0, index)
      [] arch = "riscv64" -> IF index = 0 THEN c ELSE riscv64_emit_mov_reg(c, 10, index + 10)
      [] arch = "amd64" -> Append(c, XN("from", amd64_args[index + 1]))
\* emit_arguments: the register arguments, each loaded into acc and moved, in
\* the order of the loop (downwards where acc is itself the first register).
RECURSIVE MoveArgs(_, _, _, _)
MoveArgs(arch, c, order, values) ==
    IF order = <<>> THEN c
    ELSE MoveArgs(arch, emit_argument_move(arch, emit_load_immediate(arch, c, values[Head(order) + 1]),
                                           Head(order)), Tail(order), values)
MutUpwards(arch, n) == [i \in 1..n |-> i - 1]
ArgOrder(arch, n) == IF arch = "amd64" THEN [i \in 1..n |-> i - 1] ELSE [i \in 1..n |-> n - i]

\* emit_function's prologue, and the return of emit_terminator.
Prologue(arch, slots) ==
    CASE arch = "aarch64" -> Line("PUSH_LR") \o aarch64_emit_sub_imm_reg(18, slots * 8)
      [] arch = "riscv64" -> LET c == RdRs1(2, 2, "addi", -8) \o Rs(2, 1, "sd", <<>>)
                             IN IF slots > 0 THEN riscv64_emit_add_imm_reg(c, 2, 2, -slots * 8) ELSE c
      [] OTHER -> IF slots > 0 THEN <<XN("addsp", -slots * Word(arch))>> ELSE <<>>
EmitReturn(arch, c, slots) ==
    CASE arch = "aarch64" -> c \o aarch64_emit_add_imm_reg(18, 18, slots * 8)
                               \o Line("POP_LR") \o Line("RETURN")
      [] arch = "riscv64" -> riscv64_emit_add_imm_reg(c, 2, 2, slots * 8)
                               \o RdRs1(1, 2, "ld", 0) \o RdRs1(2, 2, "addi", 8)
                               \o <<Insn(RvDefine["ret"], 0, <<>>)>>
      [] OTHER -> c \o (IF slots > 0 THEN <<XN("addsp", slots * Word(arch))>> ELSE <<>>) \o <<X("ret")>>

\* emit_data_item: a byte, or the four bytes of &label and the four zeros that
\* widen it; padding to a whole instruction where code must stay aligned.
Cells(arch, v) == CASE v.kind = 1 -> <<emit_byte(v.byte)>>
                    [] v.kind # 1 -> [i \in 1..Word(arch) |-> IF i <= 4 THEN <<v.label, i>> ELSE 0]
RECURSIVE AllCells(_, _)
AllCells(arch, values) ==
    IF values = <<>> THEN <<>> ELSE Cells(arch, Head(values)) \o AllCells(arch, Tail(values))
MutPadOnce(arch, n) == IF arch \in {"aarch64", "riscv64"} /\ n % 4 # 0 THEN <<0>> ELSE <<>>
Padding(arch, n) == IF arch \in {"aarch64", "riscv64"} THEN [i \in 1..((4 - (n % 4)) % 4) |-> 0] ELSE <<>>
emit_data_item(arch, values) ==
    LET cells == AllCells(arch, values) IN cells \o Padding(arch, Len(cells))

(***************************************************************************)
(* Tasks.                                                                  *)
(***************************************************************************)
CONSTANTS
    Operands(_),          \* the words tried as operands, per word size in bytes
    Offsets(_),           \* the stack offsets tried, per target
    Slots(_),             \* the frame sizes tried, per target
    Ops                   \* the binary operations tried

Shifts == {"SHL", "SHR", "SAR"}
Divisions == {"DIV", "MOD", "UDIV", "UMOD"}
\* C leaves the other operands undefined.
Defined(n, op, a, b) ==
    /\ op \in Shifts => b < Byte * n
    /\ op \in Divisions => b # 0
    /\ op \in {"DIV", "MOD"} => ~(Signed(n, a) = -(Size(n) \div 2) /\ Signed(n, b) = -1)
Long(n) == {Signed(n, v) : v \in Operands(n)}
ByteLists == {[i \in 1..n |-> IF i = k THEN v ELSE w] :
                 n \in {1, 3, 4, 5, 8}, k \in {1, 4, 8}, v \in {0, HalfByte}, w \in {0, Size(1) - 1}}
RegArgs(arch) == CASE arch = "amd64" -> 6 [] arch = "i386" -> 0 [] OTHER -> 8
DataValues == [kind : {1}, byte : {-1, 0, 200}, label : {""}] \cup [kind : {2}, byte : {0}, label : {"g"}]

\* The families of tasks on one target.
BinTasks(arch) == [t : {"bin", "cjump"}, arch : {arch}, op : Ops,
                   a : Operands(Word(arch)), b : Operands(Word(arch))]
ExtTasks(arch) == [t : {"ext", "load"}, arch : {arch}, signed : BOOLEAN, size : {1, 2, 4, 8},
                   a : Operands(Word(arch))]
StoreTasks(arch) == [t : {"store"}, arch : {arch}, size : {1, 2, 4, 8}, a : Operands(Word(arch))]
JumpTasks(arch) == [t : {"tjump", "jump"}, arch : {arch}, want : BOOLEAN, a : Operands(Word(arch))]
ImmTasks(arch) == [t : {"imm"}, arch : {arch}, v : Long(8)]
BytesTasks(arch) == [t : {"bytes"}, arch : {arch}, v : ByteLists]
StackTasks(arch) == [t : {"loadsp", "storesp", "leasp"}, arch : {arch}, offset : Offsets(arch)]
ArgTasks(arch) == [t : {"args"}, arch : {arch}, n : 1..RegArgs(arch), i : 0..7]
FrameTasks(arch) == [t : {"frame"}, arch : {arch}, slots : Slots(arch)]
DataTasks(arch) == [t : {"data"}, arch : {arch}, values : DataValues \X DataValues \X DataValues]

Possible(k) ==
    LET n == Word(k.arch) IN
    CASE k.t = "bin" -> Defined(n, k.op, k.a, k.b)
      [] k.t = "cjump" -> k.op \in Compares
      [] k.t \in {"ext", "load", "store"} -> k.size <= n       \* i386 dies on 64-bit accesses
      [] k.t = "args" -> k.i < k.n
      [] OTHER -> TRUE

ArgValues == <<5, 6, 7, 8, 9, 10, 3000, 3001>>
CodeOf(k) ==
    LET arch == k.arch IN
    CASE k.t = "bin" -> emit_binop(arch, <<>>, k.op)
      [] k.t = "cjump" -> emit_compare_jump(arch, Compare(arch, <<>>), k.op)
      [] k.t = "ext" -> IF k.signed THEN emit_sext_loaded_acc(arch, <<>>, k.size)
                        ELSE emit_zext_loaded_acc(arch, <<>>, k.size)
      [] k.t = "tjump" -> emit_truth_jump(arch, <<>>, k.want)
      [] k.t = "jump" -> emit_jump(arch, <<>>)
      [] k.t = "imm" -> emit_load_immediate(arch, <<>>, k.v)
      [] k.t = "bytes" -> emit_load_immediate_bytes(arch, <<>>, k.v)
      [] k.t = "loadsp" -> emit_load_location(arch, <<>>, k.offset)
      [] k.t = "storesp" -> emit_store_temp(arch, <<>>, k.offset)
      [] k.t = "leasp" -> emit_address_of(arch, <<>>, k.offset)
      [] k.t = "load" -> emit_memory_load(arch, <<>>, k.size, k.signed)
      [] k.t = "store" -> emit_memory_store(arch, <<>>, k.size)
      [] k.t = "args" -> EmitParam(arch, MoveArgs(arch, <<>>, ArgOrder(arch, k.n), ArgValues), k.i)
      [] k.t = "frame" -> EmitReturn(arch, Prologue(arch, k.slots), k.slots)
      [] k.t = "data" -> <<>>

\* Where the fragment reads or writes memory, and what is in the words around it.
Target(k) == IF k.t \in {"loadsp", "storesp"} THEN Base + k.offset ELSE Base
Around(k) == (Target(k) - 16)..(Target(k) + 15)
Content(k, x) ==
    IF k.t \in {"frame"} /\ x >= Base THEN Bytes(Word(k.arch), Away)[((x - Base) % Word(k.arch)) + 1]
    ELSE IF k.t = "load" /\ x \in Base..(Base + 7) THEN Bytes(8, k.a)[x - Base + 1]
    ELSE x % Size(1)
AccAtStart(k) ==
    CASE k.t \in {"bin", "cjump"} -> k.b [] k.t \in {"ext", "tjump", "store"} -> k.a
      [] k.t = "load" -> Base [] OTHER -> 77
ScrAtStart(k) == CASE k.t \in {"bin", "cjump"} -> k.a [] k.t = "store" -> Base [] OTHER -> 78
LinkReg(arch) == CASE arch = "aarch64" -> 30 [] arch = "riscv64" -> 1 [] OTHER -> 5
Start(k) ==
    [arch |-> k.arch, code |-> CodeOf(k), pc |-> 1, away |-> Away, cmp |-> <<0, 0>>,
     reg |-> [r \in 0..31 |-> CASE r = Acc(k.arch) -> AccAtStart(k) [] r = Scr(k.arch) -> ScrAtStart(k)
                                [] r = Sp(k.arch) -> Base [] r = LinkReg(k.arch) -> Away
                                [] OTHER -> 0],
     mem |-> [x \in Around(k) |-> Content(k, x)]]

Begin(tasks) == \E k \in tasks : Possible(k) /\ task = k /\ machine = Start(k)
Init == \E arch \in Archs :
            \/ Begin(BinTasks(arch))   \/ Begin(ExtTasks(arch))   \/ Begin(StoreTasks(arch))
            \/ Begin(JumpTasks(arch))  \/ Begin(ImmTasks(arch))   \/ Begin(BytesTasks(arch))
            \/ Begin(StackTasks(arch)) \/ Begin(ArgTasks(arch))   \/ Begin(FrameTasks(arch))
            \/ Begin(DataTasks(arch))

Running == machine.pc \in 1..Len(machine.code)
Run == Running /\ machine' = Step(machine) /\ UNCHANGED task
Next == Run
Spec == Init /\ [][Next]_vars /\ WF_vars(Next)

(***************************************************************************)
(* Properties.                                                             *)
(***************************************************************************)
N == Word(task.arch)
Done(kinds) == task.t \in kinds /\ ~Running
AccIs(v) == machine.reg[Acc(task.arch)] = Low(N, v)
FellThrough == machine.pc = Len(machine.code) + 1
Taken == machine.pc = Away
Keeps(regs) == \A r \in regs : machine.reg[r] = Start(task).reg[r]
MemKept == \A x \in Around(task) : machine.mem[x] = Content(task, x)

\* What the IR means by an operation: machine words of the target's width.
Arith == [ADD |-> "add", SUB |-> "sub", MUL |-> "mul", DIV |-> "div", MOD |-> "rem",
          UDIV |-> "divu", UMOD |-> "remu", SHL |-> "sll", SHR |-> "srl", SAR |-> "sra",
          AND |-> "and", OR |-> "or", XOR |-> "xor"]
Meaning(op, a, b) == IF op \in Compares THEN Bit(Holds(N, op, <<a, b>>)) ELSE Alu(N, Arith[op], a, b)

\* emit_binop (and the tables of the two architecture files): whatever the
\* operands, the sequence leaves in the accumulator what the operation means
\* on words of the target, with the stack pointer and memory untouched.
OperationMeaning ==
    Done({"bin"}) => FellThrough /\ AccIs(Meaning(task.op, task.a, task.b))
                                 /\ Keeps({Sp(task.arch)}) /\ MemKept

\* emit_zext_loaded_acc and emit_sext_loaded_acc: the low bytes, extended, also
\* where the target has no instruction for it and masks, flips and subtracts.
ExtensionMeaning ==
    Done({"ext"}) => FellThrough /\ Keeps({Sp(task.arch)})
                     /\ AccIs(IF task.signed THEN Signed(task.size, task.a) ELSE Low(task.size, task.a))

\* emit_compare with emit_compare_jump, and emit_truth_jump: the block is reached
\* exactly when the comparison holds, although AArch64 and RISC-V jump over an
\* inverted test, some of them with the operands exchanged.
BranchExact ==
    /\ Done({"cjump"}) => IF Holds(N, task.op, <<task.a, task.b>>) THEN Taken ELSE FellThrough
    /\ Done({"tjump"}) => IF (task.a # 0) = task.want THEN Taken ELSE FellThrough
    /\ Done({"jump"}) => Taken

\* emit_load_operand of an immediate, a byte list, a stack slot or the address of
\* one: the value arrives, and the scratch register, which holds the other operand
\* meanwhile, survives, however far the slot or however wide the literal.
LoadKeepsOperand ==
    Done({"imm", "bytes", "loadsp", "leasp"}) =>
        /\ FellThrough /\ MemKept /\ Keeps({Sp(task.arch), Scr(task.arch)})
        /\ AccIs(CASE task.t = "imm" -> task.v
                   [] task.t = "bytes" -> Number(Padded(task.v))
                   [] task.t = "leasp" -> Base + task.offset
                   [] task.t = "loadsp" -> Number([i \in 1..N |-> Content(task, Target(task) + i - 1)]))

\* emit_memory_load, emit_memory_store, emit_store_temp: a load extends the bytes
\* at the address, a store changes those bytes alone and keeps its operands.
MemoryExact ==
    /\ Done({"load"}) => FellThrough /\ MemKept
            /\ AccIs(IF task.signed THEN Signed(task.size, task.a) ELSE Low(task.size, task.a))
    /\ Done({"store", "storesp"}) =>
            LET w == IF task.t = "store" THEN task.size ELSE N IN
            /\ FellThrough /\ Keeps({Acc(task.arch), Scr(task.arch), Sp(task.arch)})
            /\ \A x \in Around(task) :
                  machine.mem[x] = IF x \in Span(Target(task), w)
                                   THEN Bytes(w, AccAtStart(task))[x - Target(task) + 1]
                                   ELSE Content(task, x)

\* emit_arguments and the IK_PARAM reads of the callee: no move overwrites an
\* argument that is already in place, the accumulator being one of the registers.
ArgumentsArrive == Done({"args"}) => FellThrough /\ AccIs(ArgValues[task.i + 1])

\* emit_function and emit_cleanup_stack: for every frame size, in chunks where an
\* immediate is too small, the stack pointer comes back and so does control.
FrameBalanced ==
    Done({"frame"}) =>
        /\ Taken
        /\ machine.reg[Sp(task.arch)] = Base + IF IsX86(task.arch) THEN N ELSE 0

\* emit_data_item: every value stands where the widths before it put it, and what
\* follows an item on AArch64 and RISC-V is aligned to an instruction.
DataImage ==
    task.t = "data" =>
        LET image == emit_data_item(task.arch, task.values)
            width(v) == IF v.kind = 1 THEN 1 ELSE N
            at(j) == IF j = 1 THEN 0 ELSE IF j = 2 THEN width(task.values[1])
                     ELSE width(task.values[1]) + width(task.values[2])
        IN /\ \A j \in 1..3 : LET v == task.values[j] IN
                image[at(j) + 1] = IF v.kind = 1 THEN v.byte % Size(1) ELSE <<v.label, 1>>
           /\ task.arch \in {"aarch64", "riscv64"} => Len(image) % 4 = 0
           /\ Len(image) - (at(3) + width(task.values[3])) < 4

\* Every fragment ends: the jumps over literals and over taken branches lead
\* forward, which on RISC-V depends on each local label being written once.
FragmentEnds == <>~Running

(***************************************************************************)
(* The properties of a fragment, by what can be wrong with it.             *)
(***************************************************************************)
\* emit_binop and the extensions of a loaded value: every operation computes
\* what it means on words of the target.
OperationsMean == OperationMeaning /\ ExtensionMeaning

\* emit_compare_jump, emit_truth_jump, emit_jump and the return of a function of
\* any frame size: control goes where the IR says and nowhere else.
ControlExact == BranchExact /\ FrameBalanced

\* emit_load_operand and emit_arguments: an operand arrives in its register and
\* overwrites none that has arrived before.
OperandsArrive == LoadKeepsOperand /\ ArgumentsArrive

\* Accesses to memory and data items (emit_memory_store, emit_data_item): each
\* byte is where it belongs, and no other is touched.
BytesExact == MemoryExact /\ DataImage
=============================================================================
