--------------------------------- MODULE M1Code --------------------------------
(***************************************************************************)
(* The machine code hcc-m1 writes for each operation of the code generator *)
(* (hcc/cbits/hcc_m1.c: emit_binop, emit_load_immediate, emit_zext/sext,   *)
(* the jumps, the data items; hcc_m1_arch_aarch64.c; hcc_m1_arch_riscv64.c *)
(* with the DEFINE tables of their headers).  Each operator appends to the *)
(* code c written so far, as the functions append to the output file.      *)
(***************************************************************************)
EXTENDS M1Cpu, TLC

(***************************************************************************)
(* AArch64: words given by their bytes, DEFINEs by name.                   *)
(***************************************************************************)
emit_byte(byte) == byte % Size(1)
emit_data64_le(v) == LET b == [i \in 1..8 |-> emit_byte((v \div Size(i - 1)) % Size(1))]
                     IN <<Lit(b), Lit(b)>>                      \* two units of four bytes

Arm(b) == <<Insn(b, 0, <<>>)>>
ArmDefine ==
    [BLR_X16 |-> <<\h00, \h02, \h3f, \hd6>>, RETURN |-> <<\hc0, \h03, \h5f, \hd6>>,
     SET_X16_FROM_X0 |-> <<\hf0, \h03, \h00, \haa>>,
     BR_X16 |-> <<\h00, \h02, \h1f, \hd6>>, SKIP_64_DATA |-> <<\h03, \h00, \h00, \h14>>,
     HCC_CBZ_X0_PAST_BR |-> <<\h40, \h00, \h00, \hb4>>, HCC_CBNZ_X0_PAST_BR |-> <<\h40, \h00, \h00, \hb5>>,
     SKIP_INST_EQ |-> <<\h40, \h00, \h00, \h54>>, SKIP_INST_NE |-> <<\h41, \h00, \h00, \h54>>,
     SKIP_INST_LT |-> <<\h4b, \h00, \h00, \h54>>, SKIP_INST_LE |-> <<\h4d, \h00, \h00, \h54>>,
     SKIP_INST_GT |-> <<\h4c, \h00, \h00, \h54>>, SKIP_INST_GE |-> <<\h4a, \h00, \h00, \h54>>,
     SKIP_INST_LO |-> <<\h43, \h00, \h00, \h54>>, SKIP_INST_LS |-> <<\h49, \h00, \h00, \h54>>,
     SKIP_INST_HS |-> <<\h42, \h00, \h00, \h54>>, SKIP_INST_HI |-> <<\h48, \h00, \h00, \h54>>,
     PUSH_X0 |-> <<\h40, \h8e, \h1f, \hf8>>, PUSH_LR |-> <<\h5e, \h8e, \h1f, \hf8>>,
     POP_LR |-> <<\h5e, \h86, \h40, \hf8>>,
     SET_X0_TO_0 |-> <<\h00, \h00, \h80, \hd2>>, SET_X0_TO_1 |-> <<\h20, \h00, \h80, \hd2>>,
     SET_X1_FROM_X0 |-> <<\he1, \h03, \h00, \haa>>, SET_X2_FROM_X0 |-> <<\he2, \h03, \h00, \haa>>,
     SET_X3_FROM_X0 |-> <<\he3, \h03, \h00, \haa>>, SET_X4_FROM_X0 |-> <<\he4, \h03, \h00, \haa>>,
     SET_X5_FROM_X0 |-> <<\he5, \h03, \h00, \haa>>, SET_X6_FROM_X0 |-> <<\he6, \h03, \h00, \haa>>,
     ADD_X0_X1_X0 |-> <<\h20, \h00, \h00, \h8b>>, SUB_X0_X1_X0 |-> <<\h20, \h00, \h00, \hcb>>,
     MUL_X0_X1_X0 |-> <<\h20, \h7c, \h00, \h9b>>, SDIV_X0_X1_X0 |-> <<\h20, \h0c, \hc0, \h9a>>,
     SDIV_X2_X1_X0 |-> <<\h22, \h0c, \hc0, \h9a>>, UDIV_X0_X1_X0 |-> <<\h20, \h08, \hc0, \h9a>>,
     UDIV_X2_X1_X0 |-> <<\h22, \h08, \hc0, \h9a>>, MSUB_X0_X0_X2_X1 |-> <<\h00, \h84, \h02, \h9b>>,
     LSHIFT_X0_X1_X0 |-> <<\h20, \h20, \hc0, \h9a>>, LOGICAL_RSHIFT_X0_X1_X0 |-> <<\h20, \h24, \hc0, \h9a>>,
     ARITH_RSHIFT_X0_X1_X0 |-> <<\h20, \h28, \hc0, \h9a>>, AND_X0_X1_X0 |-> <<\h20, \h00, \h00, \h8a>>,
     OR_X0_X1_X0 |-> <<\h20, \h00, \h00, \haa>>, XOR_X0_X1_X0 |-> <<\h00, \h00, \h01, \hca>>,
     UXTW_X0_W0 |-> <<\he0, \h03, \h00, \h2a>>, SXTW_X0_W0 |-> <<\h00, \h7c, \h40, \h93>>,
     CMP_X1_X0 |-> <<\h3f, \h00, \h00, \heb>>]
Line(name) == Arm(ArmDefine[name])                 \* a line that names one DEFINE

aarch64_emit_mov_reg(dst, src) == Arm(<<224 + dst, 3, src, 170>>)
aarch64_emit_add_sub_imm(is_sub, dst, src, imm) ==
    Arm(<<(src % 8) * 32 + dst, src \div 8 + (imm % 64) * 4, (imm \div 64) % 64,
          IF is_sub THEN 209 ELSE 145>>)
RECURSIVE AddChunks(_, _, _, _)
AddChunks(is_sub, dst, src, remaining) ==
    IF remaining <= 0 THEN <<>>
    ELSE LET chunk == IF remaining > 4095 THEN 4095 ELSE remaining
         IN  aarch64_emit_add_sub_imm(is_sub, dst, src, chunk)
                \o AddChunks(is_sub, dst, dst, remaining - chunk)
aarch64_emit_add_imm_reg(dst, src, imm) ==
    IF imm # 0 THEN AddChunks(FALSE, dst, src, imm)
    ELSE IF dst # src THEN aarch64_emit_mov_reg(dst, src) ELSE <<>>
MutSubOneChunk(reg, imm) == aarch64_emit_add_sub_imm(TRUE, reg, reg, imm)
aarch64_emit_sub_imm_reg(reg, imm) == AddChunks(TRUE, reg, reg, imm)

aarch64_emit_load_literal_prefix(reg) == Arm(<<64 + reg, 0, 0, 88>>) \o Line("SKIP_64_DATA")
aarch64_emit_load_immediate(reg, v) == aarch64_emit_load_literal_prefix(reg) \o emit_data64_le(v)

Scale(size) == CASE size = 8 -> 3 [] size = 4 -> 2 [] size = 2 -> 1 [] OTHER -> 0
ScaledFits(size, offset) == /\ offset >= 0
                            /\ offset % 2 ^ Scale(size) = 0
                            /\ offset \div 2 ^ Scale(size) < 4096
AccessWord(is_load, size, is_signed, base, offset) ==
    LET imm == offset \div 2 ^ Scale(size)
        op2 == IF ~is_load THEN 0 ELSE IF is_signed /\ size # 8 THEN 128 ELSE 64
        op3 == CASE size = 8 -> 249 [] size = 4 -> 185 [] size = 2 -> 121 [] OTHER -> 57
    IN Arm(<<(base % 8) * 32, base \div 8 + (imm % 64) * 4, op2 + ((imm \div 64) % 64), op3>>)
aarch64_emit_load_store(is_load, size, is_signed, base, offset) ==
    IF ScaledFits(size, offset) THEN AccessWord(is_load, size, is_signed, base, offset)
    ELSE aarch64_emit_add_imm_reg(16, base, offset) \o AccessWord(is_load, size, is_signed, 16, 0)

SkipName(op) == CASE op = "ULT" -> "SKIP_INST_LO" [] op = "ULE" -> "SKIP_INST_LS"
                  [] op = "UGT" -> "SKIP_INST_HI" [] op = "UGE" -> "SKIP_INST_HS"
                  [] op = "EQ" -> "SKIP_INST_EQ" [] op = "NE" -> "SKIP_INST_NE"
                  [] op = "LT" -> "SKIP_INST_LT" [] op = "LE" -> "SKIP_INST_LE"
                  [] op = "GT" -> "SKIP_INST_GT" [] op = "GE" -> "SKIP_INST_GE"
Compares == {"EQ", "NE", "LT", "LE", "GT", "GE", "ULT", "ULE", "UGT", "UGE"}
aarch64_emit_binop(op) ==
    IF op \in Compares
    THEN Line("CMP_X1_X0") \o Line("SET_X0_TO_1") \o Line(SkipName(op)) \o Line("SET_X0_TO_0")
    ELSE CASE op = "MOD" -> Line("SDIV_X2_X1_X0") \o Line("MSUB_X0_X0_X2_X1")
           [] op = "UMOD" -> Line("UDIV_X2_X1_X0") \o Line("MSUB_X0_X0_X2_X1")
           [] op = "DIV" -> Line("SDIV_X0_X1_X0")
           [] op = "SHL" -> Line("LSHIFT_X0_X1_X0")
           [] op = "SHR" -> Line("LOGICAL_RSHIFT_X0_X1_X0")
           [] op = "SAR" -> Line("ARITH_RSHIFT_X0_X1_X0")
           [] op = "ADD" -> Line("ADD_X0_X1_X0") [] op = "SUB" -> Line("SUB_X0_X1_X0")
           [] op = "MUL" -> Line("MUL_X0_X1_X0") [] op = "UDIV" -> Line("UDIV_X0_X1_X0")
           [] op = "AND" -> Line("AND_X0_X1_X0") [] op = "OR" -> Line("OR_X0_X1_X0")
           [] op = "XOR" -> Line("XOR_X0_X1_X0")
Invert == [EQ |-> "NE", NE |-> "EQ", LT |-> "GE", LE |-> "GT", GT |-> "LE", GE |-> "LT",
           ULT |-> "UGE", ULE |-> "UGT", UGT |-> "ULE", UGE |-> "ULT"]
\* The literal of a jump is the address of the block; away stands for it.
aarch64_emit_jump(away) == aarch64_emit_load_immediate(16, away) \o Line("BR_X16")
aarch64_emit_compare_jump(op, away) ==
    aarch64_emit_load_immediate(16, away) \o Line(SkipName(Invert[op])) \o Line("BR_X16")
aarch64_emit_truth_jump(jump_if_true, away) ==
    aarch64_emit_load_immediate(16, away)
      \o Line(IF jump_if_true THEN "HCC_CBZ_X0_PAST_BR" ELSE "HCC_CBNZ_X0_PAST_BR") \o Line("BR_X16")

(***************************************************************************)
(* RISC-V: a word is the union of the DEFINEs on its line.  The header     *)
(* riscv64_emit_header writes has no divu and remu; they come with the     *)
(* start code it is linked with (hcc/support/riscv64-start.M1).            *)
(***************************************************************************)
RvDefine ==
    [addi |-> <<\h13, \h00, \h00, \h00>>, auipc |-> <<\h17, \h00, \h00, \h00>>, jal |-> <<\h6f, \h00, \h00, \h00>>,
     jalr |-> <<\h67, \h00, \h00, \h00>>, beq |-> <<\h63, \h00, \h00, \h00>>, bne |-> <<\h63, \h10, \h00, \h00>>,
     blt |-> <<\h63, \h40, \h00, \h00>>, bge |-> <<\h63, \h50, \h00, \h00>>, bltu |-> <<\h63, \h60, \h00, \h00>>,
     bgeu |-> <<\h63, \h70, \h00, \h00>>, lb |-> <<\h03, \h00, \h00, \h00>>, lh |-> <<\h03, \h10, \h00, \h00>>,
     lw |-> <<\h03, \h20, \h00, \h00>>, lbu |-> <<\h03, \h40, \h00, \h00>>, lhu |-> <<\h03, \h50, \h00, \h00>>,
     lwu |-> <<\h03, \h60, \h00, \h00>>, ld |-> <<\h03, \h30, \h00, \h00>>, sb |-> <<\h23, \h00, \h00, \h00>>,
     sh |-> <<\h23, \h10, \h00, \h00>>, sw |-> <<\h23, \h20, \h00, \h00>>, sd |-> <<\h23, \h30, \h00, \h00>>,
     sltiu |-> <<\h13, \h30, \h00, \h00>>, xori |-> <<\h13, \h40, \h00, \h00>>, add |-> <<\h33, \h00, \h00, \h00>>,
     sub |-> <<\h33, \h00, \h00, \h40>>, sll |-> <<\h33, \h10, \h00, \h00>>, slt |-> <<\h33, \h20, \h00, \h00>>,
     sltu |-> <<\h33, \h30, \h00, \h00>>, xor |-> <<\h33, \h40, \h00, \h00>>, srl |-> <<\h33, \h50, \h00, \h00>>,
     sra |-> <<\h33, \h50, \h00, \h40>>, or |-> <<\h33, \h60, \h00, \h00>>, and |-> <<\h33, \h70, \h00, \h00>>,
     mul |-> <<\h33, \h00, \h00, \h02>>, div |-> <<\h33, \h40, \h00, \h02>>, rem |-> <<\h33, \h60, \h00, \h02>>,
     mv |-> <<\h13, \h00, \h00, \h00>>, beqz |-> <<\h63, \h00, \h00, \h00>>, bnez |-> <<\h63, \h10, \h00, \h00>>,
     ret |-> <<\h67, \h80, \h00, \h00>>,
     divu |-> <<\h33, \h50, \h00, \h02>>, remu |-> <<\h33, \h70, \h00, \h02>>]
RvRegs == {0, 1, 2, 5, 6, 7} \cup 10..17
riscv64_rd  == [r \in RvRegs |-> <<(r % 2) * 128, r \div 2, 0, 0>>]
riscv64_rs1 == [r \in RvRegs |-> <<0, (r % 2) * 128, r \div 2, 0>>]
riscv64_rs2 == [r \in RvRegs |-> <<0, 0, (r % 16) * 16, r \div 16>>]
Merge(a, b) == [i \in 1..4 |-> a[i] | b[i]]
RdRs1(rd, rs1, op, imm) ==
    <<Insn(Merge(Merge(riscv64_rd[rd], riscv64_rs1[rs1]), RvDefine[op]), imm, <<>>)>>
RdRs(rd, rs1, rs2, op) ==
    <<Insn(Merge(Merge(riscv64_rd[rd], riscv64_rs1[rs1]), Merge(riscv64_rs2[rs2], RvDefine[op])),
           0, <<>>)>>
Rs(rs1, rs2, op, ref) ==
    <<Insn(Merge(Merge(riscv64_rs1[rs1], riscv64_rs2[rs2]), RvDefine[op]), 0, ref)>>
RefTo(rd, rs1, op, ref) ==
    <<Insn(Merge(Merge(riscv64_rd[rd], riscv64_rs1[rs1]), RvDefine[op]), 0, ref)>>

\* How many local labels of a kind are written already: the static counters.
Written(c, kind) == Len(SelectSeq(c, LAMBDA u : u.k = "label" /\ u.l[1] = kind))

riscv64_emit_mov_reg(c, dst, src) == IF dst = src THEN c ELSE c \o RdRs1(dst, src, "mv", 0)
RECURSIVE riscv64_emit_add_imm_reg(_, _, _, _)
riscv64_emit_add_imm_reg(c, dst, src, imm) ==
    IF imm = 0 THEN riscv64_emit_mov_reg(c, dst, src)
    ELSE IF imm > 2047
    THEN LET d == c \o RdRs1(dst, src, "addi", 2047)
         IN riscv64_emit_add_imm_reg(d, dst, dst, imm - 2047)
    ELSE IF imm < -2048
    THEN LET d == c \o RdRs1(dst, src, "addi", -2048)
         IN riscv64_emit_add_imm_reg(d, dst, dst, imm + 2048)
    ELSE c \o RdRs1(dst, src, "addi", imm)
MutLiteralNamesFixed(c, reg, v) ==
    c \o RefTo(6, 0, "auipc", <<"LITERAL", 0>>) \o RefTo(6, 6, "addi", <<"LITERAL", 0>>)
      \o RdRs1(reg, 6, "ld", 0) \o RefTo(0, 0, "jal", <<"LITERAL_DONE", 0>>)
      \o <<Label(<<"LITERAL", 0>>)>> \o emit_data64_le(v) \o <<Label(<<"LITERAL_DONE", 0>>)>>
riscv64_emit_load_literal(c, reg, v) ==
    LET id == Written(c, "LITERAL")
    IN c \o RefTo(6, 0, "auipc", <<"LITERAL", id>>) \o RefTo(6, 6, "addi", <<"LITERAL", id>>)
         \o RdRs1(reg, 6, "ld", 0) \o RefTo(0, 0, "jal", <<"LITERAL_DONE", id>>)
         \o <<Label(<<"LITERAL", id>>)>> \o emit_data64_le(v) \o <<Label(<<"LITERAL_DONE", id>>)>>
MutImmediateRange(c, reg, value) ==
    IF value \in -2048..2048 THEN c \o RdRs1(reg, 0, "addi", value)
    ELSE riscv64_emit_load_literal(c, reg, value)
riscv64_emit_load_immediate(c, reg, value) ==
    IF value \in -2048..2047 THEN riscv64_emit_add_imm_reg(c, reg, 0, value)
    ELSE riscv64_emit_load_literal(c, reg, value)
riscv64_emit_load_label(c, reg, l) == c \o RefTo(reg, 0, "auipc", l) \o RefTo(reg, reg, "addi", l)

AccessOp(is_load, size, is_signed) ==
    IF is_load
    THEN CASE size = 8 -> "ld" [] size = 4 /\ is_signed -> "lw" [] size = 4 -> "lwu"
           [] size = 2 /\ is_signed -> "lh" [] size = 2 -> "lhu" [] is_signed -> "lb" [] OTHER -> "lbu"
    ELSE CASE size = 8 -> "sd" [] size = 4 -> "sw" [] size = 2 -> "sh" [] OTHER -> "sb"
MutStoreDirect(offset) == offset \in -2048..2047
StoreDirect(offset) == offset = 0
\* A literal offset is loaded through t1 into t0; src keeps the value to store.
riscv64_emit_load_store_from(c, is_load, size, is_signed, base, offset, src) ==
    LET op == AccessOp(is_load, size, is_signed)
        far == riscv64_emit_load_literal(c, 5, offset) \o RdRs(5, base, 5, "add")
    IN IF is_load /\ offset \in -2048..2047 THEN c \o RdRs1(10, base, op, offset)
       ELSE IF ~is_load /\ StoreDirect(offset) THEN c \o Rs(base, src, op, <<>>)
       ELSE IF is_load THEN far \o RdRs1(10, 5, op, 0) ELSE far \o Rs(5, src, op, <<>>)

OpOf == [ADD |-> "add", SUB |-> "sub", MUL |-> "mul", DIV |-> "div", MOD |-> "rem",
         UDIV |-> "divu", UMOD |-> "remu", SHL |-> "sll", SHR |-> "srl", SAR |-> "sra",
         AND |-> "and", OR |-> "or", XOR |-> "xor", LT |-> "slt", ULT |-> "sltu",
         GE |-> "slt", UGE |-> "sltu"]
riscv64_emit_binop(op) ==
    LET not == RdRs1(10, 10, "xori", 1)
    IN CASE op = "EQ" -> RdRs(10, 11, 10, "xor") \o RdRs1(10, 10, "sltiu", 1)
         [] op = "NE" -> RdRs(10, 11, 10, "xor") \o RdRs(10, 0, 10, "sltu")
         [] op = "GT" -> RdRs(10, 10, 11, "slt")   [] op = "LE" -> RdRs(10, 10, 11, "slt") \o not
         [] op = "UGT" -> RdRs(10, 10, 11, "sltu") [] op = "ULE" -> RdRs(10, 10, 11, "sltu") \o not
         [] op \in {"GE", "UGE"} -> RdRs(10, 11, 10, OpOf[op]) \o not
         [] OTHER -> RdRs(10, 11, 10, OpOf[op])

riscv64_emit_jump(c, l) == riscv64_emit_load_label(c, 7, l) \o RdRs1(0, 7, "jalr", 0)
riscv64_false_branch == [EQ |-> "bne", NE |-> "beq", LT |-> "bge", LE |-> "blt", GT |-> "bge",
                         GE |-> "blt", ULT |-> "bgeu", ULE |-> "bltu", UGT |-> "bgeu", UGE |-> "bltu"]
riscv64_false_branch_swaps == {"LE", "GT", "ULE", "UGT"}
MutNoSwap(c, op, l) ==
    LET skip == <<"BRANCH_SKIP", Written(c, "BRANCH_SKIP")>>
    IN riscv64_emit_jump(c \o Rs(11, 10, riscv64_false_branch[op], skip), l) \o <<Label(skip)>>
riscv64_emit_compare_jump(c, op, l) ==
    LET skip == <<"BRANCH_SKIP", Written(c, "BRANCH_SKIP")>>
        test == IF op \in riscv64_false_branch_swaps
                THEN Rs(10, 11, riscv64_false_branch[op], skip)
                ELSE Rs(11, 10, riscv64_false_branch[op], skip)
    IN riscv64_emit_jump(c \o test, l) \o <<Label(skip)>>
riscv64_emit_truth_jump(c, jump_if_true, l) ==
    LET skip == <<"TRUTH_SKIP", Written(c, "TRUTH_SKIP")>>
    IN riscv64_emit_jump(c \o Rs(10, 0, IF jump_if_true THEN "beqz" ELSE "bnez", skip), l)
         \o <<Label(skip)>>
=============================================================================
