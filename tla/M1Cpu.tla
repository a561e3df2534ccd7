--------------------------------- MODULE M1Cpu ---------------------------------
(***************************************************************************)
(* The four processors hcc-m1 writes code for, as far as that code uses    *)
(* them.  AArch64 and RISC-V instructions are decoded from the four bytes  *)
(* the emitter (or a DEFINE of its header) writes; x86 and amd64           *)
(* instructions, whose mnemonics come mostly from M2libc, are named.       *)
(*                                                                         *)
(* Words are scaled: a byte has Byte bits, a word Word(arch) bytes of      *)
(* them.  Register numbers, opcode fields and the immediates inside an     *)
(* instruction keep their real widths.                                     *)
(***************************************************************************)
EXTENDS Integers, Sequences, Bitwise

CONSTANT Byte                        \* bits of a byte

ASSUME ByteAssumption == Byte \in 1..2

Archs == {"amd64", "i386", "aarch64", "riscv64"}
Word(arch) == IF arch = "i386" THEN 4 ELSE 8
Acc(arch) == IF arch = "riscv64" THEN 10 ELSE 0                       \* rax eax x0 a0
Scr(arch) == CASE arch = "riscv64" -> 11 [] arch = "aarch64" -> 1 [] OTHER -> 3
Sp(arch)  == CASE arch = "riscv64" -> 2 [] arch = "aarch64" -> 18 [] OTHER -> 4
Zero(arch) == CASE arch = "riscv64" -> 0 [] arch = "aarch64" -> 31 [] OTHER -> 99

Size(n) == 2 ^ (Byte * n)                       \* how many values n bytes have
Low(n, v) == v % Size(n)
Signed(n, v) == IF Low(n, v) < Size(n) \div 2 THEN Low(n, v) ELSE Low(n, v) - Size(n)
Bytes(n, v) == [i \in 1..n |-> (v \div Size(i - 1)) % Size(1)]
RECURSIVE Number(_)
Number(bytes) == IF bytes = <<>> THEN 0 ELSE Head(bytes) + Size(1) * Number(Tail(bytes))

Abs(x) == IF x < 0 THEN -x ELSE x
Quot(x, y) == IF (x < 0) = (y < 0) THEN Abs(x) \div Abs(y) ELSE -(Abs(x) \div Abs(y))
Rem(x, y) == x - y * Quot(x, y)
Bit(p) == IF p THEN 1 ELSE 0

\* What the operations of the two-operand instructions compute on words of n bytes.
Alu(n, o, x, y) ==
    LET sx == Signed(n, x)
        sy == Signed(n, y)
        k == y % (Byte * n)
    IN Low(n, CASE o = "add" -> x + y  [] o = "sub" -> x - y  [] o = "mul" -> sx * sy
                [] o = "div" -> Quot(sx, sy)  [] o = "rem" -> Rem(sx, sy)
                [] o = "divu" -> x \div y     [] o = "remu" -> x % y
                [] o = "and" -> x & y  [] o = "or" -> x | y  [] o = "xor" -> x ^^ y
                [] o = "sll" -> (x % 2 ^ (Byte * n - k)) * 2 ^ k
                [] o = "srl" -> x \div 2 ^ k  [] o = "sra" -> sx \div 2 ^ k
                [] o = "slt" -> Bit(sx < sy)  [] o = "sltu" -> Bit(x < y))

\* The relation a condition code tests between the operands last compared.
Holds(n, cc, c) ==
    LET s1 == Signed(n, c[1])
        s2 == Signed(n, c[2])
    IN CASE cc = "EQ" -> c[1] = c[2] [] cc = "NE" -> c[1] # c[2]
         [] cc = "LT" -> s1 < s2     [] cc = "LE" -> s1 <= s2
         [] cc = "GT" -> s1 > s2     [] cc = "GE" -> s1 >= s2
         [] cc = "ULT" -> c[1] < c[2] [] cc = "ULE" -> c[1] <= c[2]
         [] cc = "UGT" -> c[1] > c[2] [] cc = "UGE" -> c[1] >= c[2]

(***************************************************************************)
(* A machine M: the code, the position of the next unit of it, registers,  *)
(* the bytes of memory, the operands last compared.  A unit is a word of   *)
(* four bytes, half of a 64-bit literal, a label or an x86 instruction.    *)
(***************************************************************************)
Insn(b, imm, ref) == [k |-> "word", b |-> b, imm |-> imm, ref |-> ref]
Lit(v) == [k |-> "data", v |-> v]
Label(l) == [k |-> "label", l |-> l]
X(o) == [k |-> "x86", o |-> o, n |-> 0]
XN(o, n) == [k |-> "x86", o |-> o, n |-> n]

Get(M, r) == IF r = Zero(M.arch) THEN 0 ELSE M.reg[r]
Set(M, r, v) == [M EXCEPT !.reg = IF r = Zero(M.arch) THEN @
                                  ELSE [@ EXCEPT ![r] = Low(Word(M.arch), v)]]
Next1(M) == [M EXCEPT !.pc = @ + 1]
Go(M, pc) == [M EXCEPT !.pc = pc]
Fault(M) == [M EXCEPT !.pc = -1]
LabelAt(M, l) == CHOOSE i \in 1..Len(M.code) : M.code[i] = Label(l)
AddressOf(M, ref) == IF \E i \in 1..Len(M.code) : M.code[i] = Label(ref)
                     THEN LabelAt(M, ref) ELSE M.away

Span(a, n) == {a + i : i \in 0..(n - 1)}
Load(M, r, a, n, signed) ==
    IF a \in 1..Len(M.code) /\ M.code[a].k = "label" /\ M.code[a + 1].k = "data"
    THEN Next1(Set(M, r, Number(M.code[a + 1].v)))
    ELSE IF Span(a, n) \subseteq DOMAIN M.mem
    THEN LET v == Number([i \in 1..n |-> M.mem[a + i - 1]])
         IN  Next1(Set(M, r, IF signed THEN Signed(n, v) ELSE v))
    ELSE Fault(M)
Store(M, a, n, v) ==
    IF Span(a, n) \subseteq DOMAIN M.mem
    THEN Next1([M EXCEPT !.mem = [x \in DOMAIN @ |->
                     IF x \in Span(a, n) THEN Bytes(n, v)[x - a + 1] ELSE @[x]]])
    ELSE Fault(M)

(***************************************************************************)
(* AArch64.                                                                *)
(***************************************************************************)
ArmCond == [i \in {0, 1, 2, 3, 8, 9, 10, 11, 12, 13} |->
    CASE i = 0 -> "EQ" [] i = 1 -> "NE" [] i = 2 -> "UGE" [] i = 3 -> "ULT" [] i = 8 -> "UGT"
      [] i = 9 -> "ULE" [] i = 10 -> "GE" [] i = 11 -> "LT" [] i = 12 -> "GT" [] i = 13 -> "LE"]

\* op: the byte that selects the instruction; rd, rn, rm, ra, imm*: its fields.
ArmStep(M, b) ==
    LET op == b[4]
        rd == b[1] % 32
        rn == b[1] \div 32 + (b[2] % 4) * 8
        rm == b[3] % 32
        ra == (b[2] \div 4) % 32
        imm12 == b[2] \div 4 + (b[3] % 64) * 64
        imm9 == ((b[2] \div 16 + (b[3] % 32) * 16 + 256) % 512) - 256
        ahead == b[1] \div 32 + b[2] * 8 + b[3] * 2048        \* imm19, in words
        imm16 == b[1] \div 32 + b[2] * 8 + (b[3] % 32) * 2048
        x == Get(M, rn)
        y == Get(M, rm)
        n == CASE op = 249 -> 8 [] op = 185 -> 4 [] op = 121 -> 2 [] OTHER -> 1
        alu(o) == Next1(Set(M, rd, Alu(8, o, x, y)))
    IN CASE op = 145 -> Next1(Set(M, rd, x + imm12))
         [] op = 209 -> Next1(Set(M, rd, x - imm12))
         [] op = 139 -> alu("add") [] op = 203 -> alu("sub") [] op = 138 -> alu("and")
         [] op = 170 -> alu("or")  [] op = 202 -> alu("xor")
         [] op = 42 -> Next1(Set(M, rd, Low(4, y)))
         [] op = 147 -> Next1(Set(M, rd, Signed(4, x)))
         [] op = 235 -> Next1([M EXCEPT !.cmp = <<x, y>>])
         [] op = 155 -> Next1(Set(M, rd, Alu(8, IF b[2] \div 128 = 1 THEN "sub" ELSE "add",
                                             Get(M, ra), Alu(8, "mul", x, y))))
         [] op = 154 -> LET f == b[2] \div 4
                        IN alu(CASE f = 2 -> "divu" [] f = 3 -> "div" [] f = 8 -> "sll"
                                 [] f = 9 -> "srl" [] f = 10 -> "sra")
         [] op = 210 -> Next1(Set(M, rd, imm16))
         [] op = 88 -> IF M.code[M.pc + ahead].k = "data"
                       THEN Next1(Set(M, rd, Number(M.code[M.pc + ahead].v))) ELSE Fault(M)
         [] op = 20 -> Go(M, M.pc + b[1] + b[2] * 256)
         [] op = 84 -> Go(M, M.pc + IF Holds(8, ArmCond[b[1] % 16], M.cmp) THEN ahead ELSE 1)
         [] op = 180 -> Go(M, M.pc + IF Get(M, rd) = 0 THEN ahead ELSE 1)
         [] op = 181 -> Go(M, M.pc + IF Get(M, rd) # 0 THEN ahead ELSE 1)
         [] op = 214 -> Go(IF b[3] = 63 THEN Set(M, 30, M.pc + 1) ELSE M, x)
         [] op \in {249, 185, 121, 57} ->
                LET a == x + n * imm12
                IN IF b[3] \div 64 = 0 THEN Store(M, a, n, Get(M, rd))
                   ELSE Load(M, rd, a, n, b[3] \div 64 = 2)
         [] op = 248 -> IF b[3] \div 64 = 0                     \* pre-index store, post-index load
                        THEN LET S == Store(M, x + imm9, 8, Get(M, rd))
                             IN  IF S.pc = -1 THEN S ELSE Set(S, rn, x + imm9)
                        ELSE LET L == Load(M, rd, x, 8, FALSE)
                             IN  IF L.pc = -1 THEN L ELSE Set(L, rn, x + imm9)
         [] OTHER -> Fault(M)

(***************************************************************************)
(* RISC-V.  The immediate M1 merges into the word is kept beside it; the   *)
(* references ~L and !L are the two parts of the address of L.             *)
(***************************************************************************)
Low12(a) == a % 8                           \* the part an addi can add, scaled
RvStep(M, i) ==
    LET b == i.b
        op == b[1] % 128
        rd == b[1] \div 128 + (b[2] % 16) * 2
        f3 == (b[2] \div 16) % 8
        rs1 == b[2] \div 128 + (b[3] % 16) * 2
        rs2 == b[3] \div 16 + (b[4] % 2) * 16
        f7 == b[4] \div 2
        x == Get(M, rs1)
        y == Get(M, rs2)
        to == AddressOf(M, i.ref)
        imm == IF i.ref = <<>> THEN ((i.imm + 2048) % 4096) - 2048 ELSE Low12(to)
        set(v) == Next1(Set(M, rd, v))
        pick(o0, o1) == IF f7 = 1 THEN o1 ELSE o0
    IN CASE op = 19 -> set(CASE f3 = 0 -> x + imm [] f3 = 3 -> Bit(x < imm)
                             [] f3 = 4 -> x ^^ imm)
         [] op = 23 -> set(to - Low12(to))
         [] op = 51 -> set(Alu(8, CASE f3 = 0 -> IF f7 = 32 THEN "sub" ELSE pick("add", "mul")
                                    [] f3 = 1 -> "sll" [] f3 = 2 -> "slt" [] f3 = 3 -> "sltu"
                                    [] f3 = 4 -> pick("xor", "div")
                                    [] f3 = 5 -> IF f7 = 32 THEN "sra" ELSE pick("srl", "divu")
                                    [] f3 = 6 -> pick("or", "rem") [] f3 = 7 -> pick("and", "remu"),
                               x, y))
         [] op = 111 -> Go(Set(M, rd, M.pc + 1), to)
         [] op = 103 -> Go(Set(M, rd, M.pc + 1), Low(8, x + imm))
         [] op = 99 -> LET cc == CASE f3 = 0 -> "EQ" [] f3 = 1 -> "NE" [] f3 = 4 -> "LT"
                                   [] f3 = 5 -> "GE" [] f3 = 6 -> "ULT" [] f3 = 7 -> "UGE"
                       IN Go(M, IF Holds(8, cc, <<x, y>>) THEN to ELSE M.pc + 1)
         [] op = 3 -> Load(M, rd, Low(8, x + imm), 2 ^ (f3 % 4), f3 < 4)
         [] op = 35 -> Store(M, Low(8, x + imm), 2 ^ f3, y)
         [] OTHER -> Fault(M)

(***************************************************************************)
(* x86 and amd64.  0 rax, 1 rcx, 2 rdx, 3 rbx, 4 rsp, 6 rsi, 7 rdi, 8, 9.  *)
(***************************************************************************)
X86Step(M, o, n) ==
    LET w == Word(M.arch)
        a == Get(M, 0)
        c == Get(M, 3)
        set(v) == Next1(Set(M, 0, v))
        jump(p) == IF p THEN Go(M, M.away) ELSE Next1(M)
    IN CASE o \in {"add", "mul", "and", "or", "xor"} -> set(Alu(w, o, c, a))
         [] o = "subbx" -> Next1(Set(M, 3, c - a))                 \* sub_ebx,eax
         [] o = "xchg" -> Next1(Set(Set(M, 0, c), 3, a))
         [] o = "cdq" -> Next1(Set(M, 2, IF Signed(w, a) < 0 THEN -1 ELSE 0))
         [] o = "xordx" -> Next1(Set(M, 2, 0))
         [] o = "idiv" -> IF c # 0 /\ Get(M, 2) = Low(w, IF Signed(w, a) < 0 THEN -1 ELSE 0)
                          THEN Next1(Set(Set(M, 0, Alu(w, "div", a, c)), 2, Alu(w, "rem", a, c)))
                          ELSE Fault(M)
         [] o = "div" -> IF c # 0 /\ Get(M, 2) = 0
                         THEN Next1(Set(Set(M, 0, a \div c), 2, a % c)) ELSE Fault(M)
         [] o \in {"sll", "srl", "sra"} -> set(Alu(w, o, a, Get(M, 1)))
         [] o = "from" -> set(Get(M, n))                           \* mov rax, reg
         [] o = "to" -> Next1(Set(M, n, a))                        \* mov reg, rax
         [] o = "cmp" -> Next1([M EXCEPT !.cmp = <<c, a>>])
         [] o = "test" -> Next1([M EXCEPT !.cmp = <<a, 0>>])
         [] o = "setcc" -> set(a - Low(1, a) + Bit(Holds(w, n, M.cmp)))
         [] o = "zext" -> set(Low(n, a))
         [] o = "sext" -> set(Signed(n, a))
         [] o = "imm32" -> set(Signed(4, n))
         [] o = "imm64" -> set(Number(n))
         [] o = "addax" -> set(a + n)
         [] o = "addsp" -> Next1(Set(M, 4, Get(M, 4) + n))
         [] o = "leasp" -> set(Get(M, 4) + n)
         [] o = "loadsp" -> Load(M, 0, Get(M, 4) + n, w, FALSE)
         [] o = "storesp" -> Store(M, Get(M, 4) + n, w, a)
         [] o = "load" -> Load(M, 0, a, n, FALSE)
         [] o = "loads" -> Load(M, 0, a, n, TRUE)
         [] o = "loadal" -> LET L == Load(M, 0, a, 1, FALSE)
                            IN IF L.pc = -1 THEN L ELSE Set(L, 0, a - Low(1, a) + L.reg[0])
         [] o = "store" -> Store(M, c, n, a)
         [] o = "jmp" -> jump(TRUE)
         [] o = "ret" -> LET L == Load(M, 5, Get(M, 4), w, FALSE)
                         IN IF L.pc = -1 THEN L ELSE Go(Set(L, 4, Get(M, 4) + w), L.reg[5])
         [] o = "jcc" -> jump(Holds(w, n, M.cmp))
         [] OTHER -> Fault(M)

\* One step of the processor: literals are never instructions.
Step(M) ==
    LET i == M.code[M.pc]
    IN CASE i.k = "label" -> Next1(M)
         [] i.k = "data" -> Fault(M)
         [] i.k = "x86" -> X86Step(M, i.o, i.n)
         [] i.k = "word" -> IF M.arch = "aarch64" THEN ArmStep(M, i.b) ELSE RvStep(M, i)
=============================================================================
