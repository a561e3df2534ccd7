--------------------------------- MODULE M1Ir ---------------------------------
(***************************************************************************)
(* The textual IR that hcc1 writes and hcc-m1 reads, one record per line   *)
(* of the file, and the facts about one instruction that the M1 backend    *)
(* derives from it (hcc/cbits/hcc_m1.c).                                   *)
(*                                                                         *)
(* The body of a function is kept flat, as it is in the file: a COND       *)
(* instruction (IK_COND) is its opening line, three nested instruction     *)
(* lists each closed by the line with its operand ("O ..."), and so is     *)
(* never a tree.  Integers that only name something (temps, block ids,     *)
(* widths, operand values) are small; opcodes are the names of the enums.  *)
(***************************************************************************)
EXTENDS Integers, Sequences, FiniteSets

(***************************************************************************)
(* Operand (OP_TEMP, OP_IMM, OP_BYTES, OP_GLOBAL, OP_FUNC; kind 0 is the   *)
(* operand a return without a value leaves behind).                        *)
(***************************************************************************)
OperandKinds == {"none", "temp", "imm", "bytes", "global", "func"}
Operands == [kind : OperandKinds, v : Int]
OTemp(t)   == [kind |-> "temp", v |-> t]
OImm(n)    == [kind |-> "imm", v |-> n]
OBytes(n)  == [kind |-> "bytes", v |-> n]
OGlobal(n) == [kind |-> "global", v |-> n]
OFunc(n)   == [kind |-> "func", v |-> n]
ONone      == [kind |-> "none", v |-> 0]

(***************************************************************************)
(* The lines of a function body.  "w" is the width in bytes of a memory    *)
(* access or an extension, "r" the result temp (-1: the call has none).    *)
(***************************************************************************)
NoTemp == -1

Param(t, i)      == [k |-> "PARAM", t |-> t, n |-> i]
Alloca(t, size)  == [k |-> "ALLOCA", t |-> t, n |-> size]
Const(t, n)      == [k |-> "CONST", t |-> t, n |-> n]
Copy(t, a)       == [k |-> "COPY", t |-> t, a |-> a]
AddrOf(t, u)     == [k |-> "ADDROF", t |-> t, u |-> u]
Load(t, w, a)    == [k |-> "LOAD", t |-> t, w |-> w, a |-> a]
Store(w, a, b)   == [k |-> "STORE", w |-> w, a |-> a, b |-> b]
Ext(t, w, a)     == [k |-> "EXT", t |-> t, w |-> w, a |-> a]
Bin(t, op, a, b) == [k |-> "BIN", t |-> t, op |-> op, a |-> a, b |-> b]
Call(r, f, args) == [k |-> "CALL", t |-> r, f |-> f, args |-> args]
CallI(r, c, args) == [k |-> "CALLI", t |-> r, c |-> c, args |-> args]
Cond(t)          == [k |-> "COND", t |-> t]
CondOp(a)        == [k |-> "O", a |-> a]
Block(id)        == [k |-> "L", id |-> id]
Ret(a)           == [k |-> "R", a |-> a]
Jump(y)          == [k |-> "J", yes |-> y]
Branch(a, y, n)  == [k |-> "B", a |-> a, yes |-> y, no |-> n]
BranchCmp(op, a, b, y, n) ==
    [k |-> "C", op |-> op, a |-> a, b |-> b, yes |-> y, no |-> n]

\* Instructions that define their temp with a value (allocate_instrs,
\* instr_def_temp): all but ALLOCA, STORE and the COND brackets.
ValueKinds == {"PARAM", "CONST", "COPY", "ADDROF", "LOAD", "EXT", "BIN"}
CallKinds  == {"CALL", "CALLI"}
TermKinds  == {"R", "J", "B", "C"}
InstrKinds == ValueKinds \cup CallKinds \cup {"ALLOCA", "STORE"}

\* binop_is_commutative
binop_is_commutative(op) == op \in {"ADD", "MUL", "EQ", "NE", "AND", "OR", "XOR"}

CompareOps == {"EQ", "NE", "LT", "LE", "GT", "GE", "ULT", "ULE", "UGT", "UGE"}

InverseOf == [EQ |-> "NE", NE |-> "EQ", LT |-> "GE", LE |-> "GT", GT |-> "LE", GE |-> "LT",
              ULT |-> "UGE", ULE |-> "UGT", UGT |-> "ULE", UGE |-> "ULT"]

\* invert_binop
invert_binop(op) == InverseOf[op]

\* instr_def_temp: the temp an instruction leaves in the accumulator.
instr_def_temp(in) ==
    IF in.k \in ValueKinds \cup CallKinds THEN in.t ELSE NoTemp

\* operand_temp
operand_temp(a) == IF a.kind = "temp" THEN a.v ELSE NoTemp

\* The operands of a line, in the order the backend visits them.
OperandsOf(l) ==
    CASE l.k \in {"COPY", "LOAD", "EXT", "O", "R", "B"} -> <<l.a>>
      [] l.k \in {"STORE", "BIN", "C"}                -> <<l.a, l.b>>
      [] l.k = "CALL"                                 -> l.args
      [] l.k = "CALLI"                                -> <<l.c>> \o l.args
      [] OTHER                                        -> <<>>

\* Mutant: ADDROF does not count as a use.
MutCountedOperands(l) == OperandsOf(l)

\* count_instr_uses, count_function_uses: ADDROF counts the temp whose address
\* it takes.
CountedOperands(l) == IF l.k = "ADDROF" THEN <<OTemp(l.u)>> ELSE OperandsOf(l)
===============================================================================
