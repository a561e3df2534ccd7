---------------------------------- MODULE IrExec ----------------------------------
(***************************************************************************)
(* What the instructions of hcc1 do: the machine the lowering is compared  *)
(* on.  A word is a number below 2^WordBits.  Memory is bytes, least       *)
(* significant first.  The temp of a local has a slot in memory, because   *)
(* ADDROF may take its address; the other temps are on their own.          *)
(***************************************************************************)
EXTENDS CSemantics

CONSTANT MemTop      \* the highest address

WordBits == targetWordSize * ByteBits
Word(v) == v % 2 ^ WordBits
SignedWord(w) == IF w >= 2 ^ (WordBits - 1) THEN w - 2 ^ WordBits ELSE w

NVars == Cardinality(DOMAIN csVars)
Slot(t) == targetWordSize * (t + 1)

-----------------------------------------------------------------------------
(* Memory *)

RECURSIVE LoadBytes(_, _, _), StoreBytes(_, _, _, _)
LoadBytes(m, a, size) == IF size = 0 THEN 0 ELSE m[a] + Base * LoadBytes(m, a + 1, size - 1)
StoreBytes(m, a, size, w) ==
    IF size = 0 THEN m ELSE StoreBytes([m EXCEPT ![a] = w % Base], a + 1, size - 1, w \div Base)

\* Address 0 and what lies beyond MemTop are no objects.
InMemory(a, size) == a >= targetWordSize /\ a + size - 1 <= MemTop

Extend(size, signed, w) ==
    LET low == w % 2 ^ (size * ByteBits)
    IN  IF signed /\ low >= 2 ^ (size * ByteBits - 1) THEN Word(low - 2 ^ (size * ByteBits)) ELSE low

\* s: memory m, temps t, the end of the stack brk, and whether all went well.
Machine(m, brk) == [m |-> m, t |-> <<>>, brk |-> brk, ok |-> TRUE]

IsSlot(t) == t < NVars
GetTemp(s, t) == IF IsSlot(t) THEN LoadBytes(s.m, Slot(t), targetWordSize) ELSE s.t[t]
SetTemp(s, t, w) ==
    IF IsSlot(t) THEN [s EXCEPT !.m = StoreBytes(@, Slot(t), targetWordSize, w)]
    ELSE [s EXCEPT !.t = (t :> w) @@ @]

\* addr: where each global, and the template of an initializer, is.
Known(s, o) == o.kind # "error" /\ (o.kind = "temp" => IsSlot(o.v) \/ o.v \in DOMAIN s.t)
OperandWord(s, addr, o) ==
    CASE o.kind = "temp" -> GetTemp(s, o.v)
      [] o.kind = "global" -> addr[o.v]
      [] OTHER -> Word(o.v)

-----------------------------------------------------------------------------
(* Instructions *)

BinValue(f, a, b) ==
    LET x == SignedWord(a)
        y == SignedWord(b)
    IN  CASE f = "ADD" -> Word(a + b)
          [] f = "SUB" -> Word(a - b)
          [] f = "MUL" -> Word(x * y)
          [] f \in {"DIV", "MOD", "UDIV", "UMOD"} /\ b = 0 -> 0
          [] f = "DIV" /\ b # 0 -> Word(Quotient(x, y))
          [] f = "MOD" /\ b # 0 -> Word(x - Quotient(x, y) * y)
          [] f = "UDIV" /\ b # 0 -> a \div b
          [] f = "UMOD" /\ b # 0 -> a % b
          [] f \in {"AND", "OR", "XOR"} ->
                BitsOf(CASE f = "AND" -> "&" [] f = "OR" -> "|" [] f = "XOR" -> "^", a, b, WordBits)
          [] f \in {"SHL", "SHR", "SAR"} /\ b >= WordBits -> 0
          [] f = "SHL" /\ b < WordBits -> (a % 2 ^ (WordBits - b)) * 2 ^ b
          [] f = "SHR" /\ b < WordBits -> a \div 2 ^ b
          [] f = "SAR" /\ b < WordBits -> Word(x \div 2 ^ b)
          [] f = "EQ" -> Truth01(a = b)
          [] f = "NE" -> Truth01(a # b)
          [] f = "LT" -> Truth01(x < y)
          [] f = "LE" -> Truth01(x <= y)
          [] f = "GT" -> Truth01(x > y)
          [] f = "GE" -> Truth01(x >= y)
          [] f = "ULT" -> Truth01(a < b)
          [] f = "ULE" -> Truth01(a <= b)
          [] f = "UGT" -> Truth01(a > b)
          [] f = "UGE" -> Truth01(a >= b)

RECURSIVE RunCode(_, _, _)

\* A call runs the callee that CalleeResult describes, lowered by hcc1: it reads
\* its parameter, converts to the return type, and changes its struct.
CalleeCode(f, n) ==
    LET x == memberInfo(f.param, "x")
        Member0(at) == Bind(readLValue(LAddress(at.o, x.ty), at.n), LAMBDA v :
                            Low(at.i \o v.i \o <<storeInstr(x.ty, at.o, OImm(0))>>, v.o, v.n))
    IN  Coerced(IF HasFields(f.param) THEN Member0(offsetAddress(OTemp(n), x.offset, n + 1))
                ELSE coerceScalar(f.param, OTemp(n), n + 1), f.ret)

RunInstr(s, addr, in) ==
    LET Val(o) == OperandWord(s, addr, o)
        needs == CASE in.op \in {"ADDROF", "ALLOCA", "COND"} -> <<>>
                   [] in.op \in {"BIN", "STORE"} -> <<in.a, in.b>>
                   [] OTHER -> <<in.a>>
        Fail == [s EXCEPT !.ok = FALSE]
        Arm(end, o) == IF end.ok /\ Known(end, o) THEN SetTemp(end, in.t, OperandWord(end, addr, o)) ELSE Fail
    IN  IF ~s.ok \/ \E k \in DOMAIN needs : ~Known(s, needs[k]) THEN Fail
        ELSE CASE in.op \in {"CONST", "COPY"} -> SetTemp(s, in.t, Val(in.a))
          [] in.op \in {"SEXT", "ZEXT"} -> SetTemp(s, in.t, Extend(in.size, in.op = "SEXT", Val(in.a)))
          [] in.op = "BIN" -> SetTemp(s, in.t, BinValue(in.f, Val(in.a), Val(in.b)))
          [] in.op = "LOAD" ->
                IF ~InMemory(Val(in.a), in.size) THEN Fail
                ELSE SetTemp(s, in.t, Extend(in.size, in.signed, LoadBytes(s.m, Val(in.a), in.size)))
          [] in.op = "STORE" ->
                IF ~InMemory(Val(in.a), in.size) THEN Fail
                ELSE [s EXCEPT !.m = StoreBytes(@, Val(in.a), in.size, Val(in.b))]
          [] in.op = "ADDROF" -> SetTemp(s, in.t, Slot(in.u))
          [] in.op = "ALLOCA" ->
                SetTemp([s EXCEPT !.brk = alignUp(@ + in.size, targetWordSize)], in.t, s.brk)
          [] in.op = "CALL" ->
                Bind(CalleeCode(csFunctionTypes[in.name], NVars), LAMBDA callee :
                Bind(RunCode([s EXCEPT !.t = NVars :> Val(in.a)], addr, callee.i), LAMBDA called :
                    IF ~called.ok \/ ~Known(called, callee.o) THEN Fail
                    ELSE IF in.t = NoTemp THEN [s EXCEPT !.m = called.m]
                    ELSE SetTemp([s EXCEPT !.m = called.m], in.t, OperandWord(called, addr, callee.o))))
          [] in.op = "COND" ->
                Bind(RunCode(s, addr, in.ci), LAMBDA c :
                    IF ~c.ok \/ ~Known(c, in.co) THEN Fail
                    ELSE IF OperandWord(c, addr, in.co) # 0 THEN Arm(RunCode(c, addr, in.yi), in.yo)
                    ELSE Arm(RunCode(c, addr, in.ni), in.no))

RunCode(s, addr, is) == IF is = <<>> \/ ~s.ok THEN s ELSE RunCode(RunInstr(s, addr, Head(is)), addr, Tail(is))
===================================================================================
