-------------------------------- MODULE M1Alloc --------------------------------
(***************************************************************************)
(* hcc-m1 reading one function of an IR file and laying out its frame      *)
(* (hcc/cbits/hcc_m1.c: parse_ir_function, parse_ir_block,                 *)
(* parse_ir_instr_line, parse_ir_instrs_until_end, parse_ir_term, then     *)
(* allocate_function and count_function_uses).                             *)
(*                                                                         *)
(* The reader takes one line at a time; any line may come next, and the    *)
(* file may end at any point (hcc1 was stopped while writing it).  A line  *)
(* out of place and an early end of file make hcc-m1 exit with an error.   *)
(* Each temp then gets its stack slots in the order of the definitions,    *)
(* and the operands that read it are counted.  The growth of the array of  *)
(* locations (ensure_loc) is abstracted: a temp past its end and a temp    *)
(* never allocated are the same error in lookup_loc.                       *)
(***************************************************************************)
EXTENDS M1Ir

CONSTANTS
    Temps,      \* the temps a function may name
    Lines,      \* the lines the file may hold inside a function
    Archs,      \* the targets hcc-m1 is asked for
    MaxBody     \* bound: lines of one function

ASSUME TempsAssumption == Temps \subseteq Nat
ASSUME LinesAssumption ==
    \A l \in Lines :
        /\ l.k \in {"ALLOCA", "COND"} \cup ValueKinds => l.t \in Temps
        /\ l.k \in CallKinds => l.t \in Temps \cup {NoTemp}
        /\ l.k = "ALLOCA" => l.n \in Int
        /\ l.k \in CallKinds => l.args \in Seq(Operands)
        /\ OperandsOf(l) \in Seq(Operands)
        /\ "a" \in DOMAIN l <=> l.k \in {"COPY", "LOAD", "EXT", "O", "R", "B", "STORE", "BIN", "C"}
        /\ "b" \in DOMAIN l <=> l.k \in {"STORE", "BIN", "C"}
        /\ "c" \in DOMAIN l <=> l.k = "CALLI"
ASSUME ArchsAssumption == Archs \subseteq {"amd64", "i386", "aarch64", "riscv64"}
ASSUME MaxBodyAssumption == MaxBody \in Nat

VARIABLES
    target_arch,  \* --target
    phase,        \* "read", "alloc", "count", then the phases of emission
    body,         \* the lines of the function read so far
    nest,         \* reader: the open lists ("block", or a COND's 1st, 2nd, 3rd)
    pos,          \* the line the current pass is at
    conds,        \* a pass over body: the open CONDs, innermost first
    locs,         \* LocArray
    next_slot     \* first free slot of the frame

allocVars == <<target_arch, phase, body, nest, pos, conds, locs, next_slot>>

Phases == {"read", "alloc", "count", "emit", "dead"}
Nests  == {"block", "cond", "true", "false"}

LocNone == [kind |-> "NONE", slot |-> 0, slots |-> 0, uses |-> 0]

AllocInit ==
    /\ target_arch \in Archs
    /\ phase = "read"
    /\ body = <<>>
    /\ nest = <<>>
    /\ pos = 1
    /\ conds = <<>>
    /\ locs = [t \in Temps |-> LocNone]
    /\ next_slot = 0

(***************************************************************************)
(* Reading.                                                                *)
(***************************************************************************)
Dead ==
    /\ phase' = "dead"
    /\ UNCHANGED <<target_arch, body, nest, pos, conds, locs, next_slot>>

Accept(l, n) ==
    /\ body' = Append(body, l)
    /\ nest' = n
    /\ UNCHANGED <<target_arch, phase, pos, conds, locs, next_slot>>

\* parse_ir_function: a block starts only between blocks.
ReadBlock(l) ==
    /\ l.k = "L"
    /\ nest = <<>>
    /\ Accept(l, <<"block">>)

\* parse_ir_instr_line in a block or in a nested list.
ReadInstr(l) ==
    /\ l.k \in InstrKinds
    /\ nest # <<>>
    /\ Accept(l, nest)

\* IK_COND opens the list of its condition.
ReadCond(l) ==
    /\ l.k = "COND"
    /\ nest # <<>>
    /\ Accept(l, <<"cond">> \o nest)

\* "]" and the operand line close a nested list; the condition's list is
\* followed by the list of the true arm and that by the list of the false arm.
ReadCondOp(l) ==
    /\ l.k = "O"
    /\ nest # <<>>
    /\ \/ Head(nest) = "cond"  /\ Accept(l, <<"true">> \o Tail(nest))
       \/ Head(nest) = "true"  /\ Accept(l, <<"false">> \o Tail(nest))
       \/ Head(nest) = "false" /\ Accept(l, Tail(nest))

\* parse_ir_term ends the block; inside a nested list the line is no
\* instruction and parse_ir_instr_line rejects it.
ReadTerm(l) ==
    /\ l.k \in TermKinds
    /\ nest = <<"block">>
    /\ Accept(l, <<>>)

\* A line that the reader does not expect here: die.
ReadBad(l) ==
    /\ \/ nest = <<>> /\ l.k # "L"
       \/ nest # <<>> /\ l.k = "L"
       \/ nest # <<>> /\ l.k = "O" /\ Head(nest) = "block"
       \/ nest # <<>> /\ l.k \in TermKinds /\ Head(nest) # "block"
    /\ Dead

\* The file ends inside the function: "unexpected eof in IR ...".
ReadEof == phase = "read" /\ Dead

\* Mutant: "E" is taken inside a block as well.
MutReadEnd ==
    /\ phase = "read"
    /\ Len(nest) <= 1
    /\ phase' = "alloc"
    /\ UNCHANGED <<target_arch, body, nest, pos, conds, locs, next_slot>>

\* "E" between blocks ends the function; allocate_function starts.
ReadEnd ==
    /\ phase = "read"
    /\ nest = <<>>
    /\ phase' = "alloc"
    /\ UNCHANGED <<target_arch, body, nest, pos, conds, locs, next_slot>>

ReadLine(l) ==
    /\ phase = "read"
    /\ Len(body) < MaxBody
    /\ \/ ReadBlock(l)
       \/ ReadInstr(l)
       \/ ReadCond(l)
       \/ ReadCondOp(l)
       \/ ReadTerm(l)
       \/ ReadBad(l)

(***************************************************************************)
(* The three passes over the body meet the lines in the order of the file. *)
(* conds is the recursion of allocate_instrs, count_instr_uses and         *)
(* emit_instrs into the lists of a COND.                                   *)
(***************************************************************************)
NextArm(arm) == IF arm = "cond" THEN "true" ELSE "false"

CondsAfter(l) ==
    IF l.k = "COND" THEN <<[t |-> l.t, arm |-> "cond"]>> \o conds
    ELSE IF l.k # "O" \/ conds = <<>> THEN conds
    ELSE IF Head(conds).arm = "false" THEN Tail(conds)
    ELSE <<[Head(conds) EXCEPT !.arm = NextArm(@)]>> \o Tail(conds)

\* Mutant: only the temps of nested CONDs are allocated.
MutClosesCond(l) == l.k = "O" /\ Len(conds) > 1 /\ Head(conds).arm = "false"

\* The line that ends a COND: allocate_instrs then allocates its temp.
ClosesCond(l) == l.k = "O" /\ conds # <<>> /\ Head(conds).arm = "false"

\* target word: alloc_object rounds the size up to slots of 4 or 8 bytes.
SlotBytes == IF target_arch = "i386" THEN 4 ELSE 8
MutObjectSlots(size) == (size + SlotBytes - 1) \div SlotBytes
ObjectSlots(size) ==
    ((IF size < 1 THEN 1 ELSE size) + SlotBytes - 1) \div SlotBytes

NewLoc(kind, slots) == [kind |-> kind, slot |-> next_slot, slots |-> slots, uses |-> 0]

\* Mutant: an object takes one slot of the frame.
MutAllocate(t, kind, slots) ==
    IF locs[t].kind # "NONE"
    THEN UNCHANGED <<locs, next_slot>>
    ELSE /\ locs' = [locs EXCEPT ![t] = NewLoc(kind, slots)]
         /\ next_slot' = next_slot + 1

\* alloc_def, alloc_object: the first definition of a temp decides.
Allocate(t, kind, slots) ==
    IF locs[t].kind # "NONE"
    THEN UNCHANGED <<locs, next_slot>>
    ELSE /\ locs' = [locs EXCEPT ![t] = NewLoc(kind, slots)]
         /\ next_slot' = next_slot + slots

alloc_def(t) == Allocate(t, "STACK", 1)

alloc_object(t, size) == Allocate(t, "OBJECT", ObjectSlots(size))

\* The temp a line defines with a value; a COND's with the end of its lists.
ScalarDef(l) == IF ClosesCond(l) THEN Head(conds).t ELSE instr_def_temp(l)

\* One turn of the loop in allocate_instrs.
AllocateLine ==
    /\ phase = "alloc"
    /\ pos <= Len(body)
    /\ LET l == body[pos] IN
       /\ conds' = CondsAfter(l)
       /\ IF l.k = "ALLOCA" THEN alloc_object(l.t, l.n)
          ELSE IF ScalarDef(l) # NoTemp THEN alloc_def(ScalarDef(l))
          ELSE UNCHANGED <<locs, next_slot>>
    /\ pos' = pos + 1
    /\ UNCHANGED <<target_arch, phase, body, nest>>

\* Mutant: the second pass starts before the first line.
MutAllocateDone ==
    /\ phase = "alloc"
    /\ pos > Len(body)
    /\ phase' = "count"
    /\ pos' = 0
    /\ UNCHANGED <<target_arch, body, nest, conds, locs, next_slot>>

AllocateDone ==
    /\ phase = "alloc"
    /\ pos > Len(body)
    /\ phase' = "count"
    /\ pos' = 1
    /\ UNCHANGED <<target_arch, body, nest, conds, locs, next_slot>>

\* count_operand_use on each operand; lookup_loc dies on a temp without a
\* location ("missing allocation").
CountLine ==
    /\ phase = "count"
    /\ pos <= Len(body)
    /\ LET l == body[pos]
           ops == CountedOperands(l)
           found == \A i \in DOMAIN ops : ops[i].kind = "temp" =>
                        ops[i].v \in Temps /\ locs[ops[i].v].kind # "NONE"
           times(t) == Cardinality({i \in DOMAIN ops : ops[i] = OTemp(t)})
       IN  IF found
           THEN /\ locs' = [t \in Temps |-> [locs[t] EXCEPT !.uses = @ + times(t)]]
                /\ conds' = CondsAfter(l)
                /\ pos' = pos + 1
                /\ UNCHANGED <<target_arch, phase, body, nest, next_slot>>
           ELSE Dead

CountDone ==
    /\ phase = "count"
    /\ pos > Len(body)
    /\ phase' = "emit"
    /\ pos' = 1
    /\ UNCHANGED <<target_arch, body, nest, conds, locs, next_slot>>

AllocNext ==
    \/ \E l \in Lines : ReadLine(l)
    \/ ReadEof
    \/ ReadEnd
    \/ AllocateLine
    \/ AllocateDone
    \/ CountLine
    \/ CountDone

AllocSpec == AllocInit /\ [][AllocNext]_allocVars

-------------------------------------------------------------------------------
(***************************************************************************)
(* Properties.                                                             *)
(***************************************************************************)
Arms == {"cond", "true", "false"}
Locs == [kind : {"NONE", "STACK", "OBJECT"}, slot : Nat, slots : Nat, uses : Nat]

\* Every variable keeps its type; the slots and use counts of LocArray
\* (ensure_loc, alloc_def, alloc_object, count_operand_use) stay naturals.
AllocTypeOK ==
    /\ target_arch \in Archs
    /\ phase \in Phases
    /\ body \in Seq(Lines)
    /\ nest \in Seq(Nests)
    /\ pos \in Nat \ {0}
    /\ conds \in Seq([t : Temps, arm : Arms])
    /\ locs \in [Temps -> Locs]
    /\ next_slot \in Nat

\* The slots of the frame that a temp occupies.
SlotsOf(t) == locs[t].slot .. (locs[t].slot + locs[t].slots - 1)
Allocated(t) == locs[t].kind # "NONE"

\* No two temps share a slot, however often and in whatever nesting they are
\* defined (alloc_def and alloc_object give out next_slot): a store to one
\* temp's location never changes another temp.
SlotsDisjoint ==
    \A s, t \in Temps : s # t /\ Allocated(s) /\ Allocated(t) =>
        SlotsOf(s) \cap SlotsOf(t) = {}

\* The frame that emit_function reserves (next_slot slots) holds every
\* allocated temp, and has no slot without an owner.
FrameExact ==
    /\ \A t \in Temps : Allocated(t) => SlotsOf(t) # {} /\ SlotsOf(t) \subseteq 0..(next_slot - 1)
    /\ \A s \in 0..(next_slot - 1) : \E t \in Temps : Allocated(t) /\ s \in SlotsOf(t)

\* The number of places of the body that name temp t other than to define it.
Mentions(t) ==
    LET fields == {p \in (DOMAIN body) \X {"a", "b", "c"} :
                     p[2] \in DOMAIN body[p[1]] /\ body[p[1]][p[2]] = OTemp(t)}
        addressed == {i \in DOMAIN body : body[i].k = "ADDROF" /\ body[i].u = t}
        calls == {i \in DOMAIN body : body[i].k \in CallKinds}
        args == {p \in UNION {{i} \X DOMAIN body[i].args : i \in calls} :
                   body[p[1]].args[p[2]] = OTemp(t)}
    IN  Cardinality(fields) + Cardinality(addressed) + Cardinality(args)

\* The temps the lines of the body define, ALLOCA and COND included.
Defined == {body[i].t : i \in {k \in DOMAIN body :
                body[k].k \in {"ALLOCA", "COND"} \cup ValueKinds \cup CallKinds}} \ {NoTemp}

\* When the uses are counted, the temps with a place are those some line defines,
\* wherever it stands: "missing allocation" is reported of no others.
MissingExact == phase = "count" => \A t \in Temps : Allocated(t) <=> t \in Defined

\* When emission starts, loc->uses is the number of operands of the whole
\* function that read the temp, in every nested list and terminator (the
\* backend drops the store of a temp on the strength of uses == 1), and nothing
\* but a temp without a definition has stopped the count.
UsesExact ==
    /\ MissingExact
    /\ phase = "emit" => \A t \in Temps : locs[t].uses = Mentions(t)

\* What parse_ir_function accepts is a list of blocks, each closed by its one
\* terminator, with every COND's three lists closed: a file cut short inside
\* a function is never taken for a shorter function.
LinesIn(kinds) == {i \in DOMAIN body : body[i].k \in kinds}
WholeFunction ==
    phase \notin {"read", "dead"} =>
        /\ \A i \in DOMAIN body : body[i].k = "L" <=> i = 1 \/ body[i - 1].k \in TermKinds
        /\ body # <<>> => body[Len(body)].k \in TermKinds
        /\ Cardinality(LinesIn({"O"})) = 3 * Cardinality(LinesIn({"COND"}))
        /\ pos > Len(body) => conds = <<>>
===============================================================================
