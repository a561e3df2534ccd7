----------------------------- MODULE M1AllocProofs -----------------------------
(***************************************************************************)
(* Proofs about M1Alloc, for every set of lines, every number of temps and *)
(* functions of any length: first the slots, then what the reader accepts  *)
(* and what the two passes make of it.  The passes follow the nesting that *)
(* the reader has seen: the proofs keep, for every line of the body, the   *)
(* lists that were open after it.                                          *)
(***************************************************************************)
EXTENDS M1Alloc, FiniteSetTheorems, InductionFacts, SequenceTheorems, FunctionTheorems, TLAPS

\* count_operand_use adds a natural number to a temp's uses.
LEMMA TimesNat ==
    ASSUME NEW l \in Lines, NEW t
    PROVE  Cardinality({i \in DOMAIN CountedOperands(l) : CountedOperands(l)[i] = OTemp(t)}) \in Nat
<1> DEFINE n == Len(CountedOperands(l))
           S == {i \in DOMAIN CountedOperands(l) : CountedOperands(l)[i] = OTemp(t)}
<1>1. DOMAIN CountedOperands(l) = 1..n /\ n \in Nat
  <2>1. CASE l.k = "ADDROF"
    BY <2>1 DEF CountedOperands
  <2>2. CASE l.k # "ADDROF"
    BY <2>2, LinesAssumption DEF CountedOperands
  <2> QED BY <2>1, <2>2
<1>2. IsFiniteSet(1..n)
  BY <1>1, FS_Interval
<1>3. IsFiniteSet(S)
  BY <1>1, <1>2, FS_Subset
<1> QED BY <1>3, FS_CardinalityType

\* alloc_object rounds a size up to at least one whole slot.
LEMMA ObjectSlotsPositive ==
    ASSUME NEW size \in Int, SlotBytes \in {4, 8}
    PROVE  ObjectSlots(size) \in Nat \ {0}
BY DEF ObjectSlots

\* A stack kept as a sequence: its top, what is below it, and pushing.
LEMMA StackOps ==
    ASSUME NEW S, NEW s \in Seq(S)
    PROVE  /\ s # <<>> => Head(s) \in S /\ Tail(s) \in Seq(S)
           /\ \A e \in S : <<e>> \o s \in Seq(S) /\ Append(s, e) \in Seq(S)
<1>1. \A e \in S : <<e>> \in Seq(S)
  OBVIOUS
<1> QED BY <1>1

\* The stack of open CONDs stays a stack of temps and arms.
LEMMA CondsAfterType ==
    ASSUME NEW l \in Lines, conds \in Seq([t : Temps, arm : Arms])
    PROVE  CondsAfter(l) \in Seq([t : Temps, arm : Arms])
<1> DEFINE C == [t : Temps, arm : Arms]
<1>1. CASE l.k = "COND"
  <2>1. [t |-> l.t, arm |-> "cond"] \in C
    BY <1>1, LinesAssumption DEF Arms
  <2> QED BY <1>1, <2>1, StackOps DEF CondsAfter
<1>2. CASE l.k # "COND" /\ (l.k # "O" \/ conds = <<>>)
  BY <1>2 DEF CondsAfter
<1>3. CASE l.k = "O" /\ conds # <<>>
  <2> DEFINE h == [Head(conds) EXCEPT !.arm = NextArm(@)]
  <2>1. Head(conds) \in C /\ Tail(conds) \in Seq(C)
    BY <1>3, StackOps
  <2>2. h \in C
    BY <2>1 DEF NextArm, Arms
  <2>3. <<h>> \o Tail(conds) \in Seq(C)
    <3> HIDE DEF C, h
    <3> QED BY <2>1, <2>2, StackOps
  <2>4. CondsAfter(l) = IF Head(conds).arm = "false" THEN Tail(conds) ELSE <<h>> \o Tail(conds)
    BY <1>3 DEF CondsAfter
  <2> QED BY <2>1, <2>3, <2>4
<1> QED BY <1>1, <1>2, <1>3

(***************************************************************************)
(* Type correctness.                                                       *)
(***************************************************************************)

\* Allocate gives a temp a location of slots >= 1 words at the end of the frame.
LEMMA AllocateType ==
    ASSUME NEW t \in Temps, NEW kind \in {"STACK", "OBJECT"}, NEW slots \in Nat,
           locs \in [Temps -> Locs], next_slot \in Nat,
           Allocate(t, kind, slots)
    PROVE  locs' \in [Temps -> Locs] /\ next_slot' \in Nat
BY DEF Allocate, NewLoc, Locs

\* The temp of a scalar definition is one of the function's temps.
LEMMA ScalarDefType ==
    ASSUME NEW l \in Lines, conds \in Seq([t : Temps, arm : Arms]), ScalarDef(l) # NoTemp
    PROVE  ScalarDef(l) \in Temps
<1> DEFINE C == [t : Temps, arm : Arms]
<1>1. CASE ClosesCond(l)
  <2>1. Head(conds) \in C
    BY <1>1, StackOps DEF ClosesCond
  <2> QED BY <1>1, <2>1 DEF ScalarDef
<1>2. CASE ~ClosesCond(l)
  BY <1>2, LinesAssumption DEF ScalarDef, instr_def_temp
<1> QED BY <1>1, <1>2

\* Allocating the temp of one line keeps the types of LocArray and next_slot.
LEMMA AllocateLineType ==
    ASSUME AllocTypeOK, AllocateLine
    PROVE  AllocTypeOK'
<1> DEFINE l == body[pos]
<1>1. l \in Lines
  BY DEF AllocTypeOK, AllocateLine
<1>2. conds' \in Seq([t : Temps, arm : Arms])
  BY <1>1, CondsAfterType DEF AllocTypeOK, AllocateLine
<1>3. locs' \in [Temps -> Locs] /\ next_slot' \in Nat
  <2>1. CASE l.k = "ALLOCA"
    <3>1. SlotBytes \in {4, 8}
      BY DEF SlotBytes
    <3>2. l.t \in Temps /\ l.n \in Int
      BY <1>1, <2>1, LinesAssumption
    <3>3. ObjectSlots(l.n) \in Nat
      BY <3>1, <3>2, ObjectSlotsPositive
    <3>4. Allocate(l.t, "OBJECT", ObjectSlots(l.n))
      BY <2>1 DEF AllocateLine, alloc_object
    <3> QED BY <3>2, <3>3, <3>4, AllocateType DEF AllocTypeOK
  <2>2. CASE l.k # "ALLOCA" /\ ScalarDef(l) # NoTemp
    <3>1. ScalarDef(l) \in Temps
      BY <1>1, <2>2, ScalarDefType DEF AllocTypeOK
    <3>2. Allocate(ScalarDef(l), "STACK", 1)
      BY <2>2 DEF AllocateLine, alloc_def
    <3> QED BY <3>1, <3>2, AllocateType DEF AllocTypeOK
  <2>3. CASE l.k # "ALLOCA" /\ ScalarDef(l) = NoTemp
    BY <2>3 DEF AllocateLine, AllocTypeOK
  <2> QED BY <2>1, <2>2, <2>3
<1> QED BY <1>2, <1>3 DEF AllocateLine, AllocTypeOK

\* Counting changes nothing of a location but its uses.
LEMMA CountLineLocs ==
    ASSUME AllocTypeOK, CountLine
    PROVE  /\ AllocTypeOK'
           /\ next_slot' = next_slot
           /\ \A t \in Temps : /\ locs'[t].kind = locs[t].kind
                               /\ locs'[t].slot = locs[t].slot
                               /\ locs'[t].slots = locs[t].slots
<1> DEFINE l == body[pos]
           ops == CountedOperands(l)
           found == \A i \in DOMAIN ops : ops[i].kind = "temp" =>
                        ops[i].v \in Temps /\ locs[ops[i].v].kind # "NONE"
           times(t) == Cardinality({i \in DOMAIN ops : ops[i] = OTemp(t)})
<1>1. l \in Lines
  BY DEF AllocTypeOK, CountLine
<1>2. \A t \in Temps : times(t) \in Nat
  BY <1>1, TimesNat
<1>3. CASE found
  <2>1. /\ locs' = [t \in Temps |-> [locs[t] EXCEPT !.uses = @ + times(t)]]
        /\ conds' = CondsAfter(l)
        /\ pos' = pos + 1
        /\ UNCHANGED <<target_arch, phase, body, nest, next_slot>>
    BY <1>3 DEF CountLine
  <2>2. conds' \in Seq([t : Temps, arm : Arms])
    BY <1>1, <2>1, CondsAfterType DEF AllocTypeOK
  <2> HIDE DEF times
  <2>3. \A t \in Temps : /\ locs'[t] = [locs[t] EXCEPT !.uses = @ + times(t)]
                         /\ locs[t] \in Locs
    BY <2>1 DEF AllocTypeOK
  <2>4. locs' \in [Temps -> Locs]
    BY <1>2, <2>1, <2>3 DEF Locs
  <2>5. \A t \in Temps : /\ locs'[t].kind = locs[t].kind
                         /\ locs'[t].slot = locs[t].slot
                         /\ locs'[t].slots = locs[t].slots
    BY <2>3 DEF Locs
  <2>6. pos' = pos + 1 /\ UNCHANGED <<target_arch, phase, body, nest, next_slot>>
    BY <2>1
  <2>7. AllocTypeOK'
    BY <2>2, <2>4, <2>6 DEF AllocTypeOK
  <2> QED BY <2>5, <2>6, <2>7
<1>4. CASE ~found
  <2>1. Dead
    BY <1>4 DEF CountLine
  <2> QED BY <2>1 DEF Dead, AllocTypeOK, Phases
<1> QED BY <1>3, <1>4

\* Reading appends lines of the file and opens and closes lists.
LEMMA ReadLineType ==
    ASSUME AllocTypeOK, NEW l \in Lines, ReadLine(l)
    PROVE  AllocTypeOK' /\ UNCHANGED <<locs, next_slot>>
<1>1. body \in Seq(Lines) /\ nest \in Seq(Nests)
  BY DEF AllocTypeOK
<1>2. Append(body, l) \in Seq(Lines)
  BY <1>1, StackOps
<1>3. ASSUME NEW n \in Seq(Nests), Accept(l, n)
      PROVE  AllocTypeOK' /\ UNCHANGED <<locs, next_slot>>
  BY <1>2, <1>3 DEF Accept, AllocTypeOK
<1>4. ASSUME Dead
      PROVE  AllocTypeOK' /\ UNCHANGED <<locs, next_slot>>
  BY <1>4 DEF Dead, AllocTypeOK, Phases
<1>5. <<"block">> \in Seq(Nests) /\ <<>> \in Seq(Nests)
  BY DEF Nests
<1>6. {"cond", "true", "false"} \subseteq Nests
  BY DEF Nests
<1>7. /\ <<"cond">> \o nest \in Seq(Nests)
      /\ nest # <<>> => /\ Tail(nest) \in Seq(Nests)
                        /\ <<"true">> \o Tail(nest) \in Seq(Nests)
                        /\ <<"false">> \o Tail(nest) \in Seq(Nests)
  BY <1>1, <1>6, StackOps
<1>8. CASE ReadBlock(l)
  BY <1>3, <1>5, <1>8 DEF ReadBlock
<1>9. CASE ReadInstr(l)
  BY <1>1, <1>3, <1>9 DEF ReadInstr
<1>10. CASE ReadCond(l)
  BY <1>3, <1>7, <1>10 DEF ReadCond
<1>11. CASE ReadCondOp(l)
  BY <1>3, <1>7, <1>11 DEF ReadCondOp
<1>12. CASE ReadTerm(l)
  BY <1>3, <1>5, <1>12 DEF ReadTerm
<1>13. CASE ReadBad(l)
  BY <1>4, <1>13 DEF ReadBad
<1> QED BY <1>8, <1>9, <1>10, <1>11, <1>12, <1>13 DEF ReadLine

\* The steps that only move from one phase to the next.
PhaseStep == ReadEof \/ ReadEnd \/ AllocateDone \/ CountDone

\* The steps from one pass to the next, and the end of a truncated file, touch no slot.
LEMMA PhaseStepType ==
    ASSUME AllocTypeOK, PhaseStep
    PROVE  AllocTypeOK' /\ UNCHANGED <<locs, next_slot>>
BY DEF PhaseStep, ReadEof, ReadEnd, AllocateDone, CountDone, Dead, AllocTypeOK, Phases

\* Every variable of the reader and of allocate_function keeps its type.
THEOREM AllocTypeCorrect == AllocSpec => []AllocTypeOK
<1>1. AllocInit => AllocTypeOK
  BY DEF AllocInit, AllocTypeOK, Phases, LocNone, Locs
<1>2. AllocTypeOK /\ [AllocNext]_allocVars => AllocTypeOK'
  <2> SUFFICES ASSUME AllocTypeOK, [AllocNext]_allocVars
               PROVE  AllocTypeOK'
    OBVIOUS
  <2>1. ASSUME NEW l \in Lines, ReadLine(l) PROVE AllocTypeOK'
    BY <2>1, ReadLineType
  <2>2. CASE PhaseStep
    BY <2>2, PhaseStepType
  <2>3. CASE AllocateLine
    BY <2>3, AllocateLineType
  <2>4. CASE CountLine
    BY <2>4, CountLineLocs
  <2>5. CASE UNCHANGED allocVars
    BY <2>5 DEF allocVars, AllocTypeOK
  <2> QED BY <2>1, <2>2, <2>3, <2>4, <2>5 DEF AllocNext, PhaseStep
<1> QED BY <1>1, <1>2, PTL DEF AllocSpec

(***************************************************************************)
(* The layout of the frame.  SlotsDisjoint is not inductive: the new temp's*)
(* slots start at next_slot, so the invariant must also say that every     *)
(* allocated temp ends at or before next_slot, which FrameExact does.      *)
(***************************************************************************)
Layout == SlotsDisjoint /\ FrameExact

\* The layout is a matter of the kinds, the slots and next_slot only.
LEMMA LayoutKept ==
    ASSUME AllocTypeOK, Layout, next_slot' = next_slot,
           \A t \in Temps : /\ locs'[t].kind = locs[t].kind
                            /\ locs'[t].slot = locs[t].slot
                            /\ locs'[t].slots = locs[t].slots
    PROVE  Layout'
<1>1. \A t \in Temps : SlotsOf(t)' = SlotsOf(t) /\ (Allocated(t)' <=> Allocated(t))
  BY DEF SlotsOf, Allocated
<1> QED BY <1>1 DEF Layout, SlotsDisjoint, FrameExact

\* Giving a temp slots >= 1 words from next_slot on keeps the layout.
LEMMA AllocateLayout ==
    ASSUME AllocTypeOK, Layout,
           NEW u \in Temps, NEW kind \in {"STACK", "OBJECT"}, NEW slots \in Nat \ {0},
           Allocate(u, kind, slots)
    PROVE  Layout'
<1>1. CASE locs[u].kind # "NONE"
  <2>1. UNCHANGED <<locs, next_slot>>
    BY <1>1 DEF Allocate
  <2> QED BY <2>1, LayoutKept
<1>2. CASE locs[u].kind = "NONE"
  <2>1. /\ locs' = [locs EXCEPT ![u] = NewLoc(kind, slots)]
        /\ next_slot' = next_slot + slots
    BY <1>2 DEF Allocate
  <2>2. next_slot \in Nat /\ locs \in [Temps -> Locs]
    BY DEF AllocTypeOK
  <2>3. SlotsOf(u)' = next_slot .. (next_slot + slots - 1) /\ Allocated(u)'
    BY <2>1, <2>2 DEF SlotsOf, Allocated, NewLoc
  <2>4. \A t \in Temps \ {u} : SlotsOf(t)' = SlotsOf(t) /\ (Allocated(t)' <=> Allocated(t))
    BY <2>1, <2>2 DEF SlotsOf, Allocated
  <2>5. ~Allocated(u)
    BY <1>2 DEF Allocated
  <2>6. \A t \in Temps : Allocated(t) => SlotsOf(t) # {} /\ SlotsOf(t) \subseteq 0..(next_slot - 1)
    BY DEF Layout, FrameExact
  <2>7. SlotsDisjoint'
    <3> SUFFICES ASSUME NEW s \in Temps, NEW t \in Temps, s # t, Allocated(s)', Allocated(t)'
                 PROVE  (SlotsOf(s) \cap SlotsOf(t))' = {}
      BY DEF SlotsDisjoint
    <3>1. (0..(next_slot - 1)) \cap (next_slot .. (next_slot + slots - 1)) = {}
      BY <2>2
    <3>2. CASE s = u
      BY <3>1, <3>2, <2>3, <2>4, <2>6
    <3>3. CASE t = u
      BY <3>1, <3>3, <2>3, <2>4, <2>6
    <3>4. CASE s # u /\ t # u
      BY <3>4, <2>4 DEF Layout, SlotsDisjoint
    <3> QED BY <3>2, <3>3, <3>4
  <2>8. \A t \in Temps : Allocated(t)' =>
            SlotsOf(t)' # {} /\ SlotsOf(t)' \subseteq 0..(next_slot' - 1)
    <3>1. next_slot \in next_slot .. (next_slot + slots - 1)
      BY <2>2
    <3>2. next_slot .. (next_slot + slots - 1) \subseteq 0..(next_slot' - 1)
      BY <2>1, <2>2
    <3>3. 0..(next_slot - 1) \subseteq 0..(next_slot' - 1)
      BY <2>1, <2>2
    <3> QED BY <3>1, <3>2, <3>3, <2>3, <2>4, <2>6
  <2>9. \A s \in 0..(next_slot' - 1) : \E t \in Temps : Allocated(t)' /\ s \in SlotsOf(t)'
    <3> TAKE s \in 0..(next_slot' - 1)
    <3>1. CASE s \in 0..(next_slot - 1)
      BY <3>1, <2>4, <2>5 DEF Layout, FrameExact
    <3>2. CASE s \in next_slot .. (next_slot + slots - 1)
      BY <3>2, <2>3
    <3>3. s \in 0..(next_slot - 1) \/ s \in next_slot .. (next_slot + slots - 1)
      BY <2>1, <2>2
    <3> QED BY <3>1, <3>2, <3>3
  <2> QED BY <2>7, <2>8, <2>9 DEF Layout, FrameExact
<1> QED BY <1>1, <1>2

\* A line of allocate_instrs gives its temp slots above all earlier ones, or none.
LEMMA AllocateLineLayout ==
    ASSUME AllocTypeOK, Layout, AllocateLine
    PROVE  Layout'
<1> DEFINE l == body[pos]
<1>1. l \in Lines
  BY DEF AllocTypeOK, AllocateLine
<1>2. CASE l.k = "ALLOCA"
  <2>1. SlotBytes \in {4, 8}
    BY DEF SlotBytes
  <2>2. l.t \in Temps /\ l.n \in Int
    BY <1>1, <1>2, LinesAssumption
  <2>3. ObjectSlots(l.n) \in Nat \ {0}
    BY <2>1, <2>2, ObjectSlotsPositive
  <2>4. Allocate(l.t, "OBJECT", ObjectSlots(l.n))
    BY <1>2 DEF AllocateLine, alloc_object
  <2> QED BY <2>2, <2>3, <2>4, AllocateLayout
<1>3. CASE l.k # "ALLOCA" /\ ScalarDef(l) # NoTemp
  <2>1. ScalarDef(l) \in Temps
    BY <1>1, <1>3, ScalarDefType DEF AllocTypeOK
  <2>2. Allocate(ScalarDef(l), "STACK", 1)
    BY <1>3 DEF AllocateLine, alloc_def
  <2> QED BY <2>1, <2>2, AllocateLayout
<1>4. CASE l.k # "ALLOCA" /\ ScalarDef(l) = NoTemp
  <2>1. UNCHANGED <<locs, next_slot>>
    BY <1>4 DEF AllocateLine
  <2> QED BY <2>1, LayoutKept
<1> QED BY <1>2, <1>3, <1>4

\* Whatever the function, the frame is laid out exactly: no two temps share a
\* slot, and the slots reserved by emit_function are those of its temps.
THEOREM AllocLayout == AllocSpec => []Layout
<1>1. AllocInit => Layout
  BY DEF AllocInit, Layout, SlotsDisjoint, FrameExact, Allocated, LocNone
<1>2. AllocTypeOK /\ Layout /\ [AllocNext]_allocVars => Layout'
  <2> SUFFICES ASSUME AllocTypeOK, Layout, [AllocNext]_allocVars
               PROVE  Layout'
    OBVIOUS
  <2>1. ASSUME NEW l \in Lines, ReadLine(l) PROVE Layout'
    <3>1. UNCHANGED <<locs, next_slot>>
      BY <2>1, ReadLineType
    <3> QED BY <3>1, LayoutKept
  <2>2. CASE PhaseStep
    <3>1. UNCHANGED <<locs, next_slot>>
      BY <2>2, PhaseStepType
    <3> QED BY <3>1, LayoutKept
  <2>3. CASE AllocateLine
    BY <2>3, AllocateLineLayout
  <2>4. CASE CountLine
    BY <2>4, CountLineLocs, LayoutKept
  <2>5. CASE UNCHANGED allocVars
    <3>1. UNCHANGED <<locs, next_slot>>
      BY <2>5 DEF allocVars
    <3> QED BY <3>1, LayoutKept
  <2> QED BY <2>1, <2>2, <2>3, <2>4, <2>5 DEF AllocNext, PhaseStep
<1> QED BY <1>1, <1>2, AllocTypeCorrect, PTL DEF AllocSpec

\* No two temps of a function share a slot of its frame.
THEOREM AllocSlotsDisjoint == AllocSpec => []SlotsDisjoint
<1>1. Layout => SlotsDisjoint
  BY DEF Layout
<1> QED BY <1>1, AllocLayout, PTL

\* The frame that is reserved holds every temp and nothing else.
THEOREM AllocFrameExact == AllocSpec => []FrameExact
<1>1. Layout => FrameExact
  BY DEF Layout
<1> QED BY <1>1, AllocLayout, PTL

(***************************************************************************)
(* The nesting.                                                            *)
(***************************************************************************)
\* Line l turns the open lists n into m.
Reads(l, n, m) ==
    \/ l.k = "L" /\ n = <<>> /\ m = <<"block">>
    \/ l.k \in InstrKinds /\ n # <<>> /\ m = n
    \/ l.k = "COND" /\ n # <<>> /\ m = <<"cond">> \o n
    \/ l.k = "O" /\ n # <<>> /\ Head(n) = "cond" /\ m = <<"true">> \o Tail(n)
    \/ l.k = "O" /\ n # <<>> /\ Head(n) = "true" /\ m = <<"false">> \o Tail(n)
    \/ l.k = "O" /\ n # <<>> /\ Head(n) = "false" /\ m = Tail(n)
    \/ l.k \in TermKinds /\ n = <<"block">> /\ m = <<>>

\* The lists open at once: the block is the outermost.
Opened(n) ==
    /\ n \in Seq(Nests)
    /\ \A i \in DOMAIN n : n[i] = "block" <=> i = Len(n)

\* A pass has as many CONDs open as the reader had, each in the same arm.
Matches(c, n) ==
    IF n = <<>> THEN c = <<>>
    ELSE Len(c) = Len(n) - 1 /\ \A i \in DOMAIN c : c[i].arm = n[i]

\* The lists open after each of the lines b, f[0] before the first.
TraceOf(f, b, n) ==
    /\ DOMAIN f = 0..Len(b)
    /\ f[0] = <<>> /\ f[Len(b)] = n
    /\ \A k \in 0..Len(b) : Opened(f[k])
    /\ \A k \in 1..Len(b) : Reads(b[k], f[k - 1], f[k])

\* What the items of a stack are after pushing, popping and replacing the top.
LEMMA StackItems ==
    ASSUME NEW S, NEW s \in Seq(S)
    PROVE  /\ \A e \in S : /\ <<e>> \o s \in Seq(S) /\ Len(<<e>> \o s) = Len(s) + 1
                           /\ (<<e>> \o s)[1] = e
                           /\ \A i \in 1..Len(s) : (<<e>> \o s)[i + 1] = s[i]
           /\ s # <<>> => /\ Tail(s) \in Seq(S) /\ Len(Tail(s)) = Len(s) - 1 /\ Head(s) = s[1]
                          /\ \A i \in 1..Len(Tail(s)) : Tail(s)[i] = s[i + 1]
           /\ s # <<>> => \A e \in S : /\ <<e>> \o Tail(s) \in Seq(S)
                                       /\ Len(<<e>> \o Tail(s)) = Len(s)
                                       /\ (<<e>> \o Tail(s))[1] = e
                                       /\ \A i \in 2..Len(s) : (<<e>> \o Tail(s))[i] = s[i]
<1>1. ASSUME NEW e \in S, NEW r \in Seq(S)
      PROVE  /\ <<e>> \o r \in Seq(S) /\ Len(<<e>> \o r) = Len(r) + 1
             /\ (<<e>> \o r)[1] = e
             /\ \A i \in 1..Len(r) : (<<e>> \o r)[i + 1] = r[i]
  <2>1. <<e>> \in Seq(S) /\ Len(<<e>>) = 1 /\ <<e>>[1] = e
    OBVIOUS
  <2> DEFINE o == <<e>>
  <2>2. o \in Seq(S) /\ Len(o) = 1 /\ o[1] = e
    BY <2>1
  <2> HIDE DEF o
  <2>3. /\ o \o r \in Seq(S) /\ Len(o \o r) = 1 + Len(r)
        /\ \A i \in 1..(1 + Len(r)) : (o \o r)[i] = IF i <= 1 THEN o[i] ELSE r[i - 1]
    <3>1. /\ o \o r \in Seq(S) /\ Len(o \o r) = Len(o) + Len(r)
          /\ \A i \in 1..(Len(o) + Len(r)) : (o \o r)[i] = IF i <= Len(o) THEN o[i] ELSE r[i - Len(o)]
      BY <2>2, ConcatProperties
    <3> QED BY <2>2, <3>1
  <2>4. Len(r) \in Nat
    OBVIOUS
  <2>5. (o \o r)[1] = e /\ \A i \in 1..Len(r) : (o \o r)[i + 1] = r[i]
    BY <2>2, <2>3, <2>4
  <2> QED BY <2>3, <2>4, <2>5 DEF o
<1>2. s # <<>> => /\ Tail(s) \in Seq(S) /\ Len(Tail(s)) = Len(s) - 1 /\ Head(s) = s[1]
                  /\ \A i \in 1..Len(Tail(s)) : Tail(s)[i] = s[i + 1]
  OBVIOUS
<1>3. ASSUME s # <<>>, NEW e \in S
      PROVE  /\ <<e>> \o Tail(s) \in Seq(S)
             /\ Len(<<e>> \o Tail(s)) = Len(s)
             /\ (<<e>> \o Tail(s))[1] = e
             /\ \A i \in 2..Len(s) : (<<e>> \o Tail(s))[i] = s[i]
  <2> DEFINE r == Tail(s)
             n == <<e>> \o r
  <2>1. r \in Seq(S) /\ Len(r) = Len(s) - 1 /\ \A i \in 1..Len(r) : r[i] = s[i + 1]
    BY <1>2, <1>3
  <2> HIDE DEF r
  <2>2. n \in Seq(S) /\ Len(n) = Len(r) + 1 /\ n[1] = e /\ \A i \in 1..Len(r) : n[i + 1] = r[i]
    BY <1>1, <2>1
  <2> HIDE DEF n
  <2>3. ASSUME NEW i \in 2..Len(s) PROVE n[i] = s[i]
    <3>1. i - 1 \in 1..Len(r) /\ (i - 1) + 1 = i
      BY <2>1
    <3>2. n[(i - 1) + 1] = r[i - 1] /\ r[i - 1] = s[(i - 1) + 1]
      BY <2>1, <2>2, <3>1
    <3> QED BY <3>1, <3>2
  <2>4. Len(n) = Len(s)
    BY <2>1, <2>2
  <2> QED BY <2>2, <2>3, <2>4 DEF n, r
<1> QED BY <1>1, <1>2, <1>3

\* A line keeps the block outermost; "L" and only "L" is read between blocks,
\* and a terminator and only that leads there.
LEMMA ReadsOpened ==
    ASSUME NEW l, NEW n, NEW m, Opened(n), Reads(l, n, m)
    PROVE  Opened(m) /\ (l.k = "L" <=> n = <<>>) /\ (l.k \in TermKinds <=> m = <<>>)
<1>1. n \in Seq(Nests) /\ Len(n) \in Nat /\ (n = <<>> <=> Len(n) = 0) /\ DOMAIN n = 1..Len(n)
  BY DEF Opened
<1>2. n # <<>> => (n[1] = "block" <=> Len(n) = 1) /\ n[Len(n)] = "block"
  BY <1>1 DEF Opened
<1>3. CASE l.k = "L" /\ n = <<>> /\ m = <<"block">>
  <2>1. m \in Seq(Nests) /\ Len(m) = 1 /\ m[1] = "block" /\ DOMAIN m = 1..1
    BY <1>3 DEF Nests
  <2> QED BY <1>3, <2>1 DEF Opened, TermKinds
<1>4. CASE l.k \in InstrKinds /\ n # <<>> /\ m = n
  BY <1>4 DEF InstrKinds, ValueKinds, CallKinds, TermKinds
<1>5. CASE l.k = "COND" /\ n # <<>> /\ m = <<"cond">> \o n
  <2>1. "cond" \in Nests
    BY DEF Nests
  <2>2. /\ m \in Seq(Nests) /\ Len(m) = Len(n) + 1 /\ m[1] = "cond"
        /\ \A i \in 1..Len(n) : m[i + 1] = n[i]
    BY <1>1, <1>5, <2>1, StackItems
  <2>3. ASSUME NEW i \in DOMAIN m PROVE m[i] = "block" <=> i = Len(m)
    <3>1. i \in 1..(Len(n) + 1)
      BY <2>2
    <3>2. CASE i = 1
      BY <1>1, <1>5, <2>2, <3>2
    <3>3. CASE i # 1
      <4>1. i - 1 \in 1..Len(n) /\ (i - 1) + 1 = i
        BY <1>1, <3>1, <3>3
      <4>2. m[i] = n[i - 1]
        BY <2>2, <4>1
      <4>3. n[i - 1] = "block" <=> i - 1 = Len(n)
        BY <1>1, <4>1 DEF Opened
      <4> QED BY <1>1, <2>2, <4>1, <4>2, <4>3
    <3> QED BY <3>2, <3>3
  <2>4. m # <<>>
    BY <1>1, <2>2
  <2> QED BY <1>5, <2>2, <2>3, <2>4 DEF Opened, TermKinds
<1>6. ASSUME NEW e \in {"true", "false"}, l.k = "O", n # <<>>, Head(n) # "block", m = <<e>> \o Tail(n)
      PROVE  Opened(m) /\ (l.k = "L" <=> n = <<>>) /\ (l.k \in TermKinds <=> m = <<>>)
  <2>1. e \in Nests
    BY DEF Nests
  <2>2. /\ m \in Seq(Nests) /\ Len(m) = Len(n) /\ m[1] = e
        /\ \A i \in 2..Len(n) : m[i] = n[i]
    BY <1>1, <1>6, <2>1, StackItems
  <2>3. Len(n) # 1 /\ n[1] # "block"
    BY <1>1, <1>2, <1>6
  <2>4. ASSUME NEW i \in DOMAIN m PROVE m[i] = "block" <=> i = Len(m)
    <3>1. i \in 1..Len(n)
      BY <2>2
    <3>2. CASE i = 1
      BY <2>2, <2>3, <3>2
    <3>3. CASE i # 1
      BY <1>1, <2>2, <3>1, <3>3 DEF Opened
    <3> QED BY <3>2, <3>3
  <2> QED BY <1>1, <1>6, <2>2, <2>4 DEF Opened, TermKinds
<1>7. CASE l.k = "O" /\ n # <<>> /\ Head(n) = "false" /\ m = Tail(n)
  <2>1. /\ m \in Seq(Nests) /\ Len(m) = Len(n) - 1
        /\ \A i \in 1..Len(m) : m[i] = n[i + 1]
    BY <1>1, <1>7, StackItems
  <2>2. Len(n) # 1
    BY <1>1, <1>2, <1>7
  <2>3. ASSUME NEW i \in DOMAIN m PROVE m[i] = "block" <=> i = Len(m)
    <3>1. i \in 1..(Len(n) - 1) /\ i + 1 \in 1..Len(n)
      BY <1>1, <2>1
    <3>2. m[i] = n[i + 1] /\ (n[i + 1] = "block" <=> i + 1 = Len(n))
      BY <1>1, <2>1, <3>1 DEF Opened
    <3> QED BY <1>1, <2>1, <3>1, <3>2
  <2> QED BY <1>1, <1>7, <2>1, <2>2, <2>3 DEF Opened, TermKinds
<1>8. CASE l.k \in TermKinds /\ n = <<"block">> /\ m = <<>>
  <2>1. m \in Seq(Nests) /\ DOMAIN m = {}
    BY <1>8
  <2> QED BY <1>8, <2>1 DEF Opened, TermKinds
<1> QED BY <1>3, <1>4, <1>5, <1>6, <1>7, <1>8 DEF Reads

Open1 == [t : Temps, arm : Arms]

\* A pass opens and closes its CONDs where the reader opened and closed lists.
LEMMA ReadsMatches ==
    ASSUME NEW l \in Lines, NEW n, NEW m, Opened(n), Reads(l, n, m),
           conds \in Seq(Open1), Matches(conds, n)
    PROVE  Matches(CondsAfter(l), m)
<1>1. n \in Seq(Nests) /\ Len(n) \in Nat /\ (n = <<>> <=> Len(n) = 0) /\ DOMAIN n = 1..Len(n)
  BY DEF Opened
<1>2. n # <<>> => (n[1] = "block" <=> Len(n) = 1) /\ n[Len(n)] = "block"
  BY <1>1 DEF Opened
<1>3. Len(conds) \in Nat /\ DOMAIN conds = 1..Len(conds)
  OBVIOUS
<1>4. n # <<>> => Len(conds) = Len(n) - 1 /\ \A i \in DOMAIN conds : conds[i].arm = n[i]
  BY DEF Matches
<1>5. CASE l.k # "COND" /\ l.k # "O"
  <2>1. CondsAfter(l) = conds
    BY <1>5 DEF CondsAfter
  <2>2. CASE l.k = "L" /\ n = <<>> /\ m = <<"block">>
    BY <2>1, <2>2 DEF Matches
  <2>3. CASE l.k \in InstrKinds /\ n # <<>> /\ m = n
    BY <2>1, <2>3
  <2>4. CASE l.k \in TermKinds /\ n = <<"block">> /\ m = <<>>
    BY <1>1, <1>3, <1>4, <2>1, <2>4 DEF Matches
  <2> QED BY <1>5, <2>2, <2>3, <2>4 DEF Reads
<1>6. CASE l.k = "COND"
  <2> DEFINE c == [t |-> l.t, arm |-> "cond"]
  <2>1. n # <<>> /\ m = <<"cond">> \o n
    BY <1>6 DEF Reads, InstrKinds, ValueKinds, CallKinds, TermKinds
  <2>2. CondsAfter(l) = <<c>> \o conds
    BY <1>6 DEF CondsAfter
  <2>3. c \in Open1 /\ c.arm = "cond" /\ "cond" \in Nests
    BY <1>6, LinesAssumption DEF Open1, Arms, Nests
  <2> HIDE DEF c
  <2>4. /\ m \in Seq(Nests) /\ Len(m) = Len(n) + 1 /\ m[1] = "cond"
        /\ \A i \in 1..Len(n) : m[i + 1] = n[i]
    BY <1>1, <2>1, <2>3, StackItems
  <2> DEFINE after == <<c>> \o conds
  <2>5. /\ after \in Seq(Open1) /\ Len(after) = Len(conds) + 1 /\ after[1] = c
        /\ \A i \in 1..Len(conds) : after[i + 1] = conds[i]
    BY <2>3, StackItems
  <2> HIDE DEF after
  <2>6. ASSUME NEW i \in DOMAIN after PROVE after[i].arm = m[i]
    <3>1. i \in 1..(Len(conds) + 1)
      BY <2>5
    <3>2. CASE i = 1
      BY <2>3, <2>4, <2>5, <3>2
    <3>3. CASE i # 1
      <4>1. i - 1 \in 1..Len(conds) /\ i - 1 \in 1..Len(n) /\ (i - 1) + 1 = i
        BY <1>1, <1>3, <1>4, <2>1, <3>1, <3>3
      <4>2. after[i] = conds[i - 1] /\ m[i] = n[i - 1]
        BY <2>4, <2>5, <4>1
      <4> QED BY <1>3, <1>4, <2>1, <4>1, <4>2
    <3> QED BY <3>2, <3>3
  <2>7. Len(after) = Len(m) - 1 /\ m # <<>>
    BY <1>1, <1>3, <1>4, <2>1, <2>4, <2>5
  <2> QED BY <2>2, <2>6, <2>7 DEF Matches, after
<1>7. CASE l.k = "O"
  <2>1. n # <<>> /\ Head(n) = n[1] /\ n[1] # "block"
    BY <1>1, <1>7 DEF Reads, InstrKinds, ValueKinds, CallKinds, TermKinds
  <2>2. Len(conds) >= 1 /\ conds # <<>> /\ Head(conds) = conds[1] /\ conds[1].arm = n[1]
    BY <1>1, <1>2, <1>3, <1>4, <2>1
  <2>3. Head(conds) \in Open1
    BY <2>2, StackOps
  <2>4. CASE n[1] = "false"
    <3>1. CondsAfter(l) = Tail(conds)
      BY <1>7, <2>2, <2>4 DEF CondsAfter
    <3>2. m = Tail(n)
      BY <1>7, <2>1, <2>4 DEF Reads, InstrKinds, ValueKinds, CallKinds, TermKinds
    <3> DEFINE after == Tail(conds)
    <3>3. /\ m \in Seq(Nests) /\ Len(m) = Len(n) - 1 /\ \A i \in 1..Len(m) : m[i] = n[i + 1]
          /\ after \in Seq(Open1) /\ Len(after) = Len(conds) - 1
          /\ \A i \in 1..Len(after) : after[i] = conds[i + 1]
      BY <1>1, <2>1, <2>2, <3>2, StackItems
    <3> HIDE DEF after
    <3>4. ASSUME NEW i \in DOMAIN after PROVE after[i].arm = m[i]
      <4>1. i \in 1..Len(after) /\ i \in 1..Len(m) /\ i + 1 \in DOMAIN conds
        BY <1>1, <1>3, <1>4, <2>1, <3>3
      <4> QED BY <1>4, <2>1, <3>3, <4>1
    <3>5. Len(after) = Len(m) - 1 /\ m # <<>>
      <4>1. Len(conds) = Len(n) - 1
        BY <1>4, <2>1
      <4>2. Len(after) = Len(m) - 1 /\ Len(m) >= 1
        BY <1>1, <1>3, <2>2, <3>3, <4>1
      <4> QED BY <3>3, <4>2
    <3> QED BY <3>1, <3>4, <3>5 DEF Matches, after
  <2>5. CASE n[1] # "false"
    <3> DEFINE h == [Head(conds) EXCEPT !.arm = NextArm(@)]
               e == NextArm(n[1])
    <3>1. CondsAfter(l) = <<h>> \o Tail(conds)
      BY <1>7, <2>2, <2>5 DEF CondsAfter
    <3>2. m = <<e>> \o Tail(n)
      <4>1. \/ Head(n) = "cond" /\ m = <<"true">> \o Tail(n)
            \/ Head(n) = "true" /\ m = <<"false">> \o Tail(n)
        BY <1>7, <2>1, <2>5 DEF Reads, InstrKinds, ValueKinds, CallKinds, TermKinds
      <4>2. (Head(n) = "cond" => e = "true") /\ (Head(n) = "true" => e = "false")
        BY <2>1 DEF NextArm
      <4> QED BY <4>1, <4>2
    <3>3. h \in Open1 /\ h.arm = e /\ e \in Nests
      BY <2>2, <2>3 DEF Open1, NextArm, Arms, Nests
    <3> HIDE DEF h, e
    <3> DEFINE after == <<h>> \o Tail(conds)
    <3>4. /\ m \in Seq(Nests) /\ Len(m) = Len(n) /\ m[1] = e /\ \A i \in 2..Len(n) : m[i] = n[i]
      BY <1>1, <2>1, <3>2, <3>3, StackItems
    <3>5. /\ after \in Seq(Open1) /\ Len(after) = Len(conds) /\ after[1] = h
          /\ \A i \in 2..Len(conds) : after[i] = conds[i]
      BY <2>2, <3>3, StackItems
    <3> HIDE DEF after
    <3>6. ASSUME NEW i \in DOMAIN after PROVE after[i].arm = m[i]
      <4>1. i \in 1..Len(conds)
        BY <3>5
      <4>2. CASE i = 1
        BY <3>3, <3>4, <3>5, <4>2
      <4>3. CASE i # 1
        <5>1. i \in 2..Len(conds) /\ i \in 2..Len(n)
          BY <1>1, <1>3, <1>4, <2>1, <4>1, <4>3
        <5> QED BY <1>3, <1>4, <2>1, <3>4, <3>5, <4>1, <5>1
      <4> QED BY <4>2, <4>3
    <3>7. Len(after) = Len(m) - 1 /\ m # <<>>
      BY <1>1, <1>3, <1>4, <2>1, <3>4, <3>5
    <3> QED BY <3>1, <3>6, <3>7 DEF Matches, after
  <2> QED BY <2>4, <2>5
<1> QED BY <1>5, <1>6, <1>7

(***************************************************************************)
(* Closing lines still to come: three for a COND in its first list, two in *)
(* its second and one in its third.  The lists are numbered from the       *)
(* outermost, so that opening and closing one leaves the others alone.     *)
(***************************************************************************)
Rest(arm) == CASE arm = "cond" -> 3 [] arm = "true" -> 2 [] arm = "false" -> 1 [] OTHER -> 0
At(n, d) == n[Len(n) + 1 - d]
Pending(n) == {p \in (1..Len(n)) \X (1..3) : p[2] <= Rest(At(n, p[1]))}

\* The lists still to come are finitely many.
LEMMA PendingFinite ==
    ASSUME NEW n \in Seq(Nests)
    PROVE  IsFiniteSet(Pending(n)) /\ Cardinality(Pending(n)) \in Nat
<1>1. IsFiniteSet((1..Len(n)) \X (1..3))
  <2>1. IsFiniteSet(1..Len(n)) /\ IsFiniteSet(1..3)
    <3>1. Len(n) \in Int /\ 1 \in Int /\ 3 \in Int
      OBVIOUS
    <3> QED BY <3>1, FS_Interval
  <2> QED BY <2>1, FS_Product
<1>2. Pending(n) \in SUBSET ((1..Len(n)) \X (1..3))
  BY DEF Pending
<1> QED BY <1>1, <1>2, FS_Subset, FS_CardinalityType

\* The lists by their depth, after a push, a pop and a replacement of the top.
LEMMA DepthItems ==
    ASSUME NEW n \in Seq(Nests), NEW e \in Nests
    PROVE  /\ Len(<<e>> \o n) = Len(n) + 1 /\ At(<<e>> \o n, Len(n) + 1) = e
           /\ \A d \in 1..Len(n) : At(<<e>> \o n, d) = At(n, d)
           /\ n # <<>> => /\ Len(Tail(n)) = Len(n) - 1
                          /\ \A d \in 1..(Len(n) - 1) : At(Tail(n), d) = At(n, d)
           /\ n # <<>> => /\ Len(<<e>> \o Tail(n)) = Len(n) /\ At(<<e>> \o Tail(n), Len(n)) = e
                          /\ \A d \in 1..(Len(n) - 1) : At(<<e>> \o Tail(n), d) = At(n, d)
<1>1. Len(n) \in Nat
  OBVIOUS
<1>2. /\ Len(<<e>> \o n) = Len(n) + 1 /\ At(<<e>> \o n, Len(n) + 1) = e
      /\ \A d \in 1..Len(n) : At(<<e>> \o n, d) = At(n, d)
  <2> DEFINE m == <<e>> \o n
  <2>1. Len(m) = Len(n) + 1 /\ m[1] = e /\ \A i \in 1..Len(n) : m[i + 1] = n[i]
    BY StackItems
  <2> HIDE DEF m
  <2>2. At(m, Len(n) + 1) = e
    BY <1>1, <2>1 DEF At
  <2>3. ASSUME NEW d \in 1..Len(n) PROVE At(m, d) = At(n, d)
    <3>1. Len(n) + 1 - d \in 1..Len(n) /\ Len(m) + 1 - d = (Len(n) + 1 - d) + 1
      BY <1>1, <2>1
    <3> QED BY <2>1, <3>1 DEF At
  <2> QED BY <2>1, <2>2, <2>3 DEF m
<1>3. ASSUME n # <<>>
      PROVE  Len(Tail(n)) = Len(n) - 1 /\ \A d \in 1..(Len(n) - 1) : At(Tail(n), d) = At(n, d)
  <2> DEFINE m == Tail(n)
  <2>1. Len(m) = Len(n) - 1 /\ \A i \in 1..Len(m) : m[i] = n[i + 1]
    BY <1>3, StackItems
  <2> HIDE DEF m
  <2>2. ASSUME NEW d \in 1..(Len(n) - 1) PROVE At(m, d) = At(n, d)
    <3>1. Len(m) + 1 - d \in 1..Len(m) /\ (Len(m) + 1 - d) + 1 = Len(n) + 1 - d
      BY <1>1, <2>1
    <3> QED BY <2>1, <3>1 DEF At
  <2> QED BY <2>1, <2>2 DEF m
<1>4. ASSUME n # <<>>
      PROVE  /\ Len(<<e>> \o Tail(n)) = Len(n) /\ At(<<e>> \o Tail(n), Len(n)) = e
             /\ \A d \in 1..(Len(n) - 1) : At(<<e>> \o Tail(n), d) = At(n, d)
  <2> DEFINE m == <<e>> \o Tail(n)
  <2>1. Len(m) = Len(n) /\ m[1] = e /\ \A i \in 2..Len(n) : m[i] = n[i]
    BY <1>4, StackItems
  <2> HIDE DEF m
  <2>2. At(m, Len(n)) = e
    BY <1>1, <2>1 DEF At
  <2>3. ASSUME NEW d \in 1..(Len(n) - 1) PROVE At(m, d) = At(n, d)
    <3>1. Len(n) + 1 - d \in 2..Len(n)
      BY <1>1
    <3> QED BY <2>1, <3>1 DEF At
  <2> QED BY <2>1, <2>2, <2>3 DEF m
<1> QED BY <1>2, <1>3, <1>4

\* COND opens three lists to close and every "O" closes one.
LEMMA PendingStep ==
    ASSUME NEW l, NEW n, NEW m, Opened(n), Reads(l, n, m)
    PROVE  Cardinality(Pending(m)) =
             Cardinality(Pending(n)) + (IF l.k = "COND" THEN 3 ELSE IF l.k = "O" THEN -1 ELSE 0)
<1>1. /\ n \in Seq(Nests) /\ Len(n) \in Nat /\ (n = <<>> <=> Len(n) = 0)
      /\ IsFiniteSet(Pending(n)) /\ Cardinality(Pending(n)) \in Nat
  BY PendingFinite DEF Opened
<1>2. n # <<>> => Head(n) = n[1] /\ At(n, Len(n)) = n[1]
  BY <1>1 DEF At
<1>3. {"cond", "true", "false", "block"} = Nests
  BY DEF Nests
<1>4. CASE l.k \in InstrKinds /\ m = n
  BY <1>1, <1>4 DEF InstrKinds, ValueKinds, CallKinds
<1>5. Pending(<<>>) = {} /\ Pending(<<"block">>) = {}
  <2> DEFINE b == <<"block">>
  <2>1. Len(b) = 1 /\ At(b, 1) = "block" /\ Rest("block") = 0
    BY DEF At, Rest
  <2> HIDE DEF b
  <2>2. \A p \in (1..1) \X (1..3) : p[1] = 1 /\ p[2] > 0
    OBVIOUS
  <2>3. Pending(b) = {}
    BY <2>1, <2>2 DEF Pending
  <2>4. Pending(<<>>) = {}
    BY DEF Pending
  <2> QED BY <2>3, <2>4 DEF b
<1>6. CASE \/ l.k = "L" /\ n = <<>> /\ m = <<"block">>
           \/ l.k \in TermKinds /\ n = <<"block">> /\ m = <<>>
  <2>1. Pending(m) = {} /\ Pending(n) = {} /\ l.k # "COND" /\ l.k # "O"
    BY <1>5, <1>6 DEF TermKinds
  <2> QED BY <1>1, <2>1
<1>7. CASE l.k = "COND" /\ m = <<"cond">> \o n
  <2> DEFINE d == Len(n) + 1
  <2>1. Len(m) = d /\ At(m, d) = "cond" /\ \A i \in 1..Len(n) : At(m, i) = At(n, i)
    BY <1>1, <1>3, <1>7, DepthItems
  <2>2. d \in Nat /\ d \notin 1..Len(n) /\ 1..d = (1..Len(n)) \cup {d}
    BY <1>1
  <2> HIDE DEF d
  <2>3. Rest("cond") = 3
    BY DEF Rest
  <2>4. Pending(m) = ((Pending(n) \cup {<<d, 1>>}) \cup {<<d, 2>>}) \cup {<<d, 3>>}
    <3>1. ASSUME NEW i \in 1..d, NEW j \in 1..3
          PROVE  <<i, j>> \in Pending(m) <=> (<<i, j>> \in Pending(n) \/ i = d)
      <4>1. CASE i = d
        BY <2>1, <2>3, <4>1 DEF Pending
      <4>2. CASE i # d
        BY <2>1, <2>2, <4>2 DEF Pending
      <4> QED BY <4>1, <4>2
    <3>2. Pending(m) \subseteq (1..d) \X (1..3) /\ Pending(n) \subseteq (1..d) \X (1..3)
      BY <2>1, <2>2 DEF Pending
    <3>3. 1..3 = {1, 2, 3} /\ d \in 1..d
      BY <2>2
    <3>4. ASSUME NEW p \in (1..d) \X (1..3)
          PROVE  p \in Pending(m) <=> p \in ((Pending(n) \cup {<<d, 1>>}) \cup {<<d, 2>>}) \cup {<<d, 3>>}
      <4>1. PICK i \in 1..d, j \in 1..3 : p = <<i, j>>
        OBVIOUS
      <4>2. i = d => p \in {<<d, 1>>, <<d, 2>>, <<d, 3>>}
        BY <3>3, <4>1
      <4>3. p \in {<<d, 1>>, <<d, 2>>, <<d, 3>>} => i = d
        BY <4>1
      <4> QED BY <3>1, <4>1, <4>2, <4>3
    <3>5. {<<d, 1>>, <<d, 2>>, <<d, 3>>} \subseteq (1..d) \X (1..3)
      BY <3>3
    <3> QED BY <3>2, <3>4, <3>5
  <2>5. <<d, 1>> \notin Pending(n) /\ <<d, 2>> \notin Pending(n) /\ <<d, 3>> \notin Pending(n)
    <3>1. \A p \in Pending(n) : p[1] \in 1..Len(n)
      BY DEF Pending
    <3>2. <<d, 1>>[1] = d /\ <<d, 2>>[1] = d /\ <<d, 3>>[1] = d
      OBVIOUS
    <3> QED BY <2>2, <3>1, <3>2
  <2> DEFINE P1 == Pending(n) \cup {<<d, 1>>}
             P2 == P1 \cup {<<d, 2>>}
  <2>6. IsFiniteSet(P1) /\ Cardinality(P1) = Cardinality(Pending(n)) + 1
    BY <1>1, <2>5, FS_AddElement
  <2>7. IsFiniteSet(P2) /\ Cardinality(P2) = Cardinality(P1) + 1
    <3>1. <<d, 2>> \notin P1
      BY <2>5
    <3> QED BY <2>6, <3>1, FS_AddElement
  <2>8. Cardinality(P2 \cup {<<d, 3>>}) = Cardinality(P2) + 1
    <3>1. <<d, 3>> \notin P2
      BY <2>5
    <3> QED BY <2>7, <3>1, FS_AddElement
  <2>9. Cardinality(Pending(m)) = Cardinality(P2) + 1
    BY <2>4, <2>8
  <2> HIDE DEF P1, P2
  <2> QED BY <1>1, <1>7, <2>6, <2>7, <2>9
<1>8. ASSUME NEW e \in {"true", "false"}, l.k = "O", n # <<>>, Rest(Head(n)) = Rest(e) + 1,
             m = <<e>> \o Tail(n)
      PROVE  Cardinality(Pending(m)) = Cardinality(Pending(n)) - 1
  <2> DEFINE d == Len(n)
             r == Rest(e) + 1
  <2>1. Len(m) = d /\ At(m, d) = e /\ \A i \in 1..(d - 1) : At(m, i) = At(n, i)
    BY <1>1, <1>3, <1>8, DepthItems
  <2>2. d \in Nat \ {0} /\ d \in 1..d /\ At(n, d) = Head(n) /\ \A i \in 1..d : i # d => i \in 1..(d - 1)
    BY <1>1, <1>2, <1>8
  <2>3. Rest(e) \in Nat /\ r \in 1..3 /\ r = Rest(e) + 1
    BY DEF Rest
  <2> DEFINE top == <<d, r>>
  <2>4. Pending(m) \subseteq (1..d) \X (1..3) /\ Pending(n) \subseteq (1..d) \X (1..3)
    BY <2>1 DEF Pending
  <2> HIDE DEF d, r
  <2>5. ASSUME NEW i \in 1..d, NEW j \in 1..3
        PROVE  <<i, j>> \in Pending(m) <=> (<<i, j>> \in Pending(n) /\ ~(i = d /\ j = r))
    <3>1. CASE i = d
      <4>1. <<i, j>> \in Pending(m) <=> j <= Rest(e)
        BY <2>1, <2>2, <3>1 DEF Pending
      <4>2. <<i, j>> \in Pending(n) <=> j <= r
        BY <1>8, <2>2, <2>3, <3>1 DEF Pending, d
      <4> QED BY <2>3, <3>1, <4>1, <4>2
    <3>2. CASE i # d
      BY <2>1, <2>2, <3>2 DEF Pending, d
    <3> QED BY <3>1, <3>2
  <2>6. Pending(m) = Pending(n) \ {top}
    <3>1. ASSUME NEW p \in (1..d) \X (1..3)
          PROVE  p \in Pending(m) <=> p \in Pending(n) \ {top}
      <4>1. PICK i \in 1..d, j \in 1..3 : p = <<i, j>>
        OBVIOUS
      <4>2. p = top <=> i = d /\ j = r
        BY <4>1
      <4> QED BY <2>5, <4>1, <4>2
    <3> QED BY <2>4, <3>1
  <2>7. top \in Pending(n)
    BY <1>8, <2>2, <2>3 DEF Pending, d
  <2> QED BY <1>1, <2>6, <2>7, FS_RemoveElement
<1>9. CASE l.k = "O" /\ n # <<>> /\ Head(n) = "false" /\ m = Tail(n)
  <2> DEFINE d == Len(n)
             top == <<d, 1>>
  <2>1. Len(m) = d - 1 /\ \A i \in 1..(d - 1) : At(m, i) = At(n, i)
    BY <1>1, <1>3, <1>9, DepthItems
  <2>2. /\ d \in Nat \ {0} /\ d \in 1..d /\ At(n, d) = "false"
        /\ d \notin 1..(d - 1) /\ \A i \in 1..d : i # d => i \in 1..(d - 1)
    BY <1>1, <1>2, <1>9
  <2>3. Rest("false") = 1 /\ \A i \in 1..(d - 1) : i \in 1..d
    BY <1>1 DEF Rest
  <2>4. Pending(m) \subseteq (1..d) \X (1..3) /\ Pending(n) \subseteq (1..d) \X (1..3)
    BY <2>1, <2>3 DEF Pending
  <2> HIDE DEF d
  <2>5. ASSUME NEW i \in 1..d, NEW j \in 1..3
        PROVE  <<i, j>> \in Pending(m) <=> (<<i, j>> \in Pending(n) /\ ~(i = d /\ j = 1))
    <3>1. CASE i = d
      BY <2>1, <2>2, <2>3, <3>1 DEF Pending, d
    <3>2. CASE i # d
      BY <2>1, <2>2, <3>2 DEF Pending, d
    <3> QED BY <3>1, <3>2
  <2>6. Pending(m) = Pending(n) \ {top}
    <3>1. ASSUME NEW p \in (1..d) \X (1..3)
          PROVE  p \in Pending(m) <=> p \in Pending(n) \ {top}
      <4>1. PICK i \in 1..d, j \in 1..3 : p = <<i, j>>
        OBVIOUS
      <4>2. p = top <=> i = d /\ j = 1
        BY <4>1
      <4> QED BY <2>5, <4>1, <4>2
    <3> QED BY <2>4, <3>1
  <2>7. top \in Pending(n)
    BY <2>2, <2>3 DEF Pending, d
  <2>8. Cardinality(Pending(m)) = Cardinality(Pending(n)) - 1
    BY <1>1, <2>6, <2>7, FS_RemoveElement
  <2> QED BY <1>1, <1>9, <2>8
<1>10. CASE \/ l.k = "O" /\ n # <<>> /\ Head(n) = "cond" /\ m = <<"true">> \o Tail(n)
            \/ l.k = "O" /\ n # <<>> /\ Head(n) = "true" /\ m = <<"false">> \o Tail(n)
  <2>1. Rest("cond") = Rest("true") + 1 /\ Rest("true") = Rest("false") + 1
    BY DEF Rest
  <2>2. Cardinality(Pending(m)) = Cardinality(Pending(n)) - 1
    BY <1>8, <1>10, <2>1
  <2> QED BY <1>1, <1>10, <2>2
<1> QED BY <1>4, <1>6, <1>7, <1>9, <1>10 DEF Reads

(***************************************************************************)
(* The inductive invariant of the reader and of the passes.                *)
(***************************************************************************)
\* A pass is where the reader was when it had read the line before pos.
Followed == \E f : /\ TraceOf(f, body, nest)
                   /\ pos - 1 \in 0..Len(body)
                   /\ Matches(conds, f[pos - 1])

Balanced == Cardinality(LinesIn({"O"})) + Cardinality(Pending(nest)) = 3 * Cardinality(LinesIn({"COND"}))

BodyInv ==
    phase # "dead" =>
        /\ Followed
        /\ Balanced
        /\ phase \in {"read", "emit"} => pos = 1
        /\ phase # "read" => nest = <<>>

\* A line that is read opens and closes lists as Reads says; any other stops
\* hcc-m1.
LEMMA ReadLineReads ==
    ASSUME NEW l, ReadLine(l)
    PROVE  \/ phase' = "dead"
           \/ /\ Reads(l, nest, nest') /\ body' = Append(body, l)
              /\ phase = "read" /\ UNCHANGED <<phase, pos, conds, locs>>
BY DEF ReadLine, ReadBlock, ReadInstr, ReadCond, ReadCondOp, ReadTerm, ReadBad, Accept, Dead, Reads

\* The body grows by a line and the trace by the lists then open.
LEMMA TraceGrows ==
    ASSUME NEW b \in Seq(Lines), NEW n, NEW f, TraceOf(f, b, n), NEW l \in Lines, NEW m, Reads(l, n, m)
    PROVE  LET g == [k \in 0..(Len(b) + 1) |-> IF k <= Len(b) THEN f[k] ELSE m]
           IN  TraceOf(g, Append(b, l), m) /\ \A k \in 0..Len(b) : g[k] = f[k]
<1> DEFINE s == Len(b)
           c == Append(b, l)
           g == [k \in 0..(s + 1) |-> IF k <= s THEN f[k] ELSE m]
<1>1. /\ s \in Nat /\ Len(c) = s + 1 /\ c[s + 1] = l /\ \A k \in 1..s : c[k] = b[k]
  OBVIOUS
<1>2. /\ DOMAIN f = 0..s /\ f[0] = <<>> /\ f[s] = n
      /\ \A k \in 0..s : Opened(f[k])
      /\ \A k \in 1..s : Reads(b[k], f[k - 1], f[k])
  BY DEF TraceOf
<1> HIDE DEF c, s
<1>3. /\ DOMAIN g = 0..(s + 1) /\ g[s + 1] = m /\ \A k \in 0..s : g[k] = f[k]
  BY <1>1
<1> HIDE DEF g
<1>4. Opened(n)
  BY <1>1, <1>2
<1>5. Opened(m)
  BY <1>4, ReadsOpened
<1>6. \A k \in 0..(s + 1) : Opened(g[k])
  <2> TAKE k \in 0..(s + 1)
  <2>1. k = s + 1 \/ k \in 0..s
    BY <1>1
  <2> QED BY <1>2, <1>3, <1>5, <2>1
<1>7. \A k \in 1..(s + 1) : Reads(c[k], g[k - 1], g[k])
  <2> TAKE k \in 1..(s + 1)
  <2>1. CASE k = s + 1
    <3>1. k - 1 = s /\ s \in 0..s
      BY <1>1, <2>1
    <3>2. g[k - 1] = n /\ g[k] = m /\ c[k] = l
      BY <1>1, <1>2, <1>3, <2>1, <3>1
    <3> QED BY <3>2
  <2>2. CASE k # s + 1
    <3>1. k \in 1..s /\ k \in 0..s /\ k - 1 \in 0..s
      BY <1>1, <2>2
    <3> QED BY <1>1, <1>2, <1>3, <3>1
  <2> QED BY <2>1, <2>2
<1>8. g[0] = <<>>
  BY <1>1, <1>2, <1>3
<1>9. TraceOf(g, c, m)
  BY <1>1, <1>3, <1>6, <1>7, <1>8 DEF TraceOf
<1> QED BY <1>3, <1>9 DEF g, c, s

\* The lines of some kinds in a body that has grown by one.
LEMMA LinesGrow ==
    ASSUME body \in Seq(Lines), NEW l \in Lines, body' = Append(body, l), NEW K
    PROVE  /\ Cardinality(LinesIn(K)) \in Nat
           /\ Cardinality(LinesIn(K)') = Cardinality(LinesIn(K)) + (IF l.k \in K THEN 1 ELSE 0)
<1> DEFINE s == Len(body)
           old == LinesIn(K)
<1>1. s \in Nat /\ DOMAIN body = 1..s /\ DOMAIN body' = 1..(s + 1) /\ s + 1 \notin 1..s
      /\ body'[s + 1] = l /\ (\A i \in 1..s : body'[i] = body[i]) /\ 1..(s + 1) = (1..s) \cup {s + 1}
  OBVIOUS
<1>2. old = {i \in 1..s : body[i].k \in K} /\ LinesIn(K)' = {i \in 1..(s + 1) : body'[i].k \in K}
  BY <1>1 DEF LinesIn
<1>3. IsFiniteSet(old) /\ Cardinality(old) \in Nat
  <2>1. IsFiniteSet(1..s)
    BY <1>1, FS_Interval
  <2>2. old \in SUBSET (1..s)
    BY <1>2
  <2> QED BY <2>1, <2>2, FS_Subset, FS_CardinalityType
<1> HIDE DEF s, old
<1>4. CASE l.k \in K
  <2>1. LinesIn(K)' = old \cup {s + 1} /\ s + 1 \notin old
    BY <1>1, <1>2, <1>4
  <2>2. Cardinality(LinesIn(K)') = Cardinality(old) + 1
    BY <1>3, <2>1, FS_AddElement
  <2> QED BY <1>3, <1>4, <2>2 DEF old
<1>5. CASE l.k \notin K
  <2>1. LinesIn(K)' = old
    BY <1>1, <1>2, <1>5
  <2> QED BY <1>3, <1>5, <2>1 DEF old
<1> QED BY <1>4, <1>5

\* Before the first line nothing has been read and nothing is open.
LEMMA BodyInitial == AllocInit => BodyInv
<1> SUFFICES ASSUME AllocInit PROVE BodyInv
  OBVIOUS
<1>1. body = <<>> /\ nest = <<>> /\ pos = 1 /\ conds = <<>> /\ phase = "read"
  BY DEF AllocInit
<1>2. Followed
  <2> DEFINE f == [k \in 0..0 |-> <<>>]
  <2>1. Len(body) = 0 /\ 0..0 = {0} /\ 1..0 = {}
    BY <1>1
  <2>2. Opened(<<>>)
    BY DEF Opened
  <2>3. DOMAIN f = 0..0 /\ f[0] = <<>> /\ \A k \in 0..0 : f[k] = <<>>
    OBVIOUS
  <2> HIDE DEF f
  <2>4. TraceOf(f, body, nest)
    BY <1>1, <2>1, <2>2, <2>3 DEF TraceOf
  <2>5. pos - 1 = 0 /\ Matches(conds, f[0])
    BY <1>1, <2>3 DEF Matches
  <2> QED BY <2>1, <2>4, <2>5 DEF Followed
<1>3. Balanced
  <2>1. LinesIn({"O"}) = {} /\ LinesIn({"COND"}) = {} /\ Pending(nest) = {}
    BY <1>1 DEF LinesIn, Pending
  <2>2. Cardinality({}) = 0
    BY FS_EmptySet
  <2> QED BY <2>1, <2>2 DEF Balanced
<1> QED BY <1>1, <1>2, <1>3 DEF BodyInv

\* Reading keeps the invariant.
LEMMA ReadKeepsBody ==
    ASSUME AllocTypeOK, BodyInv, NEW l \in Lines, ReadLine(l) PROVE BodyInv'
<1> SUFFICES ASSUME phase' # "dead" PROVE BodyInv'
  BY DEF BodyInv
<1>1. /\ Reads(l, nest, nest') /\ body' = Append(body, l)
      /\ phase = "read" /\ phase' = phase /\ pos' = pos /\ conds' = conds
  BY ReadLineReads
<1>2. body \in Seq(Lines) /\ Followed /\ Balanced /\ pos = 1
  BY <1>1 DEF AllocTypeOK, BodyInv
<1>3. Followed'
  <2>1. PICK f : TraceOf(f, body, nest) /\ pos - 1 \in 0..Len(body) /\ Matches(conds, f[pos - 1])
    BY <1>2 DEF Followed
  <2> DEFINE g == [k \in 0..(Len(body) + 1) |-> IF k <= Len(body) THEN f[k] ELSE nest']
  <2>2. TraceOf(g, Append(body, l), nest') /\ \A k \in 0..Len(body) : g[k] = f[k]
    BY <1>1, <1>2, <2>1, TraceGrows
  <2> HIDE DEF g
  <2>3. Len(body') = Len(body) + 1 /\ Len(body) \in Nat
    BY <1>1, <1>2
  <2>4. pos' - 1 \in 0..Len(body') /\ g[pos' - 1] = f[pos - 1]
    BY <1>1, <1>2, <2>1, <2>2, <2>3
  <2>5. TraceOf(g, body', nest') /\ pos' - 1 \in 0..Len(body') /\ Matches(conds', g[pos' - 1])
    BY <1>1, <2>1, <2>2, <2>4
  <2> QED BY <2>5 DEF Followed
<1>4. Balanced'
  <2>1. Opened(nest)
    <3>1. PICK f : TraceOf(f, body, nest)
      BY <1>2 DEF Followed
    <3>2. Len(body) \in 0..Len(body)
      BY <1>2
    <3> QED BY <3>1, <3>2 DEF TraceOf
  <2>2. Opened(nest')
    BY <1>1, <2>1, ReadsOpened
  <2> DEFINE o == Cardinality(LinesIn({"O"}))
             c == Cardinality(LinesIn({"COND"}))
             p == Cardinality(Pending(nest))
  <2>3. o \in Nat /\ o' = o + (IF l.k \in {"O"} THEN 1 ELSE 0)
    BY <1>1, <1>2, LinesGrow
  <2>4. c \in Nat /\ c' = c + (IF l.k \in {"COND"} THEN 1 ELSE 0)
    BY <1>1, <1>2, LinesGrow
  <2>5. p \in Nat /\ Cardinality(Pending(nest')) \in Nat
    BY <2>1, <2>2, PendingFinite DEF Opened
  <2>6. Cardinality(Pending(nest')) = p + (IF l.k = "COND" THEN 3 ELSE IF l.k = "O" THEN -1 ELSE 0)
    BY <1>1, <2>1, PendingStep
  <2>7. o + p = 3 * c
    BY <1>2 DEF Balanced
  <2>8. Pending(nest)' = Pending(nest')
    BY DEF Pending, At
  <2> HIDE DEF o, c, p
  <2>9. o' + Cardinality(Pending(nest')) = 3 * c'
    BY <2>3, <2>4, <2>5, <2>6, <2>7
  <2> QED BY <2>8, <2>9 DEF Balanced, o, c
<1> QED BY <1>1, <1>2, <1>3, <1>4 DEF BodyInv

\* A pass that takes its line is where the reader was after that line.
LEMMA PassKeepsBody ==
    ASSUME AllocTypeOK, BodyInv, phase \in {"alloc", "count"}, phase' = phase,
           pos <= Len(body), conds' = CondsAfter(body[pos]), pos' = pos + 1, UNCHANGED <<body, nest>>
    PROVE  BodyInv'
<1>1. PICK f : TraceOf(f, body, nest) /\ pos - 1 \in 0..Len(body) /\ Matches(conds, f[pos - 1])
  BY DEF BodyInv, Followed
<1>2. pos \in 1..Len(body) /\ body[pos] \in Lines /\ conds \in Seq(Open1) /\ pos - 1 \in 0..Len(body)
      /\ pos \in 0..Len(body) /\ (pos + 1) - 1 = pos
  BY <1>1 DEF AllocTypeOK, Open1
<1>3. Opened(f[pos - 1]) /\ Reads(body[pos], f[pos - 1], f[pos])
  BY <1>1, <1>2 DEF TraceOf
<1>4. Matches(CondsAfter(body[pos]), f[pos])
  BY <1>1, <1>2, <1>3, ReadsMatches
<1>5. TraceOf(f, body', nest') /\ pos' - 1 \in 0..Len(body') /\ Matches(conds', f[pos' - 1])
  BY <1>1, <1>2, <1>4
<1>6. Followed'
  BY <1>5 DEF Followed
<1>7. Balanced'
  BY DEF BodyInv, Balanced, LinesIn, Pending, At
<1> QED BY <1>6, <1>7 DEF BodyInv

\* At the end of a pass no COND is open.
LEMMA PassEnds ==
    ASSUME AllocTypeOK, BodyInv, phase \notin {"read", "dead"}, pos > Len(body)
    PROVE  conds = <<>>
<1>1. PICK f : TraceOf(f, body, nest) /\ pos - 1 \in 0..Len(body) /\ Matches(conds, f[pos - 1])
  BY DEF BodyInv, Followed
<1>2. pos - 1 = Len(body)
  BY <1>1 DEF AllocTypeOK
<1>3. f[pos - 1] = <<>>
  BY <1>1, <1>2 DEF TraceOf, BodyInv
<1> QED BY <1>1, <1>3 DEF Matches

\* The next pass starts with the first line and no COND open.
LEMMA PhaseKeepsBody ==
    ASSUME AllocTypeOK, BodyInv, PhaseStep PROVE BodyInv'
<1> SUFFICES ASSUME phase' # "dead" PROVE BodyInv'
  BY DEF BodyInv
<1>1. /\ phase \in {"read", "alloc", "count"} /\ phase' \in {"alloc", "count", "emit"}
      /\ UNCHANGED <<body, nest, conds, locs>> /\ nest = <<>>
  BY DEF PhaseStep, ReadEof, ReadEnd, AllocateDone, CountDone, Dead, BodyInv
<1>2. pos' = 1 /\ conds = <<>>
  <2>1. CASE ReadEnd
    <3>1. pos = 1 /\ pos' = pos /\ phase = "read" /\ Followed
      BY <2>1 DEF ReadEnd, BodyInv
    <3>2. PICK f : TraceOf(f, body, nest) /\ Matches(conds, f[pos - 1])
      BY <3>1 DEF Followed
    <3>3. f[pos - 1] = <<>>
      BY <3>1, <3>2 DEF TraceOf
    <3> QED BY <3>1, <3>2, <3>3 DEF Matches
  <2>2. CASE AllocateDone \/ CountDone
    <3>1. pos' = 1 /\ pos > Len(body) /\ phase \notin {"read", "dead"}
      BY <2>2 DEF AllocateDone, CountDone
    <3> QED BY <3>1, PassEnds
  <2> QED BY <2>1, <2>2 DEF PhaseStep, ReadEof, Dead
<1>3. Followed'
  <2>1. PICK f : TraceOf(f, body, nest)
    BY <1>1 DEF BodyInv, Followed
  <2>2. f[0] = <<>> /\ 0 \in 0..Len(body)
    BY <2>1 DEF TraceOf, AllocTypeOK
  <2>3. TraceOf(f, body', nest') /\ pos' - 1 \in 0..Len(body') /\ Matches(conds', f[pos' - 1])
    BY <1>1, <1>2, <2>1, <2>2 DEF Matches
  <2> QED BY <2>3 DEF Followed
<1>4. Balanced'
  BY <1>1 DEF BodyInv, Balanced, LinesIn, Pending, At
<1> QED BY <1>1, <1>2, <1>3, <1>4 DEF BodyInv

\* The reader's nesting is followed in every state.
THEOREM BodyInvariant == AllocSpec => []BodyInv
<1>1. AllocTypeOK /\ BodyInv /\ [AllocNext]_allocVars => BodyInv'
  <2> SUFFICES ASSUME AllocTypeOK, BodyInv, [AllocNext]_allocVars PROVE BodyInv'
    OBVIOUS
  <2>1. ASSUME NEW l \in Lines, ReadLine(l) PROVE BodyInv'
    BY <2>1, ReadKeepsBody
  <2>2. CASE PhaseStep
    BY <2>2, PhaseKeepsBody
  <2>3. CASE AllocateLine
    BY <2>3, PassKeepsBody DEF AllocateLine
  <2>4. CASE CountLine
    <3>1. CASE Dead
      BY <3>1 DEF Dead, BodyInv
    <3>2. CASE ~Dead
      BY <2>4, <3>2, PassKeepsBody DEF CountLine
    <3> QED BY <3>1, <3>2
  <2>5. CASE UNCHANGED allocVars
    BY <2>5 DEF allocVars, BodyInv, Followed, Balanced, LinesIn, Pending, At
  <2> QED BY <2>1, <2>2, <2>3, <2>4, <2>5 DEF AllocNext, PhaseStep
<1> QED BY <1>1, BodyInitial, AllocTypeCorrect, PTL DEF AllocSpec

\* What hcc-m1 accepts as a function is a list of blocks, each ended by its one
\* terminator, with the three lists of every COND closed; and a pass over it
\* ends with no COND open (parse_ir_function, allocate_instrs).
THEOREM AllocWholeFunction == AllocSpec => []WholeFunction
<1>1. ASSUME AllocTypeOK, BodyInv, phase \notin {"read", "dead"} PROVE WholeFunction
  <2> DEFINE s == Len(body)
  <2>1. s \in Nat /\ DOMAIN body = 1..s /\ nest = <<>> /\ Balanced /\ Followed
    BY <1>1 DEF AllocTypeOK, BodyInv
  <2>2. PICK f : TraceOf(f, body, nest)
    BY <2>1 DEF Followed
  <2>3. /\ f[0] = <<>> /\ f[s] = <<>> /\ \A k \in 0..s : Opened(f[k])
        /\ \A k \in 1..s : Reads(body[k], f[k - 1], f[k])
    BY <2>1, <2>2 DEF TraceOf
  <2> HIDE DEF s
  <2>4. ASSUME NEW k \in 1..s
        PROVE  (body[k].k = "L" <=> f[k - 1] = <<>>) /\ (body[k].k \in TermKinds <=> f[k] = <<>>)
    <3>1. k - 1 \in 0..s
      BY <2>1
    <3> QED BY <2>3, <3>1, ReadsOpened
  <2>5. \A i \in DOMAIN body : body[i].k = "L" <=> i = 1 \/ body[i - 1].k \in TermKinds
    <3> SUFFICES ASSUME NEW i \in 1..s
                 PROVE  body[i].k = "L" <=> i = 1 \/ body[i - 1].k \in TermKinds
      BY <2>1
    <3>1. CASE i = 1
      <4>1. i - 1 = 0
        BY <3>1
      <4> QED BY <2>3, <2>4, <3>1, <4>1
    <3>2. CASE i # 1
      <4>1. i - 1 \in 1..s
        BY <2>1, <3>2
      <4> QED BY <2>4, <3>2, <4>1
    <3> QED BY <3>1, <3>2
  <2>6. body # <<>> => body[Len(body)].k \in TermKinds
    <3> SUFFICES ASSUME body # <<>> PROVE body[s].k \in TermKinds
      BY DEF s
    <3>1. s \in 1..s
      BY <1>1, <2>1 DEF s, AllocTypeOK
    <3> QED BY <2>3, <2>4, <3>1
  <2>7. Cardinality(LinesIn({"O"})) = 3 * Cardinality(LinesIn({"COND"}))
    <3>1. Pending(nest) = {} /\ Cardinality({}) = 0
      BY <2>1, FS_EmptySet DEF Pending
    <3>2. Cardinality(LinesIn({"O"})) + 0 = 3 * Cardinality(LinesIn({"COND"}))
      BY <2>1, <3>1 DEF Balanced
    <3>3. IsFiniteSet(LinesIn({"O"}))
      <4>1. LinesIn({"O"}) \in SUBSET (1..s) /\ IsFiniteSet(1..s)
        BY <2>1, FS_Interval DEF LinesIn
      <4> QED BY <4>1, FS_Subset
    <3>4. Cardinality(LinesIn({"O"})) \in Nat
      BY <3>3, FS_CardinalityType
    <3> QED BY <3>2, <3>4
  <2>8. pos > Len(body) => conds = <<>>
    BY <1>1, PassEnds
  <2> QED BY <2>5, <2>6, <2>7, <2>8 DEF WholeFunction
<1>2. AllocTypeOK /\ BodyInv => WholeFunction
  BY <1>1 DEF WholeFunction
<1> QED BY <1>2, BodyInvariant, AllocTypeCorrect, PTL

(***************************************************************************)
(* What hcc-m1 knows of the temps of a function when it starts to emit it: *)
(* which have a place, and how many operands read each.  A temp gets its   *)
(* place at its definition, the temp of a COND at the end of the COND; the *)
(* uses counted so far are the places that name the temp in the lines the  *)
(* pass has seen.                                                          *)
(***************************************************************************)

(***************************************************************************)
(* The temps with a place.                                                 *)
(***************************************************************************)
DefKinds == {"ALLOCA", "COND"} \cup ValueKinds \cup CallKinds

\* The temps that the lines before line p define.
DefinedTo(p) == {body[i].t : i \in {k \in DOMAIN body : k < p /\ body[k].k \in DefKinds}} \ {NoTemp}

\* The temps of the open CONDs.
CondTemps(c) == {c[i].t : i \in DOMAIN c}

Placed ==
    /\ phase = "read" => \A t \in Temps : ~Allocated(t)
    /\ phase = "alloc" =>
           \A t \in Temps : Allocated(t) \/ t \in CondTemps(conds) <=> t \in DefinedTo(pos)
    /\ phase \in {"count", "emit"} => \A t \in Temps : Allocated(t) <=> t \in Defined

\* At the end of the body every defined temp has been met.
LEMMA DefinedAll == pos > Len(body) /\ body \in Seq(Lines) /\ pos \in Nat => DefinedTo(pos) = Defined
BY DEF DefinedTo, Defined, DefKinds

\* A line adds the temp it defines.
LEMMA DefinedNext ==
    ASSUME AllocTypeOK, pos <= Len(body)
    PROVE  DefinedTo(pos + 1) =
             DefinedTo(pos) \cup (IF body[pos].k \in DefKinds THEN {body[pos].t} \ {NoTemp} ELSE {})
<1>1. pos \in DOMAIN body /\ \A k \in DOMAIN body : k < pos + 1 <=> k < pos \/ k = pos
  BY DEF AllocTypeOK
<1>2. ~(pos < pos)
  BY DEF AllocTypeOK
<1> QED BY <1>1, <1>2 DEF DefinedTo

\* A pass that opens a COND remembers its temp and forgets it when it is closed.
LEMMA CondTempsNext ==
    ASSUME NEW l \in Lines, conds \in Seq(Open1)
    PROVE  /\ l.k = "COND" => CondTemps(CondsAfter(l)) = CondTemps(conds) \cup {l.t}
           /\ ClosesCond(l) => CondTemps(conds) = CondTemps(CondsAfter(l)) \cup {Head(conds).t}
           /\ l.k # "COND" /\ ~ClosesCond(l) => CondTemps(CondsAfter(l)) = CondTemps(conds)
<1>1. Len(conds) \in Nat /\ DOMAIN conds = 1..Len(conds) /\ (conds = <<>> <=> Len(conds) = 0)
  OBVIOUS
<1>2. ASSUME l.k = "COND" PROVE CondTemps(CondsAfter(l)) = CondTemps(conds) \cup {l.t}
  <2> DEFINE c == [t |-> l.t, arm |-> "cond"]
             after == <<c>> \o conds
  <2>1. c \in Open1 /\ c.t = l.t
    BY <1>2, LinesAssumption DEF Open1, Arms
  <2>2. CondsAfter(l) = after
    BY <1>2 DEF CondsAfter
  <2> HIDE DEF c
  <2>3. /\ after \in Seq(Open1) /\ Len(after) = Len(conds) + 1 /\ after[1] = c
        /\ \A i \in 1..Len(conds) : after[i + 1] = conds[i]
    BY <2>1, StackItems
  <2> HIDE DEF after
  <2>4. /\ 1 \in DOMAIN after
        /\ \A i \in DOMAIN conds : i + 1 \in DOMAIN after
        /\ \A i \in DOMAIN after : i # 1 => i - 1 \in DOMAIN conds /\ after[i] = conds[i - 1]
    <3>1. DOMAIN after = 1..(Len(conds) + 1)
      BY <2>3
    <3>2. ASSUME NEW i \in DOMAIN after, i # 1 PROVE i - 1 \in DOMAIN conds /\ after[i] = conds[i - 1]
      <4>1. i - 1 \in 1..Len(conds) /\ (i - 1) + 1 = i
        BY <1>1, <3>1, <3>2
      <4> QED BY <1>1, <2>3, <4>1
    <3> QED BY <1>1, <3>1, <3>2
  <2>5. ASSUME NEW t PROVE t \in CondTemps(after) <=> t \in CondTemps(conds) \/ t = l.t
    <3>1. t \in CondTemps(after) => t \in CondTemps(conds) \/ t = l.t
      BY <2>1, <2>3, <2>4 DEF CondTemps
    <3>2. t = l.t => t \in CondTemps(after)
      BY <2>1, <2>3, <2>4 DEF CondTemps
    <3>3. ASSUME NEW i \in DOMAIN conds PROVE conds[i].t \in CondTemps(after)
      BY <1>1, <2>3, <2>4 DEF CondTemps
    <3> QED BY <3>1, <3>2, <3>3 DEF CondTemps
  <2> QED BY <2>2, <2>5
<1>3. ASSUME l.k = "O", conds # <<>>
      PROVE  /\ Head(conds).arm = "false" => CondTemps(conds) = CondTemps(CondsAfter(l)) \cup {Head(conds).t}
             /\ Head(conds).arm # "false" => CondTemps(CondsAfter(l)) = CondTemps(conds)
  <2>1. Head(conds) = conds[1] /\ Head(conds) \in Open1 /\ 1 \in DOMAIN conds
    BY <1>1, <1>3, StackOps
  <2>2. CASE Head(conds).arm = "false"
    <3> DEFINE after == Tail(conds)
    <3>1. CondsAfter(l) = after
      BY <1>3, <2>2 DEF CondsAfter
    <3>2. /\ after \in Seq(Open1) /\ Len(after) = Len(conds) - 1
          /\ \A i \in 1..Len(after) : after[i] = conds[i + 1]
      BY <1>3, StackItems
    <3> HIDE DEF after
    <3>3. DOMAIN after = 1..(Len(conds) - 1)
      BY <3>2
    <3>4. ASSUME NEW i \in DOMAIN conds, i # 1 PROVE conds[i].t \in CondTemps(after)
      <4>1. i - 1 \in DOMAIN after /\ (i - 1) + 1 = i
        BY <1>1, <3>3, <3>4
      <4>2. after[i - 1] = conds[i]
        BY <3>2, <3>3, <4>1
      <4> QED BY <4>1, <4>2 DEF CondTemps
    <3>5. ASSUME NEW i \in DOMAIN after PROVE after[i].t \in CondTemps(conds)
      <4>1. i + 1 \in DOMAIN conds /\ after[i] = conds[i + 1]
        BY <1>1, <3>2, <3>3
      <4> QED BY <4>1 DEF CondTemps
    <3>6. CondTemps(conds) \subseteq CondTemps(after) \cup {conds[1].t}
      BY <3>4 DEF CondTemps
    <3>7. CondTemps(after) \cup {conds[1].t} \subseteq CondTemps(conds)
      BY <2>1, <3>5 DEF CondTemps
    <3> QED BY <2>1, <2>2, <3>1, <3>6, <3>7
  <2>3. CASE Head(conds).arm # "false"
    <3> DEFINE h == [Head(conds) EXCEPT !.arm = NextArm(@)]
               after == <<h>> \o Tail(conds)
    <3>1. CondsAfter(l) = after
      BY <1>3, <2>3 DEF CondsAfter
    <3>2. h \in Open1 /\ h.t = conds[1].t
      BY <2>1 DEF Open1, NextArm, Arms
    <3> HIDE DEF h
    <3>3. /\ after \in Seq(Open1) /\ Len(after) = Len(conds) /\ after[1] = h
          /\ \A i \in 2..Len(conds) : after[i] = conds[i]
      BY <1>3, <3>2, StackItems
    <3> HIDE DEF after
    <3>4. DOMAIN after = DOMAIN conds /\ \A i \in DOMAIN conds : after[i].t = conds[i].t
      <4>1. DOMAIN after = 1..Len(conds)
        BY <3>3
      <4>2. \A i \in 1..Len(conds) : i = 1 \/ i \in 2..Len(conds)
        BY <1>1
      <4> QED BY <1>1, <3>2, <3>3, <4>1, <4>2
    <3> QED BY <2>3, <3>1, <3>4 DEF CondTemps
  <2> QED BY <2>2, <2>3
<1>4. CASE l.k # "COND" /\ (l.k # "O" \/ conds = <<>>)
  BY <1>4 DEF CondsAfter, ClosesCond
<1>5. CASE l.k = "O" /\ conds # <<>>
  BY <1>3, <1>5 DEF ClosesCond
<1>6. CASE l.k = "COND"
  BY <1>2, <1>6 DEF ClosesCond
<1> QED BY <1>4, <1>5, <1>6

\* The temps with a place after a line of the allocating pass.
LEMMA AllocatedNext ==
    ASSUME AllocTypeOK, AllocateLine
    PROVE  LET l == body[pos]
               t == IF l.k = "ALLOCA" THEN l.t ELSE ScalarDef(l)
           IN  /\ t # NoTemp => t \in Temps
               /\ \A u \in Temps : Allocated(u)' <=> Allocated(u) \/ u = t
<1> DEFINE l == body[pos]
           t == IF l.k = "ALLOCA" THEN l.t ELSE ScalarDef(l)
<1>1. l \in Lines /\ conds \in Seq([t : Temps, arm : Arms]) /\ locs \in [Temps -> Locs]
  BY DEF AllocTypeOK, AllocateLine
<1>2. ASSUME NEW u \in Temps, NEW kind \in {"STACK", "OBJECT"}, NEW slots, Allocate(u, kind, slots)
      PROVE  \A v \in Temps : Allocated(v)' <=> Allocated(v) \/ v = u
  <2>1. CASE locs[u].kind # "NONE"
    BY <1>2, <2>1 DEF Allocate, Allocated
  <2>2. CASE locs[u].kind = "NONE"
    <3>1. locs' = [locs EXCEPT ![u] = NewLoc(kind, slots)]
      BY <1>2, <2>2 DEF Allocate
    <3>2. NewLoc(kind, slots).kind # "NONE"
      BY DEF NewLoc
    <3> QED BY <1>1, <3>1, <3>2 DEF Allocated
  <2> QED BY <2>1, <2>2
<1>3. CASE l.k = "ALLOCA"
  <2>1. l.t \in Temps /\ Allocate(l.t, "OBJECT", ObjectSlots(l.n))
    BY <1>1, <1>3, LinesAssumption DEF AllocateLine, alloc_object
  <2> QED BY <1>2, <1>3, <2>1
<1>4. CASE l.k # "ALLOCA" /\ ScalarDef(l) # NoTemp
  <2>1. ScalarDef(l) \in Temps /\ Allocate(ScalarDef(l), "STACK", 1)
    BY <1>1, <1>4, ScalarDefType DEF AllocateLine, alloc_def
  <2> QED BY <1>2, <1>4, <2>1
<1>5. CASE l.k # "ALLOCA" /\ ScalarDef(l) = NoTemp
  <2>1. locs' = locs
    BY <1>5 DEF AllocateLine
  <2>2. \A u \in Temps : u # NoTemp
    BY TempsAssumption DEF NoTemp
  <2> QED BY <1>5, <2>1, <2>2 DEF Allocated
<1> QED BY <1>3, <1>4, <1>5

\* A line that is allocated.
LEMMA AllocateKeepsPlaced ==
    ASSUME AllocTypeOK, Placed, AllocateLine PROVE Placed'
<1> DEFINE l == body[pos]
           t == IF l.k = "ALLOCA" THEN l.t ELSE ScalarDef(l)
<1>1. /\ phase = "alloc" /\ phase' = phase /\ pos' = pos + 1 /\ body' = body /\ pos <= Len(body)
      /\ conds' = CondsAfter(l) /\ conds \in Seq(Open1) /\ l \in Lines
  BY DEF AllocateLine, AllocTypeOK, Open1
<1>2. \A u \in Temps : Allocated(u)' <=> Allocated(u) \/ u = t
  BY AllocatedNext
<1>3. DefinedTo(pos)' = DefinedTo(pos) \cup (IF l.k \in DefKinds THEN {l.t} \ {NoTemp} ELSE {})
  <2>1. DefinedTo(pos)' = DefinedTo(pos + 1)
    BY <1>1 DEF DefinedTo
  <2> QED BY <1>1, <2>1, DefinedNext
<1>4. \A u \in Temps : u # NoTemp
  BY TempsAssumption DEF NoTemp
<1>5. ASSUME NEW u \in Temps
      PROVE  Allocated(u)' \/ u \in CondTemps(conds') <=> u \in DefinedTo(pos)'
  <2>1. Allocated(u) \/ u \in CondTemps(conds) <=> u \in DefinedTo(pos)
    BY <1>1 DEF Placed
  <2>2. CASE l.k = "COND"
    <3>1. t = NoTemp
      BY <2>2 DEF ScalarDef, ClosesCond, instr_def_temp, ValueKinds, CallKinds
    <3>2. CondTemps(conds') = CondTemps(conds) \cup {l.t}
      BY <1>1, <2>2, CondTempsNext
    <3>3. l.k \in DefKinds
      BY <2>2 DEF DefKinds
    <3> QED BY <1>2, <1>3, <1>4, <2>1, <3>1, <3>2, <3>3
  <2>3. CASE ClosesCond(l)
    <3>1. l.k = "O" /\ t = Head(conds).t
      BY <2>3 DEF ScalarDef, ClosesCond
    <3>2. CondTemps(conds) = CondTemps(conds') \cup {t}
      BY <1>1, <2>3, <3>1, CondTempsNext
    <3>3. l.k \notin DefKinds
      BY <3>1 DEF DefKinds, ValueKinds, CallKinds
    <3> HIDE DEF t
    <3> QED BY <1>2, <1>3, <2>1, <3>2, <3>3
  <2>4. CASE l.k # "COND" /\ ~ClosesCond(l)
    <3>1. CondTemps(conds') = CondTemps(conds)
      BY <1>1, <2>4, CondTempsNext
    <3>2. CASE l.k \in DefKinds
      <4>1. t = l.t
        BY <2>4, <3>2 DEF ScalarDef, instr_def_temp, DefKinds
      <4> QED BY <1>2, <1>3, <1>4, <2>1, <3>1, <3>2, <4>1
    <3>3. CASE l.k \notin DefKinds
      <4>1. t = NoTemp
        BY <2>4, <3>3 DEF ScalarDef, instr_def_temp, DefKinds
      <4> QED BY <1>2, <1>3, <1>4, <2>1, <3>1, <3>3, <4>1
    <3> QED BY <3>2, <3>3
  <2> QED BY <2>2, <2>3, <2>4
<1> QED BY <1>1, <1>5 DEF Placed, CondTemps

\* Before the first line no COND is open.
LEMMA NoneOpenAtStart ==
    ASSUME AllocTypeOK, BodyInv, phase # "dead", pos = 1 PROVE conds = <<>>
<1>1. PICK f : TraceOf(f, body, nest) /\ pos - 1 \in 0..Len(body) /\ Matches(conds, f[pos - 1])
  BY DEF BodyInv, Followed
<1>2. f[pos - 1] = <<>>
  BY <1>1 DEF TraceOf
<1> QED BY <1>1, <1>2 DEF Matches

\* The steps from one phase to the next.
LEMMA PhaseKeepsPlaced ==
    ASSUME AllocTypeOK, BodyInv, Placed, PhaseStep PROVE Placed'
<1>1. CASE ReadEof
  BY <1>1 DEF ReadEof, Dead, Placed
<1>2. CASE ReadEnd
  <2>1. /\ phase = "read" /\ phase' = "alloc" /\ pos = 1 /\ UNCHANGED <<body, pos, conds, locs>>
    BY <1>2 DEF ReadEnd, BodyInv
  <2>2. conds = <<>> /\ CondTemps(conds) = {}
    BY <2>1, NoneOpenAtStart DEF CondTemps
  <2>3. DefinedTo(pos) = {}
    <3>1. \A k \in DOMAIN body : ~(k < 1)
      BY DEF AllocTypeOK
    <3> QED BY <2>1, <3>1 DEF DefinedTo
  <2>4. DefinedTo(pos)' = DefinedTo(pos) /\ CondTemps(conds)' = CondTemps(conds)
    BY <2>1 DEF DefinedTo, CondTemps
  <2> QED BY <2>1, <2>2, <2>3, <2>4 DEF Placed, Allocated
<1>3. CASE AllocateDone
  <2>1. /\ phase = "alloc" /\ phase' = "count" /\ pos > Len(body) /\ UNCHANGED <<body, conds, locs>>
    BY <1>3 DEF AllocateDone
  <2>2. CondTemps(conds) = {}
    <3>1. conds = <<>>
      BY <2>1, PassEnds
    <3> QED BY <3>1 DEF CondTemps
  <2>3. DefinedTo(pos) = Defined
    BY <2>1, DefinedAll DEF AllocTypeOK
  <2>4. Defined' = Defined
    BY <2>1 DEF Defined
  <2> QED BY <2>1, <2>2, <2>3, <2>4 DEF Placed, Allocated
<1>4. CASE CountDone
  BY <1>4 DEF CountDone, Placed, Allocated, Defined
<1> QED BY <1>1, <1>2, <1>3, <1>4 DEF PhaseStep

\* allocate_function gives a place to the temps that the lines so far define, those of
\* the open CONDs last, so that "missing allocation" is said of undefined temps only.
THEOREM PlacedInvariant == AllocSpec => []Placed
<1>1. AllocInit => Placed
  BY DEF AllocInit, Placed, Allocated, LocNone
<1>2. AllocTypeOK /\ BodyInv /\ Placed /\ [AllocNext]_allocVars => Placed'
  <2> SUFFICES ASSUME AllocTypeOK, BodyInv, Placed, [AllocNext]_allocVars PROVE Placed'
    OBVIOUS
  <2>1. ASSUME NEW l \in Lines, ReadLine(l) PROVE Placed'
    <3>1. phase = "read" /\ phase' \in {"read", "dead"} /\ locs' = locs
      BY <2>1, ReadLineReads, ReadLineType DEF ReadLine
    <3> QED BY <3>1 DEF Placed, Allocated
  <2>2. CASE PhaseStep
    BY <2>2, PhaseKeepsPlaced
  <2>3. CASE AllocateLine
    BY <2>3, AllocateKeepsPlaced
  <2>4. CASE CountLine
    <3>1. \A t \in Temps : locs'[t].kind = locs[t].kind
      BY <2>4, CountLineLocs
    <3>2. phase = "count" /\ (phase' = "count" \/ phase' = "dead") /\ body' = body
      BY <2>4 DEF CountLine, Dead
    <3> QED BY <3>1, <3>2 DEF Placed, Allocated, Defined
  <2>5. CASE UNCHANGED allocVars
    BY <2>5 DEF allocVars, Placed, Allocated, Defined, DefinedTo, CondTemps
  <2> QED BY <2>1, <2>2, <2>3, <2>4, <2>5 DEF AllocNext, PhaseStep
<1> QED BY <1>1, <1>2, AllocTypeCorrect, BodyInvariant, PTL DEF AllocSpec

(***************************************************************************)
(* The uses.                                                               *)
(***************************************************************************)
\* The places of one line that name t other than to define it.
FieldNames(l, t) == {x \in {"a", "b", "c"} : x \in DOMAIN l /\ l[x] = OTemp(t)}
ArgPlaces(l, t) == IF l.k \in CallKinds THEN {j \in DOMAIN l.args : l.args[j] = OTemp(t)} ELSE {}
AddressOf(l, t) == IF l.k = "ADDROF" /\ l.u = t THEN 1 ELSE 0
PlacesIn(l, t) == Cardinality(FieldNames(l, t)) + AddressOf(l, t) + Cardinality(ArgPlaces(l, t))
TimesIn(l, t) == {i \in DOMAIN CountedOperands(l) : CountedOperands(l)[i] = OTemp(t)}

\* A line names a temp in at most three fields.
LEMMA FieldNamesFinite ==
    ASSUME NEW l, NEW t
    PROVE  IsFiniteSet(FieldNames(l, t)) /\ Cardinality(FieldNames(l, t)) \in Nat
<1>1. IsFiniteSet({"a", "b", "c"})
  <2>1. {"a", "b", "c"} = (({} \cup {"a"}) \cup {"b"}) \cup {"c"}
    OBVIOUS
  <2>2. IsFiniteSet((({} \cup {"a"}) \cup {"b"}) \cup {"c"})
    <3>1. IsFiniteSet({} \cup {"a"})
      BY FS_EmptySet, FS_AddElement
    <3>2. IsFiniteSet(({} \cup {"a"}) \cup {"b"})
      BY <3>1, FS_AddElement
    <3> QED BY <3>2, FS_AddElement
  <2> QED BY <2>1, <2>2
<1>2. FieldNames(l, t) \in SUBSET {"a", "b", "c"}
  BY DEF FieldNames
<1> QED BY <1>1, <1>2, FS_Subset, FS_CardinalityType

\* A line names a temp in at most as many arguments as it has.
LEMMA ArgPlacesFinite ==
    ASSUME NEW l \in Lines, NEW t
    PROVE  IsFiniteSet(ArgPlaces(l, t)) /\ Cardinality(ArgPlaces(l, t)) \in Nat
<1>1. CASE l.k \in CallKinds
  <2>1. l.args \in Seq(Operands)
    BY <1>1, LinesAssumption
  <2>2. DOMAIN l.args = 1..Len(l.args) /\ Len(l.args) \in Nat
    BY <2>1
  <2>3. IsFiniteSet(1..Len(l.args))
    <3>1. 1 \in Int /\ Len(l.args) \in Int
      BY <2>2
    <3> QED BY <3>1, FS_Interval
  <2>4. ArgPlaces(l, t) \in SUBSET (1..Len(l.args))
    BY <1>1, <2>2 DEF ArgPlaces
  <2> QED BY <2>3, <2>4, FS_Subset, FS_CardinalityType
<1>2. CASE l.k \notin CallKinds
  BY <1>2, FS_EmptySet DEF ArgPlaces
<1> QED BY <1>1, <1>2

\* count_instr_uses counts as many operands of a line as there are places.
LEMMA CountedAreThePlaces ==
    ASSUME NEW l \in Lines, NEW t
    PROVE  Cardinality(TimesIn(l, t)) = PlacesIn(l, t)
<1> DEFINE T == TimesIn(l, t)
           F == FieldNames(l, t)
           A == ArgPlaces(l, t)
           o == OTemp(t)
<1>1. /\ Cardinality({}) = 0 /\ IsFiniteSet({})
      /\ \A x : IsFiniteSet({x}) /\ Cardinality({x}) = 1
      /\ \A x, y : x # y => Cardinality({x, y}) = 2
  <2>1. \A x, y : x # y => Cardinality({x, y}) = 2
    <3> SUFFICES ASSUME NEW x, NEW y, x # y PROVE Cardinality({x, y}) = 2
      OBVIOUS
    <3>1. {x, y} = {x} \cup {y} /\ y \notin {x}
      OBVIOUS
    <3>2. IsFiniteSet({x}) /\ Cardinality({x}) = 1
      BY FS_Singleton
    <3>3. Cardinality({x} \cup {y}) = Cardinality({x}) + 1
      BY <3>1, <3>2, FS_AddElement
    <3> QED BY <3>1, <3>2, <3>3
  <2> QED BY <2>1, FS_EmptySet, FS_Singleton
<1>2. /\ "a" \in F <=> l.k \in {"COPY", "LOAD", "EXT", "O", "R", "B", "STORE", "BIN", "C"} /\ l.a = o
      /\ "b" \in F <=> l.k \in {"STORE", "BIN", "C"} /\ l.b = o
      /\ "c" \in F <=> l.k = "CALLI" /\ l.c = o
      /\ F \subseteq {"a", "b", "c"}
  BY LinesAssumption DEF FieldNames
<1>3. CASE l.k = "ADDROF"
  <2> DEFINE ops == <<OTemp(l.u)>>
  <2>1. CountedOperands(l) = ops /\ DOMAIN ops = {1} /\ ops[1] = OTemp(l.u)
    BY <1>3 DEF CountedOperands
  <2>2. OTemp(l.u) = o <=> l.u = t
    <3>1. OTemp(l.u).v = l.u /\ o.v = t
      BY DEF OTemp
    <3> QED BY <3>1
  <2>3. T = IF l.u = t THEN {1} ELSE {}
    BY <2>1, <2>2 DEF TimesIn
  <2>4. F = {} /\ A = {}
    BY <1>2, <1>3 DEF ArgPlaces, CallKinds
  <2>5. AddressOf(l, t) = IF l.u = t THEN 1 ELSE 0
    BY <1>3 DEF AddressOf
  <2>6. Cardinality(T) = AddressOf(l, t) /\ AddressOf(l, t) \in Nat
    <3> HIDE DEF T, F, A
    <3>1. CASE l.u = t
      <4>1. T = {1} /\ AddressOf(l, t) = 1
        BY <2>3, <2>5, <3>1
      <4>2. Cardinality({1}) = 1
        BY <1>1
      <4> QED BY <4>1, <4>2
    <3>2. CASE l.u # t
      <4>1. T = {} /\ AddressOf(l, t) = 0
        BY <2>3, <2>5, <3>2
      <4> QED BY <1>1, <4>1
    <3> QED BY <3>1, <3>2
  <2>7. Cardinality(F) = 0 /\ Cardinality(A) = 0
    <3> HIDE DEF T, F, A
    <3> QED BY <1>1, <2>4
  <2> HIDE DEF T, F, A
  <2> QED BY <2>6, <2>7 DEF PlacesIn, T, F, A
<1>4. CASE l.k \in {"COPY", "LOAD", "EXT", "O", "R", "B"}
  <2>1. CountedOperands(l) = <<l.a>>
    BY <1>4 DEF CountedOperands, OperandsOf
  <2>2. T = IF l.a = o THEN {1} ELSE {}
    BY <2>1 DEF TimesIn
  <2>3. F = (IF l.a = o THEN {"a"} ELSE {}) /\ A = {} /\ AddressOf(l, t) = 0
    BY <1>2, <1>4 DEF ArgPlaces, CallKinds, AddressOf
  <2>4. Cardinality(T) = Cardinality(F) /\ Cardinality(T) \in Nat /\ Cardinality(A) = 0
    <3> HIDE DEF T, F, A
    <3>1. CASE l.a = o
      <4>1. T = {1} /\ F = {"a"} /\ A = {}
        BY <2>2, <2>3, <3>1
      <4>2. Cardinality({1}) = 1 /\ Cardinality({"a"}) = 1
        BY <1>1
      <4> QED BY <1>1, <4>1, <4>2
    <3>2. CASE l.a # o
      <4>1. T = {} /\ F = {} /\ A = {}
        BY <2>2, <2>3, <3>2
      <4> QED BY <1>1, <4>1
    <3> QED BY <3>1, <3>2
  <2> HIDE DEF T, F, A
  <2> QED BY <2>3, <2>4 DEF PlacesIn, T, F, A
<1>5. CASE l.k \in {"STORE", "BIN", "C"}
  <2>1. CountedOperands(l) = <<l.a, l.b>>
    BY <1>5 DEF CountedOperands, OperandsOf
  <2>2. T = (IF l.a = o THEN {1} ELSE {}) \cup (IF l.b = o THEN {2} ELSE {})
    BY <2>1 DEF TimesIn
  <2>3. F = (IF l.a = o THEN {"a"} ELSE {}) \cup (IF l.b = o THEN {"b"} ELSE {})
    BY <1>2, <1>5
  <2>4. A = {} /\ AddressOf(l, t) = 0
    BY <1>5 DEF ArgPlaces, CallKinds, AddressOf
  <2>5. 1 # 2 /\ "a" # "b" /\ {1} \cup {2} = {1, 2} /\ {"a"} \cup {"b"} = {"a", "b"}
    OBVIOUS
  <2>6. Cardinality(T) = Cardinality(F) /\ Cardinality(T) \in Nat
    <3> HIDE DEF T, F
    <3>1. CASE l.a = o /\ l.b = o
      <4>1. T = {1, 2} /\ F = {"a", "b"}
        BY <2>2, <2>3, <2>5, <3>1
      <4>2. Cardinality({1, 2}) = 2 /\ Cardinality({"a", "b"}) = 2
        BY <1>1, <2>5
      <4> QED BY <4>1, <4>2
    <3>2. CASE l.a = o /\ l.b # o
      <4>1. T = {1} \cup {} /\ F = {"a"} \cup {}
        BY <2>2, <2>3, <3>2, Zenon
      <4>2. {1} \cup {} = {1} /\ {"a"} \cup {} = {"a"}
        OBVIOUS
      <4>3. T = {1} /\ F = {"a"}
        BY <4>1, <4>2, Zenon
      <4>4. Cardinality({1}) = 1 /\ Cardinality({"a"}) = 1
        BY <1>1
      <4> QED BY <4>3, <4>4
    <3>3. CASE l.a # o /\ l.b = o
      <4>1. T = {2} /\ F = {"b"}
        BY <2>2, <2>3, <3>3
      <4> QED BY <1>1, <4>1
    <3>4. CASE l.a # o /\ l.b # o
      <4>1. T = {} /\ F = {}
        BY <2>2, <2>3, <3>4
      <4> QED BY <1>1, <4>1
    <3> QED BY <3>1, <3>2, <3>3, <3>4
  <2> HIDE DEF T, F, A
  <2> QED BY <1>1, <2>4, <2>6 DEF PlacesIn, T, F, A
<1>6. CASE l.k = "CALL"
  <2>1. CountedOperands(l) = l.args
    BY <1>6 DEF CountedOperands, OperandsOf
  <2>2. T = A
    BY <1>6, <2>1 DEF TimesIn, ArgPlaces, CallKinds
  <2>3. F = {} /\ AddressOf(l, t) = 0
    BY <1>2, <1>6 DEF AddressOf
  <2>4. Cardinality(A) \in Nat
    BY ArgPlacesFinite
  <2> HIDE DEF T, F, A
  <2> QED BY <1>1, <2>2, <2>3, <2>4 DEF PlacesIn, T, F, A
<1>7. CASE l.k = "CALLI"
  <2> DEFINE ops == <<l.c>> \o l.args
             shift == [j \in A |-> j + 1]
             B == {j + 1 : j \in A}
  <2>1. CountedOperands(l) = ops /\ ops \in Seq(Operands)
    BY <1>7, LinesAssumption DEF CountedOperands, OperandsOf
  <2>2. l.args \in Seq(Operands) /\ A = {j \in DOMAIN l.args : l.args[j] = o}
    BY <1>7, LinesAssumption DEF CallKinds, ArgPlaces
  <2>3. DOMAIN ops = 1..(Len(l.args) + 1) /\ ops[1] = l.c /\ \A j \in 1..Len(l.args) : ops[j + 1] = l.args[j]
    <3> DEFINE S == Operands \cup {l.c}
    <3>1. l.args \in Seq(S) /\ l.c \in S
      BY <2>2
    <3> HIDE DEF S
    <3> QED BY <3>1, StackItems
  <2> HIDE DEF ops
  <2>4. Len(l.args) \in Nat /\ DOMAIN l.args = 1..Len(l.args)
    BY <2>2
  <2>5. T = (IF l.c = o THEN {1} ELSE {}) \cup B
    <3>1. \A i \in T : i = 1 \/ (i - 1 \in A /\ i = (i - 1) + 1)
      <4> SUFFICES ASSUME NEW i \in T, i # 1 PROVE i - 1 \in A /\ i = (i - 1) + 1
        OBVIOUS
      <4>1. i \in 1..(Len(l.args) + 1) /\ ops[i] = o
        BY <2>1, <2>3 DEF TimesIn
      <4>2. i - 1 \in 1..Len(l.args) /\ (i - 1) + 1 = i
        BY <2>4, <4>1
      <4> QED BY <2>2, <2>3, <2>4, <4>1, <4>2
    <3>2. \A j \in A : j + 1 \in T
      BY <2>1, <2>2, <2>3, <2>4 DEF TimesIn
    <3>3. 1 \in T <=> l.c = o
      BY <2>1, <2>3, <2>4 DEF TimesIn
    <3> HIDE DEF T, A
    <3> QED BY <3>1, <3>2, <3>3
  <2>6. A \subseteq Nat \ {0} /\ IsFiniteSet(A) /\ Cardinality(A) \in Nat
    <3>1. A \subseteq 1..Len(l.args)
      BY <2>2, <2>4
    <3>2. IsFiniteSet(A) /\ Cardinality(A) \in Nat
      BY ArgPlacesFinite
    <3> HIDE DEF A
    <3> QED BY <2>4, <3>1, <3>2
  <2> HIDE DEF A, T
  <2>7. IsFiniteSet(B) /\ Cardinality(B) = Cardinality(A) /\ 1 \notin B
    <3>1. shift \in Bijection(A, B)
      <4>1. shift \in [A -> B] /\ \A b \in B : \E j \in A : shift[j] = b
        OBVIOUS
      <4>2. \A i, j \in A : shift[i] = shift[j] => i = j
        BY <2>6
      <4> QED BY <4>1, <4>2, Fun_IsBij
    <3>2. ExistsBijection(A, B)
      BY <3>1 DEF ExistsBijection
    <3>3. 1 \notin B
      BY <2>6
    <3> QED BY <2>6, <3>2, <3>3, FS_Bijection
  <2>8. F = (IF l.c = o THEN {"c"} ELSE {}) /\ AddressOf(l, t) = 0
    BY <1>2, <1>7 DEF AddressOf
  <2> HIDE DEF B, F
  <2>9. CASE l.c = o
    <3>1. Cardinality(T) = Cardinality(A) + 1
      <4>1. T = B \cup {1}
        BY <2>5, <2>9
      <4> QED BY <2>7, <4>1, FS_AddElement
    <3>2. Cardinality(F) = 1
      BY <1>1, <2>8, <2>9
    <3> QED BY <2>6, <2>8, <3>1, <3>2 DEF PlacesIn, T, F, A
  <2>10. CASE l.c # o
    <3>1. T = B /\ F = {}
      BY <2>5, <2>8, <2>10
    <3> QED BY <1>1, <2>6, <2>7, <2>8, <3>1 DEF PlacesIn, T, F, A
  <2> QED BY <2>9, <2>10
<1>8. CASE l.k \notin {"ADDROF", "COPY", "LOAD", "EXT", "O", "R", "B", "STORE", "BIN", "C", "CALL", "CALLI"}
  <2>1. CountedOperands(l) = <<>>
    BY <1>8 DEF CountedOperands, OperandsOf
  <2>2. T = {} /\ A = {} /\ AddressOf(l, t) = 0
    BY <1>8, <2>1 DEF TimesIn, ArgPlaces, CallKinds, AddressOf
  <2>3. F = {}
    BY <1>2, <1>8
  <2> HIDE DEF T, F, A
  <2> QED BY <1>1, <2>2, <2>3 DEF PlacesIn, T, F, A
<1> QED BY <1>3, <1>4, <1>5, <1>6, <1>7, <1>8

(***************************************************************************)
(* The places that name a temp in the lines before line p.                 *)
(***************************************************************************)
FieldsTo(p, t) ==
    {q \in (DOMAIN body) \X {"a", "b", "c"} :
        q[1] < p /\ q[2] \in DOMAIN body[q[1]] /\ body[q[1]][q[2]] = OTemp(t)}
AddressedTo(p, t) == {i \in DOMAIN body : i < p /\ body[i].k = "ADDROF" /\ body[i].u = t}
ArgsTo(p, t) ==
    {q \in UNION {{i} \X DOMAIN body[i].args : i \in {k \in DOMAIN body : body[k].k \in CallKinds}} :
        q[1] < p /\ body[q[1]].args[q[2]] = OTemp(t)}

FinitePlaces(p, t) ==
    IsFiniteSet(FieldsTo(p, t)) /\ IsFiniteSet(AddressedTo(p, t)) /\ IsFiniteSet(ArgsTo(p, t))
MentionsTo(p, t) ==
    Cardinality(FieldsTo(p, t)) + Cardinality(AddressedTo(p, t)) + Cardinality(ArgsTo(p, t))

\* No use is counted before the pass that counts them; then those of the lines
\* seen so far; when it ends, those of the function.
Counted ==
    /\ phase \in {"read", "alloc"} => \A t \in Temps : locs[t].uses = 0
    /\ phase = "count" => \A t \in Temps : FinitePlaces(pos, t) /\ locs[t].uses = MentionsTo(pos, t)
    /\ phase = "emit" => \A t \in Temps : locs[t].uses = Mentions(t)

\* The places S of line p.
OfLine(p, S) == {p} \X S

\* A finite set of places in other lines and the places of one line.
LEMMA PlacesAdd ==
    ASSUME NEW P, IsFiniteSet(P), NEW p, NEW S, IsFiniteSet(S), P \cap OfLine(p, S) = {}
    PROVE  /\ IsFiniteSet(P \cup OfLine(p, S))
           /\ Cardinality(P \cup OfLine(p, S)) = Cardinality(P) + Cardinality(S)
<1> DEFINE Q == OfLine(p, S)
<1>1. IsFiniteSet({p}) /\ Cardinality({p}) = 1 /\ Cardinality(S) \in Nat /\ Cardinality(P) \in Nat
  BY FS_Singleton, FS_CardinalityType
<1>2. IsFiniteSet(Q) /\ Cardinality(Q) = Cardinality(S)
  <2>1. IsFiniteSet(Q) /\ Cardinality(Q) = Cardinality({p}) * Cardinality(S)
    BY <1>1, FS_Product DEF OfLine
  <2>2. 1 * Cardinality(S) = Cardinality(S)
    BY <1>1
  <2> QED BY <1>1, <2>1, <2>2
<1>3. Cardinality(P \cap Q) = 0
  BY FS_EmptySet
<1>4. /\ IsFiniteSet(P \cup Q)
      /\ Cardinality(P \cup Q) = Cardinality(P) + Cardinality(Q) - Cardinality(P \cap Q)
  BY <1>2, FS_Union
<1> QED BY <1>1, <1>2, <1>3, <1>4

\* A line adds its own places to those of the lines before it.
LEMMA MentionsNext ==
    ASSUME AllocTypeOK, pos <= Len(body), NEW t, FinitePlaces(pos, t)
    PROVE  FinitePlaces(pos + 1, t) /\ MentionsTo(pos + 1, t) = MentionsTo(pos, t) + PlacesIn(body[pos], t)
<1> DEFINE l == body[pos]
           F == FieldNames(l, t)
           A == ArgPlaces(l, t)
           D == IF l.k = "ADDROF" /\ l.u = t THEN {pos} ELSE {}
           FQ == OfLine(pos, F)
           AQ == OfLine(pos, A)
<1>1. /\ pos \in DOMAIN body /\ l \in Lines
      /\ \A k \in DOMAIN body : k < pos + 1 <=> k < pos \/ k = pos
      /\ ~(pos < pos)
  BY DEF AllocTypeOK
<1>2. /\ IsFiniteSet(F) /\ Cardinality(F) \in Nat /\ IsFiniteSet(A) /\ Cardinality(A) \in Nat
  BY <1>1, FieldNamesFinite, ArgPlacesFinite
<1>3. FieldsTo(pos + 1, t) = FieldsTo(pos, t) \cup FQ /\ FieldsTo(pos, t) \cap FQ = {}
  <2>1. \A q \in FieldsTo(pos + 1, t) : q \in FieldsTo(pos, t) \cup FQ
    BY <1>1 DEF FieldsTo, FieldNames, OfLine
  <2>2. \A q \in FieldsTo(pos, t) \cup FQ : q \in FieldsTo(pos + 1, t)
    BY <1>1 DEF FieldsTo, FieldNames, OfLine
  <2>3. \A q \in FieldsTo(pos, t) : q \notin FQ
    BY <1>1 DEF FieldsTo, OfLine
  <2> HIDE DEF F
  <2> QED BY <2>1, <2>2, <2>3
<1>4. AddressedTo(pos + 1, t) = AddressedTo(pos, t) \cup D /\ AddressedTo(pos, t) \cap D = {}
  BY <1>1 DEF AddressedTo
<1>5. ArgsTo(pos + 1, t) = ArgsTo(pos, t) \cup AQ /\ ArgsTo(pos, t) \cap AQ = {}
  <2>1. \A q \in ArgsTo(pos + 1, t) : q \in ArgsTo(pos, t) \cup AQ
    BY <1>1 DEF ArgsTo, ArgPlaces, OfLine
  <2>2. \A q \in ArgsTo(pos, t) \cup AQ : q \in ArgsTo(pos + 1, t)
    BY <1>1 DEF ArgsTo, ArgPlaces, OfLine
  <2>3. \A q \in ArgsTo(pos, t) : q \notin AQ
    BY <1>1 DEF ArgsTo, OfLine
  <2> HIDE DEF A
  <2> QED BY <2>1, <2>2, <2>3
<1>6. /\ IsFiniteSet(AddressedTo(pos + 1, t))
      /\ Cardinality(AddressedTo(pos + 1, t)) = Cardinality(AddressedTo(pos, t)) + AddressOf(l, t)
      /\ AddressOf(l, t) \in Nat /\ Cardinality(AddressedTo(pos, t)) \in Nat
  <2>1. IsFiniteSet(AddressedTo(pos, t)) /\ Cardinality(AddressedTo(pos, t)) \in Nat
    BY FS_CardinalityType DEF FinitePlaces
  <2>2. CASE l.k = "ADDROF" /\ l.u = t
    <3>1. AddressedTo(pos + 1, t) = AddressedTo(pos, t) \cup {pos} /\ pos \notin AddressedTo(pos, t)
      BY <1>4, <2>2
    <3>2. AddressOf(l, t) = 1
      BY <2>2 DEF AddressOf
    <3> QED BY <2>1, <3>1, <3>2, FS_AddElement
  <2>3. CASE ~(l.k = "ADDROF" /\ l.u = t)
    <3>1. AddressedTo(pos + 1, t) = AddressedTo(pos, t) /\ AddressOf(l, t) = 0
      BY <1>4, <2>3 DEF AddressOf
    <3> QED BY <2>1, <3>1
  <2> QED BY <2>2, <2>3
<1> HIDE DEF F, A, l, D
<1>7. /\ IsFiniteSet(FieldsTo(pos + 1, t))
      /\ Cardinality(FieldsTo(pos + 1, t)) = Cardinality(FieldsTo(pos, t)) + Cardinality(F)
  <2>1. IsFiniteSet(FieldsTo(pos, t))
    BY DEF FinitePlaces
  <2> DEFINE P == FieldsTo(pos, t)
  <2>2. IsFiniteSet(P) /\ IsFiniteSet(F) /\ P \cap OfLine(pos, F) = {}
    BY <1>2, <1>3, <2>1
  <2>3. FieldsTo(pos + 1, t) = P \cup OfLine(pos, F)
    BY <1>3
  <2> HIDE DEF P
  <2>4. IsFiniteSet(P \cup OfLine(pos, F)) /\ Cardinality(P \cup OfLine(pos, F)) = Cardinality(P) + Cardinality(F)
    BY <2>2, PlacesAdd
  <2> QED BY <2>3, <2>4 DEF P
<1>8. /\ IsFiniteSet(ArgsTo(pos + 1, t))
      /\ Cardinality(ArgsTo(pos + 1, t)) = Cardinality(ArgsTo(pos, t)) + Cardinality(A)
  <2>1. IsFiniteSet(ArgsTo(pos, t))
    BY DEF FinitePlaces
  <2> DEFINE P == ArgsTo(pos, t)
  <2>2. IsFiniteSet(P) /\ IsFiniteSet(A) /\ P \cap OfLine(pos, A) = {}
    BY <1>2, <1>5, <2>1
  <2>3. ArgsTo(pos + 1, t) = P \cup OfLine(pos, A)
    BY <1>5
  <2> HIDE DEF P
  <2>4. IsFiniteSet(P \cup OfLine(pos, A)) /\ Cardinality(P \cup OfLine(pos, A)) = Cardinality(P) + Cardinality(A)
    BY <2>2, PlacesAdd
  <2> QED BY <2>3, <2>4 DEF P
<1>9. Cardinality(FieldsTo(pos, t)) \in Nat /\ Cardinality(ArgsTo(pos, t)) \in Nat
  BY FS_CardinalityType DEF FinitePlaces
<1>10. FinitePlaces(pos + 1, t)
  BY <1>6, <1>7, <1>8 DEF FinitePlaces
<1>11. MentionsTo(pos + 1, t) = MentionsTo(pos, t) + PlacesIn(l, t)
  BY <1>2, <1>6, <1>7, <1>8, <1>9 DEF MentionsTo, PlacesIn, F, A
<1> QED BY <1>10, <1>11 DEF l

\* Before the first line nothing is named; after the last, what the body names.
LEMMA MentionsEnds ==
    ASSUME AllocTypeOK, NEW t
    PROVE  /\ FinitePlaces(1, t) /\ MentionsTo(1, t) = 0
           /\ pos > Len(body) => MentionsTo(pos, t) = Mentions(t)
<1>1. DOMAIN body = 1..Len(body) /\ Len(body) \in Nat /\ pos \in Nat
  BY DEF AllocTypeOK
<1>2. \A k \in DOMAIN body : ~(k < 1)
  BY <1>1
<1>3. FieldsTo(1, t) = {} /\ AddressedTo(1, t) = {} /\ ArgsTo(1, t) = {}
  BY <1>2 DEF FieldsTo, AddressedTo, ArgsTo
<1>4. IsFiniteSet({}) /\ Cardinality({}) = 0
  BY FS_EmptySet
<1>5. FinitePlaces(1, t) /\ MentionsTo(1, t) = 0
  BY <1>3, <1>4 DEF FinitePlaces, MentionsTo
<1>6. ASSUME pos > Len(body) PROVE MentionsTo(pos, t) = Mentions(t)
  <2>1. \A k \in DOMAIN body : k < pos
    BY <1>1, <1>6
  <2>2. FieldsTo(pos, t) = {p \in (DOMAIN body) \X {"a", "b", "c"} :
                              p[2] \in DOMAIN body[p[1]] /\ body[p[1]][p[2]] = OTemp(t)}
    BY <2>1 DEF FieldsTo
  <2>3. AddressedTo(pos, t) = {i \in DOMAIN body : body[i].k = "ADDROF" /\ body[i].u = t}
    BY <2>1 DEF AddressedTo
  <2>4. ArgsTo(pos, t) =
          {p \in UNION {{i} \X DOMAIN body[i].args : i \in {i \in DOMAIN body : body[i].k \in CallKinds}} :
             body[p[1]].args[p[2]] = OTemp(t)}
    BY <2>1 DEF ArgsTo
  <2> QED BY <2>2, <2>3, <2>4 DEF MentionsTo, Mentions
<1> QED BY <1>5, <1>6

\* count_instr_uses on one line.
LEMMA CountKeepsCounted ==
    ASSUME AllocTypeOK, Counted, CountLine PROVE Counted'
<1>1. SUFFICES ASSUME phase' # "dead" PROVE Counted'
  BY DEF Counted
<1> DEFINE l == body[pos]
<1>2. /\ phase = "count" /\ phase' = "count" /\ pos <= Len(body) /\ pos' = pos + 1 /\ body' = body
      /\ locs' = [t \in Temps |-> [locs[t] EXCEPT !.uses = @ + Cardinality(TimesIn(l, t))]]
  BY <1>1 DEF CountLine, Dead, TimesIn
<1>3. l \in Lines
  BY <1>2 DEF AllocTypeOK
<1>4. ASSUME NEW t \in Temps PROVE FinitePlaces(pos, t)' /\ locs'[t].uses = MentionsTo(pos, t)'
  <2>1. FinitePlaces(pos + 1, t) /\ MentionsTo(pos + 1, t) = MentionsTo(pos, t) + PlacesIn(l, t)
    BY <1>2, MentionsNext DEF Counted
  <2>2. locs[t].uses = MentionsTo(pos, t) /\ "uses" \in DOMAIN locs[t]
    BY <1>2 DEF Counted, AllocTypeOK, Locs
  <2>3. locs'[t].uses = locs[t].uses + Cardinality(TimesIn(l, t))
    BY <1>2, <2>2
  <2>4. Cardinality(TimesIn(l, t)) = PlacesIn(l, t)
    BY <1>3, CountedAreThePlaces
  <2>5. FinitePlaces(pos, t)' /\ MentionsTo(pos, t)' = MentionsTo(pos + 1, t)
    BY <1>2, <2>1 DEF FinitePlaces, MentionsTo, FieldsTo, AddressedTo, ArgsTo
  <2> QED BY <2>1, <2>2, <2>3, <2>4, <2>5
<1> QED BY <1>2, <1>4 DEF Counted

\* allocate_function starts every temp with no use.
LEMMA AllocateKeepsCounted ==
    ASSUME AllocTypeOK, Counted, AllocateLine PROVE Counted'
<1>1. phase = "alloc" /\ phase' = "alloc" /\ \A t \in Temps : locs[t].uses = 0
  BY DEF AllocateLine, Counted
<1>2. ASSUME NEW u, NEW kind, NEW slots, Allocate(u, kind, slots), NEW t \in Temps PROVE locs'[t].uses = 0
  BY <1>1, <1>2 DEF Allocate, NewLoc, AllocTypeOK
<1>3. ASSUME NEW t \in Temps PROVE locs'[t].uses = 0
  <2>1. CASE body[pos].k = "ALLOCA"
    BY <1>2, <2>1 DEF AllocateLine, alloc_object
  <2>2. CASE body[pos].k # "ALLOCA" /\ ScalarDef(body[pos]) # NoTemp
    BY <1>2, <2>2 DEF AllocateLine, alloc_def
  <2>3. CASE body[pos].k # "ALLOCA" /\ ScalarDef(body[pos]) = NoTemp
    BY <1>1, <2>3 DEF AllocateLine
  <2> QED BY <2>1, <2>2, <2>3
<1> QED BY <1>1, <1>3 DEF Counted

\* The uses counted are at every moment those of the lines the count has passed
\* (count_function_uses).
THEOREM CountedInvariant == AllocSpec => []Counted
<1>1. AllocInit => Counted
  BY DEF AllocInit, Counted, LocNone
<1>2. AllocTypeOK /\ BodyInv /\ Counted /\ [AllocNext]_allocVars => Counted'
  <2> SUFFICES ASSUME AllocTypeOK, BodyInv, Counted, [AllocNext]_allocVars PROVE Counted'
    OBVIOUS
  <2>1. ASSUME NEW l \in Lines, ReadLine(l) PROVE Counted'
    <3>1. phase = "read" /\ phase' \in {"read", "dead"} /\ locs' = locs
      BY <2>1, ReadLineReads, ReadLineType DEF ReadLine
    <3> QED BY <3>1 DEF Counted
  <2>2. CASE PhaseStep
    <3>1. CASE ReadEof \/ ReadEnd
      BY <3>1 DEF ReadEof, ReadEnd, Dead, Counted
    <3>2. CASE AllocateDone
      <4>1. phase = "alloc" /\ phase' = "count" /\ pos' = 1 /\ UNCHANGED <<body, locs>>
        BY <3>2 DEF AllocateDone
      <4>2. ASSUME NEW t \in Temps PROVE FinitePlaces(pos, t)' /\ locs'[t].uses = MentionsTo(pos, t)'
        <5>1. FinitePlaces(1, t) /\ MentionsTo(1, t) = 0 /\ locs[t].uses = 0
          BY <4>1, MentionsEnds DEF Counted
        <5>2. FinitePlaces(pos, t)' /\ MentionsTo(pos, t)' = MentionsTo(1, t)
          BY <4>1, <5>1 DEF FinitePlaces, MentionsTo, FieldsTo, AddressedTo, ArgsTo
        <5> QED BY <4>1, <5>1, <5>2
      <4> QED BY <4>1, <4>2 DEF Counted
    <3>3. CASE CountDone
      <4>1. phase = "count" /\ phase' = "emit" /\ pos > Len(body) /\ UNCHANGED <<body, locs>>
        BY <3>3 DEF CountDone
      <4>2. ASSUME NEW t \in Temps PROVE locs'[t].uses = Mentions(t)'
        <5>1. locs[t].uses = Mentions(t)
          BY <4>1, MentionsEnds DEF Counted
        <5>2. Mentions(t)' = Mentions(t)
          BY <4>1 DEF Mentions
        <5> QED BY <4>1, <5>1, <5>2
      <4> QED BY <4>1, <4>2 DEF Counted
    <3> QED BY <2>2, <3>1, <3>2, <3>3 DEF PhaseStep
  <2>3. CASE AllocateLine
    BY <2>3, AllocateKeepsCounted
  <2>4. CASE CountLine
    BY <2>4, CountKeepsCounted
  <2>5. CASE UNCHANGED allocVars
    <3>1. phase' = phase /\ body' = body /\ pos' = pos /\ locs' = locs
      BY <2>5 DEF allocVars
    <3>2. ASSUME NEW t \in Temps
          PROVE  /\ FinitePlaces(pos, t)' = FinitePlaces(pos, t) /\ MentionsTo(pos, t)' = MentionsTo(pos, t)
                 /\ Mentions(t)' = Mentions(t)
      BY <3>1 DEF FinitePlaces, MentionsTo, FieldsTo, AddressedTo, ArgsTo, Mentions
    <3> QED BY <3>1, <3>2 DEF Counted
  <2> QED BY <2>1, <2>2, <2>3, <2>4, <2>5 DEF AllocNext, PhaseStep
<1> QED BY <1>1, <1>2, AllocTypeCorrect, BodyInvariant, PTL DEF AllocSpec

\* When emission starts, uses is the number of places that read the temp, in
\* every nested list and terminator of the function, and while the uses are
\* counted the temps with a place are the defined ones (allocate_function,
\* count_function_uses).
THEOREM AllocUsesExact == AllocSpec => []UsesExact
<1>1. Placed /\ Counted => UsesExact
  BY DEF Placed, Counted, UsesExact, MissingExact
<1> QED BY <1>1, PlacedInvariant, CountedInvariant, PTL
================================================================================
