------------------------------- MODULE StdioProofs ------------------------------
(***************************************************************************)
(* Proofs about Stdio, for any number of descriptors, texts of any length  *)
(* and any sizes and counts.                                               *)
(***************************************************************************)
EXTENDS Stdio, InductionFacts, FunctionTheorems, FiniteSetTheorems, SequenceTheorems

(***************************************************************************)
(* The list of slots by itself.                                            *)
(***************************************************************************)
Descriptors == 3..MaxFd
Slot == [fd : Descriptors \cup {None}, error : BOOLEAN]

\* The slots in use are those of the descriptors in H, one for each.
SlotsFor(slots, H) ==
    /\ slots \in Seq(Slot)
    /\ \A i, j \in DOMAIN slots : slots[i].fd = slots[j].fd /\ i # j => slots[i].fd = None
    /\ H = {slots[i].fd : i \in DOMAIN slots} \ {None}

\* The indicators of the slots in use are set for the streams in F.
ErrorsFor(slots, F) ==
    \A i \in DOMAIN slots : slots[i].fd # None => (slots[i].error <=> slots[i].fd \in F)

\* hcc_stream_error finds the slot of a stream if there is one.
LEMMA SlotOfFinds ==
    ASSUME NEW slots \in Seq(Slot), NEW s
    PROVE  \/ SlotOf(slots, s) = 0 /\ \A i \in DOMAIN slots : slots[i].fd # s
           \/ SlotOf(slots, s) \in DOMAIN slots /\ slots[SlotOf(slots, s)].fd = s
<1> DEFINE I == {i \in 1..Len(slots) : slots[i].fd = s}
<1>1. SlotOf(slots, s) = IF I # {} THEN Min(I) ELSE 0
  BY DEF SlotOf, SelectInSeq
<1>2. ASSUME I # {} PROVE Min(I) \in I
  <2>1. I \subseteq Nat
    OBVIOUS
  <2> QED BY <1>2, <2>1, LeastNatural
<1> QED BY <1>1, <1>2

\* The slot of a stream whose slots are those of H is there exactly when the
\* stream is in H.
LEMMA SlotOfHeld ==
    ASSUME NEW slots, NEW H, SlotsFor(slots, H), NEW s \in Descriptors
    PROVE  /\ SlotOf(slots, s) # 0 <=> s \in H
           /\ s \in H => SlotOf(slots, s) \in DOMAIN slots /\ slots[SlotOf(slots, s)].fd = s
<1>1. s # None /\ \A i \in DOMAIN slots : i # 0
  BY StdioAssumption DEF Descriptors, None, SlotsFor
<1> QED BY <1>1, SlotOfFinds DEF SlotsFor

\* Writing into one slot: its old stream is gone and the new one has it.
LEMMA SlotWritten ==
    ASSUME NEW slots, NEW H, NEW F, SlotsFor(slots, H), ErrorsFor(slots, F),
           NEW k \in DOMAIN slots, NEW s \in Descriptors, NEW e \in BOOLEAN,
           slots[k].fd \in {s, None}, s \in H => slots[k].fd = s,
           NEW G, s \in G <=> e, \A t \in Descriptors : t # s => (t \in G <=> t \in F)
    PROVE  /\ SlotsFor([slots EXCEPT ![k] = [fd |-> s, error |-> e]], H \cup {s})
           /\ ErrorsFor([slots EXCEPT ![k] = [fd |-> s, error |-> e]], G)
<1> DEFINE new == [slots EXCEPT ![k] = [fd |-> s, error |-> e]]
<1>1. s # None /\ [fd |-> s, error |-> e] \in Slot
  BY StdioAssumption DEF Descriptors, None, Slot
<1>2. new \in Seq(Slot) /\ DOMAIN new = DOMAIN slots
  BY <1>1, ExceptSeq DEF SlotsFor
<1>3. new[k].fd = s /\ new[k].error = e /\ \A i \in DOMAIN slots : i # k => new[i] = slots[i]
  BY DEF SlotsFor
<1>4. \A i \in DOMAIN slots : slots[i].fd \in Descriptors \cup {None}
  <2>1. \A i \in DOMAIN slots : slots[i] \in Slot
    BY DEF SlotsFor
  <2> QED BY <2>1 DEF Slot
<1> HIDE DEF new
<1>5. \A i \in DOMAIN slots : i # k => new[i].fd # s
  BY <1>1, <1>3 DEF SlotsFor
<1>6. {new[i].fd : i \in DOMAIN new} \ {None} = H \cup {s}
  <2>1. ASSUME NEW t \in H PROVE t = s \/ \E i \in DOMAIN new : new[i].fd = t
    BY <1>2, <1>3 DEF SlotsFor
  <2> QED BY <1>1, <1>2, <1>3, <2>1 DEF SlotsFor
<1>7. SlotsFor(new, H \cup {s})
  BY <1>2, <1>3, <1>5, <1>6 DEF SlotsFor
<1>8. ErrorsFor(new, G)
  <2> SUFFICES ASSUME NEW i \in DOMAIN new, new[i].fd # None
               PROVE  new[i].error <=> new[i].fd \in G
    BY DEF ErrorsFor
  <2>1. CASE i = k
    BY <1>3, <2>1
  <2>2. CASE i # k
    BY <1>2, <1>3, <1>4, <1>5, <2>2 DEF ErrorsFor
  <2> QED BY <2>1, <2>2
<1> QED BY <1>7, <1>8 DEF new

\* A list without a closed slot is as long as there are streams in it.
LEMMA AllSlotsUsed ==
    ASSUME NEW slots, NEW H, SlotsFor(slots, H), \A i \in DOMAIN slots : slots[i].fd # None
    PROVE  Cardinality(H) = Len(slots)
<1> DEFINE f == [i \in 1..Len(slots) |-> slots[i].fd]
<1>1. Len(slots) \in Nat /\ DOMAIN slots = 1..Len(slots)
  BY DEF SlotsFor
<1>2. f \in Bijection(1..Len(slots), H)
  <2>1. f \in [1..Len(slots) -> H]
    BY <1>1 DEF SlotsFor
  <2>2. \A i, j \in 1..Len(slots) : f[i] = f[j] => i = j
    BY <1>1 DEF SlotsFor
  <2>3. \A t \in H : \E i \in 1..Len(slots) : f[i] = t
    BY <1>1 DEF SlotsFor
  <2> QED BY <2>1, <2>2, <2>3, Fun_IsBij
<1>3. ExistsBijection(1..Len(slots), H)
  BY <1>2 DEF ExistsBijection
<1> QED BY <1>1, <1>3, FS_CountingElements

\* hcc_stream_open gives a stream a slot with a clear indicator and leaves the
\* others alone; the list only grows when all its slots are in use.
LEMMA OpenKeeps ==
    ASSUME NEW slots, NEW H, NEW F, SlotsFor(slots, H), ErrorsFor(slots, F), NEW s \in Descriptors
    PROVE  /\ SlotsFor(hcc_stream_open(slots, s), H \cup {s})
           /\ ErrorsFor(hcc_stream_open(slots, s), F \ {s})
           /\ \/ Len(hcc_stream_open(slots, s)) = Len(slots)
              \/ Len(hcc_stream_open(slots, s)) = Cardinality(H \cup {s})
<1> DEFINE clean == [fd |-> s, error |-> FALSE]
           opened == hcc_stream_open(slots, s)
           own == SlotOf(slots, s)
           unused == SlotOf(slots, None)
           G == F \ {s}
<1>1. s # None /\ clean \in Slot
  BY StdioAssumption DEF Descriptors, None, Slot
<1>2. slots \in Seq(Slot) /\ DOMAIN slots = 1..Len(slots) /\ Len(slots) \in Nat
  BY DEF SlotsFor
<1>3. own # 0 <=> s \in H
  BY SlotOfHeld
<1>4. CASE own # 0
  <2>1. own \in DOMAIN slots /\ slots[own].fd = s
    BY <1>3, <1>4, SlotOfHeld
  <2>2. opened = [slots EXCEPT ![own] = clean]
    BY <1>4 DEF hcc_stream_open
  <2>3. Len(opened) = Len(slots)
    BY <1>1, <1>2, <2>1, <2>2, ExceptSeq
  <2>4. s \notin G /\ (\A t \in Descriptors : t # s => (t \in G <=> t \in F)) /\ FALSE \in BOOLEAN
    OBVIOUS
  <2> HIDE DEF own, G
  <2>5. /\ SlotsFor([slots EXCEPT ![own] = [fd |-> s, error |-> FALSE]], H \cup {s})
        /\ ErrorsFor([slots EXCEPT ![own] = [fd |-> s, error |-> FALSE]], G)
    BY <2>1, <2>4, SlotWritten
  <2> QED BY <2>2, <2>3, <2>5 DEF G
<1>5. CASE own = 0 /\ unused # 0
  <2>1. unused \in DOMAIN slots /\ slots[unused].fd = None
    BY <1>2, <1>5, SlotOfFinds
  <2>2. opened = [slots EXCEPT ![unused] = clean]
    BY <1>5 DEF hcc_stream_open
  <2>3. Len(opened) = Len(slots)
    BY <1>1, <1>2, <2>1, <2>2, ExceptSeq
  <2>4. s \notin H
    BY <1>3, <1>5
  <2>5. s \notin G /\ (\A t \in Descriptors : t # s => (t \in G <=> t \in F)) /\ FALSE \in BOOLEAN
    OBVIOUS
  <2> HIDE DEF unused, G
  <2>6. /\ SlotsFor([slots EXCEPT ![unused] = [fd |-> s, error |-> FALSE]], H \cup {s})
        /\ ErrorsFor([slots EXCEPT ![unused] = [fd |-> s, error |-> FALSE]], G)
    BY <2>1, <2>4, <2>5, SlotWritten
  <2> QED BY <2>2, <2>3, <2>6 DEF G
<1>6. CASE own = 0 /\ unused = 0
  <2>1. \A i \in DOMAIN slots : slots[i].fd # None
    <3>1. \A i \in DOMAIN slots : i # 0
      BY <1>2
    <3> QED BY <1>2, <1>6, <3>1, SlotOfFinds
  <2>2. opened = <<clean>> \o slots
    BY <1>6 DEF hcc_stream_open
  <2>3. /\ opened \in Seq(Slot) /\ Len(opened) = Len(slots) + 1
        /\ \A i \in 1..(Len(slots) + 1) : opened[i] = IF i = 1 THEN clean ELSE slots[i - 1]
    <3>1. <<clean>> \in Seq(Slot) /\ Len(<<clean>>) = 1 /\ <<clean>>[1] = clean
      BY <1>1
    <3>2. \A i \in 1..(Len(slots) + 1) : i <= 1 <=> i = 1
      OBVIOUS
    <3> HIDE DEF clean, opened
    <3> QED BY <1>2, <2>2, <3>1, <3>2, ConcatProperties
  <2>4. DOMAIN opened = 1..(Len(slots) + 1)
    BY <1>2, <2>3
  <2>5. s \notin H
    BY <1>3, <1>6
  <2> HIDE DEF opened, own, unused
  <2>6. \A i \in DOMAIN slots : i + 1 \in DOMAIN opened /\ opened[i + 1] = slots[i]
    BY <1>2, <2>3, <2>4
  <2>7. \A i \in DOMAIN opened : i # 1 => i - 1 \in DOMAIN slots /\ opened[i] = slots[i - 1]
    BY <1>2, <2>3, <2>4
  <2>8. 1 \in DOMAIN opened /\ opened[1] = clean
    <3>1. 1 \in 1..(Len(slots) + 1)
      BY <1>2
    <3> HIDE DEF clean
    <3> QED BY <2>3, <2>4, <3>1
  <2>9. SlotsFor(opened, H \cup {s})
    <3>1. H \cup {s} = {opened[i].fd : i \in DOMAIN opened} \ {None}
      BY <1>1, <2>6, <2>7, <2>8 DEF SlotsFor
    <3>2. ASSUME NEW i \in DOMAIN opened, NEW j \in DOMAIN opened, opened[i].fd = opened[j].fd, i # j
          PROVE  opened[i].fd = None
      <4>1. \A n \in DOMAIN slots : slots[n].fd # s
        BY <1>1, <2>5 DEF SlotsFor
      <4>2. i # 1 /\ j # 1
        BY <2>7, <2>8, <3>2, <4>1
      <4>3. i - 1 # j - 1
        BY <1>2, <2>4, <3>2
      <4> QED BY <2>7, <3>2, <4>2, <4>3 DEF SlotsFor
    <3> QED BY <2>3, <3>1, <3>2 DEF SlotsFor
  <2>10. ErrorsFor(opened, F \ {s})
    <3>1. \A n \in DOMAIN slots : slots[n].fd # s
      BY <1>1, <2>5 DEF SlotsFor
    <3>2. ASSUME NEW i \in DOMAIN opened, opened[i].fd # None
          PROVE  opened[i].error <=> opened[i].fd \in F \ {s}
      <4>1. CASE i = 1
        BY <2>8, <4>1
      <4>2. CASE i # 1
        BY <2>7, <3>1, <3>2, <4>2 DEF ErrorsFor
      <4> QED BY <4>1, <4>2
    <3> QED BY <3>2 DEF ErrorsFor
  <2>11. \A i \in DOMAIN opened : opened[i].fd # None
    <3> SUFFICES ASSUME NEW i \in DOMAIN opened PROVE opened[i].fd # None
      OBVIOUS
    <3>1. CASE i = 1
      BY <1>1, <2>8, <3>1
    <3>2. CASE i # 1
      BY <2>1, <2>7, <3>2
    <3> QED BY <3>1, <3>2
  <2>12. Len(opened) = Cardinality(H \cup {s})
    BY <2>9, <2>11, AllSlotsUsed
  <2> QED BY <2>9, <2>10, <2>12 DEF opened
<1> QED BY <1>4, <1>5, <1>6

\* fclose frees the slot of the stream and keeps the others.
LEMMA ReleaseKeeps ==
    ASSUME NEW slots, NEW H, NEW F, SlotsFor(slots, H), ErrorsFor(slots, F), NEW s \in Descriptors
    PROVE  /\ SlotsFor(Release(slots, s), H \ {s})
           /\ ErrorsFor(Release(slots, s), F \ {s})
           /\ Len(Release(slots, s)) = Len(slots)
<1> DEFINE freed == Release(slots, s)
<1>1. s # None
  BY StdioAssumption DEF Descriptors, None
<1>2. slots \in Seq(Slot) /\ DOMAIN slots = 1..Len(slots) /\ Len(slots) \in Nat
  BY DEF SlotsFor
<1>3. \A i \in DOMAIN slots : slots[i] \in Slot
  BY <1>2
<1>4. DOMAIN freed = DOMAIN slots
  BY DEF Release
<1>5. \A i \in DOMAIN slots : freed[i] = IF slots[i].fd = s THEN [slots[i] EXCEPT !.fd = None] ELSE slots[i]
  BY DEF Release
<1>6. \A i \in DOMAIN slots :
          /\ freed[i] \in Slot /\ freed[i].error = slots[i].error
          /\ freed[i].fd = IF slots[i].fd = s THEN None ELSE slots[i].fd
  BY <1>3, <1>5 DEF Slot
<1>7. freed \in Seq(Slot) /\ Len(freed) = Len(slots)
  <2>1. freed = [i \in 1..Len(slots) |-> freed[i]]
    BY <1>2 DEF Release
  <2>2. \A i \in 1..Len(slots) : freed[i] \in Slot
    BY <1>2, <1>6
  <2> QED BY <1>2, <2>1, <2>2, IsASeq
<1> HIDE DEF freed
<1>8. H \ {s} = {freed[i].fd : i \in DOMAIN freed} \ {None}
  BY <1>1, <1>4, <1>6 DEF SlotsFor
<1>9. \A i, j \in DOMAIN freed : freed[i].fd = freed[j].fd /\ i # j => freed[i].fd = None
  BY <1>4, <1>6 DEF SlotsFor
<1>10. ErrorsFor(freed, F \ {s})
  BY <1>4, <1>6 DEF ErrorsFor
<1> QED BY <1>7, <1>8, <1>9, <1>10 DEF SlotsFor, freed

\* Setting or clearing the indicator of an open stream touches that stream only.
LEMMA IndicatorSet ==
    ASSUME NEW slots, NEW H, NEW F, SlotsFor(slots, H), ErrorsFor(slots, F),
           NEW s \in Descriptors, s \in H, NEW e \in BOOLEAN,
           NEW G, s \in G <=> e, \A t \in Descriptors : t # s => (t \in G <=> t \in F)
    PROVE  /\ SlotsFor([slots EXCEPT ![SlotOf(slots, s)].error = e], H)
           /\ ErrorsFor([slots EXCEPT ![SlotOf(slots, s)].error = e], G)
           /\ Len([slots EXCEPT ![SlotOf(slots, s)].error = e]) = Len(slots)
<1> DEFINE k == SlotOf(slots, s)
           entry == [fd |-> s, error |-> e]
<1>1. k \in DOMAIN slots /\ slots[k].fd = s
  BY SlotOfHeld
<1> HIDE DEF k
<1>2. slots \in Seq(Slot) /\ slots[k] \in Slot /\ entry \in Slot
  <2>1. slots \in Seq(Slot)
    BY DEF SlotsFor
  <2>2. slots[k] \in Slot
    BY <1>1, <2>1
  <2>3. entry \in Slot
    BY DEF Slot
  <2> QED BY <2>1, <2>2, <2>3
<1>3. [slots[k] EXCEPT !.error = e] = entry
  BY <1>1, <1>2 DEF Slot
<1>4. [slots EXCEPT ![k].error = e] = [slots EXCEPT ![k] = entry]
  BY <1>1, <1>3
<1>5. Len([slots EXCEPT ![k] = entry]) = Len(slots)
  BY <1>1, <1>2, ExceptSeq
<1>6. H \cup {s} = H
  OBVIOUS
<1>7. SlotsFor([slots EXCEPT ![k] = entry], H \cup {s}) /\ ErrorsFor([slots EXCEPT ![k] = entry], G)
  BY <1>1, SlotWritten
<1> QED BY <1>4, <1>5, <1>6, <1>7 DEF k

\* The larger of two numbers.
LEMMA LargerOf ==
    ASSUME NEW m \in Int, NEW n \in Int
    PROVE  Max({m, n}) \in {m, n} /\ Max({m, n}) >= m /\ Max({m, n}) >= n
<1>1. \E x \in {m, n} : \A y \in {m, n} : x >= y
  <2>1. CASE m >= n
    BY <2>1
  <2>2. CASE ~(m >= n)
    BY <2>2
  <2> QED BY <2>1, <2>2
<1> QED BY <1>1 DEF Max

(***************************************************************************)
(* The inductive invariant.                                                *)
(***************************************************************************)
StdioTypes ==
    /\ fds \subseteq 0..MaxFd /\ held \subseteq 0..MaxFd /\ raw \subseteq 0..MaxFd
    /\ peak \in Nat
    /\ hcc_standard_errors \in [Standard -> BOOLEAN]

\* The slots in use are those of the streams the program has; a descriptor is
\* a stream or the program's own, never both.
SlotsKept ==
    /\ SlotsFor(hcc_streams, held \ Standard)
    /\ fds \ Standard = (held \cup raw) \ Standard
    /\ (held \cap raw) \ Standard = {}
    /\ Len(hcc_streams) <= peak

\* Every indicator tells whether a call has failed.
ErrorsKept ==
    /\ \A s \in Standard : hcc_standard_errors[s] <=> s \in failed
    /\ ErrorsFor(hcc_streams, failed)

\* What is known of a call under way.  The bytes sent are the first bytes of the
\* data, and the data is what was asked for unless fwrite has refused it.
OpenKept == call.op = "fopen" => call \in [op : {"fopen"}, old : Streams \cup {None}]
WriteKept ==
    call.op \in WriteCalls =>
        /\ call \in [op : WriteCalls, fd : Streams, asked : Seq(Nat), data : Seq(Nat), size : Nat,
                     done : Nat, sent : Seq(Nat), stopped : BOOLEAN]
        /\ call.done <= Len(call.data)
        /\ call.sent = SubSeq(call.data, 1, call.done)
        /\ call.data # call.asked => call.op = "fwrite" /\ call.data = <<>> /\ call.stopped
        /\ call.op = "fputc" => call.asked = Bytes(1)
        /\ call.op = "fwrite" => \E count \in Nat \ {0} :
                                   call.size # 0 /\ Len(call.asked) = call.size * count
        /\ call.stopped => call.fd \in failed /\ call.sent # call.asked
CallKept == call.op \in {"none", "fopen"} \cup WriteCalls /\ OpenKept /\ WriteKept

IInv == StdioTypes /\ SlotsKept /\ ErrorsKept /\ CallKept

(***************************************************************************)
(* The steps.                                                              *)
(***************************************************************************)
\* The assignment *error = e for a stream the program has, in a state of the
\* invariant, when the history records the same.
LEMMA SetErrorKeeps ==
    ASSUME StdioTypes, SlotsKept, ErrorsKept, NEW s \in Streams, NEW e \in BOOLEAN, SetError(s, e),
           failed' = IF e THEN failed \cup {s} ELSE failed \ {s}
    PROVE  /\ hcc_standard_errors' \in [Standard -> BOOLEAN]
           /\ SlotsFor(hcc_streams', held \ Standard)
           /\ Len(hcc_streams') = Len(hcc_streams)
           /\ ErrorsKept'
<1> DEFINE G == IF e THEN failed \cup {s} ELSE failed \ {s}
<1>1. s \in G <=> e
  OBVIOUS
<1>2. \A t : t # s => (t \in G <=> t \in failed)
  OBVIOUS
<1>3. failed' = G
  OBVIOUS
<1> HIDE DEF G
<1>4. CASE s \in Standard
  <2>1. /\ hcc_standard_errors' = [hcc_standard_errors EXCEPT ![s] = e]
        /\ hcc_streams' = hcc_streams
    BY <1>4 DEF SetError
  <2>2. \A t \in Standard : hcc_standard_errors'[t] <=> t \in G
    BY <1>1, <1>2, <1>4, <2>1 DEF StdioTypes, ErrorsKept
  <2>3. \A i \in DOMAIN hcc_streams : hcc_streams[i].fd # None => hcc_streams[i].fd # s
    BY <1>4 DEF SlotsKept, SlotsFor
  <2>4. ErrorsFor(hcc_streams, G)
    BY <1>2, <2>3 DEF ErrorsKept, ErrorsFor
  <2>5. hcc_standard_errors' \in [Standard -> BOOLEAN]
    BY <2>1, <1>4 DEF StdioTypes
  <2> QED BY <1>3, <2>1, <2>2, <2>4, <2>5 DEF ErrorsKept, SlotsKept
<1>5. CASE s \notin Standard
  <2>1. /\ hcc_standard_errors' = hcc_standard_errors
        /\ hcc_streams' = [hcc_streams EXCEPT ![SlotOf(hcc_streams, s)].error = e]
    BY <1>5 DEF SetError
  <2>2. s \in Descriptors /\ s \in held \ Standard
    BY <1>5, StdioAssumption DEF Streams, Standard, Descriptors, StdioTypes
  <2>3. \A t \in Descriptors : t # s => (t \in G <=> t \in failed)
    BY <1>2
  <2>4. /\ SlotsFor([hcc_streams EXCEPT ![SlotOf(hcc_streams, s)].error = e], held \ Standard)
        /\ ErrorsFor([hcc_streams EXCEPT ![SlotOf(hcc_streams, s)].error = e], G)
        /\ Len([hcc_streams EXCEPT ![SlotOf(hcc_streams, s)].error = e]) = Len(hcc_streams)
    BY <1>1, <2>2, <2>3, IndicatorSet DEF SlotsKept, ErrorsKept
  <2>5. \A t \in Standard : hcc_standard_errors'[t] <=> t \in G
    BY <1>2, <1>5, <2>1 DEF ErrorsKept
  <2> QED BY <1>3, <2>1, <2>4, <2>5 DEF ErrorsKept, StdioTypes
<1> QED BY <1>4, <1>5

\* Every stream the program can use has an indicator, and it is exact.
LEMMA IndicatorThere ==
    ASSUME StdioTypes, SlotsKept, ErrorsKept, NEW s \in Streams
    PROVE  HasIndicator(s) /\ (ferror(s) <=> s \in failed)
<1>1. CASE s \in Standard
  BY <1>1 DEF HasIndicator, ferror, ErrorsKept
<1>2. CASE s \notin Standard
  <2>1. s \in Descriptors /\ s \in held \ Standard /\ s # None
    BY <1>2, StdioAssumption DEF Streams, Standard, Descriptors, StdioTypes, None
  <2>2. SlotOf(hcc_streams, s) # 0
        /\ SlotOf(hcc_streams, s) \in DOMAIN hcc_streams /\ hcc_streams[SlotOf(hcc_streams, s)].fd = s
    BY <2>1, SlotOfHeld DEF SlotsKept
  <2>3. hcc_streams[SlotOf(hcc_streams, s)].error <=> s \in failed
    BY <2>1, <2>2 DEF ErrorsKept, ErrorsFor
  <2> QED BY <1>2, <2>2, <2>3 DEF HasIndicator, ferror
<1> QED BY <1>1, <1>2

\* The history variable peak is at least the number of streams open at once.
LEMMA PeakCovers ==
    ASSUME StdioTypes, NEW streams, streams \subseteq 0..MaxFd
    PROVE  Peak(streams) \in Nat /\ Peak(streams) >= peak
           /\ Peak(streams) >= Cardinality(streams \ Standard)
<1>1. IsFiniteSet(0..MaxFd)
  BY StdioAssumption, FS_Interval
<1>2. Cardinality(streams \ Standard) \in Nat
  <2>1. streams \ Standard \in SUBSET (0..MaxFd)
    OBVIOUS
  <2> QED BY <1>1, <2>1, FS_Subset, FS_CardinalityType
<1> DEFINE most == Cardinality(streams \ Standard)
<1>3. most \in Int /\ peak \in Int /\ most \in Nat /\ peak \in Nat
  BY <1>2 DEF StdioTypes
<1>4. Peak(streams) = Max({peak, most})
  BY DEF Peak
<1> HIDE DEF most
<1>5. Max({peak, most}) \in {peak, most} /\ Max({peak, most}) >= peak /\ Max({peak, most}) >= most
  BY <1>3, LargerOf
<1>6. Peak(streams) \in Nat
  BY <1>3, <1>4, <1>5
<1> QED BY <1>4, <1>5, <1>6 DEF most

\* hcc_stream_open for a descriptor that is not one of the program's streams, or
\* is one again.
LEMMA StreamOpened ==
    ASSUME StdioTypes, SlotsKept, ErrorsKept, NEW fd \in Descriptors
    PROVE  LET opened == hcc_stream_open(hcc_streams, fd)
           IN  /\ SlotsFor(opened, (held \cup {fd}) \ Standard)
               /\ ErrorsFor(opened, failed \ {fd})
               /\ Len(opened) <= Peak(held \cup {fd})
<1> DEFINE opened == hcc_stream_open(hcc_streams, fd)
<1>1. (held \cup {fd}) \ Standard = (held \ Standard) \cup {fd}
  BY DEF Descriptors, Standard
<1>2. /\ SlotsFor(opened, (held \ Standard) \cup {fd})
      /\ ErrorsFor(opened, failed \ {fd})
      /\ Len(opened) = Len(hcc_streams) \/ Len(opened) = Cardinality((held \ Standard) \cup {fd})
  <2>1. SlotsFor(hcc_streams, held \ Standard) /\ ErrorsFor(hcc_streams, failed)
    BY DEF SlotsKept, ErrorsKept
  <2> DEFINE S == held \ Standard
  <2>2. SlotsFor(hcc_streams, S)
    BY <2>1
  <2> HIDE DEF S
  <2>3. /\ SlotsFor(opened, S \cup {fd})
        /\ ErrorsFor(opened, failed \ {fd})
        /\ Len(opened) = Len(hcc_streams) \/ Len(opened) = Cardinality(S \cup {fd})
    <3> DEFINE new == hcc_stream_open(hcc_streams, fd)
    <3>1. ErrorsFor(hcc_streams, failed)
      BY <2>1
    <3>2. SlotsFor(new, S \cup {fd})
      BY <2>2, <3>1, OpenKeeps, Zenon
    <3>4. ErrorsFor(new, failed \ {fd})
      BY <2>2, <3>1, OpenKeeps, Zenon
    <3>3. Len(new) = Len(hcc_streams) \/ Len(new) = Cardinality(S \cup {fd})
      BY <2>2, <3>1, OpenKeeps
    <3> QED BY <3>2, <3>3, <3>4
  <2> QED BY <2>3 DEF S
<1>3. held \cup {fd} \subseteq 0..MaxFd
  BY DEF Descriptors, StdioTypes
<1>4. /\ Peak(held \cup {fd}) \in Nat /\ Peak(held \cup {fd}) >= peak
      /\ Peak(held \cup {fd}) >= Cardinality((held \cup {fd}) \ Standard)
  BY <1>3, PeakCovers
<1>5. Len(opened) \in Nat /\ Len(hcc_streams) \in Nat /\ Len(hcc_streams) <= peak /\ peak \in Nat
  BY <1>2 DEF SlotsKept, SlotsFor, StdioTypes
<1> HIDE DEF opened
<1>6. Len(opened) <= Peak(held \cup {fd})
  <2>1. CASE Len(opened) = Len(hcc_streams)
    BY <1>4, <1>5, <2>1
  <2>2. CASE Len(opened) = Cardinality((held \ Standard) \cup {fd})
    BY <1>1, <1>4, <2>2
  <2> QED BY <1>2, <2>1, <2>2
<1> QED BY <1>1, <1>2, <1>6 DEF opened

\* The descriptor open(2) gives is unused.
LEMMA LowestIsUnused ==
    LowestUnused = None \/ LowestUnused \in (0..MaxFd) \ fds
<1> DEFINE unused == (0..MaxFd) \ fds
<1>1. CASE unused # {}
  <2>1. unused \subseteq Nat
    BY StdioAssumption
  <2>2. \E d \in unused : \A e \in unused : d <= e
    BY <1>1, <2>1, LeastNatural
  <2> HIDE DEF unused
  <2>3. (CHOOSE d \in unused : \A e \in unused : d <= e) \in unused
    BY <2>2
  <2> QED BY <1>1, <2>3 DEF LowestUnused, unused
<1>2. CASE unused = {}
  BY <1>2 DEF LowestUnused
<1> QED BY <1>1, <1>2

\* Whatever follows a call that has just ended is sound.
LEMMA IdleSound == call' = Idle => CallKept'
BY DEF Idle, CallKept, OpenKept, WriteKept, WriteCalls

\* A call under way stays sound while the streams and failures are the same.
LEMMA CallUnchanged ==
    ASSUME CallKept, UNCHANGED <<call, held, failed>> PROVE CallKept'
BY DEF CallKept, OpenKept, WriteKept, Streams

\* The open(2) of fopen and freopen: asked again for a standard descriptor,
\* failed, or given.
LEMMA OpeningKeeps == IInv /\ Opening => IInv'
<1> SUFFICES ASSUME StdioTypes, SlotsKept, ErrorsKept, CallKept, call.op = "fopen", NEW fd \in open,
                    OpenAgain(fd) \/ OpenFails(fd) \/ OpenDone(fd)
             PROVE  IInv'
  BY DEF Opening, IInv
<1>1. fd = None \/ fd \in (0..MaxFd) \ fds
  BY LowestIsUnused DEF open
<1>2. call.old \in Streams \cup {None}
  BY DEF CallKept, OpenKept
<1>3. CASE OpenAgain(fd)
  <2>1. /\ fd \in Standard /\ fds' = fds \cup {fd}
        /\ UNCHANGED <<hcc_standard_errors, hcc_streams, full, call, held, raw, failed, peak>>
    BY <1>3 DEF OpenAgain, KeepsAsking
  <2>2. StdioTypes'
    BY <2>1, StdioAssumption DEF StdioTypes, Standard
  <2>3. SlotsKept'
    BY <2>1 DEF SlotsKept
  <2>4. ErrorsKept'
    BY <2>1 DEF ErrorsKept
  <2>5. CallKept'
    BY <2>1, CallUnchanged
  <2> QED BY <2>2, <2>3, <2>4, <2>5 DEF IInv
<1>4. CASE OpenFails(fd)
  <2>1. /\ fds' = fds /\ call' = Idle
        /\ UNCHANGED <<hcc_standard_errors, hcc_streams, full, held, raw, failed, peak>>
    BY <1>4 DEF OpenFails, CloseAgain
  <2>2. StdioTypes' /\ SlotsKept' /\ ErrorsKept'
    BY <2>1 DEF StdioTypes, SlotsKept, ErrorsKept
  <2>3. CallKept'
    BY <2>1, IdleSound
  <2> QED BY <2>2, <2>3 DEF IInv
<1>5. CASE OpenDone(fd)
  <2> DEFINE opened == hcc_stream_open(hcc_streams, fd)
             closing == {call.old} \ (Standard \cup {None})
  <2>1. /\ fd # None /\ fd \notin Standard
        /\ fds' = (fds \cup {fd}) \ closing
        /\ hcc_streams' = IF closing = {} THEN opened ELSE Release(opened, call.old)
        /\ held' = (held \cup {fd}) \ closing
        /\ failed' = failed \ ({fd} \cup closing)
        /\ peak' = Peak(held \cup {fd})
        /\ call' = Idle
        /\ hcc_standard_errors' = hcc_standard_errors /\ raw' = raw
    BY <1>5 DEF OpenDone, KeepsAsking
  <2>2. fd \in Descriptors /\ fd \notin fds /\ fd \in 0..MaxFd
    BY <1>1, <2>1, StdioAssumption DEF Descriptors, Standard
  <2>3. /\ SlotsFor(opened, (held \cup {fd}) \ Standard)
        /\ ErrorsFor(opened, failed \ {fd})
        /\ Len(opened) <= Peak(held \cup {fd})
    BY <2>2, StreamOpened
  <2>4. Peak(held \cup {fd}) \in Nat
    <3>1. held \cup {fd} \subseteq 0..MaxFd
      BY <2>2, StdioAssumption DEF StdioTypes, Descriptors
    <3> QED BY <3>1, PeakCovers
  <2> HIDE DEF opened
  <2>5. fd \notin raw /\ fd \notin held
    BY <2>1, <2>2 DEF SlotsKept
  <2>6. CASE closing = {}
    <3>1. /\ fds' = fds \cup {fd} /\ held' = held \cup {fd} /\ failed' = failed \ {fd}
          /\ hcc_streams' = opened
      BY <2>1, <2>6
    <3>2. StdioTypes'
      BY <2>1, <2>2, <2>4, <3>1 DEF StdioTypes
    <3>3. SlotsKept'
      <4>1. fds' \ Standard = (held' \cup raw') \ Standard /\ (held' \cap raw') \ Standard = {}
        BY <2>1, <2>5, <3>1 DEF SlotsKept
      <4>2. SlotsFor(hcc_streams', held' \ Standard) /\ Len(hcc_streams') <= peak'
        BY <2>1, <2>3, <3>1
      <4> QED BY <4>1, <4>2 DEF SlotsKept
    <3>4. ErrorsKept'
      BY <2>1, <2>3, <3>1 DEF ErrorsKept
    <3>5. CallKept'
      BY <2>1, IdleSound
    <3> QED BY <3>2, <3>3, <3>4, <3>5 DEF IInv
  <2>7. CASE closing # {}
    <3> DEFINE old == call.old
    <3>1. closing = {old} /\ old \notin Standard /\ old # None
      BY <2>7
    <3>2. old \in held /\ old \in Descriptors
      <4>1. old \in held
        BY <1>2, <3>1, StdioAssumption DEF Streams, Standard
      <4>2. old \in 0..MaxFd /\ old \notin 0..2
        BY <3>1, <4>1 DEF StdioTypes, Standard
      <4> QED BY <4>1, <4>2, StdioAssumption DEF Descriptors
    <3>3. /\ fds' = (fds \cup {fd}) \ {old} /\ held' = (held \cup {fd}) \ {old}
          /\ failed' = failed \ {fd, old} /\ hcc_streams' = Release(opened, old)
      BY <2>1, <2>7, <3>1
    <3> HIDE DEF old, closing
    <3>4. /\ SlotsFor(Release(opened, old), ((held \cup {fd}) \ Standard) \ {old})
          /\ ErrorsFor(Release(opened, old), (failed \ {fd}) \ {old})
          /\ Len(Release(opened, old)) = Len(opened)
      BY <2>3, <3>2, ReleaseKeeps
    <3>5. /\ ((held \cup {fd}) \ Standard) \ {old} = ((held \cup {fd}) \ {old}) \ Standard
          /\ (failed \ {fd}) \ {old} = failed \ {fd, old}
      OBVIOUS
    <3>6. StdioTypes'
      BY <2>1, <2>2, <2>4, <3>3 DEF StdioTypes
    <3>7. SlotsKept'
      <4>1. old \notin raw
        BY <3>1, <3>2 DEF SlotsKept
      <4>2. fds' \ Standard = (held' \cup raw') \ Standard /\ (held' \cap raw') \ Standard = {}
        BY <2>1, <2>5, <3>3, <4>1 DEF SlotsKept
      <4>3. SlotsFor(hcc_streams', held' \ Standard) /\ Len(hcc_streams') <= peak'
        BY <2>1, <2>3, <3>3, <3>4, <3>5
      <4> QED BY <4>2, <4>3 DEF SlotsKept
    <3>8. ErrorsKept'
      <4>1. ErrorsFor(hcc_streams', failed')
        BY <3>3, <3>4, <3>5
      <4>2. \A s \in Standard : hcc_standard_errors'[s] <=> s \in failed'
        BY <2>1, <3>1, <3>3 DEF ErrorsKept
      <4> QED BY <4>1, <4>2 DEF ErrorsKept
    <3>9. CallKept'
      BY <2>1, IdleSound
    <3> QED BY <3>6, <3>7, <3>8, <3>9 DEF IInv
  <2> QED BY <2>6, <2>7
<1> QED BY <1>3, <1>4, <1>5

\* A call of fopen or freopen.
LEMMA CallOpenKeeps ==
    ASSUME IInv, NEW old \in Streams \cup {None}, CallOpen(old) PROVE IInv'
<1>1. /\ call' = [op |-> "fopen", old |-> old]
      /\ UNCHANGED <<fds, hcc_standard_errors, hcc_streams, full, held, raw, failed, peak>>
  BY DEF CallOpen
<1>2. StdioTypes' /\ SlotsKept' /\ ErrorsKept'
  BY <1>1 DEF IInv, StdioTypes, SlotsKept, ErrorsKept
<1>3. CallKept'
  BY <1>1 DEF CallKept, OpenKept, WriteKept, WriteCalls, Streams
<1> QED BY <1>2, <1>3 DEF IInv

\* fclose.
LEMMA CloseKeeps ==
    ASSUME IInv, NEW s \in held, fclose(s) PROVE IInv'
<1>1. /\ call = Idle /\ call' = call
      /\ held' = held \ {s} /\ failed' = failed \ ({s} \ Standard)
      /\ fds' = fds \ ({s} \ Standard)
      /\ hcc_streams' = IF s \in Standard THEN hcc_streams ELSE Release(hcc_streams, s)
      /\ hcc_standard_errors' = hcc_standard_errors /\ raw' = raw /\ peak' = peak
  BY DEF fclose
<1>2. StdioTypes'
  BY <1>1 DEF IInv, StdioTypes
<1>3. CallKept'
  BY <1>1, IdleSound
<1>4. CASE s \in Standard
  <2>1. /\ hcc_streams' = hcc_streams /\ failed' = failed /\ fds' = fds
        /\ held' \ Standard = held \ Standard
    BY <1>1, <1>4
  <2>2. SlotsKept' /\ ErrorsKept'
    BY <1>1, <2>1 DEF IInv, SlotsKept, ErrorsKept
  <2> QED BY <1>2, <1>3, <2>2 DEF IInv
<1>5. CASE s \notin Standard
  <2>1. /\ hcc_streams' = Release(hcc_streams, s) /\ failed' = failed \ {s} /\ fds' = fds \ {s}
        /\ held' \ Standard = (held \ Standard) \ {s}
    BY <1>1, <1>5
  <2>2. s \in Descriptors
    BY <1>5, StdioAssumption DEF IInv, StdioTypes, Standard, Descriptors
  <2>3. /\ SlotsFor(Release(hcc_streams, s), (held \ Standard) \ {s})
        /\ ErrorsFor(Release(hcc_streams, s), failed \ {s})
        /\ Len(Release(hcc_streams, s)) = Len(hcc_streams)
    <3>1. SlotsFor(hcc_streams, held \ Standard) /\ ErrorsFor(hcc_streams, failed)
      BY DEF IInv, SlotsKept, ErrorsKept
    <3> QED BY <2>2, <3>1, ReleaseKeeps
  <2>4. SlotsKept'
    <3>1. s \notin raw
      BY <1>5 DEF IInv, SlotsKept
    <3>2. fds' \ Standard = (held' \cup raw') \ Standard /\ (held' \cap raw') \ Standard = {}
      BY <1>1, <2>1, <3>1 DEF IInv, SlotsKept
    <3>3. Len(hcc_streams) <= peak
      BY DEF IInv, SlotsKept
    <3> QED BY <1>1, <2>1, <2>3, <3>2, <3>3 DEF SlotsKept
  <2>5. ErrorsKept'
    BY <1>1, <1>5, <2>1, <2>3 DEF IInv, ErrorsKept
  <2> QED BY <1>2, <1>3, <2>4, <2>5 DEF IInv
<1> QED BY <1>4, <1>5

\* The program's own descriptors.
LEMMA RawKeeps ==
    ASSUME IInv, RawOpen \/ \E d \in raw : RawClose(d) PROVE IInv'
<1>1. call = Idle /\ UNCHANGED <<hcc_standard_errors, hcc_streams, full, call, held, failed, peak>>
  BY DEF RawOpen, RawClose
<1>2. CallKept' /\ ErrorsKept'
  BY <1>1, IdleSound DEF IInv, ErrorsKept
<1>3. SlotsFor(hcc_streams', held' \ Standard) /\ Len(hcc_streams') <= peak'
  BY <1>1 DEF IInv, SlotsKept
<1>4. CASE RawOpen
  <2> DEFINE d == LowestUnused
  <2>1. d \in (0..MaxFd) \ fds /\ fds' = fds \cup {d} /\ raw' = raw \cup {d}
    BY <1>4, LowestIsUnused DEF RawOpen
  <2> HIDE DEF d
  <2>2. d \notin held \ Standard
    BY <2>1 DEF IInv, SlotsKept
  <2>3. fds' \ Standard = (held' \cup raw') \ Standard /\ (held' \cap raw') \ Standard = {}
    BY <1>1, <2>1, <2>2 DEF IInv, SlotsKept
  <2>4. StdioTypes'
    BY <1>1, <2>1 DEF IInv, StdioTypes
  <2> QED BY <1>2, <1>3, <2>3, <2>4 DEF IInv, SlotsKept
<1>5. ASSUME NEW d \in raw, RawClose(d) PROVE IInv'
  <2>1. fds' = fds \ {d} /\ raw' = raw \ {d}
    BY <1>5 DEF RawClose
  <2>2. fds' \ Standard = (held' \cup raw') \ Standard /\ (held' \cap raw') \ Standard = {}
    BY <1>1, <2>1 DEF IInv, SlotsKept
  <2>3. StdioTypes'
    BY <1>1, <2>1 DEF IInv, StdioTypes
  <2> QED BY <1>2, <1>3, <2>2, <2>3 DEF IInv, SlotsKept
<1> QED BY <1>4, <1>5

\* fdopen makes a stream of a descriptor of the program.
LEMMA FdopenKeeps ==
    ASSUME IInv, NEW d \in raw, fdopen(d) PROVE IInv'
<1>1. /\ call = Idle /\ call' = call /\ fds' = fds
      /\ raw' = raw \ {d} /\ held' = held \cup {d} /\ failed' = failed \ {d}
      /\ peak' = Peak(held \cup {d})
  BY DEF fdopen
<1>2. CallKept'
  BY <1>1, IdleSound
<1>3. d \in 0..MaxFd /\ held \cup {d} \subseteq 0..MaxFd
  BY DEF IInv, StdioTypes
<1>4. Peak(held \cup {d}) \in Nat /\ Peak(held \cup {d}) >= peak
  BY <1>3, PeakCovers DEF IInv
<1>5. fds' \ Standard = (held' \cup raw') \ Standard /\ (held' \cap raw') \ Standard = {}
  BY <1>1 DEF IInv, SlotsKept
<1>6. CASE d \in Standard
  <2>1. SetError(d, FALSE)
    BY <1>6 DEF fdopen
  <2>2. hcc_standard_errors' = [hcc_standard_errors EXCEPT ![d] = FALSE] /\ hcc_streams' = hcc_streams
    BY <1>6, <2>1 DEF SetError
  <2>3. StdioTypes'
    BY <1>1, <1>3, <1>4, <2>2, <1>6 DEF IInv, StdioTypes
  <2>4. SlotsKept'
    <3>1. held' \ Standard = held \ Standard
      BY <1>1, <1>6
    <3>2. Len(hcc_streams) <= peak /\ Len(hcc_streams) \in Nat /\ peak \in Nat
      BY DEF IInv, SlotsKept, SlotsFor, StdioTypes
    <3>3. Len(hcc_streams') <= peak'
      BY <1>1, <1>4, <2>2, <3>2
    <3> QED BY <1>5, <2>2, <3>1, <3>3 DEF IInv, SlotsKept
  <2>5. ErrorsKept'
    <3>1. \A s \in Standard : hcc_standard_errors'[s] <=> s \in failed'
      BY <1>1, <1>6, <2>2 DEF IInv, ErrorsKept, StdioTypes
    <3>2. \A i \in DOMAIN hcc_streams : hcc_streams[i].fd # None => hcc_streams[i].fd # d
      BY <1>6 DEF IInv, SlotsKept, SlotsFor
    <3>3. ErrorsFor(hcc_streams', failed')
      BY <1>1, <2>2, <3>2 DEF IInv, ErrorsKept, ErrorsFor
    <3> QED BY <3>1, <3>3 DEF ErrorsKept
  <2> QED BY <1>2, <2>3, <2>4, <2>5 DEF IInv
<1>7. CASE d \notin Standard
  <2>1. hcc_streams' = hcc_stream_open(hcc_streams, d) /\ hcc_standard_errors' = hcc_standard_errors
    BY <1>7 DEF fdopen
  <2>2. d \in Descriptors
    BY <1>3, <1>7, StdioAssumption DEF Standard, Descriptors
  <2>3. /\ SlotsFor(hcc_streams', held' \ Standard)
        /\ ErrorsFor(hcc_streams', failed')
        /\ Len(hcc_streams') <= peak'
    BY <1>1, <2>1, <2>2, StreamOpened DEF IInv
  <2>4. StdioTypes'
    BY <1>1, <1>3, <1>4, <2>1 DEF IInv, StdioTypes
  <2>5. \A s \in Standard : hcc_standard_errors'[s] <=> s \in failed'
    BY <1>1, <1>7, <2>1 DEF IInv, ErrorsKept
  <2> QED BY <1>2, <1>5, <2>3, <2>4, <2>5 DEF IInv, SlotsKept, ErrorsKept
<1> QED BY <1>6, <1>7

\* clearerr and a failing read set one indicator between two calls.
LEMMA IndicatorKeeps ==
    ASSUME IInv, NEW s \in Streams, clearerr(s) \/ fread(s) PROVE IInv'
<1>1. /\ call = Idle /\ call' = call
      /\ fds' = fds /\ held' = held /\ raw' = raw /\ peak' = peak
  BY DEF clearerr, fread
<1>2. PICK e \in BOOLEAN : SetError(s, e) /\ failed' = IF e THEN failed \cup {s} ELSE failed \ {s}
  BY DEF clearerr, fread
<1>3. /\ hcc_standard_errors' \in [Standard -> BOOLEAN]
      /\ SlotsFor(hcc_streams', held \ Standard)
      /\ Len(hcc_streams') = Len(hcc_streams)
      /\ ErrorsKept'
  BY <1>2, SetErrorKeeps DEF IInv
<1>4. CallKept'
  BY <1>1, IdleSound
<1> QED BY <1>1, <1>3, <1>4 DEF IInv, StdioTypes, SlotsKept

(***************************************************************************)
(* The write calls.                                                        *)
(***************************************************************************)
LEMMA BytesText == \A n \in Nat : Bytes(n) \in Seq(Nat) /\ Len(Bytes(n)) = n
BY DEF Bytes

\* The first k items of a text and the next n are its first k + n.
LEMMA PrefixGrows ==
    ASSUME NEW text \in Seq(Nat), NEW k \in 0..Len(text), NEW n \in Nat, k + n <= Len(text)
    PROVE  SubSeq(text, 1, k) \o SubSeq(text, k + 1, k + n) = SubSeq(text, 1, k + n)
<1> DEFINE l == k + n
<1>1. 1 \in 1..(Len(text) + 1) /\ k \in (1 - 1)..Len(text) /\ l \in k..Len(text)
  OBVIOUS
<1> HIDE DEF l
<1>2. SubSeq(text, 1, k) \o SubSeq(text, k + 1, l) = SubSeq(text, 1, l)
  BY <1>1, ConcatAdjacentSubSeq
<1> QED BY <1>2 DEF l

\* A size and a count whose product fwrite has not refused fit a size_t.
LEMMA ProductFits ==
    ASSUME NEW size \in Nat \ {0}, NEW count \in Nat \ {0}, ~Overflows(size, count)
    PROVE  size * count \in Nat /\ (size * count) % (SizeMax + 1) = size * count
<1> DEFINE q == SizeMax \div size
<1>1. q \in Nat /\ size * q <= SizeMax
  BY StdioAssumption
<1>2. count <= q
  BY <1>1 DEF Overflows
<1> HIDE DEF q
<1>3. size * count <= size * q
  BY <1>1, <1>2
<1> DEFINE p == size * count
<1>4. p \in Nat /\ p <= SizeMax
  BY <1>1, <1>3, StdioAssumption
<1> HIDE DEF p
<1>5. p % (SizeMax + 1) = p
  BY <1>4, StdioAssumption
<1> QED BY <1>4, <1>5 DEF p

\* A write call that has its data and has written nothing yet.
LEMMA CallWriteKeeps ==
    ASSUME IInv, NEW op \in WriteCalls, NEW s \in Streams, NEW text \in Seq(Nat), NEW size \in Nat,
           op = "fputc" => text = Bytes(1),
           op = "fwrite" => size # 0 /\ \E count \in Nat \ {0} : Len(text) = size * count,
           CallWrite(op, s, text, text, size)
    PROVE  IInv'
<1> DEFINE b == ~HasIndicator(s)
<1>1. /\ call' = [op |-> op, fd |-> s, asked |-> text, data |-> text, size |-> size,
                  done |-> 0, sent |-> <<>>, stopped |-> b]
      /\ UNCHANGED <<fds, hcc_standard_errors, hcc_streams, full, held, raw, failed, peak>>
  BY DEF CallWrite
<1>2. b = FALSE
  BY IndicatorThere DEF IInv
<1> HIDE DEF b
<1>3. StdioTypes' /\ SlotsKept' /\ ErrorsKept'
  BY <1>1 DEF IInv, StdioTypes, SlotsKept, ErrorsKept
<1>4. SubSeq(text, 1, 0) = <<>> /\ <<>> \in Seq(Nat) /\ 0 <= Len(text)
  BY SubSeqEmpty
<1>5. op # "none" /\ op # "fopen"
  BY DEF WriteCalls
<1>6. WriteKept'
  <2>1. call' \in [op : WriteCalls, fd : Streams', asked : Seq(Nat), data : Seq(Nat), size : Nat,
                   done : Nat, sent : Seq(Nat), stopped : BOOLEAN]
    BY <1>1, <1>2, <1>4 DEF Streams
  <2>2. /\ call'.op = op /\ call'.asked = text /\ call'.data = text /\ call'.size = size
        /\ call'.done = 0 /\ call'.sent = <<>> /\ call'.stopped = FALSE
    BY <1>1, <1>2
  <2>3. op = "fwrite" => \E count \in Nat \ {0} : call'.size # 0 /\ Len(call'.asked) = call'.size * count
    BY <2>2
  <2>4. SubSeq(call'.data, 1, call'.done) = call'.sent /\ call'.done <= Len(call'.data)
    BY <1>4, <2>2
  <2> QED BY <2>1, <2>2, <2>3, <2>4 DEF WriteKept
<1>7. CallKept'
  BY <1>1, <1>5, <1>6 DEF CallKept, OpenKept
<1> QED BY <1>3, <1>7 DEF IInv

\* fwrite of more bytes than a size_t counts is refused: the indicator is set,
\* nothing is written and something was asked for.
LEMMA RefusedKeeps ==
    ASSUME IInv, NEW s \in Streams, NEW size \in Nat \ {0}, NEW count \in Nat \ {0},
           SetError(s, TRUE), failed' = failed \cup {s},
           call' = [op |-> "fwrite", fd |-> s, asked |-> Bytes(size * count), data |-> <<>>,
                    size |-> size, done |-> 0, sent |-> <<>>, stopped |-> TRUE],
           UNCHANGED <<fds, held, raw, peak>>
    PROVE  IInv'
<1>1. /\ hcc_standard_errors' \in [Standard -> BOOLEAN]
      /\ SlotsFor(hcc_streams', held \ Standard)
      /\ Len(hcc_streams') = Len(hcc_streams)
      /\ ErrorsKept'
  BY SetErrorKeeps DEF IInv
<1>2. size * count \in Nat /\ size * count # 0
  OBVIOUS
<1>3. Bytes(size * count) \in Seq(Nat) /\ Len(Bytes(size * count)) = size * count
  BY <1>2, BytesText
<1>4. Bytes(size * count) # <<>>
  BY <1>2, <1>3
<1> DEFINE text == Bytes(size * count)
<1>5. text \in Seq(Nat) /\ text # <<>> /\ Len(text) = size * count
  BY <1>3, <1>4
<1>6. call' = [op |-> "fwrite", fd |-> s, asked |-> text, data |-> <<>>,
               size |-> size, done |-> 0, sent |-> <<>>, stopped |-> TRUE]
  OBVIOUS
<1> HIDE DEF text
<1>7. SubSeq(<<>>, 1, 0) = <<>> /\ <<>> \in Seq(Nat) /\ Len(<<>>) = 0
  BY SubSeqEmpty
<1>8. s \in Streams' /\ s \in failed'
  BY DEF Streams
<1>9. WriteKept'
  <2>1. call' \in [op : WriteCalls, fd : Streams', asked : Seq(Nat), data : Seq(Nat), size : Nat,
                   done : Nat, sent : Seq(Nat), stopped : BOOLEAN]
    BY <1>5, <1>6, <1>7, <1>8 DEF WriteCalls
  <2>2. \E n \in Nat \ {0} : call'.size # 0 /\ Len(call'.asked) = call'.size * n
    BY <1>5, <1>6
  <2> QED BY <1>5, <1>6, <1>7, <1>8, <2>1, <2>2 DEF WriteKept
<1>10. CallKept'
  BY <1>6, <1>9 DEF CallKept, OpenKept, WriteCalls
<1> QED BY <1>1, <1>10 DEF IInv, StdioTypes, SlotsKept

\* One turn of the loop of hcc_stream_write.
LEMMA TurnKeeps == IInv /\ hcc_stream_write => IInv'
<1> SUFFICES ASSUME IInv, call.op \in WriteCalls, ~call.stopped, call.done < Len(call.data),
                    NEW n \in write(call.fd, Chunk(Len(call.data) - call.done)), Turn(n)
             PROVE  IInv'
  BY DEF hcc_stream_write
<1> DEFINE data == call.data
           done == call.done
           rest == Len(data) - done
<1>1. /\ call \in [op : WriteCalls, fd : Streams, asked : Seq(Nat), data : Seq(Nat), size : Nat,
                   done : Nat, sent : Seq(Nat), stopped : BOOLEAN]
      /\ call.data = call.asked /\ call.sent = SubSeq(call.data, 1, call.done)
      /\ call.op = "fputc" => call.asked = Bytes(1)
      /\ call.op = "fwrite" => \E count \in Nat \ {0} :
                                  call.size # 0 /\ Len(call.asked) = call.size * count
  BY DEF IInv, CallKept, WriteKept
<1>2. data \in Seq(Nat) /\ Len(data) \in Nat /\ done \in Nat /\ done < Len(data)
  BY <1>1
<1>3. n \in Int /\ n <= rest /\ n <= MaxChunk
  <2>1. rest \in Nat /\ rest >= 1
    BY <1>2
  <2> HIDE DEF rest
  <2>2. Chunk(rest) \in Nat /\ Chunk(rest) <= rest /\ Chunk(rest) <= MaxChunk /\ Chunk(rest) >= 1
    BY <2>1, StdioAssumption DEF Chunk
  <2>3. n \in {-1, 0} \cup 1..Chunk(rest)
    BY DEF write, rest
  <2> HIDE DEF Chunk
  <2> QED BY <2>1, <2>2, <2>3, StdioAssumption
<1>4. AsInt(n) = n /\ (Stops(n) <=> n <= 0)
  BY <1>3, StdioAssumption DEF AsInt, Stops
<1>5. call' = [call EXCEPT !.sent = @ \o SubSeq(data, done + 1, done + n),
                           !.done = IF n <= 0 THEN @ ELSE @ + n,
                           !.stopped = n <= 0]
  <2>1. Stops(AsInt(n)) = (n <= 0)
    BY <1>4 DEF Stops
  <2>2. AsInt(n) = n
    BY <1>4
  <2> QED BY <2>1, <2>2 DEF Turn
<1>6. UNCHANGED <<fds, full, held, raw, peak>>
  BY DEF Turn
<1>7. call'.op = call.op
  BY <1>1, <1>5
<1>8. CASE n <= 0
  <2>1. SetError(call.fd, TRUE) /\ failed' = failed \cup {call.fd}
    BY <1>4, <1>8 DEF Turn
  <2>2. /\ hcc_standard_errors' \in [Standard -> BOOLEAN]
        /\ SlotsFor(hcc_streams', held \ Standard)
        /\ Len(hcc_streams') = Len(hcc_streams)
        /\ ErrorsKept'
    BY <1>1, <2>1, SetErrorKeeps DEF IInv
  <2>3. SubSeq(data, done + 1, done + n) = <<>>
    BY <1>2, <1>3, <1>8, SubSeqEmpty
  <2>4. call.sent \o <<>> = call.sent
    BY <1>1, ConcatEmptySeq
  <2>5. call' = [call EXCEPT !.stopped = TRUE]
    <3> HIDE DEF data, done
    <3>1. call' = [call EXCEPT !.sent = call.sent \o <<>>, !.done = call.done, !.stopped = TRUE]
      BY <1>1, <1>5, <1>8, <2>3
    <3> QED BY <1>1, <2>4, <3>1
  <2>6. call.sent # call.asked
    <3>1. Len(call.sent) = done
      BY <1>1, <1>2
    <3> QED BY <1>1, <1>2, <3>1
  <2>7. WriteKept'
    <3>1. call' \in [op : WriteCalls, fd : Streams', asked : Seq(Nat), data : Seq(Nat), size : Nat,
                     done : Nat, sent : Seq(Nat), stopped : BOOLEAN]
      BY <1>1, <1>6, <2>5 DEF Streams
    <3>2. call'.fd \in failed'
      BY <1>1, <2>1, <2>5
    <3> QED BY <1>1, <1>2, <2>5, <2>6, <3>1, <3>2 DEF WriteKept
  <2>8. CallKept'
    BY <1>7, <2>7 DEF CallKept, OpenKept, WriteCalls
  <2> QED BY <1>6, <2>2, <2>8 DEF IInv, StdioTypes, SlotsKept
<1>9. CASE ~(n <= 0)
  <2>1. UNCHANGED <<hcc_standard_errors, hcc_streams, failed>>
    BY <1>4, <1>9 DEF Turn
  <2>2. n \in Nat /\ done + n \in Nat /\ done + n <= Len(data)
    BY <1>2, <1>3, <1>9
  <2>3. call.sent \o SubSeq(data, done + 1, done + n) = SubSeq(data, 1, done + n)
    <3>1. 1 \in 1..(Len(data) + 1) /\ done \in 0..Len(data) /\ done + n \in done..Len(data)
      BY <1>2, <2>2
    <3>2. SubSeq(data, 1, done) \o SubSeq(data, done + 1, done + n) = SubSeq(data, 1, done + n)
      BY <1>2, <2>2, <3>1, PrefixGrows
    <3> QED BY <1>1, <3>2
  <2>4. call' = [call EXCEPT !.sent = SubSeq(data, 1, done + n), !.done = done + n, !.stopped = FALSE]
    <3>1. (n <= 0) = FALSE
      BY <1>9
    <3> DEFINE now == SubSeq(data, 1, done + n)
    <3>2. call.sent \o SubSeq(data, done + 1, done + n) = now
      BY <2>3
    <3> HIDE DEF now
    <3>3. call' = [call EXCEPT !.sent = now, !.done = done + n, !.stopped = FALSE]
      BY <1>1, <1>5, <3>1, <3>2
    <3> QED BY <3>3 DEF now
  <2>5. SubSeq(data, 1, done + n) \in Seq(Nat)
    <3> DEFINE m == done + n
    <3>1. m \in Nat /\ m <= Len(data)
      BY <2>2
    <3> HIDE DEF m, data
    <3>2. SubSeq(data, 1, m) \in Seq(Nat)
      BY <1>2, <3>1
    <3> QED BY <3>2 DEF m
  <2>6. WriteKept'
    <3>1. call' \in [op : WriteCalls, fd : Streams', asked : Seq(Nat), data : Seq(Nat), size : Nat,
                     done : Nat, sent : Seq(Nat), stopped : BOOLEAN]
      BY <1>1, <1>6, <2>2, <2>4, <2>5 DEF Streams
    <3>2. /\ call'.data = call.data /\ call'.asked = call.asked /\ call'.size = call.size
          /\ call'.done = done + n /\ call'.sent = SubSeq(data, 1, done + n) /\ call'.stopped = FALSE
      BY <1>1, <2>4
    <3> HIDE DEF data, done
    <3> QED BY <1>1, <1>7, <2>2, <3>1, <3>2 DEF WriteKept, data
  <2>7. CallKept'
    BY <1>7, <2>6 DEF CallKept, OpenKept, WriteCalls
  <2> QED BY <1>6, <2>1, <2>7 DEF IInv, StdioTypes, SlotsKept, ErrorsKept
<1> QED BY <1>8, <1>9

\* fputc, fputs, fprintf and fwrite.
LEMMA WriteCallsKeep ==
    ASSUME IInv, NEW s \in Streams,
           \/ fputc(s)
           \/ \E n \in Lengths : fputs(s, n) \/ fprintf(s, n)
           \/ \E i \in Items : fwrite(s, i[1], i[2])
    PROVE  IInv'
<1>1. ASSUME fputc(s) PROVE IInv'
  <2>1. CallWrite("fputc", s, Bytes(1), Bytes(1), 1)
    BY <1>1 DEF fputc
  <2>2. Bytes(1) \in Seq(Nat)
    BY BytesText
  <2> QED BY <2>1, <2>2, CallWriteKeeps DEF WriteCalls
<1>2. ASSUME NEW n \in Lengths, fputs(s, n) PROVE IInv'
  <2>1. CallWrite("fputs", s, Bytes(n), Bytes(n), 1)
    BY <1>2 DEF fputs
  <2>2. Bytes(n) \in Seq(Nat)
    BY BytesText, StdioAssumption
  <2> QED BY <2>1, <2>2, CallWriteKeeps DEF WriteCalls
<1>3. ASSUME NEW n \in Lengths, fprintf(s, n) PROVE IInv'
  <2> DEFINE m == IF n < PrintCap THEN n ELSE PrintCap - 1
  <2>1. n \in Nat /\ m \in Nat
    BY StdioAssumption
  <2>2. CallWrite("fprintf", s, Bytes(m), Bytes(m), n)
    BY <1>3 DEF fprintf
  <2> HIDE DEF m
  <2>3. Bytes(m) \in Seq(Nat)
    BY <2>1, BytesText
  <2> QED BY <2>1, <2>2, <2>3, CallWriteKeeps DEF WriteCalls
<1>4. ASSUME NEW i \in Items, fwrite(s, i[1], i[2]) PROVE IInv'
  <2> DEFINE size == i[1]
             count == i[2]
  <2>1. size \in Nat \ {0} /\ count \in Nat \ {0}
    BY StdioAssumption
  <2>2. fwrite(s, size, count)
    BY <1>4
  <2> HIDE DEF size, count
  <2>3. CASE Overflows(size, count)
    BY <2>1, <2>2, <2>3, RefusedKeeps DEF fwrite
  <2>4. CASE ~Overflows(size, count)
    <3>1. size * count \in Nat /\ (size * count) % (SizeMax + 1) = size * count
      BY <2>1, <2>4, ProductFits
    <3> DEFINE text == Bytes(size * count)
    <3>2. CallWrite("fwrite", s, text, text, size)
      BY <2>2, <2>4, <3>1 DEF fwrite
    <3>3. text \in Seq(Nat) /\ Len(text) = size * count
      BY <3>1, BytesText
    <3> HIDE DEF text
    <3> QED BY <2>1, <3>2, <3>3, CallWriteKeeps DEF WriteCalls
  <2> QED BY <2>3, <2>4
<1> QED BY <1>1, <1>2, <1>3, <1>4

\* Nothing is open when the library starts.
LEMMA StdioInitial == StdioInit => IInv
<1> SUFFICES ASSUME StdioInit PROVE IInv
  OBVIOUS
<1>1. /\ fds \subseteq Standard /\ hcc_standard_errors = [s \in Standard |-> FALSE]
      /\ hcc_streams = <<>> /\ call = Idle /\ held = {} /\ raw = {} /\ failed = {} /\ peak = 0
  BY DEF StdioInit
<1>2. StdioTypes
  BY <1>1, StdioAssumption DEF StdioTypes, Standard
<1>3. hcc_streams \in Seq(Slot) /\ DOMAIN hcc_streams = {} /\ Len(hcc_streams) = 0
  BY <1>1
<1>4. SlotsKept
  BY <1>1, <1>3 DEF SlotsKept, SlotsFor
<1>5. ErrorsKept
  BY <1>1, <1>3 DEF ErrorsKept, ErrorsFor
<1>6. CallKept
  BY <1>1 DEF CallKept, OpenKept, WriteKept, WriteCalls, Idle
<1> QED BY <1>2, <1>4, <1>5, <1>6 DEF IInv

\* Every call of the library keeps the invariant.
LEMMA StdioStep == IInv /\ [StdioNext]_stdioVars => IInv'
<1> SUFFICES ASSUME IInv, [StdioNext]_stdioVars PROVE IInv'
  OBVIOUS
<1>1. CASE fopen
  BY <1>1, CallOpenKeeps DEF fopen
<1>2. CASE \E s \in Streams : freopen(s)
  BY <1>2, CallOpenKeeps DEF freopen
<1>3. CASE Opening
  BY <1>3, OpeningKeeps
<1>4. CASE \E s \in held : fclose(s)
  BY <1>4, CloseKeeps
<1>5. CASE RawOpen \/ \E d \in raw : RawClose(d)
  BY <1>5, RawKeeps
<1>6. CASE \E d \in raw : fdopen(d)
  BY <1>6, FdopenKeeps
<1>7. CASE \E s \in Streams : clearerr(s) \/ fread(s)
  BY <1>7, IndicatorKeeps
<1>8. CASE \/ \E s \in Streams : fputc(s)
           \/ \E s \in Streams, n \in Lengths : fputs(s, n)
           \/ \E s \in Streams, n \in Lengths : fprintf(s, n)
           \/ \E s \in Streams, i \in Items : fwrite(s, i[1], i[2])
  BY <1>8, WriteCallsKeep
<1>9. CASE hcc_stream_write
  BY <1>9, TurnKeeps
<1>10. CASE Return \/ DiskFills \/ UNCHANGED stdioVars
  <2>1. UNCHANGED <<fds, hcc_standard_errors, hcc_streams, held, raw, failed, peak>>
    BY <1>10 DEF Return, DiskFills, stdioVars
  <2>2. StdioTypes' /\ SlotsKept' /\ ErrorsKept'
    BY <2>1 DEF IInv, StdioTypes, SlotsKept, ErrorsKept
  <2>3. call' = Idle \/ call' = call
    BY <1>10 DEF Return, DiskFills, stdioVars
  <2>4. CallKept'
    BY <2>1, <2>3, IdleSound, CallUnchanged DEF IInv
  <2> QED BY <2>2, <2>4 DEF IInv
<1> QED BY <1>1, <1>2, <1>3, <1>4, <1>5, <1>6, <1>7, <1>8, <1>9, <1>10 DEF StdioNext

\* The invariant holds in every state of the library.
THEOREM StdioInvariant == StdioSpec => []IInv
BY StdioInitial, StdioStep, PTL DEF StdioSpec

(***************************************************************************)
(* What the library promises.                                              *)
(***************************************************************************)
\* Streams, slots and descriptors stay in step and no descriptor is lost, for
\* every number of descriptors and whatever fails (hcc_stream_open, fopen,
\* freopen, fclose).
THEOREM StreamsStayKept == StdioSpec => []StreamsKept
<1>1. IInv => StreamsKept
  BY DEF IInv, SlotsKept, SlotsFor, StreamsKept, StreamsSound, SlotsFollowPeak
<1> QED BY <1>1, StdioInvariant, PTL

\* The error indicator of every stream tells whether a call on it has failed
\* since it was opened or cleared (ferror, clearerr, hcc_stream_open).
THEOREM ErrorStaysExact == StdioSpec => []ErrorExact
<1>1. IInv => ErrorExact
  BY IndicatorThere DEF IInv, ErrorExact
<1> QED BY <1>1, StdioInvariant, PTL

\* Whole items: a quotient times the divisor is at most the number, and is the
\* number when that is a multiple.
LEMMA WholeItems ==
    ASSUME NEW n \in Nat, NEW size \in Nat \ {0}
    PROVE  /\ n \div size \in Nat /\ (n \div size) * size <= n
           /\ \A count \in Nat : n = size * count => (n \div size) * size = n
<1>1. n \div size \in Nat /\ (n \div size) * size <= n
  OBVIOUS
<1>2. ASSUME NEW count \in Nat, n = size * count PROVE (n \div size) * size = n
  <2>1. n \div size = count
    BY <1>2
  <2> QED BY <1>2, <2>1
<1> QED BY <1>1, <1>2

\* A write call reports what has happened, for texts of any length and every
\* size and count: what the system took is a prefix of what was asked for, and
\* success is reported exactly when that is all (fputc, fputs, fwrite, fprintf).
THEOREM WritesStayHonest == StdioSpec => []WritesHonest
<1>1. ASSUME IInv, Finished PROVE WritesHonest
  <2> DEFINE data == call.data
             asked == call.asked
             done == call.done
             sent == call.sent
             size == call.size
  <2>1. /\ call.op \in WriteCalls /\ call.fd \in Streams
        /\ asked \in Seq(Nat) /\ data \in Seq(Nat) /\ size \in Nat /\ done \in Nat
        /\ done <= Len(data) /\ sent = SubSeq(data, 1, done)
        /\ data # asked => call.op = "fwrite" /\ data = <<>> /\ call.stopped
        /\ call.op = "fputc" => asked = Bytes(1)
        /\ call.op = "fwrite" => \E count \in Nat \ {0} : size # 0 /\ Len(asked) = size * count
        /\ call.stopped => call.fd \in failed /\ sent # asked
        /\ call.stopped \/ done >= Len(data)
    BY <1>1 DEF IInv, CallKept, WriteKept, Finished
  <2>2. call.fd \in failed => ferror(call.fd)
    BY <1>1, <2>1, IndicatorThere DEF IInv
  <2> HIDE DEF data, asked, done, sent, size
  <2>3. Len(sent) = done /\ sent \in Seq(Nat) /\ Len(data) \in Nat /\ Len(asked) \in Nat
    BY <2>1
  <2>4. CASE data # asked
    <3>1. call.op = "fwrite" /\ data = <<>> /\ done = 0 /\ sent = <<>> /\ sent # asked
      BY <2>1, <2>4, SubSeqEmpty
    <3>2. size \in Nat \ {0} /\ Len(asked) # 0
      <4>1. PICK count \in Nat \ {0} : size # 0 /\ Len(asked) = size * count
        BY <2>1, <3>1
      <4> QED BY <2>1, <4>1
    <3>3. Value = 0
      <4>1. Value = done \div size
        BY <3>1 DEF Value, done, size
      <4> QED BY <3>1, <3>2, <4>1
    <3>4. Complete <=> FALSE
      <4>1. Complete <=> Value * size = Len(asked)
        BY <3>1 DEF Complete, size, asked
      <4> QED BY <3>2, <3>3, <4>1
    <3>5. IsPrefix(sent, asked)
      BY <2>3, <3>1, SubSeqEmpty DEF IsPrefix
    <3>6. 0 = Len(sent) \div size
      BY <2>3, <3>1, <3>2
    <3> QED BY <2>1, <2>2, <2>4, <3>1, <3>3, <3>4, <3>5, <3>6 DEF WritesHonest, sent, asked, size
  <2>5. CASE data = asked
    <3>1. IsPrefix(sent, asked)
      BY <2>1, <2>3, <2>5 DEF IsPrefix
    <3>2. sent = asked <=> done = Len(data)
      <4>1. done = Len(data) => sent = data
        BY <2>1, SubSeqFull
      <4> QED BY <2>3, <2>5, <4>1
    <3>3. call.op = "fwrite" => Value = done \div size
      BY DEF Value, done, size
    <3>4. Complete <=> done = Len(data)
      <4>1. CASE call.op = "fwrite"
        <5>1. Complete <=> (done \div size) * size = Len(asked)
          BY <3>3, <4>1 DEF Complete, size, asked
        <5>2. PICK count \in Nat \ {0} : size # 0 /\ Len(asked) = size * count
          BY <2>1, <4>1
        <5>3. (done \div size) * size <= done /\ (done \div size) \in Nat
          BY <2>1, <5>2, WholeItems
        <5>4. done = Len(asked) => (done \div size) * size = done
          BY <2>1, <5>2, WholeItems
        <5> QED BY <2>1, <2>3, <2>5, <5>1, <5>3, <5>4
      <4>2. CASE call.op = "fputs"
        BY <4>2 DEF Complete, Value, done, data
      <4>3. CASE call.op = "fputc"
        <5>1. Len(data) = 1 /\ data[1] = 1
          BY <2>1, <2>5, <4>3 DEF Bytes
        <5>2. Complete <=> (IF done = 1 THEN data[1] ELSE -1) # -1
          BY <4>3 DEF Complete, Value, done, data
        <5> QED BY <5>1, <5>2
      <4>4. CASE call.op = "fprintf"
        <5>1. Complete <=> (IF done # Len(data) THEN -1 ELSE size) # -1
          BY <4>4 DEF Complete, Value, done, data, size
        <5> QED BY <2>1, <5>1
      <4> QED BY <2>1, <4>1, <4>2, <4>3, <4>4 DEF WriteCalls
    <3>5. sent # asked => ferror(call.fd)
      BY <2>1, <2>2, <3>2
    <3> QED BY <2>3, <3>1, <3>2, <3>3, <3>4, <3>5 DEF WritesHonest, sent, asked, size, done
  <2> QED BY <2>4, <2>5
<1>2. IInv => WritesHonest
  BY <1>1 DEF WritesHonest
<1> QED BY <1>2, StdioInvariant, PTL
===============================================================================
