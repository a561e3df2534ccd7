----------------------------- MODULE PipelineProofs -----------------------------
(***************************************************************************)
(* Pipeline keeps within the memory it has made room for (InBounds), hands *)
(* on what it was given (FilesFaithful) and leaves its input alone         *)
(* (SourceIntact), for all texts, tables, programs and numbers of faults.  *)
(***************************************************************************)
EXTENDS Pipeline, InductionFacts

(***************************************************************************)
(* The size of a buffer.                                                   *)
(***************************************************************************)
\* A table of the first n + 1 values of Doubled.
DoubledUpto(n, g) ==
    /\ g \in [0..n -> Nat \ {0}] /\ g[0] = 1
    /\ \A k \in 1..n : g[k] = 2 * g[k - 1]

\* There is such a table for every n.
LEMMA DoubledTable == \A n \in Nat : \E g : DoubledUpto(n, g)
<1> DEFINE P == {n \in Nat : \E g : DoubledUpto(n, g)}
<1>1. 0 \in P
  <2> DEFINE g == [k \in 0..0 |-> 1]
  <2>1. DoubledUpto(0, g)
    BY DEF DoubledUpto
  <2> HIDE DEF g
  <2> QED BY <2>1
<1>2. ASSUME NEW n \in Nat, n \in P PROVE n + 1 \in P
  <2>1. PICK g : DoubledUpto(n, g)
    BY <1>2
  <2> DEFINE h == [k \in 0..(n + 1) |-> IF k <= n THEN g[k] ELSE 2 * g[n]]
  <2>2. h \in [0..(n + 1) -> Nat \ {0}]
    <3>1. ASSUME NEW k \in 0..(n + 1) PROVE (IF k <= n THEN g[k] ELSE 2 * g[n]) \in Nat \ {0}
      <4>1. g[n] \in Nat \ {0}
        BY <2>1 DEF DoubledUpto
      <4>2. k <= n => g[k] \in Nat \ {0}
        BY <2>1 DEF DoubledUpto
      <4> QED BY <4>1, <4>2
    <3> QED BY <3>1
  <2>3. h[0] = 1
    BY <2>1 DEF DoubledUpto
  <2>4. ASSUME NEW k \in 1..(n + 1) PROVE h[k] = 2 * h[k - 1]
    <3>1. CASE k <= n
      <4>1. g[k] = 2 * g[k - 1]
        BY <2>1, <3>1 DEF DoubledUpto
      <4>2. h[k] = g[k] /\ h[k - 1] = g[k - 1]
        BY <3>1
      <4> QED BY <4>1, <4>2
    <3>2. CASE k = n + 1
      <4>1. h[k] = 2 * g[n] /\ k - 1 = n
        BY <3>2
      <4>2. h[n] = g[n]
        OBVIOUS
      <4> HIDE DEF h
      <4> QED BY <4>1, <4>2
    <3>3. k <= n \/ k = n + 1
      OBVIOUS
    <3> QED BY <3>1, <3>2, <3>3
  <2> HIDE DEF h
  <2>5. DoubledUpto(n + 1, h)
    BY <2>2, <2>3, <2>4 DEF DoubledUpto
  <2>6. n + 1 \in Nat
    OBVIOUS
  <2> QED BY <2>5, <2>6
<1> HIDE DEF P
<1>3. \A n \in Nat : n \in P
  BY <1>1, <1>2, SetInduction
<1> QED BY <1>3 DEF P

\* Two tables agree where both have a value.
LEMMA DoubledAgree ==
    ASSUME NEW n \in Nat, NEW m \in Nat, NEW g, NEW h, DoubledUpto(n, g), DoubledUpto(m, h)
    PROVE  \A k \in Nat : k <= n /\ k <= m => g[k] = h[k]
<1> DEFINE P == {k \in Nat : k <= n /\ k <= m => g[k] = h[k]}
<1>1. 0 \in P
  BY DEF DoubledUpto
<1>2. ASSUME NEW k \in Nat, k \in P PROVE k + 1 \in P
  <2>1. SUFFICES ASSUME k + 1 <= n, k + 1 <= m PROVE g[k + 1] = h[k + 1]
    <3>1. k + 1 \in Nat
      OBVIOUS
    <3> QED BY <3>1
  <2>2. k + 1 \in 1..n /\ k + 1 \in 1..m /\ (k + 1) - 1 = k /\ g[k] = h[k]
    BY <1>2, <2>1
  <2>3. g[k + 1] = 2 * g[(k + 1) - 1] /\ h[k + 1] = 2 * h[(k + 1) - 1]
    BY <2>2 DEF DoubledUpto
  <2> QED BY <2>2, <2>3
<1> HIDE DEF P
<1>3. \A k \in Nat : k \in P
  BY <1>1, <1>2, SetInduction
<1> QED BY <1>3 DEF P

\* Doubled is what its definition says: one, then twice the value before.
LEMMA DoubledIs ==
    /\ Doubled[0] = 1
    /\ \A k \in Nat : Doubled[k] \in Nat /\ Doubled[k] > k
<1> DEFINE At(k) == CHOOSE g : DoubledUpto(k, g)
           d == [k \in Nat |-> At(k)[k]]
           IsDoubled(g) == g = [k \in Nat |-> IF k = 0 THEN 1 ELSE 2 * g[k - 1]]
<1>1. ASSUME NEW k \in Nat PROVE DoubledUpto(k, At(k))
  BY DoubledTable
<1> HIDE DEF At
<1>2. ASSUME NEW k \in Nat PROVE d[k] = IF k = 0 THEN 1 ELSE 2 * d[k - 1]
  <2>1. CASE k = 0
    <3>1. At(0)[0] = 1
      BY <1>1 DEF DoubledUpto
    <3> QED BY <2>1, <3>1
  <2>2. CASE k # 0
    <3>1. k - 1 \in Nat /\ k \in 1..k
      BY <2>2
    <3>2. DoubledUpto(k, At(k)) /\ DoubledUpto(k - 1, At(k - 1))
      BY <1>1, <3>1
    <3>3. At(k)[k] = 2 * At(k)[k - 1]
      BY <3>1, <3>2 DEF DoubledUpto
    <3>4. At(k)[k - 1] = At(k - 1)[k - 1]
      <4>1. k - 1 <= k /\ k - 1 <= k - 1
        BY <3>1
      <4> QED BY <3>1, <3>2, <4>1, DoubledAgree
    <3>5. d[k] = At(k)[k] /\ d[k - 1] = At(k - 1)[k - 1]
      BY <3>1
    <3> QED BY <2>2, <3>3, <3>4, <3>5
  <2> QED BY <2>1, <2>2
<1>3. IsDoubled(d)
  BY <1>2
<1>4. IsDoubled(Doubled)
  <2>1. Doubled = CHOOSE g : IsDoubled(g)
    BY Zenon DEF Doubled
  <2> HIDE DEF IsDoubled, d
  <2> QED BY <1>3, <2>1, Zenon
<1>5. \A k \in Nat : Doubled[k] = IF k = 0 THEN 1 ELSE 2 * Doubled[k - 1]
  BY <1>4
<1> HIDE DEF IsDoubled
<1> DEFINE P == {k \in Nat : Doubled[k] \in Nat /\ Doubled[k] > k}
<1>6. 0 \in P
  BY <1>5
<1>7. ASSUME NEW k \in Nat, k \in P PROVE k + 1 \in P
  <2>1. k + 1 \in Nat /\ k + 1 # 0 /\ (k + 1) - 1 = k
    OBVIOUS
  <2>2. Doubled[k + 1] = 2 * Doubled[k]
    BY <1>5, <2>1
  <2>3. Doubled[k] \in Nat /\ Doubled[k] > k
    BY <1>7
  <2> QED BY <2>1, <2>2, <2>3
<1> HIDE DEF P
<1>8. \A k \in Nat : k \in P
  BY <1>6, <1>7, SetInduction
<1> QED BY <1>5, <1>8 DEF P

\* ensure_chars makes room for as much as was asked for.
LEMMA EnsureChars ==
    ASSUME NEW cap \in Nat, NEW needed \in Nat
    PROVE  ensure_chars(cap, needed) \in Nat /\ ensure_chars(cap, needed) >= needed
<1> DEFINE start == IF cap = 0 THEN FirstCap ELSE cap
           Enough(k) == start * Doubled[k] >= needed
           Good(k) == Enough(k) /\ \A j \in 0..(k - 1) : start * Doubled[j] < needed
<1>1. start \in Nat \ {0}
  BY RuntimeAssumption
<1>2. CASE cap >= needed
  BY <1>2 DEF ensure_chars
<1>3. CASE ~(cap >= needed)
  <2> HIDE DEF start
  <2>1. ensure_chars(cap, needed) = start * Doubled[CHOOSE k \in 0..needed : Good(k)]
    BY <1>3 DEF ensure_chars, start
  <2>2. \A k \in Nat : start * Doubled[k] \in Nat
    BY <1>1, DoubledIs
  <2>3. Enough(needed)
    <3>1. Doubled[needed] \in Nat /\ Doubled[needed] > needed
      BY DoubledIs
    <3> DEFINE d == Doubled[needed]
    <3> HIDE DEF d
    <3>2. d \in Nat /\ d > needed
      BY <3>1 DEF d
    <3>3. start * d >= d
      BY <1>1, <3>2
    <3>4. start * d \in Nat
      BY <1>1, <3>2
    <3> QED BY <3>2, <3>3, <3>4 DEF d
  <2> DEFINE S == {k \in Nat : Enough(k)}
  <2>4. Min(S) \in S /\ \A n \in S : Min(S) <= n
    BY <2>3, LeastNatural
  <2>5. PICK w \in 0..needed : Good(w)
    <3> DEFINE m == Min(S)
    <3>1. m \in Nat /\ Enough(m) /\ m <= needed
      BY <2>3, <2>4
    <3>2. ASSUME NEW j \in 0..(m - 1) PROVE start * Doubled[j] < needed
      <4>1. j \in Nat /\ ~(m <= j)
        BY <3>1
      <4>2. ~Enough(j)
        BY <2>4, <4>1
      <4>3. start * Doubled[j] \in Nat
        BY <2>2, <4>1
      <4> QED BY <4>2, <4>3
    <3> QED BY <3>1, <3>2
  <2> HIDE DEF Good
  <2>6. /\ (CHOOSE k \in 0..needed : Good(k)) \in 0..needed
        /\ Good(CHOOSE k \in 0..needed : Good(k))
    BY <2>5
  <2> DEFINE c == CHOOSE k \in 0..needed : Good(k)
  <2> HIDE DEF c
  <2>7. c \in Nat /\ Enough(c)
    BY <2>6 DEF c, Good
  <2> QED BY <2>1, <2>2, <2>7 DEF c
<1> QED BY <1>2, <1>3

(***************************************************************************)
(* The inductive invariant.                                                *)
(***************************************************************************)
\* The files the running program opens through the runtime, and those it writes.
Opens == IF stage = "client" THEN ClientFiles ELSE IF stage = "hcc1" THEN {"r"} ELSE {}
Writes == Opens \cup (IF stage = "hcpp" THEN {"i"} ELSE IF stage = "hcc-m1" THEN {"m"} ELSE {})

Buffers == [data : Text, cap : Nat]

BufferTypes == buffer \in Buffers /\ result \in Buffers

ObufTypes == obufs \in [1..MaxObufs -> [used : BOOLEAN, data : Text, cap : Nat]]

\* What hcc-m1 writes is left out: it opens no file through the runtime.
FileTypes ==
    /\ exited \in {"no", "ok", "fail", "killed"}
    /\ handles \in [1..MaxHandles -> [file : Files \cup {NoFile}, kept : Text]]
    /\ given \in [Files -> [handle : {-1, 0} \cup 1..MaxHandles, text : Text]]
    /\ out = [file |-> out.file, rest |-> out.rest]
    /\ out.file \in {NoFile} \cup Writes
    /\ stage # "hcc-m1" => out.rest \in Text
    /\ disk = [f \in Files |-> disk[f]]
    /\ disk["s"] \in Text /\ disk["i"] \in Text

\* An entry of the table of handles belongs to the file whose opening it
\* answered, and to no other.
Owners ==
    /\ \A f \in Files, h \in 1..MaxHandles : handles[h].file = f <=> given[f].handle = h
    /\ \A f \in Files : given[f].handle >= 0 => f \in Opens

OnItsWay(f) == IF out.file = f THEN out.rest ELSE <<>>
KeptOf(f) == IF given[f].handle >= 1 THEN handles[given[f].handle].kept ELSE <<>>

\* What was handed over is in the file, on its way there or kept back.
Faithful ==
    exited = "no" =>
        \A f \in Files : given[f].handle >= 0 =>
            disk[f] \in Text /\ given[f].text = disk[f] \o (OnItsWay(f) \o KeptOf(f))

\* What the driver of the programs knows when it opens a file.
Order ==
    /\ stage \in Programs \cup {"none", "client"}
    /\ job \in {"build", "m1", "client"}
    /\ job = "client" <=> stage = "client"
    /\ job = "client" => tries = 0
    /\ stage \in {"hcpp", "hcc1"} => job = "build"
    /\ job = "build" => path \in Paths
    /\ todo \in Text /\ lines \in Seq(Text)
    /\ stage = "hcc1" /\ pc \in {"read", "parse", "same"} => \A f \in Files : given[f].handle = -1
    /\ stage = "hcc1" /\ pc = "same" /\ ret = 1 => result.data = Cwd

FileInv == FileTypes /\ Owners /\ Faithful
BufInv == BufferTypes /\ ObufTypes /\ InBounds
PipeInv == FileInv /\ BufInv /\ Order

\* A step that SourceIntact allows.
Intact ==
    /\ disk'["s"] = disk["s"]
    /\ disk'["i"] # disk["i"] => stage' = "hcpp"

\* The source is nobody's output, and the preprocessed text only that of hcpp.
LEMMA WritesAre ==
    /\ Opens \subseteq Writes /\ Writes \subseteq Files /\ NoFile \notin Files
    /\ "s" \notin Writes /\ ("i" \in Writes => stage = "hcpp") /\ "i" \notin Opens
BY PipelineAssumption, RuntimeAssumption, ClientAssumption DEF Opens, Writes

\* What stdio writes at the end is the rest of the write under way, then what
\* the one handle of the file keeps back.
LEMMA AtExitIs ==
    ASSUME FileTypes, Owners, stage # "hcc-m1", NEW f \in Files
    PROVE  /\ OnItsWay(f) \in Text /\ KeptOf(f) \in Text
           /\ FlattenSeq([h \in 1..MaxHandles |-> IF handles[h].file = f THEN handles[h].kept ELSE <<>>])
                = KeptOf(f)
           /\ AtExit(f) = OnItsWay(f) \o KeptOf(f) /\ AtExit(f) \in Text
<1> DEFINE ss == [h \in 1..MaxHandles |-> IF handles[h].file = f THEN handles[h].kept ELSE <<>>]
<1>1. MaxHandles \in Nat /\ \A h \in 1..MaxHandles : handles[h].kept \in Text
  BY RuntimeAssumption DEF FileTypes
<1>2. <<>> \in Text
  BY DEF Text
<1>3. OnItsWay(f) \in Text /\ KeptOf(f) \in Text
  <2>1. given[f].handle \in {-1, 0} \cup 1..MaxHandles
    BY DEF FileTypes
  <2>2. given[f].handle >= 1 => given[f].handle \in 1..MaxHandles
    BY <2>1
  <2> QED BY <1>1, <1>2, <2>2 DEF OnItsWay, KeptOf, FileTypes
<1>4. ss \in Seq(Seq(Chars)) /\ Len(ss) = MaxHandles
  <2>1. ss \in [1..MaxHandles -> Seq(Chars)]
    BY <1>1, <1>2 DEF Text
  <2> HIDE DEF ss
  <2> QED BY <1>1, <2>1
<1>5. FlattenSeq(ss) = KeptOf(f)
  <2>1. CASE given[f].handle >= 1
    <3> DEFINE j == given[f].handle
    <3>1. j \in 1..MaxHandles
      <4>1. given[f].handle \in {-1, 0} \cup 1..MaxHandles
        BY DEF FileTypes
      <4> QED BY <2>1, <4>1
    <3>2. ss[j] = KeptOf(f)
      <4>1. handles[j].file = f
        BY <3>1 DEF Owners
      <4> QED BY <2>1, <3>1, <4>1 DEF KeptOf
    <3>3. ASSUME NEW i \in 1..MaxHandles, i # j PROVE ss[i] = <<>>
      <4>1. handles[i].file # f
        BY <3>3 DEF Owners
      <4> QED BY <4>1
    <3> HIDE DEF ss, j
    <3> QED BY <1>4, <3>1, <3>2, <3>3, FlattenOnly
  <2>2. CASE ~(given[f].handle >= 1)
    <3>1. ASSUME NEW i \in 1..MaxHandles PROVE ss[i] = <<>>
      <4>1. handles[i].file # f
        <5>1. given[f].handle # i
          BY <2>2
        <5> QED BY <5>1 DEF Owners
      <4> QED BY <4>1
    <3> HIDE DEF ss
    <3>2. FlattenSeq(ss) = <<>>
      BY <1>4, <3>1, FlattenNone
    <3> QED BY <2>2, <3>2 DEF KeptOf
  <2> QED BY <2>1, <2>2
<1>6. AtExit(f) = OnItsWay(f) \o FlattenSeq(ss)
  BY DEF AtExit, OnItsWay
<1>7. OnItsWay(f) \o KeptOf(f) \in Text
  BY <1>3 DEF Text
<1> QED BY <1>3, <1>5, <1>6, <1>7

\* A file the program does not write has nothing on its way.
LEMMA NothingForOthers ==
    ASSUME FileTypes, Owners, NEW f \in Files \ Writes
    PROVE  OnItsWay(f) = <<>> /\ KeptOf(f) = <<>>
<1>1. out.file # f
  BY WritesAre DEF FileTypes
<1>2. ~(given[f].handle >= 0)
  BY WritesAre DEF Owners
<1>3. ~(given[f].handle >= 1)
  <2>1. given[f].handle \in {-1, 0} \cup 1..MaxHandles
    BY DEF FileTypes
  <2> QED BY <1>2, <2>1, RuntimeAssumption
<1> QED BY <1>1, <1>3 DEF OnItsWay, KeptOf

\* A program that gives up leaves the files of the others as they are.
LEMMA ExitFailureStep ==
    ASSUME FileInv, stage # "hcc-m1", stage' = stage, UNCHANGED <<handles, given>>, hcc_exit_failure
    PROVE  FileInv' /\ Intact
<1> USE DEF FileInv
<1>1. exited' = "fail" /\ out' = NoWrite
  BY DEF hcc_exit_failure
<1>2. Writes' = Writes /\ Opens' = Opens
  BY DEF Writes, Opens
<1>3. "s" \in Files /\ "i" \in Files
  BY PipelineAssumption
<1>4. disk' = [f \in Files |-> disk'[f]] /\ disk'["s"] = disk["s"] /\ disk'["i"] \in Text
      /\ (stage # "hcpp" => disk'["i"] = disk["i"])
  <2>1. CASE disk' = disk
    BY <2>1 DEF FileTypes
  <2>2. CASE disk' = [f \in Files |-> disk[f] \o AtExit(f)]
    <3>1. disk["s"] \in Seq(Chars) /\ disk["i"] \in Seq(Chars)
      BY DEF FileTypes, Text
    <3>2. ASSUME NEW f \in Files \ Writes PROVE AtExit(f) = <<>>
      <4>1. OnItsWay(f) = <<>> /\ KeptOf(f) = <<>>
        BY <3>2, NothingForOthers
      <4>2. AtExit(f) = OnItsWay(f) \o KeptOf(f)
        BY <3>2, AtExitIs
      <4>3. <<>> \o <<>> = <<>>
        OBVIOUS
      <4> QED BY <4>1, <4>2, <4>3
    <3>3. disk'["s"] = disk["s"]
      <4>1. AtExit("s") = <<>>
        BY <1>3, <3>2, WritesAre
      <4> QED BY <1>3, <2>2, <3>1, <4>1
    <3>4. stage # "hcpp" => disk'["i"] = disk["i"]
      <4>1. stage # "hcpp" => AtExit("i") = <<>>
        BY <1>3, <3>2, WritesAre
      <4> QED BY <1>3, <2>2, <3>1, <4>1
    <3>5. disk'["i"] \in Text
      <4>1. AtExit("i") \in Seq(Chars)
        <5>1. AtExit("i") \in Text
          BY <1>3, AtExitIs
        <5> QED BY <5>1 DEF Text
      <4> QED BY <1>3, <2>2, <3>1, <4>1 DEF Text
    <3> QED BY <2>2, <3>3, <3>4, <3>5
  <2> QED BY <2>1, <2>2 DEF hcc_exit_failure
<1>5. FileTypes'
  <2>1. out' = [file |-> out'.file, rest |-> out'.rest] /\ out'.file = NoFile /\ out'.rest \in Text
    BY <1>1 DEF NoWrite, Text
  <2>2. disk["s"] \in Text
    BY DEF FileTypes
  <2> QED BY <1>1, <1>2, <1>4, <2>1, <2>2 DEF FileTypes
<1>6. Owners'
  BY <1>2 DEF Owners
<1>7. Faithful'
  BY <1>1 DEF Faithful
<1> QED BY <1>4, <1>5, <1>6, <1>7 DEF Intact

\* It does not matter which two of three texts are joined first.
LEMMA TextAssociates == \A a, b, c \in Text : Associates(a, b, c)
BY Associative DEF Text

\* Splitting what is to be written moves nothing.
LEMMA MovedText ==
    ASSUME NEW d \in Text, NEW a \in Text, NEW b \in Text, NEW k \in Text
    PROVE  d \o ((a \o b) \o k) = (d \o a) \o (b \o k) /\ d \o a \in Text
<1> USE DEF Text
<1>1. Associates(a, b, k)
  BY TextAssociates
<1>2. b \o k \in Text /\ d \o a \in Text
  OBVIOUS
<1>3. Associates(d, a, b \o k)
  <2> DEFINE c == b \o k
  <2>1. c \in Text
    BY <1>2
  <2> HIDE DEF c
  <2>2. Associates(d, a, c)
    BY <2>1, TextAssociates
  <2> QED BY <2>2 DEF c
<1> QED BY <1>1, <1>2, <1>3 DEF Associates

\* A text is what has been written and the rest.
LEMMA SplitText ==
    ASSUME NEW t \in Text, NEW n \in 1..Len(t)
    PROVE  /\ SubSeq(t, 1, n) \in Text /\ SubSeq(t, n + 1, Len(t)) \in Text
           /\ t = SubSeq(t, 1, n) \o SubSeq(t, n + 1, Len(t))
<1> USE DEF Text
<1>1. t \in Seq(Chars) /\ Len(t) \in Nat /\ \A i \in 1..Len(t) : t[i] \in Chars
  OBVIOUS
<1>2. SubSeq(t, 1, n) \in Seq(Chars)
  BY <1>1
<1>3. SubSeq(t, n + 1, Len(t)) \in Seq(Chars)
  BY <1>1
<1>4. SubSeq(t, 1, n) \o SubSeq(t, n + 1, Len(t)) = SubSeq(t, 1, Len(t))
  <2>1. 1 \in 1..(Len(t) + 1) /\ n \in (1 - 1)..Len(t) /\ Len(t) \in n..Len(t)
    BY <1>1
  <2> QED BY <1>1, <2>1, ConcatAdjacentSubSeq
<1>5. SubSeq(t, 1, Len(t)) = t
  BY <1>1, SubSeqFull
<1> QED BY <1>2, <1>3, <1>4, <1>5

\* One turn of the loop of checked_write.
LEMMA WriteStep ==
    ASSUME FileInv, stage # "hcc-m1", stage' = stage, UNCHANGED <<handles, given>>,
           exited = "no", out.rest # <<>>, NEW n \in WriteResults, checked_write(n)
    PROVE  FileInv' /\ Intact
<1> USE DEF FileInv
<1>1. CASE n <= 0
  BY <1>1, ExitFailureStep DEF checked_write, output_failure
<1>2. CASE ~(n <= 0)
  <2>1. /\ disk' = [disk EXCEPT ![out.file] = @ \o SubSeq(out.rest, 1, n)]
        /\ out' = [out EXCEPT !.rest = SubSeq(@, n + 1, Len(@))]
        /\ exited' = exited
    BY <1>2 DEF checked_write
  <2> DEFINE a == SubSeq(out.rest, 1, n)
             b == SubSeq(out.rest, n + 1, Len(out.rest))
  <2>2. out.rest \in Text /\ n \in 1..Len(out.rest)
    <3>1. out.rest \in Text /\ Len(out.rest) \in Nat /\ Len(out.rest) # 0
      BY DEF FileTypes, Text
    <3>2. n \in {-1, 0, 1, Len(out.rest)}
      BY DEF WriteResults
    <3> QED BY <1>2, <3>1, <3>2
  <2>3. a \in Text /\ b \in Text /\ out.rest = a \o b
    BY <2>2, SplitText
  <2>4. out' = [file |-> out.file, rest |-> b]
    BY <2>1 DEF FileTypes
  <2> HIDE DEF a, b
  <2>5. disk' = [disk EXCEPT ![out.file] = disk[out.file] \o a]
    BY <2>1 DEF a
  <2>6. Writes' = Writes /\ Opens' = Opens /\ out.file \in {NoFile} \cup Writes
    BY DEF Writes, Opens, FileTypes
  <2>7. disk = [f \in Files |-> disk[f]] /\ disk' = [f \in Files |-> disk'[f]]
    <3>1. disk = [f \in Files |-> disk[f]]
      BY DEF FileTypes
    <3> QED BY <2>5, <3>1
  <2>8. \A f \in Files : disk'[f] = IF f = out.file THEN disk[f] \o a ELSE disk[f]
    BY <2>5, <2>7
  <2>9. disk'["s"] = disk["s"] /\ (stage # "hcpp" => disk'["i"] = disk["i"]) /\ disk'["i"] \in Text
    <3>1. disk["i"] \o a \in Text /\ disk["i"] \in Text
      BY <2>3 DEF FileTypes, Text
    <3>2. "s" \in Files /\ "i" \in Files
      BY PipelineAssumption
    <3>3. out.file # "s" /\ (stage # "hcpp" => out.file # "i")
      BY <2>6, <3>2, WritesAre
    <3>4. disk'["s"] = disk["s"]
      BY <2>8, <3>2, <3>3
    <3>5. disk'["i"] = (IF "i" = out.file THEN disk["i"] \o a ELSE disk["i"])
      BY <2>8, <3>2
    <3> QED BY <3>1, <3>3, <3>4, <3>5
  <2>10. FileTypes'
    <3>1. out' = [file |-> out'.file, rest |-> out'.rest] /\ out'.file = out.file /\ out'.rest \in Text
      BY <2>3, <2>4
    <3>2. disk'["s"] \in Text
      BY <2>9 DEF FileTypes
    <3> QED BY <2>1, <2>6, <2>7, <2>9, <3>1, <3>2 DEF FileTypes
  <2>11. Owners'
    BY <2>6 DEF Owners
  <2>12. ASSUME NEW f \in Files, given[f].handle >= 0
         PROVE  disk'[f] \in Text /\ given[f].text = disk'[f] \o (OnItsWay(f)' \o KeptOf(f)')
    <3>1. disk[f] \in Text /\ given[f].text = disk[f] \o (OnItsWay(f) \o KeptOf(f))
      BY <2>12 DEF Faithful
    <3>2. KeptOf(f)' = KeptOf(f) /\ KeptOf(f) \in Text
      BY AtExitIs DEF KeptOf
    <3>3. CASE f = out.file
      <4>1. OnItsWay(f) = a \o b /\ OnItsWay(f)' = b /\ disk'[f] = disk[f] \o a
        BY <2>3, <2>4, <2>8, <3>3 DEF OnItsWay
      <4>2. /\ disk[f] \o ((a \o b) \o KeptOf(f)) = (disk[f] \o a) \o (b \o KeptOf(f))
            /\ disk[f] \o a \in Text
        <5> DEFINE k == KeptOf(f)
                   d == disk[f]
        <5>1. k \in Text /\ d \in Text
          BY <3>1, <3>2
        <5> HIDE DEF k, d
        <5>2. d \o ((a \o b) \o k) = (d \o a) \o (b \o k) /\ d \o a \in Text
          BY <2>3, <5>1, MovedText
        <5> QED BY <5>2 DEF k, d
      <4> HIDE DEF FileInv
      <4>3. disk'[f] \o (OnItsWay(f)' \o KeptOf(f)') = disk[f] \o (OnItsWay(f) \o KeptOf(f))
        BY <3>2, <4>1, <4>2
      <4>4. disk'[f] \in Text
        BY <4>1, <4>2
      <4> QED BY <3>1, <4>3, <4>4
    <3>4. CASE f # out.file
      <4>1. OnItsWay(f) = <<>> /\ OnItsWay(f)' = <<>> /\ disk'[f] = disk[f]
        BY <2>4, <2>8, <3>4 DEF OnItsWay
      <4> QED BY <3>1, <3>2, <4>1
    <3> QED BY <3>3, <3>4
  <2>13. Faithful'
    BY <2>1, <2>12 DEF Faithful
  <2> QED BY <2>9, <2>10, <2>11, <2>13 DEF Intact
<1> QED BY <1>1, <1>2

\* An open handle belongs to one file, which the program may open.
LEMMA HandleOwner ==
    ASSUME FileInv, NEW h, GoodHandle(h)
    PROVE  /\ h \in 1..MaxHandles /\ handles[h].file \in Opens
           /\ given[handles[h].file].handle = h
           /\ \A g \in Files : given[g].handle = h => g = handles[h].file
<1>1. h \in 1..MaxHandles /\ handles[h].file # NoFile
  BY DEF GoodHandle
<1>2. handles[h].file \in Files
  BY <1>1 DEF FileInv, FileTypes
<1>3. \A g \in Files : handles[h].file = g <=> given[g].handle = h
  BY <1>1 DEF FileInv, Owners
<1>4. h >= 0
  BY <1>1, RuntimeAssumption
<1>5. \A g \in Files : given[g].handle >= 0 => g \in Opens
  BY DEF FileInv, Owners
<1> QED BY <1>1, <1>2, <1>3, <1>4, <1>5

\* Handles are numbered from one.
LEMMA HandlesCount == \A h \in 1..MaxHandles : h >= 1 /\ h >= 0
BY RuntimeAssumption

\* A step that hands all of a handle's text on: what was kept back for its file
\* and what the caller adds are now on their way, kept back, or both in part.
\* Nothing is on its way before.
LEMMA HandedOn ==
    ASSUME FileInv, stage # "hcc-m1", stage' = stage, Ready,
           NEW h, GoodHandle(h), NEW f, f = handles[h].file,
           exited' = exited, disk' = disk, NEW more \in Text,
           given'[f].text = given[f].text \o more, given'[f].handle >= 0,
           \A g \in Files \ {f} : given'[g] = given[g],
           \A g \in Files \ {f} : given[g].handle >= 0 => OnItsWay(g)' = <<>> /\ KeptOf(g)' = KeptOf(g),
           OnItsWay(f)' \o KeptOf(f)' = handles[h].kept \o more
    PROVE  Faithful'
<1> DEFINE k == handles[h].kept
           d == disk[f]
<1>1. h \in 1..MaxHandles /\ f \in Opens /\ f \in Files /\ given[f].handle = h
  BY HandleOwner, WritesAre
<1>2. h >= 1 /\ h >= 0
  BY <1>1, HandlesCount, Zenon
<1>3. k \in Text /\ KeptOf(f) = k
  BY <1>1, <1>2 DEF FileInv, FileTypes, KeptOf
<1>4. exited = "no" /\ \A g \in Files : OnItsWay(g) = <<>>
  BY DEF Ready, OnItsWay
<1>5. \A g \in Files : given[g].handle >= 0 =>
          disk[g] \in Text /\ given[g].text = disk[g] \o (OnItsWay(g) \o KeptOf(g))
  BY <1>4 DEF FileInv, Faithful
<1> SUFFICES ASSUME NEW g \in Files, given'[g].handle >= 0
             PROVE  disk'[g] \in Text /\ given'[g].text = disk'[g] \o (OnItsWay(g)' \o KeptOf(g)')
  BY DEF Faithful
<1>6. CASE g = f
  <2>1. given'[g].text = given[f].text \o more
    BY <1>1, <1>6
  <2>2. d \in Text /\ given[f].text = d \o (<<>> \o k)
    BY <1>1, <1>2, <1>3, <1>4, <1>5
  <2>3. OnItsWay(g)' \o KeptOf(g)' = k \o more
    BY <1>6
  <2> HIDE DEF k, d
  <2>4. <<>> \o k = k /\ (d \o k) \o more = d \o (k \o more)
    <3>1. <<>> \o k = k
      <4>1. k \in Seq(Chars)
        BY <1>3 DEF Text
      <4> QED BY <4>1
    <3>2. Associates(d, k, more)
      BY <1>3, <2>2, TextAssociates
    <3> QED BY <3>1, <3>2 DEF Associates
  <2>5. disk'[g] = d
    BY <1>6 DEF d
  <2> QED BY <2>1, <2>2, <2>3, <2>4, <2>5
<1>7. CASE g # f
  <2>1. given'[g] = given[g] /\ given[g].handle >= 0
    BY <1>7
  <2>2. OnItsWay(g)' = OnItsWay(g) /\ KeptOf(g)' = KeptOf(g)
    BY <1>4, <1>7, <2>1
  <2> QED BY <1>5, <2>1, <2>2
<1> QED BY <1>6, <1>7

\* What a call on one handle leaves alone: the entries of the other files.
LEMMA OthersKept ==
    ASSUME FileInv, NEW h, GoodHandle(h), NEW f, f = handles[h].file,
           \A j \in 1..MaxHandles : j # h => handles'[j] = handles[j],
           NEW g \in Files \ {f}, given'[g] = given[g]
    PROVE  KeptOf(g)' = KeptOf(g)
<1>1. given[g].handle # h
  BY HandleOwner
<1>2. given[g].handle >= 1 => given[g].handle \in 1..MaxHandles
  BY DEF FileInv, FileTypes
<1> QED BY <1>1, <1>2 DEF KeptOf

\* hcc_handle_flush: what stdio has kept back is on its way.
LEMMA FlushStep ==
    ASSUME FileInv, stage # "hcc-m1", stage' = stage, Ready, given' = given,
           NEW h, hcc_handle_flush(h)
    PROVE  FileInv' /\ Intact
<1>1. CASE ~GoodHandle(h)
  BY <1>1, ExitFailureStep DEF hcc_handle_flush, output_failure
<1>2. CASE GoodHandle(h)
  <2>0. PICK f, k : f = handles[h].file /\ k = handles[h].kept
    OBVIOUS
  <2>1. /\ out' = [file |-> f, rest |-> k] /\ handles' = [handles EXCEPT ![h].kept = <<>>]
        /\ exited' = exited /\ disk' = disk
    BY <1>2, <2>0 DEF hcc_handle_flush
  <2>2. h \in 1..MaxHandles /\ f \in Opens /\ f \in Writes /\ f \in Files /\ given[f].handle = h
    BY <1>2, <2>0, HandleOwner, WritesAre
  <2>3. Writes' = Writes /\ Opens' = Opens
    BY DEF Writes, Opens
  <2>4. handles \in [1..MaxHandles -> [file : Files \cup {NoFile}, kept : Text]] /\ k \in Text
    BY <2>0, <2>2 DEF FileInv, FileTypes
  <2>5. <<>> \in Text
    BY DEF Text
  <2>6. handles' = [handles EXCEPT ![h] = [file |-> f, kept |-> <<>>]]
    <3>1. handles[h] \in [file : Files \cup {NoFile}, kept : Text]
      BY <2>2, <2>4
    <3>2. [handles[h] EXCEPT !.kept = <<>>] = [file |-> f, kept |-> <<>>]
      BY <2>0, <3>1
    <3>3. handles' = [handles EXCEPT ![h] = [handles[h] EXCEPT !.kept = <<>>]]
      BY <2>1, <2>2, <2>4
    <3> QED BY <3>2, <3>3
  <2>7. [file |-> f, kept |-> <<>>] \in [file : Files \cup {NoFile}, kept : Text]
    BY <2>2, <2>5
  <2>8. handles' \in [1..MaxHandles -> [file : Files \cup {NoFile}, kept : Text]]
    BY <2>4, <2>6, <2>7
  <2>9. /\ handles'[h] = [file |-> f, kept |-> <<>>]
        /\ \A j \in 1..MaxHandles : j # h => handles'[j] = handles[j]
        /\ \A j \in 1..MaxHandles : handles'[j].file = handles[j].file
    BY <2>0, <2>2, <2>4, <2>6
  <2>10. FileTypes'
    BY <2>1, <2>2, <2>3, <2>4, <2>8 DEF FileInv, FileTypes
  <2>11. Owners'
    BY <2>3, <2>9 DEF FileInv, Owners
  <2>12. \A g \in Files \ {f} : OnItsWay(g)' = <<>> /\ KeptOf(g)' = KeptOf(g)
    <3> SUFFICES ASSUME NEW g \in Files \ {f} PROVE OnItsWay(g)' = <<>> /\ KeptOf(g)' = KeptOf(g)
      OBVIOUS
    <3>1. OnItsWay(g)' = <<>>
      BY <2>1 DEF OnItsWay
    <3>2. KeptOf(g)' = KeptOf(g)
      BY <1>2, <2>0, <2>9, OthersKept
    <3> QED BY <3>1, <3>2
  <2>13. OnItsWay(f)' \o KeptOf(f)' = k \o <<>>
    <3>1. OnItsWay(f)' = k
      BY <2>1 DEF OnItsWay
    <3>2. given[f].handle >= 1
      BY <2>2, RuntimeAssumption
    <3>3. KeptOf(f)' = <<>>
      BY <2>2, <2>9, <3>2 DEF KeptOf
    <3> QED BY <3>1, <3>3
  <2>14. given'[f].text = given[f].text \o <<>> /\ given'[f].handle >= 0
    <3>1. given[f].text \in Text
      BY <2>2 DEF FileInv, FileTypes
    <3> QED BY <2>2, <3>1, RuntimeAssumption DEF Text
  <2>15. Faithful'
    BY <1>2, <2>0, <2>1, <2>5, <2>12, <2>13, <2>14, HandedOn
  <2> QED BY <2>1, <2>10, <2>11, <2>15 DEF FileInv, Intact
<1> QED BY <1>1, <1>2

\* hcc_obuf_write: the text of the buffer follows what was kept back.
LEMMA ObufWriteStep ==
    ASSUME FileInv, ObufTypes, stage # "hcc-m1", stage' = stage, Ready,
           NEW h, NEW o, hcc_obuf_write(h, o)
    PROVE  FileInv' /\ Intact
<1>0. Writes' = Writes /\ Opens' = Opens
  BY DEF Writes, Opens
<1>1. CASE ~GoodHandle(h) \/ ~GoodObuf(o)
  BY <1>1, ExitFailureStep DEF hcc_obuf_write, output_failure
<1>2. CASE GoodHandle(h) /\ GoodObuf(o) /\ obufs[o].data = <<>>
  <2>1. UNCHANGED <<exited, handles, given, out, disk>>
    BY <1>2 DEF hcc_obuf_write
  <2>2. \A g \in Files : OnItsWay(g)' = OnItsWay(g) /\ KeptOf(g)' = KeptOf(g)
    BY <2>1 DEF OnItsWay, KeptOf
  <2> QED BY <1>0, <2>1, <2>2 DEF FileInv, FileTypes, Owners, Faithful, Intact
<1>3. CASE GoodHandle(h) /\ GoodObuf(o) /\ obufs[o].data # <<>>
  <2>0. PICK f, k, more : f = handles[h].file /\ k = handles[h].kept /\ more = obufs[o].data
    OBVIOUS
  <2>1. /\ given' = [g \in Files |->
              IF given[g].handle = h THEN [given[g] EXCEPT !.text = @ \o more] ELSE given[g]]
        /\ \/ out' = [file |-> f, rest |-> k \o more] /\ handles' = [handles EXCEPT ![h].kept = <<>>]
           \/ handles' = [handles EXCEPT ![h].kept = k \o more] /\ out' = out
        /\ exited' = exited /\ disk' = disk
    BY <1>3, <2>0 DEF hcc_obuf_write
  <2>2. h \in 1..MaxHandles /\ f \in Opens /\ f \in Writes /\ f \in Files /\ given[f].handle = h
        /\ \A g \in Files : given[g].handle = h => g = f
    BY <1>3, <2>0, HandleOwner, WritesAre
  <2>3. /\ handles \in [1..MaxHandles -> [file : Files \cup {NoFile}, kept : Text]]
        /\ given \in [Files -> [handle : {-1, 0} \cup 1..MaxHandles, text : Text]]
        /\ k \in Text
    BY <2>0, <2>2 DEF FileInv, FileTypes
  <2>4. more \in Text /\ <<>> \in Text /\ k \o more \in Text /\ <<>> \o (k \o more) = k \o more
        /\ (k \o more) \o <<>> = k \o more
    <3>1. more \in Text
      BY <1>3, <2>0 DEF ObufTypes, GoodObuf
    <3> QED BY <2>3, <3>1 DEF Text
  <2>5. PICK kept \in {<<>>, k \o more} :
           /\ handles' = [handles EXCEPT ![h] = [file |-> f, kept |-> kept]]
           /\ kept = <<>> => out' = [file |-> f, rest |-> k \o more]
           /\ kept # <<>> => out' = out
           /\ kept = k \o more \/ out' = [file |-> f, rest |-> k \o more]
    <3>1. handles[h] \in [file : Files \cup {NoFile}, kept : Text]
      BY <2>2, <2>3
    <3>2. \A x : [handles[h] EXCEPT !.kept = x] = [file |-> f, kept |-> x]
      BY <2>0, <3>1
    <3>3. \A x : [handles EXCEPT ![h].kept = x] = [handles EXCEPT ![h] = [file |-> f, kept |-> x]]
      BY <2>2, <2>3, <3>2
    <3>4. k \o more # <<>>
      BY <1>3, <2>0, <2>3, <2>4 DEF Text
    <3>5. CASE out' = [file |-> f, rest |-> k \o more] /\ handles' = [handles EXCEPT ![h].kept = <<>>]
      BY <3>3, <3>5
    <3>6. CASE handles' = [handles EXCEPT ![h].kept = k \o more] /\ out' = out
      BY <3>3, <3>4, <3>6
    <3> QED BY <2>1, <3>5, <3>6
  <2>6. kept \in Text
    BY <2>4, <2>5
  <2>7. [file |-> f, kept |-> kept] \in [file : Files \cup {NoFile}, kept : Text]
    BY <2>2, <2>6
  <2>8. handles' \in [1..MaxHandles -> [file : Files \cup {NoFile}, kept : Text]]
    BY <2>3, <2>5, <2>7
  <2>9. /\ handles'[h] = [file |-> f, kept |-> kept]
        /\ \A j \in 1..MaxHandles : j # h => handles'[j] = handles[j]
        /\ \A j \in 1..MaxHandles : handles'[j].file = handles[j].file
    BY <2>0, <2>2, <2>3, <2>5
  <2>10. /\ given'[f] = [handle |-> h, text |-> given[f].text \o more]
         /\ \A g \in Files \ {f} : given'[g] = given[g]
    <3>1. given[f] \in [handle : {-1, 0} \cup 1..MaxHandles, text : Text]
      BY <2>2, <2>3
    <3>2. [given[f] EXCEPT !.text = @ \o more] = [handle |-> h, text |-> given[f].text \o more]
      <4>1. given[f] = [handle |-> h, text |-> given[f].text]
        BY <2>2, <3>1
      <4>2. \A t, x : [[handle |-> h, text |-> t] EXCEPT !.text = x] = [handle |-> h, text |-> x]
        OBVIOUS
      <4>3. [given[f] EXCEPT !.text = given[f].text \o more] = [handle |-> h, text |-> given[f].text \o more]
        BY <4>1, <4>2
      <4> QED BY <4>3
    <3>3. given'[f] = [given[f] EXCEPT !.text = @ \o more]
      BY <2>1, <2>2
    <3>4. \A g \in Files \ {f} : given[g].handle # h
      BY <2>2
    <3> QED BY <2>1, <3>2, <3>3, <3>4
  <2>11. given' \in [Files -> [handle : {-1, 0} \cup 1..MaxHandles, text : Text]]
    <3>1. given[f].text \in Text
      BY <2>2, <2>3
    <3>2. given[f].text \o more \in Text
      BY <2>4, <3>1 DEF Text
    <3>3. [handle |-> h, text |-> given[f].text \o more] \in [handle : {-1, 0} \cup 1..MaxHandles, text : Text]
      BY <2>2, <3>2
    <3>4. \A g \in Files : given'[g] \in [handle : {-1, 0} \cup 1..MaxHandles, text : Text]
      BY <2>3, <2>10, <3>3
    <3>5. given' = [g \in Files |-> given'[g]]
      BY <2>1
    <3> HIDE DEF FileInv
    <3> QED BY <3>4, <3>5
  <2>12. out' = [file |-> out'.file, rest |-> out'.rest] /\ out'.file \in {NoFile} \cup Writes /\ out'.rest \in Text
    <3>1. CASE out' = [file |-> f, rest |-> k \o more]
      BY <2>2, <2>4, <3>1
    <3>2. CASE out' = out
      BY <3>2 DEF FileInv, FileTypes
    <3> QED BY <2>1, <3>1, <3>2
  <2>13. FileTypes'
    BY <1>0, <2>1, <2>8, <2>11, <2>12 DEF FileInv, FileTypes
  <2>14. Owners'
    <3>1. \A g \in Files : given'[g].handle = given[g].handle
      BY <2>2, <2>10
    <3> QED BY <1>0, <2>9, <3>1 DEF FileInv, Owners
  <2>15. \A g \in Files \ {f} : OnItsWay(g)' = <<>> /\ KeptOf(g)' = KeptOf(g)
    <3> SUFFICES ASSUME NEW g \in Files \ {f} PROVE OnItsWay(g)' = <<>> /\ KeptOf(g)' = KeptOf(g)
      OBVIOUS
    <3>1. OnItsWay(g)' = <<>>
      BY <2>1 DEF OnItsWay, Ready
    <3>2. KeptOf(g)' = KeptOf(g)
      <4>1. given'[g] = given[g]
        BY <2>10
      <4>2. FileInv /\ GoodHandle(h) /\ f = handles[h].file
        BY <1>3, <2>0
      <4> QED BY <2>9, <4>1, <4>2, OthersKept
    <3> QED BY <3>1, <3>2
  <2>16. OnItsWay(f)' \o KeptOf(f)' = k \o more
    <3>1. given'[f].handle = h /\ h >= 1
      BY <2>2, <2>10, RuntimeAssumption
    <3>2. KeptOf(f)' = kept
      BY <2>2, <2>9, <3>1 DEF KeptOf
    <3>3. CASE out' = [file |-> f, rest |-> k \o more] /\ kept = <<>>
      BY <2>4, <3>2, <3>3 DEF OnItsWay
    <3>4. CASE out' = out /\ kept = k \o more
      <4>1. OnItsWay(f)' = <<>>
        BY <3>4 DEF OnItsWay, Ready
      <4> QED BY <2>4, <3>2, <3>4, <4>1
    <3> QED BY <2>5, <3>3, <3>4
  <2>17. given'[f].text = given[f].text \o more /\ given'[f].handle >= 0
    BY <2>2, <2>10, RuntimeAssumption
  <2>18. Faithful'
    <3>1. GoodHandle(h) /\ exited' = exited /\ disk' = disk /\ f = handles[h].file /\ more \in Text
      BY <1>3, <2>0, <2>1, <2>4
    <3>2. \A g \in Files \ {f} : given'[g] = given[g]
      BY <2>10
    <3>3. OnItsWay(f)' \o KeptOf(f)' = handles[h].kept \o more
      BY <2>0, <2>16
    <3> HIDE DEF FileInv
    <3> QED BY <2>15, <2>17, <3>1, <3>2, <3>3, HandedOn
  <2> QED BY <2>1, <2>13, <2>14, <2>18 DEF FileInv, Intact
<1> QED BY <1>1, <1>2, <1>3

\* hcc_close: what was kept back is written after the handle has been given up.
LEMMA CloseStep ==
    ASSUME FileInv, stage # "hcc-m1", stage' = stage, Ready, NEW h, hcc_close(h)
    PROVE  FileInv' /\ Intact
<1>0. Writes' = Writes /\ Opens' = Opens
  BY DEF Writes, Opens
<1>1. CASE ~GoodHandle(h)
  <2>1. UNCHANGED <<exited, handles, given, out, disk>>
    BY <1>1 DEF hcc_close
  <2>2. \A g \in Files : OnItsWay(g)' = OnItsWay(g) /\ KeptOf(g)' = KeptOf(g)
    BY <2>1 DEF OnItsWay, KeptOf
  <2> QED BY <1>0, <2>1, <2>2 DEF FileInv, FileTypes, Owners, Faithful, Intact
<1>2. CASE GoodHandle(h) /\ hcc_exit_failure /\ UNCHANGED <<handles, given>>
  BY <1>2, ExitFailureStep
<1>3. CASE GoodHandle(h) /\ ~(hcc_exit_failure /\ UNCHANGED <<handles, given>>)
  <2>0. PICK f, k : f = handles[h].file /\ k = handles[h].kept
    OBVIOUS
  <2>1. /\ out' = [file |-> f, rest |-> k] /\ handles' = [handles EXCEPT ![h] = Closed]
        /\ given' = [g \in Files |->
              IF given[g].handle = h THEN [given[g] EXCEPT !.handle = 0] ELSE given[g]]
        /\ exited' = exited /\ disk' = disk
    BY <1>3, <2>0 DEF hcc_close, output_failure
  <2>2. h \in 1..MaxHandles /\ f \in Opens /\ f \in Writes /\ f \in Files /\ given[f].handle = h
        /\ \A g \in Files : given[g].handle = h => g = f
    BY <1>3, <2>0, HandleOwner, WritesAre
  <2>3. /\ handles \in [1..MaxHandles -> [file : Files \cup {NoFile}, kept : Text]]
        /\ given \in [Files -> [handle : {-1, 0} \cup 1..MaxHandles, text : Text]]
        /\ k \in Text
    BY <2>0, <2>2 DEF FileInv, FileTypes
  <2>4. <<>> \in Text /\ Closed = [file |-> NoFile, kept |-> <<>>]
    BY DEF Text, Closed
  <2>5. [file |-> NoFile, kept |-> <<>>] \in [file : Files \cup {NoFile}, kept : Text]
    BY <2>4
  <2>6. handles' \in [1..MaxHandles -> [file : Files \cup {NoFile}, kept : Text]]
    BY <2>1, <2>3, <2>4, <2>5
  <2>7. /\ handles'[h].file = NoFile
        /\ \A j \in 1..MaxHandles : j # h => handles'[j] = handles[j]
    BY <2>1, <2>2, <2>3, <2>4
  <2>8. /\ given'[f] = [handle |-> 0, text |-> given[f].text]
        /\ \A g \in Files \ {f} : given'[g] = given[g]
    <3>1. given[f] \in [handle : {-1, 0} \cup 1..MaxHandles, text : Text]
      BY <2>2, <2>3
    <3>2. [given[f] EXCEPT !.handle = 0] = [handle |-> 0, text |-> given[f].text]
      BY <2>2, <3>1
    <3>3. given'[f] = [given[f] EXCEPT !.handle = 0]
      BY <2>1, <2>2
    <3>4. \A g \in Files \ {f} : given[g].handle # h
      BY <2>2
    <3> QED BY <2>1, <3>2, <3>3, <3>4
  <2>9. given' \in [Files -> [handle : {-1, 0} \cup 1..MaxHandles, text : Text]]
    <3>1. given[f].text \in Text
      BY <2>2, <2>3
    <3>2. [handle |-> 0, text |-> given[f].text] \in [handle : {-1, 0} \cup 1..MaxHandles, text : Text]
      BY <3>1
    <3>3. \A g \in Files : given'[g] \in [handle : {-1, 0} \cup 1..MaxHandles, text : Text]
      BY <2>3, <2>8, <3>2
    <3>4. given' = [g \in Files |-> given'[g]]
      BY <2>1
    <3> HIDE DEF FileInv
    <3> QED BY <3>3, <3>4
  <2>10. FileTypes'
    <3>1. out' = [file |-> out'.file, rest |-> out'.rest] /\ out'.file \in {NoFile} \cup Writes /\ out'.rest \in Text
      BY <2>1, <2>2, <2>3
    <3> QED BY <1>0, <2>1, <2>6, <2>9, <3>1 DEF FileInv, FileTypes
  <2>11. Owners'
    <3>1. NoFile \notin Files /\ 0 \notin 1..MaxHandles
      BY RuntimeAssumption
    <3>2. ASSUME NEW g \in Files, NEW j \in 1..MaxHandles
          PROVE  handles'[j].file = g <=> given'[g].handle = j
      <4>1. handles[j].file = g <=> given[g].handle = j
        BY DEF FileInv, Owners
      <4>2. CASE j = h
        <5>1. handles'[j].file # g
          BY <2>7, <3>1, <4>2
        <5>2. given'[g].handle # j
          <6>1. CASE g = f
            BY <2>8, <3>1, <6>1
          <6>2. CASE g # f
            <7>1. given'[g] = given[g] /\ given[g].handle # h
              BY <2>2, <2>8, <6>2
            <7> QED BY <4>2, <7>1
          <6> QED BY <6>1, <6>2
        <5> QED BY <5>1, <5>2
      <4>3. CASE j # h
        <5>1. handles'[j] = handles[j]
          BY <2>7, <4>3
        <5>2. given'[g].handle = j <=> given[g].handle = j
          <6>1. CASE g = f
            BY <2>2, <2>8, <3>1, <4>3, <6>1
          <6>2. CASE g # f
            BY <2>8, <6>2
          <6> QED BY <6>1, <6>2
        <5> QED BY <4>1, <5>1, <5>2
      <4> QED BY <4>2, <4>3
    <3>3. ASSUME NEW g \in Files, given'[g].handle >= 0 PROVE g \in Opens
      <4>1. CASE g = f
        BY <2>2, <4>1
      <4>2. CASE g # f
        BY <2>8, <3>3, <4>2 DEF FileInv, Owners
      <4> QED BY <4>1, <4>2
    <3> QED BY <1>0, <3>2, <3>3 DEF Owners
  <2>12. \A g \in Files \ {f} : OnItsWay(g)' = <<>> /\ KeptOf(g)' = KeptOf(g)
    <3> SUFFICES ASSUME NEW g \in Files \ {f} PROVE OnItsWay(g)' = <<>> /\ KeptOf(g)' = KeptOf(g)
      OBVIOUS
    <3>1. OnItsWay(g)' = <<>>
      BY <2>1 DEF OnItsWay
    <3>2. KeptOf(g)' = KeptOf(g)
      BY <1>3, <2>0, <2>7, <2>8, OthersKept
    <3> QED BY <3>1, <3>2
  <2>13. OnItsWay(f)' \o KeptOf(f)' = k \o <<>>
    <3>1. OnItsWay(f)' = k
      BY <2>1 DEF OnItsWay
    <3>2. KeptOf(f)' = <<>>
      <4>1. given'[f].handle = 0
        BY <2>8
      <4> QED BY <4>1 DEF KeptOf
    <3> QED BY <3>1, <3>2
  <2>14. given'[f].text = given[f].text \o <<>> /\ given'[f].handle >= 0
    <3>1. given[f].text \in Text
      BY <2>2, <2>3
    <3> QED BY <2>8, <3>1 DEF Text
  <2>15. Faithful'
    <3>1. GoodHandle(h) /\ exited' = exited /\ disk' = disk /\ f = handles[h].file /\ <<>> \in Text
      BY <1>3, <2>0, <2>1, <2>4
    <3>2. \A g \in Files \ {f} : given'[g] = given[g]
      BY <2>8
    <3>3. OnItsWay(f)' \o KeptOf(f)' = handles[h].kept \o <<>>
      BY <2>0, <2>13
    <3> HIDE DEF FileInv
    <3> QED BY <2>12, <2>14, <3>1, <3>2, <3>3, HandedOn
  <2> QED BY <2>1, <2>10, <2>11, <2>15 DEF FileInv, Intact
<1> QED BY <1>1, <1>2, <1>3

\* The entry a table gives is free.
LEMMA FreeHandle ==
    /\ alloc_handle \in {0} \cup 1..MaxHandles
    /\ alloc_handle # 0 => handles[alloc_handle].file = NoFile
<1> DEFINE free == {i \in 1..MaxHandles : ~(handles[i].file # NoFile)}
<1>1. alloc_handle = IF free = {} THEN 0 ELSE CHOOSE i \in free : \A j \in free : i <= j
  BY DEF alloc_handle, FirstFree
<1>2. CASE free # {}
  <2>1. free \subseteq Nat
    OBVIOUS
  <2> HIDE DEF free
  <2>2. \E i \in free : \A j \in free : i <= j
    BY <1>2, <2>1, LeastNatural
  <2>3. alloc_handle \in free
    BY <1>1, <1>2, <2>2
  <2> QED BY <2>3 DEF free
<1> QED BY <1>1, <1>2

\* alloc_obuf finds an entry that is not used, or none.
LEMMA FreeObufEntry ==
    /\ alloc_obuf \in {0} \cup 1..MaxObufs
    /\ alloc_obuf # 0 => ~obufs[alloc_obuf].used
<1> DEFINE free == {i \in 1..MaxObufs : ~obufs[i].used}
<1>1. alloc_obuf = IF free = {} THEN 0 ELSE CHOOSE i \in free : \A j \in free : i <= j
  BY DEF alloc_obuf, FirstFree
<1>2. CASE free # {}
  <2>1. free \subseteq Nat
    OBVIOUS
  <2> HIDE DEF free
  <2>2. \E i \in free : \A j \in free : i <= j
    BY <1>2, <2>1, LeastNatural
  <2>3. alloc_obuf \in free
    BY <1>1, <1>2, <2>2
  <2> QED BY <2>3 DEF free
<1> QED BY <1>1, <1>2

\* A step that touches no file.
LEMMA FilesStay ==
    ASSUME FileInv, stage' = stage, UNCHANGED <<exited, handles, out, disk, given>>
    PROVE  FileInv' /\ Intact
<1>0. Writes' = Writes /\ Opens' = Opens
  BY DEF Writes, Opens
<1>1. \A g \in Files : OnItsWay(g)' = OnItsWay(g) /\ KeptOf(g)' = KeptOf(g)
  BY DEF OnItsWay, KeptOf
<1> QED BY <1>0, <1>1 DEF FileInv, FileTypes, Owners, Faithful, Intact

\* hcc_open_write: the file is emptied and, unless the table is full, gets an
\* entry no other file has.
LEMMA OpenStep ==
    ASSUME FileInv, stage # "hcc-m1", stage' = stage, Ready, UNCHANGED <<exited, out>>,
           NEW f \in Opens, given[f].handle < 1, hcc_open_write(f)
    PROVE  FileInv' /\ Intact /\ alloc_handle \in {0} \cup 1..MaxHandles /\ ret' \in {0, alloc_handle}
<1>0. Writes' = Writes /\ Opens' = Opens
  BY DEF Writes, Opens
<1>1. CASE UNCHANGED <<disk, handles, given>> /\ ret' = 0
  BY <1>1, FilesStay, FreeHandle
<1>2. CASE ~(UNCHANGED <<disk, handles, given>> /\ ret' = 0)
  <2>0. PICK h : h = alloc_handle
    OBVIOUS
  <2>1. /\ disk' = [disk EXCEPT ![f] = <<>>]
        /\ ret' = h
        /\ given' = [given EXCEPT ![f] = [handle |-> h, text |-> <<>>]]
        /\ handles' = IF h = 0 THEN handles ELSE [handles EXCEPT ![h] = [file |-> f, kept |-> <<>>]]
    BY <1>2, <2>0 DEF hcc_open_write
  <2>2. h \in {0} \cup 1..MaxHandles /\ (h # 0 => handles[h].file = NoFile)
    BY <2>0, FreeHandle
  <2>3. f \in Writes /\ f \in Files /\ f # "s" /\ f # "i" /\ f # NoFile
    BY WritesAre
  <2>4. /\ handles \in [1..MaxHandles -> [file : Files \cup {NoFile}, kept : Text]]
        /\ given \in [Files -> [handle : {-1, 0} \cup 1..MaxHandles, text : Text]]
        /\ disk = [g \in Files |-> disk[g]]
    BY DEF FileInv, FileTypes
  <2>5. <<>> \in Text /\ <<>> \o (<<>> \o <<>>) = <<>>
    BY DEF Text
  <2>6. [file |-> f, kept |-> <<>>] \in [file : Files \cup {NoFile}, kept : Text]
    BY <2>3, <2>5
  <2>7. handles' \in [1..MaxHandles -> [file : Files \cup {NoFile}, kept : Text]]
    BY <2>1, <2>2, <2>4, <2>6
  <2>8. /\ h # 0 => handles'[h] = [file |-> f, kept |-> <<>>]
        /\ \A j \in 1..MaxHandles : j # h => handles'[j] = handles[j]
    BY <2>1, <2>2, <2>4
  <2>9. [handle |-> h, text |-> <<>>] \in [handle : {-1, 0} \cup 1..MaxHandles, text : Text]
    BY <2>2, <2>5
  <2>10. given' \in [Files -> [handle : {-1, 0} \cup 1..MaxHandles, text : Text]]
    BY <2>1, <2>4, <2>9
  <2>11. given'[f] = [handle |-> h, text |-> <<>>] /\ \A g \in Files \ {f} : given'[g] = given[g]
    BY <2>1, <2>3, <2>4
  <2>12. /\ disk' = [g \in Files |-> disk'[g]] /\ disk'[f] = <<>>
         /\ \A g \in Files \ {f} : disk'[g] = disk[g]
    BY <2>1, <2>3, <2>4
  <2>13. disk'["s"] = disk["s"] /\ disk'["i"] = disk["i"]
    BY <2>3, <2>12, PipelineAssumption
  <2>14. FileTypes'
    BY <1>0, <2>7, <2>10, <2>12, <2>13 DEF FileInv, FileTypes
  <2>15. \A g \in Files, j \in 1..MaxHandles : handles[j].file = g <=> given[g].handle = j
    BY DEF FileInv, Owners
  <2>16. NoFile \notin Files /\ 0 \notin 1..MaxHandles /\ \A j \in 1..MaxHandles : j >= 1
    BY RuntimeAssumption
  <2>17. Owners'
    <3>1. ASSUME NEW g \in Files, NEW j \in 1..MaxHandles
          PROVE  handles'[j].file = g <=> given'[g].handle = j
      <4>1. CASE j = h
        <5>1. handles'[j].file = f /\ given'[f].handle = j
          BY <2>8, <2>11, <2>16, <4>1
        <5>2. g # f => given'[g].handle # j
          <6>1. handles[j].file # g
            BY <2>2, <2>16, <4>1
          <6> QED BY <2>11, <2>15, <6>1
        <5> QED BY <5>1, <5>2
      <4>2. CASE j # h
        <5>1. handles'[j] = handles[j]
          BY <2>8, <4>2
        <5>2. CASE g = f
          <6>1. given[f].handle # j
            BY <2>16
          <6>2. given'[f].handle # j
            BY <2>11, <4>2
          <6> QED BY <2>15, <5>1, <5>2, <6>1, <6>2
        <5>3. CASE g # f
          BY <2>11, <2>15, <5>1, <5>3
        <5> QED BY <5>2, <5>3
      <4> QED BY <4>1, <4>2
    <3>2. ASSUME NEW g \in Files, given'[g].handle >= 0 PROVE g \in Opens
      BY <2>11, <3>2 DEF FileInv, Owners
    <3> QED BY <1>0, <3>1, <3>2 DEF Owners
  <2>18. \A g \in Files : OnItsWay(g)' = <<>> /\ OnItsWay(g) = <<>>
    BY DEF OnItsWay, Ready
  <2>19. ASSUME NEW g \in Files, given'[g].handle >= 0
         PROVE  disk'[g] \in Text /\ given'[g].text = disk'[g] \o (OnItsWay(g)' \o KeptOf(g)')
    <3>1. CASE g = f
      <4>1. KeptOf(g)' = <<>>
        <5>1. CASE h = 0
          BY <2>11, <3>1, <5>1 DEF KeptOf
        <5>2. CASE h # 0
          BY <2>8, <2>11, <3>1, <5>2 DEF KeptOf
        <5> QED BY <5>1, <5>2
      <4>2. given'[g].text = <<>> /\ disk'[g] = <<>> /\ OnItsWay(g)' = <<>>
        BY <2>11, <2>12, <2>18, <3>1
      <4>3. given'[g].text = disk'[g] \o (OnItsWay(g)' \o KeptOf(g)')
        BY <2>5, <4>1, <4>2
      <4> QED BY <2>5, <4>2, <4>3
    <3>2. CASE g # f
      <4>1. given'[g] = given[g] /\ disk'[g] = disk[g] /\ given[g].handle >= 0
        BY <2>11, <2>12, <2>19, <3>2
      <4>2. KeptOf(g)' = KeptOf(g)
        <5>1. given[g].handle \in {-1, 0} \cup 1..MaxHandles
          BY <2>4
        <5>2. CASE given[g].handle >= 1
          <6>1. given[g].handle \in 1..MaxHandles
            BY <5>1, <5>2
          <6>2. handles[given[g].handle].file = g
            BY <2>15, <6>1
          <6>3. given[g].handle # h
            BY <2>2, <2>16, <6>1, <6>2
          <6> QED BY <2>8, <4>1, <6>1, <6>3 DEF KeptOf
        <5>3. CASE ~(given[g].handle >= 1)
          BY <4>1, <5>3 DEF KeptOf
        <5> QED BY <5>2, <5>3
      <4>3. disk[g] \in Text /\ given[g].text = disk[g] \o (OnItsWay(g) \o KeptOf(g))
        BY <4>1 DEF FileInv, Faithful, Ready
      <4> QED BY <2>18, <4>1, <4>2, <4>3
    <3> QED BY <3>1, <3>2
  <2>20. Faithful'
    BY <2>19 DEF Faithful
  <2> QED BY <2>0, <2>1, <2>2, <2>13, <2>14, <2>17, <2>20 DEF FileInv, Intact
<1> QED BY <1>1, <1>2

\* hcc_stdout_buffer of hcpp.
LEMMA StdoutStep ==
    ASSUME FileInv, BufferTypes, stage = "hcpp", stage' = stage, hcc_stdout_buffer("i"),
           UNCHANGED <<exited, handles, disk, given>>
    PROVE  FileInv' /\ Intact
<1>0. Writes' = Writes /\ Opens' = Opens /\ "i" \in Writes /\ Opens = {}
  BY DEF Writes, Opens
<1>1. out' = [file |-> "i", rest |-> buffer.data] /\ buffer.data \in Text
  BY DEF hcc_stdout_buffer, BufferTypes, Buffers
<1>2. FileTypes'
  BY <1>0, <1>1 DEF FileInv, FileTypes
<1>3. Owners'
  BY <1>0 DEF FileInv, Owners
<1>4. Faithful'
  BY <1>0 DEF FileInv, Owners, Faithful
<1> QED BY <1>2, <1>3, <1>4 DEF FileInv, Intact

\* hcc_exit_success: either the last write fails, or the process ends.
LEMMA ExitStep ==
    ASSUME FileInv, stage # "hcc-m1", stage' = stage, hcc_exit_success, UNCHANGED <<handles, given>>
    PROVE  FileInv' /\ Intact
<1>1. CASE hcc_exit_failure
  BY <1>1, ExitFailureStep
<1>2. CASE exited' = "ok" /\ UNCHANGED <<out, disk>>
  <2>1. Writes' = Writes /\ Opens' = Opens
    BY DEF Writes, Opens
  <2> QED BY <1>2, <2>1 DEF FileInv, FileTypes, Owners, Faithful, Intact
<1> QED BY <1>1, <1>2 DEF hcc_exit_success, output_failure

\* A buffer whose capacity ensure_chars has made enough for its text and the 0.
Roomy(b) == b \in Buffers /\ (b.cap > 0 => Len(b.data) + 1 <= b.cap)

\* The texts that are put into a buffer fit.
LEMMA RoomMade ==
    ASSUME NEW cap \in Nat, NEW t \in Text
    PROVE  Roomy([data |-> t, cap |-> ensure_chars(cap, Len(t) + 1)])
<1>1. Len(t) + 1 \in Nat
  BY DEF Text
<1>2. ensure_chars(cap, Len(t) + 1) \in Nat /\ ensure_chars(cap, Len(t) + 1) >= Len(t) + 1
  BY <1>1, EnsureChars
<1> QED BY <1>1, <1>2 DEF Roomy, Buffers

\* BufInv speaks of each buffer by itself.
LEMMA BufInvIs == BufInv <=> Roomy(buffer) /\ Roomy(result) /\ ObufTypes
                             /\ \A o \in 1..MaxObufs : obufs[o].used => Len(obufs[o].data) <= obufs[o].cap
BY DEF BufInv, Roomy, BufferTypes, InBounds

\* Calls that touch no buffer.
LEMMA BuffersStay == ASSUME BufInv, UNCHANGED <<buffer, result, obufs>> PROVE BufInv'
BY DEF BufInv, BufferTypes, ObufTypes, InBounds

\* hcc_buffer_clear leaves room for the terminator.
LEMMA ClearStep ==
    ASSUME BufInv, hcc_buffer_clear, UNCHANGED <<result, obufs>>
    PROVE  BufInv'
<1>1. buffer.cap \in Nat /\ <<>> \in Text /\ Len(<<>>) + 1 = 1
  BY BufInvIs DEF Roomy, Buffers, Text
<1>2. Roomy(buffer')
  <2>1. Roomy([data |-> <<>>, cap |-> ensure_chars(buffer.cap, Len(<<>>) + 1)])
    BY <1>1, RoomMade
  <2> QED BY <1>1, <2>1 DEF hcc_buffer_clear
<1> QED BY <1>2, BufInvIs DEF BufInv, Roomy, BufferTypes, ObufTypes, InBounds

\* hcc_buffer_put makes room for the characters and the terminator before it writes them.
LEMMA PutStep ==
    ASSUME BufInv, NEW cs \in Text, hcc_buffer_put(cs), UNCHANGED <<result, obufs>>
    PROVE  BufInv'
<1>1. buffer.cap \in Nat /\ buffer.data \in Text
  BY BufInvIs DEF Roomy, Buffers
<1> DEFINE t == buffer.data \o cs
<1>2. t \in Text /\ Len(t) + 1 = Len(buffer.data) + Len(cs) + 1
  BY <1>1 DEF Text
<1> HIDE DEF t
<1>3. Roomy(buffer')
  <2>1. Roomy([data |-> t, cap |-> ensure_chars(buffer.cap, Len(t) + 1)])
    BY <1>1, <1>2, RoomMade
  <2>2. buffer' = [data |-> t, cap |-> ensure_chars(buffer.cap, Len(t) + 1)]
    BY <1>2 DEF hcc_buffer_put, t
  <2> QED BY <2>1, <2>2
<1> QED BY <1>3, BufInvIs DEF BufInv, Roomy, BufferTypes, ObufTypes, InBounds

\* hcc_read_file: what was read is a beginning of the file.
LEMMA ReadStep ==
    ASSUME BufInv, NEW f, disk[f] \in Text, hcc_read_file(f), UNCHANGED <<buffer, obufs>>
    PROVE  BufInv' /\ ret' \in {0, 1}
<1>1. CASE ret' = 0 /\ result' = result
  BY <1>1, BuffersStay
<1>2. CASE ~(ret' = 0 /\ result' = result)
  <2>1. PICK n \in 0..Len(disk[f]) :
           result' = [data |-> SubSeq(disk[f], 1, n), cap |-> ensure_chars(result.cap, n + 1)]
    BY <1>2 DEF hcc_read_file
  <2> DEFINE t == SubSeq(disk[f], 1, n)
  <2>2. t \in Text /\ Len(t) = n
    <3> DEFINE d == disk[f]
    <3>1. d \in Seq(Chars) /\ Len(d) \in Nat /\ n \in Int /\ n <= Len(d) /\ n >= 0
      BY DEF Text
    <3>2. \A i \in 1..n : d[i] \in Chars
      BY <3>1
    <3> HIDE DEF d
    <3>3. SubSeq(d, 1, n) \in Seq(Chars) /\ Len(SubSeq(d, 1, n)) = IF 1 <= n THEN n - 1 + 1 ELSE 0
      BY <3>1, <3>2, SubSeqProperties
    <3> QED BY <3>1, <3>3 DEF d, Text
  <2>3. result.cap \in Nat
    BY BufInvIs DEF Roomy, Buffers
  <2> HIDE DEF t
  <2>4. Roomy(result')
    <3>1. Roomy([data |-> t, cap |-> ensure_chars(result.cap, Len(t) + 1)])
      BY <2>2, <2>3, RoomMade
    <3> QED BY <2>1, <2>2, <3>1 DEF t
  <2>5. ret' = 1
    BY <1>2 DEF hcc_read_file
  <2> QED BY <2>4, <2>5, BufInvIs DEF BufInv, Roomy, BufferTypes, ObufTypes, InBounds
<1> QED BY <1>1, <1>2

\* hcc_getcwd makes room for the path.
LEMMA CwdStep ==
    ASSUME BufInv, hcc_getcwd(Cwd), UNCHANGED <<buffer, obufs>>
    PROVE  BufInv' /\ (ret' = 1 => result'.data = Cwd)
<1>1. CASE ret' = 0 /\ result' = result
  BY <1>1, BuffersStay
<1>2. CASE ret' = 1 /\ result' = [data |-> Cwd, cap |-> ensure_chars(result.cap, Len(Cwd) + 1)]
  <2>1. result.cap \in Nat /\ Cwd \in Text
    BY BufInvIs, LinesAssumption DEF Roomy, Buffers
  <2>2. Roomy(result')
    BY <1>2, <2>1, RoomMade
  <2> QED BY <1>2, <2>2, BufInvIs DEF BufInv, Roomy, BufferTypes, ObufTypes, InBounds
<1> QED BY <1>1, <1>2 DEF hcc_getcwd

ObufRecord == [used : BOOLEAN, data : Text, cap : Nat]

\* An entry of the table of output buffers that is given a text it has room for.
LEMMA ObufEntry ==
    ASSUME BufInv, NEW o \in 1..MaxObufs, NEW e \in ObufRecord, e.used => Len(e.data) <= e.cap,
           obufs' = [obufs EXCEPT ![o] = e], UNCHANGED <<buffer, result>>
    PROVE  BufInv'
<1>1. obufs \in [1..MaxObufs -> ObufRecord]
  BY DEF BufInv, ObufTypes, ObufRecord
<1>2. obufs' \in [1..MaxObufs -> ObufRecord]
  BY <1>1
<1>3. \A j \in 1..MaxObufs : obufs'[j] = IF j = o THEN e ELSE obufs[j]
  BY <1>1
<1>4. \A j \in 1..MaxObufs : obufs'[j].used => Len(obufs'[j].data) <= obufs'[j].cap
  BY <1>3, BufInvIs
<1> QED BY <1>2, <1>4, BufInvIs DEF BufInv, BufferTypes, ObufTypes, InBounds, ObufRecord

\* What BufInv says of one entry.
LEMMA GoodObufHas ==
    ASSUME BufInv, NEW o, GoodObuf(o)
    PROVE  /\ o \in 1..MaxObufs /\ obufs[o] \in ObufRecord
           /\ obufs[o].data \in Text /\ obufs[o].cap \in Nat
           /\ Len(obufs[o].data) <= obufs[o].cap
<1>1. o \in 1..MaxObufs /\ obufs[o].used
  BY DEF GoodObuf
<1>2. obufs[o] \in ObufRecord
  BY <1>1 DEF BufInv, ObufTypes, ObufRecord
<1> QED BY <1>1, <1>2, BufInvIs DEF ObufRecord

\* hcc_obuf_new starts an empty buffer.
LEMMA ObufNewStep ==
    ASSUME BufInv, NEW cap \in Nat, hcc_obuf_new(cap), UNCHANGED <<buffer, result>>
    PROVE  BufInv'
<1>1. CASE alloc_obuf = 0
  BY <1>1, BuffersStay DEF hcc_obuf_new
<1>2. CASE alloc_obuf # 0
  <2> DEFINE c == IF cap > 0 THEN cap ELSE FirstCap
             e == [used |-> TRUE, data |-> <<>>, cap |-> c]
  <2>1. c \in Nat /\ <<>> \in Text /\ Len(<<>>) <= c
    BY RuntimeAssumption DEF Text
  <2>2. alloc_obuf \in 1..MaxObufs
    BY <1>2, FreeObufEntry
  <2>3. obufs' = [obufs EXCEPT ![alloc_obuf] = e]
    BY <1>2 DEF hcc_obuf_new
  <2> HIDE DEF c
  <2>4. e \in ObufRecord /\ Len(e.data) <= e.cap
    BY <2>1 DEF ObufRecord
  <2> HIDE DEF e
  <2> QED BY <2>2, <2>3, <2>4, ObufEntry
<1> QED BY <1>1, <1>2

\* hcc_obuf_free gives the entry back.
LEMMA ObufFreeStep ==
    ASSUME BufInv, NEW o, hcc_obuf_free(o), UNCHANGED <<buffer, result>>
    PROVE  BufInv'
<1>1. CASE ~GoodObuf(o)
  BY <1>1, BuffersStay DEF hcc_obuf_free
<1>2. CASE GoodObuf(o)
  <2>1. o \in 1..MaxObufs
    BY <1>2, GoodObufHas
  <2>2. obufs' = [obufs EXCEPT ![o] = FreeObuf]
    BY <1>2 DEF hcc_obuf_free
  <2> DEFINE e == FreeObuf
  <2>3. e \in ObufRecord /\ Len(e.data) <= e.cap
    BY DEF ObufRecord, FreeObuf, Text
  <2> HIDE DEF e
  <2>4. obufs' = [obufs EXCEPT ![o] = e]
    BY <2>2 DEF e
  <2> QED BY <2>1, <2>3, <2>4, ObufEntry
<1> QED BY <1>1, <1>2

\* hcc_obuf_clear keeps the capacity.
LEMMA ObufClearStep ==
    ASSUME BufInv, NEW o, hcc_obuf_clear(o), UNCHANGED <<buffer, result>>
    PROVE  BufInv'
<1>1. CASE ~GoodObuf(o)
  BY <1>1, BuffersStay DEF hcc_obuf_clear
<1>2. CASE GoodObuf(o)
  <2> DEFINE e == [obufs[o] EXCEPT !.data = <<>>]
  <2>1. o \in 1..MaxObufs /\ obufs[o] \in ObufRecord
    BY <1>2, GoodObufHas
  <2>2. obufs' = [obufs EXCEPT ![o] = e]
    BY <1>2 DEF hcc_obuf_clear
  <2>3. <<>> \in Text /\ Len(<<>>) = 0
    BY DEF Text
  <2>4. e \in ObufRecord
    BY <2>1, <2>3 DEF ObufRecord
  <2>5. e.data = <<>> /\ e.cap \in Nat
    BY <2>1 DEF ObufRecord
  <2> HIDE DEF e
  <2>6. Len(e.data) <= e.cap
    BY <2>3, <2>5
  <2> QED BY <2>1, <2>2, <2>4, <2>6, ObufEntry
<1> QED BY <1>1, <1>2

\* hcc_obuf_put makes room before it writes.
LEMMA ObufPutStep ==
    ASSUME BufInv, NEW o, NEW cs \in Text, hcc_obuf_put(o, cs), UNCHANGED <<buffer, result>>
    PROVE  BufInv'
<1>1. CASE ~GoodObuf(o)
  BY <1>1, BuffersStay DEF hcc_obuf_put
<1>2. CASE GoodObuf(o)
  <2> DEFINE d == obufs[o].data \o cs
             n == ensure_chars(obufs[o].cap, Len(obufs[o].data) + Len(cs))
             b == [obufs EXCEPT ![o].data = @ \o cs]
             a == [obufs[o] EXCEPT !.data = d]
             e == [a EXCEPT !.cap = n]
  <2>1. o \in 1..MaxObufs /\ obufs[o] \in ObufRecord /\ obufs[o].data \in Text /\ obufs[o].cap \in Nat
    BY <1>2, GoodObufHas
  <2>2. d \in Text /\ Len(d) = Len(obufs[o].data) + Len(cs) /\ Len(obufs[o].data) + Len(cs) \in Nat
    BY <2>1 DEF Text
  <2>3. n \in Nat /\ n >= Len(d)
    BY <2>1, <2>2, EnsureChars
  <2>4. obufs = [j \in 1..MaxObufs |-> obufs[j]]
    BY DEF BufInv, ObufTypes
  <2>5. obufs' = [b EXCEPT ![o] = [b[o] EXCEPT !.cap = ensure_chars(b[o].cap, Len(obufs[o].data) + Len(cs))]]
    BY <1>2 DEF hcc_obuf_put
  <2>6. b = [obufs EXCEPT ![o] = a]
    OBVIOUS
  <2> HIDE DEF d, n, b
  <2>7. a \in ObufRecord /\ a.data = d /\ a.cap = obufs[o].cap
    BY <2>1, <2>2 DEF ObufRecord
  <2> HIDE DEF a
  <2>8. b[o] = a
    BY <2>1, <2>4, <2>6
  <2>9. obufs' = [b EXCEPT ![o] = e]
    <3>1. n = ensure_chars(a.cap, Len(obufs[o].data) + Len(cs))
      BY <2>7 DEF n
    <3> QED BY <2>5, <2>8, <3>1
  <2>10. e \in ObufRecord /\ e.data = d /\ e.cap = n
    BY <2>3, <2>7 DEF ObufRecord
  <2> HIDE DEF e
  <2>11. obufs' = [obufs EXCEPT ![o] = e]
    BY <2>1, <2>4, <2>6, <2>9
  <2> QED BY <2>1, <2>2, <2>3, <2>10, <2>11, ObufEntry
<1> QED BY <1>1, <1>2

(***************************************************************************)
(* The texts of the drivers.                                               *)
(***************************************************************************)
\* The next piece of a text and the rest make up the text.
LEMMA Pieces ==
    ASSUME NEW t \in Text, t # <<>>
    PROVE  /\ Piece(t) \in 1..Len(t)
           /\ FirstOf(t) \in Text /\ After(t, Piece(t)) \in Text
           /\ t = FirstOf(t) \o After(t, Piece(t))
<1>1. Len(t) \in Nat /\ Len(t) # 0
  BY DEF Text
<1>2. Piece(t) \in 1..Len(t)
  BY <1>1 DEF Piece
<1> QED BY <1>2, SplitText DEF FirstOf, After

\* The names of a text are among its characters.
LEMMA NamesType == ASSUME NEW t \in Text PROVE Names(t) \in Text
<1>1. Declared(t) \in Text
  <2>1. CASE t # <<>> /\ Last(t) = "nl"
    <3>1. t \in Seq(Chars) /\ Len(t) \in Nat /\ \A i \in 1..(Len(t) - 1) : t[i] \in Chars
      BY DEF Text
    <3>2. Len(t) - 1 \in Int
      BY <3>1
    <3>3. SubSeq(t, 1, Len(t) - 1) \in Seq(Chars)
      BY <3>1, <3>2, SubSeqProperties
    <3> QED BY <2>1, <3>3 DEF Declared, Front, Text
  <2>2. CASE ~(t # <<>> /\ Last(t) = "nl")
    BY <2>2 DEF Declared
  <2> QED BY <2>1, <2>2
<1> DEFINE d == Declared(t)
           n == Len(d) \div 2
<1>2. Len(d) \in Nat /\ \A i \in 1..Len(d) : d[i] \in Chars
  BY <1>1 DEF Text
<1>3. n \in Nat /\ \A i \in 1..n : 2 * i - 1 \in 1..Len(d)
  <2> DEFINE m == Len(d)
  <2>1. m \in Nat
    BY <1>2
  <2> HIDE DEF m
  <2>2. (m \div 2) \in Nat /\ \A i \in 1..(m \div 2) : 2 * i - 1 \in 1..m
    BY <2>1
  <2> QED BY <2>2 DEF m
<1> HIDE DEF d, n
<1>4. [i \in 1..n |-> d[2 * i - 1]] \in [1..n -> Chars]
  BY <1>2, <1>3
<1>5. [i \in 1..n |-> d[2 * i - 1]] \in Seq(Chars)
  BY <1>3, <1>4
<1> QED BY <1>5 DEF Names, Text, d, n

\* The functions before the first one that is refused are some of the names.
LEMMA BeforeRefusedRange ==
    ASSUME NEW names \in Text
    PROVE  BeforeRefused(names) \in 0..Len(names)
<1> DEFINE C == Chars \cup {"none"}
           s == names \o <<"none">>
           I == {i \in 1..Len(s) : s[i] \in RefusedLate \cup {"none"}}
<1>1. names \in Seq(C) /\ <<"none">> \in Seq(C)
  BY SeqMonotonic DEF Text
<1>2. Len(names) \in Nat /\ Len(<<"none">>) = 1 /\ <<"none">>[1] = "none"
  BY DEF Text
<1>3. Len(s) = Len(names) + 1 /\ s[Len(names) + 1] = "none"
  <2>1. /\ Len(s) = Len(names) + Len(<<"none">>)
        /\ \A i \in 1..(Len(names) + Len(<<"none">>)) :
              s[i] = IF i <= Len(names) THEN names[i] ELSE <<"none">>[i - Len(names)]
    <3> HIDE DEF C
    <3> QED BY <1>1, ConcatProperties
  <2>2. Len(names) + 1 \in 1..(Len(names) + Len(<<"none">>)) /\ ~(Len(names) + 1 <= Len(names))
        /\ (Len(names) + 1) - Len(names) = 1
    BY <1>2
  <2> HIDE DEF s
  <2> QED BY <1>2, <2>1, <2>2
<1> HIDE DEF s
<1>4. Len(names) + 1 \in I /\ I \subseteq Nat
  BY <1>2, <1>3
<1>5. Min(I) \in I
  <2> HIDE DEF I
  <2> QED BY <1>4, LeastNatural
<1>6. BeforeRefused(names) = Min(I) - 1
  <2>1. I # {}
    <3> HIDE DEF I
    <3> QED BY <1>4
  <2>2. BeforeRefused(names) = (IF I # {} THEN Min(I) ELSE 0) - 1
    BY DEF BeforeRefused, SelectInSeq, s
  <2> QED BY <2>1, <2>2
<1>7. Min(I) \in 1..(Len(names) + 1)
  BY <1>3, <1>5
<1> QED BY <1>2, <1>6, <1>7

\* What is written for a program are lines.
LEMMA PrintedType == ASSUME NEW names \in Text PROVE Printed(names) \in Seq(Text)
<1> DEFINE D == [i \in 1..Len(names) |->
                   IF names[i] \in DOMAIN Values THEN DataItems[names[i]] ELSE <<>>]
           F == [i \in 1..BeforeRefused(names) |->
                   IF names[i] \in DOMAIN Code THEN Functions[names[i]] ELSE <<>>]
           H == <<<<"H">>>>
<1>1. Len(names) \in Nat /\ BeforeRefused(names) \in Nat /\ <<>> \in Seq(Text)
  BY BeforeRefusedRange DEF Text
<1>2. D \in Seq(Seq(Text))
  <2>1. \A i \in 1..Len(names) : D[i] \in Seq(Text)
    BY <1>1, LinesAssumption
  <2>2. D \in [1..Len(names) -> Seq(Text)]
    BY <2>1
  <2> HIDE DEF D
  <2> QED BY <1>1, <2>2
<1>3. F \in Seq(Seq(Text))
  <2>1. \A i \in 1..BeforeRefused(names) : F[i] \in Seq(Text)
    BY <1>1, LinesAssumption
  <2>2. F \in [1..BeforeRefused(names) -> Seq(Text)]
    BY <2>1
  <2> HIDE DEF F
  <2> QED BY <1>1, <2>2
<1>4. H \in Seq(Text)
  <2>1. <<"H">> \in Text
    <3>1. "H" \in Chars
      BY LinesAssumption
    <3> QED BY <3>1 DEF Text
  <2> QED BY <2>1
<1> HIDE DEF D, F, H
<1>5. FlattenSeq(D) \in Seq(Text) /\ FlattenSeq(F) \in Seq(Text)
  BY <1>2, <1>3, FlattenType
<1> DEFINE a == FlattenSeq(D)
           b == FlattenSeq(F)
<1>6. H \o a \o b \in Seq(Text)
  <2> HIDE DEF a, b
  <2>1. a \in Seq(Text) /\ b \in Seq(Text)
    BY <1>5 DEF a, b
  <2> QED BY <1>4, <2>1
<1> QED BY <1>1, <1>6 DEF Printed, D, F, H

(***************************************************************************)
(* The steps of the build.                                                 *)
(***************************************************************************)
LEMMA PairType == ASSUME NEW S, NEW a \in S, NEW b \in S PROVE <<a, b>> \in Seq(S)
OBVIOUS

\* At first there is a source, or a file for hcc-m1.
LEMMA FirstDisk == Init => \E s, r \in Text : disk = Disk(s, r)
<1> SUFFICES ASSUME Init PROVE \E s, r \in Text : disk = Disk(s, r)
  OBVIOUS
<1>1. <<>> \in Text
  BY DEF Text
<1>2. ASSUME NEW names \in Text PROVE Written(names) \in Text
  <2> DEFINE ss == [i \in 1..Len(names) |-> <<names[i], ";">>]
  <2>1. Len(names) \in Nat /\ \A i \in 1..Len(names) : names[i] \in Chars
    BY DEF Text
  <2>2. ";" \in Chars
    BY LinesAssumption
  <2>3. ss \in Seq(Seq(Chars))
    <3>1. \A c \in Chars : <<c, ";">> \in Seq(Chars)
      BY <2>2, PairType
    <3>2. ss \in [1..Len(names) -> Seq(Chars)]
      BY <2>1, <3>1
    <3> HIDE DEF ss
    <3> QED BY <2>1, <3>2
  <2> HIDE DEF ss
  <2>4. FlattenSeq(ss) \in Seq(Chars)
    BY <2>3, FlattenType
  <2> QED BY <2>4 DEF Written, Text, ss
<1>3. CASE job = "build"
  <2>1. PICK n \in Sources : disk = Disk(Written(n), <<>>)
    BY <1>3 DEF Init
  <2>2. Written(n) \in Text
    BY <1>2, PipelineAssumption
  <2> QED BY <1>1, <2>1, <2>2
<1>4. CASE job = "m1"
  <2>1. PICK r \in HandWritten : disk = Disk(<<>>, r)
    BY <1>4 DEF Init
  <2>2. r \in Text
    BY PipelineAssumption
  <2> QED BY <1>1, <2>1, <2>2
<1>5. CASE job = "client"
  BY <1>1, <1>5 DEF Init
<1> QED BY <1>3, <1>4, <1>5 DEF Init

\* No program has written anything at first.
LEMMA PipeInitial == Init => PipeInv
<1> SUFFICES ASSUME Init PROVE PipeInv
  OBVIOUS
<1>1. <<>> \in Text /\ <<>> \in Seq(Text)
  BY DEF Text
<1>3. "s" \in Files /\ "i" \in Files
  BY PipelineAssumption
<1>4. PICK s, r \in Text : disk = Disk(s, r)
  BY FirstDisk
<1>5. disk = [f \in Files |-> disk[f]] /\ disk["s"] \in Text /\ disk["i"] \in Text
  BY <1>1, <1>3, <1>4 DEF Disk
<1>6. handles = [h \in 1..MaxHandles |-> Closed] /\ given = [f \in Files |-> Unopened] /\ out = NoWrite
      /\ obufs = [o \in 1..MaxObufs |-> FreeObuf] /\ buffer = NoText /\ result = NoText
      /\ exited \in {"fail", "no"} /\ todo = <<>> /\ lines = <<>>
  BY DEF Init
<1>7. FileInv
  <2>1. Closed \in [file : Files \cup {NoFile}, kept : Text]
    BY <1>1 DEF Closed
  <2>2. Unopened \in [handle : {-1, 0} \cup 1..MaxHandles, text : Text]
    BY <1>1 DEF Unopened
  <2>3. out = [file |-> out.file, rest |-> out.rest] /\ out.file = NoFile /\ out.rest \in Text
    BY <1>1, <1>6 DEF NoWrite
  <2>4. FileTypes
    BY <1>5, <1>6, <2>1, <2>2, <2>3 DEF FileTypes
  <2>5. \A f \in Files : given[f].handle = -1
    BY <1>6 DEF Unopened
  <2>6. \A h \in 1..MaxHandles : handles[h].file = NoFile
    BY <1>6 DEF Closed
  <2>7. Owners
    BY <2>5, <2>6, RuntimeAssumption DEF Owners
  <2>8. Faithful
    BY <2>5 DEF Faithful
  <2> QED BY <2>4, <2>7, <2>8 DEF FileInv
<1>8. BufInv
  <2>1. NoText \in Buffers /\ NoText.cap = 0
    BY <1>1 DEF NoText, Buffers
  <2>2. FreeObuf \in ObufRecord /\ ~FreeObuf.used
    BY <1>1 DEF FreeObuf, ObufRecord
  <2>3. obufs \in [1..MaxObufs -> ObufRecord] /\ \A o \in 1..MaxObufs : ~obufs[o].used
    BY <1>6, <2>2
  <2> QED BY <1>6, <2>1, <2>3 DEF BufInv, BufferTypes, ObufTypes, InBounds, ObufRecord
<1>9. Order
  <2>1. job \in {"build", "m1", "client"} /\ stage = (IF job = "client" THEN "client" ELSE "none")
        /\ (job = "client" => tries = 0) /\ (job = "build" => path \in Paths)
    BY DEF Init
  <2> QED BY <1>1, <1>6, <2>1 DEF Order, Programs
<1> QED BY <1>7, <1>8, <1>9 DEF PipeInv

\* The order of the programs stays, but for the place in the one that runs.
LEMMA OrderStays ==
    ASSUME Order, UNCHANGED <<stage, job, tries, path>>, todo' \in Text, lines' \in Seq(Text),
           stage = "hcc1" /\ pc' \in {"read", "parse", "same"} =>
               pc \in {"read", "parse", "same"} /\ given' = given,
           stage = "hcc1" /\ pc' = "same" /\ ret' = 1 => result'.data = Cwd
    PROVE  Order'
BY DEF Order

\* die, in hcpp or hcc1, ends the program and keeps the invariant.
LEMMA DieStep ==
    ASSUME PipeInv, stage \in {"hcpp", "hcc1"}, die, Keep, UNCHANGED <<job, tries>>
    PROVE  PipeInv' /\ Intact
<1>1. FileInv' /\ Intact
  BY ExitFailureStep DEF die, Keep, PipeInv
<1>2. BufInv'
  BY BuffersStay DEF die, Keep, PipeInv
<1>3. Order'
  <2>1. pc' = "end" /\ UNCHANGED <<stage, job, tries, path, todo, lines>>
    BY DEF die, Keep, Goto
  <2>2. todo \in Text /\ lines \in Seq(Text)
    BY DEF PipeInv, Order
  <2> QED BY <2>1, <2>2, OrderStays DEF PipeInv
<1> QED BY <1>1, <1>2, <1>3 DEF PipeInv

\* Reading a file replaces the result buffer only.
LEMMA ReadingStep ==
    ASSUME PipeInv, stage \in {"hcpp", "hcc1"}, NEW f \in {"s", "i"}, NEW next, next # "same",
           pc = "read", Reading(f, next), UNCHANGED <<job, tries>>
    PROVE  PipeInv' /\ Intact
<1>1. hcc_read_file(f) /\ pc' = next
      /\ UNCHANGED <<stage, path, m2, todo, lines, buffer, obufs, given, exited, handles, out, disk>>
  BY DEF Reading, Io
<1>2. disk[f] \in Text
  BY DEF PipeInv, FileInv, FileTypes
<1>3. BufInv'
  BY <1>1, <1>2, ReadStep DEF PipeInv
<1>4. FileInv' /\ Intact
  BY <1>1, FilesStay DEF PipeInv
<1>5. todo \in Text /\ lines \in Seq(Text)
  BY DEF PipeInv, Order
<1>6. Order'
  BY <1>1, <1>5, OrderStays DEF PipeInv
<1> QED BY <1>3, <1>4, <1>6 DEF PipeInv

\* Every step of hcpp.
LEMMA HcppStep ==
    ASSUME PipeInv, stage = "hcpp", Hcpp \/ hccExitSuccess, UNCHANGED <<job, tries>>
    PROVE  PipeInv' /\ Intact
<1>0. todo \in Text /\ lines \in Seq(Text)
  BY DEF PipeInv, Order
<1>1. CASE CppRead
  <2>1. Reading("s", "preprocess") /\ pc = "read"
    BY <1>1 DEF CppRead
  <2> QED BY <2>1, ReadingStep
<1>2. CASE CppRefuse
  BY <1>2, DieStep DEF CppRefuse
<1>3. CASE CppRender
  <2>1. /\ hcc_buffer_clear /\ pc' = "put" /\ todo' = result.data \o <<"nl">>
        /\ UNCHANGED <<stage, path, ret, result, obufs, given, lines, exited, handles, out, disk>>
    BY <1>3 DEF CppRender, Keep, Io
  <2>2. todo' \in Text
    <3>1. "nl" \in Chars
      BY LinesAssumption
    <3>2. result.data \in Text
      BY DEF PipeInv, BufInv, BufferTypes, Buffers
    <3> QED BY <2>1, <3>1, <3>2 DEF Text
  <2>3. BufInv'
    BY <2>1, ClearStep DEF PipeInv
  <2>4. FileInv' /\ Intact
    BY <2>1, FilesStay DEF PipeInv
  <2>5. Order'
    BY <1>0, <2>1, <2>2, OrderStays DEF PipeInv
  <2> QED BY <2>3, <2>4, <2>5 DEF PipeInv
<1>4. CASE hccBufferText
  <2>1. /\ todo # <<>> /\ hcc_buffer_put(FirstOf(todo)) /\ todo' = After(todo, Piece(todo))
        /\ UNCHANGED <<stage, path, pc, ret, result, obufs, given, lines, exited, handles, out, disk>>
    BY <1>4 DEF hccBufferText, Keep, Io
  <2>2. FirstOf(todo) \in Text /\ todo' \in Text
    BY <1>0, <2>1, Pieces
  <2>3. BufInv'
    BY <2>1, <2>2, PutStep DEF PipeInv
  <2>4. FileInv' /\ Intact
    BY <2>1, FilesStay DEF PipeInv
  <2>5. Order'
    BY <1>0, <2>1, <2>2, OrderStays DEF PipeInv
  <2> QED BY <2>3, <2>4, <2>5 DEF PipeInv
<1>5. CASE hccPutStr
  <2>1. /\ hcc_stdout_buffer("i")
        /\ UNCHANGED <<stage, path, todo, lines, ret, buffer, result, obufs, given, exited, handles, disk>>
    BY <1>5 DEF hccPutStr, Keep, Goto
  <2>2. BufInv'
    BY <2>1, BuffersStay DEF PipeInv
  <2>3. FileInv' /\ Intact
    BY <2>1, StdoutStep DEF PipeInv, BufInv
  <2>4. Order'
    BY <1>0, <2>1, OrderStays DEF PipeInv
  <2> QED BY <2>2, <2>3, <2>4 DEF PipeInv
<1>6. CASE hccExitSuccess
  <2>1. /\ hcc_exit_success
        /\ UNCHANGED <<stage, path, todo, lines, ret, buffer, result, obufs, given, handles>>
    BY <1>6 DEF hccExitSuccess, Keep, Goto
  <2>2. BufInv'
    BY <2>1, BuffersStay DEF PipeInv
  <2>3. FileInv' /\ Intact
    BY <2>1, ExitStep DEF PipeInv
  <2>4. Order'
    BY <1>0, <2>1, OrderStays DEF PipeInv
  <2> QED BY <2>2, <2>3, <2>4 DEF PipeInv
<1> QED BY <1>1, <1>2, <1>3, <1>4, <1>5, <1>6 DEF Hcpp

\* What hcc1 opens is not its input: a path that leads there has its parts.
LEMMA OutputIsOwn ==
    ASSUME PipeInv, stage = "hcc1", pc = "same", ret = 1, ~SamePath
    PROVE  FileAt(path) \in Opens
<1>1. path \in Paths /\ result.data = Cwd
  BY DEF PipeInv, Order
<1>2. FileAt(path) \in {"i", "r"}
  BY <1>1, PipelineAssumption
<1>3. SystemNames(path) = pathParts(absolutePath(Cwd, path))
      /\ SystemNames(InputPath) = pathParts(absolutePath(Cwd, InputPath))
  BY DEF SystemNames, pathParts
<1>4. FileAt(path) # "i"
  BY <1>1, <1>3, PathsAssumption DEF SamePath
<1> QED BY <1>2, <1>4 DEF Opens

\* Every step of hcc1 that is not a call of Hcpp's.
LEMMA Hcc1Step ==
    ASSUME PipeInv, stage = "hcc1", Hcc1 \/ hccExitSuccess, UNCHANGED <<job, tries>>
    PROVE  PipeInv' /\ Intact
<1>0. todo \in Text /\ lines \in Seq(Text)
  BY DEF PipeInv, Order
<1>1. CASE Cc1Read
  <2>1. Reading("i", "parse") /\ pc = "read"
    BY <1>1 DEF Cc1Read
  <2> QED BY <2>1, ReadingStep
<1>2. CASE Cc1Refuse \/ Cc1SamePath \/ Cc1NotOpened \/ Cc1Die
  BY <1>2, DieStep DEF Cc1Refuse, Cc1SamePath, Cc1NotOpened, Cc1Die
<1>3. CASE Cc1Parse
  <2>1. /\ pc = "parse" /\ hcc_getcwd(Cwd) /\ pc' = "same" /\ todo' = Names(result.data)
        /\ UNCHANGED <<stage, path, lines, buffer, obufs, given, exited, handles, out, disk>>
    BY <1>3 DEF Cc1Parse, Keep, Io
  <2>2. todo' \in Text
    <3>1. result.data \in Text
      BY DEF PipeInv, BufInv, BufferTypes, Buffers
    <3> QED BY <2>1, <3>1, NamesType
  <2>3. BufInv' /\ (ret' = 1 => result'.data = Cwd)
    BY <2>1, CwdStep DEF PipeInv
  <2>4. FileInv' /\ Intact
    BY <2>1, FilesStay DEF PipeInv
  <2>5. Order'
    BY <1>0, <2>1, <2>2, <2>3, OrderStays DEF PipeInv
  <2> QED BY <2>3, <2>4, <2>5 DEF PipeInv
<1>4. CASE hccWithOpenWriteFile
  <2>1. /\ Ready /\ pc = "same" /\ ret = 1 /\ ~SamePath /\ hcc_open_write(FileAt(path)) /\ pc' = "opened"
        /\ UNCHANGED <<stage, path, todo, lines, exited, out, buffer, result, obufs>>
    BY <1>4 DEF hccWithOpenWriteFile, Keep, Goto
  <2>2. FileAt(path) \in Opens
    BY <2>1, OutputIsOwn
  <2>3. given[FileAt(path)].handle < 1
    <3>1. FileAt(path) \in Files
      BY <2>2, WritesAre
    <3>2. given[FileAt(path)].handle = -1
      BY <2>1, <3>1 DEF PipeInv, Order
    <3> QED BY <3>2
  <2>4. BufInv'
    BY <2>1, BuffersStay DEF PipeInv
  <2>5. FileInv' /\ Intact
    <3> DEFINE f == FileAt(path)
    <3>1. f \in Opens /\ given[f].handle < 1 /\ hcc_open_write(f)
      BY <2>1, <2>2, <2>3
    <3> HIDE DEF f
    <3> QED BY <2>1, <3>1, OpenStep DEF PipeInv
  <2>6. Order'
    BY <1>0, <2>1, OrderStays DEF PipeInv
  <2> QED BY <2>4, <2>5, <2>6 DEF PipeInv
<1>5. CASE hccWithObuf
  <2>1. /\ hcc_obuf_new(FirstCap) /\ pc' = "line" /\ lines' = Printed(todo)
        /\ UNCHANGED <<stage, path, todo, buffer, result, given, exited, handles, out, disk>>
    BY <1>5 DEF hccWithObuf, Keep, Io
  <2>2. FirstCap \in Nat
    BY RuntimeAssumption
  <2>3. BufInv'
    BY <2>1, <2>2, ObufNewStep DEF PipeInv
  <2>4. FileInv' /\ Intact
    BY <2>1, FilesStay DEF PipeInv
  <2>5. Order'
    <3>1. lines' \in Seq(Text)
      BY <1>0, <2>1, PrintedType
    <3> QED BY <1>0, <2>1, <3>1, OrderStays DEF PipeInv
  <2> QED BY <2>3, <2>4, <2>5 DEF PipeInv
<1>6. CASE hccWriteTransactionLine
  <2>1. /\ pc = "line" /\ lines # <<>>
        /\ UNCHANGED <<stage, path, pc, todo, ret, buffer, result, given, exited, handles, out, disk>>
    BY <1>6 DEF hccWriteTransactionLine, Keep, Io
  <2>2. lines[1] \in Text /\ 1 \in 1..Len(lines)
    BY <1>0, <2>1
  <2>3. PICK cs \in Text : hcc_obuf_put(ret, cs) /\ lines' \in Seq(Text)
    <3>1. CASE lines[1] # <<>>
      <4>1. hcc_obuf_put(ret, FirstOf(lines[1])) /\ lines' = [lines EXCEPT ![1] = After(@, Piece(@))]
        BY <1>6, <3>1 DEF hccWriteTransactionLine
      <4>2. FirstOf(lines[1]) \in Text /\ After(lines[1], Piece(lines[1])) \in Text
        BY <2>2, <3>1, Pieces
      <4>3. lines' \in Seq(Text)
        <5> DEFINE l == After(lines[1], Piece(lines[1]))
        <5>1. lines' = [lines EXCEPT ![1] = l] /\ l \in Text
          BY <4>1, <4>2
        <5> HIDE DEF l
        <5> QED BY <1>0, <2>2, <5>1, ExceptSeq
      <4> QED BY <4>1, <4>2, <4>3
    <3>2. CASE lines[1] = <<>>
      <4>1. hcc_obuf_put(ret, <<"nl">>) /\ lines' = Tail(lines)
        BY <1>6, <3>2 DEF hccWriteTransactionLine
      <4>2. "nl" \in Chars
        BY LinesAssumption
      <4>3. <<"nl">> \in Text
        BY <4>2 DEF Text
      <4>4. Tail(lines) \in Seq(Text)
        BY <1>0, <2>1
      <4> QED BY <4>1, <4>3, <4>4
    <3> QED BY <3>1, <3>2
  <2>4. BufInv'
    BY <2>1, <2>3, ObufPutStep DEF PipeInv
  <2>5. FileInv' /\ Intact
    BY <2>1, FilesStay DEF PipeInv
  <2>6. Order'
    BY <1>0, <2>1, <2>3, OrderStays DEF PipeInv
  <2> QED BY <2>4, <2>5, <2>6 DEF PipeInv
<1>7. CASE Cc1Lowered
  <2>1. /\ pc' \in {"write", "free"}
        /\ UNCHANGED <<stage, path, todo, lines, ret, buffer, result, obufs, given, exited, handles, out, disk>>
    BY <1>7 DEF Cc1Lowered, hccWithTransactionalLineWriter, Keep, Io
  <2>2. BufInv'
    BY <2>1, BuffersStay DEF PipeInv
  <2>3. FileInv' /\ Intact
    BY <2>1, FilesStay DEF PipeInv
  <2>4. Order'
    BY <1>0, <2>1, OrderStays DEF PipeInv
  <2> QED BY <2>2, <2>3, <2>4 DEF PipeInv
<1>8. CASE Cc1Write \/ Cc1Flush \/ Cc1Close \/ hccExitSuccess
  <2>1. /\ pc' \notin {"read", "parse", "same"} /\ Ready
        /\ UNCHANGED <<stage, path, todo, lines, ret, buffer, result, obufs>>
    BY <1>8 DEF Cc1Write, Cc1Flush, Cc1Close, hccExitSuccess, Keep, Goto
  <2>2. BufInv'
    BY <2>1, BuffersStay DEF PipeInv
  <2>3. FileInv' /\ Intact
    <3>1. CASE Cc1Write
      BY <2>1, <3>1, ObufWriteStep DEF Cc1Write, PipeInv, BufInv
    <3>2. CASE Cc1Flush
      BY <2>1, <3>2, FlushStep DEF Cc1Flush, PipeInv
    <3>3. CASE Cc1Close
      BY <2>1, <3>3, CloseStep DEF Cc1Close, PipeInv
    <3>4. CASE hccExitSuccess
      BY <2>1, <3>4, ExitStep DEF hccExitSuccess, PipeInv
    <3> QED BY <1>8, <3>1, <3>2, <3>3, <3>4
  <2>4. Order'
    BY <1>0, <2>1, OrderStays DEF PipeInv
  <2> QED BY <2>2, <2>3, <2>4 DEF PipeInv
<1>9. CASE Cc1Free
  <2>1. /\ hcc_obuf_free(ret) /\ pc' = "close"
        /\ UNCHANGED <<stage, path, todo, lines, ret, buffer, result, given, exited, handles, out, disk>>
    BY <1>9 DEF Cc1Free, Keep, Goto, Io
  <2>2. BufInv'
    BY <2>1, ObufFreeStep DEF PipeInv
  <2>3. FileInv' /\ Intact
    BY <2>1, FilesStay DEF PipeInv
  <2>4. Order'
    BY <1>0, <2>1, OrderStays DEF PipeInv
  <2> QED BY <2>2, <2>3, <2>4 DEF PipeInv
<1> QED BY <1>1, <1>2, <1>3, <1>4, <1>5, <1>6, <1>7, <1>8, <1>9 DEF Hcc1

\* A write(2) of a program that uses the runtime.
LEMMA WritingStep ==
    ASSUME PipeInv, stage # "hcc-m1", Writing, UNCHANGED <<driverVars, job, tries>>
    PROVE  PipeInv' /\ Intact
<1>1. /\ exited = "no" /\ out.rest # <<>> /\ UNCHANGED <<ret, buffer, result, handles, obufs, given>>
      /\ UNCHANGED <<stage, pc, todo, lines, path>>
  BY DEF Writing, driverVars
<1>2. PICK n \in WriteResults : checked_write(n)
  BY DEF Writing
<1>3. BufInv'
  BY <1>1, BuffersStay DEF PipeInv
<1>4. FileInv' /\ Intact
  BY <1>1, <1>2, WriteStep DEF PipeInv
<1>5. Order'
  <2>1. todo \in Text /\ lines \in Seq(Text)
    BY DEF PipeInv, Order
  <2>2. stage = "hcc1" /\ pc' = "same" /\ ret' = 1 => result'.data = Cwd
    BY <1>1 DEF PipeInv, Order
  <2> QED BY <1>1, <2>1, <2>2, OrderStays DEF PipeInv
<1> QED BY <1>3, <1>4, <1>5 DEF PipeInv

\* The shell starts the next program.
LEMMA LaunchStep ==
    ASSUME PipeInv, NEW p \in Programs, Launch(p), job # "client", p \in {"hcpp", "hcc1"} => job = "build"
    PROVE  PipeInv' /\ Intact
<1>1. <<>> \in Text /\ <<>> \in Seq(Text)
  BY DEF Text
<1>2. /\ stage' = p /\ todo' = <<>> /\ lines' = <<>> /\ UNCHANGED <<path, job>> /\ pc' = "read"
      /\ disk' = IF p = "hcpp" THEN [disk EXCEPT !["i"] = <<>>] ELSE disk
  BY DEF Launch
<1>3. /\ handles' = [h \in 1..MaxHandles |-> Closed] /\ given' = [f \in Files |-> Unopened] /\ out' = NoWrite
      /\ obufs' = [o \in 1..MaxObufs |-> FreeObuf] /\ buffer' = NoText /\ result' = NoText
      /\ exited' = "no"
  BY DEF Launch, Fresh
<1>4. "s" \in Files /\ "i" \in Files
  BY PipelineAssumption
<1>5. disk = [f \in Files |-> disk[f]] /\ disk["s"] \in Text /\ disk["i"] \in Text
  BY DEF PipeInv, FileInv, FileTypes
<1>6. disk' = [f \in Files |-> disk'[f]] /\ disk'["s"] = disk["s"] /\ disk'["i"] \in Text
      /\ (p # "hcpp" => disk'["i"] = disk["i"])
  <2>1. CASE p = "hcpp"
    BY <1>1, <1>2, <1>4, <1>5, <2>1
  <2>2. CASE p # "hcpp"
    BY <1>2, <1>5, <2>2
  <2> QED BY <2>1, <2>2
<1>7. FileInv'
  <2>1. Closed \in [file : Files \cup {NoFile}, kept : Text]
    BY <1>1 DEF Closed
  <2>2. Unopened \in [handle : {-1, 0} \cup 1..MaxHandles, text : Text]
    BY <1>1 DEF Unopened
  <2>3. out' = [file |-> out'.file, rest |-> out'.rest] /\ out'.file = NoFile /\ out'.rest \in Text
    BY <1>1, <1>3 DEF NoWrite
  <2>4. FileTypes'
    <3>1. disk'["s"] \in Text
      BY <1>5, <1>6
    <3> QED BY <1>3, <1>6, <2>1, <2>2, <2>3, <3>1 DEF FileTypes
  <2>5. \A f \in Files : given'[f].handle = -1
    BY <1>3 DEF Unopened
  <2>6. \A h \in 1..MaxHandles : handles'[h].file = NoFile
    BY <1>3 DEF Closed
  <2>7. Owners'
    BY <2>5, <2>6, RuntimeAssumption DEF Owners
  <2>8. Faithful'
    BY <2>5 DEF Faithful
  <2> QED BY <2>4, <2>7, <2>8 DEF FileInv
<1>8. BufInv'
  <2>1. NoText \in Buffers /\ NoText.cap = 0
    BY <1>1 DEF NoText, Buffers
  <2>2. FreeObuf \in ObufRecord /\ ~FreeObuf.used
    BY <1>1 DEF FreeObuf, ObufRecord
  <2>3. obufs' \in [1..MaxObufs -> ObufRecord] /\ \A o \in 1..MaxObufs : ~obufs'[o].used
    BY <1>3, <2>2
  <2> QED BY <1>3, <2>1, <2>3 DEF BufInv, BufferTypes, ObufTypes, InBounds, ObufRecord
<1>9. Order'
  <2>1. \A f \in Files : given'[f].handle = -1
    BY <1>3 DEF Unopened
  <2>2. job \in {"build", "m1", "client"} /\ (job = "build" => path \in Paths)
    BY DEF PipeInv, Order
  <2> QED BY <1>1, <1>2, <2>1, <2>2 DEF Order, Programs
<1> QED BY <1>2, <1>6, <1>7, <1>8, <1>9 DEF PipeInv, Intact

\* A program starts with empty tables; only the redirection of hcpp empties a file.
LEMMA ShellStep ==
    ASSUME PipeInv, Start \/ NextCommand
    PROVE  PipeInv' /\ Intact
<1>1. CASE Start
  <2> DEFINE p == IF job = "m1" THEN "hcc-m1" ELSE "hcpp"
  <2>1. job # "client" /\ job \in {"build", "m1"}
    BY <1>1 DEF Start, PipeInv, Order
  <2>2. p \in Programs /\ Launch(p) /\ (p \in {"hcpp", "hcc1"} => job = "build")
    BY <1>1, <2>1 DEF Start, Programs
  <2> HIDE DEF p
  <2> QED BY <2>1, <2>2, LaunchStep
<1>2. CASE NextCommand
  <2> DEFINE p == IF stage = "hcpp" THEN "hcc1" ELSE "hcc-m1"
  <2>1. job = "build" /\ job # "client"
    BY <1>2 DEF NextCommand, PipeInv, Order
  <2>2. p \in Programs /\ Launch(p)
    BY <1>2 DEF NextCommand, Programs
  <2> HIDE DEF p
  <2> QED BY <2>1, <2>2, LaunchStep
<1> QED BY <1>1, <1>2

\* A program that is killed leaves its files as they are.
LEMMA KilledStep == ASSUME PipeInv, Killed PROVE PipeInv' /\ Intact
<1>1. /\ UNCHANGED <<ret, buffer, result, handles, obufs, out, disk, given>> /\ exited' = "killed"
      /\ UNCHANGED <<stage, pc, todo, lines, path, job, tries>>
  BY DEF Killed, driverVars
<1>2. Writes' = Writes /\ Opens' = Opens
  BY <1>1 DEF Writes, Opens
<1>3. FileInv' /\ Intact
  BY <1>1, <1>2 DEF PipeInv, FileInv, FileTypes, Owners, Faithful, Intact
<1>4. BufInv'
  BY <1>1, BuffersStay DEF PipeInv
<1>5. Order'
  BY <1>1 DEF PipeInv, Order
<1> QED BY <1>3, <1>4, <1>5 DEF PipeInv

\* hcc-m1 writes its own file and no other, past the runtime.
LEMMA HccM1Step ==
    ASSUME PipeInv, HccM1, UNCHANGED <<job, tries>>
    PROVE  PipeInv' /\ Intact
<1>0. /\ stage = "hcc-m1"
      /\ UNCHANGED <<ret, buffer, result, handles, obufs, given, stage, todo, lines, path>>
  BY DEF HccM1, M1OpenInput, M1CannotOpen, M1OpenOutput, M1Header, TranslateEof, TranslateLine,
         M1Spill, m1_checked_write, M1Finish, m1_die, M1Ready, M1Keep
<1>1. exited' \in {exited, "no", "ok", "fail"}
  BY DEF HccM1, M1OpenInput, M1CannotOpen, M1OpenOutput, M1Header, TranslateEof, TranslateLine,
         M1Spill, m1_checked_write, M1Finish, m1_die, m1Vars
<1>2. disk' = disk \/ \E text : disk' = [disk EXCEPT !["m"] = text]
  BY DEF HccM1, M1OpenInput, M1CannotOpen, M1OpenOutput, M1Header, TranslateEof, TranslateLine,
         M1Spill, m1_checked_write, M1Finish, m1_die, m1Vars
<1>3. \/ out' = out \/ out' = NoWrite
      \/ \E text : out' = [file |-> "m", rest |-> text]
      \/ \E text : out' = [out EXCEPT !.rest = text]
  BY DEF HccM1, M1OpenInput, M1CannotOpen, M1OpenOutput, M1Header, TranslateEof, TranslateLine,
         M1Spill, m1_checked_write, M1Finish, m1_die, m1Vars
<1>4. Writes' = Writes /\ Opens' = Opens /\ Opens = {} /\ "m" \in Writes
  BY <1>0 DEF Writes, Opens
<1>5. disk' = [f \in Files |-> disk'[f]] /\ disk'["s"] = disk["s"] /\ disk'["i"] = disk["i"]
  <2>1. disk = [f \in Files |-> disk[f]]
    BY DEF PipeInv, FileInv, FileTypes
  <2> QED BY <1>2, <2>1, PipelineAssumption
<1>6. out' = [file |-> out'.file, rest |-> out'.rest] /\ out'.file \in {NoFile} \cup Writes
  <2>1. out = [file |-> out.file, rest |-> out.rest] /\ out.file \in {NoFile} \cup Writes
    BY DEF PipeInv, FileInv, FileTypes
  <2>2. CASE out' = NoWrite
    BY <2>2 DEF NoWrite
  <2>3. CASE \E text : out' = [file |-> "m", rest |-> text]
    BY <1>4, <2>3
  <2>4. CASE \E text : out' = [out EXCEPT !.rest = text]
    <3>1. PICK text : out' = [out EXCEPT !.rest = text]
      BY <2>4
    <3>2. out' = [file |-> out.file, rest |-> text]
      BY <2>1, <3>1
    <3> QED BY <2>1, <3>2
  <2> QED BY <1>3, <2>1, <2>2, <2>3, <2>4
<1>7. FileInv'
  <2>1. FileTypes'
    BY <1>0, <1>1, <1>4, <1>5, <1>6 DEF PipeInv, FileInv, FileTypes
  <2>2. Owners'
    BY <1>0, <1>4 DEF PipeInv, FileInv, Owners
  <2>3. Faithful'
    BY <1>0, <1>4 DEF PipeInv, FileInv, Owners, Faithful
  <2> QED BY <2>1, <2>2, <2>3 DEF FileInv
<1>8. BufInv'
  BY <1>0, BuffersStay DEF PipeInv
<1>9. Order'
  BY <1>0 DEF PipeInv, Order
<1> QED BY <1>5, <1>7, <1>8, <1>9 DEF PipeInv, Intact

\* Any call, in any order, of a program that opens its own files.
LEMMA ClientStep ==
    ASSUME PipeInv, stage = "client", Client, UNCHANGED <<driverVars, job, tries>>
    PROVE  PipeInv' /\ Intact
<1>0. /\ Ready /\ UNCHANGED <<buffer, result, stage, pc, todo, lines, path>> /\ Opens = ClientFiles
  BY DEF Client, Idle, driverVars, Opens
<1>1. Order'
  <2>1. todo \in Text /\ lines \in Seq(Text)
    BY DEF PipeInv, Order
  <2> QED BY <1>0, <2>1, OrderStays DEF PipeInv
<1>2. CASE ClientOpen
  <2>1. UNCHANGED <<exited, obufs, out>>
    BY <1>2 DEF ClientOpen
  <2>2. PICK f \in Opens : given[f].handle < 1 /\ hcc_open_write(f)
    BY <1>0, <1>2 DEF ClientOpen
  <2>3. FileInv' /\ Intact
    BY <1>0, <2>1, <2>2, OpenStep DEF PipeInv
  <2>4. BufInv'
    BY <1>0, <2>1, BuffersStay DEF PipeInv
  <2> QED BY <1>1, <2>3, <2>4 DEF PipeInv
<1>3. CASE ClientObuf
  <2>1. UNCHANGED <<exited, handles, out, disk, given>>
    BY <1>3 DEF ClientObuf
  <2>2. FileInv' /\ Intact
    BY <1>0, <2>1, FilesStay DEF PipeInv
  <2>3. BufInv'
    <3>1. CASE \E cap \in {0, 1} : hcc_obuf_new(cap)
      <4>1. PICK cap \in {0, 1} : hcc_obuf_new(cap)
        BY <3>1
      <4>2. cap \in Nat
        BY <4>1
      <4> QED BY <1>0, <4>1, <4>2, ObufNewStep DEF PipeInv
    <3>2. CASE \E o \in 0..(MaxObufs + 1) : hcc_obuf_free(o) \/ hcc_obuf_clear(o)
      BY <1>0, <3>2, ObufFreeStep, ObufClearStep DEF PipeInv
    <3>3. CASE \E o \in 0..(MaxObufs + 1), cs \in ClientTexts : hcc_obuf_put(o, cs)
      <4>1. ClientTexts \subseteq Text
        BY ClientAssumption
      <4> QED BY <1>0, <3>3, <4>1, ObufPutStep DEF PipeInv
    <3> QED BY <1>3, <3>1, <3>2, <3>3 DEF ClientObuf
  <2> QED BY <1>1, <2>2, <2>3 DEF PipeInv
<1>4. CASE ClientWrite
  <2>1. UNCHANGED obufs /\ \E h \in 0..(MaxHandles + 1), o \in 0..(MaxObufs + 1) : hcc_obuf_write(h, o)
    BY <1>4 DEF ClientWrite
  <2>2. FileInv' /\ Intact
    BY <1>0, <2>1, ObufWriteStep DEF PipeInv, BufInv
  <2>3. BufInv'
    BY <1>0, <2>1, BuffersStay DEF PipeInv
  <2> QED BY <1>1, <2>2, <2>3 DEF PipeInv
<1>5. CASE ClientFlush
  <2>1. UNCHANGED <<obufs, given>> /\ \E h \in 0..(MaxHandles + 1) : hcc_handle_flush(h)
    BY <1>5 DEF ClientFlush
  <2>2. FileInv' /\ Intact
    BY <1>0, <2>1, FlushStep DEF PipeInv
  <2>3. BufInv'
    BY <1>0, <2>1, BuffersStay DEF PipeInv
  <2> QED BY <1>1, <2>2, <2>3 DEF PipeInv
<1>6. CASE ClientClose
  <2>1. UNCHANGED obufs /\ \E h \in 0..(MaxHandles + 1) : hcc_close(h)
    BY <1>6 DEF ClientClose
  <2>2. FileInv' /\ Intact
    BY <1>0, <2>1, CloseStep DEF PipeInv
  <2>3. BufInv'
    BY <1>0, <2>1, BuffersStay DEF PipeInv
  <2> QED BY <1>1, <2>2, <2>3 DEF PipeInv
<1> QED BY <1>2, <1>3, <1>4, <1>5, <1>6 DEF Client

\* Every step of the model.
LEMMA PipeStep == PipeInv /\ [Next]_vars => PipeInv' /\ ([Intact]_vars)
<1> SUFFICES ASSUME PipeInv, [Next]_vars PROVE PipeInv' /\ [Intact]_vars
  OBVIOUS
<1>1. CASE Start \/ NextCommand
  BY <1>1, ShellStep
<1>2. CASE Killed
  BY <1>2, KilledStep
<1>3. CASE Running
  <2>1. UNCHANGED <<job, tries>>
    BY <1>3 DEF Running
  <2>2. CASE stage = "hcpp" /\ (Hcpp \/ hccExitSuccess)
    BY <2>1, <2>2, HcppStep
  <2>3. CASE stage = "hcc1" /\ (Hcc1 \/ hccExitSuccess)
    BY <2>1, <2>3, Hcc1Step
  <2>4. CASE HsWriting
    BY <2>1, <2>4, WritingStep DEF HsWriting
  <2> QED BY <1>3, <2>2, <2>3, <2>4 DEF Running
<1>4. CASE RunningM1
  BY <1>4, HccM1Step DEF RunningM1
<1>5. CASE Calling
  BY <1>5, ClientStep, WritingStep DEF Calling
<1>6. CASE UNCHANGED vars
  <2>1. UNCHANGED <<exited, ret, buffer, result, handles, obufs, out, disk, given, stage, pc, todo, lines,
                    path, job, tries>>
    BY <1>6 DEF vars, runtimeVars, driverVars
  <2>2. FileInv'
    BY <2>1, FilesStay DEF PipeInv
  <2>3. BufInv'
    BY <2>1, BuffersStay DEF PipeInv
  <2>4. Order'
    BY <2>1 DEF PipeInv, Order
  <2> QED BY <1>6, <2>2, <2>3, <2>4 DEF PipeInv
<1> QED BY <1>1, <1>2, <1>3, <1>4, <1>5, <1>6 DEF Next

\* The invariant holds in every state of every run of the build.
THEOREM PipelineInvariant == Spec => []PipeInv
<1>1. PipeInv /\ [Next]_vars => PipeInv'
  BY PipeStep
<1> QED BY PipeInitial, <1>1, PTL DEF Spec

\* No text is put past the memory that ensure_chars has made room for, however
\* long the texts are and in whatever pieces they come.
THEOREM BuffersInBounds == Spec => []InBounds
<1>1. PipeInv => InBounds
  BY DEF PipeInv, BufInv
<1> QED BY PipelineInvariant, <1>1, PTL

\* A file holds what was handed to its handle, but for what is on its way or
\* kept back: for any number of files, handles and buffers.
THEOREM FilesStayFaithful == Spec => []FilesFaithful
<1>1. ASSUME PipeInv PROVE FilesFaithful
  <2> SUFFICES ASSUME exited = "no", NEW f \in Files, given[f].handle >= 0
               PROVE  given[f].text =
                          disk[f] \o (IF out.file = f THEN out.rest ELSE <<>>)
                            \o FlattenSeq([h \in 1..MaxHandles |->
                                 IF handles[h].file = f THEN handles[h].kept ELSE <<>>])
    BY DEF FilesFaithful
  <2>1. f \in Opens
    BY <1>1 DEF PipeInv, FileInv, Owners
  <2>2. stage # "hcc-m1"
    BY <2>1 DEF Opens
  <2>3. disk[f] \in Text /\ given[f].text = disk[f] \o (OnItsWay(f) \o KeptOf(f))
    BY <1>1 DEF PipeInv, FileInv, Faithful
  <2> DEFINE k == FlattenSeq([h \in 1..MaxHandles |-> IF handles[h].file = f THEN handles[h].kept ELSE <<>>])
  <2>4. OnItsWay(f) \in Text /\ KeptOf(f) \in Text /\ k = KeptOf(f)
    BY <1>1, <2>2, AtExitIs DEF PipeInv, FileInv
  <2> HIDE DEF k
  <2>5. (disk[f] \o OnItsWay(f)) \o k = disk[f] \o (OnItsWay(f) \o k)
    <3> DEFINE d == disk[f]
               w == OnItsWay(f)
    <3>1. d \in Text /\ w \in Text /\ k \in Text
      BY <2>3, <2>4
    <3> HIDE DEF d, w
    <3>2. Associates(d, w, k)
      BY <3>1, TextAssociates
    <3> QED BY <3>2 DEF d, w, Associates
  <2>6. given[f].text = disk[f] \o OnItsWay(f) \o k
    BY <2>3, <2>4, <2>5
  <2> QED BY <2>6 DEF k, OnItsWay
<1> QED BY PipelineInvariant, <1>1, PTL

\* No step changes the source, and only hcpp the file hcc1 compiles.
THEOREM SourceStaysIntact == Spec => SourceIntact
<1>1. PipeInv /\ [Next]_vars => [Intact]_vars
  BY PipeStep
<1>2. [Intact]_vars =>
        [/\ disk'["s"] = disk["s"]
         /\ disk'["i"] # disk["i"] => stage' = "hcpp"]_vars
  BY DEF Intact
<1> QED BY PipelineInvariant, <1>1, <1>2, PTL DEF Spec, SourceIntact
=================================================================================
