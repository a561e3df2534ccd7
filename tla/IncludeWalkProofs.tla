---------------------------- MODULE IncludeWalkProofs ----------------------------
(***************************************************************************)
(* For every set of files, lines, macros and include nesting: the include  *)
(* walk and the final pass of hcpp agree at every line, and the final pass *)
(* never meets an active #include.                                         *)
(***************************************************************************)
EXTENDS IncludeWalk, SequenceTheorems, TLAPS

(***************************************************************************)
(* Sequences that grow and shrink at the head.                             *)
(***************************************************************************)
\* Putting x in front of s, as pushIfFrame and expandFile do.
LEMMA Cons ==
    ASSUME NEW S, NEW s \in Seq(S), NEW x \in S
    PROVE  /\ <<x>> \o s \in Seq(S)
           /\ <<x>> \o s # <<>>
           /\ Len(<<x>> \o s) = Len(s) + 1
           /\ Head(<<x>> \o s) = x
           /\ Tail(<<x>> \o s) = s
           /\ (<<x>> \o s)[1] = x
           /\ \A i \in 1..Len(s) : (<<x>> \o s)[i + 1] = s[i]
  <1>1. <<x>> \in Seq(S) /\ Len(<<x>>) = 1 /\ <<x>>[1] = x
    OBVIOUS
  <1>2. /\ <<x>> \o s \in Seq(S)
        /\ Len(<<x>> \o s) = Len(s) + 1
        /\ (<<x>> \o s)[1] = x
        /\ \A i \in 1..Len(s) : (<<x>> \o s)[i + 1] = s[i]
    BY <1>1, ConcatProperties
  <1>3. <<x>> \o s # <<>>
    BY <1>2
  <1>4. Head(<<x>> \o s) = x
    BY <1>2, <1>3, HeadTailProperties
  <1>5. Tail(<<x>> \o s) = s
    <2>1. /\ Tail(<<x>> \o s) \in Seq(S)
          /\ Len(Tail(<<x>> \o s)) = Len(s)
          /\ \A i \in 1..Len(s) : Tail(<<x>> \o s)[i] = (<<x>> \o s)[i + 1]
      BY <1>2, <1>3, HeadTailProperties
    <2>2. QED
      BY <1>2, <2>1, SeqEqual
  <1>6. QED
    BY <1>2, <1>3, <1>4, <1>5

\* What a sequence consists of.
LEMMA HeadTail ==
    ASSUME NEW S, NEW s \in Seq(S), s # <<>>
    PROVE  /\ Head(s) \in S
           /\ Head(s) = s[1]
           /\ Tail(s) \in Seq(S)
           /\ Len(Tail(s)) = Len(s) - 1
           /\ \A i \in 1..(Len(s) - 1) : Tail(s)[i] = s[i + 1]
           /\ Len(s) >= 1
  BY HeadTailProperties, EmptySeq

\* The head of a concatenation is the head of its first part.
LEMMA HeadConcat ==
    ASSUME NEW S, NEW s \in Seq(S), NEW t \in Seq(S), s # <<>>
    PROVE  /\ s \o t # <<>>
           /\ Head(s \o t) = Head(s)
           /\ Tail(s \o t) = Tail(s) \o t
  <1>1. s = <<Head(s)>> \o Tail(s) /\ Head(s) \in S /\ Tail(s) \in Seq(S)
    <2>1. Head(s) \in S /\ Tail(s) \in Seq(S)
      BY HeadTail
    <2>2. /\ <<Head(s)>> \o Tail(s) \in Seq(S)
          /\ Len(<<Head(s)>> \o Tail(s)) = Len(s)
          /\ (<<Head(s)>> \o Tail(s))[1] = s[1]
          /\ \A i \in 1..(Len(s) - 1) : (<<Head(s)>> \o Tail(s))[i + 1] = s[i + 1]
      BY <2>1, Cons, HeadTail
    <2>3. \A i \in 1..Len(s) : (<<Head(s)>> \o Tail(s))[i] = s[i]
      <3>1. TAKE i \in 1..Len(s)
      <3>2. CASE i = 1
        BY <2>2, <3>2
      <3>3. CASE i # 1
        BY <2>2, <3>3, i - 1 \in 1..(Len(s) - 1), (i - 1) + 1 = i, HeadTail
      <3>4. QED
        BY <3>2, <3>3
    <2>4. QED
      BY <2>1, <2>2, <2>3, SeqEqual
  <1>2. s \o t = <<Head(s)>> \o (Tail(s) \o t) /\ Tail(s) \o t \in Seq(S)
    <2>1. <<Head(s)>> \in Seq(S)
      BY <1>1
    <2>2. (<<Head(s)>> \o Tail(s)) \o t = <<Head(s)>> \o (Tail(s) \o t)
      BY <1>1, <2>1, ConcatAssociative
    <2>3. QED
      BY <1>1, <2>2, ConcatProperties
  <1>3. QED
    BY <1>1, <1>2, Cons

(***************************************************************************)
(* Conditionals.                                                           *)
(***************************************************************************)
\* Whether a stack is active is a truth value.
LEMMA ActiveBoolean ==
    ASSUME NEW fs \in Seq(Frames)
    PROVE  ifStackActive(fs) \in BOOLEAN
  <1>1. CASE fs = <<>>
    BY <1>1 DEF ifStackActive
  <1>2. CASE fs # <<>>
    <2>1. Head(fs) \in Frames
      BY <1>2, HeadTail
    <2>2. Head(fs).active \in BOOLEAN
      BY <2>1 DEF Frames
    <2>3. QED
      BY <1>2, <2>2 DEF ifStackActive
  <1>3. QED
    BY <1>1, <1>2

\* The conditional directives keep a stack of frames a stack of frames.
LEMMA ConditionalType ==
    ASSUME NEW fs \in Seq(Frames), NEW ms, NEW l \in Lines,
           l.d \in CondKinds, ~Unmatched(fs, l)
    PROVE  Conditional(fs, ms, l) \in Seq(Frames)
  <1>1. ifStackActive(fs) \in BOOLEAN
    BY ActiveBoolean
  <1>2. Condition(fs, ms, l) \in BOOLEAN
    BY DEF Condition
  <1>3. CASE l.d \in OpenKinds
    <2>1. \A c \in BOOLEAN : pushIfFrame(fs, c) \in Seq(Frames)
      <3>1. TAKE c \in BOOLEAN
      <3>2. (ifStackActive(fs) /\ c) \in BOOLEAN
        OBVIOUS
      <3>3. \A a, p \in BOOLEAN : Frame(p, a, a, Count(a)) \in Frames
        BY DEF Frame, Frames, Count
      <3>4. Frame(ifStackActive(fs), ifStackActive(fs) /\ c, ifStackActive(fs) /\ c,
                  Count(ifStackActive(fs) /\ c)) \in Frames
        BY <1>1, <3>2, <3>3
      <3>5. QED
        BY <3>4, Cons DEF pushIfFrame
    <2>2. Conditional(fs, ms, l) = pushIfFrame(fs, Condition(fs, ms, l))
      BY <1>3 DEF Conditional, OpenKinds
    <2>3. QED
      BY <1>2, <2>1, <2>2
  <1>4. CASE l.d \in {"elif", "else", "endif"}
    <2>1. fs # <<>> /\ Head(fs) \in Frames /\ Tail(fs) \in Seq(Frames)
      BY <1>4, HeadTail DEF Unmatched
    <2>2. \A a, b, t \in BOOLEAN :
             Frame(Head(fs).parent, t, a, Head(fs).ran + Count(b)) \in Frames
      BY <2>1 DEF Frame, Frames, Count
    <2>cons. \A F \in Frames : <<F>> \o Tail(fs) \in Seq(Frames)
      BY <2>1, Cons
    <2>3. CASE l.d = "elif"
      <3> DEFINE a == Head(fs).parent /\ ~Head(fs).taken /\ Condition(fs, ms, l)
      <3>1. a \in BOOLEAN /\ (Head(fs).taken \/ a) \in BOOLEAN
        OBVIOUS
      <3>2. Frame(Head(fs).parent, Head(fs).taken \/ a, a, Head(fs).ran + Count(a)) \in Frames
        BY <2>2, <3>1
      <3>3. Conditional(fs, ms, l)
              = <<Frame(Head(fs).parent, Head(fs).taken \/ a, a, Head(fs).ran + Count(a))>> \o Tail(fs)
        BY <2>3 DEF Conditional, OpenKinds, replaceElifFrame
      <3>4. QED
        BY <3>2, <3>3, <2>cons
    <2>4. CASE l.d = "else"
      <3> DEFINE a == Head(fs).parent /\ ~Head(fs).taken
      <3>1. a \in BOOLEAN
        OBVIOUS
      <3>2. Frame(Head(fs).parent, TRUE, a, Head(fs).ran + Count(a)) \in Frames
        BY <2>2, <3>1
      <3>3. Conditional(fs, ms, l)
              = <<Frame(Head(fs).parent, TRUE, a, Head(fs).ran + Count(a))>> \o Tail(fs)
        BY <2>4 DEF Conditional, OpenKinds, replaceElseFrame
      <3>4. QED
        BY <3>2, <3>3, <2>cons
    <2>5. CASE l.d = "endif"
      BY <2>1, <2>5 DEF Conditional, OpenKinds, popIfFrame
    <2>6. QED
      BY <1>4, <2>3, <2>4, <2>5
  <1>5. QED
    BY <1>3, <1>4 DEF CondKinds

\* The stack of the final pass is active where the stack of the file is, as
\* long as the #include that led to the file was active.
LEMMA ActiveConcat ==
    ASSUME NEW fs \in Seq(Frames), NEW o \in Seq(Frames), ifStackActive(o)
    PROVE  ifStackActive(fs \o o) = ifStackActive(fs)
  <1>1. CASE fs = <<>>
    <2>1. fs \o o = o
      BY <1>1, ConcatEmptySeq
    <2>2. ifStackActive(o) = TRUE
      BY ActiveBoolean
    <2>3. QED
      BY <1>1, <2>1, <2>2 DEF ifStackActive
  <1>2. CASE fs # <<>>
    BY <1>2, HeadConcat DEF ifStackActive
  <1>3. QED
    BY <1>1, <1>2

\* A directive that has its #if in the file does the same to the stack of the
\* file and to the longer stack of the final pass.
LEMMA ConditionalConcat ==
    ASSUME NEW fs \in Seq(Frames), NEW o \in Seq(Frames), ifStackActive(o),
           NEW ms, NEW l \in Lines, l.d \in CondKinds, ~Unmatched(fs, l)
    PROVE  /\ ~Unmatched(fs \o o, l)
           /\ EvalFails(fs \o o, ms, l) = EvalFails(fs, ms, l)
           /\ Conditional(fs \o o, ms, l) = Conditional(fs, ms, l) \o o
  <1>1. ifStackActive(fs \o o) = ifStackActive(fs)
    BY ActiveConcat
  <1>2. CASE l.d \in OpenKinds
    <2>1. Eligible(fs \o o, l) = Eligible(fs, l)
      BY <1>1, <1>2 DEF Eligible, OpenKinds
    <2>2. Condition(fs \o o, ms, l) = Condition(fs, ms, l)
      BY <2>1 DEF Condition
    <2>3. pushIfFrame(fs \o o, Condition(fs, ms, l)) = pushIfFrame(fs, Condition(fs, ms, l)) \o o
      <3> DEFINE c == Condition(fs, ms, l)
                 a == ifStackActive(fs) /\ c
                 F == Frame(ifStackActive(fs), a, a, Count(a))
      <3>1. pushIfFrame(fs \o o, c) = <<F>> \o (fs \o o)
        BY <1>1 DEF pushIfFrame
      <3>2. pushIfFrame(fs, c) = <<F>> \o fs
        BY DEF pushIfFrame
      <3>3. <<F>> \in Seq(Frames)
        <4>1. \A p, b \in BOOLEAN : Frame(p, b, b, Count(b)) \in Frames
          BY DEF Frame, Frames, Count
        <4>2. a \in BOOLEAN /\ ifStackActive(fs) \in BOOLEAN
          BY ActiveBoolean
        <4>3. F \in Frames
          BY <4>1, <4>2
        <4>4. QED
          BY <4>3
      <3>4. QED
        BY <3>1, <3>2, <3>3, ConcatAssociative
    <2>4. QED
      BY <1>2, <2>1, <2>2, <2>3 DEF Conditional, EvalFails, Unmatched, OpenKinds
  <1>3. CASE l.d \in {"elif", "else", "endif"}
    <2>1. fs # <<>>
      BY <1>3 DEF Unmatched
    <2>2. fs \o o # <<>> /\ Head(fs \o o) = Head(fs) /\ Tail(fs \o o) = Tail(fs) \o o
      BY <2>1, HeadConcat
    <2>3. Head(fs) \in Frames /\ Tail(fs) \in Seq(Frames)
      BY <2>1, HeadTail
    <2>4. elifEligible(fs \o o) = elifEligible(fs)
      BY <2>1, <2>2 DEF elifEligible
    <2>5. Eligible(fs \o o, l) = Eligible(fs, l)
      BY <1>3, <2>4 DEF Eligible
    <2>6. Condition(fs \o o, ms, l) = Condition(fs, ms, l)
      BY <2>5 DEF Condition
    <2>7. \A F \in Frames : <<F>> \o (Tail(fs) \o o) = (<<F>> \o Tail(fs)) \o o
      <3>1. TAKE F \in Frames
      <3>2. <<F>> \in Seq(Frames)
        OBVIOUS
      <3>3. QED
        BY <2>3, <3>2, ConcatAssociative
    <2>8. Conditional(fs \o o, ms, l) = Conditional(fs, ms, l) \o o
      <3>1. CASE l.d = "elif"
        <4> DEFINE a == Head(fs).parent /\ ~Head(fs).taken /\ Condition(fs, ms, l)
                   F == Frame(Head(fs).parent, Head(fs).taken \/ a, a, Head(fs).ran + Count(a))
        <4>1. F \in Frames
          <5>1. \A b, t \in BOOLEAN :
                   Frame(Head(fs).parent, t, b, Head(fs).ran + Count(b)) \in Frames
            BY <2>3 DEF Frame, Frames, Count
          <5>2. a \in BOOLEAN /\ (Head(fs).taken \/ a) \in BOOLEAN
            OBVIOUS
          <5>3. QED
            BY <5>1, <5>2
        <4>2. Conditional(fs, ms, l) = <<F>> \o Tail(fs)
          BY <3>1 DEF Conditional, OpenKinds, replaceElifFrame
        <4>3. Conditional(fs \o o, ms, l) = <<F>> \o (Tail(fs) \o o)
          BY <3>1, <2>2, <2>6 DEF Conditional, OpenKinds, replaceElifFrame
        <4>4. QED
          BY <4>1, <4>2, <4>3, <2>7
      <3>2. CASE l.d = "else"
        <4> DEFINE a == Head(fs).parent /\ ~Head(fs).taken
                   F == Frame(Head(fs).parent, TRUE, a, Head(fs).ran + Count(a))
        <4>1. F \in Frames
          <5>1. \A b \in BOOLEAN :
                   Frame(Head(fs).parent, TRUE, b, Head(fs).ran + Count(b)) \in Frames
            BY <2>3 DEF Frame, Frames, Count
          <5>2. a \in BOOLEAN
            OBVIOUS
          <5>3. QED
            BY <5>1, <5>2
        <4>2. Conditional(fs, ms, l) = <<F>> \o Tail(fs)
          BY <3>2 DEF Conditional, OpenKinds, replaceElseFrame
        <4>3. Conditional(fs \o o, ms, l) = <<F>> \o (Tail(fs) \o o)
          BY <3>2, <2>2 DEF Conditional, OpenKinds, replaceElseFrame
        <4>4. QED
          BY <4>1, <4>2, <4>3, <2>7
      <3>3. CASE l.d = "endif"
        BY <3>3, <2>2 DEF Conditional, OpenKinds, popIfFrame
      <3>4. QED
        BY <1>3, <3>1, <3>2, <3>3
    <2>9. QED
      BY <2>2, <2>5, <2>8 DEF EvalFails, Unmatched
  <1>4. QED
    BY <1>2, <1>3 DEF CondKinds

(***************************************************************************)
(* Type correctness.                                                       *)
(***************************************************************************)
\* Reading a line keeps the texts of the files texts, and the line is one.
LEMMA ReadType ==
    ASSUME TypeOK, NEW l \in Lines, Next1(l)
    PROVE  /\ text' \in [Files -> Seq(Lines)]
           /\ ended' \subseteq Files
           /\ walk # <<>> /\ Top \in Entries /\ Tail(walk) \in Seq(Entries)
  <1>1. walk # <<>> /\ walk \in Seq(Entries)
    BY DEF Next1, TypeOK
  <1>2. Top \in Entries /\ Tail(walk) \in Seq(Entries)
    BY <1>1, HeadTail DEF Top
  <1>3. Top.file \in Files
    BY <1>2 DEF Entries
  <1>4. text' \in [Files -> Seq(Lines)] /\ ended' \subseteq Files
    <2>1. CASE UNCHANGED <<text, ended>>
      BY <2>1 DEF TypeOK
    <2>2. CASE text' = [text EXCEPT ![Top.file] = Append(@, l)] /\ ended' = ended
      <3>1. text[Top.file] \in Seq(Lines)
        BY <1>3 DEF TypeOK
      <3>2. Append(text[Top.file], l) \in Seq(Lines)
        BY <3>1, AppendProperties
      <3>3. QED
        BY <2>2, <3>2 DEF TypeOK
    <2>3. QED
      BY <2>1, <2>2 DEF Next1
  <1>5. QED
    BY <1>1, <1>2, <1>4

\* The walk with other frames at the next line of the file.
LEMMA AdvanceType ==
    ASSUME Top \in Entries, Tail(walk) \in Seq(Entries), NEW fs \in Seq(Frames)
    PROVE  /\ Advance(fs) \in Seq(Entries)
           /\ Advance(fs) # <<>>
  <1>1. Moved(fs) \in Entries
    BY DEF Entries, Moved
  <1>2. QED
    BY <1>1, Cons DEF Advance

\* Definitions give macros values.
LEMMA MacrosType ==
    ASSUME NEW ms \in [Macros -> Values], NEW l \in Lines
    PROVE  MacrosAfter(ms, l) \in [Macros -> Values]
  <1>1. CASE l.d = "define"
    <2>1. l.v \in Values
      BY <1>1, LinesAssumption
    <2>2. MacrosAfter(ms, l) = [ms EXCEPT ![l.m] = l.v]
      BY <1>1 DEF MacrosAfter
    <2>3. QED
      BY <2>1, <2>2
  <1>2. CASE l.d = "undef"
    <2>1. MacrosAfter(ms, l) = [ms EXCEPT ![l.m] = Undef]
      BY <1>2 DEF MacrosAfter
    <2>2. QED
      BY <2>1 DEF Values
  <1>3. CASE l.d \notin {"define", "undef"}
    BY <1>3 DEF MacrosAfter
  <1>4. QED
    BY <1>1, <1>2, <1>3

FinalType ==
    /\ fstatus \in {"run", "failed", "unresolved"}
    /\ fframes \in Seq(Frames)
    /\ fmacros \in [Macros -> Values]

\* A line leaves the final pass with frames and macros.
LEMMA FinalLineType ==
    ASSUME FinalType, NEW l \in Lines, FinalLine(l)
    PROVE  FinalType'
  <1>1. CASE fstatus # "run"
    BY <1>1 DEF FinalType, FinalLine, finalVars
  <1>2. CASE fstatus = "run" /\ l.d \in IncludeKinds /\ ifStackActive(fframes)
    BY <1>2 DEF FinalType, FinalLine
  <1>3. CASE fstatus = "run" /\ ~(l.d \in IncludeKinds /\ ifStackActive(fframes)) /\ FinalFails(l)
    BY <1>3 DEF FinalType, FinalLine
  <1>4. CASE fstatus = "run" /\ ~(l.d \in IncludeKinds /\ ifStackActive(fframes)) /\ ~FinalFails(l)
    <2>1. /\ fframes' = IF l.d \in CondKinds THEN Conditional(fframes, fmacros, l) ELSE fframes
          /\ fmacros' = IF ifStackActive(fframes) THEN MacrosAfter(fmacros, l) ELSE fmacros
          /\ fstatus' = fstatus
      BY <1>4 DEF FinalLine
    <2>2. ~Unmatched(fframes, l)
      BY <1>4 DEF FinalFails
    <2>3. fframes' \in Seq(Frames)
      BY <2>1, <2>2, ConditionalType DEF FinalType
    <2>4. fmacros' \in [Macros -> Values]
      BY <2>1, MacrosType DEF FinalType
    <2>5. QED
      BY <2>1, <2>3, <2>4 DEF FinalType
  <1>5. QED
    BY <1>1, <1>2, <1>3, <1>4

\* What expandFile puts in front of the walk.
LEMMA EntryType ==
    ASSUME NEW f \in Files, fframes \in Seq(Frames)
    PROVE  Entry(f) \in Entries
  <1>1. <<>> \in Seq(Frames)
    OBVIOUS
  <1>2. QED
    BY <1>1 DEF Entry, Entries

\* An #include that does not stop hcpp leads to one of the files.
LEMMA IncludedType ==
    ASSUME TypeOK, NEW l \in Lines, l.d \in IncludeKinds, Included(l) # Missing
    PROVE  Included(l) \in Files
  BY LinesAssumption, ResolveAssumption DEF TypeOK, Included, IncludeKinds, Values

\* Each step of hcpp keeps the type of every variable.
LEMMA TypeStep == TypeOK /\ [Next]_vars => TypeOK'
  <1> SUFFICES ASSUME TypeOK, [Next]_vars PROVE TypeOK'
    OBVIOUS
  <1>f. FinalType
    BY DEF TypeOK, FinalType
  <1>d. \A l \in Lines : Next1(l) /\ Die => TypeOK'
    BY ReadType DEF Die, TypeOK, finalVars
  <1>t. \A l \in Lines : Next1(l) => Top.frames \in Seq(Frames)
    BY ReadType DEF Entries
  <1>1. ASSUME NEW l \in Lines, ExpandPlain(l) PROVE TypeOK'
    <2>1. Next1(l)
      BY <1>1 DEF ExpandPlain
    <2>2. CASE Active /\ NoMacro(l)
      BY <1>1, <1>d, <2>1, <2>2 DEF ExpandPlain
    <2>3. CASE ~(Active /\ NoMacro(l))
      <3>1. /\ walk' = Advance(Top.frames)
            /\ macros' = IF Active THEN MacrosAfter(macros, l) ELSE macros
            /\ once' = IF l.d = "once" /\ Active THEN once \cup {Top.file} ELSE once
            /\ FinalLine(l)
            /\ status' = status
        BY <1>1, <2>3 DEF ExpandPlain
      <3>2. walk' \in Seq(Entries) /\ walk' # <<>>
        BY <3>1, <2>1, <1>t, ReadType, AdvanceType
      <3>3. macros' \in [Macros -> Values]
        BY <3>1, MacrosType DEF TypeOK
      <3>4. once' \subseteq Files
        BY <3>1, <2>1, ReadType DEF TypeOK, Entries
      <3>5. FinalType'
        BY <1>f, <3>1, FinalLineType
      <3>6. QED
        BY <2>1, <3>1, <3>2, <3>3, <3>4, <3>5, ReadType DEF TypeOK, FinalType
    <2>4. QED
      BY <2>2, <2>3
  <1>2. ASSUME NEW l \in Lines, ExpandConditional(l) PROVE TypeOK'
    <2>1. Next1(l) /\ l.d \in CondKinds
      BY <1>2 DEF ExpandConditional
    <2>2. CASE Unmatched(Top.frames, l) \/ EvalFails(Top.frames, macros, l)
      BY <1>2, <1>d, <2>1, <2>2 DEF ExpandConditional
    <2>3. CASE ~(Unmatched(Top.frames, l) \/ EvalFails(Top.frames, macros, l))
      <3>1. /\ walk' = Advance(Conditional(Top.frames, macros, l))
            /\ FinalLine(l)
            /\ UNCHANGED <<status, once, macros>>
        BY <1>2, <2>3 DEF ExpandConditional
      <3>2. Conditional(Top.frames, macros, l) \in Seq(Frames)
        BY <2>1, <2>3, <1>t, ConditionalType
      <3>3. walk' \in Seq(Entries) /\ walk' # <<>>
        BY <3>1, <3>2, <2>1, ReadType, AdvanceType
      <3>4. FinalType'
        BY <1>f, <3>1, FinalLineType
      <3>5. QED
        BY <2>1, <3>1, <3>3, <3>4, ReadType DEF TypeOK, FinalType
    <2>4. QED
      BY <2>2, <2>3
  <1>3. ASSUME NEW l \in Lines, ExpandInclude(l) PROVE TypeOK'
    <2>1. Next1(l) /\ l.d \in IncludeKinds
      BY <1>3 DEF ExpandInclude
    <2> DEFINE f == Included(l)
    <2>2. CASE f = Missing \/ (f \notin once /\ Len(walk) >= MaxDepth)
      BY <1>3, <1>d, <2>1, <2>2 DEF ExpandInclude
    <2>3. CASE ~(f = Missing \/ (f \notin once /\ Len(walk) >= MaxDepth))
      <3>1. /\ walk' = (IF f \in once THEN <<>> ELSE <<Entry(f)>>) \o Advance(Top.frames)
            /\ UNCHANGED <<status, once, macros, finalVars>>
        BY <1>3, <2>3 DEF ExpandInclude
      <3>2. Advance(Top.frames) \in Seq(Entries) /\ Advance(Top.frames) # <<>>
        BY <2>1, <1>t, ReadType, AdvanceType
      <3>3. Entry(f) \in Entries
        BY <2>1, <2>3, IncludedType, EntryType DEF TypeOK
      <3>4. walk' \in Seq(Entries) /\ walk' # <<>>
        BY <3>1, <3>2, <3>3, Cons, ConcatEmptySeq
      <3>5. QED
        BY <2>1, <3>1, <3>4, ReadType DEF TypeOK, finalVars
    <2>4. QED
      BY <2>2, <2>3
  <1>4. ASSUME EndFile PROVE TypeOK'
    <2>1. walk # <<>> /\ Top \in Entries /\ Tail(walk) \in Seq(Entries)
      BY <1>4, HeadTail DEF EndFile, TypeOK, Top
    <2>2. Top.file \in Files
      BY <2>1 DEF Entries
    <2>3. QED
      BY <1>4, <2>1, <2>2 DEF EndFile, Die, TypeOK, finalVars
  <1>5. CASE UNCHANGED vars
    BY <1>5 DEF TypeOK, vars
  <1>6. QED
    BY <1>1, <1>2, <1>3, <1>4, <1>5 DEF Next

\* The start of hcpp is well typed.
LEMMA TypeInit == Init => TypeOK
  <1> SUFFICES ASSUME Init PROVE TypeOK
    OBVIOUS
  <1>1. fframes \in Seq(Frames)
    BY DEF Init
  <1>2. Entry(Main) \in Entries
    BY <1>1, MainAssumption, EntryType
  <1>3. walk \in Seq(Entries) /\ walk # <<>>
    BY <1>2 DEF Init
  <1>4. QED
    BY <1>1, <1>3, DefinesAssumption DEF Init, TypeOK

\* The state of both passes of hcpp keeps its type whatever the files hold and
\* however they include one another, and the walk never reads from no file.
THEOREM WalkTypeCorrect == Spec => []TypeOK
  BY TypeInit, TypeStep, PTL DEF Spec

(***************************************************************************)
(* The two passes in step.  The stack of the final pass is the stack of    *)
(* the file being read on top of the stacks of the files that include it,  *)
(* each of which was active at its #include.                               *)
(***************************************************************************)
Below(w, i) == IF i = Len(w) THEN <<>> ELSE w[i + 1].frames \o w[i + 1].outer

Chain(w, ff) ==
    /\ ff = Below(w, 0)
    /\ \A i \in 1..Len(w) : w[i].outer = Below(w, i) /\ ifStackActive(w[i].outer)

Stacked == fstatus = "run" /\ status # "died" => macros = fmacros /\ Chain(walk, fframes)

Finished == status = "done" => walk = <<>>

\* The inductive invariant.
InStep == TypeOK /\ Stacked /\ Finished /\ IncludesResolved

\* Inside a file both stacks have the same idea of what is active.
LEMMA ChainActive ==
    ASSUME NEW w \in Seq(Entries), w # <<>>, NEW ff, Chain(w, ff)
    PROVE  /\ ff = Head(w).frames \o Head(w).outer
           /\ Head(w).frames \in Seq(Frames) /\ Head(w).outer \in Seq(Frames)
           /\ ifStackActive(Head(w).outer)
           /\ ifStackActive(ff) = ifStackActive(Head(w).frames)
  <1>1. Head(w) \in Entries /\ Head(w) = w[1] /\ Len(w) >= 1 /\ Len(w) \in Nat
    BY HeadTail
  <1>2. Head(w).frames \in Seq(Frames) /\ Head(w).outer \in Seq(Frames)
    BY <1>1 DEF Entries
  <1>3. ff = Head(w).frames \o Head(w).outer
    <2>1. 0 # Len(w) /\ w[0 + 1] = Head(w)
      BY <1>1
    <2>2. QED
      BY <2>1, Zenon DEF Chain, Below
  <1>4. ifStackActive(Head(w).outer)
    BY <1>1 DEF Chain
  <1>5. QED
    BY <1>2, <1>3, <1>4, ActiveConcat

\* The next line of the file, with other frames.
LEMMA ChainMove ==
    ASSUME NEW w \in Seq(Entries), w # <<>>, NEW ff, Chain(w, ff),
           NEW e \in Entries, e.outer = Head(w).outer
    PROVE  Chain(<<e>> \o Tail(w), e.frames \o e.outer)
  <1> DEFINE v == <<e>> \o Tail(w)
  <1>1. /\ Head(w) = w[1] /\ Tail(w) \in Seq(Entries) /\ Len(Tail(w)) = Len(w) - 1
        /\ Len(w) >= 1 /\ Len(w) \in Nat
        /\ \A i \in 1..(Len(w) - 1) : Tail(w)[i] = w[i + 1]
    BY HeadTail
  <1>2. /\ Len(v) = Len(w) /\ v[1] = e
        /\ \A i \in 1..(Len(w) - 1) : v[i + 1] = w[i + 1]
    BY <1>1, Cons
  <1> HIDE DEF v
  <1>3. \A i \in 1..Len(w) : Below(v, i) = Below(w, i)
    <2>1. TAKE i \in 1..Len(w)
    <2>2. CASE i = Len(w)
      BY <1>2, <2>2 DEF Below
    <2>3. CASE i # Len(w)
      <3>0. i \in 1..(Len(w) - 1)
        <4>1. Len(w) \in Nat
          BY <1>1
        <4>2. \A n \in Nat : \A k \in 1..n : k # n => k \in 1..(n - 1)
          OBVIOUS
        <4>3. QED
          BY <2>3, <4>1, <4>2
      <3>1. v[i + 1] = w[i + 1]
        BY <1>2, <3>0
      <3>2. i # Len(v)
        BY <1>2, <2>3
      <3>3. QED
        BY <2>3, <3>1, <3>2, Zenon DEF Below
    <2>4. QED
      BY <2>2, <2>3
  <1>4. Below(v, 0) = e.frames \o e.outer
    <2>1. 0 # Len(v) /\ v[0 + 1] = e
      BY <1>1, <1>2
    <2>2. QED
      BY <2>1, Zenon DEF Below
  <1>5. \A i \in 1..Len(v) : v[i].outer = Below(v, i) /\ ifStackActive(v[i].outer)
    <2>1. TAKE i \in 1..Len(v)
    <2>2. v[i].outer = w[i].outer
      <3>1. CASE i = 1
        BY <1>1, <1>2, <3>1
      <3>2. CASE i # 1
        BY <1>1, <1>2, <3>2, i - 1 \in 1..(Len(w) - 1), (i - 1) + 1 = i
      <3>3. QED
        BY <3>1, <3>2
    <2>3. QED
      BY <1>2, <1>3, <2>2 DEF Chain
  <1>6. Chain(v, e.frames \o e.outer)
    BY <1>4, <1>5 DEF Chain
  <1>7. QED
    BY <1>6 DEF v

\* Entering a file from an active line.
LEMMA ChainPush ==
    ASSUME NEW w \in Seq(Entries), NEW ff \in Seq(Frames), Chain(w, ff), ifStackActive(ff),
           NEW e \in Entries, e.outer = ff, e.frames = <<>>
    PROVE  Chain(<<e>> \o w, ff)
  <1> DEFINE v == <<e>> \o w
  <1>1. /\ Len(v) = Len(w) + 1 /\ v[1] = e /\ Len(w) \in Nat
        /\ \A i \in 1..Len(w) : v[i + 1] = w[i]
    BY Cons, LenProperties
  <1> HIDE DEF v
  <1>2. \A i \in 0..Len(w) : Below(v, i + 1) = Below(w, i)
    <2>1. TAKE i \in 0..Len(w)
    <2>2. CASE i = Len(w)
      BY <1>1, <2>2 DEF Below
    <2>3. CASE i # Len(w)
      <3>1. v[(i + 1) + 1] = w[i + 1]
        BY <1>1, <2>3
      <3>2. i + 1 # Len(v)
        BY <1>1, <2>3
      <3>3. QED
        BY <2>3, <3>1, <3>2 DEF Below
    <2>4. QED
      BY <2>2, <2>3
  <1>3. Below(v, 0) = ff
    <2>1. 0 # Len(v) /\ v[0 + 1] = e
      BY <1>1
    <2>2. Below(v, 0) = e.frames \o e.outer
      BY <2>1, Zenon DEF Below
    <2>3. QED
      BY <2>2, ConcatEmptySeq
  <1>4. \A i \in 1..Len(v) : v[i].outer = Below(v, i) /\ ifStackActive(v[i].outer)
    <2>1. TAKE i \in 1..Len(v)
    <2>2. CASE i = 1
      BY <1>1, <1>2, <2>2, Below(v, 0 + 1) = Below(w, 0) DEF Chain
    <2>3. CASE i # 1
      <3>1. i - 1 \in 1..Len(w) /\ (i - 1) + 1 = i
        BY <1>1, <2>3
      <3>2. v[i] = w[i - 1] /\ Below(v, i) = Below(w, i - 1)
        BY <1>1, <1>2, <3>1
      <3>3. QED
        BY <3>1, <3>2 DEF Chain
    <2>4. QED
      BY <2>2, <2>3
  <1>5. Chain(v, ff)
    BY <1>3, <1>4 DEF Chain
  <1>6. QED
    BY <1>5 DEF v

\* The end of a file whose conditionals are closed.
LEMMA ChainPop ==
    ASSUME NEW w \in Seq(Entries), w # <<>>, NEW ff, Chain(w, ff), Head(w).frames = <<>>
    PROVE  Chain(Tail(w), ff)
  <1> DEFINE v == Tail(w)
  <1>1. /\ Head(w) = w[1] /\ Len(v) = Len(w) - 1 /\ Len(w) \in Nat /\ Len(w) >= 1
        /\ \A i \in 1..(Len(w) - 1) : v[i] = w[i + 1]
    BY HeadTail
  <1>2. ff = Below(w, 1)
    <2>1. ff = <<>> \o Head(w).outer /\ Head(w).outer \in Seq(Frames)
      BY ChainActive
    <2>2. QED
      BY <1>1, <2>1, ConcatEmptySeq DEF Chain
  <1> HIDE DEF v
  <1>3. \A i \in 0..(Len(w) - 1) : Below(v, i) = Below(w, i + 1)
    <2>1. TAKE i \in 0..(Len(w) - 1)
    <2>2. CASE i = Len(w) - 1
      BY <1>1, <2>2 DEF Below
    <2>3. CASE i # Len(w) - 1
      <3>1. v[i + 1] = w[(i + 1) + 1]
        BY <1>1, <2>3
      <3>2. i # Len(v) /\ i + 1 # Len(w)
        BY <1>1, <2>3
      <3>3. QED
        BY <3>1, <3>2 DEF Below
    <2>4. QED
      BY <2>2, <2>3
  <1>4. ff = Below(v, 0)
    BY <1>1, <1>2, <1>3, Below(v, 0) = Below(w, 0 + 1)
  <1>5. \A i \in 1..Len(v) : v[i].outer = Below(v, i) /\ ifStackActive(v[i].outer)
    BY <1>1, <1>3 DEF Chain
  <1>6. Chain(v, ff)
    BY <1>4, <1>5 DEF Chain
  <1>7. QED
    BY <1>6 DEF v

\* A line that is no conditional and no active #include does not change the
\* frames of the final pass.
LEMMA FinalPlain ==
    ASSUME NEW l \in Lines, l.d \notin CondKinds, fstatus = "run", FinalLine(l),
           l.d \in IncludeKinds => ~ifStackActive(fframes)
    PROVE  /\ fstatus' # "unresolved"
           /\ fstatus' = "run" =>
                 /\ fframes' = fframes
                 /\ fmacros' = IF ifStackActive(fframes) THEN MacrosAfter(fmacros, l) ELSE fmacros
  <1>1. CASE FinalFails(l)
    BY <1>1 DEF FinalLine
  <1>2. CASE ~FinalFails(l)
    BY <1>2 DEF FinalLine
  <1>3. QED
    BY <1>1, <1>2

\* A conditional does to the final pass what it does to its own frames.
LEMMA FinalConditional ==
    ASSUME NEW l \in Lines, l.d \in CondKinds, fstatus = "run", FinalLine(l)
    PROVE  /\ fstatus' # "unresolved"
           /\ fstatus' = "run" =>
                 fframes' = Conditional(fframes, fmacros, l) /\ fmacros' = fmacros
  <1>1. l.d \notin IncludeKinds /\ l.d \notin {"define", "undef"}
    BY DEF CondKinds, OpenKinds, IncludeKinds
  <1>2. MacrosAfter(fmacros, l) = fmacros
    BY <1>1 DEF MacrosAfter
  <1>3. CASE FinalFails(l)
    BY <1>1, <1>3 DEF FinalLine
  <1>4. CASE ~FinalFails(l)
    BY <1>1, <1>2, <1>4 DEF FinalLine
  <1>5. QED
    BY <1>3, <1>4

\* Once it has stopped, the final pass stays as it is.
LEMMA FinalStopped ==
    ASSUME NEW l, fstatus # "run", FinalLine(l)
    PROVE  fstatus' = fstatus
  BY DEF FinalLine, finalVars

\* Each step of hcpp keeps the two passes in step.
LEMMA StackedStep == InStep /\ [Next]_vars => Stacked' /\ Finished' /\ IncludesResolved'
  <1> SUFFICES ASSUME InStep, [Next]_vars PROVE Stacked' /\ Finished' /\ IncludesResolved'
    OBVIOUS
  <1>i. TypeOK /\ Stacked /\ Finished /\ fstatus # "unresolved"
    BY DEF InStep, IncludesResolved
  <1>d. Die => Stacked' /\ Finished' /\ IncludesResolved'
    BY <1>i DEF Die, Stacked, Finished, IncludesResolved, finalVars
  <1>r. \A l \in Lines : Next1(l) =>
           /\ status = "run" /\ walk # <<>> /\ walk \in Seq(Entries)
           /\ Top \in Entries /\ Top = Head(walk) /\ Tail(walk) \in Seq(Entries)
    BY <1>i, ReadType DEF Next1, TypeOK, Top
  <1>m. ASSUME NEW l \in Lines, Next1(l), fstatus = "run", NEW fs \in Seq(Frames)
        PROVE  Chain(Advance(fs), fs \o Top.outer) /\ Advance(fs) \in Seq(Entries)
    <2>1. Moved(fs) \in Entries /\ Moved(fs).outer = Top.outer /\ Moved(fs).frames = fs
      BY <1>m, <1>r DEF Moved, Entries
    <2>2. Chain(walk, fframes)
      BY <1>i, <1>m, <1>r DEF Stacked
    <2>3. QED
      BY <1>m, <1>r, <2>1, <2>2, ChainMove, AdvanceType DEF Advance
  <1>c. ASSUME NEW l \in Lines, Next1(l), fstatus = "run"
        PROVE  /\ macros = fmacros
               /\ fframes = Top.frames \o Top.outer
               /\ Top.frames \in Seq(Frames) /\ Top.outer \in Seq(Frames)
               /\ ifStackActive(Top.outer)
               /\ ifStackActive(fframes) = Active
    BY <1>i, <1>c, <1>r, ChainActive DEF Stacked, Active, Top
  <1>1. ASSUME NEW l \in Lines, ExpandPlain(l) PROVE Stacked' /\ Finished' /\ IncludesResolved'
    <2>1. Next1(l) /\ l.d \notin CondKinds /\ (l.d \in IncludeKinds => ~Active)
      BY <1>1 DEF ExpandPlain
    <2>2. CASE Active /\ NoMacro(l)
      BY <1>1, <1>d, <2>2 DEF ExpandPlain
    <2>3. CASE ~(Active /\ NoMacro(l))
      <3>1. /\ walk' = Advance(Top.frames)
            /\ macros' = IF Active THEN MacrosAfter(macros, l) ELSE macros
            /\ FinalLine(l)
            /\ status' = status
        BY <1>1, <2>3 DEF ExpandPlain
      <3>2. Finished'
        BY <3>1, <2>1, <1>r DEF Finished
      <3>3. CASE fstatus # "run"
        BY <1>i, <3>1, <3>2, <3>3, FinalStopped DEF Stacked, IncludesResolved
      <3>4. CASE fstatus = "run"
        <4>1. /\ macros = fmacros /\ ifStackActive(fframes) = Active
              /\ fframes = Top.frames \o Top.outer /\ Top.frames \in Seq(Frames)
          BY <1>c, <2>1, <3>4
        <4>2. /\ fstatus' # "unresolved"
              /\ fstatus' = "run" =>
                    /\ fframes' = fframes
                    /\ fmacros' = IF ifStackActive(fframes) THEN MacrosAfter(fmacros, l) ELSE fmacros
          BY <2>1, <3>1, <3>4, <4>1, FinalPlain
        <4>3. Chain(walk', fframes)
          BY <1>m, <2>1, <3>1, <3>4, <4>1
        <4>4. QED
          BY <3>1, <3>2, <4>1, <4>2, <4>3 DEF Stacked, IncludesResolved
      <3>5. QED
        BY <3>3, <3>4
    <2>4. QED
      BY <2>2, <2>3
  <1>2. ASSUME NEW l \in Lines, ExpandConditional(l) PROVE Stacked' /\ Finished' /\ IncludesResolved'
    <2>1. Next1(l) /\ l.d \in CondKinds
      BY <1>2 DEF ExpandConditional
    <2>2. CASE Unmatched(Top.frames, l) \/ EvalFails(Top.frames, macros, l)
      BY <1>2, <1>d, <2>2 DEF ExpandConditional
    <2>3. CASE ~(Unmatched(Top.frames, l) \/ EvalFails(Top.frames, macros, l))
      <3> DEFINE fs == Conditional(Top.frames, macros, l)
      <3>1. /\ walk' = Advance(fs)
            /\ FinalLine(l)
            /\ status' = status /\ macros' = macros
        BY <1>2, <2>3 DEF ExpandConditional
      <3>2. Finished'
        BY <3>1, <2>1, <1>r DEF Finished
      <3>3. CASE fstatus # "run"
        BY <1>i, <3>1, <3>2, <3>3, FinalStopped DEF Stacked, IncludesResolved
      <3>4. CASE fstatus = "run"
        <4>1. /\ macros = fmacros /\ fframes = Top.frames \o Top.outer
              /\ Top.frames \in Seq(Frames) /\ Top.outer \in Seq(Frames)
              /\ ifStackActive(Top.outer)
          BY <1>c, <2>1, <3>4
        <4>2. /\ fstatus' # "unresolved"
              /\ fstatus' = "run" =>
                    fframes' = Conditional(fframes, fmacros, l) /\ fmacros' = fmacros
          BY <2>1, <3>1, <3>4, FinalConditional
        <4>3. Conditional(fframes, fmacros, l) = fs \o Top.outer
          BY <2>1, <2>3, <4>1, ConditionalConcat
        <4>4. fs \in Seq(Frames)
          BY <2>1, <2>3, <4>1, ConditionalType
        <4>5. Chain(walk', fs \o Top.outer)
          BY <1>m, <2>1, <3>1, <3>4, <4>4
        <4>6. QED
          BY <3>1, <3>2, <4>1, <4>2, <4>3, <4>5 DEF Stacked, IncludesResolved
      <3>5. QED
        BY <3>3, <3>4
    <2>4. QED
      BY <2>2, <2>3
  <1>3. ASSUME NEW l \in Lines, ExpandInclude(l) PROVE Stacked' /\ Finished' /\ IncludesResolved'
    <2>1. Next1(l) /\ l.d \in IncludeKinds /\ Active
      BY <1>3 DEF ExpandInclude
    <2> DEFINE f == Included(l)
    <2>2. CASE f = Missing \/ (f \notin once /\ Len(walk) >= MaxDepth)
      BY <1>3, <1>d, <2>2 DEF ExpandInclude
    <2>3. CASE ~(f = Missing \/ (f \notin once /\ Len(walk) >= MaxDepth))
      <3>1. /\ walk' = (IF f \in once THEN <<>> ELSE <<Entry(f)>>) \o Advance(Top.frames)
            /\ status' = status /\ macros' = macros
            /\ fstatus' = fstatus /\ fframes' = fframes /\ fmacros' = fmacros
        BY <1>3, <2>3 DEF ExpandInclude, finalVars
      <3>2. Finished' /\ IncludesResolved'
        BY <1>i, <3>1, <2>1, <1>r DEF Finished, IncludesResolved
      <3>3. CASE fstatus # "run"
        BY <3>1, <3>2, <3>3 DEF Stacked
      <3>4. CASE fstatus = "run"
        <4>1. /\ macros = fmacros /\ ifStackActive(fframes)
              /\ fframes = Top.frames \o Top.outer /\ Top.frames \in Seq(Frames)
          BY <1>c, <2>1, <3>4
        <4>2. Chain(Advance(Top.frames), fframes) /\ Advance(Top.frames) \in Seq(Entries)
          BY <1>m, <2>1, <3>4, <4>1
        <4>3. fframes \in Seq(Frames)
          BY <1>i DEF TypeOK
        <4>4. Entry(f) \in Entries /\ Entry(f).outer = fframes /\ Entry(f).frames = <<>>
          <5>1. Entry(f) \in Entries
            BY <1>i, <2>1, <2>3, <4>3, IncludedType, EntryType
          <5>2. QED
            BY <5>1 DEF Entry
        <4>5. Chain(walk', fframes)
          <5>1. CASE f \in once
            BY <3>1, <4>2, <5>1, ConcatEmptySeq
          <5>2. CASE f \notin once
            <6>1. walk' = <<Entry(f)>> \o Advance(Top.frames)
              BY <3>1, <5>2
            <6>2. QED
              BY <6>1, <4>1, <4>2, <4>3, <4>4, ChainPush
          <5>3. QED
            BY <5>1, <5>2
        <4>6. QED
          BY <3>1, <3>2, <4>1, <4>5 DEF Stacked
      <3>5. QED
        BY <3>3, <3>4
    <2>4. QED
      BY <2>2, <2>3
  <1>4. ASSUME EndFile PROVE Stacked' /\ Finished' /\ IncludesResolved'
    <2>1. status = "run" /\ walk # <<>> /\ walk \in Seq(Entries)
      BY <1>i, <1>4 DEF EndFile, TypeOK
    <2>2. CASE Top.frames # <<>>
      BY <1>4, <1>d, <2>2 DEF EndFile
    <2>3. CASE Top.frames = <<>>
      <3>1. /\ walk' = Tail(walk)
            /\ status' = IF Tail(walk) = <<>> THEN "done" ELSE "run"
            /\ macros' = macros
            /\ fstatus' = fstatus /\ fframes' = fframes /\ fmacros' = fmacros
        BY <1>4, <2>3 DEF EndFile, finalVars
      <3>2. Finished' /\ IncludesResolved'
        BY <1>i, <3>1 DEF Finished, IncludesResolved
      <3>3. CASE fstatus = "run"
        <4>1. Chain(walk, fframes) /\ macros = fmacros
          BY <1>i, <2>1, <3>3 DEF Stacked
        <4>2. Chain(Tail(walk), fframes)
          BY <2>1, <2>3, <4>1, ChainPop DEF Top
        <4>3. QED
          BY <3>1, <3>2, <4>1, <4>2 DEF Stacked
      <3>4. QED
        BY <3>1, <3>2, <3>3 DEF Stacked
    <2>4. QED
      BY <2>2, <2>3
  <1>5. CASE UNCHANGED vars
    BY <1>i, <1>5 DEF vars, Stacked, Finished, IncludesResolved
  <1>6. QED
    BY <1>1, <1>2, <1>3, <1>4, <1>5 DEF Next

\* Both passes start in step.
LEMMA StackedInit == Init => Stacked /\ Finished /\ IncludesResolved
  <1> SUFFICES ASSUME Init PROVE Stacked /\ Finished /\ IncludesResolved
    OBVIOUS
  <1>1. walk = <<Entry(Main)>> /\ Entry(Main).frames = <<>> /\ Entry(Main).outer = <<>>
    BY DEF Init, Entry
  <1>2. Len(walk) = 1 /\ walk[1] = Entry(Main)
    BY <1>1
  <1>3. <<>> \o <<>> = <<>>
    BY <<>> \in Seq(Frames), ConcatEmptySeq
  <1>4. Below(walk, 1) = <<>>
    BY <1>2, Zenon DEF Below
  <1>5. Below(walk, 0) = <<>>
    <2>1. 0 # Len(walk) /\ walk[0 + 1] = Entry(Main)
      BY <1>2
    <2>2. Below(walk, 0) = Entry(Main).frames \o Entry(Main).outer
      BY <2>1, Zenon DEF Below
    <2>3. QED
      BY <1>1, <1>3, <2>2
  <1>6. ifStackActive(<<>>)
    BY DEF ifStackActive
  <1>7. Chain(walk, fframes)
    BY <1>1, <1>2, <1>4, <1>5, <1>6 DEF Chain, Init
  <1>8. QED
    BY <1>7 DEF Init, Stacked, Finished, IncludesResolved

\* The two passes are in step in every reachable state.
LEMMA InStepAlways == Spec => []InStep
  <1>1. Init => InStep
    BY TypeInit, StackedInit DEF InStep
  <1>2. InStep /\ [Next]_vars => InStep'
    BY TypeStep, StackedStep DEF InStep
  <1>3. QED
    BY <1>1, <1>2, PTL DEF Spec

\* The include walk and the final pass of hcpp have the same macros and the same
\* idea of what is active at every line of every file, however the files include
\* one another and whatever conditionals and definitions they hold.
THEOREM WalkPassesAgree == Spec => []PassesAgree
  <1>1. InStep => PassesAgree
    <2> SUFFICES ASSUME InStep, fstatus = "run", status = "run"
                 PROVE  macros = fmacros /\ ifStackActive(fframes) = Active
      BY DEF PassesAgree
    <2>1. walk \in Seq(Entries) /\ walk # <<>> /\ Chain(walk, fframes) /\ macros = fmacros
      BY DEF InStep, TypeOK, Stacked
    <2>2. QED
      BY <2>1, ChainActive DEF Active, Top
  <1>2. QED
    BY <1>1, InStepAlways, PTL

\* The final pass never reports an unresolved active #include: the walk has
\* replaced every #include that the final pass would find active.
THEOREM WalkIncludesResolved == Spec => []IncludesResolved
  <1>1. InStep => IncludesResolved
    BY DEF InStep
  <1>2. QED
    BY <1>1, InStepAlways, PTL

\* What the walk accepts has every conditional closed in the final pass too.
THEOREM WalkConditionalsClosed == Spec => []ConditionalsClosed
  <1>1. InStep => ConditionalsClosed
    <2> SUFFICES ASSUME InStep, status = "done", fstatus = "run"
                 PROVE  fframes = <<>>
      BY DEF ConditionalsClosed
    <2>1. walk = <<>> /\ fframes = Below(walk, 0)
      BY DEF InStep, Stacked, Finished, Chain
    <2>2. Len(walk) = 0
      BY <2>1
    <2>3. QED
      BY <2>1, <2>2, Zenon DEF Below
  <1>2. QED
    BY <1>1, InStepAlways, PTL
(***************************************************************************)
(* The groups of one #if.                                                  *)
(***************************************************************************)
\* What OneGroup says of a frame: taken tells, inside an active group, whether
\* one group has run, and that is all a frame needs to remember.
RunsOnce(f) ==
    /\ f.ran <= 1
    /\ f.ran = 1 => f.parent /\ f.taken
    /\ f.parent /\ f.taken => f.ran = 1
    /\ f.active => f.ran = 1

EachRunsOnce(fs) == \A j \in DOMAIN fs : RunsOnce(fs[j])

\* OneGroup is about the frames of every file of the walk.
LEMMA OneGroupIs == OneGroup <=> \A i \in DOMAIN walk : EachRunsOnce(walk[i].frames)
  BY DEF OneGroup, EachRunsOnce, RunsOnce

\* A frame put on a stack.
LEMMA OncePushed ==
    ASSUME NEW fs \in Seq(Frames), EachRunsOnce(fs), NEW F \in Frames, RunsOnce(F)
    PROVE  EachRunsOnce(<<F>> \o fs)
  <1> DEFINE gs == <<F>> \o fs
  <1>1. gs \in Seq(Frames) /\ Len(gs) = Len(fs) + 1 /\ gs[1] = F
        /\ \A i \in 1..Len(fs) : gs[i + 1] = fs[i]
    BY Cons
  <1>2. ASSUME NEW j \in DOMAIN gs PROVE RunsOnce(gs[j])
    <2>1. j \in 1..(Len(fs) + 1)
      BY <1>1
    <2>2. CASE j = 1
      BY <1>1, <2>2
    <2>3. CASE j # 1
      <3>1. j - 1 \in 1..Len(fs) /\ (j - 1) + 1 = j
        BY <2>1, <2>3
      <3> QED BY <1>1, <3>1 DEF EachRunsOnce
    <2> QED BY <2>2, <2>3
  <1> QED BY <1>2 DEF EachRunsOnce

\* A stack without its innermost frame.
LEMMA OncePopped ==
    ASSUME NEW fs \in Seq(Frames), fs # <<>>, EachRunsOnce(fs)
    PROVE  RunsOnce(Head(fs)) /\ EachRunsOnce(Tail(fs))
  <1>1. Head(fs) = fs[1] /\ Len(fs) >= 1 /\ Tail(fs) \in Seq(Frames) /\ Len(Tail(fs)) = Len(fs) - 1
        /\ \A i \in 1..(Len(fs) - 1) : Tail(fs)[i] = fs[i + 1]
    BY HeadTail
  <1>2. 1 \in DOMAIN fs
    BY <1>1
  <1>3. ASSUME NEW j \in DOMAIN Tail(fs) PROVE RunsOnce(Tail(fs)[j])
    <2>1. j \in 1..(Len(fs) - 1) /\ j + 1 \in DOMAIN fs
      BY <1>1
    <2> QED BY <1>1, <2>1 DEF EachRunsOnce
  <1> QED BY <1>1, <1>2, <1>3 DEF EachRunsOnce

\* #elif and #else: the next group becomes active after groups that have not
\* run only, and #else leaves none to come.
LEMMA NextGroup ==
    ASSUME NEW H \in Frames, RunsOnce(H), NEW c \in BOOLEAN, NEW t \in BOOLEAN, NEW a \in BOOLEAN,
           \/ (a <=> H.parent /\ ~H.taken /\ c) /\ (t <=> H.taken \/ a)
           \/ (a <=> H.parent /\ ~H.taken) /\ t
    PROVE  /\ Frame(H.parent, t, a, H.ran + Count(a)) \in Frames
           /\ RunsOnce(Frame(H.parent, t, a, H.ran + Count(a)))
  <1>1. H.parent \in BOOLEAN /\ H.taken \in BOOLEAN /\ H.ran \in Nat
    BY DEF Frames
  <1> DEFINE n == H.ran + Count(a)
             F == Frame(H.parent, t, a, n)
  <1>2. n \in Nat /\ (a => n = H.ran + 1) /\ (~a => n = H.ran)
    BY <1>1 DEF Count
  <1> HIDE DEF n
  <1>3. F \in Frames /\ F.parent = H.parent /\ F.taken = t /\ F.active = a /\ F.ran = n
    BY <1>1, <1>2 DEF Frame, Frames
  <1> HIDE DEF F
  <1>4. ASSUME a PROVE RunsOnce(F)
    <2>1. H.parent /\ ~H.taken /\ t
      BY <1>4
    <2>2. H.ran = 0
      BY <1>1, <2>1 DEF RunsOnce
    <2> QED BY <1>2, <1>3, <1>4, <2>1, <2>2 DEF RunsOnce
  <1>5. ASSUME ~a PROVE RunsOnce(F)
    <2>1. n = H.ran
      BY <1>2, <1>5
    <2>2. n <= 1 /\ (n = 1 => H.parent /\ t)
      BY <2>1, <1>5 DEF RunsOnce
    <2>3. H.parent /\ t => n = 1
      BY <2>1, <1>5 DEF RunsOnce
    <2> QED BY <1>3, <1>5, <2>2, <2>3 DEF RunsOnce
  <1> QED BY <1>3, <1>4, <1>5 DEF n, F

\* applyIfDirective keeps every frame of a stack in this way.
LEMMA ConditionalOnce ==
    ASSUME NEW fs \in Seq(Frames), EachRunsOnce(fs), NEW ms, NEW l \in Lines,
           l.d \in CondKinds, ~Unmatched(fs, l)
    PROVE  EachRunsOnce(Conditional(fs, ms, l))
  <1>1. CASE l.d \in OpenKinds
    <2> DEFINE p == ifStackActive(fs)
               a == p /\ Condition(fs, ms, l)
               F == Frame(p, a, a, Count(a))
    <2>1. p \in BOOLEAN /\ a \in BOOLEAN /\ (a => p)
      BY ActiveBoolean
    <2>2. \A q, b \in BOOLEAN : (b => q) =>
             Frame(q, b, b, Count(b)) \in Frames /\ RunsOnce(Frame(q, b, b, Count(b)))
      BY DEF Frame, Frames, Count, RunsOnce
    <2>3. F \in Frames /\ RunsOnce(F)
      BY <2>1, <2>2
    <2>4. Conditional(fs, ms, l) = <<F>> \o fs
      BY <1>1 DEF Conditional, OpenKinds, pushIfFrame
    <2> HIDE DEF F
    <2> QED BY <2>3, <2>4, OncePushed
  <1>2. CASE l.d \in {"elif", "else", "endif"}
    <2> DEFINE h == Head(fs)
    <2>1. fs # <<>> /\ h \in Frames /\ Tail(fs) \in Seq(Frames)
      BY <1>2, HeadTail DEF Unmatched
    <2>2. RunsOnce(h) /\ EachRunsOnce(Tail(fs))
      BY <2>1, OncePopped
    <2>3. CASE l.d = "elif"
      <3> DEFINE a == h.parent /\ ~h.taken /\ Condition(fs, ms, l)
                 F == Frame(h.parent, h.taken \/ a, a, h.ran + Count(a))
      <3>1. Conditional(fs, ms, l) = <<F>> \o Tail(fs)
        BY <2>3 DEF Conditional, OpenKinds, replaceElifFrame
      <3>2. Condition(fs, ms, l) \in BOOLEAN /\ a \in BOOLEAN /\ (h.taken \/ a) \in BOOLEAN
        BY DEF Condition
      <3>3. F \in Frames /\ RunsOnce(F)
        BY <2>1, <2>2, <3>2, NextGroup
      <3> HIDE DEF F
      <3> QED BY <2>1, <2>2, <3>1, <3>3, OncePushed
    <2>4. CASE l.d = "else"
      <3> DEFINE a == h.parent /\ ~h.taken
                 F == Frame(h.parent, TRUE, a, h.ran + Count(a))
      <3>1. Conditional(fs, ms, l) = <<F>> \o Tail(fs)
        BY <2>4 DEF Conditional, OpenKinds, replaceElseFrame
      <3>2. a \in BOOLEAN /\ TRUE \in BOOLEAN
        OBVIOUS
      <3>3. F \in Frames /\ RunsOnce(F)
        BY <2>1, <2>2, <3>2, NextGroup
      <3> HIDE DEF F
      <3> QED BY <2>1, <2>2, <3>1, <3>3, OncePushed
    <2>5. CASE l.d = "endif"
      BY <2>2, <2>5 DEF Conditional, OpenKinds, popIfFrame
    <2> QED BY <1>2, <2>3, <2>4, <2>5
  <1> QED BY <1>1, <1>2 DEF CondKinds

\* Every file of a walk w.
WalkRunsOnce(w) == \A i \in DOMAIN w : EachRunsOnce(w[i].frames)

\* A file put on the walk.
LEMMA OnceEntered ==
    ASSUME NEW w \in Seq(Entries), WalkRunsOnce(w), NEW e \in Entries, EachRunsOnce(e.frames)
    PROVE  WalkRunsOnce(<<e>> \o w)
  <1> DEFINE v == <<e>> \o w
  <1>1. v \in Seq(Entries) /\ Len(v) = Len(w) + 1 /\ v[1] = e
        /\ \A i \in 1..Len(w) : v[i + 1] = w[i]
    BY Cons
  <1>2. ASSUME NEW j \in DOMAIN v PROVE EachRunsOnce(v[j].frames)
    <2>1. j \in 1..(Len(w) + 1)
      BY <1>1
    <2>2. CASE j = 1
      BY <1>1, <2>2
    <2>3. CASE j # 1
      <3>1. j - 1 \in 1..Len(w) /\ (j - 1) + 1 = j
        BY <2>1, <2>3
      <3> QED BY <1>1, <3>1 DEF WalkRunsOnce
    <2> QED BY <2>2, <2>3
  <1> HIDE DEF v
  <1>3. WalkRunsOnce(v)
    BY <1>2 DEF WalkRunsOnce
  <1> QED BY <1>3 DEF v

\* The walk without its innermost file.
LEMMA OnceLeft ==
    ASSUME NEW w \in Seq(Entries), w # <<>>, WalkRunsOnce(w)
    PROVE  EachRunsOnce(Head(w).frames) /\ WalkRunsOnce(Tail(w))
  <1>1. Head(w) = w[1] /\ Len(w) >= 1 /\ Tail(w) \in Seq(Entries) /\ Len(Tail(w)) = Len(w) - 1
        /\ \A i \in 1..(Len(w) - 1) : Tail(w)[i] = w[i + 1]
    BY HeadTail
  <1>2. 1 \in DOMAIN w
    BY <1>1
  <1>3. ASSUME NEW j \in DOMAIN Tail(w) PROVE EachRunsOnce(Tail(w)[j].frames)
    <2>1. j \in 1..(Len(w) - 1) /\ j + 1 \in DOMAIN w
      BY <1>1
    <2> QED BY <1>1, <2>1 DEF WalkRunsOnce
  <1> QED BY <1>1, <1>2, <1>3 DEF WalkRunsOnce

\* Each step of the walk runs at most one group of each #if.
LEMMA OnceStep == TypeOK /\ OneGroup /\ [Next]_vars => OneGroup'
  <1> SUFFICES ASSUME TypeOK, OneGroup, [Next]_vars PROVE OneGroup'
    OBVIOUS
  <1>o. WalkRunsOnce(walk)
    BY OneGroupIs DEF WalkRunsOnce
  <1>g. WalkRunsOnce(walk') => OneGroup'
    BY DEF WalkRunsOnce, OneGroup, EachRunsOnce, RunsOnce
  <1>s. UNCHANGED walk => OneGroup'
    BY <1>o, <1>g
  <1>w. walk \in Seq(Entries) /\ (status = "run" => walk # <<>>)
    BY DEF TypeOK
  <1>t. status = "run" => /\ Top \in Entries /\ Tail(walk) \in Seq(Entries)
                          /\ Top.frames \in Seq(Frames)
                          /\ EachRunsOnce(Top.frames) /\ WalkRunsOnce(Tail(walk))
    <2> SUFFICES ASSUME status = "run"
                 PROVE  /\ Top \in Entries /\ Tail(walk) \in Seq(Entries)
                        /\ Top.frames \in Seq(Frames)
                        /\ EachRunsOnce(Top.frames) /\ WalkRunsOnce(Tail(walk))
      OBVIOUS
    <2>1. Top \in Entries /\ Tail(walk) \in Seq(Entries)
      BY <1>w, HeadTail DEF Top
    <2>2. EachRunsOnce(Top.frames) /\ WalkRunsOnce(Tail(walk))
      BY <1>o, <1>w, OnceLeft DEF Top
    <2> QED BY <2>1, <2>2 DEF Entries
  <1>a. \A fs \in Seq(Frames) : status = "run" /\ EachRunsOnce(fs) =>
           WalkRunsOnce(Advance(fs)) /\ Advance(fs) \in Seq(Entries)
    <2> SUFFICES ASSUME NEW fs \in Seq(Frames), status = "run", EachRunsOnce(fs)
                 PROVE  WalkRunsOnce(Advance(fs)) /\ Advance(fs) \in Seq(Entries)
      OBVIOUS
    <2>1. Moved(fs) \in Entries /\ Moved(fs).frames = fs
      BY <1>t DEF Moved, Entries
    <2> QED BY <1>t, <2>1, OnceEntered, AdvanceType DEF Advance
  <1>1. ASSUME NEW l \in Lines, ExpandPlain(l) PROVE OneGroup'
    <2>1. status = "run" /\ (UNCHANGED walk \/ walk' = Advance(Top.frames))
      BY <1>1 DEF ExpandPlain, Next1, Die
    <2> QED BY <2>1, <1>a, <1>g, <1>s, <1>t
  <1>2. ASSUME NEW l \in Lines, ExpandConditional(l) PROVE OneGroup'
    <2>1. status = "run" /\ l.d \in CondKinds
      BY <1>2 DEF ExpandConditional, Next1
    <2>2. CASE UNCHANGED walk
      BY <2>2, <1>s
    <2>3. CASE ~Unmatched(Top.frames, l) /\ walk' = Advance(Conditional(Top.frames, macros, l))
      <3>1. Conditional(Top.frames, macros, l) \in Seq(Frames)
        BY <1>t, <2>1, <2>3, ConditionalType
      <3>2. EachRunsOnce(Conditional(Top.frames, macros, l))
        BY <1>t, <2>1, <2>3, ConditionalOnce
      <3> QED BY <1>a, <1>g, <2>1, <2>3, <3>1, <3>2
    <2> QED BY <1>2, <2>2, <2>3 DEF ExpandConditional, Die
  <1>3. ASSUME NEW l \in Lines, ExpandInclude(l) PROVE OneGroup'
    <2>1. status = "run" /\ l.d \in IncludeKinds
      BY <1>3 DEF ExpandInclude, Next1
    <2> DEFINE v == Advance(Top.frames)
    <2>2. WalkRunsOnce(v) /\ v \in Seq(Entries)
      BY <1>a, <1>t, <2>1
    <2> HIDE DEF v
    <2>3. CASE UNCHANGED walk
      BY <2>3, <1>s
    <2>4. CASE Included(l) # Missing /\ walk' = <<Entry(Included(l))>> \o v
      <3>1. Entry(Included(l)) \in Entries
        BY <2>1, <2>4, IncludedType, EntryType DEF TypeOK
      <3>2. EachRunsOnce(Entry(Included(l)).frames)
        BY DEF Entry, EachRunsOnce
      <3> QED BY <2>2, <2>4, <3>1, <3>2, <1>g, OnceEntered
    <2>5. CASE walk' = <<>> \o v
      <3>1. walk' = v
        BY <2>2, <2>5, ConcatEmptySeq
      <3> QED BY <2>2, <3>1, <1>g
    <2> QED BY <1>3, <2>3, <2>4, <2>5 DEF ExpandInclude, Die, v
  <1>4. CASE EndFile
    <2>1. status = "run" /\ (UNCHANGED walk \/ walk' = Tail(walk))
      BY <1>4 DEF EndFile, Die
    <2> QED BY <2>1, <1>g, <1>s, <1>t
  <1>5. CASE UNCHANGED vars
    BY <1>5, <1>s DEF vars
  <1> QED BY <1>1, <1>2, <1>3, <1>4, <1>5 DEF Next

\* Of the groups of one #if at most one is active, none inside an inactive
\* group, and exactly one where #else was reached, for chains of any length and
\* any depth (IfFrame.hs).
THEOREM WalkRunsOneGroup == Spec => []OneGroup
  <1>1. Init => OneGroup
    <2> SUFFICES ASSUME Init PROVE OneGroup
      OBVIOUS
    <2>1. walk = <<Entry(Main)>> /\ Entry(Main).frames = <<>>
      BY DEF Init, Entry
    <2>2. \A i \in DOMAIN walk : walk[i].frames = <<>>
      BY <2>1
    <2> QED BY <2>2 DEF OneGroup
  <1>2. TypeOK /\ OneGroup /\ [Next]_vars => OneGroup'
    BY OnceStep
  <1>3. QED
    BY <1>1, <1>2, WalkTypeCorrect, PTL DEF Spec
===================================================================================
