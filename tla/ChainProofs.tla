------------------------------- MODULE ChainProofs ------------------------------
(***************************************************************************)
(* The three programs in a row: when all of them report success, the M1    *)
(* file is the translation of the source (EndToEnd), for every source,     *)
(* every table of values and functions, and any number of attempts.        *)
(***************************************************************************)
EXTENDS PublishProofs

(***************************************************************************)
(* Lines that are written and read again.                                  *)
(***************************************************************************)
Lines == Seq(Seq(Plain))

\* Lines are texts.
LEMMA LinesType == \A ls \in Lines : ls \in Seq(Text) /\ Len(ls) \in Nat /\ \A i \in 1..Len(ls) : ls[i] \in Seq(Plain)
<1>1. Plain \subseteq Chars
  BY DEF Plain
<1>2. ASSUME NEW l \in Seq(Plain) PROVE l \in Text
  BY <1>1, SeqMonotonic DEF Text
<1>3. ASSUME NEW ls \in Lines PROVE ls \in Seq(Text)
  <2> DEFINE A == Seq(Plain)
  <2>1. ls \in Seq(A) /\ A \subseteq Text
    BY <1>2 DEF Lines
  <2> HIDE DEF A
  <2> QED BY <2>1, SeqMonotonic
<1> QED BY <1>3 DEF Lines

\* A sequence is the concatenation of its elements.
LEMMA FlattenSingles ==
    ASSUME NEW S, NEW l \in Seq(S)
    PROVE  FlattenSeq([i \in 1..Len(l) |-> <<l[i]>>]) = l
<1> DEFINE n == Len(l)
           ss == [i \in 1..n |-> <<l[i]>>]
           f == [k \in 0..n |-> SubSeq(l, 1, k)]
<1>1. n \in Nat /\ \A i \in 1..n : l[i] \in S
  OBVIOUS
<1>2. ss \in Seq(Seq(S)) /\ Len(ss) = n /\ \A i \in 1..n : ss[i] = <<l[i]>>
  <2>1. \A i \in 1..n : <<l[i]>> \in Seq(S)
    BY <1>1
  <2> HIDE DEF n
  <2> QED BY <1>1, <2>1
<1>3. \A k \in 0..n : SubSeq(l, 1, k) \in Seq(S)
  BY <1>1
<1>4. ASSUME NEW i \in 1..n PROVE SubSeq(l, 1, i) = SubSeq(l, 1, i - 1) \o <<l[i]>>
  <2>1. 1 \in 1..Len(l) /\ i \in 1..Len(l)
    BY <1>1
  <2> QED BY <2>1, SubSeqRecursiveSecond
<1>5. SubSeq(l, 1, 0) = <<>> /\ SubSeq(l, 1, n) = l
  BY <1>1, SubSeqFull
<1> HIDE DEF ss, n
<1>6. f \in [0..n -> Seq(S)] /\ f[0] = <<>> /\ f[n] = l
  BY <1>1, <1>3, <1>5
<1>7. ASSUME NEW i \in 1..n PROVE f[i] = f[i - 1] \o ss[i]
  <2>1. i \in 0..n /\ i - 1 \in 0..n
    BY <1>1
  <2>2. f[i] = SubSeq(l, 1, i) /\ f[i - 1] = SubSeq(l, 1, i - 1)
    BY <2>1
  <2> HIDE DEF f
  <2> QED BY <1>2, <1>4, <2>2
<1> HIDE DEF f
<1>8. Sums(f, ss, S)
  BY <1>2, <1>6, <1>7 DEF Sums
<1>9. FlattenSeq(ss) = f[n]
  BY <1>2, <1>8, FlattenPartial
<1> QED BY <1>6, <1>9 DEF ss, n

\* One more character.
LEMMA OneMoreChar ==
    ASSUME NEW l \in Seq(Chars), NEW c \in Chars
    PROVE  /\ Append(l, c) \in Seq(Chars) /\ Len(Append(l, c)) = Len(l) + 1
           /\ \A i \in 1..Len(l) : Append(l, c)[i] = l[i]
           /\ Append(l, c)[Len(l) + 1] = c
OBVIOUS

\* A line and its end, before any text, are read as that line.
LEMMA LineRead ==
    ASSUME NEW l \in Seq(Plain), NEW r \in Text
    PROVE  LET t == Append(l, "nl") \o r
           IN  t \in Text /\ t # <<>> /\ LineOf(t) = l /\ AfterLine(t) = r
<1> DEFINE t == Append(l, "nl") \o r
           n == Len(l)
           s == t \o <<"nl">>
           I == {i \in 1..Len(s) : s[i] = "nl"}
<1>1. l \in Seq(Chars) /\ n \in Nat /\ \A i \in 1..n : l[i] \in Chars /\ l[i] # "nl" /\ l[i] # "cr"
  <2>1. Plain \subseteq Chars
    BY DEF Plain
  <2>2. l \in Seq(Chars)
    BY <2>1, SeqMonotonic
  <2>3. n \in Nat /\ \A i \in 1..n : l[i] \in Plain
    <3> DEFINE A == Plain
    <3> HIDE DEF A
    <3>1. l \in Seq(A)
      BY DEF A
    <3>2. Len(l) \in Nat /\ \A i \in 1..Len(l) : l[i] \in A
      BY <3>1
    <3> QED BY <3>2 DEF A
  <2> QED BY <2>2, <2>3 DEF Plain
<1>2. "nl" \in Chars /\ r \in Seq(Chars) /\ Len(r) \in Nat
  <2>1. "nl" \in Chars
    BY LinesAssumption
  <2>2. r \in Seq(Chars)
    BY DEF Text
  <2>3. Len(r) \in Nat
    BY <2>2, LenProperties
  <2> QED BY <2>1, <2>2, <2>3
<1> HIDE DEF n
<1>3. /\ Append(l, "nl") \in Seq(Chars) /\ Len(Append(l, "nl")) = n + 1
      /\ \A i \in 1..n : Append(l, "nl")[i] = l[i]
      /\ Append(l, "nl")[n + 1] = "nl"
  <2>1. /\ Append(l, "nl") \in Seq(Chars) /\ Len(Append(l, "nl")) = Len(l) + 1
        /\ \A i \in 1..Len(l) : Append(l, "nl")[i] = l[i]
        /\ Append(l, "nl")[Len(l) + 1] = "nl"
    BY <1>1, <1>2, OneMoreChar, Zenon
  <2> QED BY <2>1 DEF n
<1>4. /\ t \in Seq(Chars) /\ Len(t) = n + 1 + Len(r)
      /\ \A i \in 1..n : t[i] = l[i]
      /\ t[n + 1] = "nl"
      /\ \A i \in 1..Len(r) : t[n + 1 + i] = r[i]
  <2> DEFINE u == Append(l, "nl")
  <2> HIDE DEF u
  <2>1. u \in Seq(Chars) /\ Len(u) = n + 1 /\ (\A i \in 1..n : u[i] = l[i]) /\ u[n + 1] = "nl"
    BY <1>3 DEF u
  <2>2. /\ u \o r \in Seq(Chars) /\ Len(u \o r) = Len(u) + Len(r)
        /\ \A i \in 1..(Len(u) + Len(r)) : (u \o r)[i] = IF i <= Len(u) THEN u[i] ELSE r[i - Len(u)]
    BY <1>2, <2>1, ConcatProperties
  <2>3. \A i \in 1..n : (u \o r)[i] = l[i]
    BY <1>1, <1>2, <2>1, <2>2
  <2>4. (u \o r)[n + 1] = "nl"
    BY <1>1, <1>2, <2>1, <2>2
  <2>5. \A i \in 1..Len(r) : (u \o r)[n + 1 + i] = r[i]
    <3> SUFFICES ASSUME NEW i \in 1..Len(r) PROVE (u \o r)[n + 1 + i] = r[i]
      OBVIOUS
    <3>1. n + 1 + i \in 1..(Len(u) + Len(r)) /\ ~(n + 1 + i <= Len(u)) /\ (n + 1 + i) - Len(u) = i
      BY <1>1, <1>2, <2>1
    <3> QED BY <2>2, <3>1
  <2> QED BY <2>1, <2>2, <2>3, <2>4, <2>5 DEF u
<1> HIDE DEF t
<1>5. LineEnd(t) = n
  <2>1. Len(s) = n + 2 + Len(r) /\ \A i \in 1..(n + 1) : s[i] = t[i]
    <3>1. <<"nl">> \in Seq(Chars) /\ Len(<<"nl">>) = 1
      BY <1>2
    <3>2. /\ Len(s) = Len(t) + 1
          /\ \A i \in 1..(Len(t) + 1) : s[i] = IF i <= Len(t) THEN t[i] ELSE <<"nl">>[i - Len(t)]
      BY <1>4, <3>1, ConcatProperties
    <3> HIDE DEF s
    <3> QED BY <1>1, <1>2, <1>4, <3>2
  <2> HIDE DEF s
  <2>2. n + 1 \in I /\ I \subseteq Nat
    BY <1>1, <1>2, <1>4, <2>1
  <2>3. \A i \in I : n + 1 <= i
    <3> SUFFICES ASSUME NEW i \in I, ~(n + 1 <= i) PROVE FALSE
      OBVIOUS
    <3>1. i \in 1..n /\ i \in 1..(n + 1)
      BY <1>1, <2>1
    <3> QED BY <1>1, <1>4, <2>1, <3>1
  <2>4. LineEnd(t) = (IF I # {} THEN Min(I) ELSE 0) - 1
    BY DEF LineEnd, SelectInSeq, s
  <2> HIDE DEF I
  <2>5. Min(I) \in I /\ Min(I) <= n + 1
    BY <2>2, LeastNatural
  <2> DEFINE m == Min(I)
  <2> HIDE DEF m
  <2>6. m \in Nat /\ m <= n + 1 /\ n + 1 <= m
    BY <2>2, <2>3, <2>5 DEF m
  <2>7. m = n + 1
    BY <1>1, <2>6
  <2>8. LineEnd(t) = m - 1
    BY <2>2, <2>4 DEF m
  <2> QED BY <1>1, <2>7, <2>8
<1>6. LineOf(t) = l
  <2> DEFINE ss == [i \in 1..n |-> IF t[i] = "cr" THEN <<>> ELSE <<t[i]>>]
             uu == [i \in 1..n |-> <<l[i]>>]
  <2>1. LineOf(t) = FlattenSeq(ss)
    BY <1>5 DEF LineOf
  <2>2. ASSUME NEW i \in 1..n PROVE (IF t[i] = "cr" THEN <<>> ELSE <<t[i]>>) = <<l[i]>>
    BY <1>1, <1>4
  <2>3. ss = uu
    BY <2>2
  <2>4. FlattenSeq(uu) = l
    BY <1>1, FlattenSingles DEF n
  <2> HIDE DEF ss, uu
  <2> QED BY <2>1, <2>3, <2>4
<1>7. AfterLine(t) = r
  <2> DEFINE e == SubSeq(t, n + 2, Len(t))
  <2>1. n + 2 \in Int /\ Len(t) \in Int /\ Len(t) - (n + 2) + 1 = Len(r)
    BY <1>1, <1>2, <1>4
  <2>2. \A i \in (n + 2)..Len(t) : t[i] \in Chars
    <3>1. (n + 2)..Len(t) \subseteq 1..Len(t)
      BY <1>1
    <3> QED BY <1>4, <3>1
  <2>3. e \in Seq(Chars) /\ Len(e) = (IF n + 2 <= Len(t) THEN Len(t) - (n + 2) + 1 ELSE 0)
        /\ \A i \in 1..(Len(t) - (n + 2) + 1) : e[i] = t[(n + 2) + i - 1]
    BY <2>1, <2>2, SubSeqProperties
  <2> HIDE DEF e
  <2>4. Len(e) = Len(r)
    BY <1>1, <1>2, <1>4, <2>3
  <2>5. ASSUME NEW i \in 1..Len(r) PROVE e[i] = r[i]
    <3>1. e[i] = t[(n + 2) + i - 1] /\ (n + 2) + i - 1 = n + 1 + i
      BY <1>1, <2>1, <2>3
    <3> QED BY <1>4, <3>1
  <2>6. e = r
    BY <1>2, <2>3, <2>4, <2>5, SeqEqual
  <2> QED BY <1>5, <2>6 DEF AfterLine, e
<1>8. t # <<>>
  BY <1>1, <1>2, <1>4
<1> QED BY <1>4, <1>6, <1>7, <1>8 DEF t, Text

\* What is written line by line is read line by line.
LEMMA LinesReadBack == \A ls \in Lines : LinesOf[LinesText(ls)] = ls
<1> DEFINE P == {n \in Nat : \A ls \in Lines : Len(ls) = n => LinesOf[LinesText(ls)] = ls}
<1>1. 0 \in P
  <2> SUFFICES ASSUME NEW ls \in Lines, Len(ls) = 0 PROVE LinesOf[LinesText(ls)] = ls
    OBVIOUS
  <2>1. ls = <<>> /\ ls \in Seq(Text)
    BY LinesType DEF Lines
  <2>2. LinesText(ls) = <<>> /\ <<>> \in Text
    BY <2>1, LinesTextIs DEF Text
  <2>3. LinesOf[<<>>] = <<>>
    BY <2>2, LinesOfIs
  <2> QED BY <2>1, <2>2, <2>3
<1>2. ASSUME NEW n \in Nat, n \in P PROVE n + 1 \in P
  <2> SUFFICES ASSUME NEW ls \in Lines, Len(ls) = n + 1 PROVE LinesOf[LinesText(ls)] = ls
    OBVIOUS
  <2> DEFINE l == ls[1]
             rest == Tail(ls)
             r == LinesText(rest)
             t == Append(l, "nl") \o r
  <2>1. l \in Seq(Plain) /\ rest \in Lines /\ Len(rest) = n /\ ls = <<l>> \o rest /\ ls # <<>>
    <3>1. ls \in Seq(Seq(Plain)) /\ ls # <<>> /\ 1 \in 1..Len(ls)
      BY DEF Lines
    <3>2. Head(ls) = l
      BY <3>1
    <3> DEFINE A == Seq(Plain)
    <3> HIDE DEF A
    <3>3. ls \in Seq(A)
      BY <3>1 DEF A
    <3>4. l \in A /\ rest \in Seq(A) /\ Len(rest) = n
      BY <3>1, <3>2, <3>3, HeadTailProperties
    <3>5. ls = <<l>> \o rest
      BY <3>1, <3>3
    <3> QED BY <3>1, <3>4, <3>5 DEF A, Lines
  <2>2. ls \in Seq(Text) /\ rest \in Seq(Text)
    BY <2>1, LinesType
  <2>3. LinesText(ls) = t /\ r \in Text
    BY <2>1, <2>2, LinesTextIs
  <2> HIDE DEF rest, l, r
  <2>4. t \in Text /\ t # <<>> /\ LineOf(t) = l /\ AfterLine(t) = r
    BY <2>1, <2>3, LineRead
  <2>5. LinesOf[r] = rest
    BY <1>2, <2>1 DEF r
  <2> HIDE DEF t
  <2>6. LinesOf[t] = <<LineOf(t)>> \o LinesOf[AfterLine(t)]
    BY <2>4, LinesOfIs
  <2> QED BY <2>1, <2>3, <2>4, <2>5, <2>6
<1>3. \A n \in Nat : n \in P
  <2> HIDE DEF P
  <2> QED BY <1>1, <1>2, SetInduction
<1> QED BY <1>3, LinesType

(***************************************************************************)
(* Lines that hcc-m1 reads whatever comes after them.                      *)
(***************************************************************************)
\* The lines b, before any others, are items, and t is their text.
Reads(b, t) ==
    /\ b \in Seq(Text) /\ t \in Text
    /\ \A rest \in Seq(Text) :
          Items[b \o rest] = [text |-> t \o Items[rest].text, whole |-> Items[rest].whole]

\* The lines b, before any others, are not all items.
Refuses(b) ==
    /\ b \in Seq(Text)
    /\ \A rest \in Seq(Text) : Items[b \o rest].whole = FALSE

\* What Items gives is a text and a truth value.
LEMMA ItemsGive ==
    ASSUME NEW ls \in Seq(Text)
    PROVE  /\ Items[ls].text \in Text /\ Items[ls].whole \in BOOLEAN
           /\ Items[ls] = [text |-> Items[ls].text, whole |-> Items[ls].whole]
<1>1. Items[ls] \in Outputs
  BY ItemsIs
<1> DEFINE r == Items[ls]
<1> HIDE DEF r
<1>2. r.text \in Text /\ r.whole \in BOOLEAN /\ r = [text |-> r.text, whole |-> r.whole]
  BY <1>1 DEF Outputs, r
<1> QED BY <1>2 DEF r

\* No lines at all have no text.
LEMMA ItemsOfNone == Items[<<>>] = [text |-> <<>>, whole |-> TRUE]
<1>1. <<>> \in Seq(Text) /\ Ends(<<>>) = {}
  BY DEF Ends
<1> QED BY <1>1, ItemsIs

\* Sequences of lines and texts, joined in another order.
LEMMA LinesAssociate == \A a, b, c \in Seq(Text) : Associates(a, b, c) /\ a \o b \in Seq(Text)
<1> DEFINE T == Text
<1>1. \A a, b, c \in Seq(T) : Associates(a, b, c)
  BY Associative
<1>2. \A a, b \in Seq(T) : a \o b \in Seq(T)
  <2> HIDE DEF T
  <2> QED BY ConcatProperties
<1> QED BY <1>1, <1>2

\* Lines that are read are not refused.
LEMMA NotBoth == ASSUME NEW b, NEW t, Reads(b, t) PROVE ~Refuses(b)
<1>1. <<>> \in Seq(Text) /\ Items[<<>>].whole = TRUE
  BY ItemsOfNone
<1>2. Items[b \o <<>>] = [text |-> t \o Items[<<>>].text, whole |-> Items[<<>>].whole]
  BY <1>1 DEF Reads
<1>3. Items[b \o <<>>].whole = TRUE
  BY <1>1, <1>2
<1> QED BY <1>1, <1>3 DEF Refuses

\* No lines are read as no text.
LEMMA ReadsNothing == Reads(<<>>, <<>>)
<1>1. <<>> \in Seq(Text) /\ <<>> \in Text
  BY DEF Text
<1>2. ASSUME NEW rest \in Seq(Text)
      PROVE  Items[<<>> \o rest] = [text |-> <<>> \o Items[rest].text, whole |-> Items[rest].whole]
  <2>1. <<>> \o rest = rest
    OBVIOUS
  <2>2. Items[rest].text \in Text /\ Items[rest] = [text |-> Items[rest].text, whole |-> Items[rest].whole]
    BY ItemsGive
  <2>3. <<>> \o Items[rest].text = Items[rest].text
    BY <2>2, EmptyEnds
  <2> QED BY <2>1, <2>2, <2>3
<1> QED BY <1>1, <1>2 DEF Reads

\* Lines that are read, and more of them.
LEMMA ReadsMore ==
    ASSUME NEW a, NEW s, NEW b, NEW t, Reads(a, s), Reads(b, t)
    PROVE  Reads(a \o b, s \o t)
<1>1. a \in Seq(Text) /\ b \in Seq(Text) /\ s \in Text /\ t \in Text
  BY DEF Reads
<1>2. a \o b \in Seq(Text)
  BY <1>1, LinesAssociate, Zenon
<1>3. s \o t \in Text
  BY <1>1, JoinText
<1>4. ASSUME NEW rest \in Seq(Text)
      PROVE  Items[(a \o b) \o rest] = [text |-> (s \o t) \o Items[rest].text, whole |-> Items[rest].whole]
  <2> DEFINE x == Items[rest].text
             m == b \o rest
  <2>1. m \in Seq(Text) /\ Associates(a, b, rest)
    BY <1>1, LinesAssociate, Zenon
  <2>2. Items[m] = [text |-> t \o x, whole |-> Items[rest].whole]
    BY DEF Reads
  <2>3. Items[a \o m] = [text |-> s \o Items[m].text, whole |-> Items[m].whole]
    <3> HIDE DEF m
    <3> QED BY <2>1 DEF Reads
  <2>4. (a \o b) \o rest = a \o m
    BY <2>1 DEF Associates
  <2>5. x \in Text
    BY ItemsGive
  <2> HIDE DEF x, m
  <2>6. Associates(s, t, x)
    BY <1>1, <2>5, TextAssociates, Zenon
  <2>7. Items[m].text = t \o x /\ Items[m].whole = Items[rest].whole
    BY <2>2
  <2>8. Items[a \o m] = [text |-> s \o (t \o x), whole |-> Items[rest].whole]
    BY <2>3, <2>7
  <2>9. s \o (t \o x) = (s \o t) \o x
    BY <2>6 DEF Associates
  <2> QED BY <2>4, <2>8, <2>9 DEF x
<1> QED BY <1>2, <1>3, <1>4 DEF Reads

\* Lines that are read, and then some that are refused.
LEMMA RefusedLater ==
    ASSUME NEW a, NEW s, NEW b, Reads(a, s), Refuses(b)
    PROVE  Refuses(a \o b)
<1>1. a \in Seq(Text) /\ b \in Seq(Text)
  BY DEF Reads, Refuses
<1>2. a \o b \in Seq(Text)
  BY <1>1, LinesAssociate, Zenon
<1>3. ASSUME NEW rest \in Seq(Text) PROVE Items[(a \o b) \o rest].whole = FALSE
  <2> DEFINE m == b \o rest
  <2>1. m \in Seq(Text) /\ Associates(a, b, rest)
    BY <1>1, LinesAssociate, Zenon
  <2>2. Items[m].whole = FALSE
    BY DEF Refuses
  <2> HIDE DEF m
  <2>3. Items[a \o m] = [text |-> s \o Items[m].text, whole |-> Items[m].whole]
    BY <2>1 DEF Reads
  <2>4. (a \o b) \o rest = a \o m
    BY <2>1 DEF Associates, m
  <2> QED BY <2>2, <2>3, <2>4
<1> QED BY <1>2, <1>3 DEF Refuses

\* Lines that are refused, and then any others.
LEMMA RefusedFirst ==
    ASSUME NEW a, NEW b \in Seq(Text), Refuses(a)
    PROVE  Refuses(a \o b)
<1>1. a \in Seq(Text)
  BY DEF Refuses
<1>2. a \o b \in Seq(Text)
  BY <1>1, LinesAssociate, Zenon
<1>3. ASSUME NEW rest \in Seq(Text) PROVE Items[(a \o b) \o rest].whole = FALSE
  <2>1. b \o rest \in Seq(Text) /\ Associates(a, b, rest)
    BY <1>1, LinesAssociate, Zenon
  <2>2. Items[a \o (b \o rest)].whole = FALSE
    BY <2>1 DEF Refuses
  <2> QED BY <2>1, <2>2 DEF Associates
<1> QED BY <1>2, <1>3 DEF Refuses

\* Many groups of lines: all of them are read, or the whole is refused.
LEMMA ReadsAll ==
    ASSUME NEW g \in Seq(Seq(Text)), NEW h \in Seq(Text), Len(g) = Len(h),
           \A i \in 1..Len(g) : Reads(g[i], h[i]) \/ Refuses(g[i])
    PROVE  \/ Reads(FlattenSeq(g), FlattenSeq(h)) /\ \A i \in 1..Len(g) : Reads(g[i], h[i])
           \/ Refuses(FlattenSeq(g)) /\ \E i \in 1..Len(g) : Refuses(g[i])
<1> DEFINE n == Len(g)
           T == Text
<1>1. n \in Nat
  OBVIOUS
<1>2. PICK G : Sums(G, g, T)
  BY SumsExist
<1>3. PICK H : Sums(H, h, Chars)
  BY SumsExist DEF Text
<1>4. FlattenSeq(g) = G[n] /\ FlattenSeq(h) = H[n]
  <2>1. FlattenSeq(g) = G[Len(g)]
    BY <1>2, FlattenPartial
  <2>2. FlattenSeq(h) = H[Len(h)]
    BY <1>3, FlattenPartial DEF Text
  <2> QED BY <2>1, <2>2
<1>5. G[0] = <<>> /\ H[0] = <<>>
  BY <1>2, <1>3 DEF Sums
<1>6. ASSUME NEW i \in 1..n PROVE G[i] = G[i - 1] \o g[i] /\ H[i] = H[i - 1] \o h[i] /\ g[i] \in Seq(T)
  <2>1. G[i] = G[i - 1] \o g[i]
    BY <1>2 DEF Sums
  <2>2. H[i] = H[i - 1] \o h[i]
    BY <1>3 DEF Sums
  <2>3. g[i] \in Seq(T)
    OBVIOUS
  <2> QED BY <2>1, <2>2, <2>3
<1> DEFINE Good(k) == \/ Reads(G[k], H[k]) /\ \A i \in 1..k : Reads(g[i], h[i])
                      \/ Refuses(G[k]) /\ \E i \in 1..k : Refuses(g[i])
           P == {k \in Nat : k <= n => Good(k)}
<1>7. Good(0)
  <2>1. Reads(G[0], H[0])
    BY <1>5, ReadsNothing
  <2>2. 1..0 = {}
    OBVIOUS
  <2> QED BY <2>1, <2>2
<1>8. ASSUME NEW k \in Nat, k + 1 <= n, Good(k) PROVE Good(k + 1)
  <2>1. /\ k + 1 \in 1..n /\ (k + 1) - 1 = k /\ k + 1 \in 1..(k + 1)
        /\ \A i \in 1..(k + 1) : i \in 1..k \/ i = k + 1
    BY <1>1, <1>8
  <2>0. \A i \in 1..k : i \in 1..(k + 1)
    BY <1>8
  <2>2. /\ G[k + 1] = G[k] \o g[k + 1] /\ H[k + 1] = H[k] \o h[k + 1] /\ g[k + 1] \in Seq(T)
    <3>1. G[k + 1] = G[(k + 1) - 1] \o g[k + 1] /\ H[k + 1] = H[(k + 1) - 1] \o h[k + 1] /\ g[k + 1] \in Seq(T)
      BY <1>6, <2>1
    <3> QED BY <2>1, <3>1
  <2> HIDE DEF n
  <2>3. CASE Refuses(G[k]) /\ \E i \in 1..k : Refuses(g[i])
    <3>1. Refuses(G[k + 1])
      BY <2>2, <2>3, RefusedFirst
    <3>2. \E i \in 1..(k + 1) : Refuses(g[i])
      BY <2>0, <2>3
    <3> QED BY <3>1, <3>2
  <2>4. CASE Reads(G[k], H[k]) /\ \A i \in 1..k : Reads(g[i], h[i])
    <3>1. CASE Refuses(g[k + 1])
      <4>1. Refuses(G[k + 1])
        BY <2>2, <2>4, <3>1, RefusedLater
      <4>2. \E i \in 1..(k + 1) : Refuses(g[i])
        BY <2>1, <3>1
      <4> QED BY <4>1, <4>2
    <3>2. CASE Reads(g[k + 1], h[k + 1])
      <4>1. Reads(G[k + 1], H[k + 1])
        BY <2>2, <2>4, <3>2, ReadsMore
      <4>2. \A i \in 1..(k + 1) : Reads(g[i], h[i])
        BY <2>1, <2>4, <3>2
      <4> QED BY <4>1, <4>2
    <3>3. Reads(g[k + 1], h[k + 1]) \/ Refuses(g[k + 1])
      BY <2>1 DEF n
    <3> QED BY <3>1, <3>2, <3>3
  <2> QED BY <1>8, <2>3, <2>4
<1> HIDE DEF Good, n
<1>9. 0 \in P
  BY <1>7
<1>10. ASSUME NEW k \in Nat, k \in P PROVE k + 1 \in P
  <2>1. k + 1 <= n => k <= n
    BY <1>1
  <2>2. k + 1 <= n => Good(k + 1)
    BY <1>8, <1>10, <2>1
  <2> QED BY <2>2
<1>11. n \in P
  <2> HIDE DEF P
  <2> QED BY <1>1, <1>9, <1>10, SetInduction
<1>12. Good(n)
  BY <1>1, <1>11
<1> QED BY <1>4, <1>12 DEF Good, n

(***************************************************************************)
(* Items that are read whatever comes after them.                          *)
(***************************************************************************)
\* No lines are an item before their "E".
LEMMA NotYet ==
    ASSUME NEW ls \in Seq(Text), NEW n \in 1..Len(ls), ls[1] # <<>>, ls[n] # <<"E">>
    PROVE  ~IsItem(SubSeq(ls, 1, n))
<1> DEFINE p == SubSeq(ls, 1, n)
<1>1. n \in Nat /\ Len(p) = n /\ \A i \in 1..n : p[i] = ls[i]
  OBVIOUS
<1> HIDE DEF p
<1>2. p[1] # <<>> /\ p[n] # <<"E">>
  <2>1. 1 \in 1..n /\ n \in 1..n
    OBVIOUS
  <2>2. p[1] = ls[1] /\ p[n] = ls[n]
    BY <1>1, <2>1
  <2> QED BY <2>2
<1>3. p # <<<<>>>>
  <2>1. <<<<>>>>[1] = <<>>
    OBVIOUS
  <2> QED BY <1>2, <2>1
<1>4. ~IsData(p)
  BY <1>1, <1>2 DEF IsData, Last
<1>5. ~IsFunction(p)
  BY <1>1, <1>2 DEF IsFunction
<1>6. ~IsItem(p)
  BY <1>3, <1>4, <1>5 DEF IsItem
<1> QED BY <1>6 DEF p

\* A longer line is no "E".
LEMMA NotLast == ASSUME NEW line \in Text, Len(line) > 1 PROVE line # <<"E">>
<1> DEFINE n == Len(line)
<1>1. n \in Nat
  BY DEF Text
<1> HIDE DEF n
<1>2. n > 1
  BY DEF n
<1>3. n # 1
  BY <1>1, <1>2
<1>4. Len(line) # 1
  BY <1>3 DEF n
<1>5. Len(<<"E">>) = 1
  OBVIOUS
<1> QED BY <1>4, <1>5, Zenon

\* Its lines stand before the "E".
EndsOnce(ls) ==
    /\ ls \in Seq(Text) /\ ls # <<>> /\ ls[1] # <<>>
    /\ \A n \in 1..(Len(ls) - 1) : ls[n] # <<"E">>

\* An item with one "E" is read.
LEMMA ItemReads ==
    ASSUME NEW ls, EndsOnce(ls), IsItem(ls)
    PROVE  Reads(ls, ItemText(ls))
<1>1. ls \in Seq(Text)
  BY DEF EndsOnce
<1>2. Len(ls) \in Nat \ {0} /\ ItemText(ls) \in Text
  BY <1>1, ItemTextType
<1>3. ASSUME NEW n \in 1..(Len(ls) - 1) PROVE ~IsItem(SubSeq(ls, 1, n))
  <2>1. n \in 1..Len(ls) /\ ls[1] # <<>> /\ ls[n] # <<"E">>
    BY <1>2 DEF EndsOnce
  <2> QED BY <1>1, <2>1, NotYet
<1>4. ASSUME NEW rest \in Seq(Text)
      PROVE  Items[ls \o rest] = [text |-> ItemText(ls) \o Items[rest].text, whole |-> Items[rest].whole]
  BY <1>1, <1>3, ItemFirst
<1> QED BY <1>1, <1>2, <1>4 DEF Reads

\* Such lines are refused when one is too long.
LEMMA LongRefused ==
    ASSUME NEW ls, EndsOnce(ls), NEW j \in 1..Len(ls), ~(Len(ls[j]) < LineCap)
    PROVE  Refuses(ls)
<1>1. ls \in Seq(Text) /\ Len(ls) \in Nat
  BY DEF EndsOnce
<1> SUFFICES ASSUME NEW rest \in Seq(Text) PROVE Items[ls \o rest].whole = FALSE
  BY <1>1 DEF Refuses
<1> DEFINE t == ls \o rest
<1>2. t \in Seq(Text) /\ Len(t) = Len(ls) + Len(rest) /\ Len(rest) \in Nat /\ \A i \in 1..Len(ls) : t[i] = ls[i]
  BY <1>1
<1> HIDE DEF t
<1>3. ASSUME NEW n \in 1..Len(t) PROVE ~IsItem(SubSeq(t, 1, n))
  <2>1. CASE n < j
    <3>1. n \in 1..Len(ls) /\ n \in 1..(Len(ls) - 1) /\ 1 \in 1..Len(ls)
      BY <1>1, <2>1
    <3>2. t[n] # <<"E">> /\ t[1] # <<>>
      BY <1>2, <3>1 DEF EndsOnce
    <3> QED BY <1>2, <3>2, NotYet
  <2>2. CASE ~(n < j)
    <3>1. j \in 1..n
      BY <1>1, <1>2, <2>2
    <3>2. Len(SubSeq(t, 1, n)) = n /\ SubSeq(t, 1, n)[j] = t[j]
      BY <1>2, <3>1
    <3>3. t[j] = ls[j]
      BY <1>2
    <3> QED BY <3>1, <3>2, <3>3 DEF IsItem
  <2> QED BY <2>1, <2>2
<1>4. Ends(t) = {}
  BY <1>3 DEF Ends
<1>5. t # <<>>
  <2>1. Len(t) # 0
    BY <1>1, <1>2
  <2> QED BY <2>1
<1>6. Items[t] = [text |-> <<>>, whole |-> t = <<>>]
  BY <1>2, <1>4, ItemsIs
<1>7. (t = <<>>) = FALSE
  BY <1>5
<1>8. Items[t] = [text |-> <<>>, whole |-> FALSE]
  BY <1>6, <1>7, Zenon
<1>9. Items[t].whole = FALSE
  BY <1>8
<1> QED BY <1>9 DEF t

(***************************************************************************)
(* Data: runs of zeros are written as one line and read as many cells.     *)
(***************************************************************************)
\* zeroRun finds the end of the run.
LEMMA ZeroRun ==
    ASSUME NEW w \in Text, w # <<>>, w[1] = "0"
    PROVE  /\ zeroRun(w) \in 1..Len(w)
           /\ \A i \in 1..zeroRun(w) : w[i] = "0"
           /\ zeroRun(w) < Len(w) => w[zeroRun(w) + 1] # "0"
<1> DEFINE run == {n \in 1..Len(w) : \A i \in 1..n : w[i] = "0"}
           Longest(n) == n \in run /\ \A k \in run : k <= n
           S == {Len(w) - n : n \in run}
<1>1. Len(w) \in Nat /\ Len(w) # 0
  BY DEF Text
<1>2. 1 \in run
  BY <1>1
<1>3. S \subseteq Nat /\ S # {}
  <2>1. \A n \in run : Len(w) - n \in Nat
    BY <1>1
  <2>2. Len(w) - 1 \in S
    BY <1>2
  <2> QED BY <2>1, <2>2
<1>4. Min(S) \in S /\ \A k \in S : Min(S) <= k
  <2> HIDE DEF S
  <2> QED BY <1>3, LeastNatural
<1> DEFINE m == Min(S)
<1> HIDE DEF m
<1>5. PICK n \in run : m = Len(w) - n
  BY <1>4 DEF m
<1>6. ASSUME NEW k \in run PROVE k <= n
  <2>1. m <= Len(w) - k
    BY <1>4 DEF m
  <2>2. k \in Nat /\ n \in Nat
    OBVIOUS
  <2> QED BY <1>1, <1>5, <2>1, <2>2
<1>7. Longest(n)
  BY <1>6
<1>8. zeroRun(w) = CHOOSE r : Longest(r)
  BY Zenon DEF zeroRun
<1>9. Longest(zeroRun(w))
  <2> HIDE DEF Longest
  <2> QED BY <1>7, <1>8, Zenon
<1> DEFINE r == zeroRun(w)
<1> HIDE DEF r
<1>10. r \in 1..Len(w) /\ (\A i \in 1..r : w[i] = "0") /\ \A k \in run : k <= r
  BY <1>9 DEF r
<1>11. ASSUME r < Len(w), w[r + 1] = "0" PROVE FALSE
  <2>1. r + 1 \in 1..Len(w) /\ r \in Nat
    BY <1>1, <1>10, <1>11
  <2>2. ASSUME NEW i \in 1..(r + 1) PROVE w[i] = "0"
    <3>1. i \in 1..r \/ i = r + 1
      BY <2>1
    <3> QED BY <1>10, <1>11, <3>1
  <2>3. r + 1 \in run
    BY <2>1, <2>2
  <2>4. r + 1 <= r
    BY <1>10, <2>3
  <2> QED BY <2>1, <2>4
<1> QED BY <1>10, <1>11 DEF r

\* One character of a text.
LEMMA OneChar == ASSUME NEW t \in Text, NEW i \in 1..Len(t) PROVE SubSeq(t, i, i) = <<t[i]>>
<1> DEFINE e == SubSeq(t, i, i)
<1>1. t \in Seq(Chars) /\ Len(t) \in Nat /\ t[i] \in Chars
  BY DEF Text
<1>2. \A k \in i..i : t[k] \in Chars
  BY <1>1
<1>3. e \in Seq(Chars) /\ Len(e) = (IF i <= i THEN i - i + 1 ELSE 0) /\ \A k \in 1..(i - i + 1) : e[k] = t[i + k - 1]
  BY <1>2, SubSeqProperties
<1> HIDE DEF e
<1>4. Len(e) = 1 /\ e[1] = t[i]
  BY <1>3
<1>5. <<t[i]>> \in Seq(Chars) /\ Len(<<t[i]>>) = 1 /\ <<t[i]>>[1] = t[i]
  BY <1>1
<1>6. \A k \in 1..Len(e) : e[k] = <<t[i]>>[k]
  BY <1>4, <1>5
<1>7. e = <<t[i]>>
  BY <1>3, <1>4, <1>5, <1>6, SeqEqual
<1> QED BY <1>7 DEF e

\* A digit counts its place.
LEMMA DigitCounts ==
    ASSUME NEW r \in 1..Len(Digits)
    PROVE  SelectInSeq(Digits, LAMBDA d : d = Digits[r]) = r
<1> DEFINE I == {i \in 1..Len(Digits) : Digits[i] = Digits[r]}
<1>1. Len(Digits) = 9
  BY DEF Digits
<1>2. I = {r}
  <2>1. ASSUME NEW i \in 1..9, NEW k \in 1..9, Digits[i] = Digits[k] PROVE i = k
    <3>1. i \in {1, 2, 3, 4, 5, 6, 7, 8, 9} /\ k \in {1, 2, 3, 4, 5, 6, 7, 8, 9}
      OBVIOUS
    <3> QED BY <2>1, <3>1 DEF Digits
  <2> QED BY <1>1, <2>1
<1>3. Min({r}) \in {r}
  <2>1. {r} \subseteq Nat /\ {r} # {}
    BY <1>1
  <2> QED BY <2>1, LeastNatural
<1>4. SelectInSeq(Digits, LAMBDA d : d = Digits[r]) = IF I # {} THEN Min(I) ELSE 0
  BY DEF SelectInSeq
<1> HIDE DEF I
<1> QED BY <1>2, <1>3, <1>4

\* The values from the i-th to the e-th are one line.
OneLine(v, i, e, line) ==
    /\ e \in i..Len(v)
    /\ ValueLine(v, i) = <<line>>
    /\ line \in Text /\ Len(line) = 2 /\ DataLine(line) /\ Cells(line) = SubSeq(v, i, e)
    /\ v[i] # "0" \/ i = 1 \/ v[i - 1] # "0"
    /\ \A j \in (i + 1)..e : v[j] = "0"
    /\ e > i => v[i] = "0"
    /\ v[i] = "0" /\ e < Len(v) => v[e + 1] # "0"

\* emitDataValuesIr: a value is a line, begins a run of zeros, or belongs to one
\* that has begun.
LEMMA ValueWritten ==
    ASSUME NEW v, Counted(v), NEW i \in 1..Len(v)
    PROVE  \/ \E e, line : OneLine(v, i, e, line)
           \/ v[i] = "0" /\ i > 1 /\ v[i - 1] = "0" /\ ValueLine(v, i) = <<>>
<1>1. v \in Text /\ Len(v) \in Nat /\ i \in Nat \ {0} /\ v[i] \in Chars
  <2>1. v \in Text
    BY DEF Counted
  <2> QED BY <2>1 DEF Text
<1>2. {"z", "b", "a", "q"} \subseteq Chars /\ Digits \in Text
  BY PrintedAssumption
<1>3. CASE v[i] # "0"
  <2> DEFINE line == IF v[i] = "&" THEN <<"a", "q">> ELSE <<"b", v[i]>>
  <2>1. ValueLine(v, i) = <<line>>
    BY <1>3 DEF ValueLine
  <2>2. line \in Text /\ Len(line) = 2 /\ DataLine(line) /\ Cells(line) = <<v[i]>>
    <3>1. CASE v[i] = "&"
      <4>1. line = <<"a", "q">>
        BY <3>1
      <4> HIDE DEF line
      <4>2. Cells(line) = <<"&">>
        BY <4>1 DEF Cells, Starts
      <4>3. DataLine(line) /\ Len(line) = 2
        BY <4>1 DEF DataLine, Starts
      <4>4. line \in Text
        BY <1>2, <4>1 DEF Text
      <4> QED BY <3>1, <4>2, <4>3, <4>4
    <3>2. CASE v[i] # "&"
      <4>1. line = <<"b", v[i]>>
        BY <3>2
      <4> HIDE DEF line
      <4>2. Cells(line) = <<v[i]>>
        BY <4>1 DEF Cells, Starts
      <4>3. DataLine(line) /\ Len(line) = 2
        BY <4>1 DEF DataLine, Starts
      <4>4. line \in Text
        BY <1>1, <1>2, <4>1 DEF Text
      <4> QED BY <4>2, <4>3, <4>4
    <3> QED BY <3>1, <3>2
  <2> HIDE DEF line
  <2>3. SubSeq(v, i, i) = <<v[i]>>
    BY <1>1, OneChar
  <2>4. i \in i..Len(v) /\ ~(i > i) /\ (i + 1)..i = {}
    BY <1>1
  <2>5. OneLine(v, i, i, line)
    BY <1>3, <2>1, <2>2, <2>3, <2>4 DEF OneLine
  <2> QED BY <2>5
<1>4. CASE v[i] = "0" /\ i > 1 /\ v[i - 1] = "0"
  <2>1. ~(i = 1 \/ v[i - 1] # "0")
    BY <1>1, <1>4
  <2>2. ValueLine(v, i) = <<>>
    BY <1>4, <2>1 DEF ValueLine
  <2> QED BY <1>4, <2>2
<1>5. CASE v[i] = "0" /\ (i = 1 \/ v[i - 1] # "0")
  <2> DEFINE w == SubSeq(v, i, Len(v))
             r == zeroRun(w)
             line == <<"z", Digits[r]>>
  <2>1. w \in Text /\ Len(w) = Len(v) - i + 1 /\ w # <<>> /\ \A k \in 1..Len(w) : w[k] = v[i + k - 1]
    <3>1. /\ w \in Text
          /\ Len(w) = IF i <= Len(v) THEN Len(v) - i + 1 ELSE 0
          /\ \A k \in 1..(Len(v) - i + 1) : w[k] = v[i + k - 1]
      BY <1>1, RestOfText
    <3> HIDE DEF w
    <3>2. Len(w) = Len(v) - i + 1
      BY <1>1, <3>1
    <3>3. Len(w) # 0
      BY <1>1, <3>2
    <3> QED BY <3>1, <3>2, <3>3
  <2>2. ~(v[i] = "0" /\ i > 1 /\ v[i - 1] = "0")
    BY <1>1, <1>5
  <2>3. ValueLine(v, i) = <<line>>
    BY <1>5 DEF ValueLine
  <2>4. r <= Len(Digits)
    BY <1>5 DEF Counted
  <2> HIDE DEF w
  <2>5. w[1] = "0"
    <3>1. 1 \in 1..Len(w) /\ i + 1 - 1 = i
      BY <1>1, <2>1
    <3> QED BY <1>5, <2>1, <3>1
  <2>6. /\ r \in 1..Len(w)
        /\ \A k \in 1..r : w[k] = "0"
        /\ r < Len(w) => w[r + 1] # "0"
    BY <2>1, <2>5, ZeroRun
  <2> HIDE DEF r, line
  <2> DEFINE e == i + r - 1
  <2>7. e \in i..Len(v) /\ r \in Nat \ {0} /\ r \in 1..Len(Digits)
    <3>1. r \in Nat \ {0}
      BY <2>6
    <3>2. e \in i..Len(v)
      BY <1>1, <2>1, <2>6, <3>1
    <3>3. Len(Digits) = 9
      BY DEF Digits
    <3> QED BY <2>4, <3>1, <3>2, <3>3
  <2>8. ASSUME NEW j \in i..e PROVE v[j] = "0"
    <3>1. j - i + 1 \in 1..r /\ j - i + 1 \in 1..Len(w) /\ i + (j - i + 1) - 1 = j
      BY <1>1, <2>1, <2>6, <2>7
    <3> QED BY <2>1, <2>6, <3>1
  <2>9. e < Len(v) => v[e + 1] # "0"
    <3> SUFFICES ASSUME e < Len(v) PROVE v[e + 1] # "0"
      OBVIOUS
    <3>1. r < Len(w) /\ r + 1 \in 1..Len(w) /\ i + (r + 1) - 1 = e + 1
      BY <1>1, <2>1, <2>6, <2>7
    <3> QED BY <2>1, <2>6, <3>1
  <2>10. line \in Text /\ Len(line) = 2 /\ DataLine(line)
    <3>1. Digits[r] \in Chars
      BY <1>2, <2>7 DEF Text
    <3>2. line \in Text
      BY <1>2, <3>1 DEF Text, line
    <3>3. Len(line) = 2 /\ line[1] = "z"
      BY DEF line
    <3>4. line # <<>>
      BY <3>3
    <3> QED BY <3>2, <3>3, <3>4 DEF DataLine, Starts
  <2>11. Cells(line) = [k \in 1..r |-> "0"]
    <3>1. line # <<>> /\ line[1] = "z" /\ line[2] = Digits[r]
      BY DEF line
    <3>2. Cells(line) = [k \in 1..SelectInSeq(Digits, LAMBDA d : d = line[2]) |-> "0"]
      BY <3>1 DEF Cells, Starts
    <3>3. SelectInSeq(Digits, LAMBDA d : d = Digits[r]) = r
      BY <2>7, DigitCounts
    <3> QED BY <3>1, <3>2, <3>3
  <2>12. SubSeq(v, i, e) = [k \in 1..r |-> "0"]
    <3>1. SubSeq(v, i, e) = [k \in 1..(e - i + 1) |-> v[i + k - 1]]
      BY <1>1, <2>7
    <3>2. e - i + 1 = r
      BY <1>1, <2>7
    <3>3. \A k \in 1..r : v[i + k - 1] = "0"
      <4> SUFFICES ASSUME NEW k \in 1..r PROVE v[i + k - 1] = "0"
        OBVIOUS
      <4>1. i + k - 1 \in i..e
        BY <1>1, <2>7
      <4> QED BY <2>8, <4>1
    <3> HIDE DEF e
    <3> QED BY <3>1, <3>2, <3>3
  <2>13. \A j \in (i + 1)..e : v[j] = "0"
    <3>1. \A j \in (i + 1)..e : j \in i..e
      BY <1>1, <2>7
    <3> QED BY <2>8, <3>1
  <2> HIDE DEF e
  <2>14. OneLine(v, i, e, line)
    BY <1>5, <2>3, <2>7, <2>9, <2>10, <2>11, <2>12, <2>13 DEF OneLine
  <2> QED BY <2>14
<1>6. i = 1 \/ i > 1
  BY <1>1
<1> QED BY <1>3, <1>4, <1>5, <1>6

\* The lines of the first k values of a data item, and that they have been read
\* as the first e values: e is past k inside a run of zeros.
ValueLines(v) == [i \in 1..Len(v) |-> ValueLine(v, i)]

ReadUpto(v, k, e, ls, t) ==
    /\ e \in k..Len(v)
    /\ ls \in Seq(Text) /\ OpenItem(ls, "data", t)
    /\ \A j \in (k + 1)..e : v[j] = "0"
    /\ e > k => k >= 1 /\ v[k] = "0"
    /\ k >= 1 /\ v[k] = "0" /\ e < Len(v) => v[e + 1] # "0"

\* The lines of a data item are text.
LEMMA ValueLinesType ==
    ASSUME NEW v, Counted(v)
    PROVE  ValueLines(v) \in Seq(Seq(Text)) /\ Len(ValueLines(v)) = Len(v) /\ Len(v) \in Nat
<1>1. Len(v) \in Nat
  <2>1. v \in Text
    BY DEF Counted
  <2> QED BY <2>1 DEF Text
<1>2. ASSUME NEW i \in 1..Len(v) PROVE ValueLine(v, i) \in Seq(Text)
  <2> DEFINE T == Text
  <2>1. CASE \E e, line : OneLine(v, i, e, line)
    <3>1. PICK e, line : OneLine(v, i, e, line)
      BY <2>1
    <3>2. ValueLine(v, i) = <<line>> /\ line \in T
      BY <3>1 DEF OneLine
    <3> HIDE DEF T
    <3> QED BY <3>2 DEF T
  <2>2. CASE ValueLine(v, i) = <<>>
    <3> HIDE DEF T
    <3> QED BY <2>2 DEF T
  <2> QED BY <2>1, <2>2, ValueWritten
<1>3. ValueLines(v) \in [1..Len(v) -> Seq(Text)]
  BY <1>2 DEF ValueLines
<1> QED BY <1>1, <1>3

\* One line more.
LEMMA LineMore ==
    ASSUME NEW ls \in Seq(Text), NEW t, OpenItem(ls, "data", t), NEW line \in Text, Len(line) = 2, DataLine(line)
    PROVE  /\ OpenItem(Append(ls, line), "data", t \o Cells(line))
           /\ t \in Text /\ Cells(line) \in Text
<1>1. LineCap > 2 /\ LineCap \in Nat
  BY PrintedAssumption, LineCapAssumption
<1>2. Len(line) < LineCap
  BY <1>1
<1>3. DataItemLine(line) = [mode |-> "data", text |-> Cells(line)]
  <2>1. line # <<"E">>
    OBVIOUS
  <2> QED BY <2>1 DEF DataItemLine
<1>4. DataItemLine(line).mode = "data" /\ DataItemLine(line).text = Cells(line)
  BY <1>3
<1>5. DataItemLine(line).mode # "bad" /\ DataItemLine(line).mode # "top"
  BY <1>4
<1> QED BY <1>2, <1>4, <1>5, DataTaken

\* From the first k values to the next one.
LEMMA NextValue ==
    ASSUME NEW v, Counted(v), NEW a \in Text, NEW k \in Nat, k + 1 <= Len(v),
           NEW ls, NEW e, ReadUpto(v, k, e, ls, a \o SubSeq(v, 1, e))
    PROVE  \E f : ReadUpto(v, k + 1, f, ls \o ValueLine(v, k + 1), a \o SubSeq(v, 1, f))
<1> DEFINE i == k + 1
           n == Len(v)
<1>1. v \in Seq(Chars) /\ n \in Nat /\ i \in 1..n /\ i - 1 = k
  <2>1. v \in Text
    BY DEF Counted
  <2> QED BY <2>1 DEF Text
<1>2. e \in k..n /\ ls \in Seq(Text) /\ e \in Nat
  BY DEF ReadUpto
<1>3. CASE \E f, line : OneLine(v, i, f, line)
  <2>1. PICK f, line : OneLine(v, i, f, line)
    BY <1>3
  <2>2. v[i] # "0" \/ i = 1 \/ v[k] # "0"
    BY <1>1, <2>1 DEF OneLine
  <2>3. e = k
    <3> SUFFICES ASSUME e > k PROVE FALSE
      BY <1>2
    <3>1. k >= 1 /\ v[k] = "0" /\ i \in (k + 1)..e
      BY <1>2 DEF ReadUpto
    <3>2. v[i] = "0"
      BY <3>1 DEF ReadUpto
    <3> QED BY <2>2, <3>1, <3>2
  <2> DEFINE x == SubSeq(v, 1, k)
             y == SubSeq(v, i, f)
  <2>4. /\ f \in i..n /\ ValueLine(v, i) = <<line>> /\ line \in Text /\ Len(line) = 2
        /\ DataLine(line) /\ Cells(line) = y
    BY <2>1 DEF OneLine
  <2>5. OpenItem(ls, "data", a \o x)
    BY <2>3 DEF ReadUpto
  <2>6. x \in Text /\ y \in Text /\ SubSeq(v, 1, f) = x \o y
    <3>1. 1 <= k + 1 /\ k <= f /\ f <= n /\ f \in Nat
      BY <1>1, <2>4
    <3>2. x \in Seq(Chars) /\ y \in Seq(Chars)
      BY <1>1, <3>1
    <3>3. SubSeq(v, 1, f) = x \o y
      BY <1>1, <3>1
    <3> QED BY <3>2, <3>3 DEF Text
  <2> HIDE DEF i, x, y
  <2>7. OpenItem(Append(ls, line), "data", (a \o x) \o y)
    BY <1>2, <2>4, <2>5, LineMore
  <2>8. (a \o x) \o y = a \o SubSeq(v, 1, f)
    <3>1. Associates(a, x, y)
      BY <2>6, TextAssociates, Zenon
    <3> QED BY <2>6, <3>1 DEF Associates
  <2>9. Append(ls, line) = ls \o <<line>> /\ Append(ls, line) \in Seq(Text)
    BY <1>2, <2>4
  <2>10. OpenItem(ls \o ValueLine(v, i), "data", a \o SubSeq(v, 1, f)) /\ ls \o ValueLine(v, i) \in Seq(Text)
    BY <2>4, <2>7, <2>8, <2>9
  <2>11. /\ \A j \in (i + 1)..f : v[j] = "0"
         /\ f > i => v[i] = "0"
         /\ v[i] = "0" /\ f < n => v[f + 1] # "0"
    BY <2>1 DEF OneLine
  <2>12. i >= 1
    BY <1>1
  <2>13. ReadUpto(v, i, f, ls \o ValueLine(v, i), a \o SubSeq(v, 1, f))
    BY <2>4, <2>10, <2>11, <2>12 DEF ReadUpto
  <2> QED BY <2>13 DEF i
<1>4. CASE v[i] = "0" /\ i > 1 /\ v[i - 1] = "0" /\ ValueLine(v, i) = <<>>
  <2>1. ls \o ValueLine(v, i) = ls
    BY <1>2, <1>4
  <2>2. k >= 1 /\ v[k] = "0"
    BY <1>1, <1>4
  <2>3. e >= i
    <3> SUFFICES ASSUME ~(e >= i) PROVE FALSE
      OBVIOUS
    <3>1. e = k /\ e < n
      BY <1>1, <1>2
    <3>2. v[e + 1] # "0"
      BY <2>2, <3>1 DEF ReadUpto
    <3> QED BY <1>4, <3>1, <3>2
  <2>4. /\ e \in i..n /\ \A j \in (i + 1)..e : j \in (k + 1)..e
    BY <1>1, <1>2, <2>3
  <2>5. /\ \A j \in (i + 1)..e : v[j] = "0"
        /\ e < n => v[e + 1] # "0"
        /\ OpenItem(ls, "data", a \o SubSeq(v, 1, e))
    BY <2>2, <2>4 DEF ReadUpto
  <2>6. i >= 1 /\ v[i] = "0"
    BY <1>1, <1>4
  <2> HIDE DEF i
  <2>7. ReadUpto(v, i, e, ls, a \o SubSeq(v, 1, e))
    BY <1>2, <2>4, <2>5, <2>6 DEF ReadUpto
  <2>8. ReadUpto(v, i, e, ls \o ValueLine(v, i), a \o SubSeq(v, 1, e))
    BY <2>1, <2>7
  <2> QED BY <2>8 DEF i
<1> QED BY <1>1, <1>3, <1>4, ValueWritten

\* A data item is read as its label and its values.
LEMMA DataReads ==
    ASSUME NEW label \in Chars, NEW v, Counted(v)
    PROVE  Reads(DataLines(label, v), <<":", label>> \o v)
<1> DEFINE n == Len(v)
           vs == ValueLines(v)
           title == <<<<"D", label>>>>
           a == <<":", label>>
<1>1. n \in Nat /\ vs \in Seq(Seq(Text)) /\ Len(vs) = n /\ \A i \in 1..n : vs[i] = ValueLine(v, i)
  BY ValueLinesType DEF ValueLines
<1>2. {"D", "E"} \subseteq Chars /\ ":" \in Chars /\ LineCap > 2 /\ LineCap \in Nat
  BY PrintedAssumption, CharsAssumption, LineCapAssumption
<1>3. title \in Seq(Text) /\ a \in Text /\ v \in Text
  <2>1. <<"D", label>> \in Text
    BY <1>2 DEF Text
  <2>2. title \in Seq(Text)
    <3> DEFINE T == Text
    <3>1. <<"D", label>> \in T
      BY <2>1
    <3> HIDE DEF T
    <3>2. title \in Seq(T)
      BY <3>1
    <3> QED BY <3>2 DEF T
  <2>3. a \in Text
    BY <1>2 DEF Text
  <2> QED BY <2>2, <2>3 DEF Counted
<1>4. Len(title) = 1 /\ title[1] = <<"D", label>> /\ title # <<>>
  OBVIOUS
<1> HIDE DEF vs, n
<1>5. PICK g : Sums(g, vs, Text)
  BY <1>1, SumsExist
<1>6. g[0] = <<>> /\ FlattenSeq(vs) = g[n]
  <2>1. FlattenSeq(vs) = g[Len(vs)]
    BY <1>1, <1>5, FlattenPartial
  <2> QED BY <1>1, <1>5, <2>1 DEF Sums
<1>7. ASSUME NEW i \in 1..n PROVE g[i] = g[i - 1] \o ValueLine(v, i) /\ ValueLine(v, i) \in Seq(Text) /\ g[i - 1] \in Seq(Text)
  <2>1. i \in 1..Len(vs) /\ i - 1 \in 0..Len(vs)
    BY <1>1
  <2>2. g[i] = g[i - 1] \o vs[i] /\ g[i - 1] \in Seq(Text)
    BY <1>5, <2>1 DEF Sums
  <2>3. vs[i] \in Seq(Text)
    <3> DEFINE T == Seq(Text)
    <3>1. vs \in Seq(T)
      BY <1>1
    <3> HIDE DEF T
    <3>2. vs[i] \in T
      BY <2>1, <3>1
    <3> QED BY <3>2 DEF T
  <2> QED BY <1>1, <2>2, <2>3
<1> DEFINE Good(k) == \E e : ReadUpto(v, k, e, title \o g[k], a \o SubSeq(v, 1, e))
           P == {k \in Nat : k <= n => Good(k)}
<1>8. Good(0)
  <2>1. title \o g[0] = title
    BY <1>3, <1>6
  <2>2. SubSeq(v, 1, 0) = <<>>
    BY <1>3, SubSeqEmpty DEF Text
  <2>3. a \o <<>> = a
    BY <1>3, EmptyEnds
  <2>4. OpenItem(title, "data", a)
    <3> DEFINE line == <<"D", label>>
    <3>1. line \in Text /\ Len(line) = 2 /\ Len(line) < LineCap
      BY <1>2 DEF Text
    <3>2. line[2] = label /\ Starts(line, "D") /\ Len(line) > 1
      BY DEF Starts
    <3> HIDE DEF line
    <3>3. TopLine(line) = [mode |-> "data", text |-> a]
      BY <3>2 DEF TopLine
    <3> HIDE DEF a
    <3>4. TopLine(line).mode = "data" /\ TopLine(line).text = a
      BY <3>3
    <3>5. TopLine(line).mode # "bad" /\ TopLine(line).mode # "top"
      BY <3>4
    <3>6. OpenItem(<<line>>, "data", a)
      BY <3>1, <3>4, <3>5, TopTaken
    <3> QED BY <3>6 DEF line
  <2>5. ReadUpto(v, 0, 0, title, a)
    <3>1. 0 \in 0..Len(v) /\ ~(0 > 0) /\ (0 + 1)..0 = {} /\ ~(0 >= 1)
      BY <1>1 DEF n
    <3> QED BY <1>3, <2>4, <3>1 DEF ReadUpto
  <2>6. ReadUpto(v, 0, 0, title \o g[0], a \o SubSeq(v, 1, 0))
    <3> HIDE DEF title, a
    <3> QED BY <2>1, <2>2, <2>3, <2>5
  <2> QED BY <2>6
<1> HIDE DEF a
<1>9. ASSUME NEW k \in Nat, k + 1 <= n, Good(k) PROVE Good(k + 1)
  <2>1. k + 1 \in 1..n /\ (k + 1) - 1 = k
    BY <1>1, <1>9
  <2>2. g[k + 1] = g[k] \o ValueLine(v, k + 1) /\ ValueLine(v, k + 1) \in Seq(Text) /\ g[k] \in Seq(Text)
    <3>1. g[k + 1] = g[(k + 1) - 1] \o ValueLine(v, k + 1) /\ g[(k + 1) - 1] \in Seq(Text)
      BY <1>7, <2>1
    <3> QED BY <1>7, <2>1, <3>1
  <2> DEFINE ls == title \o g[k]
             x == ValueLine(v, k + 1)
             y == title \o g[k + 1]
  <2>3. PICK e : ReadUpto(v, k, e, ls, a \o SubSeq(v, 1, e))
    BY <1>9
  <2> HIDE DEF ls, title
  <2>4. \E f : ReadUpto(v, k + 1, f, ls \o x, a \o SubSeq(v, 1, f))
    BY <1>3, <1>9, <2>3, NextValue DEF n
  <2>5. ls \o x = y
    <3>1. Associates(title, g[k], x)
      BY <1>3, <2>2, LinesAssociate, Zenon
    <3> QED BY <2>2, <3>1 DEF Associates, ls
  <2> HIDE DEF y, x
  <2>6. \E f : ReadUpto(v, k + 1, f, y, a \o SubSeq(v, 1, f))
    BY <2>4, <2>5
  <2> QED BY <2>6 DEF y
<1> HIDE DEF Good
<1>10. 0 \in P
  BY <1>8
<1>11. ASSUME NEW k \in Nat, k \in P PROVE k + 1 \in P
  <2>1. k + 1 <= n => k <= n
    BY <1>1
  <2>2. k + 1 <= n => Good(k + 1)
    BY <1>9, <1>11, <2>1
  <2> QED BY <2>2
<1>12. n \in P
  <2> HIDE DEF P
  <2> QED BY <1>1, <1>10, <1>11, SetInduction
<1>13. Good(n)
  BY <1>1, <1>12
<1> DEFINE ls == title \o g[n]
           t == a \o v
           endLine == <<"E">>
<1>14. ls \in Seq(Text) /\ OpenItem(ls, "data", t)
  <2>1. PICK e : ReadUpto(v, n, e, ls, a \o SubSeq(v, 1, e))
    BY <1>13 DEF Good
  <2>2. e = n /\ ls \in Seq(Text) /\ OpenItem(ls, "data", a \o SubSeq(v, 1, e))
    BY <1>1, <2>1 DEF ReadUpto, n
  <2>3. SubSeq(v, 1, n) = v
    BY <1>3, SubSeqFull DEF n, Text
  <2> QED BY <2>2, <2>3
<1>15. DataLines(label, v) = ls \o <<endLine>>
  BY <1>6 DEF DataLines, vs, ValueLines
<1> HIDE DEF ls, t
<1>16. endLine \in Text /\ Len(endLine) < LineCap /\ endLine[1] = "E"
  BY <1>2 DEF Text
<1>17. DataItemLine(endLine).mode = "top"
  BY DEF DataItemLine
<1> DEFINE b == Append(ls, endLine)
<1>18. IsItem(b) /\ ItemText(b) = t
  <2>1. DataItemLine(endLine).mode # "bad"
    BY <1>17
  <2> HIDE DEF endLine
  <2> QED BY <1>14, <1>16, <1>17, <2>1, DataTaken
<1>19. EndsOnce(b)
  <2>1. /\ Titled(ls, "D") /\ \A i \in 2..Len(ls) : DataLine(ls[i])
    BY <1>14 DEF OpenItem
  <2> HIDE DEF endLine
  <2>2. b \in Seq(Text) /\ Len(b) = Len(ls) + 1 /\ Len(ls) \in Nat /\ \A i \in 1..Len(ls) : b[i] = ls[i]
    BY <1>14, <1>16, OneMore
  <2> HIDE DEF b
  <2>3. ASSUME NEW i \in 1..Len(ls) PROVE b[i] # <<"E">> /\ Len(b[i]) > 1
    <3>1. Len(ls[i]) > 1
      <4>1. CASE i = 1
        BY <2>1, <4>1 DEF Titled
      <4>2. CASE i \in 2..Len(ls)
        BY <2>1, <4>2 DEF DataLine
      <4> QED BY <2>2, <4>1, <4>2
    <3>3. b[i] = ls[i]
      BY <2>2
    <3>4. ls[i] \in Text
      BY <1>14
    <3>5. ls[i] # <<"E">>
      BY <3>1, <3>4, NotLast
    <3> QED BY <3>1, <3>3, <3>5, Zenon
  <2>4. b # <<>> /\ b[1] # <<>>
    <3>1. 1 \in 1..Len(ls) /\ Len(b) # 0
      BY <2>1, <2>2 DEF Titled
    <3>2. Len(b[1]) > 1
      BY <2>3, <3>1
    <3> QED BY <3>1, <3>2
  <2>5. \A i \in 1..(Len(b) - 1) : b[i] # <<"E">>
    <3>1. Len(b) - 1 = Len(ls)
      BY <2>2
    <3> QED BY <2>3, <3>1
  <2> QED BY <2>2, <2>4, <2>5 DEF EndsOnce
<1>20. Reads(b, t)
  <2> HIDE DEF b
  <2>1. Reads(b, ItemText(b))
    BY <1>18, <1>19, ItemReads
  <2> QED BY <1>18, <2>1
<1>21. b = ls \o <<endLine>>
  <2> HIDE DEF endLine
  <2> QED BY <1>14, <1>16
<1> QED BY <1>15, <1>20, <1>21 DEF t, a

(***************************************************************************)
(* Functions.                                                              *)
(***************************************************************************)
\* A line of a function before its "E".
Within(line) ==
    \/ Starts(line, "F") /\ Len(line) > 1
    \/ Starts(line, "L") \/ Starts(line, "k") \/ Starts(line, "R")

\* The block of lines of a function, without its literal.
Block(f) == <<<<"F", f>>>> \o Code[f] \o <<<<"E">>>>

\* Its text.
BlockText(f) ==
    <<":", f>> \o FlattenSeq([i \in 1..Len(Code[f]) |-> IF Code[f][i][1] = "L" THEN <<>> ELSE Code[f][i]])

\* Its lines, one by one.
LEMMA BlockIs ==
    ASSUME NEW f \in DOMAIN Code
    PROVE  LET t == <<<<"F", f>>>> \o Code[f] IN
           /\ Block(f) = Append(t, <<"E">>)
           /\ t \in Seq(Text) /\ t # <<>> /\ t[1] = <<"F", f>> /\ Len(t) = Len(Code[f]) + 1
           /\ <<"F", f>> \in Text /\ <<"E">> \in Text /\ Len(Code[f]) \in Nat
           /\ \A i \in 1..Len(Code[f]) : t[i + 1] = Code[f][i] /\ Code[f][i] \in Text
           /\ IsFunction(Block(f))
<1> DEFINE title == <<"F", f>>
           endLine == <<"E">>
           T == Text
           c == Code[f]
           t == <<title>> \o c
<1>1. {"F", "E"} \subseteq Chars /\ f \in Chars /\ c \in Seq(T) /\ IsFunction(Block(f))
  BY PrintedAssumption DEF Block
<1>2. title \in T /\ endLine \in T
  BY <1>1 DEF Text
<1> HIDE DEF title, endLine, T, c
<1>3. /\ t \in Seq(T) /\ Len(t) = Len(c) + 1 /\ t[1] = title /\ Len(c) \in Nat
      /\ \A i \in 1..Len(c) : t[i + 1] = c[i] /\ c[i] \in T
  BY <1>1, <1>2
<1>4. t # <<>>
  <2>1. Len(t) # 0
    BY <1>3
  <2> QED BY <2>1
<1> HIDE DEF t
<1>5. Append(t, endLine) = t \o <<endLine>>
  BY <1>2, <1>3
<1>6. Block(f) = t \o <<endLine>>
  BY DEF Block, t, title, endLine, c
<1> QED BY <1>1, <1>2, <1>3, <1>4, <1>5, <1>6 DEF title, endLine, T, c, t

\* A function is made of blocks.
LEMMA BlockOpen ==
    ASSUME NEW f \in DOMAIN Code, NEW t, t = <<<<"F", f>>>> \o Code[f]
    PROVE  /\ Titled(t, "F") /\ BlockLines(t)
           /\ Len(t) = 1 \/ Starts(t[Len(t)], "R")
           /\ \A i \in 1..Len(t) : Within(t[i])
<1> DEFINE b == Block(f)
           m == Len(Code[f])
           n == Len(b)
           Kind(i) == IF b[i] = <<>> THEN "" ELSE b[i][1]
<1>1. /\ b = Append(t, <<"E">>) /\ t \in Seq(Text) /\ t[1] = <<"F", f>> /\ Len(t) = m + 1
      /\ <<"E">> \in Text /\ m \in Nat /\ IsFunction(b)
  BY BlockIs
<1>2. n = m + 2 /\ \A i \in 1..(m + 1) : b[i] = t[i]
  <2>1. n = Len(t) + 1 /\ \A i \in 1..Len(t) : b[i] = t[i]
    <3> HIDE DEF b
    <3> DEFINE endLine == <<"E">>
    <3> HIDE DEF endLine
    <3>1. endLine \in Text /\ b = Append(t, endLine)
      BY <1>1 DEF endLine
    <3> QED BY <1>1, <3>1, OneMore
  <2> HIDE DEF n, b
  <2> QED BY <1>1, <2>1
<1> HIDE DEF b, m, n
<1>3. /\ n > 2 => Kind(2) = "L" /\ Kind(n - 1) = "R"
      /\ \A i \in 2..(n - 1) : Kind(i) \in {"L", "k", "R"} /\ (Kind(i) = "L" => Len(b[i]) > 1)
      /\ \A i \in 2..(n - 2) : Kind(i) = "R" <=> Kind(i + 1) = "L"
  BY <1>1 DEF IsFunction, n
<1>4. ASSUME NEW i \in 2..(n - 1)
      PROVE  /\ t[i] # <<>> /\ t[i][1] = Kind(i) /\ Kind(i) \in {"L", "k", "R"}
             /\ (Kind(i) = "L" => Len(t[i]) > 1)
  <2>1. i \in 1..(m + 1)
    BY <1>1, <1>2
  <2>2. b[i] = t[i]
    BY <1>2, <2>1
  <2>3. b[i] # <<>>
    BY <1>3
  <2> QED BY <1>3, <2>2, <2>3
<1> HIDE DEF Kind
<1>5. \A i \in 2..(n - 1) : \A c \in {"L", "k", "R"} : Starts(t[i], c) <=> Kind(i) = c
  BY <1>4 DEF Starts
<1>6. Titled(t, "F")
  <2>1. Len(t) >= 1 /\ Len(<<"F", f>>) > 1 /\ <<"F", f>>[1] = "F"
    BY <1>1
  <2> QED BY <1>1, <2>1 DEF Titled
<1>7. BlockLines(t)
  <2> SUFFICES ASSUME NEW i \in 2..Len(t)
               PROVE  \/ Starts(t[i], "L") /\ Len(t[i]) > 1 /\ (i = 2 \/ Starts(t[i - 1], "R"))
                      \/ (Starts(t[i], "R") \/ Starts(t[i], "k")) /\ i > 2
                           /\ (Starts(t[i - 1], "L") \/ Starts(t[i - 1], "k"))
    BY DEF BlockLines
  <2>1. i \in 2..(n - 1) /\ n > 2
    BY <1>1, <1>2
  <2>2. CASE i = 2
    <3>1. Kind(i) = "L"
      BY <1>3, <2>1, <2>2
    <3> QED BY <1>4, <1>5, <2>1, <2>2, <3>1
  <2>3. CASE i # 2
    <3>1. i - 1 \in 2..(n - 2) /\ i - 1 \in 2..(n - 1) /\ (i - 1) + 1 = i /\ i > 2
      BY <1>1, <1>2, <2>1, <2>3
    <3>2. Kind(i - 1) = "R" <=> Kind(i) = "L"
      BY <1>3, <3>1
    <3>3. Kind(i - 1) \in {"L", "k", "R"} /\ Kind(i) \in {"L", "k", "R"} /\ (Kind(i) = "L" => Len(t[i]) > 1)
      BY <1>4, <2>1, <3>1
    <3>4. \A c \in {"L", "k", "R"} : (Starts(t[i], c) <=> Kind(i) = c) /\ (Starts(t[i - 1], c) <=> Kind(i - 1) = c)
      BY <1>5, <2>1, <3>1
    <3> QED BY <3>1, <3>2, <3>3, <3>4
  <2> QED BY <2>2, <2>3
<1>8. Len(t) = 1 \/ Starts(t[Len(t)], "R")
  <2>1. CASE Len(t) # 1
    <3>1. n > 2 /\ n - 1 \in 2..(n - 1) /\ n - 1 = Len(t)
      BY <1>1, <1>2, <2>1
    <3>2. Kind(n - 1) = "R"
      BY <1>3, <3>1
    <3>3. Starts(t[n - 1], "R")
      BY <1>5, <3>1, <3>2
    <3> QED BY <3>1, <3>3
  <2> QED BY <2>1
<1>9. ASSUME NEW i \in 1..Len(t) PROVE Within(t[i])
  <2>1. CASE i = 1
    <3>1. Len(t[i]) > 1 /\ t[i][1] = "F"
      BY <1>6, <2>1 DEF Titled
    <3>2. t[i] # <<>>
      BY <3>1
    <3> QED BY <3>1, <3>2 DEF Within, Starts
  <2>2. CASE i # 1
    <3>1. i \in 2..(n - 1)
      BY <1>1, <1>2, <2>2
    <3>2. Kind(i) \in {"L", "k", "R"}
      BY <1>4, <3>1
    <3> QED BY <1>5, <3>1, <3>2 DEF Within
  <2> QED BY <2>1, <2>2
<1> QED BY <1>6, <1>7, <1>8, <1>9

\* A function block has one "E".
LEMMA BlockEnds ==
    ASSUME NEW f \in DOMAIN Code
    PROVE  EndsOnce(Block(f))
<1> DEFINE t == <<<<"F", f>>>> \o Code[f]
           endLine == <<"E">>
           b == Block(f)
<1>1. t \in Seq(Text) /\ t # <<>> /\ endLine \in Text /\ b = Append(t, endLine) /\ Len(t) \in Nat /\ Len(t) # 0
  BY BlockIs
<1>2. \A i \in 1..Len(t) : Within(t[i])
  BY BlockOpen
<1> HIDE DEF t, endLine, b
<1>3. b \in Seq(Text) /\ Len(b) = Len(t) + 1 /\ \A i \in 1..Len(t) : b[i] = t[i]
  BY <1>1, OneMore
<1>4. ASSUME NEW i \in 1..Len(t) PROVE b[i] # <<>> /\ b[i] # <<"E">>
  <2>1. Within(b[i])
    BY <1>2, <1>3
  <2>2. <<"E">>[1] = "E"
    OBVIOUS
  <2>3. b[i] # <<>> /\ b[i][1] # "E"
    BY <2>1 DEF Within, Starts
  <2> QED BY <2>2, <2>3, Zenon
<1>5. b # <<>>
  <2>1. Len(b) # 0
    BY <1>1, <1>3
  <2> QED BY <2>1
<1>6. 1 \in 1..Len(t) /\ Len(b) - 1 = Len(t)
  BY <1>1, <1>3
<1>7. EndsOnce(b)
  BY <1>3, <1>4, <1>5, <1>6 DEF EndsOnce
<1> QED BY <1>7 DEF b

\* A function whose lines fit is read as its name and its lines.
LEMMA BlockReads ==
    ASSUME NEW f \in DOMAIN Code, \A k \in 1..Len(Code[f]) : Len(Code[f][k]) < LineCap
    PROVE  Reads(Block(f), BlockText(f))
<1> DEFINE t == <<<<"F", f>>>> \o Code[f]
           endLine == <<"E">>
           b == Block(f)
           m == Len(Code[f])
<1>1. /\ b = Append(t, endLine) /\ t \in Seq(Text) /\ t[1] = <<"F", f>> /\ Len(t) = m + 1
      /\ endLine \in Text /\ m \in Nat
      /\ \A i \in 1..m : t[i + 1] = Code[f][i]
  BY BlockIs
<1>2. Titled(t, "F") /\ BlockLines(t) /\ (Len(t) = 1 \/ Starts(t[Len(t)], "R"))
  BY BlockOpen
<1>3. LineCap > 2 /\ LineCap \in Nat
  BY PrintedAssumption, LineCapAssumption
<1> HIDE DEF t
<1>4. ASSUME NEW i \in 1..Len(t) PROVE Len(t[i]) < LineCap
  <2>1. CASE i = 1
    <3>1. Len(<<"F", f>>) = 2 /\ 2 < LineCap
      BY <1>3
    <3> QED BY <1>1, <2>1, <3>1
  <2>2. CASE i # 1
    <3>1. i - 1 \in 1..m /\ (i - 1) + 1 = i
      BY <1>1, <2>2
    <3>2. t[i] = Code[f][i - 1]
      BY <1>1, <3>1
    <3> QED BY <3>1, <3>2
  <2> QED BY <2>1, <2>2
<1>5. OpenItem(t, "function", OpenText(t))
  BY <1>2, <1>4 DEF OpenItem
<1>6. FunctionLine(endLine).mode = "top" /\ Len(endLine) < LineCap
  BY <1>3 DEF FunctionLine
<1>7. IsItem(b) /\ ItemText(b) = OpenText(t)
  <2>1. FunctionLine(endLine).mode # "bad"
    BY <1>6
  <2> HIDE DEF endLine, b
  <2> QED BY <1>1, <1>5, <1>6, <2>1, FunctionTaken
<1>8. OpenText(t) = BlockText(f)
  <2>1. t[1][1] = "F" /\ t[1][2] = f /\ Len(t) - 1 = m
    BY <1>1
  <2>2. ASSUME NEW i \in 1..m
        PROVE  LineText("F", t[i + 1]) = IF Code[f][i][1] = "L" THEN <<>> ELSE Code[f][i]
    <3>1. t[i + 1] = Code[f][i]
      BY <1>1
    <3>2. LineText("F", Code[f][i]) = IF Code[f][i][1] = "L" THEN <<>> ELSE Code[f][i]
      BY DEF LineText
    <3> QED BY <3>1, <3>2
  <2>3. Bodies(t) = [i \in 1..m |-> IF Code[f][i][1] = "L" THEN <<>> ELSE Code[f][i]]
    BY <2>1, <2>2 DEF Bodies
  <2> QED BY <2>1, <2>3 DEF OpenText, BlockText
<1> HIDE DEF b
<1>9. Reads(b, ItemText(b))
  BY <1>7, BlockEnds, ItemReads DEF b
<1> QED BY <1>7, <1>8, <1>9 DEF b

\* A function that hcc-m1 has room for.
Fits(f) == \A k \in 1..Len(Code[f]) : Len(Code[f][k]) < LineCap

\* One with a line that does not fit is refused.
LEMMA BlockRefused ==
    ASSUME NEW f \in DOMAIN Code, ~Fits(f)
    PROVE  Refuses(Block(f))
<1> DEFINE t == <<<<"F", f>>>> \o Code[f]
           endLine == <<"E">>
           b == Block(f)
           m == Len(Code[f])
<1>1. /\ b = Append(t, endLine) /\ t \in Seq(Text) /\ Len(t) = m + 1
      /\ endLine \in Text /\ m \in Nat
      /\ \A i \in 1..m : t[i + 1] = Code[f][i]
  BY BlockIs
<1>2. PICK k \in 1..m : ~(Len(Code[f][k]) < LineCap)
  BY DEF Fits
<1>3. EndsOnce(b)
  BY BlockEnds
<1> HIDE DEF t, endLine, b, m
<1>4. Len(b) = Len(t) + 1 /\ \A i \in 1..Len(t) : b[i] = t[i]
  BY <1>1, OneMore
<1>5. k + 1 \in 1..Len(b) /\ k + 1 \in 1..Len(t)
  BY <1>1, <1>4
<1>6. b[k + 1] = Code[f][k]
  BY <1>1, <1>4, <1>5
<1>7. Refuses(b)
  BY <1>2, <1>3, <1>5, <1>6, LongRefused
<1> QED BY <1>7 DEF b

\* A function and its literal are read, or one of its lines does not fit.
LEMMA FunctionReads ==
    ASSUME NEW f \in DOMAIN Code
    PROVE  /\ Fits(f) => Reads(Functions[f], FunctionText(f))
           /\ ~Fits(f) => Refuses(Functions[f])
<1> DEFINE b == Block(f)
           t == BlockText(f)
<1>1. CASE f \notin DOMAIN Literal
  <2>1. Functions[f] = b \o <<>> /\ FunctionText(f) = t \o <<>>
    BY <1>1 DEF Functions, FunctionLines, FunctionText, Block, BlockText
  <2>2. Fits(f) => Reads(b, t)
    BY BlockReads DEF Fits
  <2>3. ~Fits(f) => Refuses(b)
    BY BlockRefused
  <2> HIDE DEF b, t
  <2>4. Fits(f) => Reads(b \o <<>>, t \o <<>>)
    BY <2>2, ReadsMore, ReadsNothing
  <2>5. ~Fits(f) => Refuses(b \o <<>>)
    <3>1. <<>> \in Seq(Text)
      OBVIOUS
    <3> QED BY <2>3, <3>1, RefusedFirst
  <2> QED BY <2>1, <2>4, <2>5
<1>2. CASE f \in DOMAIN Literal
  <2> DEFINE x == DataLines(Literal[f].label, Literal[f].values)
             y == <<":", Literal[f].label>> \o Literal[f].values
  <2>1. Functions[f] = b \o x /\ FunctionText(f) = t \o y
    BY <1>2 DEF Functions, FunctionLines, FunctionText, Block, BlockText
  <2>2. Literal[f].label \in Chars /\ Counted(Literal[f].values)
    BY <1>2, PrintedAssumption
  <2>3. Reads(x, y)
    BY <2>2, DataReads
  <2>4. Fits(f) => Reads(b, t)
    BY BlockReads DEF Fits
  <2>5. ~Fits(f) => Refuses(b)
    BY BlockRefused
  <2> HIDE DEF b, t, x, y
  <2>6. Fits(f) => Reads(b \o x, t \o y)
    BY <2>3, <2>4, ReadsMore
  <2>7. ~Fits(f) => Refuses(b \o x)
    <3>1. x \in Seq(Text)
      BY <2>3 DEF Reads
    <3> QED BY <2>5, <3>1, RefusedFirst
  <2> QED BY <2>1, <2>6, <2>7
<1> QED BY <1>1, <1>2

(***************************************************************************)
(* A source is written and read as its names.                              *)
(***************************************************************************)
\* Twice as many.
Twice(k) == 2 * k

\* What is twice as many, and which of them are counted first.
LEMMA TwiceFacts ==
    /\ Twice(0) = 0
    /\ \A k \in Nat : /\ Twice(k) \in Nat /\ Twice(k) = 2 * k /\ Twice(k + 1) = Twice(k) + 2
                      /\ (Twice(k) = 0 => k = 0) /\ Twice(k) \div 2 = k
                      /\ \A i \in 1..k : /\ Twice(i) - 1 \in 1..Twice(k) /\ Twice(i) \in 1..Twice(k)
BY DEF Twice

\* Two more elements.
TwoAdded(c, a, x, y) ==
    /\ Len(a) \in Nat /\ Len(c) = Len(a) + 2 /\ \A i \in 1..Len(a) : c[i] = a[i]
    /\ c[Len(a) + 1] = x /\ c[Len(a) + 2] = y

\* They are where they are put.
LEMMA AddTwo ==
    ASSUME NEW S, NEW a \in Seq(S), NEW x \in S, NEW y \in S
    PROVE  TwoAdded(a \o <<x, y>>, a, x, y)
BY DEF TwoAdded

\* What is counted before one more, and the last.
LEMMA UpToOneMore == \A k \in Nat : \A i \in 1..(k + 1) : i \in 1..k \/ i = k + 1
OBVIOUS

\* One less than two more.
LEMMA TwoLessOne == \A m \in Nat : (m + 2) - 1 = m + 1
OBVIOUS

\* A sequence of names, each with its mark.
Marked(t, s, k) ==
    /\ Len(t) = Twice(k)
    /\ \A i \in 1..k : t[Twice(i) - 1] = s[i] /\ t[Twice(i)] = ";"

\* No name is marked at first.
LEMMA MarkedFirst == ASSUME NEW s PROVE Marked(<<>>, s, 0)
<1>1. Len(<<>>) = 0 /\ 1..0 = {}
  OBVIOUS
<1> QED BY <1>1, TwiceFacts DEF Marked

\* One more name is marked.
LEMMA MarkedMore ==
    ASSUME NEW a \in Seq(Chars), NEW s, NEW k \in Nat, Marked(a, s, k), s[k + 1] \in Chars, ";" \in Chars
    PROVE  Marked(a \o <<s[k + 1], ";">>, s, k + 1)
<1> DEFINE c == a \o <<s[k + 1], ";">>
           m == Twice(k)
<1>1. /\ m \in Nat /\ Twice(k + 1) = m + 2 /\ Len(a) = m
      /\ \A i \in 1..k : Twice(i) - 1 \in 1..m /\ Twice(i) \in 1..m
  BY TwiceFacts DEF Marked
<1>2. Len(c) = m + 2 /\ (\A i \in 1..m : c[i] = a[i]) /\ c[m + 1] = s[k + 1] /\ c[m + 2] = ";"
  <2>1. TwoAdded(c, a, s[k + 1], ";")
    BY AddTwo
  <2>2. Len(a) = m
    BY <1>1
  <2> HIDE DEF c, m
  <2> QED BY <2>1, <2>2, Zenon DEF TwoAdded
<1> HIDE DEF c, m
<1>3. ASSUME NEW i \in 1..(k + 1) PROVE c[Twice(i) - 1] = s[i] /\ c[Twice(i)] = ";"
  <2>1. i \in 1..k \/ i = k + 1
    BY UpToOneMore, Zenon
  <2>2. CASE i \in 1..k
    BY <1>1, <1>2, <2>2 DEF Marked
  <2>3. CASE i = k + 1
    <3>1. Twice(i) = m + 2
      BY <1>1, <2>3, Zenon
    <3>2. (m + 2) - 1 = m + 1
      BY <1>1, TwoLessOne, Zenon
    <3>3. Twice(i) - 1 = m + 1
      BY <3>1, <3>2
    <3> QED BY <1>2, <2>3, <3>1, <3>3, Zenon
  <2> QED BY <2>1, <2>2, <2>3
<1> QED BY <1>1, <1>2, <1>3 DEF Marked, c

\* A function on 1..n is a sequence of n.
LEMMA FunctionIsSequence == ASSUME NEW S, NEW n \in Nat, NEW f \in [1..n -> S] PROVE f \in Seq(S) /\ Len(f) = n
OBVIOUS

\* Each name is written with its ";".
LEMMA WrittenIs ==
    ASSUME NEW s \in Text
    PROVE  Written(s) \in Text /\ Len(s) \in Nat /\ Marked(Written(s), s, Len(s))
<1> DEFINE n == Len(s)
           ss == [i \in 1..n |-> <<s[i], ";">>]
<1>1. n \in Nat /\ \A i \in 1..n : s[i] \in Chars
  BY DEF Text
<1>2. ";" \in Chars
  BY LinesAssumption
<1>3. ss \in Seq(Seq(Chars)) /\ Len(ss) = n /\ \A i \in 1..n : ss[i] = <<s[i], ";">>
  <2>1. \A i \in 1..n : <<s[i], ";">> \in Seq(Chars)
    BY <1>1, <1>2, PairType
  <2> HIDE DEF n
  <2>2. ss \in [1..n -> Seq(Chars)] /\ \A i \in 1..n : ss[i] = <<s[i], ";">>
    BY <2>1, Zenon
  <2> HIDE DEF ss
  <2>3. ss \in Seq(Seq(Chars)) /\ Len(ss) = n
    <3> DEFINE A == Seq(Chars)
    <3>1. ss \in [1..n -> A]
      BY <2>2
    <3> HIDE DEF A
    <3>2. ss \in Seq(A) /\ Len(ss) = n
      BY <1>1, <3>1, FunctionIsSequence
    <3> QED BY <3>2 DEF A
  <2> QED BY <2>2, <2>3, Zenon
<1> HIDE DEF ss, n
<1>4. PICK g : Sums(g, ss, Chars)
  BY <1>3, SumsExist
<1>5. FlattenSeq(ss) = g[n] /\ g[0] = <<>> /\ FlattenSeq(ss) \in Seq(Chars)
  <2>1. FlattenSeq(ss) = g[Len(ss)] /\ FlattenSeq(ss) \in Seq(Chars)
    BY <1>3, <1>4, FlattenPartial, FlattenType
  <2> QED BY <1>3, <1>4, <2>1 DEF Sums
<1>6. \A k \in 0..n : g[k] \in Seq(Chars)
  BY <1>3, <1>4 DEF Sums
<1> DEFINE P == {k \in Nat : k <= n => Marked(g[k], s, k)}
<1>7. 0 \in P
  <2>1. Marked(g[0], s, 0)
    BY <1>5, MarkedFirst
  <2> QED BY <2>1
<1>8. ASSUME NEW k \in Nat, k \in P PROVE k + 1 \in P
  <2>1. SUFFICES ASSUME k + 1 <= n PROVE Marked(g[k + 1], s, k + 1)
    OBVIOUS
  <2>2. k + 1 \in 1..n /\ k \in 0..n /\ (k + 1) - 1 = k /\ k <= n
    BY <1>1, <2>1
  <2>3. g[k + 1] = g[k] \o ss[k + 1]
    <3>1. g[k + 1] = g[(k + 1) - 1] \o ss[k + 1]
      BY <1>3, <1>4, <2>2 DEF Sums
    <3> QED BY <2>2, <3>1
  <2>4. ss[k + 1] = <<s[k + 1], ";">>
    BY <1>3, <2>2
  <2>5. g[k] \in Seq(Chars) /\ Marked(g[k], s, k) /\ s[k + 1] \in Chars
    BY <1>1, <1>6, <1>8, <2>2
  <2> HIDE DEF P
  <2>6. Marked(g[k] \o <<s[k + 1], ";">>, s, k + 1)
    BY <1>2, <2>5, MarkedMore
  <2> QED BY <2>3, <2>4, <2>6
<1>9. n \in P
  <2> HIDE DEF P
  <2> QED BY <1>1, <1>7, <1>8, SetInduction
<1>10. Marked(g[n], s, n)
  BY <1>1, <1>9
<1>11. Written(s) = g[n] /\ g[n] \in Text
  BY <1>5 DEF Written, ss, n, Text
<1> QED BY <1>1, <1>10, <1>11 DEF n

\* The names of a text without a last newline.
LEMMA NamesFound ==
    ASSUME NEW s \in Text, NEW t, Declared(t) = Written(s)
    PROVE  Names(t) = s
<1> DEFINE n == Len(s)
           w == Written(s)
<1>1. n \in Nat /\ Marked(w, s, n)
  BY WrittenIs
<1>2. s = [i \in 1..n |-> s[i]]
  BY SeqIsFunction DEF Text
<1> HIDE DEF n, w
<1>3. Len(w) \div 2 = n
  <2>1. Len(w) = Twice(n)
    BY <1>1 DEF Marked
  <2> QED BY <1>1, <2>1, TwiceFacts
<1>4. Names(t) = [i \in 1..n |-> w[2 * i - 1]]
  BY <1>3 DEF Names, w
<1>5. \A i \in 1..n : w[2 * i - 1] = s[i]
  <2>1. \A i \in 1..n : w[Twice(i) - 1] = s[i]
    BY <1>1 DEF Marked
  <2> QED BY <2>1 DEF Twice
<1> QED BY <1>2, <1>4, <1>5

\* A last element is taken away again.
LEMMA FrontOfAppend ==
    ASSUME NEW S, NEW w \in Seq(S), NEW x \in S
    PROVE  w \o <<x>> # <<>> /\ Last(w \o <<x>>) = x /\ Front(w \o <<x>>) = w
<1> DEFINE t == w \o <<x>>
           m == Len(w)
<1>1. m \in Nat /\ t \in Seq(S) /\ Len(t) = m + 1 /\ t[m + 1] = x /\ \A i \in 1..m : t[i] = w[i]
  OBVIOUS
<1>2. t # <<>>
  <2>1. Len(t) # Len(<<>>)
    BY <1>1
  <2> QED BY <2>1
<1>3. Last(t) = x
  BY <1>1 DEF Last
<1>4. Front(t) = w
  <2> HIDE DEF t
  <2>1. Front(t) = SubSeq(t, 1, m)
    <3>1. Len(t) - 1 = m
      BY <1>1
    <3> QED BY <3>1 DEF Front
  <2>2. SubSeq(t, 1, m) \in Seq(S) /\ Len(SubSeq(t, 1, m)) = m /\ \A i \in 1..m : SubSeq(t, 1, m)[i] = t[i]
    <3> HIDE DEF m
    <3> QED BY <1>1
  <2>3. SubSeq(t, 1, m) = w
    BY <1>1, <2>2, SeqEqual
  <2> QED BY <2>1, <2>3
<1> QED BY <1>2, <1>3, <1>4

\* The last ";" is no newline, and a newline behind it is taken away.
LEMMA DeclaredIs ==
    ASSUME NEW w \in Seq(Chars), NEW s, NEW n \in Nat, Marked(w, s, n), "nl" \in Chars
    PROVE  Declared(w) = w /\ Declared(w \o <<"nl">>) = w
<1> DEFINE t == w \o <<"nl">>
           m == Len(w)
<1>1. m \in Nat /\ m = Twice(n) /\ (m # 0 => w[m] = ";")
  <2>1. m = Twice(n)
    BY Zenon DEF Marked
  <2>2. ASSUME m # 0 PROVE w[m] = ";"
    <3> HIDE DEF m
    <3>1. n # 0
      BY <2>1, <2>2, TwiceFacts, Zenon
    <3>2. n \in 1..n
      BY <3>1
    <3> QED BY <2>1, <3>2, Zenon DEF Marked
  <2>3. m \in Nat
    BY <2>1, TwiceFacts, Zenon
  <2> QED BY <2>1, <2>2, <2>3, Zenon
<1>2. w = <<>> \/ m # 0
  OBVIOUS
<1>3. Declared(w) = w
  <2>1. CASE w = <<>>
    BY <2>1 DEF Declared
  <2>2. CASE m # 0
    <3>1. Last(w) = ";"
      BY <1>1, <2>2 DEF Last
    <3> QED BY <3>1 DEF Declared
  <2> QED BY <1>2, <2>1, <2>2
<1>4. t # <<>> /\ Last(t) = "nl" /\ Front(t) = w
  BY FrontOfAppend
<1>5. Declared(t) = w
  BY <1>4 DEF Declared
<1> QED BY <1>3, <1>5

\* What a source is written as is read as its names, with a last newline, too.
LEMMA NamesRead ==
    ASSUME NEW s \in Text
    PROVE  Names(Written(s)) = s /\ Names(Written(s) \o <<"nl">>) = s
<1>1. Written(s) \in Seq(Chars) /\ Len(s) \in Nat /\ Marked(Written(s), s, Len(s))
  BY WrittenIs DEF Text
<1>2. "nl" \in Chars
  BY LinesAssumption
<1>3. Declared(Written(s)) = Written(s) /\ Declared(Written(s) \o <<"nl">>) = Written(s)
  BY <1>1, <1>2, DeclaredIs
<1> QED BY <1>3, NamesFound

(***************************************************************************)
(* A program that is lowered is printed as lines that mean what it says.   *)
(***************************************************************************)
DataTable(names) ==
    [i \in 1..Len(names) |-> IF names[i] \in DOMAIN Values THEN DataItems[names[i]] ELSE <<>>]
DataTexts(names) ==
    [i \in 1..Len(names) |-> IF names[i] \in DOMAIN Values THEN <<":", names[i]>> \o Values[names[i]] ELSE <<>>]
CodeTable(names) ==
    [i \in 1..Len(names) |-> IF names[i] \in DOMAIN Code THEN Functions[names[i]] ELSE <<>>]
CodeTexts(names) ==
    [i \in 1..Len(names) |-> IF names[i] \in DOMAIN Code THEN FunctionText(names[i]) ELSE <<>>]

\* Declarations that lead to data or to a function.
Known(names) ==
    \A i \in 1..Len(names) : names[i] # "none" /\ names[i] \in DOMAIN Values \cup DOMAIN Code

\* No function is refused: all of them are printed.
LEMMA NoneRefused ==
    ASSUME NEW names \in Text, Lowered(names), Known(names)
    PROVE  BeforeRefused(names) = Len(names)
<1> DEFINE C == Chars \cup {"none"}
           n == Len(names)
           s == names \o <<"none">>
           I == {i \in 1..Len(s) : s[i] \in RefusedLate \cup {"none"}}
<1>1. names \in Seq(C) /\ "none" \in C
  BY SeqMonotonic DEF Text
<1>2. n \in Nat /\ Len(s) = n + 1 /\ s[n + 1] = "none" /\ \A i \in 1..n : s[i] = names[i]
  <2> HIDE DEF C
  <2> QED BY <1>1
<1>3. \A i \in 1..n : names[i] \notin RefusedLate \cup {"none"}
  BY DEF Lowered, Known
<1>4. \A i \in 1..(n + 1) : s[i] \in RefusedLate \cup {"none"} => i = n + 1
  <2> HIDE DEF s, n
  <2> QED BY <1>2, <1>3, UpToOneMore
<1>5. I = {n + 1}
  <2> HIDE DEF s, n
  <2> QED BY <1>2, <1>4
<1>6. BeforeRefused(names) = Min({n + 1}) - 1
  <2>1. BeforeRefused(names) = (IF I # {} THEN Min(I) ELSE 0) - 1
    BY DEF BeforeRefused, SelectInSeq
  <2> HIDE DEF I, n
  <2>2. I # {}
    BY <1>5
  <2> QED BY <1>5, <2>1, <2>2
<1>7. Min({n + 1}) = n + 1
  <2> HIDE DEF n
  <2>1. n + 1 \in {n + 1} /\ {n + 1} \subseteq Nat
    BY <1>2
  <2>2. Min({n + 1}) \in {n + 1}
    BY <2>1, LeastNatural
  <2> QED BY <2>2
<1> HIDE DEF n
<1>8. (n + 1) - 1 = n
  BY <1>2
<1> QED BY <1>6, <1>7, <1>8 DEF n

\* Groups of lines without line ends are lines.
LEMMA TablesType ==
    ASSUME NEW names \in Text
    PROVE  /\ DataTable(names) \in Seq(Lines) /\ CodeTable(names) \in Seq(Lines)
           /\ Len(DataTable(names)) = Len(names) /\ Len(CodeTable(names)) = Len(names)
           /\ FlattenSeq(DataTable(names)) \in Lines /\ FlattenSeq(CodeTable(names)) \in Lines
<1> DEFINE n == Len(names)
           A == Seq(Plain)
<1>1. n \in Nat
  BY DEF Text
<1>2. \A d \in DOMAIN Values : DataItems[d] \in Lines
  BY PrintedAssumption DEF Lines
<1>3. \A f \in DOMAIN Code : Functions[f] \in Lines
  BY PrintedAssumption DEF Lines
<1>4. <<>> \in Lines
  BY DEF Lines
<1> HIDE DEF n
<1>5. DataTable(names) \in [1..n -> Lines]
  BY <1>2, <1>4 DEF DataTable, n
<1>6. CodeTable(names) \in [1..n -> Lines]
  BY <1>3, <1>4 DEF CodeTable, n
<1>7. /\ DataTable(names) \in Seq(Lines) /\ Len(DataTable(names)) = n
      /\ CodeTable(names) \in Seq(Lines) /\ Len(CodeTable(names)) = n
  BY <1>1, <1>5, <1>6, FunctionIsSequence
<1>8. FlattenSeq(DataTable(names)) \in Seq(A) /\ FlattenSeq(CodeTable(names)) \in Seq(A)
  <2>1. DataTable(names) \in Seq(Seq(A)) /\ CodeTable(names) \in Seq(Seq(A))
    BY <1>7 DEF Lines
  <2> HIDE DEF A
  <2> QED BY <2>1, FlattenType
<1> QED BY <1>7, <1>8 DEF n, Lines

\* What is printed: the header, the data, the functions.
LEMMA PrintedIs ==
    ASSUME NEW names \in Text, Lowered(names), Known(names)
    PROVE  /\ Printed(names) = <<<<"H">>>> \o FlattenSeq(DataTable(names)) \o FlattenSeq(CodeTable(names))
           /\ Printed(names) \in Lines
<1>1. Registered(names)
  BY DEF Lowered
<1>2. BeforeRefused(names) = Len(names)
  BY NoneRefused
<1>3. Printed(names) = <<<<"H">>>> \o FlattenSeq(DataTable(names)) \o FlattenSeq(CodeTable(names))
  BY <1>1, <1>2 DEF Printed, DataTable, CodeTable
<1> DEFINE h == <<<<"H">>>>
           a == FlattenSeq(DataTable(names))
           b == FlattenSeq(CodeTable(names))
           A == Seq(Plain)
<1>4. h \in Seq(A)
  <2>1. "H" \in Plain
    BY LinesAssumption DEF Plain
  <2>2. <<"H">> \in A
    BY <2>1
  <2> HIDE DEF A
  <2> QED BY <2>2
<1>5. a \in Seq(A) /\ b \in Seq(A)
  BY TablesType DEF Lines
<1>6. h \o a \o b \in Seq(A)
  <2> HIDE DEF h, a, b, A
  <2> QED BY <1>4, <1>5
<1> QED BY <1>3, <1>6 DEF Lines

\* The text of each declaration's data.
LEMMA DataTextsType ==
    ASSUME NEW names \in Text
    PROVE  DataTexts(names) \in Seq(Text) /\ Len(DataTexts(names)) = Len(names)
<1> DEFINE n == Len(names)
<1>1. n \in Nat /\ \A i \in 1..n : names[i] \in Chars
  BY DEF Text
<1>2. ASSUME NEW d \in DOMAIN Values PROVE <<":", d>> \o Values[d] \in Text
  <2>1. Reads(DataLines(d, Values[d]), <<":", d>> \o Values[d])
    BY PrintedAssumption, DataReads
  <2> QED BY <2>1 DEF Reads
<1>3. <<>> \in Text
  BY DEF Text
<1> HIDE DEF n
<1>4. DataTexts(names) \in [1..n -> Text]
  BY <1>2, <1>3 DEF DataTexts, n
<1>5. DataTexts(names) \in Seq(Text) /\ Len(DataTexts(names)) = n
  BY <1>1, <1>4, FunctionIsSequence
<1> QED BY <1>5 DEF n

\* Groups of lines are groups of texts.
LEMMA TableLines == ASSUME NEW g \in Seq(Lines) PROVE g \in Seq(Seq(Text))
<1> DEFINE B == Seq(Text)
<1>1. Lines \subseteq B
  BY LinesType
<1> HIDE DEF B
<1>2. g \in Seq(B)
  BY <1>1, SeqMonotonic
<1> QED BY <1>2 DEF B

\* The data are read.
LEMMA DataRead ==
    ASSUME NEW names \in Text
    PROVE  Reads(FlattenSeq(DataTable(names)), FlattenSeq(DataTexts(names)))
<1> DEFINE n == Len(names)
           g == DataTable(names)
           h == DataTexts(names)
<1>1. n \in Nat /\ \A i \in 1..n : names[i] \in Chars
  BY DEF Text
<1>3. g \in Seq(Seq(Text)) /\ Len(g) = n
  BY TablesType, TableLines
<1>4. h \in Seq(Text) /\ Len(h) = n
  BY DataTextsType
<1>5. ASSUME NEW i \in 1..n PROVE Reads(g[i], h[i])
  <2>1. CASE names[i] \in DOMAIN Values
    <3>1. Reads(DataLines(names[i], Values[names[i]]), <<":", names[i]>> \o Values[names[i]])
      BY <1>1, <2>1, PrintedAssumption, DataReads
    <3>2. g[i] = DataLines(names[i], Values[names[i]]) /\ h[i] = <<":", names[i]>> \o Values[names[i]]
      BY <2>1 DEF DataTable, DataTexts, DataItems
    <3> QED BY <3>1, <3>2
  <2>2. CASE names[i] \notin DOMAIN Values
    <3>1. g[i] = <<>> /\ h[i] = <<>>
      BY <2>2 DEF DataTable, DataTexts
    <3> QED BY <3>1, ReadsNothing
  <2> QED BY <2>1, <2>2
<1> HIDE DEF g, h, n
<1>6. Len(g) = Len(h) /\ (\A i \in 1..Len(g) : Reads(g[i], h[i]) \/ Refuses(g[i]))
      /\ \A i \in 1..Len(g) : ~Refuses(g[i])
  BY <1>3, <1>4, <1>5, NotBoth
<1>7. \/ Reads(FlattenSeq(g), FlattenSeq(h))
      \/ \E i \in 1..Len(g) : Refuses(g[i])
  BY <1>3, <1>4, <1>6, ReadsAll
<1>8. Reads(FlattenSeq(g), FlattenSeq(h))
  BY <1>6, <1>7, Zenon
<1> QED BY <1>8 DEF g, h

\* The functions are read, when all of them fit; when one does not, they are refused.
LEMMA CodeRead ==
    ASSUME NEW names \in Text
    PROVE  \/ /\ \A i \in 1..Len(names) : names[i] \in DOMAIN Code => Fits(names[i])
              /\ Reads(FlattenSeq(CodeTable(names)), FlattenSeq(CodeTexts(names)))
           \/ Refuses(FlattenSeq(CodeTable(names)))
<1> DEFINE n == Len(names)
           g == CodeTable(names)
           h == [i \in 1..n |-> IF names[i] \in DOMAIN Code /\ Fits(names[i])
                                THEN FunctionText(names[i]) ELSE <<>>]
<1>1. n \in Nat
  BY DEF Text
<1>2. ASSUME NEW f \in DOMAIN Code, Fits(f) PROVE FunctionText(f) \in Text
  <2>1. Reads(Functions[f], FunctionText(f))
    BY <1>2, FunctionReads
  <2> QED BY <2>1 DEF Reads
<1>3. g \in Seq(Seq(Text)) /\ Len(g) = n
  BY TablesType, TableLines
<1>4. h \in Seq(Text) /\ Len(h) = n
  <2>1. <<>> \in Text
    BY DEF Text
  <2> HIDE DEF n
  <2>2. h \in [1..n -> Text]
    BY <1>2, <2>1
  <2> HIDE DEF h
  <2> QED BY <1>1, <2>2, FunctionIsSequence
<1>5. ASSUME NEW i \in 1..n
      PROVE  /\ Reads(g[i], h[i]) \/ Refuses(g[i])
             /\ Reads(g[i], h[i]) => (names[i] \in DOMAIN Code => Fits(names[i]))
  <2>1. CASE names[i] \in DOMAIN Code /\ Fits(names[i])
    <3>1. Reads(Functions[names[i]], FunctionText(names[i]))
      BY <2>1, FunctionReads
    <3>2. g[i] = Functions[names[i]] /\ h[i] = FunctionText(names[i])
      BY <2>1 DEF CodeTable
    <3> QED BY <2>1, <3>1, <3>2
  <2>2. CASE names[i] \in DOMAIN Code /\ ~Fits(names[i])
    <3>1. Refuses(Functions[names[i]])
      BY <2>2, FunctionReads
    <3>2. g[i] = Functions[names[i]]
      BY <2>2 DEF CodeTable
    <3> QED BY <3>1, <3>2, NotBoth
  <2>3. CASE names[i] \notin DOMAIN Code
    <3>1. g[i] = <<>> /\ h[i] = <<>>
      BY <2>3 DEF CodeTable
    <3> QED BY <2>3, <3>1, ReadsNothing
  <2> QED BY <2>1, <2>2, <2>3
<1>6. (\A i \in 1..n : names[i] \in DOMAIN Code => Fits(names[i])) => h = CodeTexts(names)
  BY DEF CodeTexts
<1> HIDE DEF g, h, n
<1>7. Len(g) = Len(h) /\ \A i \in 1..Len(g) : Reads(g[i], h[i]) \/ Refuses(g[i])
  BY <1>3, <1>4, <1>5
<1>8. \/ Reads(FlattenSeq(g), FlattenSeq(h)) /\ \A i \in 1..n : Reads(g[i], h[i])
      \/ Refuses(FlattenSeq(g))
  BY <1>3, <1>4, <1>7, ReadsAll
<1>9. CASE Reads(FlattenSeq(g), FlattenSeq(h)) /\ \A i \in 1..n : Reads(g[i], h[i])
  <2>1. \A i \in 1..n : names[i] \in DOMAIN Code => Fits(names[i])
    BY <1>5, <1>9
  <2> QED BY <1>6, <1>9, <2>1 DEF g, n
<1> QED BY <1>8, <1>9 DEF g

\* Lines that are read and lines that are read are all there is.
LEMMA ReadsBoth ==
    ASSUME NEW a, NEW b, NEW s, NEW t, Reads(a, s), Reads(b, t)
    PROVE  Items[a \o b].text = s \o t
<1> DEFINE x == s \o t
           m == a \o b
<1>1. Reads(m, x)
  BY ReadsMore
<1>2. <<>> \in Seq(Text)
  OBVIOUS
<1> HIDE DEF x, m
<1>3. Items[m \o <<>>].text = x \o Items[<<>>].text
  <2>1. Items[m \o <<>>] = [text |-> x \o Items[<<>>].text, whole |-> Items[<<>>].whole]
    BY <1>1, <1>2, Zenon DEF Reads
  <2> DEFINE y == x \o Items[<<>>].text
             w == Items[<<>>].whole
  <2>2. Items[m \o <<>>] = [text |-> y, whole |-> w]
    BY <2>1
  <2> HIDE DEF y, w
  <2>3. [text |-> y, whole |-> w].text = y
    OBVIOUS
  <2>4. Items[m \o <<>>].text = y
    BY <2>2, <2>3
  <2> QED BY <2>4 DEF y
<1>4. m \o <<>> = m
  <2> DEFINE T == Text
  <2>1. m \in Seq(T)
    BY <1>1 DEF Reads
  <2> HIDE DEF T
  <2> QED BY <2>1
<1>5. x \o <<>> = x
  BY <1>1, EmptyEnds DEF Reads
<1>6. Items[<<>>].text = <<>>
  BY ItemsOfNone
<1> QED BY <1>3, <1>4, <1>5, <1>6 DEF m, x

\* When all lines are items, the IR of a program is read as what the program says.
LEMMA Translated ==
    ASSUME NEW names \in Text, Lowered(names), Known(names), Translation(Ir(names).text).whole
    PROVE  Acceptable(names) /\ Translation(Ir(names).text).text = Expected(names)
<1> DEFINE text == Ir(names).text
           ls == LinesOf[text]
           h == <<"H">>
           a == FlattenSeq(DataTable(names))
           b == FlattenSeq(CodeTable(names))
           s == FlattenSeq(DataTexts(names))
           t == FlattenSeq(CodeTexts(names))
           r == Items[Tail(ls)]
<1>1. ls = <<h>> \o a \o b
  <2>1. text = LinesText(Printed(names))
    BY IrType
  <2>2. Printed(names) \in Lines /\ Printed(names) = <<h>> \o a \o b
    BY PrintedIs
  <2> QED BY <2>1, <2>2, LinesReadBack
<1>2. Reads(a, s)
  BY DataRead
<1>3. h \in Text /\ a \in Seq(Text) /\ b \in Seq(Text)
  <2>1. "H" \in Chars
    BY LinesAssumption
  <2>2. a \in Seq(Text) /\ b \in Seq(Text)
    BY TablesType, LinesType
  <2> QED BY <2>1, <2>2 DEF Text
<1> HIDE DEF a, b, s, t, h
<1>4. Tail(ls) = a \o b /\ a \o b \in Seq(Text) /\ ls # <<>> /\ ls[1] = h
  <2> DEFINE T == Text
  <2>1. h \in T /\ a \in Seq(T) /\ b \in Seq(T)
    BY <1>3
  <2> HIDE DEF T, ls
  <2> DEFINE q == <<h>>
  <2>0. q \in Seq(T)
    BY <2>1
  <2> HIDE DEF q
  <2>2. a \o b \in Seq(T) /\ Associates(<<h>>, a, b)
    <3>1. a \o b \in Seq(T)
      BY <2>1, ConcatProperties
    <3>2. Associates(q, a, b)
      BY <2>0, <2>1, Associative
    <3> QED BY <3>1, <3>2 DEF q
  <2> DEFINE m == a \o b
  <2>3. ls = <<h>> \o m
    BY <1>1, <2>2 DEF Associates
  <2>4. m \in Seq(T)
    BY <2>2
  <2> HIDE DEF m
  <2>5. ls # <<>> /\ ls[1] = h /\ Tail(ls) = m
    BY <2>1, <2>3, <2>4
  <2> QED BY <2>2, <2>5 DEF m, T
<1>5. Translation(text) = [r EXCEPT !.text = <<"DEFINE">> \o @]
  <2>1. ls[1] = <<"H">>
    BY <1>4 DEF h
  <2> QED BY <1>4, <2>1 DEF Translation
<1>6. Translation(text) = [text |-> <<"DEFINE">> \o r.text, whole |-> r.whole]
  <2>1. r \in Outputs
    <3>1. r.text \in Text /\ r.whole \in BOOLEAN /\ r = [text |-> r.text, whole |-> r.whole]
      BY <1>4, ItemsGive
    <3> QED BY <3>1, Zenon DEF Outputs
  <2> HIDE DEF r
  <2> QED BY <1>5, <2>1, TextBefore
<1>7. r.whole
  BY <1>6
<1>8. r = Items[a \o b]
  BY <1>4
<1> HIDE DEF r, text, ls
<1>9. ~Refuses(b)
  <2>1. ASSUME Refuses(b) PROVE FALSE
    <3>1. Refuses(a \o b)
      BY <1>2, <2>1, RefusedLater
    <3>2. Items[(a \o b) \o <<>>].whole = FALSE /\ (a \o b) \o <<>> = a \o b
      <4>1. <<>> \in Seq(Text)
        OBVIOUS
      <4>2. (a \o b) \o <<>> = a \o b
        <5> DEFINE m == a \o b
                   T == Text
        <5>1. m \in Seq(T)
          BY <1>4
        <5> HIDE DEF m, T
        <5>2. m \o <<>> = m
          BY <5>1
        <5> QED BY <5>2 DEF m
      <4> QED BY <3>1, <4>1, <4>2 DEF Refuses
    <3> QED BY <1>7, <1>8, <3>2
  <2> QED BY <2>1
<1>10. /\ \A i \in 1..Len(names) : names[i] \in DOMAIN Code => Fits(names[i])
       /\ Reads(b, t)
  BY <1>9, CodeRead DEF b, t
<1>11. r.text = s \o t
  BY <1>2, <1>8, <1>10, ReadsBoth
<1>12. Acceptable(names)
  BY <1>10 DEF Acceptable, Fits, Known
<1>13. Translation(text).text = Expected(names)
  <2>1. Translation(text).text = <<"DEFINE">> \o (s \o t)
    BY <1>6, <1>11
  <2>2. <<"DEFINE">> \in Text /\ s \in Text /\ t \in Text
    <3>1. "DEFINE" \in Chars
      BY CharsAssumption
    <3> QED BY <1>2, <1>10, <3>1 DEF Reads, Text
  <2>3. Associates(<<"DEFINE">>, s, t)
    BY <2>2, TextAssociates
  <2>4. Expected(names) = <<"DEFINE">> \o s \o t
    BY DEF Expected, s, t, DataTexts, CodeTexts
  <2> QED BY <2>1, <2>3, <2>4 DEF Associates
<1> QED BY <1>12, <1>13 DEF text

(***************************************************************************)
(* The chain of the programs.                                              *)
(***************************************************************************)
\* What is built is one of the sources.
SourceIs == \E s \in Sources : disk["s"] = Written(s)

\* The preprocessed source, which nothing is refused in.
Preprocessed == disk["s"] \o <<"nl">>
Clean == \A i \in 1..Len(disk["s"]) : disk["s"][i] \notin RefusedByCpp

\* hcpp reads the whole source, writes it, and has written it.
CppChain ==
    stage = "hcpp" =>
        /\ exited = "no" /\ pc = "preprocess" /\ ret = 1 => result.data = disk["s"]
        /\ exited = "no" /\ pc \notin {"read", "preprocess"} =>
              should = [text |-> Preprocessed, whole |-> TRUE] /\ Clean
        /\ exited = "ok" => disk["i"] = Preprocessed /\ Clean

\* hcc1 finds the whole preprocessed source, reads it, writes the IR of its
\* names, and has written that of a program it could lower.
InputThere == disk["i"] = Preprocessed /\ Clean
IrThere == disk["r"] = Ir(Names(disk["i"])).text /\ Lowered(Names(disk["i"]))

Cc1Chain ==
    stage = "hcc1" =>
        /\ InputThere
        /\ exited = "no" /\ pc = "parse" /\ ret = 1 => result.data = disk["i"]
        /\ exited = "no" /\ pc \notin {"read", "parse"} => should = Ir(Names(disk["i"]))
        /\ exited = "ok" => IrThere

\* hcc-m1 finds the whole IR, reads it, and has written its translation.
M1Chain ==
    stage = "hcc-m1" =>
        /\ InputThere /\ IrThere
        /\ exited = "no" /\ pc # "read" => should = Translation(disk["r"])
        /\ exited = "ok" => disk["m"] = Translation(disk["r"]).text /\ Translation(disk["r"]).whole

\* Unless a read was cut short, each program finds what the one before it has
\* written of the source that is there now.
ChainInv == job = "build" => SourceIs /\ (~misread => CppChain /\ Cc1Chain /\ M1Chain)

\* The job stays what it is.
LEMMA JobStays == ASSUME [Next]_vars PROVE job' = job
BY DEF Next, vars, Start, NextCommand, Launch, Killed, Running, RunningM1, Calling

\* A program that reports success has written what it was to write.
LEMMA CppDone ==
    ASSUME [CppPublish!Next]_(CppPublish!pubVars), Active("hcpp"), pc \notin {"read", "preprocess"},
           stage' = "hcpp", exited' = "ok"
    PROVE  disk'["i"] = should.text
<1>1. CppStatus = "writing" /\ CppStatus' = "done"
  BY CppSeen DEF CppStatus, Status, Outcome
<1>2. CppPublish!Succeed
  BY <1>1 DEF CppPublish!Next, CppPublish!Start, CppPublish!Open, CppPublish!Extend, CppPublish!Spoil,
     CppPublish!Fail, CppPublish!pubVars
<1> QED BY <1>1, <1>2 DEF CppPublish!Succeed, Want

\* The same of hcc1, which was not to refuse the program.
LEMMA Cc1Done ==
    ASSUME [Cc1Publish!Next]_(Cc1Publish!pubVars), Active("hcc1"), Cc1Open, stage' = "hcc1", exited' = "ok"
    PROVE  disk'["r"] = should.text /\ should.whole
<1>1. Cc1Status = "writing" /\ Cc1Status' = "done"
  BY Cc1Seen DEF Cc1Status, Status, Outcome
<1>2. Cc1Publish!Succeed
  BY <1>1 DEF Cc1Publish!Next, Cc1Publish!Start, Cc1Publish!Open, Cc1Publish!Extend, Cc1Publish!Spoil,
     Cc1Publish!Fail, Cc1Publish!pubVars
<1> QED BY <1>1, <1>2 DEF Cc1Publish!Succeed, Want

\* The same of hcc-m1.
LEMMA M1Done ==
    ASSUME [M1Publish!Next]_(M1Publish!pubVars), Active("hcc-m1"), M1Open, stage' = "hcc-m1", exited' = "ok"
    PROVE  disk'["m"] = should.text /\ should.whole
<1>1. M1Status \in {"writing", "spoiled"} /\ M1Status' = "done"
  BY M1Seen DEF M1Status, Status, Outcome
<1>2. M1Publish!Succeed
  BY <1>1 DEF M1Publish!Next, M1Publish!Start, M1Publish!Open, M1Publish!Extend, M1Publish!Spoil,
     M1Publish!Fail, M1Publish!pubVars
<1>3. M1Status = "writing"
  BY <1>2 DEF M1Publish!Succeed
<1> QED BY <1>2, <1>3 DEF M1Publish!Succeed, Want

\* A whole file has been read when no read was cut short.
LEMMA WholeRead ==
    ASSUME NEW f \in Files, NEW next, Reading(f, next), ~misread'
    PROVE  ~misread /\ (ret' = 1 => result'.data = disk[f]) /\ pc' = next /\ exited' = exited /\ disk' = disk
           /\ stage' = stage
BY DEF Reading, Io

\* What hcpp does when it runs.
LEMMA CppRuns ==
    ASSUME stage = "hcpp", Running, CppTold
    PROVE  /\ stage' = stage /\ exited = "no"
           /\ \/ Reading("s", "preprocess")
              \/ misread' = misread /\ exited' = "fail"
              \/ /\ CppRender /\ should' = [Nothing EXCEPT !.text = todo']
              \/ /\ pc \notin {"read", "preprocess"} /\ exited' \in {"no", "ok"}
                 /\ exited' = "no" => pc' \notin {"read", "preprocess"}
                 /\ misread' = misread /\ should' = should
<1>1. CASE CppRead
  BY <1>1 DEF CppRead, Reading, Ready
<1>2. CASE CppRefuse
  BY <1>2 DEF CppRefuse, die, hcc_exit_failure, Keep, Ready
<1>3. CASE CppRender
  BY <1>3 DEF CppRender, Running, Keep, Ready
<1>4. CASE hccBufferText
  BY <1>4 DEF hccBufferText, Running, Keep, Ready, Io
<1>5. CASE hccPutStr
  BY <1>5 DEF hccPutStr, Running, Keep, Ready, Goto
<1>6. CASE hccExitSuccess
  BY <1>6 DEF hccExitSuccess, Running, Keep, Ready, Goto, hcc_exit_success, output_failure, hcc_exit_failure
<1>7. CASE HsWriting
  <2>1. exited = "no" /\ out.rest # <<>> /\ UNCHANGED <<stage, pc, misread>>
    BY <1>7 DEF HsWriting, Writing, driverVars
  <2>2. pc = "exit" /\ should' = should
    BY <2>1, <1>7 DEF CppTold, Active, Running
  <2>3. exited' \in {"no", "fail"}
    BY <1>7, <2>1 DEF HsWriting, Writing, checked_write, output_failure, hcc_exit_failure
  <2> QED BY <2>1, <2>2, <2>3
<1> QED BY <1>1, <1>2, <1>3, <1>4, <1>5, <1>6, <1>7 DEF Running, Hcpp

\* What hcc1 does when it runs.
LEMMA Cc1Runs ==
    ASSUME stage = "hcc1", Running, Cc1Told
    PROVE  /\ stage' = stage /\ exited = "no"
           /\ \/ Reading("i", "parse")
              \/ misread' = misread /\ exited' = "fail"
              \/ /\ pc = "parse" /\ ret = 1 /\ pc' = "same" /\ exited' = "no" /\ misread' = misread
                 /\ should' = Ir(Names(result.data))
              \/ /\ pc \notin {"read", "parse"} /\ exited' \in {"no", "ok"}
                 /\ exited' = "no" => pc' \notin {"read", "parse"}
                 /\ exited' = "ok" => Cc1Open
                 /\ misread' = misread /\ should' = should
<1>a. ASSUME pc \notin {"read", "parse"}, exited = "no", exited' = exited, stage' = stage, misread' = misread,
             pc' \notin {"read", "parse"}, should' = should
      PROVE  /\ stage' = stage /\ exited = "no"
             /\ pc \notin {"read", "parse"} /\ exited' \in {"no", "ok"}
             /\ exited' = "no" => pc' \notin {"read", "parse"}
             /\ exited' = "ok" => Cc1Open
             /\ misread' = misread /\ should' = should
  BY <1>a
<1>b. ASSUME pc \notin {"read", "parse", "preprocess"} PROVE should' = should
  BY <1>b DEF Running
<1>1. CASE Cc1Read
  BY <1>1 DEF Cc1Read, Reading, Ready
<1>2. CASE die /\ Keep /\ Ready
  BY <1>2 DEF die, hcc_exit_failure, Keep, Ready
<1>3. Cc1Refuse \/ Cc1SamePath \/ Cc1NotOpened \/ Cc1Die => die /\ Keep /\ Ready
  BY DEF Cc1Refuse, Cc1SamePath, Cc1NotOpened, Cc1Die
<1>4. CASE Cc1Parse
  <2>1. /\ pc = "parse" /\ ret = 1 /\ pc' = "same" /\ exited = "no" /\ exited' = "no" /\ misread' = misread
        /\ stage' = stage /\ todo' = Names(result.data)
    BY <1>4 DEF Cc1Parse, Keep, Io, Ready
  <2>2. should' = Ir(todo')
    BY <1>4, <2>1 DEF Running
  <2> QED BY <2>1, <2>2
<1>5. CASE hccWithOpenWriteFile
  <2>1. pc = "same" /\ pc' = "opened" /\ exited = "no" /\ exited' = exited /\ stage' = stage /\ misread' = misread
    BY <1>5 DEF hccWithOpenWriteFile, Keep, Ready, Goto
  <2> QED BY <1>a, <1>b, <2>1
<1>6. CASE hccWithObuf
  <2>1. pc = "opened" /\ pc' = "line" /\ exited = "no" /\ exited' = exited /\ stage' = stage /\ misread' = misread
    BY <1>6 DEF hccWithObuf, Keep, Ready, Io
  <2> QED BY <1>a, <1>b, <2>1
<1>7. CASE hccWriteTransactionLine
  <2>1. pc = "line" /\ pc' = "line" /\ exited = "no" /\ exited' = exited /\ stage' = stage /\ misread' = misread
    BY <1>7 DEF hccWriteTransactionLine, Keep, Ready, Io
  <2> QED BY <1>a, <1>b, <2>1
<1>8. CASE Cc1Lowered
  <2>1. /\ pc = "line" /\ pc' \in {"write", "free"} /\ exited = "no" /\ exited' = exited /\ stage' = stage
        /\ misread' = misread
    BY <1>8 DEF Cc1Lowered, hccWithTransactionalLineWriter, Keep, Ready, Io
  <2> QED BY <1>a, <1>b, <2>1
<1>9. ASSUME Cc1Write \/ Cc1Flush \/ Cc1Free \/ Cc1Close, pc' # pc, stage' = stage, misread' = misread,
             pc \in {"write", "flush", "free", "close"}, exited = "no",
             pc' \in {"flush", "free", "close", "exit", "refused"}, exited' = "no"
      PROVE  /\ stage' = stage /\ exited = "no"
             /\ pc \notin {"read", "parse"} /\ exited' \in {"no", "ok"}
             /\ exited' = "no" => pc' \notin {"read", "parse"}
             /\ exited' = "ok" => Cc1Open
             /\ misread' = misread /\ should' = should
  BY <1>a, <1>b, <1>9
<1>10. CASE Cc1Write \/ Cc1Flush \/ Cc1Free \/ Cc1Close
  <2>1. /\ pc' # pc /\ stage' = stage /\ misread' = misread /\ pc \in {"write", "flush", "free", "close"}
        /\ exited = "no" /\ pc' \in {"flush", "free", "close", "exit", "refused"}
    BY <1>10 DEF Cc1Write, Cc1Flush, Cc1Free, Cc1Close, Keep, Goto, Ready
  <2>2. exited' \in {"no", "fail"}
    BY <1>10, <2>1 DEF Cc1Write, Cc1Flush, Cc1Free, Cc1Close, Io, hcc_obuf_write, hcc_handle_flush, hcc_close,
       output_failure, hcc_exit_failure
  <2> QED BY <1>9, <1>10, <2>1, <2>2
<1>11. CASE hccExitSuccess
  <2>1. pc = "exit" /\ exited = "no" /\ exited' \in {"ok", "fail"} /\ stage' = stage /\ misread' = misread
    BY <1>11 DEF hccExitSuccess, Keep, Ready, hcc_exit_success, output_failure, hcc_exit_failure
  <2>2. Cc1Open
    BY <2>1 DEF Cc1Open
  <2> QED BY <1>b, <2>1, <2>2
<1>12. CASE HsWriting
  <2>1. exited = "no" /\ out.rest # <<>> /\ UNCHANGED <<stage, pc, misread>>
    BY <1>12 DEF HsWriting, Writing, driverVars
  <2>2. pc \in {"flush", "free", "close", "exit", "refused"}
    BY <2>1 DEF Cc1Told, Active
  <2>3. exited' \in {"no", "fail"}
    BY <1>12, <2>1 DEF HsWriting, Writing, checked_write, output_failure, hcc_exit_failure
  <2> QED BY <1>b, <2>1, <2>2, <2>3
<1>13. \/ Cc1Read \/ Cc1Refuse \/ Cc1SamePath \/ Cc1NotOpened \/ Cc1Die \/ Cc1Parse \/ hccWithOpenWriteFile
       \/ hccWithObuf \/ hccWriteTransactionLine \/ Cc1Lowered \/ Cc1Write \/ Cc1Flush \/ Cc1Free \/ Cc1Close
       \/ hccExitSuccess \/ HsWriting
  BY DEF Running, Hcc1
<1> QED BY <1>1, <1>2, <1>3, <1>4, <1>5, <1>6, <1>7, <1>8, <1>10, <1>11, <1>12, <1>13

\* What hcc-m1 does when it runs.
LEMMA M1Runs ==
    ASSUME RunningM1, M1Told, Texts
    PROVE  /\ stage = "hcc-m1" /\ stage' = stage /\ exited = "no"
           /\ \/ ~misread' => ~misread /\ exited' = "no" /\ pc' # "read" /\ should' = Translation(disk["r"])
              \/ misread' = misread /\ exited' = "fail"
              \/ /\ pc # "read" /\ exited' \in {"no", "ok"}
                 /\ exited' = "no" => pc' # "read"
                 /\ exited' = "ok" => M1Open
                 /\ misread' = misread /\ should' = should
<1>0. stage = "hcc-m1" /\ stage' = stage /\ exited = "no"
  BY DEF RunningM1, HccM1, M1OpenInput, M1CannotOpen, M1OpenOutput, M1Header, TranslateEof,
         TranslateLine, M1Spill, m1_checked_write, M1Finish, m1_die, M1Ready, M1Keep, Ready
<1>a. pc # "read" => should' = should
  BY DEF RunningM1
<1>b. ASSUME pc # "read", pc' # "read", exited' = "no", misread' = misread
      PROVE  /\ pc # "read" /\ exited' \in {"no", "ok"}
             /\ exited' = "no" => pc' # "read"
             /\ exited' = "ok" => M1Open
             /\ misread' = misread /\ should' = should
  BY <1>a, <1>b
<1>1. CASE M1OpenInput
  <2>1. pc = "read" /\ pc' = "open" /\ exited' = "no"
    BY <1>0, <1>1 DEF M1OpenInput
  <2>2. should' = Translation(inp')
    BY <2>1 DEF RunningM1
  <2>3. PICK n \in 0..Len(disk["r"]) : inp' = SubSeq(disk["r"], 1, n) /\ misread' = (misread \/ n < Len(disk["r"]))
    BY <1>1 DEF M1OpenInput
  <2>4. disk["r"] \in Text
    BY PipelineAssumption DEF Texts
  <2>5. ~misread' => inp' = disk["r"] /\ ~misread
    <3> SUFFICES ASSUME ~misread' PROVE inp' = disk["r"] /\ ~misread
      OBVIOUS
    <3> DEFINE d == disk["r"]
               m == Len(d)
    <3>0. ~(n < m) /\ ~misread
      BY <2>3, Zenon
    <3>a. d \in Seq(Chars)
      BY <2>4 DEF Text
    <3>b. m \in Nat
      <4> HIDE DEF d
      <4> QED BY <3>a
    <3>1. m \in Nat /\ n \in 0..m /\ ~(n < m) /\ d \in Seq(Chars)
      BY <3>0, <3>a, <3>b, Zenon
    <3>2. n = m
      <4> HIDE DEF m
      <4> QED BY <3>1
    <3> HIDE DEF d
    <3>3. SubSeq(d, 1, Len(d)) = d
      BY <3>1, SubSeqFull
    <3>4. inp' = SubSeq(d, 1, m)
      BY <2>3, <3>2 DEF d
    <3> QED BY <3>0, <3>3, <3>4 DEF d, m
  <2> QED BY <1>0, <2>1, <2>2, <2>5
<1>2. CASE M1CannotOpen
  BY <1>0, <1>2 DEF M1CannotOpen
<1>3. CASE m1_die /\ M1Ready
  BY <1>0, <1>3 DEF m1_die
<1>4. CASE ~m1_die /\ (M1OpenOutput \/ M1Header \/ TranslateEof \/ TranslateLine)
  <2>1. pc # "read" /\ pc' # "read" /\ exited' = exited /\ misread' = misread
    BY <1>4 DEF M1OpenOutput, M1Header, TranslateEof, TranslateLine
  <2> QED BY <1>0, <1>b, <2>1
<1>5. CASE M1Spill
  <2>1. pc # "read" /\ pc' # "read" /\ exited' = exited /\ misread' = misread
    BY <1>5 DEF M1Spill
  <2> QED BY <1>0, <1>b, <2>1
<1>6. CASE m1_checked_write
  <2>1. pc' = pc /\ misread' = misread /\ exited' \in {"no", "fail"} /\ out.rest # <<>>
    BY <1>0, <1>6 DEF m1_checked_write
  <2>2. pc # "read"
    BY <1>0, <2>1 DEF M1Told, Active
  <2> QED BY <1>0, <1>b, <2>1, <2>2
<1>7. CASE ~m1_die /\ M1Finish
  <2>1. pc = "ferror" /\ exited' \in {"ok", "fail"} /\ misread' = misread
    BY <1>7 DEF M1Finish
  <2>2. M1Open
    BY <2>1 DEF M1Open
  <2> QED BY <1>0, <1>a, <2>1, <2>2
<1>8. HccM1
  BY DEF RunningM1
<1>9. M1Header \/ TranslateEof \/ TranslateLine \/ M1Finish \/ M1OpenOutput => M1Ready
  BY DEF M1Header, TranslateEof, TranslateLine, M1Finish, M1OpenOutput
<1>10. ASSUME ~(m1_die /\ M1Ready)
       PROVE  \/ M1OpenInput \/ M1CannotOpen \/ M1Spill \/ m1_checked_write
              \/ ~m1_die /\ (M1OpenOutput \/ M1Header \/ TranslateEof \/ TranslateLine)
              \/ ~m1_die /\ M1Finish
  <2>1. M1Header \/ TranslateEof \/ TranslateLine \/ M1Finish \/ M1OpenOutput => ~m1_die
    BY <1>9, <1>10, Zenon
  <2> QED BY <1>8, <2>1, Zenon DEF HccM1
<1> QED BY <1>1, <1>2, <1>3, <1>4, <1>5, <1>6, <1>7, <1>10

\* At first nothing has been read.
LEMMA ChainInitial == Init => ChainInv
<1> SUFFICES ASSUME Init, job = "build" PROVE SourceIs /\ CppChain /\ Cc1Chain /\ M1Chain
  BY DEF ChainInv
<1>1. stage = "none"
  BY DEF Init
<1>2. PICK n \in Sources : disk = Disk(Written(n), <<>>)
  BY DEF Init
<1>3. disk["s"] = Written(n)
  BY <1>2, PipelineAssumption DEF Disk
<1> QED BY <1>1, <1>3 DEF SourceIs, CppChain, Cc1Chain, M1Chain

\* The steps of hcpp.
LEMMA CppChainStep ==
    ASSUME stage = "hcpp", Running, CppTold, [CppPublish!Next]_(CppPublish!pubVars), disk'["s"] = disk["s"],
           ~misread => CppChain, ~misread'
    PROVE  CppChain'
<1>0. /\ stage' = stage /\ exited = "no"
      /\ \/ Reading("s", "preprocess")
         \/ misread' = misread /\ exited' = "fail"
         \/ /\ CppRender /\ should' = [Nothing EXCEPT !.text = todo']
         \/ /\ pc \notin {"read", "preprocess"} /\ exited' \in {"no", "ok"}
            /\ exited' = "no" => pc' \notin {"read", "preprocess"}
            /\ misread' = misread /\ should' = should
  BY CppRuns
<1>1. CASE Reading("s", "preprocess")
  <2>1. (ret' = 1 => result'.data = disk["s"]) /\ pc' = "preprocess" /\ exited' = exited
    BY <1>1, WholeRead, PipelineAssumption
  <2> QED BY <1>0, <2>1 DEF CppChain
<1>2. CASE misread' = misread /\ exited' = "fail"
  BY <1>2 DEF CppChain
<1>3. CASE CppRender /\ should' = [Nothing EXCEPT !.text = todo']
  <2>1. /\ pc = "preprocess" /\ ret = 1 /\ pc' = "put" /\ todo' = result.data \o <<"nl">> /\ misread' = misread
        /\ exited' = exited /\ \A i \in 1..Len(result.data) : result.data[i] \notin RefusedByCpp
    BY <1>3 DEF CppRender, Keep, Io
  <2>2. result.data = disk["s"]
    BY <1>0, <2>1 DEF CppChain
  <2>3. todo' = Preprocessed /\ Clean
    BY <2>1, <2>2 DEF Preprocessed, Clean
  <2>4. should' = [text |-> todo', whole |-> TRUE]
    BY <1>3 DEF Nothing
  <2>5. Preprocessed' = Preprocessed /\ Clean' = Clean
    BY DEF Preprocessed, Clean
  <2> QED BY <1>0, <2>1, <2>3, <2>4, <2>5 DEF CppChain
<1>4. CASE /\ pc \notin {"read", "preprocess"} /\ exited' \in {"no", "ok"}
           /\ exited' = "no" => pc' \notin {"read", "preprocess"}
           /\ misread' = misread /\ should' = should
  <2>1. should = [text |-> Preprocessed, whole |-> TRUE] /\ Clean
    BY <1>0, <1>4 DEF CppChain
  <2>2. Preprocessed' = Preprocessed /\ Clean' = Clean
    BY DEF Preprocessed, Clean
  <2>3. exited' = "ok" => disk'["i"] = should.text
    BY <1>0, <1>4, CppDone DEF Active
  <2>4. should.text = Preprocessed
    BY <2>1
  <2> QED BY <1>0, <1>4, <2>1, <2>2, <2>3, <2>4 DEF CppChain
<1> QED BY <1>0, <1>1, <1>2, <1>3, <1>4

\* The steps of hcc1.
LEMMA Cc1ChainStep ==
    ASSUME stage = "hcc1", Running, Cc1Told, [Cc1Publish!Next]_(Cc1Publish!pubVars),
           disk'["s"] = disk["s"], disk'["i"] = disk["i"], disk["i"] \in Text, Cc1Chain \/ misread, ~misread'
    PROVE  Cc1Chain'
<1>0. /\ stage' = stage /\ exited = "no"
      /\ \/ Reading("i", "parse")
         \/ misread' = misread /\ exited' = "fail"
         \/ /\ pc = "parse" /\ ret = 1 /\ pc' = "same" /\ exited' = "no" /\ misread' = misread
            /\ should' = Ir(Names(result.data))
         \/ /\ pc \notin {"read", "parse"} /\ exited' \in {"no", "ok"}
            /\ exited' = "no" => pc' \notin {"read", "parse"}
            /\ exited' = "ok" => Cc1Open
            /\ misread' = misread /\ should' = should
  BY Cc1Runs
<1>a. InputThere' = InputThere
  BY DEF InputThere, Preprocessed, Clean
<1> DEFINE x == Ir(Names(disk["i"]))
<1>b. Ir(Names(disk'["i"])) = x
  OBVIOUS
<1>1. CASE Reading("i", "parse")
  <2>1. ~misread /\ (ret' = 1 => result'.data = disk["i"]) /\ pc' = "parse" /\ exited' = exited
    BY <1>1, WholeRead, PipelineAssumption
  <2> QED BY <1>0, <1>a, <2>1 DEF Cc1Chain
<1>2. CASE misread' = misread /\ exited' = "fail"
  BY <1>0, <1>2, <1>a DEF Cc1Chain
<1>3. CASE /\ pc = "parse" /\ ret = 1 /\ pc' = "same" /\ exited' = "no" /\ misread' = misread
           /\ should' = Ir(Names(result.data))
  <2>1. result.data = disk["i"] /\ InputThere
    BY <1>0, <1>3 DEF Cc1Chain
  <2>2. should' = Ir(Names(disk'["i"]))
    BY <1>3, <2>1
  <2> QED BY <1>0, <1>3, <1>a, <2>1, <2>2 DEF Cc1Chain
<1>4. CASE /\ pc \notin {"read", "parse"} /\ exited' \in {"no", "ok"}
           /\ exited' = "no" => pc' \notin {"read", "parse"}
           /\ exited' = "ok" => Cc1Open
           /\ misread' = misread /\ should' = should
  <2>1. should = x /\ InputThere
    BY <1>0, <1>4 DEF Cc1Chain
  <2>2. ASSUME exited' = "ok" PROVE IrThere'
    <3>1. disk'["r"] = should.text /\ should.whole
      BY <1>0, <1>4, <2>2, Cc1Done DEF Active
    <3>2. Names(disk["i"]) \in Text
      BY NamesType
    <3>3. x.whole = Lowered(Names(disk["i"]))
      BY <3>2, IrType
    <3>4. disk'["r"] = x.text /\ Lowered(Names(disk["i"]))
      BY <2>1, <3>1, <3>3
    <3> QED BY <3>4 DEF IrThere
  <2>3. should' = Ir(Names(disk'["i"]))
    BY <1>4, <2>1
  <2> QED BY <1>0, <1>4, <1>a, <2>1, <2>2, <2>3 DEF Cc1Chain
<1> QED BY <1>0, <1>1, <1>2, <1>3, <1>4

\* The steps of hcc-m1.
LEMMA M1ChainStep ==
    ASSUME RunningM1, M1Told, Texts, [M1Publish!Next]_(M1Publish!pubVars),
           disk'["s"] = disk["s"], disk'["i"] = disk["i"], disk'["r"] = disk["r"],
           M1Chain \/ misread, ~misread'
    PROVE  M1Chain'
<1>0. /\ stage = "hcc-m1" /\ stage' = stage /\ exited = "no"
      /\ \/ ~misread' => ~misread /\ exited' = "no" /\ pc' # "read" /\ should' = Translation(disk["r"])
         \/ misread' = misread /\ exited' = "fail"
         \/ /\ pc # "read" /\ exited' \in {"no", "ok"}
            /\ exited' = "no" => pc' # "read"
            /\ exited' = "ok" => M1Open
            /\ misread' = misread /\ should' = should
  BY M1Runs
<1>a. InputThere' = InputThere /\ IrThere' = IrThere
  BY DEF InputThere, Preprocessed, Clean, IrThere
<1> DEFINE x == Translation(disk["r"])
<1>1. CASE ~misread /\ exited' = "no" /\ pc' # "read" /\ should' = x
  <2>1. InputThere /\ IrThere /\ should' = Translation(disk'["r"])
    BY <1>0, <1>1 DEF M1Chain
  <2> QED BY <1>0, <1>1, <1>a, <2>1 DEF M1Chain
<1>2. CASE misread' = misread /\ exited' = "fail"
  BY <1>0, <1>2, <1>a DEF M1Chain
<1>3. CASE /\ pc # "read" /\ exited' \in {"no", "ok"}
           /\ exited' = "no" => pc' # "read"
           /\ exited' = "ok" => M1Open
           /\ misread' = misread /\ should' = should
  <2>1. should = x /\ InputThere /\ IrThere
    BY <1>0, <1>3 DEF M1Chain
  <2>2. should' = Translation(disk'["r"])
    BY <1>3, <2>1
  <2>3. ASSUME exited' = "ok"
        PROVE  disk'["m"] = Translation(disk'["r"]).text /\ Translation(disk'["r"]).whole
    <3>1. disk'["m"] = should.text /\ should.whole
      BY <1>0, <1>3, <2>3, M1Done DEF Active
    <3> QED BY <2>1, <3>1
  <2> QED BY <1>0, <1>3, <1>a, <2>1, <2>2, <2>3 DEF M1Chain
<1> QED BY <1>0, <1>1, <1>2, <1>3

\* What a program has left when it reported success the next one finds.
LEMMA NextChain ==
    ASSUME NextCommand, CppChain, Cc1Chain
    PROVE  CppChain' /\ Cc1Chain' /\ M1Chain'
<1>1. exited = "ok" /\ stage \in {"hcpp", "hcc1"} /\ pc' = "read" /\ exited' = "no"
  BY DEF NextCommand, Launch, Fresh
<1>2. disk' = disk /\ stage' = IF stage = "hcpp" THEN "hcc1" ELSE "hcc-m1"
  BY <1>1 DEF NextCommand, Launch
<1>3. InputThere' = InputThere /\ IrThere' = IrThere
  BY <1>2 DEF InputThere, Preprocessed, Clean, IrThere
<1>4. InputThere
  BY <1>1 DEF CppChain, Cc1Chain, InputThere
<1>5. stage = "hcc1" => IrThere
  BY <1>1 DEF Cc1Chain
<1> QED BY <1>1, <1>2, <1>3, <1>4, <1>5 DEF CppChain, Cc1Chain, M1Chain

\* A program that is stopped, or nothing at all, changes no file.
LEMMA ChainStays ==
    ASSUME CppChain, Cc1Chain, M1Chain, UNCHANGED <<disk, stage>>,
           exited' = "killed" \/ UNCHANGED <<exited, pc, ret, result, should>>
    PROVE  CppChain' /\ Cc1Chain' /\ M1Chain'
<1>1. InputThere' = InputThere /\ IrThere' = IrThere /\ Preprocessed' = Preprocessed /\ Clean' = Clean
  BY DEF InputThere, Preprocessed, Clean, IrThere
<1> QED BY <1>1 DEF CppChain, Cc1Chain, M1Chain

\* Every step keeps the chain.
LEMMA ChainStep ==
    ASSUME PipeInv, PipeInv', Texts, Texts', CppTold, Cc1Told, M1Told, ChainInv, [Next]_vars
    PROVE  ChainInv'
<1> SUFFICES ASSUME job' = "build" PROVE SourceIs' /\ (~misread' => CppChain' /\ Cc1Chain' /\ M1Chain')
  BY DEF ChainInv
<1>1. job = "build"
  BY JobStays
<1>2. disk'["s"] = disk["s"] /\ (disk'["i"] # disk["i"] => stage' = "hcpp")
  <2>1. [Intact]_vars
    BY PipeStep
  <2> QED BY <2>1 DEF Intact, vars, runtimeVars
<1>3. SourceIs /\ (~misread => CppChain /\ Cc1Chain /\ M1Chain)
  BY <1>1 DEF ChainInv
<1>4. SourceIs'
  BY <1>2, <1>3 DEF SourceIs
<1> SUFFICES ASSUME ~misread' PROVE CppChain' /\ Cc1Chain' /\ M1Chain'
  BY <1>4
<1>5. CASE Start
  <2>1. stage' = "hcpp" /\ pc' = "read" /\ exited' = "no"
    BY <1>1, <1>5 DEF Start, Launch, Fresh
  <2> QED BY <2>1 DEF CppChain, Cc1Chain, M1Chain
<1>6. CASE NextCommand
  <2>1. misread' = misread
    BY <1>6 DEF NextCommand
  <2> QED BY <1>3, <1>6, <2>1, NextChain
<1>7. CASE Killed
  <2>1. misread' = misread /\ exited' = "killed" /\ UNCHANGED <<disk, stage>>
    BY <1>7 DEF Killed, driverVars
  <2> QED BY <1>3, <2>1, ChainStays
<1>8. CASE Running /\ stage = "hcpp"
  <2>1. stage' = "hcpp"
    BY <1>8, CppRuns
  <2>2. CppChain'
    BY <1>2, <1>3, <1>8, CppStep, CppChainStep
  <2> QED BY <2>1, <2>2 DEF Cc1Chain, M1Chain
<1>9. CASE Running /\ stage = "hcc1"
  <2>1. stage' = "hcc1"
    BY <1>9, Cc1Runs
  <2>2. disk'["i"] = disk["i"] /\ disk["i"] \in Text
    BY <1>2, <2>1, PipelineAssumption DEF Texts
  <2>3. [Cc1Publish!Next]_(Cc1Publish!pubVars)
    BY Cc1Step
  <2>4. Cc1Chain \/ misread
    BY <1>3
  <2>5. Cc1Chain'
    BY <1>2, <1>9, <2>2, <2>3, <2>4, Cc1ChainStep
  <2> QED BY <2>1, <2>5 DEF CppChain, M1Chain
<1>10. CASE RunningM1
  <2>1. stage = "hcc-m1" /\ stage' = "hcc-m1"
    BY <1>10, M1Runs
  <2>2. disk'["i"] = disk["i"] /\ disk'["r"] = disk["r"]
    <3>1. OnlyM
      BY <1>10, HccM1Texts DEF RunningM1
    <3> QED BY <3>1, PipelineAssumption DEF OnlyM
  <2>3. [M1Publish!Next]_(M1Publish!pubVars)
    BY M1Step
  <2>4. M1Chain \/ misread
    BY <1>3
  <2>5. M1Chain'
    BY <1>2, <1>10, <2>2, <2>3, <2>4, M1ChainStep
  <2> QED BY <2>1, <2>5 DEF CppChain, Cc1Chain
<1>11. CASE UNCHANGED vars
  <2>1. UNCHANGED <<misread, disk, stage, exited, pc, ret, result, should>>
    BY <1>11 DEF vars, runtimeVars, driverVars
  <2> QED BY <1>3, <2>1, ChainStays
<1>12. ~Calling
  BY <1>1 DEF Calling, PipeInv, Order
<1>13. Running => stage \in {"hcpp", "hcc1"}
  BY DEF Running, HsWriting
<1> QED BY <1>5, <1>6, <1>7, <1>8, <1>9, <1>10, <1>11, <1>12, <1>13 DEF Next

\* Unless a read was cut short, every program of a build works on what the one
\* before it has written of the source that is there now, at every point of
\* every attempt, whatever has failed before it and whatever files were left.
THEOREM ChainInvariant == Spec => []ChainInv
<1> DEFINE Inv == PipeInv /\ Texts /\ CppTold /\ Cc1Told /\ M1Told /\ ChainInv
<1>1. Init => Inv
  BY PipeInitial, TextsInitial, ChainInitial DEF Init, CppTold, Cc1Told, M1Told, Active
<1>2. Inv /\ [Next]_vars => Inv'
  BY PipeStep, TextsStep, CppStep, Cc1Step, M1Step, ChainStep
<1> QED BY <1>1, <1>2, PTL DEF Spec

\* The names of a source that no program refuses lead to data or functions.
LEMMA NamesKnown ==
    ASSUME SourceIs, Clean, Lowered(SourceNames)
    PROVE  SourceNames \in Text /\ Known(SourceNames) /\ Names(Preprocessed) = SourceNames
<1>1. PICK s \in Sources : disk["s"] = Written(s)
  BY DEF SourceIs
<1>2. s \in Text
  BY PipelineAssumption
<1>3. SourceNames = s /\ Names(Preprocessed) = s
  BY <1>1, <1>2, NamesRead DEF SourceNames, Preprocessed
<1>4. Written(s) \in Text /\ Len(s) \in Nat /\ Marked(Written(s), s, Len(s))
  BY <1>2, WrittenIs
<1>5. ASSUME NEW i \in 1..Len(s) PROVE s[i] \notin RefusedByCpp
  <2> DEFINE n == Len(s)
             w == Written(s)
  <2>1. Len(w) = Twice(n) /\ w[Twice(i) - 1] = s[i]
    BY <1>4 DEF Marked
  <2>2. Twice(i) - 1 \in 1..Twice(n)
    BY <1>4, TwiceFacts, Zenon
  <2>3. \A k \in 1..Len(w) : w[k] \notin RefusedByCpp
    BY <1>1 DEF Clean
  <2> HIDE DEF n, w
  <2> QED BY <2>1, <2>2, <2>3, Zenon
<1>6. \A i \in 1..Len(s) : s[i] \notin RefusedEarly /\ s[i] \notin RefusedLate
  BY <1>3 DEF Lowered, Registered
<1>7. Known(s)
  BY <1>5, <1>6, NamesAssumption DEF Known
<1> QED BY <1>2, <1>3, <1>7

\* A build whose three programs report success, no read having been cut short,
\* leaves the translation of its source, for every source and every table of
\* values and functions.
THEOREM BuildIsRight == Spec => []EndToEnd
<1>1. ChainInv => EndToEnd
  <2> SUFFICES ASSUME ChainInv, job = "build", stage = "hcc-m1", exited = "ok", ~misread
               PROVE  Acceptable(SourceNames) /\ disk["m"] = Expected(SourceNames)
    BY DEF EndToEnd
  <2>1. SourceIs /\ InputThere /\ IrThere
        /\ disk["m"] = Translation(disk["r"]).text /\ Translation(disk["r"]).whole
    BY DEF ChainInv, M1Chain
  <2>2. Clean /\ disk["i"] = Preprocessed
    BY <2>1 DEF InputThere
  <2>3. PICK s \in Sources : disk["s"] = Written(s)
    BY <2>1 DEF SourceIs
  <2>4. Names(Preprocessed) = SourceNames
    BY <2>3, NamesRead, PipelineAssumption DEF SourceNames, Preprocessed
  <2>5. disk["r"] = Ir(SourceNames).text /\ Lowered(SourceNames)
    BY <2>1, <2>2, <2>4 DEF IrThere
  <2>6. SourceNames \in Text /\ Known(SourceNames)
    BY <2>1, <2>2, <2>5, NamesKnown
  <2> DEFINE n == SourceNames
  <2>7. n \in Text /\ Known(n) /\ Lowered(n) /\ Translation(Ir(n).text).whole
    BY <2>1, <2>5, <2>6
  <2> HIDE DEF n
  <2>8. Acceptable(n) /\ Translation(Ir(n).text).text = Expected(n)
    BY <2>7, Translated
  <2> QED BY <2>1, <2>5, <2>8 DEF n
<1> QED BY <1>1, ChainInvariant, PTL
=============================================================================
