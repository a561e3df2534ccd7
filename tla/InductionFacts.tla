----------------------------- MODULE InductionFacts -----------------------------
(***************************************************************************)
(* Induction stated with sets, which first-order provers can use: a        *)
(* property of natural numbers is the set of the numbers that have it.     *)
(* Proved in this way: what FlattenSeq of the community modules gives, and *)
(* that a recursive function on sequences is what its definition says.     *)
(***************************************************************************)
EXTENDS Integers, Sequences, SequencesExt, WellFoundedInduction, SequenceTheorems, TLAPS

NatOrder == {p \in Nat \X Nat : p[1] < p[2]}

\* The order of the natural numbers is well-founded.
LEMMA NatOrderWellFounded == IsWellFoundedOn(NatOrder, Nat)
BY NatLessThanWellFounded DEF NatOrder, OpToRel

\* Every set of natural numbers that is not empty has a least element, and Min
\* is that element.
LEMMA LeastNatural ==
    ASSUME NEW S, S \subseteq Nat, S # {}
    PROVE  Min(S) \in S /\ \A n \in S : Min(S) <= n
<1>1. PICK x \in S : \A y \in S : <<y, x>> \notin NatOrder
  BY NatOrderWellFounded, WFMin
<1>2. \A y \in S : y < x => <<y, x>> \in NatOrder
  BY DEF NatOrder
<1>3. ASSUME NEW y \in S PROVE x <= y
  <2>1. x \in Nat /\ y \in Nat
    OBVIOUS
  <2>2. ~(y < x)
    BY <1>1, <1>2
  <2> QED BY <2>1, <2>2
<1>4. \E z \in S : \A y \in S : z <= y
  BY <1>3
<1> QED BY <1>4 DEF Min

\* A set of numbers with 0 and the successors of its members has them all.
LEMMA SetInduction ==
    ASSUME NEW S, 0 \in S, \A n \in Nat : n \in S => n + 1 \in S
    PROVE  \A n \in Nat : n \in S
<1>1. SUFFICES ASSUME Nat \ S # {} PROVE FALSE
  OBVIOUS
<1> DEFINE m == Min(Nat \ S)
<1>2. Nat \ S \subseteq Nat
  OBVIOUS
<1>3. m \in Nat \ S /\ \A n \in Nat \ S : m <= n
  BY <1>1, <1>2, LeastNatural
<1> HIDE DEF m
<1>4. m - 1 \in S
  BY <1>3
<1> QED BY <1>3, <1>4

(***************************************************************************)
(* Concatenation.                                                          *)
(***************************************************************************)
\* It does not matter which two of three sequences are joined first.
Associates(a, b, c) == (a \o b) \o c = a \o (b \o c)

\* This holds for all sequences.
LEMMA Associative == ASSUME NEW S PROVE \A a, b, c \in Seq(S) : Associates(a, b, c)
BY ConcatAssociative DEF Associates

(***************************************************************************)
(* FlattenSeq.                                                             *)
(***************************************************************************)
\* f[n] is the concatenation of the first n sequences of ss.
Sums(f, ss, S) ==
    /\ f \in [0..Len(ss) -> Seq(S)]
    /\ f[0] = <<>>
    /\ \A i \in 1..Len(ss) : f[i] = f[i - 1] \o ss[i]

\* FlattenSeq is the last of these concatenations.
LEMMA FlattenPartial ==
    ASSUME NEW S, NEW ss \in Seq(Seq(S)), NEW f, Sums(f, ss, S)
    PROVE  FlattenSeq(ss) = f[Len(ss)]
<1> DEFINE n == Len(ss)
           IsFlat(g) == g = [i \in 1..n |-> IF i = 1 THEN ss[i] ELSE g[i - 1] \o ss[i]]
           flat == CHOOSE g : IsFlat(g)
           h == [i \in 1..n |-> f[i]]
<1> USE DEF Sums
<1>1. n \in Nat
  OBVIOUS
<1>2. CASE n = 0
  BY <1>2 DEF FlattenSeq
<1>3. CASE n # 0
  <2>1. FlattenSeq(ss) = flat[n]
    BY <1>3 DEF FlattenSeq
  <2>2. IsFlat(h)
    <3>1. ASSUME NEW i \in 1..n PROVE h[i] = IF i = 1 THEN ss[i] ELSE h[i - 1] \o ss[i]
      <4>1. CASE i = 1
        <5>1. f[i] = f[i - 1] \o ss[i] /\ i - 1 = 0
          <6>1. i - 1 = 0
            BY <4>1
          <6>2. f[i] = f[i - 1] \o ss[i]
            OBVIOUS
          <6> QED BY <6>1, <6>2
        <5>2. ss[i] \in Seq(S) /\ h[i] = f[i]
          OBVIOUS
        <5>3. <<>> \o ss[i] = ss[i]
          BY <5>2
        <5> QED BY <4>1, <5>1, <5>2, <5>3
      <4>2. CASE i # 1
        <5>1. i - 1 \in 1..n
          BY <4>2, <1>1
        <5> QED BY <4>2, <5>1
      <4> QED BY <4>1, <4>2
    <3> QED BY <3>1
  <2>3. IsFlat(flat)
    <3> HIDE DEF IsFlat
    <3> QED BY <2>2, Zenon
  <2>4. /\ \A i \in 1..n : flat[i] = (IF i = 1 THEN ss[i] ELSE flat[i - 1] \o ss[i])
        /\ \A i \in 1..n : h[i] = (IF i = 1 THEN ss[i] ELSE h[i - 1] \o ss[i])
    <3> HIDE DEF flat, h
    <3> QED BY <2>2, <2>3
  <2> DEFINE P == {m \in Nat : m \in 1..n => flat[m] = h[m]}
  <2> HIDE DEF flat, h
  <2>5. 0 \in P
    BY <1>1
  <2>6. \A m \in Nat : m \in P => m + 1 \in P
    <3> SUFFICES ASSUME NEW m \in Nat, m \in P, m + 1 \in 1..n PROVE flat[m + 1] = h[m + 1]
      <4>1. ASSUME NEW m \in Nat, m + 1 \in 1..n => flat[m + 1] = h[m + 1] PROVE m + 1 \in P
        <5>1. m + 1 \in Nat
          OBVIOUS
        <5> QED BY <4>1, <5>1
      <4> HIDE DEF P
      <4> QED BY <4>1
    <3>1. (m + 1) - 1 = m
      OBVIOUS
    <3>2. m + 1 # 1 => flat[m] = h[m]
      BY <1>1
    <3> QED BY <2>4, <3>1, <3>2
  <2>7. n \in P
    <3> HIDE DEF P
    <3> QED BY <1>1, <2>5, <2>6, SetInduction
  <2> QED BY <1>1, <1>3, <2>1, <2>7 DEF h
<1> QED BY <1>2, <1>3

\* There are such concatenations.
LEMMA SumsExist ==
    ASSUME NEW S, NEW ss \in Seq(Seq(S))
    PROVE  \E f : Sums(f, ss, S)
<1> DEFINE n == Len(ss)
           Upto(m, f) == /\ f \in [0..m -> Seq(S)] /\ f[0] = <<>>
                         /\ \A i \in 1..m : f[i] = f[i - 1] \o ss[i]
           P == {m \in Nat : m <= n => \E f : Upto(m, f)}
<1>1. n \in Nat
  OBVIOUS
<1>2. 0 \in P
  <2> DEFINE f == [k \in 0..0 |-> <<>>]
  <2>1. Upto(0, f)
    OBVIOUS
  <2> HIDE DEF Upto
  <2> QED BY <2>1
<1>3. ASSUME NEW m \in Nat, m \in P PROVE m + 1 \in P
  <2>1. SUFFICES ASSUME m + 1 <= n PROVE \E g : Upto(m + 1, g)
    <3>1. m + 1 \in Nat
      OBVIOUS
    <3> HIDE DEF Upto
    <3> QED BY <3>1
  <2>2. m <= n
    BY <1>1, <2>1
  <2>3. PICK f : Upto(m, f)
    <3> HIDE DEF Upto
    <3> QED BY <1>3, <2>2
  <2> DEFINE g == [k \in 0..(m + 1) |-> IF k <= m THEN f[k] ELSE f[m] \o ss[m + 1]]
  <2>4. m + 1 \in 1..n /\ ss[m + 1] \in Seq(S)
    BY <1>1, <2>1
  <2>5. f[m] \o ss[m + 1] \in Seq(S)
    <3>1. f[m] \in Seq(S)
      BY <2>3
    <3> QED BY <2>4, <3>1
  <2>6. g \in [0..(m + 1) -> Seq(S)]
    BY <2>3, <2>5
  <2>7. g[0] = <<>>
    BY <2>3
  <2>8. ASSUME NEW i \in 1..(m + 1) PROVE g[i] = g[i - 1] \o ss[i]
    <3>1. CASE i \in 1..m
      <4>1. f[i] = f[i - 1] \o ss[i]
        BY <2>3, <3>1
      <4>2. g[i] = f[i] /\ g[i - 1] = f[i - 1]
        BY <3>1
      <4> QED BY <4>1, <4>2
    <3>2. CASE i = m + 1
      <4>1. m + 1 \in 0..(m + 1) /\ m \in 0..(m + 1) /\ ~(m + 1 <= m) /\ m <= m /\ i - 1 = m
        BY <3>2
      <4>2. g[m + 1] = f[m] \o ss[m + 1] /\ g[m] = f[m]
        BY <4>1
      <4> HIDE DEF g
      <4> QED BY <3>2, <4>1, <4>2
    <3>3. i \in 1..m \/ i = m + 1
      OBVIOUS
    <3> QED BY <3>1, <3>2, <3>3
  <2> HIDE DEF g
  <2>9. Upto(m + 1, g)
    BY <2>6, <2>7, <2>8
  <2> QED BY <2>9
<1>4. n \in P
  <2> HIDE DEF P
  <2> QED BY <1>1, <1>2, <1>3, SetInduction
<1>5. PICK f : Upto(n, f)
  <2> HIDE DEF Upto
  <2> QED BY <1>1, <1>4
<1>6. Sums(f, ss, S)
  BY <1>5 DEF Sums
<1> QED BY <1>6

\* A concatenation of sequences over S is a sequence over S.
LEMMA FlattenType ==
    ASSUME NEW S, NEW ss \in Seq(Seq(S))
    PROVE  FlattenSeq(ss) \in Seq(S)
<1>1. PICK f : Sums(f, ss, S)
  BY SumsExist
<1>2. FlattenSeq(ss) = f[Len(ss)]
  BY <1>1, FlattenPartial
<1>3. Len(ss) \in 0..Len(ss)
  OBVIOUS
<1> QED BY <1>1, <1>2, <1>3 DEF Sums

\* When all sequences but one are empty, the concatenation is that one.
LEMMA FlattenOnly ==
    ASSUME NEW S, NEW ss \in Seq(Seq(S)), NEW j \in 1..Len(ss), \A i \in 1..Len(ss) : i # j => ss[i] = <<>>
    PROVE  FlattenSeq(ss) = ss[j]
<1> DEFINE f == [k \in 0..Len(ss) |-> IF k < j THEN <<>> ELSE ss[j]]
<1>1. Len(ss) \in Nat /\ j \in Nat \ {0} /\ ss[j] \in Seq(S) /\ <<>> \in Seq(S)
  OBVIOUS
<1>2. f \in [0..Len(ss) -> Seq(S)] /\ f[0] = <<>>
  BY <1>1
<1>3. ASSUME NEW i \in 1..Len(ss) PROVE f[i] = f[i - 1] \o ss[i]
  <2>1. CASE i = j
    <3>1. f[i] = ss[j] /\ f[i - 1] = <<>> /\ ss[i] = ss[j]
      BY <1>1, <2>1
    <3>2. <<>> \o ss[j] = ss[j]
      BY <1>1
    <3> QED BY <3>1, <3>2
  <2>2. CASE i # j
    <3>1. f[i] = f[i - 1] /\ ss[i] = <<>> /\ f[i - 1] \in Seq(S)
      BY <1>1, <2>2
    <3> HIDE DEF f
    <3>2. f[i - 1] \o <<>> = f[i - 1]
      BY <3>1
    <3> QED BY <3>1, <3>2
  <2> QED BY <2>1, <2>2
<1>4. f[Len(ss)] = ss[j]
  BY <1>1
<1> HIDE DEF f
<1>5. Sums(f, ss, S)
  BY <1>2, <1>3 DEF Sums
<1> QED BY <1>4, <1>5, FlattenPartial

\* When all sequences are empty, so is the concatenation.
LEMMA FlattenNone ==
    ASSUME NEW S, NEW ss \in Seq(Seq(S)), \A i \in 1..Len(ss) : ss[i] = <<>>
    PROVE  FlattenSeq(ss) = <<>>
<1> DEFINE f == [k \in 0..Len(ss) |-> <<>>]
<1>1. f \in [0..Len(ss) -> Seq(S)] /\ f[0] = <<>> /\ f[Len(ss)] = <<>>
  OBVIOUS
<1>2. ASSUME NEW i \in 1..Len(ss) PROVE f[i] = f[i - 1] \o ss[i]
  <2>1. f[i] = <<>> /\ f[i - 1] = <<>> /\ ss[i] = <<>>
    OBVIOUS
  <2>2. <<>> \o <<>> = <<>>
    OBVIOUS
  <2> QED BY <2>1, <2>2
<1> HIDE DEF f
<1>3. Sums(f, ss, S)
  BY <1>1, <1>2 DEF Sums
<1> QED BY <1>1, <1>3, FlattenPartial

\* The first sequence, and the concatenation of the others.
LEMMA FlattenTail ==
    ASSUME NEW S, NEW ss \in Seq(Seq(S)), ss # <<>>
    PROVE  FlattenSeq(ss) = ss[1] \o FlattenSeq(Tail(ss))
<1> DEFINE t == Tail(ss)
           n == Len(t)
<1>1. /\ t \in Seq(Seq(S)) /\ n \in Nat /\ Len(ss) = n + 1 /\ ss[1] \in Seq(S)
      /\ \A i \in 1..n : t[i] = ss[i + 1]
  OBVIOUS
<1> HIDE DEF t
<1>2. PICK f : Sums(f, ss, S)
  BY SumsExist
<1>3. PICK g : Sums(g, t, S)
  BY <1>1, SumsExist
<1> DEFINE P == {m \in Nat : m <= n => f[m + 1] = ss[1] \o g[m]}
<1>4. 0 \in P
  <2>1. f[1] = f[1 - 1] \o ss[1] /\ 1 - 1 = 0 /\ 0 + 1 = 1
    <3>1. 1 \in 1..Len(ss)
      BY <1>1
    <3>2. f[1] = f[1 - 1] \o ss[1]
      BY <1>2, <3>1 DEF Sums
    <3> QED BY <3>2
  <2>2. f[0] = <<>> /\ g[0] = <<>>
    BY <1>2, <1>3 DEF Sums
  <2>3. <<>> \o ss[1] = ss[1] /\ ss[1] \o <<>> = ss[1]
    BY <1>1
  <2> QED BY <2>1, <2>2, <2>3
<1>5. ASSUME NEW m \in Nat, m \in P PROVE m + 1 \in P
  <2>1. SUFFICES ASSUME m + 1 <= n PROVE f[m + 2] = ss[1] \o g[m + 1]
    <3>1. (m + 1) + 1 = m + 2 /\ m + 1 \in Nat
      OBVIOUS
    <3> QED BY <3>1
  <2>2. f[m + 1] = ss[1] \o g[m] /\ m \in 0..n /\ m + 1 \in 1..n /\ m + 2 \in 1..Len(ss)
    <3>1. m <= n /\ m \in 0..n /\ m + 1 \in 1..n /\ m + 2 \in 1..Len(ss)
      BY <1>1, <2>1
    <3>2. m <= n => f[m + 1] = ss[1] \o g[m]
      BY <1>5
    <3> QED BY <3>1, <3>2
  <2>3. f[m + 2] = f[m + 1] \o ss[m + 2]
    <3>1. f[m + 2] = f[(m + 2) - 1] \o ss[m + 2]
      BY <1>2, <2>2 DEF Sums
    <3>2. (m + 2) - 1 = m + 1
      OBVIOUS
    <3> QED BY <3>1, <3>2
  <2>4. g[m + 1] = g[m] \o t[m + 1]
    <3>1. g[m + 1] = g[(m + 1) - 1] \o t[m + 1]
      BY <1>3, <2>2 DEF Sums
    <3>2. (m + 1) - 1 = m
      OBVIOUS
    <3> QED BY <3>1, <3>2
  <2>5. t[m + 1] = ss[m + 2] /\ t[m + 1] \in Seq(S) /\ g[m] \in Seq(S)
    <3>1. (m + 1) + 1 = m + 2
      OBVIOUS
    <3>2. g[m] \in Seq(S)
      BY <1>3, <2>2 DEF Sums
    <3> QED BY <1>1, <2>2, <3>1, <3>2
  <2>6. (ss[1] \o g[m]) \o t[m + 1] = ss[1] \o (g[m] \o t[m + 1])
    <3> DEFINE a == ss[1]
               b == g[m]
               c == t[m + 1]
    <3>1. a \in Seq(S) /\ b \in Seq(S) /\ c \in Seq(S)
      BY <1>1, <2>5
    <3> HIDE DEF a, b, c
    <3>2. Associates(a, b, c)
      BY <3>1, Associative
    <3> QED BY <3>2 DEF a, b, c, Associates
  <2> QED BY <2>2, <2>3, <2>4, <2>5, <2>6
<1>6. n \in P
  <2> HIDE DEF P
  <2> QED BY <1>1, <1>4, <1>5, SetInduction
<1>7. f[Len(ss)] = ss[1] \o g[n]
  <2>1. n <= n => f[n + 1] = ss[1] \o g[n]
    BY <1>6
  <2>2. n <= n /\ Len(ss) = n + 1
    BY <1>1
  <2> HIDE DEF P, n
  <2> QED BY <2>1, <2>2
<1>8. FlattenSeq(ss) = f[Len(ss)] /\ FlattenSeq(t) = g[n]
  BY <1>1, <1>2, <1>3, FlattenPartial
<1> QED BY <1>7, <1>8 DEF t

\* One more sequence at the end.
LEMMA FlattenAppend ==
    ASSUME NEW S, NEW ss \in Seq(Seq(S)), NEW x \in Seq(S)
    PROVE  FlattenSeq(Append(ss, x)) = FlattenSeq(ss) \o x
<1> DEFINE n == Len(ss)
           t == Append(ss, x)
<1>1. n \in Nat /\ t \in Seq(Seq(S)) /\ Len(t) = n + 1 /\ t[n + 1] = x /\ \A i \in 1..n : t[i] = ss[i]
  OBVIOUS
<1> HIDE DEF t
<1>2. PICK f : Sums(f, ss, S)
  BY SumsExist
<1> DEFINE g == [k \in 0..(n + 1) |-> IF k <= n THEN f[k] ELSE f[n] \o x]
<1>3. f \in [0..n -> Seq(S)] /\ f[0] = <<>> /\ \A i \in 1..n : f[i] = f[i - 1] \o ss[i]
  BY <1>2 DEF Sums
<1>4. f[n] \o x \in Seq(S)
  <2>1. n \in 0..n
    BY <1>1
  <2> HIDE DEF n
  <2>2. f[n] \in Seq(S)
    BY <1>3, <2>1
  <2> QED BY <2>2
<1>5. g \in [0..(n + 1) -> Seq(S)]
  BY <1>3, <1>4
<1>6. g[0] = <<>> /\ g[n + 1] = f[n] \o x /\ \A k \in 0..n : g[k] = f[k]
  BY <1>1, <1>3
<1> HIDE DEF g
<1>7. ASSUME NEW i \in 1..(n + 1) PROVE g[i] = g[i - 1] \o t[i]
  <2>1. CASE i \in 1..n
    <3>1. i - 1 \in 0..n /\ i \in 0..n
      BY <2>1
    <3> QED BY <1>1, <1>3, <1>6, <2>1, <3>1
  <2>2. CASE i = n + 1
    <3>1. i - 1 = n /\ n \in 0..n
      BY <1>1, <2>2
    <3> QED BY <1>1, <1>6, <2>2, <3>1
  <2> QED BY <1>1, <2>1, <2>2
<1>8. Sums(g, t, S)
  BY <1>1, <1>5, <1>6, <1>7 DEF Sums
<1>9. FlattenSeq(t) = g[n + 1] /\ FlattenSeq(ss) = f[n]
  BY <1>1, <1>2, <1>8, FlattenPartial
<1> QED BY <1>6, <1>9 DEF t

(***************************************************************************)
(* Recursion on the length of a sequence.                                  *)
(***************************************************************************)
\* cut makes every sequence over T that is not empty shorter.
Shortens(cut, T) == \A s \in Seq(T) : s # <<>> => cut[s] \in Seq(T) /\ Len(cut[s]) < Len(s)

\* f is defined by recursion: its value on s by that on cut[s]; on all sequences,
\* and on those of at most n elements.
Recursive(f, T, base, cut, step) ==
    f = [s \in Seq(T) |-> IF s = <<>> THEN base ELSE step[<<s, f[cut[s]]>>]]
RecursiveUpto(f, n, T, base, cut, step) ==
    \A s \in Seq(T) : Len(s) <= n =>
        f[s] = IF s = <<>> THEN base ELSE step[<<s, f[cut[s]]>>]

\* Such a function exists for all sequences.
LEMMA SeqRecursion ==
    ASSUME NEW T, NEW R, NEW base \in R, NEW cut, Shortens(cut, T), NEW step \in [Seq(T) \X R -> R]
    PROVE  \E f \in [Seq(T) -> R] : Recursive(f, T, base, cut, step)
<1> USE DEF Shortens
<1> DEFINE Good(f, n) == f \in [Seq(T) -> R] /\ RecursiveUpto(f, n, T, base, cut, step)
           E == {n \in Nat : \E f : Good(f, n)}
<1>1. 0 \in E
  <2> DEFINE f == [s \in Seq(T) |-> base]
  <2>1. f \in [Seq(T) -> R]
    OBVIOUS
  <2>2. RecursiveUpto(f, 0, T, base, cut, step)
    <3>1. \A s \in Seq(T) : Len(s) <= 0 => s = <<>>
      OBVIOUS
    <3> QED BY <3>1 DEF RecursiveUpto
  <2> HIDE DEF f
  <2> QED BY <2>1, <2>2
<1>2. ASSUME NEW n \in Nat, n \in E PROVE n + 1 \in E
  <2>1. PICK f : Good(f, n)
    BY <1>2
  <2> DEFINE g == [s \in Seq(T) |-> IF s = <<>> THEN base ELSE step[<<s, f[cut[s]]>>]]
  <2>2. g \in [Seq(T) -> R]
    <3>1. ASSUME NEW s \in Seq(T), s # <<>> PROVE step[<<s, f[cut[s]]>>] \in R
      <4>1. f[cut[s]] \in R
        BY <2>1, <3>1
      <4> QED BY <4>1
    <3> QED BY <3>1
  <2>3. ASSUME NEW s \in Seq(T), Len(s) <= n PROVE g[s] = f[s]
    BY <2>1, <2>3 DEF RecursiveUpto
  <2>4. ASSUME NEW s \in Seq(T), Len(s) <= n + 1, s # <<>> PROVE g[cut[s]] = f[cut[s]]
    <3>1. cut[s] \in Seq(T) /\ Len(cut[s]) < Len(s)
      BY <2>4
    <3>2. Len(s) \in Nat /\ Len(cut[s]) \in Nat
      BY <3>1
    <3>3. Len(cut[s]) <= n
      BY <2>4, <3>1, <3>2
    <3> QED BY <2>3, <3>1, <3>3
  <2>5. RecursiveUpto(g, n + 1, T, base, cut, step)
    <3> SUFFICES ASSUME NEW s \in Seq(T), Len(s) <= n + 1
                 PROVE  g[s] = IF s = <<>> THEN base ELSE step[<<s, g[cut[s]]>>]
      BY DEF RecursiveUpto
    <3>1. g[s] = IF s = <<>> THEN base ELSE step[<<s, f[cut[s]]>>]
      OBVIOUS
    <3> HIDE DEF g
    <3> QED BY <2>4, <3>1
  <2> HIDE DEF g
  <2>6. Good(g, n + 1)
    BY <2>2, <2>5
  <2>7. n + 1 \in Nat
    OBVIOUS
  <2> HIDE DEF Good
  <2> QED BY <2>6, <2>7
<1>3. \A n \in Nat : n \in E
  <2> HIDE DEF E
  <2> QED BY <1>1, <1>2, SetInduction
\* Two such functions agree on the sequences that are short enough for both.
<1>4. ASSUME NEW f, NEW g, NEW n \in Nat, NEW m \in Nat, Good(f, n), Good(g, m)
      PROVE  \A k \in Nat : \A s \in Seq(T) : Len(s) <= k /\ Len(s) <= n /\ Len(s) <= m => f[s] = g[s]
  <2> DEFINE P == {k \in Nat : \A s \in Seq(T) : Len(s) <= k /\ Len(s) <= n /\ Len(s) <= m => f[s] = g[s]}
  <2>1. 0 \in P
    <3>1. \A s \in Seq(T) : Len(s) <= 0 => s = <<>>
      OBVIOUS
    <3>2. <<>> \in Seq(T) /\ Len(<<>>) = 0
      OBVIOUS
    <3>3. Len(<<>>) <= n /\ Len(<<>>) <= m
      BY <3>2
    <3>4. f[<<>>] = base /\ g[<<>>] = base
      BY <1>4, <3>2, <3>3 DEF RecursiveUpto
    <3> QED BY <3>1, <3>4
  <2>2. ASSUME NEW k \in Nat, k \in P PROVE k + 1 \in P
    <3>1. ASSUME NEW s \in Seq(T), Len(s) <= k + 1, Len(s) <= n, Len(s) <= m PROVE f[s] = g[s]
      <4>1. /\ f[s] = IF s = <<>> THEN base ELSE step[<<s, f[cut[s]]>>]
            /\ g[s] = IF s = <<>> THEN base ELSE step[<<s, g[cut[s]]>>]
        BY <1>4, <3>1 DEF RecursiveUpto
      <4>2. CASE s # <<>>
        <5>1. cut[s] \in Seq(T) /\ Len(cut[s]) < Len(s) /\ Len(s) \in Nat
          BY <4>2
        <5>2. Len(cut[s]) \in Nat
          BY <5>1
        <5>3. Len(cut[s]) <= k /\ Len(cut[s]) <= n /\ Len(cut[s]) <= m
          BY <3>1, <5>1, <5>2
        <5>4. f[cut[s]] = g[cut[s]]
          BY <2>2, <5>1, <5>3
        <5> QED BY <4>1, <5>4
      <4> QED BY <4>1, <4>2
    <3>2. k + 1 \in Nat
      OBVIOUS
    <3> QED BY <3>1, <3>2
  <2> HIDE DEF P
  <2>3. \A k \in Nat : k \in P
    BY <2>1, <2>2, SetInduction
  <2> QED BY <2>3 DEF P
<1> DEFINE at(n) == CHOOSE f : Good(f, n)
           h == [s \in Seq(T) |-> at(Len(s))[s]]
<1>5. ASSUME NEW n \in Nat PROVE Good(at(n), n)
  BY <1>3
<1> HIDE DEF at
<1>6. h \in [Seq(T) -> R]
  <2>1. ASSUME NEW s \in Seq(T) PROVE at(Len(s))[s] \in R
    <3>1. Good(at(Len(s)), Len(s))
      BY <1>5
    <3> QED BY <3>1
  <2> QED BY <2>1
<1>7. ASSUME NEW s \in Seq(T) PROVE h[s] = IF s = <<>> THEN base ELSE step[<<s, h[cut[s]]>>]
  <2>1. Good(at(Len(s)), Len(s)) /\ Len(s) \in Nat
    BY <1>5
  <2>2. h[s] = IF s = <<>> THEN base ELSE step[<<s, at(Len(s))[cut[s]]>>]
    BY <2>1 DEF RecursiveUpto
  <2>3. CASE s # <<>>
    <3>1. cut[s] \in Seq(T) /\ Len(cut[s]) < Len(s)
      BY <2>3
    <3>2. Good(at(Len(cut[s])), Len(cut[s])) /\ Len(cut[s]) \in Nat
      BY <1>5, <3>1
    <3>3. Len(cut[s]) <= Len(s) /\ Len(cut[s]) <= Len(cut[s])
      BY <2>1, <3>1, <3>2
    <3> HIDE DEF Good
    <3>4. at(Len(s))[cut[s]] = at(Len(cut[s]))[cut[s]]
      BY <1>4, <2>1, <3>1, <3>2, <3>3
    <3>5. h[cut[s]] = at(Len(cut[s]))[cut[s]]
      BY <3>1
    <3> QED BY <2>2, <3>4, <3>5
  <2> QED BY <2>2, <2>3
<1>8. h = [s \in Seq(T) |-> IF s = <<>> THEN base ELSE step[<<s, h[cut[s]]>>]]
  <2>1. h = [s \in Seq(T) |-> h[s]]
    OBVIOUS
  <2> HIDE DEF h
  <2> QED BY <1>7, <2>1
<1> HIDE DEF h
<1> QED BY <1>6, <1>8 DEF Recursive

\* f and g agree on a sequence when they agree on its cut.
AgreeBy(f, g, cut, T) ==
    /\ f[<<>>] = g[<<>>]
    /\ \A s \in Seq(T) : s # <<>> /\ f[cut[s]] = g[cut[s]] => f[s] = g[s]

\* Two such functions agree on all sequences.
LEMMA SeqAgree ==
    ASSUME NEW T, NEW f, NEW g, NEW cut, Shortens(cut, T), AgreeBy(f, g, cut, T)
    PROVE  \A s \in Seq(T) : f[s] = g[s]
<1> DEFINE P == {k \in Nat : \A s \in Seq(T) : Len(s) <= k => f[s] = g[s]}
<1>1. 0 \in P
  <2>1. \A s \in Seq(T) : Len(s) <= 0 => s = <<>>
    OBVIOUS
  <2>2. f[<<>>] = g[<<>>]
    BY DEF AgreeBy
  <2> QED BY <2>1, <2>2
<1>2. ASSUME NEW k \in Nat, k \in P PROVE k + 1 \in P
  <2>1. ASSUME NEW s \in Seq(T), Len(s) <= k + 1 PROVE f[s] = g[s]
    <3>1. CASE s = <<>>
      BY <3>1 DEF AgreeBy
    <3>2. CASE s # <<>>
      <4>1. cut[s] \in Seq(T) /\ Len(cut[s]) < Len(s)
        BY <3>2 DEF Shortens
      <4>2. Len(s) \in Nat /\ Len(cut[s]) \in Nat
        BY <4>1
      <4>3. Len(cut[s]) <= k
        BY <2>1, <4>1, <4>2
      <4>4. f[cut[s]] = g[cut[s]]
        BY <1>2, <4>1, <4>3
      <4> QED BY <3>2, <4>4 DEF AgreeBy
    <3> QED BY <3>1, <3>2
  <2>2. k + 1 \in Nat
    OBVIOUS
  <2> QED BY <2>1, <2>2
<1> HIDE DEF P
<1>3. \A k \in Nat : k \in P
  BY <1>1, <1>2, SetInduction
<1> SUFFICES ASSUME NEW s \in Seq(T) PROVE f[s] = g[s]
  OBVIOUS
<1>4. Len(s) \in Nat /\ Len(s) <= Len(s)
  OBVIOUS
<1> QED BY <1>3, <1>4 DEF P

(***************************************************************************)
(* Chains: values of which each is made from the one before.               *)
(***************************************************************************)
\* g[i] is the value after i steps from base.
Chain(g, n, base, step) ==
    /\ g[0] = base
    /\ \A i \in 1..n : g[i] = step[<<g[i - 1], i>>]

\* There is a chain of any length.
LEMMA ChainExists ==
    ASSUME NEW n \in Nat, NEW R, NEW base \in R, NEW step \in [R \X (1..n) -> R]
    PROVE  \E g \in [0..n -> R] : Chain(g, n, base, step)
<1> DEFINE P == {m \in Nat : m <= n => \E g \in [0..m -> R] : Chain(g, m, base, step)}
<1>1. 0 \in P
  <2> DEFINE g == [k \in 0..0 |-> base]
  <2>1. g \in [0..0 -> R] /\ Chain(g, 0, base, step)
    BY DEF Chain
  <2> HIDE DEF g
  <2> QED BY <2>1
<1>2. ASSUME NEW m \in Nat, m \in P PROVE m + 1 \in P
  <2>1. SUFFICES ASSUME m + 1 <= n PROVE \E g \in [0..(m + 1) -> R] : Chain(g, m + 1, base, step)
    OBVIOUS
  <2>2. PICK f \in [0..m -> R] : Chain(f, m, base, step)
    BY <1>2, <2>1
  <2> DEFINE g == [k \in 0..(m + 1) |-> IF k <= m THEN f[k] ELSE step[<<f[m], m + 1>>]]
  <2>3. step[<<f[m], m + 1>>] \in R /\ f[m] \in R
    <3>1. m + 1 \in 1..n /\ f[m] \in R
      BY <2>1
    <3> QED BY <3>1
  <2>4. g \in [0..(m + 1) -> R] /\ g[0] = base
    BY <2>2, <2>3 DEF Chain
  <2>5. ASSUME NEW i \in 1..(m + 1) PROVE g[i] = step[<<g[i - 1], i>>]
    <3>1. CASE i <= m
      <4>1. i \in 1..m /\ i - 1 <= m /\ i - 1 \in 0..(m + 1)
        BY <3>1
      <4>2. f[i] = step[<<f[i - 1], i>>]
        BY <2>2, <4>1 DEF Chain
      <4>3. g[i] = f[i] /\ g[i - 1] = f[i - 1]
        BY <3>1, <4>1
      <4> QED BY <4>2, <4>3
    <3>2. CASE i = m + 1
      <4>1. g[m + 1] = step[<<f[m], m + 1>>]
        OBVIOUS
      <4>2. g[m] = f[m] /\ i - 1 = m
        BY <3>2
      <4> HIDE DEF g
      <4> QED BY <3>2, <4>1, <4>2
    <3> QED BY <3>1, <3>2
  <2> HIDE DEF g
  <2>6. Chain(g, m + 1, base, step)
    BY <2>4, <2>5 DEF Chain
  <2> QED BY <2>4, <2>6
<1>3. n \in P
  <2> HIDE DEF P
  <2> QED BY <1>1, <1>2, SetInduction
<1> QED BY <1>3
=================================================================================
