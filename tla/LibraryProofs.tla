------------------------------ MODULE LibraryProofs ------------------------------

(***************************************************************************)
(* The object scripts and the heap of the bootstrap library: what a script *)
(* of any length leaves in the directory, however often it is stopped, and *)
(* blocks that never touch each other, for every number and size of them.  *)
(***************************************************************************)
EXTENDS Memory, ObjectScript, InductionFacts, TLAPS

(***************************************************************************)
(* The places of the lines.                                                *)
(***************************************************************************)
Lines == Seq(STRING)
Places == {"top", "in", "wrong"}

\* The place of a line follows from the line before it and its place.
LEMMA PlaceIs ==
    ASSUME NEW s \in Seq(Lines)
    PROVE  /\ Place(s) \in [1..(Len(s) + 1) -> Places]
           /\ Place(s)[1] = "top"
           /\ \A i \in 1..Len(s) : Place(s)[i + 1] = After(Place(s)[i], s[i])
<1> DEFINE n == Len(s)
           step == [p \in Places \X (1..n) |-> After(p[1], s[p[2]])]
           IsPlace(f) == f = [i \in 1..(n + 1) |-> IF i = 1 THEN "top" ELSE After(f[i - 1], s[i - 1])]
<1>1. n \in Nat /\ "top" \in Places
  BY DEF Places
<1>2. step \in [Places \X (1..n) -> Places]
  BY DEF After, Places
<1>3. PICK g \in [0..n -> Places] : Chain(g, n, "top", step)
  <2> HIDE DEF step, n
  <2> QED BY <1>1, <1>2, ChainExists
<1> DEFINE h == [i \in 1..(n + 1) |-> g[i - 1]]
<1>4. IsPlace(h)
  <2>1. ASSUME NEW i \in 1..(n + 1) PROVE h[i] = IF i = 1 THEN "top" ELSE After(h[i - 1], s[i - 1])
    <3>1. CASE i = 1
      BY <1>3, <3>1 DEF Chain
    <3>2. CASE i # 1
      <4>1. i - 1 \in 1..n /\ i - 1 \in 1..(n + 1) /\ i - 2 \in 0..n /\ (i - 1) - 1 = i - 2
        BY <1>1, <3>2
      <4>2. g[i - 1] = step[<<g[i - 2], i - 1>>]
        BY <1>3, <4>1 DEF Chain
      <4>3. step[<<g[i - 2], i - 1>>] = After(g[i - 2], s[i - 1])
        <5>1. g[i - 2] \in Places
          BY <4>1
        <5> QED BY <4>1, <5>1
      <4>4. h[i] = g[i - 1] /\ h[i - 1] = g[i - 2]
        BY <4>1
      <4> HIDE DEF h, step
      <4> QED BY <3>2, <4>2, <4>3, <4>4
    <3> QED BY <3>1, <3>2
  <2> QED BY <2>1
<1>5. IsPlace(Place(s))
  <2>1. Place(s) = CHOOSE f : IsPlace(f)
    BY DEF Place
  <2> HIDE DEF IsPlace, h
  <2> QED BY <1>4, <2>1, Zenon
<1> DEFINE p == Place(s)
<1>6. /\ DOMAIN p = 1..(n + 1)
      /\ \A i \in 1..(n + 1) : p[i] = IF i = 1 THEN "top" ELSE After(p[i - 1], s[i - 1])
  <2> HIDE DEF p, n
  <2> QED BY <1>5 DEF p
<1> HIDE DEF p
<1>7. p[1] = "top"
  BY <1>1, <1>6
<1>8. ASSUME NEW i \in 1..n PROVE p[i + 1] = After(p[i], s[i])
  <2>1. i + 1 \in 1..(n + 1) /\ i + 1 # 1 /\ (i + 1) - 1 = i
    BY <1>1
  <2> QED BY <1>6, <2>1
<1>9. \A q, l : After(q, l) \in Places
  BY DEF After, Places
<1>10. ASSUME NEW i \in 1..(n + 1) PROVE p[i] \in Places
  BY <1>1, <1>6, <1>9
<1>11. p \in [1..(n + 1) -> Places]
  <2>1. p = [i \in 1..(n + 1) |-> p[i]]
    <3> HIDE DEF n
    <3> QED BY <1>5, <1>6 DEF p
  <2> QED BY <1>10, <2>1
<1> QED BY <1>7, <1>8, <1>11 DEF p

\* After a line that may not stand where it does, no line may.
LEMMA WrongStays ==
    ASSUME NEW s \in Seq(Lines), NEW i \in 1..(Len(s) + 1), Place(s)[i] = "wrong"
    PROVE  Place(s)[Len(s) + 1] = "wrong"
<1> DEFINE P == {k \in Nat : i + k <= Len(s) + 1 => Place(s)[i + k] = "wrong"}
<1>0. Len(s) \in Nat /\ i \in Nat /\ i + 0 = i
  OBVIOUS
<1>1. 0 \in P
  BY <1>0
<1>2. ASSUME NEW k \in Nat, k \in P PROVE k + 1 \in P
  <2>1. SUFFICES ASSUME i + (k + 1) <= Len(s) + 1 PROVE Place(s)[i + (k + 1)] = "wrong"
    OBVIOUS
  <2>2. i + k \in 1..Len(s) /\ i + (k + 1) = (i + k) + 1 /\ i + k <= Len(s) + 1
    BY <1>0, <2>1
  <2>3. Place(s)[(i + k) + 1] = After(Place(s)[i + k], s[i + k]) /\ Place(s)[i + k] = "wrong"
    BY <1>2, <2>2, PlaceIs
  <2> QED BY <2>2, <2>3 DEF After
<1>3. (Len(s) + 1) - i \in P
  <2>1. (Len(s) + 1) - i \in Nat
    BY <1>0
  <2> HIDE DEF P
  <2> QED BY <1>1, <1>2, <2>1, SetInduction
<1>4. i + ((Len(s) + 1) - i) = Len(s) + 1
  BY <1>0
<1> QED BY <1>0, <1>3, <1>4

(***************************************************************************)
(* The headers, and the objects of the first lines.                        *)
(***************************************************************************)
\* A header is no blank line.
LEMMA HeaderNotBlank == \A l : GoodHeader(l) => ~Blank(l)
<1>1. Len(CatText) = 6 /\ Len(<<>>) = 0
  BY DEF CatText
<1> QED BY <1>1 DEF GoodHeader, Blank, IsPrefix

\* One more line: one more header, if it is one.
LEMMA HeadersNext ==
    ASSUME NEW s \in Seq(Lines), NEW n \in 1..Len(s)
    PROVE  Headers(s, n) = Headers(s, n - 1)
                             \cup IF Place(s)[n] = "top" /\ GoodHeader(s[n]) THEN {n} ELSE {}
<1>1. 1..n = 1..(n - 1) \cup {n} /\ n \notin 1..(n - 1)
  OBVIOUS
<1> QED BY <1>1 DEF Headers

\* From the header of an open object on there is no other.
LEMMA HeadersOpen ==
    ASSUME NEW s \in Seq(Lines), NEW h \in 1..Len(s), NEW n \in h..Len(s),
           Place(s)[h] = "top", GoodHeader(s[h]), \A i \in (h + 1)..n : Place(s)[i] = "in"
    PROVE  Headers(s, n) = Headers(s, h - 1) \cup {h}
<1>1. 1..n = 1..(h - 1) \cup {h} \cup (h + 1)..n
  OBVIOUS
<1>2. \A i \in (h + 1)..n : Place(s)[i] # "top"
  OBVIOUS
<1> QED BY <1>1, <1>2 DEF Headers

\* The files f with one more, or another in its place.
Extended(f, n, body) == [m \in DOMAIN f \cup {n} |-> IF m = n THEN body ELSE f[m]]

\* When an object ends, what is expected is what was expected before it, with
\* this object in place of one of the same name.
LEMMA ExpectedNext ==
    ASSUME NEW s \in Seq(Lines), NEW h \in 1..Len(s), NEW e \in (h + 1)..Len(s),
           Place(s)[h] = "top", GoodHeader(s[h]), \A i \in (h + 1)..e : Place(s)[i] = "in",
           s[e] \in EofLines, \A i \in (h + 1)..(e - 1) : s[i] \notin EofLines,
           NEW n, n = NameOf(s[h])
    PROVE  Expected(s, e) = Extended(Expected(s, h - 1), n, SubSeq(s, h + 1, e - 1))
<1> DEFINE last(k, m) == Max(Named(s, k, m))
<1>1. Headers(s, e) = Headers(s, h - 1) \cup {h} /\ Headers(s, h - 1) \subseteq 1..(h - 1)
  <2>1. e \in h..Len(s)
    OBVIOUS
  <2> QED BY <2>1, HeadersOpen DEF Headers
<1>2. Body(s, h) = SubSeq(s, h + 1, e - 1)
  <2> DEFINE Q(x) == s[x] \in EofLines /\ \A i \in (h + 1)..(x - 1) : s[i] \notin EofLines
             c == CHOOSE x \in (h + 1)..Len(s) : Q(x)
  <2>1. e \in (h + 1)..Len(s) /\ Q(e)
    OBVIOUS
  <2>2. c \in (h + 1)..Len(s) /\ Q(c)
    <3> HIDE DEF Q
    <3> QED BY <2>1
  <2> HIDE DEF c
  <2>3. c = e
    <3>1. c \in Int /\ e \in Int /\ h \in Int
      BY <2>2
    <3>2. ~(c < e)
      <4>1. c < e => c \in (h + 1)..(e - 1)
        BY <2>2, <3>1
      <4> QED BY <2>2, <4>1
    <3>3. ~(e < c)
      <4>1. e < c => e \in (h + 1)..(c - 1)
        BY <3>1
      <4> QED BY <2>2, <4>1
    <3> QED BY <3>1, <3>2, <3>3
  <2> QED BY <2>3 DEF Body, c
<1>3. last(e, n) = h
  <2>1. h \in Named(s, e, n) /\ Named(s, e, n) \subseteq 1..h
    BY <1>1 DEF Named
  <2>2. \A x \in Named(s, e, n) : (\A y \in Named(s, e, n) : x >= y) => x = h
    BY <2>1
  <2>3. \A y \in Named(s, e, n) : h >= y
    BY <2>1
  <2> QED BY <2>1, <2>2, <2>3 DEF Max
<1>4. ASSUME NEW m, m # n PROVE last(e, m) = last(h - 1, m)
  <2>1. Named(s, e, m) = Named(s, h - 1, m)
    BY <1>1, <1>4 DEF Named
  <2> QED BY <2>1
<1>5. DOMAIN Expected(s, e) = DOMAIN Expected(s, h - 1) \cup {n}
  BY <1>1 DEF Expected
<1>6. ASSUME NEW m \in DOMAIN Expected(s, h - 1) \cup {n}
      PROVE  Expected(s, e)[m] = IF m = n THEN SubSeq(s, h + 1, e - 1) ELSE Expected(s, h - 1)[m]
  <2>1. Expected(s, e)[m] = Body(s, last(e, m))
    BY <1>5 DEF Expected
  <2>2. CASE m = n
    BY <1>2, <1>3, <2>1, <2>2
  <2>3. CASE m # n
    <3>1. m \in DOMAIN Expected(s, h - 1)
      BY <2>3
    <3>2. Expected(s, h - 1)[m] = Body(s, last(h - 1, m))
      BY <3>1 DEF Expected
    <3> QED BY <1>4, <2>1, <2>3, <3>2
  <2> QED BY <2>2, <2>3
<1>7. Expected(s, e) = [m \in DOMAIN Expected(s, e) |-> Expected(s, e)[m]]
  BY DEF Expected
<1> HIDE DEF last
<1> QED BY <1>5, <1>6, <1>7 DEF Extended

\* Lines without a header change nothing.
LEMMA ExpectedSame ==
    ASSUME NEW s, NEW n, NEW k, Headers(s, n) = Headers(s, k)
    PROVE  Expected(s, n) = Expected(s, k)
<1>1. \A m : Named(s, n, m) = Named(s, k, m)
  BY DEF Named
<1> QED BY <1>1 DEF Expected

\* No lines, no objects.
LEMMA ExpectedNone == ASSUME NEW s PROVE Headers(s, 0) = {} /\ Expected(s, 0) = <<>>
<1>1. Headers(s, 0) = {}
  BY DEF Headers
<1>2. DOMAIN Expected(s, 0) = {}
  BY <1>1 DEF Expected
<1>3. Expected(s, 0) = [m \in {} |-> Body(s, Max(Named(s, 0, m)))]
  BY <1>1 DEF Expected
<1>4. <<>> = [m \in {} |-> Body(s, Max(Named(s, 0, m)))]
  OBVIOUS
<1> QED BY <1>1, <1>3, <1>4

(***************************************************************************)
(* What is read next does not change what the lines before it say.         *)
(***************************************************************************)
\* A set of numbers up to n that is not empty has a greatest element.
LEMMA GreatestUpto ==
    ASSUME NEW n \in Nat, NEW S, S \subseteq 1..n, S # {}
    PROVE  Max(S) \in S
<1> DEFINE D == {n - x : x \in S}
           m == n - Min(D)
<1>1. D \subseteq Nat /\ D # {}
  <2>1. \A x \in S : x \in 1..n /\ n - x \in Nat
    OBVIOUS
  <2> QED BY <2>1
<1>2. Min(D) \in D /\ \A y \in D : Min(D) <= y
  <2> HIDE DEF D
  <2> QED BY <1>1, LeastNatural
<1>3. PICK x \in S : Min(D) = n - x
  BY <1>2
<1>4. \A y \in S : x >= y
  <2>1. \A y \in S : n - x <= n - y
    BY <1>2, <1>3
  <2> QED BY <2>1
<1> QED BY <1>4 DEF Max

\* s and t begin with the same n lines.
Agree(s, t, n) ==
    /\ s \in Seq(Lines) /\ t \in Seq(Lines) /\ n \in Nat /\ n <= Len(s) /\ n <= Len(t)
    /\ \A i \in 1..n : s[i] = t[i]

\* Then these lines, and the one behind them, have the same places.
LEMMA SamePlaces ==
    ASSUME NEW s, NEW t, NEW n, Agree(s, t, n)
    PROVE  \A i \in 1..(n + 1) : Place(s)[i] = Place(t)[i]
<1> DEFINE P == {k \in Nat : k <= n => Place(s)[k + 1] = Place(t)[k + 1]}
<1>1. /\ s \in Seq(Lines) /\ t \in Seq(Lines) /\ n \in Nat /\ n <= Len(s) /\ n <= Len(t)
      /\ Len(s) \in Nat /\ Len(t) \in Nat /\ \A i \in 1..n : s[i] = t[i]
  BY DEF Agree
<1>2. 0 \in P
  BY <1>1, PlaceIs
<1>3. ASSUME NEW k \in Nat, k \in P PROVE k + 1 \in P
  <2>1. SUFFICES ASSUME k + 1 <= n PROVE Place(s)[(k + 1) + 1] = Place(t)[(k + 1) + 1]
    OBVIOUS
  <2>2. k + 1 \in 1..n /\ k + 1 \in 1..Len(s) /\ k + 1 \in 1..Len(t) /\ k <= n
    BY <1>1, <2>1
  <2>3. Place(s)[(k + 1) + 1] = After(Place(s)[k + 1], s[k + 1])
    BY <1>1, <2>2, PlaceIs
  <2>4. Place(t)[(k + 1) + 1] = After(Place(t)[k + 1], t[k + 1])
    BY <1>1, <2>2, PlaceIs
  <2> QED BY <1>1, <1>3, <2>2, <2>3, <2>4
<1>4. \A k \in Nat : k \in P
  <2> HIDE DEF P
  <2> QED BY <1>2, <1>3, SetInduction
<1>5. ASSUME NEW i \in 1..(n + 1) PROVE Place(s)[i] = Place(t)[i]
  <2>1. i - 1 \in Nat /\ i - 1 <= n /\ (i - 1) + 1 = i
    BY <1>1
  <2> QED BY <1>4, <2>1
<1> QED BY <1>5

\* And the same headers.
LEMMA SameHeaders ==
    ASSUME NEW s, NEW t, NEW n, Agree(s, t, n), NEW k \in 0..n
    PROVE  Headers(s, k) = Headers(t, k)
<1>1. n \in Nat /\ 1..k \subseteq 1..n /\ 1..k \subseteq 1..(n + 1)
  BY DEF Agree
<1>2. \A i \in 1..k : Place(s)[i] = Place(t)[i] /\ s[i] = t[i]
  BY <1>1, SamePlaces DEF Agree
<1> QED BY <1>2 DEF Headers

\* Without an end, all lines after a header are in the object.
LEMMA OpenUntilEnd ==
    ASSUME NEW s \in Seq(Lines), NEW n \in 0..Len(s), NEW h \in Headers(s, n),
           \A i \in (h + 1)..n : s[i] \notin EofLines
    PROVE  Place(s)[n + 1] = "in"
<1> DEFINE P == {k \in Nat : h + k <= n => Place(s)[(h + k) + 1] = "in"}
<1>1. h \in 1..n /\ h \in Nat /\ n \in Nat /\ Len(s) \in Nat /\ n <= Len(s) /\ Place(s)[h] = "top" /\ GoodHeader(s[h])
  BY DEF Headers
<1>2. 0 \in P
  <2>1. h \in 1..Len(s) /\ (h + 0) + 1 = h + 1
    BY <1>1
  <2>2. Place(s)[h + 1] = After("top", s[h])
    BY <1>1, <2>1, PlaceIs
  <2>3. After("top", s[h]) = "in"
    BY <1>1, HeaderNotBlank DEF After
  <2> QED BY <2>1, <2>2, <2>3
<1>3. ASSUME NEW k \in Nat, k \in P PROVE k + 1 \in P
  <2>1. SUFFICES ASSUME h + (k + 1) <= n PROVE Place(s)[(h + (k + 1)) + 1] = "in"
    OBVIOUS
  <2>2. h + (k + 1) \in 1..Len(s) /\ h + (k + 1) \in (h + 1)..n /\ h + (k + 1) = (h + k) + 1 /\ h + k <= n
    BY <1>1, <2>1
  <2>3. Place(s)[(h + (k + 1)) + 1] = After(Place(s)[h + (k + 1)], s[h + (k + 1)])
    BY <2>2, PlaceIs
  <2>4. Place(s)[h + (k + 1)] = "in" /\ s[h + (k + 1)] \notin EofLines
    BY <1>3, <2>2
  <2>5. After("in", s[h + (k + 1)]) = "in"
    BY <2>4 DEF After
  <2> QED BY <2>3, <2>4, <2>5
<1>4. n - h \in P
  <2>1. n - h \in Nat
    BY <1>1
  <2> HIDE DEF P
  <2> QED BY <1>2, <1>3, <2>1, SetInduction
<1>5. h + (n - h) = n
  BY <1>1
<1> QED BY <1>1, <1>4, <1>5

\* The body of an object that has its end within the first n lines.
LEMMA SameBody ==
    ASSUME NEW s, NEW t, NEW n, Agree(s, t, n), Place(s)[n + 1] = "top", NEW h \in Headers(s, n)
    PROVE  Body(s, h) = Body(t, h)
<1> DEFINE E == {i \in (h + 1)..n : s[i] \in EofLines}
           e == Min(E)
           Q(u, x) == u[x] \in EofLines /\ \A i \in (h + 1)..(x - 1) : u[i] \notin EofLines
<1>1. /\ s \in Seq(Lines) /\ t \in Seq(Lines) /\ n \in 0..Len(s) /\ n \in 0..Len(t)
      /\ \A i \in 1..n : s[i] = t[i]
  BY DEF Agree
<1>2. h \in 1..n /\ h \in Nat /\ n \in Nat /\ Len(s) \in Nat /\ Len(t) \in Nat
  BY <1>1 DEF Headers
<1>3. E # {} /\ E \subseteq Nat
  <2>1. E = {} => Place(s)[n + 1] = "in"
    BY <1>1, OpenUntilEnd
  <2> QED BY <1>2, <2>1
<1>4. e \in E /\ \A i \in E : e <= i
  <2> HIDE DEF E
  <2> QED BY <1>3, LeastNatural
<1> HIDE DEF e
<1>5. e \in (h + 1)..n /\ e \in (h + 1)..Len(s) /\ e \in (h + 1)..Len(t) /\ e \in Nat
  BY <1>1, <1>2, <1>4
<1>6. Q(s, e) /\ Q(t, e)
  <2>1. s[e] \in EofLines /\ t[e] = s[e]
    BY <1>1, <1>2, <1>4, <1>5
  <2>2. ASSUME NEW i \in (h + 1)..(e - 1) PROVE s[i] \notin EofLines /\ t[i] = s[i]
    <3>1. i \in (h + 1)..n /\ i \in 1..n /\ ~(e <= i)
      BY <1>2, <1>5
    <3> QED BY <1>1, <1>4, <3>1
  <2> QED BY <2>1, <2>2
<1>7. ASSUME NEW u, NEW c \in (h + 1)..Len(u), Q(u, c), Q(u, e) PROVE c = e
  <2>1. c \in Int /\ h + 1 <= c
    BY <1>2
  <2>2. ~(c < e)
    <3>1. c < e => c \in (h + 1)..(e - 1)
      BY <1>2, <1>5, <2>1
    <3> QED BY <1>7, <3>1
  <2>3. ~(e < c)
    <3>1. e < c => e \in (h + 1)..(c - 1)
      BY <1>2, <1>5, <2>1
    <3> QED BY <1>7, <3>1
  <2> QED BY <1>5, <2>1, <2>2, <2>3
<1>8. ASSUME NEW u \in {s, t} PROVE Body(u, h) = SubSeq(u, h + 1, e - 1)
  <2> DEFINE c == CHOOSE x \in (h + 1)..Len(u) : Q(u, x)
  <2>1. e \in (h + 1)..Len(u) /\ Q(u, e)
    BY <1>5, <1>6
  <2>2. c \in (h + 1)..Len(u) /\ Q(u, c)
    <3> HIDE DEF Q
    <3> QED BY <2>1
  <2>3. c = e
    <3> HIDE DEF c, Q
    <3> QED BY <1>7, <2>1, <2>2
  <2> QED BY <2>3 DEF Body
<1>9. SubSeq(s, h + 1, e - 1) = SubSeq(t, h + 1, e - 1)
  <2> DEFINE b == SubSeq(s, h + 1, e - 1)
             d == SubSeq(t, h + 1, e - 1)
  <2>1. h + 1 \in Int /\ e - 1 \in Int
    BY <1>2, <1>5
  <2>2. \A i \in (h + 1)..(e - 1) : i \in 1..Len(s) /\ i \in 1..Len(t) /\ s[i] = t[i]
    BY <1>1, <1>2, <1>5
  <2>3. /\ b \in Seq(Lines) /\ Len(b) = (IF h + 1 <= e - 1 THEN (e - 1) - (h + 1) + 1 ELSE 0)
        /\ \A i \in 1..((e - 1) - (h + 1) + 1) : b[i] = s[(h + 1) + i - 1]
    <3>1. \A i \in (h + 1)..(e - 1) : s[i] \in Lines
      BY <1>1, <2>2
    <3> QED BY <2>1, <3>1, SubSeqProperties
  <2>4. /\ d \in Seq(Lines) /\ Len(d) = (IF h + 1 <= e - 1 THEN (e - 1) - (h + 1) + 1 ELSE 0)
        /\ \A i \in 1..((e - 1) - (h + 1) + 1) : d[i] = t[(h + 1) + i - 1]
    <3>1. \A i \in (h + 1)..(e - 1) : t[i] \in Lines
      BY <1>1, <2>2
    <3> QED BY <2>1, <3>1, SubSeqProperties
  <2> HIDE DEF b, d
  <2>5. ASSUME NEW i \in 1..Len(b) PROVE b[i] = d[i]
    <3>1. i \in 1..((e - 1) - (h + 1) + 1) /\ (h + 1) + i - 1 \in (h + 1)..(e - 1)
      BY <1>2, <1>5, <2>3
    <3> QED BY <2>2, <2>3, <2>4, <3>1
  <2>6. b = d
    BY <2>3, <2>4, <2>5, SeqEqual
  <2> QED BY <2>6 DEF b, d
<1> HIDE DEF Q
<1> QED BY <1>8, <1>9

\* And the same objects, if none of them is open.
LEMMA SameExpected ==
    ASSUME NEW s, NEW t, NEW n, Agree(s, t, n), Place(s)[n + 1] = "top"
    PROVE  Expected(s, n) = Expected(t, n)
<1>1. n \in 0..n
  BY DEF Agree
<1>2. Headers(s, n) = Headers(t, n) /\ Headers(s, n) \subseteq 1..n
  BY <1>1, SameHeaders DEF Headers
<1>3. \A h \in Headers(s, n) : NameOf(s[h]) = NameOf(t[h])
  BY <1>2 DEF Agree
<1>4. \A m : Named(s, n, m) = Named(t, n, m)
  BY <1>2, <1>3 DEF Named
<1> DEFINE names == {NameOf(s[h]) : h \in Headers(s, n)}
<1>5. names = {NameOf(t[h]) : h \in Headers(t, n)}
  BY <1>2, <1>3
<1>6. ASSUME NEW m \in names PROVE Body(s, Max(Named(s, n, m))) = Body(t, Max(Named(t, n, m)))
  <2>1. Named(s, n, m) # {} /\ Named(s, n, m) \subseteq Headers(s, n)
    BY DEF Named
  <2>2. Max(Named(s, n, m)) \in Named(s, n, m)
    <3>1. Named(s, n, m) \subseteq 1..n /\ n \in Nat
      BY <1>2, <2>1 DEF Agree
    <3> QED BY <2>1, <3>1, GreatestUpto
  <2> QED BY <1>4, <2>1, <2>2, SameBody
<1> HIDE DEF names
<1> QED BY <1>5, <1>6 DEF Expected, names

(***************************************************************************)
(* Reading.                                                                *)
(***************************************************************************)
\* One more line.
LEMMA SubSeqGrows ==
    ASSUME NEW S, NEW s \in Seq(S), NEW a \in 1..Len(s), NEW b \in a..Len(s)
    PROVE  SubSeq(s, a, b) = Append(SubSeq(s, a, b - 1), s[b])
<1> DEFINE t == SubSeq(s, a, b - 1)
           u == SubSeq(s, a, b)
<1>1. Len(s) \in Nat /\ a \in Nat /\ b \in Nat /\ a <= b /\ b <= Len(s) /\ 1 <= a
  OBVIOUS
<1>2. t \in Seq(S) /\ Len(t) = b - a /\ \A i \in 1..(b - a) : t[i] = s[a + i - 1]
  BY <1>1
<1>3. u \in Seq(S) /\ Len(u) = b - a + 1 /\ \A i \in 1..(b - a + 1) : u[i] = s[a + i - 1]
  BY <1>1
<1>4. s[b] \in S
  BY <1>1
<1> HIDE DEF t, u
<1>5. Append(t, s[b]) \in Seq(S) /\ Len(Append(t, s[b])) = b - a + 1
  BY <1>1, <1>2, <1>4
<1>6. ASSUME NEW i \in 1..(b - a + 1) PROVE u[i] = Append(t, s[b])[i]
  <2>1. CASE i <= b - a
    BY <1>1, <1>2, <1>3, <1>4, <2>1
  <2>2. CASE i = b - a + 1
    <3>1. a + i - 1 = b
      BY <1>1, <2>2
    <3>2. u[i] = s[b]
      BY <1>3, <3>1
    <3>3. Append(t, s[b])[Len(t) + 1] = s[b]
      BY <1>2, <1>4
    <3> QED BY <1>2, <2>2, <3>2, <3>3
  <2>3. i <= b - a \/ i = b - a + 1
    BY <1>1
  <2> QED BY <2>1, <2>2, <2>3
<1> QED BY <1>3, <1>5, <1>6, SeqEqual DEF t, u

\* Appending to the second of two sequences.
LEMMA ConcatAppend ==
    ASSUME NEW S, NEW s \in Seq(S), NEW t \in Seq(S), NEW e \in S
    PROVE  s \o Append(t, e) = Append(s \o t, e)
<1>1. <<e>> \in Seq(S) /\ s \o t \in Seq(S)
  OBVIOUS
<1>2. Append(t, e) = t \o <<e>> /\ Append(s \o t, e) = (s \o t) \o <<e>>
  BY <1>1, AppendIsConcat
<1>3. Associates(s, t, <<e>>)
  BY <1>1, Associative
<1> QED BY <1>2, <1>3 DEF Associates

\* The lines handed on are those of the script up to where it is read, cut only
\* where reads have failed.
PositionKept ==
    /\ script \in Seq(Lines) /\ (\A i \in 1..Len(script) : script[i] # <<>>)
    /\ seen \in Seq(Lines) /\ next \in 1..(Len(script) + 1) /\ from \in Nat \ {0}
    /\ next <= Len(script) => from <= Len(script[next])
    /\ FlattenSeq(seen) = Consumed
    /\ ~faulted => from = 1 /\ seen = SubSeq(script, 1, next - 1)

\* The beginning of what is left of a line.
LEMMA PartOfLine ==
    ASSUME NEW c \in Lines, NEW f \in 1..Len(c), NEW e \in 1..(Len(c) - f + 1)
    PROVE  /\ SubSeq(SubSeq(c, f, Len(c)), 1, e) \in Lines
           /\ Len(SubSeq(SubSeq(c, f, Len(c)), 1, e)) = e
           /\ SubSeq(c, 1, f - 1) \o SubSeq(SubSeq(c, f, Len(c)), 1, e) = SubSeq(c, 1, f + e - 1)
           /\ e = Len(c) - f + 1 => SubSeq(SubSeq(c, f, Len(c)), 1, e) = SubSeq(c, f, Len(c))
<1> DEFINE u == SubSeq(c, f, Len(c))
           l == SubSeq(u, 1, e)
<1>1. c \in Seq(STRING) /\ Len(c) \in Nat /\ f \in Nat /\ e \in Nat
  BY DEF Lines
<1>2. u \in Seq(STRING) /\ Len(u) = Len(c) - f + 1
  BY <1>1
<1>3. l \in Seq(STRING) /\ Len(l) = e
  BY <1>1, <1>2
<1>4. l = SubSeq(c, f, f + e - 1)
  <2>1. /\ f \in 1..Len(c) /\ Len(c) \in 1..Len(c)
        /\ 1 \in 1..(Len(c) - f + 1) /\ e \in 1..(Len(c) - f + 1) /\ f + 1 - 1 = f
    BY <1>1
  <2>2. SubSeq(SubSeq(c, f, Len(c)), 1, e) = SubSeq(c, f + 1 - 1, f + e - 1)
    BY <1>1, <2>1, SubSeqOfSubSeq
  <2> QED BY <2>1, <2>2
<1>5. SubSeq(c, 1, f - 1) \o l = SubSeq(c, 1, f + e - 1)
  <2>1. /\ 1 \in 1..(Len(c) + 1) /\ f - 1 \in (1 - 1)..Len(c) /\ f + e - 1 \in (f - 1)..Len(c)
        /\ (f - 1) + 1 = f
    BY <1>1
  <2>2. SubSeq(c, 1, f - 1) \o SubSeq(c, (f - 1) + 1, f + e - 1) = SubSeq(c, 1, f + e - 1)
    BY <1>1, <2>1, ConcatAdjacentSubSeq
  <2> QED BY <1>4, <2>1, <2>2
<1>6. e = Len(c) - f + 1 => l = u
  BY <1>1, <1>2, SubSeqFull
<1> QED BY <1>2, <1>3, <1>5, <1>6 DEF Lines

\* The beginning of the lines of a script.
LEMMA FirstLines ==
    ASSUME NEW s \in Seq(Lines), NEW k \in 1..(Len(s) + 1), NEW t, t = SubSeq(s, 1, k - 1)
    PROVE  Len(t) = k - 1 /\ Agree(t, s, Len(t))
<1>1. Len(s) \in Nat /\ k \in Nat /\ 1 \in Int /\ k - 1 \in Int /\ k - 1 <= Len(s)
  OBVIOUS
<1>2. \A i \in 1..(k - 1) : s[i] \in Lines
  BY <1>1
<1>3. /\ t \in Seq(Lines) /\ Len(t) = (IF 1 <= k - 1 THEN (k - 1) - 1 + 1 ELSE 0)
      /\ \A i \in 1..((k - 1) - 1 + 1) : t[i] = s[1 + i - 1]
  BY <1>1, <1>2, SubSeqProperties
<1>4. Len(t) = k - 1
  BY <1>1, <1>3
<1>5. \A i \in 1..Len(t) : t[i] = s[i]
  <2>1. ASSUME NEW i \in 1..(k - 1) PROVE t[i] = s[i]
    <3>1. 1 + i - 1 = i /\ i \in 1..((k - 1) - 1 + 1)
      BY <1>1
    <3> QED BY <1>3, <3>1
  <2> QED BY <1>4, <2>1
<1> QED BY <1>1, <1>3, <1>4, <1>5 DEF Agree

\* What read_line hands on is a line, and the reading position moves behind it.
LEMMA ReadOne ==
    ASSUME PositionKept, NEW l \in Readable, read_line(l), Succeed(l) \/ faulted' = TRUE
    PROVE  /\ PositionKept' /\ UNCHANGED script
           /\ l \in Lines /\ Len(l) < LineCap
           /\ Len(seen') = Len(seen) + 1 /\ seen'[Len(seen) + 1] = l
           /\ Agree(seen, seen', Len(seen))
<1> DEFINE c == script[next]
           u == Unread
           front == SubSeq(script, 1, next - 1)
<1>1. /\ script \in Seq(Lines) /\ (\A i \in 1..Len(script) : script[i] # <<>>)
      /\ seen \in Seq(Lines) /\ next \in 1..(Len(script) + 1) /\ from \in Nat \ {0}
      /\ next <= Len(script) => from <= Len(c)
      /\ FlattenSeq(seen) = Consumed
      /\ ~faulted => from = 1 /\ seen = front
      /\ Len(script) \in Nat /\ Len(seen) \in Nat
  BY DEF PositionKept
<1>2. PICK e \in 1..Len(u) : l = SubSeq(u, 1, e)
  BY DEF Readable
<1>3. next <= Len(script)
  <2>1. ~(next <= Len(script)) => Len(u) = 0
    BY DEF Unread
  <2>2. Len(u) # 0
    BY <1>2
  <2> QED BY <2>1, <2>2
<1>4. next \in 1..Len(script) /\ c \in Lines /\ c \in Seq(STRING) /\ u = SubSeq(c, from, Len(c)) /\ Len(c) \in Nat
      /\ from \in 1..Len(c)
  <2>1. next \in 1..Len(script) /\ c \in Lines
    BY <1>1, <1>3
  <2>2. c \in Seq(STRING)
    BY <2>1 DEF Lines
  <2>3. u = SubSeq(c, from, Len(c))
    BY <1>3 DEF Unread
  <2> QED BY <1>1, <1>3, <2>1, <2>2, <2>3
<1>5. Len(u) = Len(c) - from + 1 /\ u \in Lines
  <2> HIDE DEF c, u
  <2>1. u \in Seq(STRING) /\ Len(u) = Len(c) - from + 1
    BY <1>4
  <2> QED BY <2>1 DEF Lines
<1>6. /\ l \in Lines /\ Len(l) = e /\ e \in Nat \ {0} /\ e <= Len(c) - from + 1
      /\ SubSeq(c, 1, from - 1) \o l = SubSeq(c, 1, from + e - 1)
      /\ e = Len(c) - from + 1 => l = u
  <2>1. e \in 1..(Len(c) - from + 1)
    BY <1>2, <1>5
  <2>2. e \in Nat \ {0} /\ e <= Len(c) - from + 1
    BY <1>4, <2>1
  <2> HIDE DEF c, u
  <2>3. u = SubSeq(c, from, Len(c)) /\ l = SubSeq(SubSeq(c, from, Len(c)), 1, e)
        /\ c \in Lines /\ from \in 1..Len(c)
    BY <1>2, <1>4
  <2>4. /\ l \in Lines /\ Len(l) = e
        /\ SubSeq(c, 1, from - 1) \o l = SubSeq(c, 1, from + e - 1)
        /\ e = Len(c) - from + 1 => l = u
    BY <2>1, <2>3, PartOfLine
  <2> QED BY <2>2, <2>4
<1>7. Len(l) < LineCap /\ seen' = Append(seen, l) /\ UNCHANGED script
  BY DEF Readable, read_line
<1>8. /\ seen' \in Seq(Lines) /\ Len(seen') = Len(seen) + 1 /\ seen'[Len(seen) + 1] = l
      /\ Agree(seen, seen', Len(seen))
  <2>1. /\ seen' \in Seq(Lines) /\ Len(seen') = Len(seen) + 1 /\ seen'[Len(seen) + 1] = l
        /\ \A i \in 1..Len(seen) : seen[i] = seen'[i]
    BY <1>1, <1>6, <1>7
  <2> QED BY <1>1, <2>1 DEF Agree
<1> DEFINE F == FlattenSeq(front)
           begun == SubSeq(c, 1, from - 1)
<1>9. front \in Seq(Lines) /\ F \in Seq(STRING) /\ begun \in Seq(STRING)
  <2>1. front \in Seq(Lines)
    BY <1>1, <1>4
  <2>2. F \in Seq(STRING)
    BY <2>1, FlattenType DEF Lines
  <2>3. begun \in Seq(STRING)
    BY <1>4
  <2> QED BY <2>1, <2>2, <2>3
<1>10. FlattenSeq(seen) = F \o begun
  BY <1>1, <1>3 DEF Consumed
<1>11. FlattenSeq(seen') = F \o SubSeq(c, 1, from + e - 1)
  <2>1. FlattenSeq(Append(seen, l)) = FlattenSeq(seen) \o l
    BY <1>1, <1>6, FlattenAppend DEF Lines
  <2>2. Associates(F, begun, l)
    BY <1>6, <1>9, Associative DEF Lines
  <2>3. begun \o l = SubSeq(c, 1, from + e - 1)
    BY <1>6
  <2> HIDE DEF F, begun
  <2> QED BY <1>7, <1>10, <2>1, <2>2, <2>3 DEF Associates
<1>12. CASE l = u
  <2>1. next' = next + 1 /\ from' = 1
    BY <1>12 DEF read_line
  <2>2. next' \in 1..(Len(script) + 1) /\ next' - 1 = next
    BY <1>1, <1>4, <2>1
  <2>3. e = Len(c) - from + 1
    BY <1>5, <1>6, <1>12
  <2>4. SubSeq(c, 1, from + e - 1) = c
    <3>1. from + e - 1 = Len(c)
      BY <1>4, <2>3
    <3> QED BY <1>4, <3>1, SubSeqFull
  <2>5. SubSeq(script, 1, next) = Append(front, c)
    <3>1. 1 \in 1..Len(script) /\ next \in 1..Len(script)
      BY <1>4
    <3> QED BY <1>1, <3>1, SubSeqGrows
  <2>6. FlattenSeq(SubSeq(script, 1, next)) = F \o c
    BY <1>4, <1>9, <2>5, FlattenAppend DEF Lines
  <2>7. Consumed' = F \o c
    <3>1. Consumed' = FlattenSeq(SubSeq(script, 1, next))
                        \o (IF next' <= Len(script) THEN SubSeq(script[next'], 1, 0) ELSE <<>>)
      BY <1>7, <2>1, <2>2 DEF Consumed
    <3>2. SubSeq(script[next'], 1, 0) = <<>>
      BY SubSeqEmpty
    <3>3. F \o c \in Seq(STRING)
      BY <1>4, <1>9
    <3>4. (F \o c) \o <<>> = F \o c
      BY <3>3
    <3> QED BY <2>6, <3>1, <3>2, <3>4
  <2>8. next' <= Len(script) => from' <= Len(script[next'])
    <3>1. ASSUME next' <= Len(script) PROVE 1 <= Len(script[next'])
      <4>1. script[next'] \in Seq(STRING) /\ script[next'] # <<>>
        BY <1>1, <2>2, <3>1 DEF Lines
      <4> QED BY <4>1
    <3> QED BY <2>1, <3>1
  <2>9. ASSUME ~faulted' PROVE seen' = SubSeq(script, 1, next)
    <3>1. ~faulted
      BY <2>9 DEF Succeed
    <3>2. from = 1 /\ seen = front
      BY <1>1, <3>1
    <3>3. l = c
      BY <1>4, <1>12, <3>2, SubSeqFull
    <3> QED BY <1>7, <2>5, <3>2, <3>3
  <2>10. FlattenSeq(seen') = Consumed'
    BY <1>11, <2>4, <2>7
  <2> QED BY <1>1, <1>6, <1>7, <1>8, <2>1, <2>2, <2>8, <2>9, <2>10 DEF PositionKept
<1>13. CASE l # u
  <2>1. next' = next /\ from' = from + e
    BY <1>6, <1>13 DEF read_line
  <2>2. faulted' = TRUE
    BY <1>13 DEF Succeed
  <2>3. from' <= Len(c) /\ from' \in Nat \ {0} /\ from' - 1 = from + e - 1
    <3>1. e # Len(c) - from + 1
      BY <1>6, <1>13
    <3>2. from \in Nat \ {0} /\ e \in Nat \ {0} /\ Len(c) \in Nat /\ e <= Len(c) - from + 1
      BY <1>1, <1>4, <1>6
    <3> HIDE DEF c
    <3> QED BY <2>1, <3>1, <3>2
  <2>4. Consumed' = F \o SubSeq(c, 1, from + e - 1)
    BY <1>3, <1>7, <2>1, <2>3 DEF Consumed
  <2> QED BY <1>1, <1>6, <1>7, <1>8, <1>11, <2>1, <2>2, <2>3, <2>4 DEF PositionKept
<1> QED BY <1>12, <1>13

(***************************************************************************)
(* The invariant.                                                          *)
(***************************************************************************)
\* The first n of the lines s fit the buffers, and so do their paths.
Fits(s, n) ==
    /\ \A i \in 1..n : Len(s[i]) < LineCap
    /\ \A h \in Headers(s, n) : DirLen + Len(NameOf(s[h])) + 2 < PathCap

\* After n lines of s no object is open, and the files are those of the lines.
Between(s, n) ==
    /\ Place(s)[n + 1] = "top"
    /\ objects = Expected(s, n)
    /\ wrote_any <=> Headers(s, n) # {}

\* After n lines of s the object that starts at line h is open: the lines below
\* it are in its file or kept by stdio, and the other files are those of the
\* lines above it.
Open(s, n, h) ==
    /\ Place(s)[h] = "top" /\ GoodHeader(s[h])
    /\ \A i \in (h + 1)..(n + 1) : Place(s)[i] = "in"
    /\ \A i \in (h + 1)..n : s[i] \notin EofLines
    /\ name = NameOf(s[h])
    /\ DOMAIN objects = DOMAIN Expected(s, h - 1) \cup {name}
    /\ \A m \in DOMAIN Expected(s, h - 1) : m # name => objects[m] = Expected(s, h - 1)[m]
    /\ objects[name] \in Seq(Lines) /\ kept \in Seq(Lines)
    /\ objects[name] \o kept = SubSeq(s, h + 1, n)

ScriptInv ==
    /\ PositionKept
    /\ stage = "clean" => seen = <<>> /\ ~wrote_any
    /\ stage \in {"top", "payload"} => Fits(seen, Len(seen))
    /\ stage = "top" => Between(seen, Len(seen))
    /\ stage = "payload" => \E h \in 1..Len(seen) : Open(seen, Len(seen), h)
    /\ ScriptFollowed

\* What has been read of s does not change with the rest of it.
LEMMA Carried ==
    ASSUME NEW s, NEW t, NEW n, Agree(s, t, n)
    PROVE  /\ Fits(s, n) => Fits(t, n)
           /\ Between(s, n) => Between(t, n)
           /\ \A h \in 1..n : Open(s, n, h) => Open(t, n, h)
<1>1. /\ s \in Seq(Lines) /\ t \in Seq(Lines) /\ n \in Nat /\ n <= Len(s) /\ n <= Len(t)
      /\ \A i \in 1..n : s[i] = t[i]
  BY DEF Agree
<1>2. Headers(s, n) = Headers(t, n) /\ Headers(s, n) \subseteq 1..n
  BY <1>1, SameHeaders DEF Headers
<1>3. Fits(s, n) => Fits(t, n)
  BY <1>1, <1>2 DEF Fits
<1>4. Between(s, n) => Between(t, n)
  <2>1. ASSUME Between(s, n) PROVE Between(t, n)
    <3>1. Expected(s, n) = Expected(t, n)
      BY <2>1, SameExpected DEF Between
    <3>2. Place(s)[n + 1] = Place(t)[n + 1]
      BY <1>1, SamePlaces
    <3> QED BY <1>2, <2>1, <3>1, <3>2 DEF Between
  <2> QED BY <2>1
<1>5. ASSUME NEW h \in 1..n, Open(s, n, h) PROVE Open(t, n, h)
  <2>1. h \in 1..(n + 1) /\ (h + 1)..(n + 1) \subseteq 1..(n + 1) /\ (h + 1)..n \subseteq 1..n
        /\ (h - 1) + 1 = h /\ h - 1 \in Nat /\ h - 1 <= n
    BY <1>1
  <2>2. \A i \in 1..(n + 1) : Place(s)[i] = Place(t)[i]
    BY SamePlaces
  <2>3. Agree(s, t, h - 1)
    <3>1. n \in Nat /\ Len(s) \in Nat /\ Len(t) \in Nat /\ n <= Len(s) /\ n <= Len(t)
      BY <1>1
    <3>2. h - 1 <= Len(s) /\ h - 1 <= Len(t) /\ 1..(h - 1) \subseteq 1..n
      BY <2>1, <3>1
    <3> QED BY <1>1, <2>1, <3>2 DEF Agree
  <2>4. Expected(s, h - 1) = Expected(t, h - 1)
    BY <1>5, <2>1, <2>3, SameExpected DEF Open
  <2>5. SubSeq(s, h + 1, n) = SubSeq(t, h + 1, n)
    <3> DEFINE b == SubSeq(s, h + 1, n)
               d == SubSeq(t, h + 1, n)
    <3>1. h + 1 \in Int /\ n \in Int
      BY <1>1
    <3>2. \A i \in (h + 1)..n : s[i] \in Lines /\ t[i] = s[i]
      BY <1>1, <2>1
    <3>3. /\ b \in Seq(Lines) /\ Len(b) = (IF h + 1 <= n THEN n - (h + 1) + 1 ELSE 0)
          /\ \A i \in 1..(n - (h + 1) + 1) : b[i] = s[(h + 1) + i - 1]
      BY <3>1, <3>2, SubSeqProperties
    <3>4. /\ d \in Seq(Lines) /\ Len(d) = (IF h + 1 <= n THEN n - (h + 1) + 1 ELSE 0)
          /\ \A i \in 1..(n - (h + 1) + 1) : d[i] = t[(h + 1) + i - 1]
      <4>1. \A i \in (h + 1)..n : t[i] \in Lines
        BY <3>2
      <4> QED BY <3>1, <4>1, SubSeqProperties
    <3> HIDE DEF b, d
    <3>5. ASSUME NEW i \in 1..Len(b) PROVE b[i] = d[i]
      <4>1. i \in 1..(n - (h + 1) + 1) /\ (h + 1) + i - 1 \in (h + 1)..n
        BY <1>1, <3>3
      <4> QED BY <3>2, <3>3, <3>4, <4>1
    <3>6. b = d
      BY <3>3, <3>4, <3>5, SeqEqual
    <3> QED BY <3>6 DEF b, d
  <2>6. s[h] = t[h]
    BY <1>1
  <2>7. \A i \in (h + 1)..(n + 1) : Place(t)[i] = "in"
    BY <1>5, <2>1, <2>2 DEF Open
  <2>8. \A i \in (h + 1)..n : t[i] \notin EofLines
    BY <1>1, <1>5, <2>1 DEF Open
  <2>9. Place(t)[h] = "top"
    BY <1>5, <2>1, <2>2 DEF Open
  <2> QED BY <1>5, <2>4, <2>5, <2>6, <2>7, <2>8, <2>9 DEF Open
<1> QED BY <1>3, <1>4, <1>5

(***************************************************************************)
(* Refusals.                                                               *)
(***************************************************************************)
\* A script of which the first n lines are those of s is not acceptable when
\* one of them stands where it may not, or the path of an object does not fit.
LEMMA Refused ==
    ASSUME NEW s, NEW t, NEW n, Agree(s, t, n),
           \/ Place(s)[n + 1] = "wrong"
           \/ \E h \in Headers(s, n) : ~(DirLen + Len(NameOf(s[h])) + 2 < PathCap)
    PROVE  ~Acceptable(t)
<1>1. t \in Seq(Lines) /\ n \in Nat /\ n + 1 \in 1..(n + 1) /\ n + 1 \in 1..(Len(t) + 1) /\ Len(t) \in Nat
      /\ 1..n \subseteq 1..Len(t) /\ n \in 0..n
  BY DEF Agree
<1>2. CASE Place(s)[n + 1] = "wrong"
  <2>1. Place(t)[n + 1] = "wrong"
    BY <1>1, <1>2, SamePlaces
  <2>2. Place(t)[Len(t) + 1] = "wrong"
    BY <1>1, <2>1, WrongStays
  <2> QED BY <2>2 DEF Acceptable
<1>3. ASSUME NEW h \in Headers(s, n), ~(DirLen + Len(NameOf(s[h])) + 2 < PathCap)
      PROVE  ~Acceptable(t)
  <2>1. h \in Headers(t, n) /\ h \in 1..n
    BY <1>1, <1>3, SameHeaders DEF Headers
  <2>2. h \in Headers(t, Len(t)) /\ s[h] = t[h]
    BY <1>1, <2>1 DEF Headers, Agree
  <2> QED BY <1>3, <2>2 DEF Acceptable
<1> QED BY <1>2, <1>3

\* A program that ends without success: something has failed, or the script is
\* not acceptable.
LEMMA FailedStep ==
    ASSUME PositionKept', stage' = "failed", faulted' \/ ~Acceptable(script')
    PROVE  ScriptInv'
BY DEF ScriptInv, ScriptFollowed, ObjectsExact, RefusedForReason

\* A new object script.
LEMMA ScriptStart ==
    /\ \A s \in Scripts : s \in Seq(Lines) /\ \A i \in 1..Len(s) : s[i] # <<>>
    /\ FlattenSeq(<<>>) = <<>> /\ \A s \in Seq(Lines) : SubSeq(s, 1, 0) = <<>>
<1>1. \A s \in Scripts : s \in Seq(Lines) /\ \A i \in 1..Len(s) : s[i] # <<>>
  BY ObjectScriptAssumption DEF IsScript, Lines
<1>2. FlattenSeq(<<>>) = <<>>
  <2>1. <<>> \in Seq(Seq(STRING)) /\ \A i \in 1..Len(<<>>) : <<>>[i] = <<>>
    OBVIOUS
  <2> QED BY <2>1, FlattenNone
<1>3. ASSUME NEW s \in Seq(Lines) PROVE SubSeq(s, 1, 0) = <<>>
  BY SubSeqEmpty
<1> QED BY <1>1, <1>2, <1>3

\* Nothing of a script is read at first.
LEMMA NothingRead ==
    ASSUME NEW s \in Scripts, script' = s, next' = 1, from' = 1, seen' = <<>>
    PROVE  PositionKept'
<1>1. /\ s \in Seq(Lines) /\ (\A i \in 1..Len(s) : s[i] # <<>>) /\ Len(s) \in Nat
      /\ FlattenSeq(<<>>) = <<>> /\ SubSeq(s, 1, 0) = <<>>
  BY ScriptStart
<1>2. 1 <= Len(s) => 1 <= Len(s[1])
  <2>1. ASSUME 1 <= Len(s) PROVE 1 <= Len(s[1])
    <3>1. s[1] \in Seq(STRING) /\ s[1] # <<>>
      BY <1>1, <2>1 DEF Lines
    <3> QED BY <3>1
  <2> QED BY <2>1
<1>3. Consumed' = <<>>
  <2>1. SubSeq(s[1], 1, 0) = <<>> /\ 1 - 1 = 0 /\ <<>> \o <<>> = <<>>
    BY SubSeqEmpty
  <2> QED BY <1>1, <2>1 DEF Consumed
<1>4. <<>> \in Seq(Lines) /\ 1 \in 1..(Len(s) + 1) /\ 1 - 1 = 0 /\ 1 \in Nat \ {0}
  BY <1>1
<1> QED BY <1>1, <1>2, <1>3, <1>4 DEF PositionKept

\* While nothing fails, the lines handed on are the first of the script.
LEMMA LinesOfScript ==
    ASSUME PositionKept', ~faulted'
    PROVE  Agree(seen', script', Len(seen')) /\ Len(seen') = next' - 1
<1>1. script' \in Seq(Lines) /\ next' \in 1..(Len(script') + 1) /\ seen' = SubSeq(script', 1, next' - 1)
  BY DEF PositionKept
<1> QED BY <1>1, FirstLines

\* One more line has been handed on.
LEMMA OneMoreLine ==
    ASSUME ScriptInv, stage \in {"top", "payload"}, NEW l \in Readable, read_line(l),
           Succeed(l) \/ faulted' = TRUE
    PROVE  /\ PositionKept' /\ UNCHANGED script
           /\ l \in Lines /\ Len(l) < LineCap /\ Len(seen) \in Nat
           /\ \E s \in Seq(Lines) :
                  /\ s = seen' /\ Len(s) = Len(seen) + 1 /\ s[Len(seen) + 1] = l
                  /\ Place(s)[Len(seen) + 2] = After(Place(s)[Len(seen) + 1], l)
                  /\ Fits(s, Len(seen))
                  /\ stage = "top" => Between(s, Len(seen))
                  /\ stage = "payload" => \E h \in 1..Len(seen) : Open(s, Len(seen), h)
                  /\ Headers(s, Len(seen) + 1) =
                         Headers(s, Len(seen))
                           \cup IF Place(s)[Len(seen) + 1] = "top" /\ GoodHeader(l) THEN {Len(seen) + 1} ELSE {}
<1> DEFINE n == Len(seen)
<1>1. /\ PositionKept' /\ UNCHANGED script /\ l \in Lines /\ Len(l) < LineCap
      /\ Len(seen') = n + 1 /\ seen'[n + 1] = l /\ Agree(seen, seen', n)
  BY ReadOne DEF ScriptInv
<1>2. n \in Nat
  BY DEF ScriptInv, PositionKept
<1>3. PICK s \in Seq(Lines) : s = seen'
  BY <1>1 DEF Agree
<1>4. Len(s) = n + 1 /\ s[n + 1] = l /\ Agree(seen, s, n) /\ n + 1 \in 1..Len(s) /\ (n + 1) - 1 = n
      /\ (n + 1) + 1 = n + 2
  BY <1>1, <1>2, <1>3
<1>5. Place(s)[n + 2] = After(Place(s)[n + 1], l)
  BY <1>4, PlaceIs
<1>6. Fits(s, n)
  BY <1>4, Carried DEF ScriptInv
<1>7. stage = "top" => Between(s, n)
  BY <1>4, Carried DEF ScriptInv
<1>8. stage = "payload" => \E h \in 1..n : Open(s, n, h)
  BY <1>4, Carried DEF ScriptInv
<1>9. Headers(s, n + 1) = Headers(s, n) \cup IF Place(s)[n + 1] = "top" /\ GoodHeader(l) THEN {n + 1} ELSE {}
  BY <1>4, HeadersNext
<1> QED BY <1>1, <1>2, <1>3, <1>4, <1>5, <1>6, <1>7, <1>8, <1>9

\* A line at the top.
LEMMA TopLineStep == ASSUME ScriptInv, TopLine PROVE ScriptInv'
<1>0. PICK n \in Nat : n = Len(seen)
  BY DEF ScriptInv, PositionKept
<1>1. PICK l \in Readable :
          /\ stage = "top" /\ read_line(l) /\ UNCHANGED wrote_any
          /\ \/ Blank(l) /\ Succeed(l) /\ UNCHANGED <<stage, name, kept, objects>>
             \/ /\ ~Blank(l) /\ ~(GoodHeader(l) /\ PathFits(NameOf(l)))
                /\ stage' = "failed" /\ Succeed(l) /\ UNCHANGED <<name, kept, objects>>
             \/ /\ GoodHeader(l) /\ PathFits(NameOf(l)) /\ name' = NameOf(l)
                /\ \/ Fail
                   \/ stage' = "payload" /\ objects' = PutObject(name', <<>>) /\ kept' = <<>> /\ Succeed(l)
  BY DEF TopLine
<1>2. Succeed(l) \/ faulted' = TRUE
  BY <1>1 DEF Fail
<1>3. /\ PositionKept' /\ UNCHANGED script /\ l \in Lines /\ Len(l) < LineCap /\ n \in Nat
      /\ \E s \in Seq(Lines) :
             /\ s = seen' /\ Len(s) = n + 1 /\ s[n + 1] = l
             /\ Place(s)[n + 2] = After(Place(s)[n + 1], l)
             /\ Fits(s, n) /\ Between(s, n)
             /\ Headers(s, n + 1) =
                    Headers(s, n) \cup IF Place(s)[n + 1] = "top" /\ GoodHeader(l) THEN {n + 1} ELSE {}
  BY <1>0, <1>1, <1>2, OneMoreLine
<1>4. PICK s \in Seq(Lines) :
          /\ s = seen' /\ Len(s) = n + 1 /\ s[n + 1] = l
          /\ Place(s)[n + 2] = After(Place(s)[n + 1], l)
          /\ Fits(s, n) /\ Between(s, n)
          /\ Headers(s, n + 1) =
                 Headers(s, n) \cup IF Place(s)[n + 1] = "top" /\ GoodHeader(l) THEN {n + 1} ELSE {}
  BY <1>3
<1>5. Place(s)[n + 1] = "top" /\ Place(s)[n + 2] = After("top", l)
  BY <1>4 DEF Between
<1>6. 1..(n + 1) = 1..n \cup {n + 1} /\ (n + 1) + 1 = n + 2
  BY <1>3
<1>7. CASE Blank(l) /\ Succeed(l) /\ UNCHANGED <<stage, name, kept, objects>>
  <2>1. ~GoodHeader(l)
    BY <1>7, HeaderNotBlank
  <2>2. Headers(s, n + 1) = Headers(s, n)
    BY <1>4, <2>1
  <2>3. Place(s)[n + 2] = "top"
    BY <1>5, <1>7 DEF After
  <2>4. Expected(s, n + 1) = Expected(s, n)
    BY <2>2, ExpectedSame
  <2>5. Between(s, n + 1)'
    BY <1>1, <1>4, <1>6, <1>7, <2>2, <2>3, <2>4 DEF Between
  <2>6. Fits(s, n + 1)
    BY <1>3, <1>4, <1>6, <2>2 DEF Fits
  <2> QED BY <1>1, <1>3, <1>4, <1>7, <2>5, <2>6
          DEF ScriptInv, ScriptFollowed, ObjectsExact, RefusedForReason
<1>8. CASE ~Blank(l) /\ ~(GoodHeader(l) /\ PathFits(NameOf(l))) /\ stage' = "failed"
  <2>1. ASSUME ~faulted' PROVE ~Acceptable(script')
    <3>1. Agree(s, script', n + 1)
      BY <1>3, <1>4, <2>1, LinesOfScript
    <3>2. CASE ~GoodHeader(l)
      <4>1. Place(s)[(n + 1) + 1] = "wrong"
        BY <1>5, <1>6, <1>8, <3>2 DEF After
      <4> QED BY <3>1, <4>1, Refused
    <3>3. CASE GoodHeader(l)
      <4>1. n + 1 \in Headers(s, n + 1) /\ s[n + 1] = l
        BY <1>4, <1>5, <3>3
      <4>2. ~(DirLen + Len(NameOf(s[n + 1])) + 2 < PathCap)
        BY <1>8, <3>3, <4>1 DEF PathFits
      <4> QED BY <3>1, <4>1, <4>2, Refused
    <3> QED BY <3>2, <3>3
  <2> QED BY <1>3, <1>8, <2>1, FailedStep
<1>9. CASE Fail
  BY <1>3, <1>9, FailedStep DEF Fail
<1>10. CASE /\ GoodHeader(l) /\ PathFits(NameOf(l)) /\ name' = NameOf(l)
            /\ stage' = "payload" /\ objects' = PutObject(name', <<>>) /\ kept' = <<>>
  <2>1. Place(s)[n + 2] = "in"
    BY <1>5, <1>10, HeaderNotBlank DEF After
  <2>2. /\ \A i \in ((n + 1) + 1)..((n + 1) + 1) : Place(s)[i] = "in"
        /\ \A i \in ((n + 1) + 1)..(n + 1) : s[i] \notin EofLines
        /\ (n + 1) - 1 = n
    BY <1>3, <2>1
  <2>3. objects' = [m \in DOMAIN objects \cup {name'} |-> IF m = name' THEN <<>> ELSE objects[m]]
    BY <1>10 DEF PutObject
  <2>4. objects = Expected(s, n)
    BY <1>4 DEF Between
  <2>5. /\ DOMAIN objects' = DOMAIN Expected(s, n) \cup {name'}
        /\ \A m \in DOMAIN Expected(s, n) : m # name' => objects'[m] = Expected(s, n)[m]
        /\ objects'[name'] = <<>>
    BY <2>3, <2>4
  <2>6. <<>> \o <<>> = SubSeq(s, (n + 1) + 1, n + 1) /\ <<>> \in Seq(Lines)
    <3>1. SubSeq(s, (n + 1) + 1, n + 1) = <<>>
      BY <1>3, SubSeqEmpty
    <3>2. <<>> \o <<>> = <<>> /\ <<>> \in Seq(Lines)
      OBVIOUS
    <3> QED BY <3>1, <3>2
  <2>7. Open(s, n + 1, n + 1)'
    BY <1>4, <1>5, <1>10, <2>2, <2>5, <2>6 DEF Open
  <2>8. Fits(s, n + 1)
    <3>1. \A i \in 1..(n + 1) : Len(s[i]) < LineCap
      BY <1>3, <1>4, <1>6 DEF Fits
    <3>2. \A h \in Headers(s, n + 1) : h \in Headers(s, n) \/ h = n + 1
      BY <1>4
    <3>3. DirLen + Len(NameOf(s[n + 1])) + 2 < PathCap
      BY <1>4, <1>10 DEF PathFits
    <3> QED BY <1>4, <3>1, <3>2, <3>3 DEF Fits
  <2>9. n + 1 \in 1..(n + 1)
    BY <1>3
  <2>10. (\E h \in 1..Len(seen) : Open(seen, Len(seen), h))'
    BY <1>4, <2>7, <2>9
  <2> QED BY <1>3, <1>4, <1>10, <2>8, <2>10
          DEF ScriptInv, ScriptFollowed, ObjectsExact, RefusedForReason
<1> QED BY <1>1, <1>7, <1>8, <1>9, <1>10

\* A line of an object.
LEMMA PayloadLineStep == ASSUME ScriptInv, PayloadLine PROVE ScriptInv'
<1>0. PICK n \in Nat : n = Len(seen)
  BY DEF ScriptInv, PositionKept
<1>1. PICK l \in Readable :
          /\ stage = "payload" /\ l \notin EofLines /\ read_line(l) /\ UNCHANGED name
          /\ \/ Fail
             \/ /\ UNCHANGED stage /\ Succeed(l)
                /\ \/ kept' = Append(kept, l) /\ UNCHANGED objects
                   \/ kept' = <<>> /\ objects' = PutObject(name, objects[name] \o Append(kept, l))
  BY DEF PayloadLine, is_eof_line
<1>2. Succeed(l) \/ faulted' = TRUE
  BY <1>1 DEF Fail
<1>3. /\ PositionKept' /\ UNCHANGED script /\ l \in Lines /\ Len(l) < LineCap
      /\ \E s \in Seq(Lines) :
             /\ s = seen' /\ Len(s) = n + 1 /\ s[n + 1] = l
             /\ Place(s)[n + 2] = After(Place(s)[n + 1], l)
             /\ Fits(s, n) /\ \E h \in 1..n : Open(s, n, h)
             /\ Headers(s, n + 1) =
                    Headers(s, n) \cup IF Place(s)[n + 1] = "top" /\ GoodHeader(l) THEN {n + 1} ELSE {}
  BY <1>0, <1>1, <1>2, OneMoreLine
<1>4. PICK s \in Seq(Lines) :
          /\ s = seen' /\ Len(s) = n + 1 /\ s[n + 1] = l
          /\ Place(s)[n + 2] = After(Place(s)[n + 1], l)
          /\ Fits(s, n) /\ \E h \in 1..n : Open(s, n, h)
          /\ Headers(s, n + 1) =
                 Headers(s, n) \cup IF Place(s)[n + 1] = "top" /\ GoodHeader(l) THEN {n + 1} ELSE {}
  BY <1>3
<1>5. PICK h \in 1..n : Open(s, n, h)
  BY <1>4
<1>6. /\ 1..(n + 1) = 1..n \cup {n + 1} /\ (n + 1) + 1 = n + 2 /\ h \in 1..(n + 1) /\ (n + 1) - 1 = n
      /\ (h + 1)..(n + 2) = (h + 1)..(n + 1) \cup {n + 2} /\ (h + 1)..(n + 1) = (h + 1)..n \cup {n + 1}
      /\ n + 1 \in (h + 1)..(n + 1) /\ h + 1 \in 1..Len(s) /\ n + 1 \in (h + 1)..Len(s)
  BY <1>4
<1>7. Place(s)[n + 1] = "in" /\ Place(s)[n + 2] = "in"
  <2>1. Place(s)[n + 1] = "in"
    BY <1>5, <1>6 DEF Open
  <2> QED BY <1>1, <1>4, <2>1 DEF After
<1>8. CASE Fail
  BY <1>3, <1>8, FailedStep DEF Fail
<1>9. /\ objects[name] \in Seq(Lines) /\ kept \in Seq(Lines) /\ Append(kept, l) \in Seq(Lines)
      /\ objects[name] \o Append(kept, l) \in Seq(Lines) /\ <<>> \in Seq(Lines)
      /\ objects[name] \o Append(kept, l) = SubSeq(s, h + 1, n + 1)
      /\ (objects[name] \o Append(kept, l)) \o <<>> = objects[name] \o Append(kept, l)
  <2>1. objects[name] \in Seq(Lines) /\ kept \in Seq(Lines) /\ objects[name] \o kept = SubSeq(s, h + 1, n)
    BY <1>5 DEF Open
  <2>2. objects[name] \o Append(kept, l) = Append(objects[name] \o kept, l)
    <3> DEFINE o == objects[name]
    <3>1. o \in Seq(Lines) /\ kept \in Seq(Lines) /\ l \in Lines
      BY <1>3, <2>1
    <3> HIDE DEF o
    <3>2. o \o Append(kept, l) = Append(o \o kept, l)
      BY <3>1, ConcatAppend
    <3> QED BY <3>2 DEF o
  <2>3. SubSeq(s, h + 1, n + 1) = Append(SubSeq(s, h + 1, n), l)
    BY <1>4, <1>6, SubSeqGrows
  <2>4. Append(kept, l) \in Seq(Lines) /\ <<>> \in Seq(Lines)
    BY <1>3, <2>1
  <2>5. objects[name] \o Append(kept, l) \in Seq(Lines)
    BY <2>1, <2>4
  <2>6. (objects[name] \o Append(kept, l)) \o <<>> = objects[name] \o Append(kept, l)
    BY <2>5
  <2> QED BY <2>1, <2>2, <2>3, <2>4, <2>5, <2>6
<1>10. Fits(s, n + 1)
  <2>1. Headers(s, n + 1) = Headers(s, n)
    BY <1>4, <1>7
  <2> QED BY <1>3, <1>4, <1>6, <2>1 DEF Fits
<1>11. ASSUME /\ objects'[name] \in Seq(Lines) /\ kept' \in Seq(Lines)
              /\ objects'[name] \o kept' = objects[name] \o Append(kept, l)
              /\ DOMAIN objects' = DOMAIN objects \cup {name}
              /\ \A m \in DOMAIN objects : m # name => objects'[m] = objects[m]
       PROVE  Open(s, n + 1, h)'
  <2>1. \A i \in (h + 1)..(n + 2) : Place(s)[i] = "in"
    BY <1>5, <1>6, <1>7 DEF Open
  <2>2. \A i \in (h + 1)..(n + 1) : s[i] \notin EofLines
    BY <1>1, <1>4, <1>5, <1>6 DEF Open
  <2>3. /\ DOMAIN objects' = DOMAIN Expected(s, h - 1) \cup {name}
        /\ \A m \in DOMAIN Expected(s, h - 1) : m # name => objects'[m] = Expected(s, h - 1)[m]
    BY <1>5, <1>11 DEF Open
  <2>4. objects'[name] \o kept' = SubSeq(s, h + 1, n + 1)
    BY <1>9, <1>11
  <2>5. name' = name /\ (n + 1) + 1 = n + 2
    BY <1>1, <1>6
  <2> QED BY <1>5, <1>11, <2>1, <2>2, <2>3, <2>4, <2>5 DEF Open
<1>12. ASSUME Open(s, n + 1, h)', UNCHANGED stage PROVE ScriptInv'
  <2>1. (\E g \in 1..Len(seen) : Open(seen, Len(seen), g))'
    BY <1>4, <1>6, <1>12
  <2> QED BY <1>1, <1>3, <1>4, <1>10, <1>12, <2>1
          DEF ScriptInv, ScriptFollowed, ObjectsExact, RefusedForReason
<1>13. CASE UNCHANGED stage /\ kept' = Append(kept, l) /\ UNCHANGED objects
  <2>1. name \in DOMAIN objects
    BY <1>5 DEF Open
  <2> QED BY <1>9, <1>11, <1>12, <1>13, <2>1
<1>14. CASE UNCHANGED stage /\ kept' = <<>> /\ objects' = PutObject(name, objects[name] \o Append(kept, l))
  <2>1. /\ objects'[name] = objects[name] \o Append(kept, l)
        /\ DOMAIN objects' = DOMAIN objects \cup {name}
        /\ \A m \in DOMAIN objects : m # name => objects'[m] = objects[m]
    BY <1>14 DEF PutObject
  <2> QED BY <1>9, <1>11, <1>12, <1>14, <2>1
<1> QED BY <1>1, <1>8, <1>13, <1>14

\* The end of an object.
LEMMA PayloadEndStep == ASSUME ScriptInv, PayloadEnd PROVE ScriptInv'
<1>0. PICK n \in Nat : n = Len(seen)
  BY DEF ScriptInv, PositionKept
<1>1. PICK l \in Readable :
          /\ stage = "payload" /\ l \in EofLines /\ read_line(l)
          /\ \/ Fail
             \/ /\ stage' = "top" /\ wrote_any' = TRUE /\ Succeed(l)
                /\ objects' = PutObject(name, objects[name] \o kept)
  BY DEF PayloadEnd, is_eof_line
<1>2. Succeed(l) \/ faulted' = TRUE
  BY <1>1 DEF Fail
<1>3. /\ PositionKept' /\ UNCHANGED script /\ Len(l) < LineCap
      /\ \E s \in Seq(Lines) :
             /\ s = seen' /\ Len(s) = n + 1 /\ s[n + 1] = l
             /\ Place(s)[n + 2] = After(Place(s)[n + 1], l)
             /\ Fits(s, n) /\ \E h \in 1..n : Open(s, n, h)
             /\ Headers(s, n + 1) =
                    Headers(s, n) \cup IF Place(s)[n + 1] = "top" /\ GoodHeader(l) THEN {n + 1} ELSE {}
  BY <1>0, <1>1, <1>2, OneMoreLine
<1>4. PICK s \in Seq(Lines) :
          /\ s = seen' /\ Len(s) = n + 1 /\ s[n + 1] = l
          /\ Place(s)[n + 2] = After(Place(s)[n + 1], l)
          /\ Fits(s, n) /\ \E h \in 1..n : Open(s, n, h)
          /\ Headers(s, n + 1) =
                 Headers(s, n) \cup IF Place(s)[n + 1] = "top" /\ GoodHeader(l) THEN {n + 1} ELSE {}
  BY <1>3
<1>5. PICK h \in 1..n : Open(s, n, h)
  BY <1>4
<1>6. /\ 1..(n + 1) = 1..n \cup {n + 1} /\ (n + 1) + 1 = n + 2 /\ (n + 1) - 1 = n
      /\ h \in 1..Len(s) /\ n + 1 \in (h + 1)..Len(s) /\ n + 1 \in h..Len(s) /\ n + 1 \in (h + 1)..(n + 1)
  BY <1>4
<1>7. Place(s)[n + 1] = "in" /\ Place(s)[n + 2] = "top"
  <2>1. Place(s)[n + 1] = "in"
    BY <1>5, <1>6 DEF Open
  <2> QED BY <1>1, <1>4, <2>1 DEF After
<1>8. CASE Fail
  BY <1>3, <1>8, FailedStep DEF Fail
<1>9. CASE stage' = "top" /\ wrote_any' = TRUE /\ objects' = PutObject(name, objects[name] \o kept)
  <2>1. /\ Place(s)[h] = "top" /\ GoodHeader(s[h]) /\ \A i \in (h + 1)..(n + 1) : Place(s)[i] = "in"
        /\ s[n + 1] \in EofLines /\ \A i \in (h + 1)..((n + 1) - 1) : s[i] \notin EofLines
        /\ name = NameOf(s[h])
    BY <1>1, <1>4, <1>5, <1>6 DEF Open
  <2>2. Expected(s, n + 1) = Extended(Expected(s, h - 1), name, SubSeq(s, h + 1, (n + 1) - 1))
    BY <1>6, <2>1, ExpectedNext
  <2>3. objects' = [m \in DOMAIN objects \cup {name} |-> IF m = name THEN objects[name] \o kept ELSE objects[m]]
    BY <1>9 DEF PutObject
  <2>4. /\ DOMAIN objects \cup {name} = DOMAIN Expected(s, h - 1) \cup {name}
        /\ objects[name] \o kept = SubSeq(s, h + 1, n)
        /\ \A m \in DOMAIN Expected(s, h - 1) : m # name => objects[m] = Expected(s, h - 1)[m]
    BY <1>5 DEF Open
  <2>5. objects' = Expected(s, n + 1)
    BY <1>6, <2>2, <2>3, <2>4 DEF Extended
  <2>6. Headers(s, n + 1) # {}
    <3>1. Headers(s, n + 1) = Headers(s, h - 1) \cup {h}
      BY <1>6, <2>1, HeadersOpen
    <3> QED BY <3>1
  <2>7. Between(s, n + 1)'
    BY <1>6, <1>7, <1>9, <2>5, <2>6 DEF Between
  <2>8. Fits(s, n + 1)
    <3>1. Headers(s, n + 1) = Headers(s, n)
      BY <1>4, <1>7
    <3> QED BY <1>3, <1>4, <1>6, <3>1 DEF Fits
  <2> QED BY <1>3, <1>4, <1>9, <2>7, <2>8
          DEF ScriptInv, ScriptFollowed, ObjectsExact, RefusedForReason
<1> QED BY <1>1, <1>8, <1>9

\* A line that does not fit.
LEMMA TooLongStep == ASSUME ScriptInv, TooLong PROVE ScriptInv'
<1>1. /\ stage' = "failed" /\ UNCHANGED <<script, next, from, seen, faulted>> /\ Len(Unread) >= LineCap
      /\ PositionKept
  BY DEF TooLong, ScriptInv
<1>2. PositionKept'
  BY <1>1 DEF PositionKept, Consumed
<1>3. ASSUME ~faulted PROVE ~Acceptable(script)
  <2>1. /\ script \in Seq(Lines) /\ next \in 1..(Len(script) + 1) /\ from = 1 /\ Len(script) \in Nat
        /\ LineCap \in Nat
    BY <1>1, <1>3, ObjectScriptAssumption DEF PositionKept
  <2>2. CASE next <= Len(script)
    <3>1. next \in 1..Len(script) /\ script[next] \in Seq(STRING)
      BY <2>1, <2>2 DEF Lines
    <3>2. Unread = script[next]
      BY <2>1, <2>2, <3>1, SubSeqFull DEF Unread
    <3>3. Len(script[next]) \in Nat
      BY <3>1
    <3>4. ~(Len(script[next]) < LineCap)
      BY <1>1, <2>1, <3>2, <3>3
    <3> QED BY <3>1, <3>4 DEF Acceptable
  <2>3. CASE ~(next <= Len(script))
    <3>1. Len(Unread) = 0
      BY <2>3 DEF Unread
    <3>2. LineCap = 0
      BY <1>1, <2>1, <3>1
    <3>3. Headers(script, Len(script)) # {} => \E i \in 1..Len(script) : i = 1
      BY <2>1 DEF Headers
    <3>4. ASSUME NEW i \in 1..Len(script) PROVE ~(Len(script[i]) < LineCap)
      <4>1. script[i] \in Seq(STRING)
        BY <2>1 DEF Lines
      <4>2. Len(script[i]) \in Nat
        BY <4>1
      <4> QED BY <3>2, <4>2
    <3> QED BY <3>3, <3>4 DEF Acceptable
  <2> QED BY <2>2, <2>3
<1> QED BY <1>1, <1>2, <1>3, FailedStep

\* While nothing fails and no line is left, all of the script has been read.
LEMMA AllRead ==
    ASSUME PositionKept, NoLine
    PROVE  PositionKept' /\ UNCHANGED <<script, seen>> /\ (~faulted' => ~faulted /\ seen = script)
<1>1. UNCHANGED <<script, next, from, seen>> /\ (~faulted' => ~faulted /\ Unread = <<>>)
  BY DEF NoLine
<1>2. PositionKept'
  BY <1>1 DEF PositionKept, Consumed
<1>3. ASSUME ~faulted' PROVE seen = script
  <2>1. /\ script \in Seq(Lines) /\ next \in 1..(Len(script) + 1) /\ from = 1 /\ Len(script) \in Nat
        /\ seen = SubSeq(script, 1, next - 1) /\ (\A i \in 1..Len(script) : script[i] # <<>>)
    BY <1>1, <1>3 DEF PositionKept
  <2>2. ~(next <= Len(script))
    <3>1. ASSUME next <= Len(script) PROVE FALSE
      <4>1. next \in 1..Len(script) /\ script[next] \in Seq(STRING) /\ script[next] # <<>>
        BY <2>1, <3>1 DEF Lines
      <4>2. Unread = script[next]
        BY <2>1, <3>1, <4>1, SubSeqFull DEF Unread
      <4> QED BY <1>1, <1>3, <4>1, <4>2
    <3> QED BY <3>1
  <2>3. next - 1 = Len(script)
    BY <2>1, <2>2
  <2> QED BY <2>1, <2>3, SubSeqFull
<1> QED BY <1>1, <1>2, <1>3

\* The end of the script within an object.
LEMMA UnterminatedStep == ASSUME ScriptInv, Unterminated PROVE ScriptInv'
<1>1. stage = "payload" /\ NoLine /\ stage' = "failed" /\ PositionKept
  BY DEF Unterminated, ScriptInv
<1>2. PositionKept' /\ UNCHANGED <<script, seen>> /\ (~faulted' => seen = script)
  BY <1>1, AllRead
<1>3. PICK h \in 1..Len(seen) : Open(seen, Len(seen), h)
  BY <1>1 DEF ScriptInv
<1>4. Place(seen)[Len(seen) + 1] = "in"
  <2>1. Len(seen) \in Nat
    BY <1>1 DEF PositionKept
  <2>2. Len(seen) + 1 \in (h + 1)..(Len(seen) + 1)
    BY <2>1
  <2> QED BY <1>3, <2>2 DEF Open
<1>5. ~Acceptable(seen)
  BY <1>4 DEF Acceptable
<1> QED BY <1>1, <1>2, <1>5, FailedStep

\* The end of the script between two objects.
LEMMA FinishStep == ASSUME ScriptInv, Finish PROVE ScriptInv'
<1>1. /\ stage = "top" /\ PositionKept /\ UNCHANGED objects
      /\ Between(seen, Len(seen)) /\ Fits(seen, Len(seen))
  BY DEF Finish, ScriptInv
<1>2. CASE stage' = "failed" /\ faulted' = TRUE /\ UNCHANGED <<script, next, from, seen, runs>>
  <2>1. PositionKept'
    BY <1>1, <1>2 DEF PositionKept, Consumed
  <2> QED BY <1>2, <2>1, FailedStep
<1>3. CASE stage' = (IF wrote_any THEN "done" ELSE "failed") /\ NoLine
  <2>1. PositionKept' /\ UNCHANGED <<script, seen>> /\ (~faulted' => seen = script)
    BY <1>1, <1>3, AllRead
  <2>2. CASE ~wrote_any
    <3>1. ~Acceptable(seen)
      BY <1>1, <2>2 DEF Between, Acceptable
    <3> QED BY <1>3, <2>1, <2>2, <3>1, FailedStep
  <2>3. CASE wrote_any
    <3>1. Acceptable(seen)
      BY <1>1, <2>3 DEF Between, Fits, Acceptable
    <3>2. FlattenSeq(seen') = Consumed'
      BY <2>1 DEF PositionKept
    <3>3. objects' = Expected(seen', Len(seen'))
      BY <1>1, <2>1 DEF Between
    <3>4. Acceptable(seen') /\ stage' = "done"
      BY <1>3, <2>1, <2>3, <3>1
    <3> QED BY <2>1, <3>2, <3>3, <3>4
            DEF ScriptInv, ScriptFollowed, ObjectsExact, RefusedForReason
  <2> QED BY <2>2, <2>3
<1> QED BY <1>2, <1>3 DEF Finish

\* The script is run again, and the directory emptied.
LEMMA RunStep == ASSUME ScriptInv, Run \/ Clean PROVE ScriptInv'
<1>1. CASE Run
  <2>1. PositionKept'
    BY <1>1, NothingRead DEF Run
  <2> QED BY <1>1, <2>1 DEF Run, ScriptInv, ScriptFollowed, ObjectsExact, RefusedForReason
<1>2. CASE Clean
  <2>1. /\ seen = <<>> /\ ~wrote_any /\ objects' = <<>> /\ stage' = "top"
        /\ UNCHANGED <<script, next, from, seen, wrote_any, faulted>> /\ PositionKept
    BY <1>2 DEF Clean, Removed, ScriptInv
  <2>2. Headers(<<>>, 0) = {} /\ Expected(<<>>, 0) = <<>>
    BY ExpectedNone
  <2>3. Len(<<>>) = 0 /\ <<>> \in Seq(Lines) /\ 0 + 1 = 1 /\ 1..0 = {}
    OBVIOUS
  <2>4. Place(<<>>)[1] = "top"
    BY <2>3, PlaceIs
  <2>5. PositionKept'
    BY <2>1 DEF PositionKept, Consumed
  <2>6. Between(<<>>, 0)'
    BY <2>1, <2>2, <2>3, <2>4 DEF Between
  <2>7. Fits(<<>>, 0)
    BY <2>2, <2>3 DEF Fits
  <2> QED BY <2>1, <2>3, <2>5, <2>6, <2>7
          DEF ScriptInv, ScriptFollowed, ObjectsExact, RefusedForReason
<1> QED BY <1>1, <1>2

\* Initially.
LEMMA ScriptInitially == ScriptInit => ScriptInv
<1> SUFFICES ASSUME ScriptInit PROVE ScriptInv
  OBVIOUS
<1>1. script \in Seq(Lines) /\ (\A i \in 1..Len(script) : script[i] # <<>>) /\ Len(script) \in Nat
      /\ FlattenSeq(<<>>) = <<>> /\ SubSeq(script, 1, 0) = <<>>
      /\ next = 1 /\ from = 1 /\ seen = <<>> /\ stage = "idle"
  BY ScriptStart DEF ScriptInit
<1>2. 1 <= Len(script) => 1 <= Len(script[1])
  <2>1. ASSUME 1 <= Len(script) PROVE 1 <= Len(script[1])
    <3>1. script[1] \in Seq(STRING) /\ script[1] # <<>>
      BY <1>1, <2>1 DEF Lines
    <3> QED BY <3>1
  <2> QED BY <2>1
<1>3. Consumed = <<>>
  <2>1. SubSeq(script[1], 1, 0) = <<>> /\ 1 - 1 = 0 /\ <<>> \o <<>> = <<>>
    BY SubSeqEmpty
  <2> QED BY <1>1, <2>1 DEF Consumed
<1>4. <<>> \in Seq(Lines) /\ 1 \in 1..(Len(script) + 1) /\ 1 - 1 = 0 /\ 1 \in Nat \ {0}
  BY <1>1
<1>5. PositionKept
  BY <1>1, <1>2, <1>3, <1>4 DEF PositionKept
<1> QED BY <1>1, <1>5 DEF ScriptInv, ScriptFollowed, ObjectsExact, RefusedForReason

\* Every step of the program keeps the invariant.
LEMMA ScriptStep == ScriptInv /\ [ScriptNext]_scriptVars => ScriptInv'
<1> SUFFICES ASSUME ScriptInv, [ScriptNext]_scriptVars PROVE ScriptInv'
  OBVIOUS
<1>1. CASE Stopped
  <2>1. UNCHANGED <<script, next, from, seen>> /\ stage' = "failed" /\ faulted' = TRUE /\ PositionKept
    BY <1>1 DEF Stopped, ScriptInv
  <2>2. PositionKept'
    BY <2>1 DEF PositionKept, Consumed
  <2> QED BY <2>1, <2>2, FailedStep
<1>2. CASE UNCHANGED scriptVars
  BY <1>2 DEF scriptVars, ScriptInv, PositionKept, Consumed, Fits, Between, Open,
              ScriptFollowed, ObjectsExact, RefusedForReason
<1> QED BY <1>1, <1>2, RunStep, TopLineStep, PayloadLineStep, PayloadEndStep, TooLongStep,
           UnterminatedStep, FinishStep DEF ScriptNext

\* What materialize-object-script has written is what the lines read so far ask
\* for, and these are the script's own but for the cuts of failed reads: for
\* scripts of any length and any number of failures, stops and runs.
THEOREM ScriptInvariant == ScriptSpec => []ScriptInv
BY ScriptInitially, ScriptStep, PTL DEF ScriptSpec

\* When it succeeds, the directory holds the objects of the lines read and
\* nothing else; when it refuses a script without a failure, the script is not
\* acceptable, and it accepts no other.
THEOREM ScriptIsFollowed == ScriptSpec => []ScriptFollowed
<1>1. ScriptInv => ScriptFollowed
  BY DEF ScriptInv
<1> QED BY <1>1, ScriptInvariant, PTL

(***************************************************************************)
(* The heap: copying bytes.                                                *)
(***************************************************************************)
Contents == [Addresses -> Nat]

\* Copying is a chain of memories, each with one byte more in its place.
LEMMA CopiedIs ==
    ASSUME NEW m \in Contents, NEW dest \in Nat, NEW src \in Nat, NEW o \in Seq(Nat),
           \A k \in 1..Len(o) : src + o[k] \in Addresses
    PROVE  \E g \in [0..Len(o) -> Contents] :
             /\ g[0] = m /\ g[Len(o)] = Copied(m, dest, src, o)
             /\ \A k \in 1..Len(o) : g[k] = [g[k - 1] EXCEPT ![dest + o[k]] = g[k - 1][src + o[k]]]
<1> DEFINE n == Len(o)
           R == Contents
           Byte(f, k) == [f EXCEPT ![dest + o[k]] = f[src + o[k]]]
           step == [p \in R \X (1..n) |-> Byte(p[1], p[2])]
           IsAfter(f) == f = [k \in 0..n |-> IF k = 0 THEN m ELSE Byte(f[k - 1], k)]
<1>1. n \in Nat
  OBVIOUS
<1>2. ASSUME NEW f \in R, NEW k \in 1..n PROVE Byte(f, k) \in R
  BY DEF Contents
<1>3. step \in [R \X (1..n) -> R]
  <2> HIDE DEF Byte, R, n
  <2> QED BY <1>2
<1>4. PICK g \in [0..n -> R] : Chain(g, n, m, step)
  <2> HIDE DEF step
  <2> QED BY <1>1, <1>3, ChainExists
<1>5. g[0] = m /\ \A k \in 1..n : g[k] = Byte(g[k - 1], k)
  <2>1. ASSUME NEW k \in 1..n PROVE g[k] = Byte(g[k - 1], k)
    <3>1. g[k] = step[<<g[k - 1], k>>]
      BY <1>4 DEF Chain
    <3>2. k - 1 \in 0..n
      BY <1>1
    <3>3. g[k - 1] \in R
      BY <3>2
    <3> HIDE DEF Byte, R
    <3> QED BY <3>1, <3>3
  <2> QED BY <1>4, <2>1 DEF Chain
<1>6. IsAfter(g)
  <2>1. ASSUME NEW k \in 0..n PROVE g[k] = IF k = 0 THEN m ELSE Byte(g[k - 1], k)
    <3>1. k = 0 \/ k \in 1..n
      BY <1>1
    <3> HIDE DEF Byte
    <3> QED BY <1>5, <3>1
  <2> HIDE DEF Byte
  <2> QED BY <2>1
<1> DEFINE c == CHOOSE f : IsAfter(f)
<1>7. Copied(m, dest, src, o) = c[n]
  BY DEF Copied
<1>8. IsAfter(c)
  <2> HIDE DEF IsAfter
  <2> QED BY <1>6, Zenon
<1>9. /\ c[0] = m /\ \A k \in 1..n : c[k] = Byte(c[k - 1], k)
      /\ DOMAIN c = 0..n
  <2> HIDE DEF Byte, c
  <2>1. DOMAIN c = 0..n /\ \A k \in 0..n : c[k] = IF k = 0 THEN m ELSE Byte(c[k - 1], k)
    BY <1>8
  <2>2. 0 \in 0..n /\ \A k \in 1..n : k \in 0..n /\ k # 0
    BY <1>1
  <2> QED BY <2>1, <2>2
<1>10. g[n] = c[n]
  <2> HIDE DEF Byte, c
  <2> DEFINE P == {k \in Nat : k <= n => g[k] = c[k]}
  <2>1. 0 \in P
    BY <1>5, <1>9
  <2>2. ASSUME NEW k \in Nat, k \in P PROVE k + 1 \in P
    <3>1. SUFFICES ASSUME k + 1 <= n PROVE g[k + 1] = c[k + 1]
      OBVIOUS
    <3>2. k + 1 \in 1..n /\ (k + 1) - 1 = k /\ g[k] = c[k]
      BY <1>1, <2>2, <3>1
    <3> QED BY <1>5, <1>9, <3>2
  <2>3. n \in P
    <3> HIDE DEF P
    <3> QED BY <1>1, <2>1, <2>2, SetInduction
  <2> QED BY <1>1, <2>3
<1> HIDE DEF c, n
<1> QED BY <1>5, <1>7, <1>10 DEF n

\* Offsets that keep to memory, none of them twice.
Offsets(o, dest, src) ==
    /\ \A k \in 1..Len(o) : src + o[k] \in Addresses /\ dest + o[k] \in Addresses
    /\ \A j, k \in 1..Len(o) : o[j] = o[k] => j = k

\* What is copied, and what is not.
Copies(r, m, dest, src, o) ==
    /\ r \in Contents
    /\ \A a \in Addresses : (\A k \in 1..Len(o) : a # dest + o[k]) => r[a] = m[a]
    /\ \A k \in 1..Len(o) : (\A j \in 1..(k - 1) : src + o[k] # dest + o[j])
                              => r[dest + o[k]] = m[src + o[k]]

\* A byte that no step writes stays; a byte that one step writes is the one
\* that was read, if no step before it wrote over that.
LEMMA CopiedBytes ==
    ASSUME NEW m \in Contents, NEW dest \in Nat, NEW src \in Nat, NEW o \in Seq(Nat),
           Offsets(o, dest, src)
    PROVE  Copies(Copied(m, dest, src, o), m, dest, src, o)
<1> DEFINE n == Len(o)
<1>1. /\ n \in Nat /\ \A k \in 1..n : o[k] \in Nat
      /\ \A k \in 1..n : src + o[k] \in Addresses /\ dest + o[k] \in Addresses
      /\ \A j, k \in 1..n : o[j] = o[k] => j = k
  BY DEF Offsets
<1>2. PICK g \in [0..n -> Contents] :
             /\ g[0] = m /\ g[n] = Copied(m, dest, src, o)
             /\ \A k \in 1..n : g[k] = [g[k - 1] EXCEPT ![dest + o[k]] = g[k - 1][src + o[k]]]
  BY <1>1, CopiedIs
<1>3. ASSUME NEW k \in 1..n
      PROVE  /\ g[k - 1] \in Contents /\ g[k] \in Contents
             /\ g[k][dest + o[k]] = g[k - 1][src + o[k]]
             /\ \A a \in Addresses : a # dest + o[k] => g[k][a] = g[k - 1][a]
  <2>1. k - 1 \in 0..n /\ k \in 0..n
    BY <1>1
  <2>2. g[k - 1] \in Contents /\ g[k] \in Contents
    BY <2>1
  <2>3. g[k] = [g[k - 1] EXCEPT ![dest + o[k]] = g[k - 1][src + o[k]]]
    BY <1>2
  <2>4. dest + o[k] \in Addresses
    BY <1>1
  <2> QED BY <2>2, <2>3, <2>4 DEF Contents
<1> DEFINE Kept(i) == \A a \in Addresses : (\A k \in 1..i : a # dest + o[k]) => g[i][a] = m[a]
           Put(i) == \A k \in 1..i : (\A j \in 1..(k - 1) : src + o[k] # dest + o[j])
                                       => g[i][dest + o[k]] = m[src + o[k]]
           P == {i \in Nat : i <= n => Kept(i) /\ Put(i)}
<1>4. 0 \in P
  BY <1>2
<1>5. ASSUME NEW i \in Nat, i \in P PROVE i + 1 \in P
  <2>1. SUFFICES ASSUME i + 1 <= n PROVE Kept(i + 1) /\ Put(i + 1)
    OBVIOUS
  <2>2. i + 1 \in 1..n /\ (i + 1) - 1 = i /\ Kept(i) /\ Put(i)
    BY <1>1, <1>5, <2>1
  <2>3. /\ g[i + 1][dest + o[i + 1]] = g[i][src + o[i + 1]]
        /\ \A a \in Addresses : a # dest + o[i + 1] => g[i + 1][a] = g[i][a]
    BY <1>3, <2>2
  <2>4. Kept(i + 1)
    <3>1. ASSUME NEW a \in Addresses, \A k \in 1..(i + 1) : a # dest + o[k] PROVE g[i + 1][a] = m[a]
      <4>1. \A k \in 1..i : k \in 1..(i + 1)
        OBVIOUS
      <4>2. i + 1 \in 1..(i + 1)
        OBVIOUS
      <4>3. g[i][a] = m[a]
        BY <2>2, <3>1, <4>1
      <4> QED BY <2>3, <3>1, <4>2, <4>3
    <3> QED BY <3>1
  <2>5. Put(i + 1)
    <3>1. ASSUME NEW k \in 1..(i + 1), \A j \in 1..(k - 1) : src + o[k] # dest + o[j]
          PROVE  g[i + 1][dest + o[k]] = m[src + o[k]]
      <4>1. CASE k = i + 1
        <5>1. src + o[k] \in Addresses
          BY <1>1, <2>2, <4>1
        <5>2. \A j \in 1..i : src + o[k] # dest + o[j]
          BY <3>1, <4>1
        <5>3. g[i][src + o[k]] = m[src + o[k]]
          BY <2>2, <5>1, <5>2
        <5> QED BY <2>3, <4>1, <5>3
      <4>2. CASE k \in 1..i
        <5>1. k \in 1..n /\ k # i + 1
          BY <1>1, <2>1, <4>2
        <5>2. o[k] # o[i + 1] /\ o[k] \in Nat /\ o[i + 1] \in Nat
          BY <1>1, <2>2, <5>1
        <5>3. dest + o[k] # dest + o[i + 1] /\ dest + o[k] \in Addresses
          BY <1>1, <5>1, <5>2
        <5>4. g[i][dest + o[k]] = m[src + o[k]]
          BY <2>2, <3>1, <4>2
        <5> QED BY <2>3, <5>3, <5>4
      <4>3. k = i + 1 \/ k \in 1..i
        OBVIOUS
      <4> QED BY <4>1, <4>2, <4>3
    <3> QED BY <3>1
  <2> QED BY <2>4, <2>5
<1>6. n \in P
  <2> HIDE DEF P
  <2> QED BY <1>1, <1>4, <1>5, SetInduction
<1>7. g[n] \in Contents
  BY <1>1
<1>8. Kept(n) /\ Put(n)
  BY <1>1, <1>6
<1> QED BY <1>2, <1>7, <1>8 DEF Copies

\* A run of n bytes of memory.
InMemory(at, n) == \A j \in 0..(n - 1) : at + j \in Addresses

\* The bytes in front of and behind such a run.
Outside(a, dest, n) == a < dest \/ a >= dest + n

\* The bytes of a run have got to the other, those excepted that were written
\* over before, and nothing else is written.
Copying(r, m, dest, src, n) ==
    /\ r \in Contents
    /\ \A a \in Addresses : Outside(a, dest, n) => r[a] = m[a]
    /\ \A j \in 0..(n - 1) : dest < src \/ src + j < dest => r[dest + j] = m[src + j]

\* memcpy copies every byte it has not yet written over.
LEMMA MemcpyBytes ==
    ASSUME NEW m \in Contents, NEW dest \in Nat, NEW src \in Nat, NEW n \in Nat,
           InMemory(src, n), InMemory(dest, n)
    PROVE  Copying(memcpy(m, dest, src, n), m, dest, src, n)
<1> DEFINE o == [i \in 1..n |-> i - 1]
           r == Copied(m, dest, src, o)
<1>1. o \in Seq(Nat) /\ Len(o) = n /\ \A k \in 1..n : o[k] = k - 1
  OBVIOUS
<1>2. r = memcpy(m, dest, src, n)
  BY DEF memcpy
<1> HIDE DEF o
<1>3. Offsets(o, dest, src)
  <2>1. \A k \in 1..n : k - 1 \in 0..(n - 1)
    OBVIOUS
  <2>2. \A j \in 0..(n - 1) : src + j \in Addresses /\ dest + j \in Addresses
    BY DEF InMemory
  <2>3. ASSUME NEW k \in 1..Len(o) PROVE src + o[k] \in Addresses /\ dest + o[k] \in Addresses
    <3>1. o[k] = k - 1 /\ k - 1 \in 0..(n - 1)
      BY <1>1, <2>1
    <3> QED BY <2>2, <3>1
  <2>4. \A j, k \in 1..Len(o) : o[j] = o[k] => j = k
    BY <1>1
  <2> QED BY <2>3, <2>4 DEF Offsets
<1>4. Copies(r, m, dest, src, o)
  BY <1>1, <1>3, CopiedBytes
<1> HIDE DEF r
<1>5. ASSUME NEW a \in Addresses, Outside(a, dest, n) PROVE r[a] = m[a]
  <2>1. \A k \in 1..Len(o) : a # dest + o[k]
    BY <1>1, <1>5 DEF Outside, Addresses
  <2> QED BY <1>4, <2>1 DEF Copies
<1>6. ASSUME NEW j \in 0..(n - 1), dest < src \/ src + j < dest PROVE r[dest + j] = m[src + j]
  <2>1. j + 1 \in 1..Len(o) /\ o[j + 1] = j /\ (j + 1) - 1 = j
    BY <1>1
  <2>2. \A i \in 1..((j + 1) - 1) : src + o[j + 1] # dest + o[i]
    BY <1>1, <1>6, <2>1
  <2> QED BY <1>4, <2>1, <2>2 DEF Copies
<1>7. Copying(r, m, dest, src, n)
  BY <1>4, <1>5, <1>6 DEF Copies, Copying
<1> QED BY <1>2, <1>7

\* All bytes of a run have got to the other, and nothing else is written.
Moved(r, m, dest, src, n) ==
    /\ r \in Contents
    /\ \A a \in Addresses : Outside(a, dest, n) => r[a] = m[a]
    /\ \A j \in 0..(n - 1) : r[dest + j] = m[src + j]

\* memmove copies every byte, whichever way they go.
LEMMA MemmoveBytes ==
    ASSUME NEW m \in Contents, NEW dest \in Nat, NEW src \in Nat, NEW n \in Nat, dest # src,
           InMemory(src, n), InMemory(dest, n)
    PROVE  Moved(memmove(m, dest, src, n), m, dest, src, n)
<1>1. CASE dest < src
  <2>1. memmove(m, dest, src, n) = memcpy(m, dest, src, n)
    BY <1>1 DEF memmove
  <2>2. Copying(memcpy(m, dest, src, n), m, dest, src, n)
    BY MemcpyBytes
  <2> QED BY <1>1, <2>1, <2>2 DEF Copying, Moved
<1>2. CASE src < dest
  <2> DEFINE o == [i \in 1..n |-> n - i]
             r == Copied(m, dest, src, o)
  <2>1. o \in Seq(Nat) /\ Len(o) = n /\ \A k \in 1..n : o[k] = n - k
    OBVIOUS
  <2>2. r = memmove(m, dest, src, n)
    BY <1>2 DEF memmove
  <2> HIDE DEF o
  <2>3. Offsets(o, dest, src)
    <3>1. \A k \in 1..n : n - k \in 0..(n - 1)
      OBVIOUS
    <3>2. \A j \in 0..(n - 1) : src + j \in Addresses /\ dest + j \in Addresses
      BY DEF InMemory
    <3>3. \A j, k \in 1..n : n - j = n - k => j = k
      OBVIOUS
    <3>4. ASSUME NEW k \in 1..Len(o) PROVE src + o[k] \in Addresses /\ dest + o[k] \in Addresses
      <4>1. o[k] = n - k /\ n - k \in 0..(n - 1)
        BY <2>1, <3>1
      <4> QED BY <3>2, <4>1
    <3>5. \A j, k \in 1..Len(o) : o[j] = o[k] => j = k
      BY <2>1, <3>3
    <3> QED BY <3>4, <3>5 DEF Offsets
  <2>4. Copies(r, m, dest, src, o)
    BY <2>1, <2>3, CopiedBytes
  <2> HIDE DEF r
  <2>5. ASSUME NEW a \in Addresses, Outside(a, dest, n) PROVE r[a] = m[a]
    <3>1. \A k \in 1..Len(o) : a # dest + o[k]
      BY <2>1, <2>5 DEF Outside, Addresses
    <3> QED BY <2>4, <3>1 DEF Copies
  <2>6. ASSUME NEW j \in 0..(n - 1) PROVE r[dest + j] = m[src + j]
    <3>1. n - j \in 1..Len(o) /\ o[n - j] = j
      BY <2>1
    <3>2. \A i \in 1..((n - j) - 1) : src + o[n - j] # dest + o[i]
      BY <1>2, <2>1, <3>1
    <3> QED BY <2>4, <3>1, <3>2 DEF Copies
  <2>7. Moved(r, m, dest, src, n)
    BY <2>4, <2>5, <2>6 DEF Copies, Moved
  <2> QED BY <2>2, <2>7
<1> QED BY <1>1, <1>2

(***************************************************************************)
(* Sizes.                                                                  *)
(***************************************************************************)
\* What one block takes up at most.
Widest == MaxSize + 2 * WordSize

\* The last address.
Top == HeapLimit + (MaxBlocks + 1) * Widest

\* The addresses are a run of numbers.
LEMMA AddressesAre == Addresses = 0..Top /\ Top \in Nat /\ Widest \in Nat
<1>1. Widest \in Nat /\ MaxBlocks + 1 \in Nat /\ HeapLimit \in Nat
  BY MemoryAssumption DEF Widest
<1>2. (MaxBlocks + 1) * Widest \in Nat
  BY <1>1
<1> QED BY <1>1, <1>2 DEF Addresses, Top, Widest

\* The blocks given out so far, and one more, are in memory.
LEMMA Space ==
    ASSUME NEW n \in Nat, n < MaxBlocks
    PROVE  /\ n * Widest \in Nat
           /\ (n + 1) * Widest = n * Widest + Widest
           /\ HeapLimit + (n + 1) * Widest + Widest <= Top
<1>1. Widest \in Nat /\ MaxBlocks \in Nat /\ HeapLimit \in Nat
  BY AddressesAre, MemoryAssumption
<1> DEFINE w == Widest
<1> HIDE DEF w
<1>2. w \in Nat
  BY <1>1 DEF w
<1>3. n * w \in Nat /\ (n + 1) * w = n * w + w /\ (MaxBlocks + 1) * w = MaxBlocks * w + w
  BY <1>1, <1>2
<1>4. PICK d \in Nat : MaxBlocks = (n + 1) + d
  <2>1. MaxBlocks - (n + 1) \in Nat
    BY <1>1
  <2> QED BY <1>1, <2>1
<1>5. MaxBlocks * w = (n + 1) * w + d * w /\ d * w \in Nat /\ (n + 1) * w \in Nat
  BY <1>2, <1>4
<1> QED BY <1>1, <1>2, <1>3, <1>5 DEF w, Top

\* Rounding up to whole words.
LEMMA AlignedIs ==
    ASSUME NEW s \in Nat
    PROVE  Aligned(s) \in Nat /\ s + WordSize <= Aligned(s) /\ Aligned(s) < s + 2 * WordSize
<1> DEFINE x == s + WordSize + WordSize - 1
           q == x \div WordSize
<1>1. WordSize \in Nat /\ WordSize > 0 /\ x \in Nat
  BY MemoryAssumption
<1>2. q \in Nat /\ q * WordSize <= x /\ x < q * WordSize + WordSize
  <2> HIDE DEF x
  <2> QED BY <1>1
<1>3. Aligned(s) = q * WordSize
  BY DEF Aligned
<1> HIDE DEF q
<1>4. q * WordSize \in Nat
  BY <1>1, <1>2
<1> QED BY <1>1, <1>2, <1>3, <1>4

\* What the heap keeps of a size.
Kept(size) == IF size = 0 THEN 1 ELSE size

\* A block has the room it needs, behind its word.
LEMMA NeedIs ==
    ASSUME heap \in {"m1", "tcc"}, NEW size \in 0..MaxSize
    PROVE  /\ Need(size) \in Nat /\ size <= Need(size) /\ Need(size) <= Widest
           /\ heap = "m1" => Kept(size) + WordSize <= Need(size) /\ BlockAt(size) = Cur + WordSize
           /\ heap = "tcc" => Need(size) = size /\ BlockAt(size) = Cur
<1>1. MaxSize \in Nat /\ WordSize \in Nat /\ WordSize > 0 /\ size \in Nat /\ size <= MaxSize
  BY MemoryAssumption
<1>2. CASE heap = "m1"
  <2>1. Kept(size) \in Nat /\ Kept(size) >= size /\ (Kept(size) <= MaxSize \/ Kept(size) = 1)
    BY <1>1 DEF Kept
  <2>2. Need(size) = Aligned(Kept(size)) /\ BlockAt(size) = Cur + WordSize
    BY <1>2 DEF Need, BlockAt, Kept
  <2>3. /\ Aligned(Kept(size)) \in Nat /\ Kept(size) + WordSize <= Aligned(Kept(size))
        /\ Aligned(Kept(size)) < Kept(size) + 2 * WordSize
    BY <2>1, AlignedIs
  <2> QED BY <1>1, <1>2, <2>1, <2>2, <2>3 DEF Widest
<1>3. CASE heap = "tcc"
  BY <1>1, <1>3 DEF Need, BlockAt, Widest
<1> QED BY <1>2, <1>3

(***************************************************************************)
(* The invariant.                                                          *)
(***************************************************************************)
Blocks == [at : Nat, size : 0..MaxSize, text : Seq(Nat)]

\* What a block is.
LEMMA BlockIs ==
    ASSUME NEW bs \in Seq(Blocks), NEW b \in DOMAIN bs
    PROVE  /\ bs[b] \in Blocks /\ bs[b].at \in Nat /\ bs[b].text \in Seq(Nat)
           /\ bs[b].size \in Nat /\ bs[b].size <= MaxSize /\ bs[b].size \in 0..MaxSize
<1>1. bs[b] \in Blocks
  OBVIOUS
<1>2. MaxSize \in Nat
  BY MemoryAssumption
<1> QED BY <1>1, <1>2 DEF Blocks

\* The blocks given out lie between the first break and the next block, one
\* behind another.
Placed ==
    /\ \A b \in DOMAIN blocks :
          /\ blocks[b].at >= HeapStart + (IF heap = "m1" THEN WordSize ELSE 0)
          /\ blocks[b].at + blocks[b].size <= Cur
          /\ Len(blocks[b].text) = blocks[b].size
    /\ \A b, c \in DOMAIN blocks : b < c => blocks[b].at + blocks[b].size <= blocks[c].at

\* xrealloc finds the size of each block in front of it.
Sized == heap = "m1" => \A b \in DOMAIN blocks : mem[blocks[b].at - WordSize] = Kept(blocks[b].size)

MemoryInv ==
    /\ heap \in {"m1", "tcc"}
    /\ sysBreak \in HeapStart..HeapLimit /\ refused \in BOOLEAN
    /\ cur \in Nat /\ (cur # 0 => cur >= HeapStart /\ end = sysBreak) /\ (cur = 0 => blocks = <<>>)
    /\ mem \in Contents /\ blocks \in Seq(Blocks) /\ Len(blocks) <= MaxBlocks
    /\ Cur <= HeapLimit + Len(blocks) * Widest
    /\ ~(heap = "tcc" /\ refused) => Cur <= sysBreak
    /\ Placed /\ Sized /\ MemoryKept

\* Before the first call there are no blocks.
LEMMA MemoryStart == MemoryInit => MemoryInv
<1> SUFFICES ASSUME MemoryInit PROVE MemoryInv
  OBVIOUS
<1>1. HeapStart \in Nat \ {0} /\ HeapLimit \in Nat /\ HeapStart <= HeapLimit /\ MaxBlocks \in Nat
  BY MemoryAssumption
<1>2. blocks = <<>> /\ blocks \in Seq(Blocks) /\ DOMAIN blocks = {} /\ Len(blocks) = 0
  BY DEF MemoryInit
<1>3. Cur = HeapStart /\ 0 * Widest = 0
  BY AddressesAre DEF MemoryInit, Cur
<1>4. mem \in Contents
  BY DEF MemoryInit, Contents
<1>5. heap \in {"m1", "tcc"} /\ sysBreak \in HeapStart..HeapLimit /\ refused \in BOOLEAN /\ cur = 0
      /\ sysBreak = HeapStart
  <2>1. refused = FALSE /\ heap \in {"m1", "tcc"} /\ cur = 0 /\ sysBreak = HeapStart
    BY Zenon DEF MemoryInit
  <2>2. sysBreak \in HeapStart..HeapLimit
    BY <1>1, <2>1
  <2>3. refused \in BOOLEAN
    BY <2>1, Zenon
  <2> QED BY <2>1, <2>2, <2>3
<1>6. Placed /\ Sized /\ MemoryKept
  BY <1>2 DEF Placed, Sized, MemoryKept
<1>7. Cur <= HeapLimit + Len(blocks) * Widest /\ Cur <= sysBreak
  BY <1>1, <1>2, <1>3, <1>5
<1> QED BY <1>1, <1>2, <1>4, <1>5, <1>6, <1>7 DEF MemoryInv

\* Blocks are memory the process has and nobody else's.
LEMMA MemoryInvSound == MemoryInv => HeapSound
<1> SUFFICES ASSUME MemoryInv PROVE BlocksInHeap
  BY DEF HeapSound, MemoryInv
<1> SUFFICES ASSUME ~(heap = "tcc" /\ refused), NEW b \in DOMAIN blocks
             PROVE  blocks[b].at >= HeapStart /\ blocks[b].at + blocks[b].size <= sysBreak
  BY DEF BlocksInHeap
<1>1. blocks[b] \in Blocks /\ blocks[b].at \in Nat /\ blocks[b].size \in Nat
  BY BlockIs DEF MemoryInv
<1>2. HeapStart \in Nat /\ HeapLimit \in Nat /\ WordSize \in Nat
  BY MemoryAssumption
<1>3. sysBreak \in Nat /\ cur \in Nat
  BY <1>2 DEF MemoryInv
<1>4. /\ blocks[b].at >= HeapStart + (IF heap = "m1" THEN WordSize ELSE 0)
      /\ blocks[b].at + blocks[b].size <= Cur
  BY DEF MemoryInv, Placed
<1>5. Cur \in Nat /\ Cur <= sysBreak
  BY <1>3 DEF MemoryInv, Cur
<1> QED BY <1>1, <1>2, <1>3, <1>4, <1>5

\* Numbers of the invariant.
LEMMA MemoryNumbers ==
    ASSUME MemoryInv
    PROVE  /\ HeapStart \in Nat /\ HeapStart > 0 /\ HeapLimit \in Nat /\ WordSize \in Nat /\ WordSize > 0
           /\ sysBreak \in Nat /\ HeapStart <= sysBreak /\ sysBreak <= HeapLimit
           /\ Cur \in Nat /\ Cur >= HeapStart /\ End = sysBreak
           /\ Len(blocks) \in Nat /\ DOMAIN blocks = 1..Len(blocks)
<1>1. HeapStart \in Nat /\ HeapStart > 0 /\ HeapLimit \in Nat /\ WordSize \in Nat /\ WordSize > 0
  BY MemoryAssumption
<1>2. sysBreak \in Nat /\ HeapStart <= sysBreak /\ sysBreak <= HeapLimit
  BY <1>1 DEF MemoryInv
<1>3. Cur \in Nat /\ Cur >= HeapStart /\ End = sysBreak
  BY <1>1, <1>2 DEF MemoryInv, Cur, End
<1>4. Len(blocks) \in Nat /\ DOMAIN blocks = 1..Len(blocks)
  BY DEF MemoryInv
<1> QED BY <1>1, <1>2, <1>3, <1>4

\* The heap has got its room, or the program learns that it has not, except
\* through the malloc that takes a refusal for an answer.
Grown(size) ==
    /\ sysBreak' \in HeapStart..HeapLimit /\ sysBreak' >= sysBreak /\ end' = sysBreak'
    /\ refused' \in BOOLEAN /\ (refused => refused')
    /\ ~(heap = "tcc" /\ refused') => Cur + Need(size) <= sysBreak'

\* A call stops the program or has the room it needs.
LEMMA RoomIs ==
    ASSUME MemoryInv, NEW size \in 0..MaxSize, NEW got \in brk(Wanted(size)) \cup {sysBreak},
           Room(size, got)
    PROVE  /\ OutOfMemory(size, got) => UNCHANGED sysBreak /\ end' = sysBreak /\ refused' \in BOOLEAN
                                        /\ heap = "m1"
           /\ ~OutOfMemory(size, got) => Grown(size)
<1>1. /\ HeapStart \in Nat /\ HeapLimit \in Nat
      /\ sysBreak \in Nat /\ HeapStart <= sysBreak /\ sysBreak <= HeapLimit
      /\ Cur \in Nat /\ End = sysBreak
  BY MemoryNumbers
<1>2. heap \in {"m1", "tcc"} /\ refused \in BOOLEAN
  BY DEF MemoryInv
<1>3. Need(size) \in Nat
  BY <1>2, NeedIs
<1>4. CASE Cur + Need(size) <= End
  <2>1. UNCHANGED <<sysBreak, refused>> /\ end' = sysBreak
    BY <1>1, <1>4 DEF Room
  <2>2. ~OutOfMemory(size, got)
    BY <1>1, <1>3, <1>4 DEF OutOfMemory
  <2>3. sysBreak' \in HeapStart..HeapLimit
    BY <1>1, <2>1
  <2>4. Cur + Need(size) <= sysBreak'
    BY <1>1, <1>4, <2>1
  <2>5. sysBreak' >= sysBreak
    BY <1>1, <2>1
  <2> QED BY <1>2, <2>1, <2>2, <2>3, <2>4, <2>5 DEF Grown
<1>5. CASE ~(Cur + Need(size) <= End)
  <2>1. got \in brk(Wanted(size)) /\ sysBreak' = got /\ end' = got
        /\ refused' = (refused \/ got < Wanted(size))
    BY <1>5 DEF Room
  <2>2. Wanted(size) \in Nat /\ Wanted(size) >= Cur + Need(size) /\ Wanted(size) > sysBreak
    <3>1. Grow \in Nat
      BY MemoryAssumption
    <3> QED BY <1>1, <1>3, <1>5, <3>1 DEF Wanted
  <2>3. got = sysBreak \/ (got = Wanted(size) /\ got <= HeapLimit)
    BY <1>1, <2>1, <2>2 DEF brk
  <2>4. got \in Nat /\ got >= sysBreak /\ got <= HeapLimit /\ got \in HeapStart..HeapLimit
    BY <1>1, <2>2, <2>3
  <2>5. OutOfMemory(size, got) => got = sysBreak /\ heap = "m1"
    BY <2>2, <2>3 DEF OutOfMemory
  <2>6. ASSUME ~OutOfMemory(size, got), ~(heap = "tcc" /\ refused') PROVE Cur + Need(size) <= got
    <3>1. ~(got < Wanted(size))
      <4>1. CASE heap = "m1"
        BY <1>1, <1>3, <1>5, <2>6, <4>1 DEF OutOfMemory
      <4>2. CASE heap = "tcc"
        BY <2>1, <2>6, <4>2
      <4> QED BY <1>2, <4>1, <4>2
    <3> QED BY <1>1, <1>3, <2>2, <2>4, <3>1
  <2>7. refused' \in BOOLEAN /\ (refused => refused')
    BY <1>2, <2>1
  <2> QED BY <2>1, <2>4, <2>5, <2>6, <2>7 DEF Grown
<1> QED BY <1>4, <1>5

\* A block that is given out and filled behind the bytes it keeps.
LEMMA NewBlockIs ==
    ASSUME MemoryInv, Len(blocks) < MaxBlocks, NEW size \in 0..MaxSize, Grown(size), UNCHANGED heap,
           NEW k \in Seq(Nat), Len(k) <= size, NEW m \in Contents,
           \A a \in Addresses : a < Cur => m[a] = mem[a],
           heap = "m1" => m[Cur] = Kept(size),
           \A i \in 1..Len(k) : m[BlockAt(size) + i - 1] = k[i],
           NewBlock(size, k, m)
    PROVE  MemoryInv'
<1> DEFINE n == Len(blocks)
           at == BlockAt(size)
           more == [i \in 1..(size - Len(k)) |-> 10 * (n + 1) + i]
           text == k \o more
           rest == SubSeq(text, Len(k) + 1, size)
           new == [at |-> at, size |-> size, text |-> text]
<1>1. /\ HeapStart \in Nat /\ HeapStart > 0 /\ WordSize \in Nat /\ WordSize > 0 /\ HeapLimit \in Nat
      /\ Cur \in Nat /\ Cur >= HeapStart /\ n \in Nat /\ DOMAIN blocks = 1..n
      /\ heap \in {"m1", "tcc"} /\ blocks \in Seq(Blocks) /\ size \in Nat /\ Len(k) \in Nat
  BY MemoryNumbers, MemoryAssumption DEF MemoryInv
<1>2. /\ Need(size) \in Nat /\ Need(size) <= Widest /\ Widest \in Nat /\ at \in Nat /\ at >= Cur
      /\ at + size <= Cur + Need(size)
      /\ heap = "m1" => at = Cur + WordSize
      /\ heap = "tcc" => at = Cur
  <2>1. size <= Need(size)
    BY <1>1, NeedIs
  <2>2. heap = "m1" => Kept(size) + WordSize <= Need(size) /\ Kept(size) \in Nat /\ Kept(size) >= size
    BY <1>1, NeedIs DEF Kept
  <2>3. Need(size) \in Nat /\ Need(size) <= Widest /\ Widest \in Nat
        /\ (heap = "m1" => at = Cur + WordSize) /\ (heap = "tcc" => at = Cur)
    BY <1>1, NeedIs, AddressesAre
  <2> QED BY <1>1, <2>1, <2>2, <2>3
<1>3. /\ text \in Seq(Nat) /\ Len(text) = size
      /\ \A i \in 1..Len(k) : text[i] = k[i]
  <2>1. \A i \in 1..(size - Len(k)) : 10 * (n + 1) + i \in Nat
    BY <1>1
  <2>2. more \in Seq(Nat) /\ Len(more) = size - Len(k)
    BY <1>1, <2>1
  <2> HIDE DEF more
  <2> QED BY <1>1, <2>2
<1> HIDE DEF text, more
<1>4. rest \in Seq(Nat) /\ Len(rest) = size - Len(k) /\ \A i \in 1..(size - Len(k)) : rest[i] = text[Len(k) + i]
  BY <1>1, <1>3
<1>5. cur' = Cur + Need(size) /\ blocks' = Append(blocks, new) /\ mem' = Fill(m, at + Len(k), rest)
      /\ \A i \in 1..Len(k) : m[at + i - 1] = k[i]
  BY DEF NewBlock, new, text, more, rest
<1> HIDE DEF rest, at
<1>6. Cur + Need(size) <= HeapLimit + (n + 1) * Widest /\ Cur + Need(size) <= Top /\ (n + 1) * Widest \in Nat
  <2>1. Cur <= HeapLimit + n * Widest
    BY DEF MemoryInv
  <2>2. n * Widest \in Nat /\ (n + 1) * Widest = n * Widest + Widest
        /\ HeapLimit + (n + 1) * Widest + Widest <= Top /\ (n + 1) * Widest \in Nat
    <3>1. /\ n * Widest \in Nat /\ (n + 1) * Widest = n * Widest + Widest
          /\ HeapLimit + (n + 1) * Widest + Widest <= Top
      <4>1. n \in Nat /\ n < MaxBlocks
        BY <1>1
      <4> HIDE DEF n
      <4> QED BY <4>1, Space
    <3>2. n * Widest + Widest \in Nat
      BY <1>2, <3>1
    <3> QED BY <3>1, <3>2
  <2>3. Top \in Nat
    BY AddressesAre
  <2> QED BY <1>1, <1>2, <2>1, <2>2, <2>3
<1>7. \A a \in Addresses : a \in Nat
  BY AddressesAre
<1>8. ASSUME NEW a \in Addresses
      PROVE  mem'[a] = IF a \in (at + Len(k))..((at + Len(k)) + Len(rest) - 1)
                       THEN rest[a - (at + Len(k)) + 1] ELSE m[a]
  BY <1>5 DEF Fill
<1>9. mem' \in Contents
  <2>1. ASSUME NEW a \in Addresses PROVE mem'[a] \in Nat
    <3>1. m[a] \in Nat
      BY DEF Contents
    <3>2. ASSUME a \in (at + Len(k))..((at + Len(k)) + Len(rest) - 1)
          PROVE  rest[a - (at + Len(k)) + 1] \in Nat
      <4>1. at + Len(k) \in Nat /\ a \in Nat /\ Len(rest) \in Nat
        BY <1>1, <1>2, <1>4, <1>7
      <4>2. a - (at + Len(k)) + 1 \in 1..Len(rest)
        BY <3>2, <4>1
      <4>3. \A i \in 1..Len(rest) : rest[i] \in Nat
        BY <1>4
      <4> QED BY <4>2, <4>3
    <3> QED BY <1>8, <3>1, <3>2
  <2>2. mem' = [a \in Addresses |-> mem'[a]]
    BY <1>5 DEF Fill
  <2> QED BY <2>1, <2>2 DEF Contents
<1>10. ASSUME NEW a \in Addresses, a < at + Len(k) PROVE mem'[a] = m[a]
  <2>1. ~(a \in (at + Len(k))..((at + Len(k)) + Len(rest) - 1))
    BY <1>1, <1>2, <1>4, <1>7, <1>10
  <2> QED BY <1>8, <2>1
<1>11. ASSUME NEW i \in 1..size PROVE mem'[at + i - 1] = text[i]
  <2>1. at + i - 1 \in Addresses
    BY <1>1, <1>2, <1>6, AddressesAre
  <2>2. CASE i <= Len(k)
    <3>1. at + i - 1 < at + Len(k) /\ i \in 1..Len(k)
      BY <1>1, <1>2, <2>2
    <3> QED BY <1>3, <1>5, <1>10, <2>1, <3>1
  <2>3. CASE i > Len(k)
    <3> DEFINE a == at + i - 1
               j == i - Len(k)
    <3>1. /\ a \in (at + Len(k))..((at + Len(k)) + Len(rest) - 1)
          /\ a - (at + Len(k)) + 1 = j
          /\ j \in 1..(size - Len(k)) /\ Len(k) + j = i
      BY <1>1, <1>2, <1>4, <2>3
    <3>2. a \in Addresses
      BY <2>1
    <3> HIDE DEF a, j
    <3>3. mem'[a] = rest[j]
      BY <1>8, <3>1, <3>2
    <3>4. rest[j] = text[i]
      BY <1>4, <3>1
    <3> QED BY <3>3, <3>4 DEF a
  <2> QED BY <1>1, <2>2, <2>3
<1>12. /\ new \in Blocks /\ blocks' \in Seq(Blocks) /\ Len(blocks') = n + 1 /\ DOMAIN blocks' = 1..(n + 1)
       /\ \A b \in 1..n : blocks'[b] = blocks[b]
       /\ blocks'[n + 1].at = at /\ blocks'[n + 1].size = size /\ blocks'[n + 1].text = text
  <2>1. new \in Blocks
    BY <1>2, <1>3 DEF Blocks
  <2> QED BY <1>1, <1>5, <2>1
<1> HIDE DEF new
<1>13. Cur' = Cur + Need(size) /\ cur' # 0 /\ cur' \in Nat /\ cur' >= HeapStart
  <2>1. cur' \in Nat /\ cur' # 0 /\ cur' >= HeapStart
    BY <1>1, <1>2, <1>5
  <2> QED BY <1>5, <2>1 DEF Cur
<1>14. ASSUME NEW b \in 1..n
       PROVE  /\ blocks[b] \in Blocks /\ blocks[b].at \in Nat /\ blocks[b].size \in Nat
              /\ blocks[b].at >= HeapStart + (IF heap = "m1" THEN WordSize ELSE 0)
              /\ blocks[b].at + blocks[b].size <= Cur /\ Len(blocks[b].text) = blocks[b].size
  BY <1>1, BlockIs DEF MemoryInv, Placed
<1>15. \A b \in 1..(n + 1) : b \in 1..n \/ b = n + 1
  BY <1>1
<1>16. Placed'
  <2>1. ASSUME NEW b \in 1..(n + 1)
        PROVE  /\ blocks'[b].at >= HeapStart + (IF heap' = "m1" THEN WordSize ELSE 0)
               /\ blocks'[b].at + blocks'[b].size <= Cur' /\ Len(blocks'[b].text) = blocks'[b].size
    <3>1. CASE b \in 1..n
      <4>1. blocks'[b] = blocks[b] /\ Cur <= Cur'
        BY <1>1, <1>2, <1>12, <1>13, <3>1
      <4>2. Cur' \in Nat
        BY <1>1, <1>2, <1>13
      <4> QED BY <1>1, <1>14, <3>1, <4>1, <4>2
    <3>2. CASE b = n + 1
      <4>1. blocks'[b].at = at /\ blocks'[b].size = size /\ blocks'[b].text = text
        BY <1>12, <3>2
      <4>2. at >= HeapStart + (IF heap' = "m1" THEN WordSize ELSE 0)
        BY <1>1, <1>2
      <4>3. at + size <= Cur'
        BY <1>2, <1>13
      <4> QED BY <1>3, <4>1, <4>2, <4>3
    <3> QED BY <1>15, <3>1, <3>2
  <2>2. ASSUME NEW b \in 1..(n + 1), NEW c \in 1..(n + 1), b < c
        PROVE  blocks'[b].at + blocks'[b].size <= blocks'[c].at
    <3>1. b \in 1..n /\ b \in DOMAIN blocks
      BY <1>1, <2>2
    <3>2. CASE c \in 1..n
      BY <1>1, <1>12, <2>2, <3>1, <3>2 DEF MemoryInv, Placed
    <3>3. CASE c = n + 1
      <4>1. blocks'[c].at = at /\ blocks'[b] = blocks[b]
        BY <1>12, <3>1, <3>3
      <4>2. blocks[b].at \in Nat /\ blocks[b].size \in Nat /\ blocks[b].at + blocks[b].size <= Cur
        BY <1>14, <3>1
      <4>3. at \in Nat /\ at >= Cur /\ Cur \in Nat
        BY <1>1, <1>2
      <4>4. blocks[b].at + blocks[b].size <= at
        BY <4>2, <4>3
      <4> QED BY <4>1, <4>4
    <3> QED BY <1>15, <3>2, <3>3
  <2> QED BY <1>12, <2>1, <2>2 DEF Placed
<1>17. ASSUME NEW a \in Nat, a < Cur PROVE a \in Addresses /\ mem'[a] = mem[a]
  <2>1. a \in Addresses
    BY <1>1, <1>2, <1>6, <1>17, AddressesAre
  <2>2. a < at + Len(k)
    BY <1>1, <1>2, <1>17
  <2> QED BY <1>10, <1>17, <2>1, <2>2
<1>18. Sized'
  <2>1. ASSUME heap = "m1", NEW b \in 1..(n + 1)
        PROVE  mem'[blocks'[b].at - WordSize] = Kept(blocks'[b].size)
    <3>1. CASE b \in 1..n
      <4>1. blocks[b].at - WordSize \in Nat /\ blocks[b].at - WordSize < Cur
        <5> DEFINE p == blocks[b].at
                   z == blocks[b].size
        <5>1. p \in Nat /\ z \in Nat /\ p >= HeapStart + WordSize /\ p + z <= Cur
          BY <1>14, <2>1, <3>1
        <5> HIDE DEF p, z
        <5>2. p - WordSize \in Nat /\ p - WordSize < Cur
          BY <1>1, <5>1
        <5> QED BY <5>2 DEF p
      <4>2. mem[blocks[b].at - WordSize] = Kept(blocks[b].size)
        BY <1>1, <2>1, <3>1 DEF MemoryInv, Sized
      <4> QED BY <1>12, <1>17, <3>1, <4>1, <4>2
    <3>2. CASE b = n + 1
      <4>1. at - WordSize = Cur /\ Cur < at + Len(k)
        BY <1>1, <1>2, <2>1
      <4>2. Cur \in Addresses
        BY <1>1, <1>2, <1>6, AddressesAre
      <4>3. mem'[Cur] = Kept(size)
        BY <1>10, <2>1, <4>1, <4>2
      <4> QED BY <1>12, <3>2, <4>1, <4>3
    <3> QED BY <1>15, <3>1, <3>2
  <2> QED BY <1>12, <2>1 DEF Sized
<1>19. MemoryKept'
  <2>1. ASSUME NEW b \in 1..(n + 1), NEW i \in 1..(blocks'[b].size)
        PROVE  mem'[blocks'[b].at + i - 1] = blocks'[b].text[i]
    <3>1. CASE b \in 1..n
      <4>1. blocks'[b] = blocks[b] /\ i \in 1..(blocks[b].size)
        BY <1>12, <2>1, <3>1
      <4>2. blocks[b].at + i - 1 \in Nat /\ blocks[b].at + i - 1 < Cur
        BY <1>1, <1>14, <3>1, <4>1
      <4>3. mem[blocks[b].at + i - 1] = blocks[b].text[i]
        BY <1>1, <3>1, <4>1 DEF MemoryInv, MemoryKept
      <4> QED BY <1>17, <4>1, <4>2, <4>3
    <3>2. CASE b = n + 1
      <4>1. i \in 1..size
        BY <1>12, <2>1, <3>2
      <4> QED BY <1>11, <1>12, <3>2, <4>1
    <3> QED BY <1>15, <3>1, <3>2
  <2> QED BY <1>12, <2>1 DEF MemoryKept
<1>20. n + 1 <= MaxBlocks /\ cur' <= HeapLimit + (n + 1) * Widest
  <2>1. MaxBlocks \in Nat
    BY MemoryAssumption
  <2> QED BY <1>1, <1>5, <1>6, <2>1
<1>21. ~(heap' = "tcc" /\ refused') => Cur' <= sysBreak'
  BY <1>13 DEF Grown
<1>22. sysBreak' \in HeapStart..HeapLimit /\ refused' \in BOOLEAN /\ end' = sysBreak'
  BY DEF Grown
<1>23. Cur' <= HeapLimit + Len(blocks') * Widest
  BY <1>12, <1>13, <1>20, <1>5
<1> QED BY <1>1, <1>9, <1>12, <1>13, <1>16, <1>18, <1>19, <1>20, <1>21, <1>22, <1>23 DEF MemoryInv

\* The next block starts in memory.
LEMMA CurInMemory ==
    ASSUME MemoryInv
    PROVE  /\ Top \in Nat /\ Widest \in Nat /\ Cur <= Top
           /\ Len(blocks) < MaxBlocks => Cur + Widest <= Top
<1>1. /\ HeapLimit \in Nat /\ Len(blocks) \in Nat /\ Cur \in Nat /\ Cur <= HeapLimit + Len(blocks) * Widest
      /\ MaxBlocks \in Nat /\ Len(blocks) <= MaxBlocks /\ Top \in Nat /\ Widest \in Nat
  BY MemoryNumbers, AddressesAre, MemoryAssumption DEF MemoryInv
<1>2. CASE Len(blocks) < MaxBlocks
  <2>1. /\ Len(blocks) * Widest \in Nat /\ (Len(blocks) + 1) * Widest = Len(blocks) * Widest + Widest
        /\ HeapLimit + (Len(blocks) + 1) * Widest + Widest <= Top
    BY <1>1, <1>2, Space
  <2> QED BY <1>1, <2>1
<1>3. CASE Len(blocks) = MaxBlocks
  <2> DEFINE w == Widest
  <2> HIDE DEF w
  <2>1. (MaxBlocks + 1) * w = MaxBlocks * w + w /\ MaxBlocks * w \in Nat /\ w \in Nat
    BY <1>1 DEF w
  <2>2. Top = HeapLimit + (MaxBlocks + 1) * w /\ Cur <= HeapLimit + MaxBlocks * w
    BY <1>1, <1>3 DEF Top, w
  <2> QED BY <1>1, <1>3, <2>1, <2>2
<1> QED BY <1>1, <1>2, <1>3

\* The word in front of the next block.
LEMMA HeaderIs ==
    ASSUME MemoryInv, Len(blocks) < MaxBlocks, NEW size \in 0..MaxSize
    PROVE  /\ WithHeader(mem, size) \in Contents
           /\ \A a \in Addresses : a < Cur => WithHeader(mem, size)[a] = mem[a]
           /\ heap = "m1" => WithHeader(mem, size)[Cur] = Kept(size)
<1>1. Cur \in Nat /\ WordSize \in Nat /\ WordSize > 0 /\ Cur \in Addresses
  <2>1. Cur \in Nat /\ WordSize \in Nat /\ WordSize > 0 /\ Cur <= Top /\ Top \in Nat
    BY MemoryNumbers, CurInMemory
  <2> QED BY <2>1, AddressesAre
<1>2. mem \in Contents
  BY DEF MemoryInv
<1>3. CASE heap = "m1"
  <2> DEFINE h == Header(Kept(size))
             r == Fill(mem, Cur, h)
  <2>1. WithHeader(mem, size) = r
    BY <1>3 DEF WithHeader, Kept
  <2>2. Kept(size) \in Nat
    BY MemoryAssumption DEF Kept
  <2>3. h \in Seq(Nat) /\ Len(h) = WordSize /\ h[1] = Kept(size) /\ \A i \in 1..WordSize : h[i] \in Nat
    BY <1>1, <2>2 DEF Header
  <2> HIDE DEF h
  <2>4. r = [a \in Addresses |-> IF a \in Cur..(Cur + WordSize - 1) THEN h[a - Cur + 1] ELSE mem[a]]
    BY <2>3 DEF Fill
  <2> HIDE DEF r
  <2>5. \A a \in Addresses : a \in Nat
    BY AddressesAre
  <2>6. ASSUME NEW a \in Addresses
        PROVE  r[a] \in Nat /\ (a < Cur => r[a] = mem[a])
    <3>1. r[a] = IF a \in Cur..(Cur + WordSize - 1) THEN h[a - Cur + 1] ELSE mem[a]
      BY <2>4
    <3>2. a \in Cur..(Cur + WordSize - 1) => a - Cur + 1 \in 1..WordSize
      BY <1>1, <2>5
    <3>3. a < Cur => ~(a \in Cur..(Cur + WordSize - 1))
      BY <1>1, <2>5
    <3>4. mem[a] \in Nat
      BY <1>2 DEF Contents
    <3> QED BY <2>3, <3>1, <3>2, <3>3, <3>4
  <2>7. r \in Contents
    BY <2>4, <2>6 DEF Contents
  <2>8. r[Cur] = Kept(size)
    <3>1. Cur \in Cur..(Cur + WordSize - 1) /\ Cur - Cur + 1 = 1
      BY <1>1
    <3> QED BY <1>1, <2>3, <2>4, <3>1
  <2> QED BY <2>1, <2>6, <2>7, <2>8
<1>4. CASE heap # "m1"
  BY <1>2, <1>4 DEF WithHeader
<1> QED BY <1>3, <1>4

(***************************************************************************)
(* The steps.                                                              *)
(***************************************************************************)
\* xrealloc gives up.
LEMMA OutOfMemoryStep ==
    ASSUME MemoryInv, heap = "m1", UNCHANGED <<heap, sysBreak, cur, mem, blocks>>,
           end' = sysBreak, refused' \in BOOLEAN
    PROVE  MemoryInv'
<1>1. Cur' = Cur
  BY DEF Cur
<1>2. Placed' /\ Sized' /\ MemoryKept'
  BY <1>1 DEF MemoryInv, Placed, Sized, MemoryKept
<1> QED BY <1>1, <1>2 DEF MemoryInv

\* malloc, and xrealloc of no block.
LEMMA AllocateStep == ASSUME MemoryInv, NEW size \in 0..MaxSize, Allocate(size) PROVE MemoryInv'
<1>1. PICK got \in brk(Wanted(size)) \cup {sysBreak} :
         /\ Room(size, got)
         /\ IF OutOfMemory(size, got) THEN died' = TRUE /\ UNCHANGED <<cur, mem, blocks>>
            ELSE NewBlock(size, <<>>, WithHeader(mem, size)) /\ UNCHANGED died
  BY DEF Allocate
<1>2. Len(blocks) < MaxBlocks /\ UNCHANGED heap
  BY DEF Allocate
<1>3. CASE OutOfMemory(size, got)
  <2>1. UNCHANGED sysBreak /\ end' = sysBreak /\ refused' \in BOOLEAN /\ heap = "m1"
    BY <1>1, <1>3, RoomIs
  <2> QED BY <1>1, <1>2, <1>3, <2>1, OutOfMemoryStep
<1>4. CASE ~OutOfMemory(size, got)
  <2>1. Grown(size)
    BY <1>1, <1>4, RoomIs
  <2> DEFINE m == WithHeader(mem, size)
             k == <<>>
  <2>2. /\ m \in Contents /\ \A a \in Addresses : a < Cur => m[a] = mem[a]
        /\ heap = "m1" => m[Cur] = Kept(size)
    BY <1>2, HeaderIs
  <2>3. NewBlock(size, k, m)
    BY <1>1, <1>4
  <2>4. size \in Nat
    BY MemoryAssumption
  <2>5. k \in Seq(Nat) /\ Len(k) <= size /\ \A i \in 1..Len(k) : m[BlockAt(size) + i - 1] = k[i]
    BY <2>4
  <2> HIDE DEF m, k
  <2> QED BY <1>2, <2>1, <2>2, <2>3, <2>5, NewBlockIs
<1> QED BY <1>3, <1>4

\* The smaller of two sizes.
LEMMA MinTwo ==
    ASSUME NEW a \in Nat, NEW b \in Nat
    PROVE  Min({a, b}) \in Nat /\ Min({a, b}) <= a /\ Min({a, b}) <= b
<1>1. {a, b} \subseteq Nat /\ {a, b} # {}
  OBVIOUS
<1>2. Min({a, b}) \in {a, b} /\ \A n \in {a, b} : Min({a, b}) <= n
  BY <1>1, LeastNatural
<1> QED BY <1>2

\* What realloc copies: no more than the new block holds, and no less than the
\* two have in common.
LEMMA CopySizeIs ==
    ASSUME MemoryInv, NEW b \in DOMAIN blocks, NEW size \in 0..MaxSize
    PROVE  /\ CopySize(b, size) \in Nat /\ CopySize(b, size) <= size
           /\ Min({blocks[b].size, size}) <= CopySize(b, size)
<1>1. size \in Nat /\ blocks[b].size \in Nat
  BY BlockIs, MemoryAssumption DEF MemoryInv
<1>2. Min({blocks[b].size, size}) \in Nat /\ Min({blocks[b].size, size}) <= blocks[b].size
      /\ Min({blocks[b].size, size}) <= size
  BY <1>1, MinTwo
<1>3. CASE heap = "m1"
  <2>1. mem[blocks[b].at - WordSize] = Kept(blocks[b].size)
    BY <1>3 DEF MemoryInv, Sized
  <2>2. Kept(blocks[b].size) \in Nat /\ Kept(blocks[b].size) >= blocks[b].size
    BY <1>1 DEF Kept
  <2>3. CopySize(b, size) = IF Kept(blocks[b].size) < size THEN Kept(blocks[b].size) ELSE size
    BY <1>3, <2>1 DEF CopySize
  <2> QED BY <1>1, <1>2, <2>2, <2>3
<1>4. CASE heap # "m1"
  BY <1>1, <1>2, <1>4 DEF CopySize
<1> QED BY <1>3, <1>4

\* What realloc copies begins with what the old block held, even where the
\* copy reads on behind it.
LEMMA ReallocCopies ==
    ASSUME MemoryInv, Len(blocks) < MaxBlocks, NEW b \in DOMAIN blocks, NEW size \in 0..MaxSize
    PROVE  LET m == memcpy(WithHeader(mem, size), BlockAt(size), blocks[b].at, CopySize(b, size))
               k == SubSeq(blocks[b].text, 1, Min({blocks[b].size, size}))
           IN  /\ m \in Contents
               /\ \A a \in Addresses : a < Cur => m[a] = mem[a]
               /\ heap = "m1" => m[Cur] = Kept(size)
               /\ k \in Seq(Nat) /\ Len(k) <= size
               /\ \A i \in 1..Len(k) : m[BlockAt(size) + i - 1] = k[i]
<1> DEFINE w == WithHeader(mem, size)
           dest == BlockAt(size)
           src == blocks[b].at
           n == CopySize(b, size)
           m == memcpy(w, dest, src, n)
           least == Min({blocks[b].size, size})
           k == SubSeq(blocks[b].text, 1, least)
<1>1. /\ w \in Contents /\ \A a \in Addresses : a < Cur => w[a] = mem[a]
      /\ heap = "m1" => w[Cur] = Kept(size)
  BY HeaderIs
<1>2. n \in Nat /\ n <= size /\ least <= n
  BY CopySizeIs
<1>3. /\ size \in Nat /\ size <= MaxSize /\ MaxSize \in Nat /\ Widest \in Nat /\ MaxSize <= Widest
      /\ Cur \in Nat /\ Top \in Nat /\ Cur + Widest <= Top /\ WordSize \in Nat /\ WordSize > 0
  BY MemoryNumbers, CurInMemory, MemoryAssumption DEF Widest
<1>4. /\ src \in Nat /\ blocks[b].size \in Nat /\ src + blocks[b].size <= Cur
      /\ blocks[b].text \in Seq(Nat) /\ Len(blocks[b].text) = blocks[b].size
  BY BlockIs DEF MemoryInv, Placed
<1>5. least \in Nat /\ least <= blocks[b].size /\ least <= size
  BY <1>3, <1>4, MinTwo
<1>6. dest \in Nat /\ dest >= Cur /\ dest + size <= Top /\ (heap = "m1" => dest > Cur)
  <2>1. heap \in {"m1", "tcc"}
    BY DEF MemoryInv
  <2>2. /\ Need(size) \in Nat /\ size <= Need(size) /\ Need(size) <= Widest
        /\ heap = "m1" => Kept(size) + WordSize <= Need(size) /\ dest = Cur + WordSize
        /\ heap = "tcc" => Need(size) = size /\ dest = Cur
    BY <2>1, NeedIs
  <2>3. Kept(size) \in Nat /\ Kept(size) >= size
    BY <1>3 DEF Kept
  <2> QED BY <1>3, <2>1, <2>2, <2>3
<1>7. /\ k \in Seq(Nat) /\ Len(k) = least /\ \A i \in 1..least : k[i] = blocks[b].text[i]
  <2> DEFINE t == blocks[b].text
  <2>1. t \in Seq(Nat) /\ least \in 0..Len(t)
    BY <1>4, <1>5
  <2> HIDE DEF t, least
  <2>2. SubSeq(t, 1, least) \in Seq(Nat) /\ Len(SubSeq(t, 1, least)) = least
        /\ \A i \in 1..least : SubSeq(t, 1, least)[i] = t[i]
    BY <2>1
  <2> QED BY <2>2 DEF t
<1> HIDE DEF w, dest, src, n, least, k
<1>8. InMemory(src, n) /\ InMemory(dest, n)
  <2>1. ASSUME NEW j \in 0..(n - 1) PROVE src + j \in 0..Top /\ dest + j \in 0..Top
    BY <1>2, <1>3, <1>4, <1>6
  <2> QED BY <2>1, AddressesAre DEF InMemory
<1>9. /\ m \in Contents
      /\ \A a \in Addresses : Outside(a, dest, n) => m[a] = w[a]
      /\ \A j \in 0..(n - 1) : dest < src \/ src + j < dest => m[dest + j] = w[src + j]
  <2>1. w \in Contents /\ dest \in Nat /\ src \in Nat /\ n \in Nat
    BY <1>1, <1>2, <1>4, <1>6
  <2>2. Copying(memcpy(w, dest, src, n), w, dest, src, n)
    BY <1>8, <2>1, MemcpyBytes
  <2> QED BY <2>2 DEF Copying
<1> HIDE DEF m
<1>10. ASSUME NEW a \in Addresses, a < dest PROVE m[a] = w[a]
  BY <1>9, <1>10 DEF Outside
<1>11. ASSUME NEW a \in Addresses, a < Cur PROVE m[a] = mem[a]
  <2>1. a < dest
    BY <1>3, <1>6, <1>11, AddressesAre
  <2> QED BY <1>1, <1>10, <1>11, <2>1
<1>12. heap = "m1" => m[Cur] = Kept(size)
  <2>1. Cur \in Addresses
    BY <1>3, AddressesAre
  <2> QED BY <1>1, <1>6, <1>10, <2>1
<1>13. ASSUME NEW i \in 1..Len(k) PROVE m[dest + i - 1] = k[i]
  <2>1. i - 1 \in 0..(n - 1) /\ i \in 1..least /\ i \in 1..(blocks[b].size)
    <3>1. i \in 1..least
      BY <1>7
    <3> DEFINE whole == blocks[b].size
    <3>2. whole \in Nat /\ least <= whole
      BY <1>4, <1>5
    <3> HIDE DEF whole
    <3>3. i \in 1..whole /\ i - 1 \in 0..(n - 1)
      BY <1>2, <1>5, <3>1, <3>2
    <3> QED BY <3>1, <3>3 DEF whole
  <2>2. src + (i - 1) < Cur /\ src + (i - 1) < dest /\ src + (i - 1) \in Addresses
        /\ dest + (i - 1) = dest + i - 1 /\ src + (i - 1) = src + i - 1
    <3> DEFINE whole == blocks[b].size
    <3>1. /\ src \in Nat /\ whole \in Nat /\ src + whole <= Cur /\ i \in 1..whole
          /\ Cur \in Nat /\ Top \in Nat /\ Cur <= Top /\ dest \in Nat /\ dest >= Cur
      BY <1>3, <1>4, <1>6, <2>1
    <3> HIDE DEF whole
    <3>2. src + (i - 1) \in 0..Top
      BY <3>1
    <3> QED BY <3>1, <3>2, AddressesAre
  <2>3. m[dest + (i - 1)] = w[src + (i - 1)]
    BY <1>9, <2>1, <2>2
  <2>4. w[src + (i - 1)] = mem[src + (i - 1)]
    BY <1>1, <2>2
  <2>5. mem[src + i - 1] = blocks[b].text[i]
    BY <2>1 DEF MemoryInv, MemoryKept, src
  <2> QED BY <1>7, <2>1, <2>2, <2>3, <2>4, <2>5
<1>14. Len(k) <= size
  BY <1>5, <1>7
<1> QED BY <1>7, <1>9, <1>11, <1>12, <1>13, <1>14 DEF m, k, w, dest, src, n, least

\* realloc and xrealloc of a block.
LEMMA ReallocStep ==
    ASSUME MemoryInv, NEW b \in DOMAIN blocks, NEW size \in 0..MaxSize, realloc(b, size)
    PROVE  MemoryInv'
<1> DEFINE m == memcpy(WithHeader(mem, size), BlockAt(size), blocks[b].at, CopySize(b, size))
           k == SubSeq(blocks[b].text, 1, Min({blocks[b].size, size}))
<1>1. PICK got \in brk(Wanted(size)) \cup {sysBreak} :
         /\ Room(size, got)
         /\ IF OutOfMemory(size, got) THEN died' = TRUE /\ UNCHANGED <<cur, mem, blocks>>
            ELSE NewBlock(size, k, m) /\ UNCHANGED died
  BY DEF realloc
<1>2. Len(blocks) < MaxBlocks /\ UNCHANGED heap
  BY DEF realloc
<1>3. CASE OutOfMemory(size, got)
  <2>1. UNCHANGED sysBreak /\ end' = sysBreak /\ refused' \in BOOLEAN /\ heap = "m1"
    BY <1>1, <1>3, RoomIs
  <2> QED BY <1>1, <1>2, <1>3, <2>1, OutOfMemoryStep
<1>4. CASE ~OutOfMemory(size, got)
  <2>1. Grown(size)
    BY <1>1, <1>4, RoomIs
  <2>2. /\ m \in Contents /\ \A a \in Addresses : a < Cur => m[a] = mem[a]
        /\ heap = "m1" => m[Cur] = Kept(size)
        /\ k \in Seq(Nat) /\ Len(k) <= size
        /\ \A i \in 1..Len(k) : m[BlockAt(size) + i - 1] = k[i]
    BY <1>2, ReallocCopies
  <2>3. NewBlock(size, k, m)
    BY <1>1, <1>4
  <2> HIDE DEF m, k
  <2> QED BY <1>2, <2>1, <2>2, <2>3, NewBlockIs
<1> QED BY <1>3, <1>4

\* Byte i of the block after the move is byte j of those that were moved.
LEMMA MovedFrom ==
    ASSUME NEW dest \in Nat, NEW src \in Nat, NEW n \in Nat, NEW size \in Nat, NEW at \in Nat,
           dest + n <= size, src + n <= size, NEW i \in (dest + 1)..(dest + n)
    PROVE  /\ i - dest + src \in 1..size /\ i \in 1..size
           /\ i - dest - 1 \in 0..(n - 1)
           /\ (at + dest) + (i - dest - 1) = at + i - 1
           /\ (at + src) + (i - dest - 1) = at + (i - dest + src) - 1
  OBVIOUS

\* memmove within the last block.
LEMMA MoveStep ==
    ASSUME MemoryInv, NEW b \in DOMAIN blocks, NEW dest \in 0..MaxSize, NEW src \in 0..MaxSize,
           NEW n \in 0..MaxSize, Move(b, dest, src, n)
    PROVE  MemoryInv'
<1> DEFINE at == blocks[b].at
           size == blocks[b].size
           t == blocks[b].text
           u == [i \in 1..size |-> IF i \in (dest + 1)..(dest + n) THEN t[i - dest + src] ELSE t[i]]
           r == memmove(mem, at + dest, at + src, n)
<1>1. /\ heap = "tcc" /\ b = Len(blocks) /\ dest + n <= size /\ src + n <= size /\ dest # src
      /\ mem' = r /\ blocks' = [blocks EXCEPT ![b].text = u]
      /\ UNCHANGED <<heap, sysBreak, cur, end, refused>>
  BY DEF Move
<1>2. /\ at \in Nat /\ size \in Nat /\ size \in 0..MaxSize /\ t \in Seq(Nat) /\ Len(t) = size
      /\ at + size <= Cur /\ blocks[b] \in Blocks
  BY BlockIs DEF MemoryInv, Placed
<1>3. /\ Cur \in Nat /\ Top \in Nat /\ Cur <= Top /\ dest \in Nat /\ src \in Nat /\ n \in Nat
      /\ DOMAIN blocks = 1..Len(blocks) /\ Len(blocks) \in Nat /\ blocks \in Seq(Blocks)
  BY MemoryNumbers, CurInMemory, MemoryAssumption DEF MemoryInv
<1>4. u \in Seq(Nat) /\ Len(u) = size /\ DOMAIN u = 1..size
      /\ \A i \in 1..size : u[i] = IF i \in (dest + 1)..(dest + n) THEN t[i - dest + src] ELSE t[i]
  <2>1. ASSUME NEW i \in 1..size
        PROVE  (IF i \in (dest + 1)..(dest + n) THEN t[i - dest + src] ELSE t[i]) \in Nat
    <3> HIDE DEF t, size
    <3>1. ASSUME i \in (dest + 1)..(dest + n) PROVE i - dest + src \in 1..size
      <4>1. dest + n <= size /\ src + n <= size /\ size \in Nat /\ dest \in Nat /\ src \in Nat /\ n \in Nat
        BY <1>1, <1>2, <1>3
      <4> QED BY <3>1, <4>1
    <3>2. \A j \in 1..size : t[j] \in Nat
      BY <1>2
    <3> QED BY <3>1, <3>2
  <2> DEFINE F(i) == IF i \in (dest + 1)..(dest + n) THEN t[i - dest + src] ELSE t[i]
  <2>2. u = [i \in 1..size |-> F(i)]
    OBVIOUS
  <2>3. \A i \in 1..size : F(i) \in Nat
    BY <2>1
  <2>4. size \in Nat
    BY <1>2
  <2> HIDE DEF t, size, F, u
  <2>5. u \in Seq(Nat) /\ Len(u) = size /\ DOMAIN u = 1..size /\ \A i \in 1..size : u[i] = F(i)
    BY <2>2, <2>3, <2>4
  <2> QED BY <2>5 DEF F
<1> HIDE DEF u
<1>5. /\ blocks' \in Seq(Blocks) /\ Len(blocks') = Len(blocks) /\ DOMAIN blocks' = DOMAIN blocks
      /\ \A c \in DOMAIN blocks : c # b => blocks'[c] = blocks[c]
      /\ blocks'[b].at = at /\ blocks'[b].size = size /\ blocks'[b].text = u
  <2>1. [blocks[b] EXCEPT !.text = u] \in Blocks
    BY <1>2, <1>4 DEF Blocks
  <2>2. blocks' = [blocks EXCEPT ![b] = [blocks[b] EXCEPT !.text = u]]
    BY <1>1
  <2>3. [blocks[b] EXCEPT !.text = u] = [at |-> at, size |-> size, text |-> u]
    BY <1>2 DEF Blocks
  <2> QED BY <1>3, <2>1, <2>2, <2>3
<1> HIDE DEF t, size, at
<1>6. /\ r \in Contents
      /\ \A a \in Addresses : Outside(a, at + dest, n) => r[a] = mem[a]
      /\ \A j \in 0..(n - 1) : r[(at + dest) + j] = mem[(at + src) + j]
  <2> DEFINE d == at + dest
             s == at + src
  <2>1. d \in Nat /\ s \in Nat /\ d # s /\ d + n <= Top /\ s + n <= Top
    BY <1>1, <1>2, <1>3
  <2>2. mem \in Contents
    BY DEF MemoryInv
  <2> HIDE DEF d, s
  <2>3. InMemory(s, n) /\ InMemory(d, n)
    BY <1>3, <2>1, AddressesAre DEF InMemory
  <2>4. n \in Nat
    BY <1>3
  <2>5. Moved(memmove(mem, d, s, n), mem, d, s, n)
    BY <2>1, <2>2, <2>3, <2>4, MemmoveBytes
  <2> QED BY <2>5 DEF d, s, Moved
<1> HIDE DEF r, at
<1>7. Cur' = Cur
  BY <1>1 DEF Cur
<1>8. ASSUME NEW c \in DOMAIN blocks
      PROVE  blocks'[c].at = blocks[c].at /\ blocks'[c].size = blocks[c].size
  BY <1>5 DEF at, size
<1>9. ASSUME NEW c \in DOMAIN blocks PROVE Len(blocks'[c].text) = blocks'[c].size
  BY <1>4, <1>5 DEF MemoryInv, Placed
<1>10. Placed'
  BY <1>1, <1>5, <1>7, <1>8, <1>9 DEF MemoryInv, Placed
<1>11. ASSUME NEW c \in DOMAIN blocks, NEW i \in 1..(blocks[c].size)
       PROVE  r[blocks[c].at + i - 1] = blocks'[c].text[i]
  <2> DEFINE a == blocks[c].at + i - 1
  <2>1. /\ a \in Addresses /\ a \in Nat /\ blocks[c].at \in Nat /\ blocks[c].size \in Nat /\ c \in 1..Len(blocks)
    <3>1. blocks[c].at \in Nat /\ blocks[c].size \in Nat /\ blocks[c].at + blocks[c].size <= Cur
      BY BlockIs DEF MemoryInv, Placed
    <3>2. a \in Nat /\ a <= Top
      <4> DEFINE p == blocks[c].at
                 z == blocks[c].size
      <4>1. p \in Nat /\ z \in Nat /\ p + z <= Cur /\ i \in 1..z
        BY <3>1
      <4> HIDE DEF p, z
      <4>2. p + i - 1 \in Nat /\ p + i - 1 <= Top
        BY <1>3, <4>1
      <4> QED BY <4>2 DEF p
    <3> QED BY <1>3, <3>1, <3>2, AddressesAre
  <2>2. mem[a] = blocks[c].text[i]
    BY DEF MemoryInv, MemoryKept
  <2>3. CASE c # b
    <3>1. blocks[c].at + blocks[c].size <= at
      <4>1. c < b
        BY <1>1, <1>3, <2>1, <2>3
      <4> QED BY <4>1 DEF MemoryInv, Placed, at
    <3>2. Outside(a, at + dest, n)
      <4>1. a < at
        <5> DEFINE p == blocks[c].at
                   z == blocks[c].size
        <5>1. p \in Nat /\ z \in Nat /\ p + z <= at /\ i \in 1..z
          BY <2>1, <3>1
        <5> HIDE DEF p, z
        <5>2. p + i - 1 < at
          BY <1>2, <5>1
        <5> QED BY <5>2 DEF p
      <4>2. at \in Nat /\ dest \in Nat /\ a \in Nat
        BY <1>2, <1>3, <2>1
      <4> HIDE DEF a
      <4> QED BY <4>1, <4>2 DEF Outside
    <3> QED BY <1>5, <1>6, <2>1, <2>2, <2>3, <3>2
  <2>4. CASE c = b /\ i \in (dest + 1)..(dest + n)
    <3> DEFINE j == i - dest - 1
    <3>1. j \in 0..(n - 1) /\ (at + dest) + j = at + i - 1 /\ (at + src) + j = at + (i - dest + src) - 1
          /\ i - dest + src \in 1..size
      <4>1. dest + n <= size /\ src + n <= size /\ size \in Nat /\ dest \in Nat /\ src \in Nat /\ n \in Nat
            /\ at \in Nat
        BY <1>1, <1>2, <1>3
      <4> QED BY <2>4, <4>1, MovedFrom
    <3>2. r[(at + dest) + j] = mem[(at + src) + j]
      BY <1>6, <3>1
    <3>3. mem[at + (i - dest + src) - 1] = t[i - dest + src]
      BY <3>1 DEF MemoryInv, MemoryKept, at, size, t
    <3>4. i \in 1..size /\ a = at + i - 1
      BY <2>4 DEF at, size
    <3>5. blocks'[c].text[i] = t[i - dest + src]
      BY <1>4, <1>5, <2>4, <3>4
    <3> QED BY <3>1, <3>2, <3>3, <3>4, <3>5
  <2>5. CASE c = b /\ ~(i \in (dest + 1)..(dest + n))
    <3>1. i \in 1..size /\ a = at + i - 1
      BY <2>5 DEF at, size
    <3>2. Outside(a, at + dest, n)
      BY <1>2, <1>3, <2>5, <3>1 DEF Outside
    <3>3. blocks'[c].text[i] = t[i] /\ t[i] = blocks[c].text[i]
      BY <1>4, <1>5, <2>5, <3>1 DEF t
    <3> QED BY <1>6, <2>1, <2>2, <3>2, <3>3
  <2> QED BY <2>3, <2>4, <2>5
<1>12. MemoryKept'
  BY <1>1, <1>5, <1>8, <1>11 DEF MemoryKept
<1>13. Sized'
  BY <1>1 DEF Sized
<1>14. cur' = 0 => blocks' = <<>>
  <2>1. cur' = 0 => FALSE
    <3>1. ASSUME cur = 0 PROVE FALSE
      <4>1. Len(blocks) = 0
        BY <3>1 DEF MemoryInv
      <4> QED BY <1>3, <4>1
    <3> QED BY <1>1, <3>1
  <2> QED BY <2>1
<1> QED BY <1>1, <1>5, <1>6, <1>7, <1>10, <1>12, <1>13, <1>14 DEF MemoryInv

\* Every call keeps the invariant.
LEMMA MemoryStep == MemoryInv /\ [MemoryNext]_memoryVars => MemoryInv'
<1> SUFFICES ASSUME MemoryInv, [MemoryNext]_memoryVars PROVE MemoryInv'
  OBVIOUS
<1>1. CASE UNCHANGED memoryVars
  <2>1. Cur' = Cur
    BY <1>1 DEF memoryVars, Cur
  <2>2. Placed' /\ Sized' /\ MemoryKept'
    BY <1>1, <2>1 DEF memoryVars, MemoryInv, Placed, Sized, MemoryKept
  <2> QED BY <1>1, <2>1, <2>2 DEF memoryVars, MemoryInv
<1>2. CASE MemoryNext
  BY <1>2, AllocateStep, ReallocStep, MoveStep DEF MemoryNext
<1> QED BY <1>1, <1>2

\* Blocks lie one behind another below the next free byte, every block holds
\* what the program has put there, and that of xrealloc its size.
THEOREM MemoryInvariant == MemorySpec => []MemoryInv
BY MemoryStart, MemoryStep, PTL DEF MemorySpec

\* No block is changed through another, and all of them are memory the process
\* has, for blocks of every size, however often brk(2) refuses.
THEOREM HeapStaysSound == MemorySpec => []HeapSound
BY MemoryInvariant, MemoryInvSound, PTL
==================================================================================
