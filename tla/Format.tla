--------------------------------- MODULE Format ---------------------------------
(***************************************************************************)
(* Formatted text: hcc_vformat (fprintf, sprintf, snprintf) and vsnprintf  *)
(* of hcc/support/tcc-bootstrap-support.c, and cstr_printf, with which     *)
(* hcc/support/tcc-final-overrides.c replaces TinyCC's own.  One action is *)
(* one turn of the loop over the format.                                   *)
(*                                                                         *)
(* A character is a string, the end of a text is NUL.  A long has LongBits *)
(* bits, an int IntBits.  The caller writes a format piece by piece; the   *)
(* pieces say what each directive means and the value that goes with it.   *)
(* The functions see the characters and the argument words only.           *)
(***************************************************************************)
EXTENDS Integers, Sequences, SequencesExt

CONSTANTS
    IntBits, LongBits,   \* the widths of int and long
    MaxRoom              \* the sizes of buffers tried are 0..MaxRoom

ASSUME FormatAssumption ==
    IntBits \in Nat \ {0} /\ LongBits \in Nat \ {0} /\ IntBits < LongBits /\ MaxRoom \in Nat

VARIABLES
    fn,          \* the function called
    pieces,      \* the format, piece by piece (history)
    size,        \* the size of the buffer it is given
    pos, arg,    \* fmt and arg, counted from 1
    out          \* text: what is written; total: the count to return;
                 \* room: the size of the buffer; high: the bytes used of it

formatVars == <<fn, pieces, size, pos, arg, out>>

NUL == "NUL"
Null == <<"null pointer">>
NullText == <<"(", "n", ")">>     \* for "(null)"
DigitChars == <<"0", "1", "2", "3", "4", "5", "6", "7", "8", "9", "a", "b", "c", "d", "e", "f">>

(***************************************************************************)
(* The pieces of a format: the directive, its meaning and its value.       *)
(***************************************************************************)
Piece(chars, conv, left, width, prec, long, numbers, texts) ==
    {[chars |-> chars, conv |-> conv, left |-> left, width |-> width, prec |-> prec,
      long |-> long, number |-> n, text |-> t] : n \in numbers, t \in texts}

Ints == {0, 2 ^ (IntBits - 1) - 1, -1, -(2 ^ (IntBits - 1))}
Longs == {2 ^ (LongBits - 1) - 1, -1, -(2 ^ (LongBits - 1))}
Unsigneds == {0, 9, 10, 2 ^ IntBits - 1}
UnsignedLongs == {2 ^ (LongBits - 1), 2 ^ LongBits - 1}
Texts == {<<>>, <<"p", "q", "r">>, Null}

\* Pieces every function knows, those with a width, and those with a precision.
Plain ==
    Piece(<<"x">>, "text", FALSE, 0, -1, FALSE, {0}, {<<>>})
      \cup Piece(<<"%", "%">>, "%", FALSE, 0, -1, FALSE, {0}, {<<>>})
      \cup Piece(<<"%", "d">>, "d", FALSE, 0, -1, FALSE, Ints, {<<>>})
      \cup Piece(<<"%", "l", "d">>, "d", FALSE, 0, -1, TRUE, Longs, {<<>>})
      \cup Piece(<<"%", "l", "u">>, "u", FALSE, 0, -1, TRUE, UnsignedLongs, {<<>>})
      \cup Piece(<<"%", "x">>, "x", FALSE, 0, -1, FALSE, Unsigneds, {<<>>})
      \cup Piece(<<"%", "s">>, "s", FALSE, 0, -1, FALSE, {0}, Texts)
      \cup Piece(<<"%", "c">>, "c", FALSE, 0, -1, FALSE, {0}, {<<"z">>})
Padded ==
    Piece(<<"%", "4", "d">>, "d", FALSE, 4, -1, FALSE, Ints, {<<>>})
      \cup Piece(<<"%", "-", "4", "l", "d">>, "d", TRUE, 4, -1, TRUE, Longs, {<<>>})
      \cup Piece(<<"%", "2", "u">>, "u", FALSE, 2, -1, FALSE, Unsigneds, {<<>>})
      \cup Piece(<<"%", "-", "2", "s">>, "s", TRUE, 2, -1, FALSE, {0}, Texts)
      \cup Piece(<<"%", "1", "0", "s">>, "s", FALSE, 10, -1, FALSE, {0}, {<<"p">>})
      \cup Piece(<<"%", "2", "c">>, "c", FALSE, 2, -1, FALSE, {0}, {<<"z">>})
Limited ==
    Piece(<<"%", ".", "2", "s">>, "s", FALSE, 0, 2, FALSE, {0}, Texts)
      \cup UNION {Piece(<<"%", ".", "*", "s">>, "s", FALSE, 0, n, FALSE, {0}, Texts) : n \in {-1, 1}}
\* What C does not define: an unknown directive, and a format that ends in %.
Odd == Piece(<<"%", "k">>, "odd", FALSE, 0, -1, FALSE, {0}, {<<>>}) \cup Piece(<<"%">>, "odd", FALSE, 0, -1, FALSE, {0}, {<<>>})

Known(f) == CASE f = "hcc_vformat" -> Plain \cup Padded
              [] f = "vsnprintf"   -> Plain \cup Padded \cup Limited
              [] f = "cstr_printf" -> Plain \cup Limited

\* Second pieces: enough to see the text and the arguments go on correctly.
Second(f) == {p \in Plain : p.chars \in {<<"x">>, <<"%", "%">>} \/ (p.conv = "d" /\ p.number = -1)} \cup Odd

\* The words the caller passes.  An int in a va_list leaves the upper half of
\* its word undefined; the other functions take longs.
Word(n, long) ==
    IF fn = "vsnprintf" /\ ~long THEN (n % 2 ^ IntBits) + 2 ^ IntBits ELSE n % 2 ^ LongBits
Words(p) ==
    LET limit == IF "*" \in Range(p.chars) THEN <<[word |-> Word(p.prec, FALSE), text |-> <<>>]>> ELSE <<>>
    IN  IF p.conv \in {"text", "%", "odd"} THEN <<>>
        ELSE limit \o <<[word |-> Word(p.number, p.long), text |-> p.text]>>

fmt == FlattenSeq([k \in DOMAIN pieces |-> pieces[k].chars])
args == FlattenSeq([k \in DOMAIN pieces |-> Words(pieces[k])])

FormatInit ==
    /\ fn \in {"hcc_vformat", "vsnprintf", "cstr_printf"}
    /\ pieces \in {<<p>> : p \in Known(fn) \cup Odd} \cup {<<p, q>> : p \in Known(fn), q \in Second(fn)}
    /\ size \in 0..MaxRoom
    /\ pos = 1 /\ arg = 1
    /\ out = [text |-> <<>>, total |-> 0, room |-> size, high |-> 0]

(***************************************************************************)
(* Putting characters.                                                     *)
(***************************************************************************)
\* hcc_append_char: end is the last byte of the buffer, which is for the NUL.
hcc_append_char(o, c) ==
    LET fits == Len(o.text) < o.room - 1
    IN  [o EXCEPT !.text = IF fits THEN Append(@, c) ELSE @,
                  !.high = IF fits THEN @ + 1 ELSE @,
                  !.total = @ + 1]

\* Mutant: no room for the NUL.
MutNoNul(o) == IF Len(o.text) + 1 > o.room THEN 2 * (Len(o.text) + 1) ELSE o.room

\* hcc_cstr_need: the room there is once one more character fits.
hcc_cstr_need(o) ==
    LET need == Len(o.text) + 1 + 1 IN IF need > o.room THEN 2 * need ELSE o.room

\* hcc_cstr_char: the character, and a NUL behind it.
hcc_cstr_char(o, c) ==
    [o EXCEPT !.text = Append(@, c), !.room = hcc_cstr_need(o), !.high = Len(o.text) + 2, !.total = @ + 1]

PutChar(o, c) == IF fn = "cstr_printf" THEN hcc_cstr_char(o, c) ELSE hcc_append_char(o, c)
Put(o, cs) == FoldLeft(PutChar, o, cs)

\* hcc_append_padding
Spaces(width, used) == [k \in 1..(IF width > used THEN width - used ELSE 0) |-> " "]

(***************************************************************************)
(* Numbers and texts.                                                      *)
(***************************************************************************)
Signed(w, bits) == LET low == w % 2 ^ bits IN IF low >= 2 ^ (bits - 1) THEN low - 2 ^ bits ELSE low

\* hcc_unsigned_len
hcc_unsigned_len(base) ==
    LET len[v \in Nat] == IF v < base THEN 1 ELSE 1 + len[v \div base] IN len

\* hcc_append_unsigned: the digits, last to first, put out first to last.
Digits(base) ==
    LET digits[v \in Nat] == IF v = 0 THEN <<>> ELSE Append(digits[v \div base], DigitChars[(v % base) + 1])
    IN  digits
hcc_append_unsigned(v, base) == IF v = 0 THEN <<"0">> ELSE Digits(base)[v]

\* The negation of a long, taken as an unsigned long.
Negated(v) == (-v) % 2 ^ LongBits

\* Mutant: the sign is not counted.
MutNoSign(v) == IF v < 0 THEN hcc_unsigned_len(10)[Negated(v)] ELSE hcc_unsigned_len(10)[v]

hcc_signed_len(v) == IF v < 0 THEN 1 + hcc_unsigned_len(10)[Negated(v)] ELSE hcc_unsigned_len(10)[v]
hcc_append_signed(v) ==
    IF v < 0 THEN <<"-">> \o hcc_append_unsigned(Negated(v), 10) ELSE hcc_append_unsigned(v, 10)

\* hcc_string_n_len, hcc_append_string_limit, hcc_cstr_string: limit < 0 is none.
Limit(text, limit) ==
    LET t == IF text = Null THEN NullText ELSE text
    IN  IF limit < 0 \/ limit >= Len(t) THEN t ELSE SubSeq(t, 1, limit)

(***************************************************************************)
(* A directive.  i is the place of a character of the format.              *)
(***************************************************************************)
At(i) == IF i <= Len(fmt) THEN fmt[i] ELSE NUL
Skip(i, c) == IF At(i) = c THEN i + 1 ELSE i
DigitOf(c) == SelectInSeq(SubSeq(DigitChars, 1, 10), LAMBDA d : d = c) - 1
AfterDigits(i) == CHOOSE j \in i..(Len(fmt) + 1) :
                     (\A k \in i..(j - 1) : DigitOf(At(k)) >= 0) /\ DigitOf(At(j)) < 0
NumberAt(i) == FoldLeft(LAMBDA v, c : 10 * v + DigitOf(c), 0, SubSeq(fmt, i, AfterDigits(i) - 1))

\* hcc_format_arg, hcc_arg, va_arg.  Only an unknown directive asks for an
\* argument the caller has not passed, and it makes no use of it.
ArgAt(k) == IF k <= Len(args) THEN args[k] ELSE [word |-> 0, text |-> <<>>]

\* What is read of a directive from the character behind its %: does it pad on
\* the left, the width, the precision, is there an l, the next argument, and
\* the place of the conversion.  cstr_printf has no '-' and skips a width;
\* hcc_vformat has no precision.
Directive(i) ==
    LET dash  == IF fn = "cstr_printf" THEN i ELSE Skip(i, "-")
        dot   == AfterDigits(dash)
        limit == fn # "hcc_vformat" /\ At(dot) = "."
        star  == limit /\ At(dot + 1) = "*"
        next  == IF ~limit THEN dot ELSE IF star THEN dot + 2 ELSE AfterDigits(dot + 1)
        ell   == Skip(next, "l")
    IN  [left  |-> dash > i,
         width |-> IF fn = "cstr_printf" THEN 0 ELSE NumberAt(dash),
         prec  |-> IF ~limit THEN -1
                   ELSE IF star THEN Signed(ArgAt(arg).word, IntBits) ELSE NumberAt(dot + 1),
         long  |-> ell > next,
         arg   |-> IF star THEN arg + 1 ELSE arg,
         at    |-> IF fn = "vsnprintf" /\ ell > next THEN Skip(ell, "l") ELSE ell]

\* The text of a conversion and the length its padding is computed from.
Converted(c, d) ==
    LET a     == ArgAt(d.arg)
        short == fn = "vsnprintf" /\ ~d.long
        int   == Signed(a.word, IF short THEN IntBits ELSE LongBits)
        word  == a.word % 2 ^ (IF short THEN IntBits ELSE LongBits)
    IN  CASE c = "s" -> [text |-> Limit(a.text, d.prec), used |-> Len(Limit(a.text, d.prec))]
          [] c \in {"d", "i"} -> [text |-> hcc_append_signed(int), used |-> hcc_signed_len(int)]
          [] c = "u" -> [text |-> hcc_append_unsigned(word, 10), used |-> hcc_unsigned_len(10)[word]]
          [] c \in {"x", "X"} -> [text |-> hcc_append_unsigned(word, 16), used |-> hcc_unsigned_len(16)[word]]
          [] c = "c" -> [text |-> a.text, used |-> 1]

\* A character of the format that stands for itself.
Literal ==
    /\ At(pos) \notin {"%", NUL}
    /\ out' = Put(out, <<At(pos)>>)
    /\ pos' = pos + 1
    /\ UNCHANGED <<fn, pieces, size, arg>>

\* hcc_vformat, vsnprintf, cstr_printf: a turn of the loop that meets a %.
\* %% takes no argument; an unknown directive takes none in vsnprintf.
Conversion ==
    LET d == Directive(pos + 1)
        c == At(d.at)
        v == Converted(c, d)
        pad == Spaces(d.width, v.used)
    IN  /\ At(pos) = "%"
        /\ \/ /\ c \in {"s", "d", "i", "u", "x", "X", "c"}
              /\ out' = Put(out, IF d.left THEN v.text \o pad ELSE pad \o v.text)
              /\ arg' = d.arg + 1
           \/ /\ c = "%"
              /\ out' = Put(out, <<"%">>)
              /\ arg' = d.arg
           \/ /\ c \notin {"s", "d", "i", "u", "x", "X", "c", "%"}
              /\ out' = Put(out, <<"%", c>>)
              /\ arg' = IF fn = "vsnprintf" THEN d.arg ELSE d.arg + 1
        /\ pos' = IF c = NUL THEN d.at ELSE d.at + 1
        /\ UNCHANGED <<fn, pieces, size>>

\* The end of the format: the buffer is closed with a NUL.
Close ==
    /\ At(pos) = NUL /\ pos <= Len(fmt) + 1
    /\ pos' = Len(fmt) + 2
    /\ out' = IF fn # "cstr_printf" /\ size > 0 THEN [out EXCEPT !.high = @ + 1] ELSE out
    /\ UNCHANGED <<fn, pieces, size, arg>>

FormatNext == Literal \/ Conversion \/ Close

(***************************************************************************)
(* Properties.                                                             *)
(***************************************************************************)
\* No function writes past its buffer: hcc_append_char keeps the last byte for
\* the NUL, and hcc_cstr_need makes room for a character and its NUL.
FormatInRoom == out.high <= out.room

\* What a piece stands for: the number in the base, positionally.
Numeral(v, base) ==
    LET n == CHOOSE k \in 1..LongBits : v < base ^ k /\ (k > 1 => v >= base ^ (k - 1))
    IN  [k \in 1..n |-> DigitChars[((v \div base ^ (n - k)) % base) + 1]]
Meant(p) ==
    CASE p.conv = "text" -> p.chars
      [] p.conv = "%" -> <<"%">>
      [] p.conv = "d" -> IF p.number < 0 THEN <<"-">> \o Numeral(-p.number, 10) ELSE Numeral(p.number, 10)
      [] p.conv = "u" -> Numeral(p.number, 10)
      [] p.conv = "x" -> Numeral(p.number, 16)
      [] p.conv = "c" -> p.text
      [] p.conv = "s" -> LET t == IF p.text = Null THEN NullText ELSE p.text
                         IN  SubSeq(t, 1, IF p.prec < 0 THEN Len(t) ELSE Min({p.prec, Len(t)}))
Field(p) ==
    LET t == Meant(p)  blanks == [k \in 1..(p.width - Len(t)) |-> " "]
    IN  IF p.left THEN t \o blanks ELSE blanks \o t
Formatted == FlattenSeq([k \in DOMAIN pieces |-> Field(pieces[k])])

\* The text is what the format and the values mean, and the count that is
\* returned is the length of all of it even when the buffer holds only its
\* beginning: the lengths the padding is computed from are those of the texts
\* put out, the most negative number included, and the arguments stay in step
\* with the directives (hcc_vformat, vsnprintf, cstr_printf).
FormatAgrees ==
    pos = Len(fmt) + 2 /\ (\A k \in DOMAIN pieces : pieces[k].conv # "odd") =>
        /\ out.total = Len(Formatted)
        /\ out.text = IF fn = "cstr_printf" THEN Formatted
                      ELSE IF size = 0 THEN <<>>
                      ELSE SubSeq(Formatted, 1, IF Len(Formatted) < size THEN Len(Formatted) ELSE size - 1)

\* The text is right and stays in its buffer, of whatever size (hcc_vformat,
\* vsnprintf, cstr_printf).
FormatRight == FormatInRoom /\ FormatAgrees
=============================================================================
