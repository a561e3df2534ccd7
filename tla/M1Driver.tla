-------------------------------- MODULE M1Driver --------------------------------
(***************************************************************************)
(* hcc-m1 as a program (hcc/cbits/hcc_m1.c: main, read_line,               *)
(* translate_ir_module and the parse_ir functions): it reads the IR line   *)
(* by line, each into LINE_CAP bytes, and prints an item as soon as its    *)
(* last line has been read.  What the instructions of a function become is *)
(* the subject of M1Alloc, M1Emit and M1Target: here a function is printed *)
(* as its name and its lines.  The text goes through stdio: in the seed    *)
(* build m1_checked_write ends the program at the first write that fails,  *)
(* on a hosted system the stream remembers it.                             *)
(*                                                                         *)
(* The end of the file and a read error are the same to fgetc: inp is what *)
(* fgetc gives before either, pos how much of it has been read.            *)
(***************************************************************************)
EXTENDS HccDrivers

CONSTANT LineCap     \* LINE_CAP

ASSUME LineCapAssumption == LineCap \in Nat \ {0}

\* What hcc-m1 writes by itself.
ASSUME CharsAssumption == {"DEFINE", ":", "0", "&"} \subseteq Chars

VARIABLES
    inp, pos,        \* what can be read, and how much of it has been
    mode,            \* the function that reads: "top", "data", "function", "block"
    item,            \* the text of the item that is being read
    pending,         \* text the stream keeps back
    ferror           \* has a write of the stream failed?

m1Vars == <<inp, pos, mode, item, pending, ferror>>

M1Fresh ==
    /\ inp' = <<>> /\ pos' = 0 /\ mode' = "top" /\ item' = <<>>
    /\ pending' = <<>> /\ ferror' = FALSE

M1Keep == UNCHANGED <<m2, ret, buffer, result, handles, obufs, given, stage, todo, lines, path>>

(***************************************************************************)
(* read_line                                                               *)
(***************************************************************************)
Unread == SubSeq(inp, pos + 1, Len(inp))

\* Where the first line of a text ends: at a newline, or where the text does.
LineEnd(text) == SelectInSeq(text \o <<"nl">>, LAMBDA c : c = "nl") - 1

\* Carriage returns do not count, anywhere in the line.
LineOf(text) ==
    FlattenSeq([i \in 1..LineEnd(text) |-> IF text[i] = "cr" THEN <<>> ELSE <<text[i]>>])

Line == LineOf(Unread)
Advance == pos' = Min({pos + LineEnd(Unread) + 1, Len(inp)}) /\ UNCHANGED inp

\* Mutant: the end of the input is taken for the end of one more line.
MutNeverEof == FALSE

\* read_line returns 0: the end was reached before any character.
AtEof == Line = <<>> /\ LineEnd(Unread) = Len(Unread)

TooLong == Len(Line) + 1 > LineCap

(***************************************************************************)
(* The items.                                                              *)
(***************************************************************************)
Starts(line, c) == line # <<>> /\ line[1] = c

\* append_zero_data_values, append_data_value: the cells of one line.
Cells(line) ==
    CASE Starts(line, "z") -> [i \in 1..SelectInSeq(Digits, LAMBDA d : d = line[2]) |-> "0"]
      [] Starts(line, "b") -> <<line[2]>>
      [] Starts(line, "a") -> <<"&">>

DataLine(line) ==
    Len(line) > 1 /\ (Starts(line, "z") \/ Starts(line, "b") \/ Starts(line, "a"))

\* (A letter that needs an operand and has none is refused by need_token.)
\* One line, as the function that reads it takes it; "bad" ends in die.
\* translate_ir_module
TopLine(line) ==
    IF Starts(line, "D") /\ Len(line) > 1 THEN [mode |-> "data", text |-> <<":", line[2]>>]
    ELSE IF Starts(line, "F") /\ Len(line) > 1 THEN [mode |-> "function", text |-> <<":", line[2]>>]
    ELSE [mode |-> IF line = <<>> THEN "top" ELSE "bad", text |-> <<>>]

\* parse_ir_data_item
DataItemLine(line) ==
    IF line = <<"E">> THEN [mode |-> "top", text |-> <<>>]
    ELSE IF DataLine(line) THEN [mode |-> "data", text |-> Cells(line)]
    ELSE [mode |-> "bad", text |-> <<>>]

\* parse_ir_function
FunctionLine(line) ==
    IF line = <<"E">> THEN [mode |-> "top", text |-> <<>>]
    ELSE [mode |-> IF Starts(line, "L") /\ Len(line) > 1 THEN "block" ELSE "bad", text |-> <<>>]

\* parse_ir_block: an instruction, or the terminator.
BlockLine(line) ==
    IF Starts(line, "R") THEN [mode |-> "function", text |-> line]
    ELSE IF Starts(line, "k") THEN [mode |-> "block", text |-> line]
    ELSE [mode |-> "bad", text |-> <<>>]

Taken(line) ==
    CASE mode = "top"      -> TopLine(line)
      [] mode = "data"     -> DataItemLine(line)
      [] mode = "function" -> FunctionLine(line)
      [] mode = "block"    -> BlockLine(line)

(***************************************************************************)
(* The program.                                                            *)
(***************************************************************************)
M1Ready == stage = "hcc-m1" /\ Ready

\* die: exit(1) may still write what the stream keeps back.
m1_die ==
    /\ exited' = "fail" /\ pc' = "end"
    /\ \/ disk' = disk
       \/ disk' = [disk EXCEPT !["m"] = @ \o pending]
    /\ NoFault /\ M1Keep /\ UNCHANGED <<m1Vars, out, misread>>

\* main: the input may not open; what will be read of it is cut by an error.
M1OpenInput ==
    /\ M1Ready /\ pc = "read"
    /\ \E n \in 0..Len(disk["r"]) :
         /\ IF n = Len(disk["r"]) THEN NoFault ELSE Fault
         /\ inp' = SubSeq(disk["r"], 1, n)
         /\ misread' = (misread \/ n < Len(disk["r"]))
    /\ pc' = "open"
    /\ M1Keep /\ UNCHANGED <<exited, out, disk, pos, mode, item, pending, ferror>>

\* cannot open input, cannot open output
M1CannotOpen ==
    /\ M1Ready /\ pc \in {"read", "open"}
    /\ Fault /\ exited' = "fail" /\ pc' = "end"
    /\ M1Keep /\ UNCHANGED <<m1Vars, out, misread, disk>>

M1OpenOutput ==
    /\ M1Ready /\ pc = "open"
    /\ disk' = [disk EXCEPT !["m"] = <<>>]
    /\ pc' = "header"
    /\ NoFault /\ M1Keep /\ UNCHANGED <<m1Vars, out, misread, exited>>

BadHeader == AtEof \/ TooLong \/ Line # <<"H">>

M1Header ==
    /\ M1Ready /\ pc = "header"
    /\ IF BadHeader THEN m1_die
       ELSE /\ pc' = "translate"
            /\ Advance
            /\ pending' = pending \o <<"DEFINE">>        \* emit_header
            /\ NoFault /\ M1Keep /\ UNCHANGED <<exited, out, disk, misread, mode, item, ferror>>

\* The end of the input inside an item.
EndsInside(m) == m # "top"

TranslateEof ==
    /\ M1Ready /\ pc = "translate" /\ AtEof
    /\ IF EndsInside(mode) THEN m1_die
       ELSE /\ pc' = "ferror"
            /\ NoFault /\ M1Keep /\ UNCHANGED <<exited, out, disk, misread, m1Vars>>

\* A line; the last one of an item prints it.
TranslateLine ==
    /\ M1Ready /\ pc = "translate" /\ ~AtEof
    /\ LET t == Taken(Line) IN
       IF TooLong \/ t.mode = "bad" THEN m1_die
       ELSE /\ Advance
            /\ mode' = t.mode
            /\ IF t.mode = "top" THEN item' = <<>> /\ pending' = pending \o item \o t.text
               ELSE item' = item \o t.text /\ UNCHANGED pending
            /\ NoFault /\ M1Keep /\ UNCHANGED <<exited, out, disk, misread, pc, ferror>>

\* Stdio writes what it keeps back when its buffer is full; fflush asks for it.
M1Spill ==
    /\ M1Ready /\ pc \in {"translate", "ferror"} /\ pending # <<>>
    /\ out' = [file |-> "m", rest |-> pending] /\ pending' = <<>>
    /\ NoFault /\ M1Keep /\ UNCHANGED <<exited, disk, misread, pc, inp, pos, mode, item, ferror>>

\* One write(2): m1_checked_write leaves at once, without writing anything
\* more; the hosted stream drops the text and remembers the error.
m1_checked_write ==
    /\ stage = "hcc-m1" /\ exited = "no" /\ out.rest # <<>>
    /\ \E n \in WriteResults :
         /\ IF n >= 0 THEN NoFault ELSE Fault
         /\ IF n > 0
            THEN /\ disk' = [disk EXCEPT !["m"] = @ \o SubSeq(out.rest, 1, n)]
                 /\ out' = [out EXCEPT !.rest = SubSeq(@, n + 1, Len(@))]
                 /\ UNCHANGED <<exited, ferror>>
            ELSE /\ out' = NoWrite
                 /\ exited' = IF m2 THEN "fail" ELSE "no"
                 /\ ferror' = (ferror \/ ~m2)
                 /\ UNCHANGED disk
    /\ M1Keep /\ UNCHANGED <<misread, pc, inp, pos, mode, item, pending>>

\* Mutant: only the last flush is looked at.
MutNotChecked == FALSE

WriteFailed == ferror

\* ferror, fflush, fclose: the last two fail with the write they ask for.
M1Finish ==
    /\ M1Ready /\ pc = "ferror"
    /\ \/ WriteFailed /\ m1_die
       \/ /\ ~WriteFailed /\ pending = <<>>
          /\ \/ Fault /\ exited' = "fail"
             \/ NoFault /\ exited' = "ok"
          /\ pc' = "end"
          /\ M1Keep /\ UNCHANGED <<m1Vars, out, disk, misread>>

HccM1 == M1OpenInput \/ M1CannotOpen \/ M1OpenOutput \/ M1Header \/ TranslateEof
         \/ TranslateLine \/ M1Spill \/ m1_checked_write \/ M1Finish
=============================================================================
