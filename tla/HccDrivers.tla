------------------------------- MODULE HccDrivers -------------------------------
(***************************************************************************)
(* The two Haskell programs of the tool chain as they use the runtime:     *)
(* hcpp (hcc/src/MainCpp.hs) writes the preprocessed text to its standard  *)
(* output, hcc1 (hcc/src/MainCc1.hs, Hcc/HccSystem.hs, Hcc/M1Ir.hs) writes *)
(* the IR to a file, through an output buffer that is handed to the file   *)
(* only when everything has been lowered.                                  *)
(*                                                                         *)
(* A source is a list of declarations, each written as its name and ";".   *)
(* What the other models say of preprocessing, parsing and lowering is     *)
(* reduced to which declarations are refused, and when.  A line of IR is a *)
(* sequence of characters; pc is the place in the program, todo the text   *)
(* still to be put into a buffer, lines the lines still to be written.     *)
(***************************************************************************)
EXTENDS Runtime

CONSTANTS
    Values,          \* the data values of each global: "0", a byte or an address
    Code,            \* the IR lines of each function the lowering accepts
    Literal,         \* the functions with a string literal, and its data item
    RefusedByCpp,    \* what hcpp refuses
    RefusedEarly,    \* declarations whose registration fails
    RefusedLate,     \* functions whose lowering fails
    Cwd              \* the working directory, as the parts of its path

VARIABLES
    stage,           \* the program that runs, or has run last
    pc, todo, lines,
    path,            \* the output path given to hcc1, as its parts
    misread          \* was an input cut short by a read error in this attempt?

driverVars == <<stage, pc, todo, lines, path, misread>>

Goto(p) == pc' = p /\ UNCHANGED <<todo, lines>>
Keep == UNCHANGED <<stage, path, misread, m2>>
Io == <<exited, handles, out, disk>>

\* The next piece hccBufferText and hccWriteBufferedText put.
Piece(text) == IF Len(text) >= 8 THEN 8 ELSE IF Len(text) >= 4 THEN 4 ELSE 1
FirstOf(text) == SubSeq(text, 1, Piece(text))
After(text, n) == SubSeq(text, n + 1, Len(text))

\* die: a message, then hcc_exit_failure.
die ==
    /\ hcc_exit_failure
    /\ Goto("end") /\ NoFault
    /\ UNCHANGED <<ret, buffer, result, handles, obufs, given>>

(***************************************************************************)
(* Declarations and the IR that is written for them.                       *)
(***************************************************************************)
\* A text without its last newline; the names stand before the ";".
Declared(text) == IF text # <<>> /\ Last(text) = "nl" THEN Front(text) ELSE text
Names(text) == [i \in 1..(Len(Declared(text)) \div 2) |-> Declared(text)[2 * i - 1]]

\* What is left of a text that was cut inside a declaration does not parse.
Parses(text) == Len(Declared(text)) % 2 = 0

Digits == <<"1", "2", "3", "4", "5", "6", "7", "8", "9">>

\* Mutant: the value after the run is counted, too.
MutLongRun(values) ==
    LET run == {n \in 1..Len(values) : \A i \in 1..(n - 1) : values[i] = "0"}
    IN  CHOOSE n \in run : \A k \in run : k <= n

\* zeroRun: how many zeros the values begin with.
zeroRun(values) ==
    LET run == {n \in 1..Len(values) : \A i \in 1..n : values[i] = "0"}
    IN  CHOOSE n \in run : \A k \in run : k <= n

\* emitDataValuesIr: the line for the values from the i-th on, unless the value
\* belongs to a run of zeros that has begun.
ValueLine(values, i) ==
    CASE values[i] = "0" /\ (i = 1 \/ values[i - 1] # "0") ->
           <<<<"z", Digits[zeroRun(SubSeq(values, i, Len(values)))]>>>>
      [] values[i] = "0" /\ i > 1 /\ values[i - 1] = "0" -> <<>>
      [] values[i] = "&" -> <<<<"a", "q">>>>
      [] OTHER -> <<<<"b", values[i]>>>>

\* emitDataItemIr
DataLines(label, values) ==
    <<<<"D", label>>>>
      \o FlattenSeq([i \in 1..Len(values) |-> ValueLine(values, i)])
      \o <<<<"E">>>>

\* emitFunctionIr, and the data items that lowering the function has left.
FunctionLines(f) ==
    <<<<"F", f>>>> \o Code[f] \o <<<<"E">>>>
      \o IF f \in DOMAIN Literal THEN DataLines(Literal[f].label, Literal[f].values) ELSE <<>>

\* The lines each declaration leads to.
DataItems == [d \in DOMAIN Values |-> DataLines(d, Values[d])]
Functions == [f \in DOMAIN Code |-> FunctionLines(f)]

\* All lines and data are over the characters that files may hold.
ASSUME LinesAssumption ==
    /\ {"nl", ";", "H"} \subseteq Chars
    /\ Cwd \in Text
    /\ \A d \in DOMAIN Values : DataItems[d] \in Seq(Text)
    /\ \A f \in DOMAIN Code : Functions[f] \in Seq(Text)

\* registerTopDeclsIr, then emitM1IrStreamingWithDataPrefixTarget: nothing when
\* a registration fails; the header, all data, and the functions before the
\* first one that is refused.
Registered(names) == \A i \in 1..Len(names) : names[i] \notin RefusedEarly
Lowered(names) == Registered(names) /\ \A i \in 1..Len(names) : names[i] \notin RefusedLate
BeforeRefused(names) ==
    SelectInSeq(names \o <<"none">>, LAMBDA d : d \in RefusedLate \cup {"none"}) - 1

Printed(names) ==
    IF ~Registered(names) THEN <<>>
    ELSE <<<<"H">>>>
           \o FlattenSeq([i \in 1..Len(names) |->
                IF names[i] \in DOMAIN Values THEN DataItems[names[i]] ELSE <<>>])
           \o FlattenSeq([i \in 1..BeforeRefused(names) |->
                IF names[i] \in DOMAIN Code THEN Functions[names[i]] ELSE <<>>])

(***************************************************************************)
(* hcpp                                                                    *)
(***************************************************************************)
Reading(f, next) ==
    /\ Ready
    /\ hcc_read_file(f)
    /\ misread' = (misread \/ (ret' = 1 /\ result'.data # disk[f]))
    /\ pc' = next
    /\ UNCHANGED <<stage, path, m2, todo, lines, buffer, obufs, given>> /\ UNCHANGED Io

CppRead == pc = "read" /\ stage = "hcpp" /\ Reading("s", "preprocess")

\* preprocessFile: the text is rendered only when there was no error.
CppRefuse ==
    /\ Ready /\ pc = "preprocess"
    /\ ret = 0 \/ \E i \in 1..Len(result.data) : result.data[i] \in RefusedByCpp
    /\ die /\ Keep

\* withBuffer: the text goes into the buffer in pieces.
CppRender ==
    /\ Ready /\ pc = "preprocess"
    /\ ret = 1 /\ \A i \in 1..Len(result.data) : result.data[i] \notin RefusedByCpp
    /\ hcc_buffer_clear
    /\ pc' = "put" /\ todo' = result.data \o <<"nl">>
    /\ NoFault /\ Keep /\ UNCHANGED <<ret, result, obufs, given, lines>> /\ UNCHANGED Io

hccBufferText ==
    /\ Ready /\ pc = "put" /\ todo # <<>>
    /\ hcc_buffer_put(FirstOf(todo))
    /\ todo' = After(todo, Piece(todo))
    /\ NoFault /\ Keep /\ UNCHANGED <<pc, ret, result, obufs, given, lines>> /\ UNCHANGED Io

hccPutStr ==
    /\ Ready /\ pc = "put" /\ todo = <<>>
    /\ hcc_stdout_buffer("i")
    /\ Goto("exit")
    /\ NoFault /\ Keep /\ UNCHANGED <<ret, buffer, result, obufs, given, exited, handles, disk>>

hccExitSuccess ==
    /\ Ready /\ pc = "exit"
    /\ hcc_exit_success
    /\ Goto("end")
    /\ Keep /\ UNCHANGED <<ret, buffer, result, obufs, given, handles>>

(***************************************************************************)
(* hcc1                                                                    *)
(***************************************************************************)
\* Mutant: "." is taken for a name.
MutDotIsName(parts) == SelectSeq(parts, LAMBDA c : c \notin {"", "/"})

\* pathParts: the names of a path; "." and empty ones do not count.
pathParts(parts) == SelectSeq(parts, LAMBDA c : c \notin {"", "/", "."})

absolutePath(cwd, parts) == IF parts[1] = "/" THEN parts ELSE cwd \o parts

InputPath == <<"i">>

\* The names the system follows for a path, and the file it finds (no part is
\* "..").
SystemNames(parts) == SelectSeq(absolutePath(Cwd, parts), LAMBDA c : c \notin {"", "/", "."})
FileAt(parts) == Last(SystemNames(parts))

Cc1Read == pc = "read" /\ stage = "hcc1" /\ Reading("i", "parse")

Cc1Refuse ==
    /\ Ready /\ pc = "parse"
    /\ ret = 0 \/ ~Parses(result.data)
    /\ die /\ Keep

\* The program is kept by its names; hccPathsLexicallyEqual asks for the
\* working directory.
Cc1Parse ==
    /\ Ready /\ pc = "parse" /\ ret = 1 /\ Parses(result.data)
    /\ todo' = Names(result.data)
    /\ hcc_getcwd(Cwd)
    /\ pc' = "same"
    /\ Keep /\ UNCHANGED <<lines, buffer, obufs, given>> /\ UNCHANGED Io

SamePath == pathParts(absolutePath(result.data, InputPath)) = pathParts(absolutePath(result.data, path))

Cc1SamePath ==
    /\ Ready /\ pc = "same"
    /\ ret = 0 \/ SamePath
    /\ die /\ Keep

hccWithOpenWriteFile ==
    /\ Ready /\ pc = "same" /\ ret = 1 /\ ~SamePath
    /\ hcc_open_write(FileAt(path))
    /\ Goto("opened")
    /\ Keep /\ UNCHANGED <<exited, out, buffer, result, obufs>>

Cc1NotOpened == Ready /\ pc = "opened" /\ ret = 0 /\ die /\ Keep

\* Mutant: as hccWithHandleLineWriter, which hands over what it has even when
\* a function is refused.
MutWithHandleLineWriter == pc' = "write"

\* hccWithTransactionalLineWriter: a refused program leaves the buffer unused.
hccWithTransactionalLineWriter == pc' = IF Lowered(todo) THEN "write" ELSE "free"

\* hccWithObuf; the one handle and the one buffer are the first entries.
hccWithObuf ==
    /\ Ready /\ pc = "opened" /\ ret # 0
    /\ hcc_obuf_new(FirstCap)
    /\ pc' = "line" /\ lines' = Printed(todo)
    /\ NoFault /\ Keep /\ UNCHANGED <<todo, buffer, result, given>> /\ UNCHANGED Io

\* hccWriteTransactionLine: a line in pieces, then its end.
hccWriteTransactionLine ==
    /\ Ready /\ pc = "line" /\ lines # <<>>
    /\ IF lines[1] # <<>>
       THEN /\ hcc_obuf_put(ret, FirstOf(lines[1]))
            /\ lines' = [lines EXCEPT ![1] = After(@, Piece(@))]
       ELSE /\ hcc_obuf_put(ret, <<"nl">>)
            /\ lines' = Tail(lines)
    /\ NoFault /\ Keep /\ UNCHANGED <<pc, todo, ret, buffer, result, given>> /\ UNCHANGED Io

Cc1Lowered ==
    /\ Ready /\ pc = "line" /\ lines = <<>>
    /\ hccWithTransactionalLineWriter
    /\ NoFault /\ Keep /\ UNCHANGED <<todo, lines, ret, buffer, result, obufs, given>> /\ UNCHANGED Io

Cc1Write ==
    /\ Ready /\ pc = "write"
    /\ hcc_obuf_write(1, ret)
    /\ Goto("flush")
    /\ NoFault /\ Keep /\ UNCHANGED <<ret, buffer, result, obufs>>

Cc1Flush ==
    /\ Ready /\ pc = "flush"
    /\ hcc_handle_flush(1)
    /\ Goto("free")
    /\ NoFault /\ Keep /\ UNCHANGED <<ret, buffer, result, obufs, given>>

Cc1Free ==
    /\ Ready /\ pc = "free"
    /\ hcc_obuf_free(ret)
    /\ Goto("close")
    /\ NoFault /\ Keep /\ UNCHANGED <<ret, buffer, result, given>> /\ UNCHANGED Io

Cc1Close ==
    /\ Ready /\ pc = "close"
    /\ hcc_close(1)
    /\ Goto(IF Lowered(todo) THEN "exit" ELSE "refused")
    /\ Keep /\ UNCHANGED <<ret, buffer, result, obufs>>

Cc1Die == Ready /\ pc = "refused" /\ die /\ Keep

HsWriting == stage \in {"hcpp", "hcc1"} /\ Writing /\ UNCHANGED driverVars

Hcpp == CppRead \/ CppRefuse \/ CppRender \/ hccBufferText \/ hccPutStr
Hcc1 == Cc1Read \/ Cc1Refuse \/ Cc1Parse \/ Cc1SamePath \/ hccWithOpenWriteFile
        \/ Cc1NotOpened \/ hccWithObuf \/ hccWriteTransactionLine \/ Cc1Lowered
        \/ Cc1Write \/ Cc1Flush \/ Cc1Free \/ Cc1Close \/ Cc1Die
=============================================================================
