-------------------------------- MODULE MCLibrary -------------------------------
(***************************************************************************)
(* The parts of the bootstrap C library and of materialize-object-script,  *)
(* side by side: a behaviour is one of one part, the others stand still.   *)
(***************************************************************************)
EXTENDS Stdio, Format, Numbers, Memory, ObjectScript

VARIABLE part

vars == <<part, stdioVars, formatVars, numberVars, memoryVars, scriptVars>>

(***************************************************************************)
(* Values of the constants.                                                *)
(***************************************************************************)
\* Sizes and counts for fwrite; the last product is too large for a size_t.
SomeItems == {<<1, 3>>, <<2, 1>>, <<2, 2>>}

\* Small numbers, numbers about every power of two and about the largest
\* unsigned long (2^15 - 1), and numbers of up to 21 bits.
SomeNumbers ==
    (0..40) \cup UNION {{2 ^ j - 1, 2 ^ j, 2 ^ j + 1} : j \in 0..23}
      \cup {n * 4099 : n \in 0..400} \cup (32755..32780)

\* Lines of object scripts: headers, with names that fit the path (8 characters
\* with the directory) or not, that fit the line (19 characters) but no path, or
\* are no names; lines of payloads, one of which begins like an end.
Cat(n) == CatText \o n \o <<" ", "<", LF>>
Eof == Append(EofText, LF)
EofCR == EofText \o <<CR, LF>>
Ob == <<".", "o", "b">>
NameA == <<"x">> \o Ob
NameB == <<"y", "z">> \o Ob
Broad == <<"x", "y", "z">> \o Ob
BadHeaders == {Cat(<<"x", "/", "y">> \o Ob), Cat(<<".">> \o Ob), Cat(<<"x", "y", ".", "o">>),
               Cat(<<"x", ".">> \o Ob), Cat([i \in 1..6 |-> "x"] \o Ob), CatText \o NameA \o <<LF>>,
               Cat(Broad)}
Payload == <<"p", LF>>
LikeEnd == EofText \o <<"p", LF>>
LongLine == [i \in 1..19 |-> "p"] \o <<LF>>
Object(n, body, e) == <<Cat(n)>> \o body \o <<e>>
Documents ==
    {Object(n, b, Eof) : n \in {NameA, NameB},
                         b \in {<<>>, <<Payload>>, <<LikeEnd>>, <<LongLine>>, <<<<LF>>, Cat(NameB)>>}}
WithoutEnd(s) == [s EXCEPT ![Len(s)] = Front(@)]
SomeScripts ==
    SeqOf({<<CR, LF>>, Cat(NameA), Payload, Eof}, 3)
      \cup {<<h>> : h \in BadHeaders} \cup {Object(NameA, <<>>, Eof) \o <<h>> : h \in BadHeaders}
      \cup {d \o e : d \in Documents,
                     e \in {Object(NameA, <<LikeEnd>>, Eof), Object(NameB, <<Payload>>, Eof), <<<<LF>>>>, <<>>}}
      \cup {WithoutEnd(d) : d \in Documents}
      \cup {Object(NameB, <<Payload>>, EofCR), Object(Broad, <<>>, Eof), <<Front(LongLine)>>, <<LongLine>>}

(***************************************************************************)
(* A part that stands still.                                               *)
(***************************************************************************)
StdioStill ==
    /\ fds = Standard /\ hcc_standard_errors = [s \in Standard |-> FALSE] /\ hcc_streams = <<>>
    /\ full = "no" /\ call = Idle /\ held = {} /\ raw = {} /\ failed = {} /\ peak = 0
FormatStill ==
    /\ fn = "hcc_vformat" /\ pieces = <<>> /\ size = 0 /\ pos = 2 /\ arg = 1
    /\ out = [text |-> <<>>, total |-> 0, room |-> 0, high |-> 0]
NumbersStill ==
    /\ lib = "mes" /\ negative = FALSE /\ number = 0 /\ base = 10
    /\ read = 1 /\ integer = 0 /\ exp2 = 0 /\ double = Zero
MemoryStill ==
    /\ heap = "tcc" /\ sysBreak = HeapStart /\ cur = 0 /\ end = 0 /\ mem = [a \in Addresses |-> 0]
    /\ blocks = <<>> /\ died = FALSE /\ refused = FALSE
ScriptStill ==
    /\ stage = "idle" /\ script = <<>> /\ next = 1 /\ from = 1 /\ seen = <<>> /\ name = <<>> /\ kept = <<>>
    /\ wrote_any = FALSE /\ objects = <<>> /\ runs = 0 /\ faulted = FALSE

Init ==
    /\ part \in {"stdio", "format", "numbers", "memory", "script"}
    /\ IF part = "stdio" THEN StdioInit ELSE StdioStill
    /\ IF part = "format" THEN FormatInit ELSE FormatStill
    /\ IF part = "numbers" THEN NumbersInit ELSE NumbersStill
    /\ IF part = "memory" THEN MemoryInit ELSE MemoryStill
    /\ IF part = "script" THEN ScriptInit ELSE ScriptStill

Next ==
    \/ part = "stdio" /\ StdioNext /\ UNCHANGED <<part, formatVars, numberVars, memoryVars, scriptVars>>
    \/ part = "format" /\ FormatNext /\ UNCHANGED <<part, stdioVars, numberVars, memoryVars, scriptVars>>
    \/ part = "numbers" /\ NumbersNext /\ UNCHANGED <<part, stdioVars, formatVars, memoryVars, scriptVars>>
    \/ part = "memory" /\ MemoryNext /\ UNCHANGED <<part, stdioVars, formatVars, numberVars, scriptVars>>
    \/ part = "script" /\ ScriptNext /\ UNCHANGED <<part, stdioVars, formatVars, numberVars, memoryVars>>

Spec == Init /\ [][Next]_vars /\ StdioFairness
=============================================================================
