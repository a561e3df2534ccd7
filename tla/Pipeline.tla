-------------------------------- MODULE Pipeline --------------------------------
(***************************************************************************)
(* The tool chain as the build scripts run it (scripts/tinycc-boot-hcc.sh, *)
(* scripts/lib): hcpp with its output redirected, hcc1, hcc-m1, each only  *)
(* after the one before has reported success.  A build may be interrupted  *)
(* at any moment and started again from the beginning, on the files that   *)
(* are left; hcc-m1 may also be given any other file.  A third kind of run *)
(* is a program that calls the runtime in any order (Runtime!Client).      *)
(*                                                                         *)
(* Each program is shown to implement Publish, the promise about the file  *)
(* it writes, and the chain of them to turn a source into its translation. *)
(***************************************************************************)
EXTENDS M1Driver

CONSTANTS
    Sources,         \* the sources that are built
    Paths,           \* the spellings of the output path of hcc1
    HandWritten,     \* the IR files hcc-m1 is also given
    MaxTries,        \* how often a build is started
    MaxFaults        \* how many system calls fail, or programs are stopped, in each job

\* The build gives hcc1 a file of its own to write; files other than the four of
\* the build are in no program's way.
ASSUME PipelineAssumption ==
    /\ {"s", "i", "r", "m"} \subseteq Files
    /\ ClientFiles \cap {"s", "i", "r", "m"} = {}
    /\ Sources \subseteq Text /\ HandWritten \subseteq Text
    /\ \A p \in Paths : FileAt(p) \in {"i", "r"}
    /\ MaxTries \in Nat /\ MaxFaults \in [{"build", "m1", "client"} -> Nat]

\* A path that leads to the input of hcc1 goes through the same directories:
\* there are no links.
ASSUME PathsAssumption == \A p \in Paths : FileAt(p) = "i" => SystemNames(p) = SystemNames(InputPath)

VARIABLES
    job,             \* "build", "m1" or "client"
    tries,           \* how often the build may still be started
    last,            \* the outcome of the last run of each program
    should           \* what the program is to write, by what it has read, and
                     \* whether it is to accept it (history)

vars == <<runtimeVars, driverVars, m1Vars, job, tries, last, should>>

Nothing == [text |-> <<>>, whole |-> TRUE]

Programs == {"hcpp", "hcc1", "hcc-m1"}

\* The text of a source.
Written(names) == FlattenSeq([i \in 1..Len(names) |-> <<names[i], ";">>])

Disk(s, r) == [f \in Files |-> IF f = "s" THEN s ELSE IF f = "r" THEN r ELSE <<>>]

Init ==
    /\ m2 \in BOOLEAN
    /\ job \in {"build", "m1", "client"}
    /\ CASE job = "build"  -> /\ disk \in {Disk(Written(s), <<>>) : s \in Sources}
                              /\ path \in Paths
         [] job = "m1"     -> /\ disk \in {Disk(<<>>, r) : r \in HandWritten}
                              /\ path = <<"r">>
         [] job = "client" -> disk = Disk(<<>>, <<>>) /\ path = <<"r">>
    /\ stage = IF job = "client" THEN "client" ELSE "none"
    /\ exited = IF job = "client" THEN "no" ELSE "fail"
    /\ ret = 0 /\ buffer = NoText /\ result = NoText
    /\ handles = [h \in 1..MaxHandles |-> Closed]
    /\ obufs = [o \in 1..MaxObufs |-> FreeObuf]
    /\ out = NoWrite /\ given = [f \in Files |-> Unopened]
    /\ faults = MaxFaults[job]
    /\ pc = "end" /\ todo = <<>> /\ lines = <<>> /\ misread = FALSE
    /\ inp = <<>> /\ pos = 0 /\ mode = "top" /\ item = <<>> /\ pending = <<>> /\ ferror = FALSE
    /\ tries = IF job = "client" THEN 0 ELSE MaxTries
    /\ last = [p \in Programs |-> "idle"]
    /\ should = Nothing

(***************************************************************************)
(* What the files should be, written down without the programs.            *)
(***************************************************************************)
SourceNames == Names(disk["s"])

\* The IR of a program.
Ir(names) ==
    LET ls == Printed(names)
    IN  [text  |-> IF Lowered(names) THEN FlattenSeq([i \in 1..Len(ls) |-> Append(ls[i], "nl")]) ELSE <<>>,
         whole |-> Lowered(names)]

\* The lines of a text; a last line without a newline counts unless it is empty.
LinesOf[text \in Text] ==
    IF text = <<>> THEN <<>>
    ELSE <<LineOf(text)>> \o LinesOf[SubSeq(text, LineEnd(text) + 2, Len(text))]

\* A data item is a title, values and "E"; a function is a title, blocks and
\* "E"; a block is its label, instructions and its terminator.
IsData(ls) ==
    /\ Len(ls) >= 2 /\ Len(ls[1]) > 1 /\ ls[1][1] = "D" /\ Last(ls) = <<"E">>
    /\ \A i \in 2..(Len(ls) - 1) : Len(ls[i]) > 1 /\ ls[i][1] \in {"z", "b", "a"}

IsFunction(ls) ==
    LET Kind(i) == IF ls[i] = <<>> THEN "" ELSE ls[i][1]
        n == Len(ls)
    IN  /\ n >= 2 /\ Len(ls[1]) > 1 /\ Kind(1) = "F" /\ ls[n] = <<"E">>
        /\ n > 2 => Kind(2) = "L" /\ Kind(n - 1) = "R"
        /\ \A i \in 2..(n - 1) : Kind(i) \in {"L", "k", "R"} /\ (Kind(i) = "L" => Len(ls[i]) > 1)
        /\ \A i \in 2..(n - 2) : Kind(i) = "R" <=> Kind(i + 1) = "L"

IsItem(ls) ==
    /\ \A i \in 1..Len(ls) : Len(ls[i]) < LineCap
    /\ ls = <<<<>>>> \/ IsData(ls) \/ IsFunction(ls)

\* What the lowering hands to M1Ir.hs, and what that makes of it: no line holds a
\* line end, blocks begin with their label and end with their terminator, and a
\* title, a value and an "E" are short.  A run of zeros is counted by one digit.
Plain == Chars \ {"nl", "cr"}

Counted(values) ==
    /\ values \in Text
    /\ \A i \in 1..Len(values) :
          values[i] = "0" => zeroRun(SubSeq(values, i, Len(values))) <= Len(Digits)

ASSUME PrintedAssumption ==
    /\ LineCap > 2
    /\ {"D", "F", "E", "z", "b", "a", "q"} \cup DOMAIN Values \cup DOMAIN Code \subseteq Chars
    /\ Digits \in Text
    /\ \A d \in DOMAIN Values : Counted(Values[d]) /\ DataItems[d] \in Seq(Seq(Plain))
    /\ \A f \in DOMAIN Code :
          /\ Code[f] \in Seq(Text) /\ IsFunction(<<<<"F", f>>>> \o Code[f] \o <<<<"E">>>>)
          /\ f \in DOMAIN Literal => Literal[f].label \in Chars /\ Counted(Literal[f].values)
          /\ Functions[f] \in Seq(Seq(Plain))

\* A declaration leads to data or a function, or is refused by one of the programs.
ASSUME NamesAssumption ==
    \A names \in Sources : \A i \in 1..Len(names) :
        /\ names[i] # "none"
        /\ names[i] \in DOMAIN Values \cup DOMAIN Code \cup RefusedByCpp \cup RefusedEarly \cup RefusedLate

ItemText(ls) ==
    IF ls = <<<<>>>> THEN <<>>
    ELSE <<":", ls[1][2]>>
           \o FlattenSeq([i \in 1..(Len(ls) - 2) |->
                CASE ls[1][1] = "D" -> Cells(ls[i + 1])
                  [] ls[1][1] = "F" /\ ls[i + 1][1] = "L" -> <<>>
                  [] ls[1][1] = "F" /\ ls[i + 1][1] # "L" -> ls[i + 1]])

\* The items of a file up to the first thing that is none, and whether there is
\* such a thing.
Items[ls \in Seq(Text)] ==
    LET ends == {n \in 1..Len(ls) : IsItem(SubSeq(ls, 1, n))}
    IN  IF ends = {} THEN [text |-> <<>>, whole |-> ls = <<>>]
        ELSE LET n == Min(ends)
                 rest == Items[SubSeq(ls, n + 1, Len(ls))]
             IN  [rest EXCEPT !.text = ItemText(SubSeq(ls, 1, n)) \o @]

Translation(text) ==
    LET ls == LinesOf[text]
    IN  IF ls = <<>> \/ ls[1] # <<"H">> THEN [text |-> <<>>, whole |-> FALSE]
        ELSE [Items[Tail(ls)] EXCEPT !.text = <<"DEFINE">> \o @]

\* What a source becomes: the data, then the functions and their literals.
Acceptable(names) ==
    \A i \in 1..Len(names) :
        /\ names[i] \in DOMAIN Values \cup DOMAIN Code
        /\ names[i] \in DOMAIN Code => \A k \in 1..Len(Code[names[i]]) : Len(Code[names[i]][k]) < LineCap

FunctionText(f) ==
    <<":", f>>
      \o FlattenSeq([i \in 1..Len(Code[f]) |-> IF Code[f][i][1] = "L" THEN <<>> ELSE Code[f][i]])
      \o IF f \in DOMAIN Literal THEN <<":", Literal[f].label>> \o Literal[f].values ELSE <<>>

Expected(names) ==
    <<"DEFINE">>
      \o FlattenSeq([i \in 1..Len(names) |->
           IF names[i] \in DOMAIN Values THEN <<":", names[i]>> \o Values[names[i]] ELSE <<>>])
      \o FlattenSeq([i \in 1..Len(names) |->
           IF names[i] \in DOMAIN Code THEN FunctionText(names[i]) ELSE <<>>])

(***************************************************************************)
(* The script and the programs.                                            *)
(***************************************************************************)
Outcome == CASE exited = "no" -> "reading" [] exited = "ok" -> "done" [] OTHER -> "failed"

\* The shell starts a program; a redirection empties its file first.
Launch(p) ==
    /\ stage' = p /\ pc' = "read" /\ todo' = <<>> /\ lines' = <<>>
    /\ Fresh /\ M1Fresh /\ NoFault
    /\ last' = IF stage \in Programs THEN [last EXCEPT ![stage] = Outcome] ELSE last
    /\ disk' = IF p = "hcpp" THEN [disk EXCEPT !["i"] = <<>>] ELSE disk
    /\ should' = Nothing
    /\ UNCHANGED <<m2, path, job>>

\* The build is started, or started again.
Start ==
    /\ exited # "no" /\ tries > 0
    /\ tries' = tries - 1 /\ misread' = FALSE
    /\ Launch(IF job = "m1" THEN "hcc-m1" ELSE "hcpp")

\* set -e: the next command runs when the last one reported success.
NextCommand ==
    /\ exited = "ok" /\ stage \in {"hcpp", "hcc1"}
    /\ Launch(IF stage = "hcpp" THEN "hcc1" ELSE "hcc-m1")
    /\ UNCHANGED <<tries, misread>>

\* The running program is stopped; nothing it keeps back is written.
Killed ==
    /\ stage \in Programs /\ exited = "no" /\ Fault
    /\ exited' = "killed"
    /\ UNCHANGED <<m2, ret, buffer, result, handles, obufs, out, disk, given>>
    /\ UNCHANGED <<driverVars, m1Vars, job, tries, last, should>>

Running ==
    /\ \/ stage = "hcpp" /\ (Hcpp \/ hccExitSuccess)
       \/ stage = "hcc1" /\ (Hcc1 \/ hccExitSuccess)
       \/ HsWriting
    /\ should' = IF pc = "preprocess" /\ pc' = "put" THEN [Nothing EXCEPT !.text = todo']
                 ELSE IF pc = "parse" /\ pc' = "same" THEN Ir(todo')
                 ELSE should
    /\ UNCHANGED <<m1Vars, job, tries, last>>

RunningM1 ==
    /\ HccM1
    /\ should' = IF pc = "read" /\ pc' = "open" THEN Translation(inp') ELSE should
    /\ UNCHANGED <<job, tries, last>>

Calling ==
    /\ stage = "client" /\ (Client \/ Writing)
    /\ UNCHANGED <<driverVars, m1Vars, job, tries, last, should>>

Next == Start \/ NextCommand \/ Killed \/ Running \/ RunningM1 \/ Calling

\* A program that runs goes on, and the shell waits for it: neither depends on
\* anything else.
Spec == Init /\ [][Next]_vars /\ WF_vars(Running) /\ WF_vars(RunningM1) /\ WF_vars(NextCommand)

(***************************************************************************)
(* Properties.                                                             *)
(***************************************************************************)
\* How a program's run looks from outside; when is its file open?
Status(p, open, spoiled) ==
    IF stage # p THEN last[p]
    ELSE IF exited # "no" THEN Outcome
    ELSE IF ~open THEN "reading"
    ELSE IF spoiled THEN "spoiled" ELSE "writing"

CppStatus == Status("hcpp", pc \notin {"read", "preprocess"}, FALSE)
Cc1Status == Status("hcc1", pc \notin {"read", "parse", "same"} /\ ~(pc = "opened" /\ ret = 0), FALSE)
M1Status  == Status("hcc-m1", pc \notin {"read", "open"}, ferror)

Want(status) == IF status = "writing" THEN should ELSE Nothing

CppPublish == INSTANCE Publish WITH
    status <- CppStatus, want <- Want(CppStatus).text, whole <- Want(CppStatus).whole,
    file <- disk["i"]

Cc1Publish == INSTANCE Publish WITH
    status <- Cc1Status, want <- Want(Cc1Status).text, whole <- Want(Cc1Status).whole,
    file <- disk["r"]

M1Publish == INSTANCE Publish WITH
    status <- M1Status, want <- Want(M1Status).text, whole <- Want(M1Status).whole,
    file <- disk["m"]

\* hcpp, through hccPutStr and the redirection of the script, implements
\* Publish: whatever writes are short or fail and wherever it is stopped, the
\* file is a beginning of the whole preprocessed text and is all of it when
\* hcpp exits with 0.  The next two say the same of the other programs.
HcppPublishes == CppPublish!Spec

\* hcc1 implements Publish: with hccWithTransactionalLineWriter a program whose
\* lowering fails after some functions leaves an empty file and no success,
\* and an accepted one all of its IR or no success.
Hcc1Publishes == Cc1Publish!Spec

\* hcc-m1 implements Publish: main reports success only when every item of what
\* was read was a whole one and short enough for LINE_CAP, and no write of the
\* stream had failed at any time.
M1Publishes == M1Publish!Spec

\* When the script has run the three programs, every one with success, and no
\* read was cut short, the M1 file is the translation of the source that is
\* there now: no leftover of an attempt that failed or was stopped, no item
\* lost between two programs, no zero of a data item miscounted on the way
\* through emitDataValuesIr and parse_ir_data_item.
EndToEnd ==
    (job = "build" /\ stage = "hcc-m1" /\ exited = "ok" /\ ~misread) =>
        Acceptable(SourceNames) /\ disk["m"] = Expected(SourceNames)

\* hcc1 never damages the file it compiles, however its output path spells the
\* name (hccPathsLexicallyEqual), and no program writes to the source.
SourceIntact ==
    [][/\ disk'["s"] = disk["s"]
       /\ disk'["i"] # disk["i"] => stage' = "hcpp"]_vars

\* A program that runs comes to an end, and the script to its last command or
\* to a failure: neither short writes nor the end of the input, wherever it
\* comes (read_line at the end of a file without a last newline), keep a loop of
\* the runtime or of hcc-m1 alive.
BuildEnds ==
    (stage \in Programs /\ exited = "no")
        ~> (exited \in {"fail", "killed"} \/ (stage = "hcc-m1" /\ exited = "ok"))

\* Each of the three programs implements Publish, at every point of the build.
ProgramsPublish == HcppPublishes /\ Hcc1Publishes /\ M1Publishes
=============================================================================
