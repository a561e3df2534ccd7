------------------------------- MODULE IncludeWalk -------------------------------
(***************************************************************************)
(* hcpp (hcc/src/MainCpp.hs) reads a source file twice.  The include walk  *)
(* (IncludeExpand.hs) goes through the files line by line, follows the     *)
(* conditionals and definitions, and replaces each active #include by the  *)
(* text of the header; every other line is kept as it is.  The final pass  *)
(* (Preprocessor.hs: preprocess) then evaluates all conditionals and       *)
(* definitions again over the text so made.  The two only fit together if  *)
(* they come to the same decision at every line.                           *)
(*                                                                         *)
(* The final pass is run here on each line as the walk keeps it: it reads  *)
(* the lines in that order and the walk reads nothing it writes.  What a   *)
(* file holds is chosen when a line is first read and stays as it is.  A   *)
(* text line holds whole macro invocations: C leaves directives among the  *)
(* arguments of a macro undefined.                                         *)
(***************************************************************************)
EXTENDS Integers, Sequences, FiniteSets

CONSTANTS
    Files,       \* canonical paths (hccCanonicalizePath)
    Main,        \* the input file
    Paths,       \* the names an #include may give
    Macros,      \* macro names
    Lines,       \* the lines a file may hold
    Defines,     \* the -D options: the value of each macro at the start
    MaxLines,    \* bound: lines of one file
    MaxDepth     \* include nesting allowed (200 in expandFile)

\* The value of a macro: none, 0 or 1 as an #if expression, or a header name,
\* which is no valid expression.  NoName: a directive whose macro is left out.
Undef == "undef"
NoName == "noname"
Values == {Undef, "0", "1"} \cup Paths
ASSUME NamesAssumption == {Undef, "0", "1"} \cap Paths = {} /\ NoName \notin Macros
ASSUME DefinesAssumption == Defines \in [Macros -> Values]

\* findInclude and hccCanonicalizePath: the file a name leads to, or Missing.
CONSTANT Resolve
Missing == "missing"
ASSUME ResolveAssumption == Resolve \in [Paths -> Files \cup {Missing}]
ASSUME MainAssumption == Main \in Files

(***************************************************************************)
(* Lines (Directive.parseDirective).                                       *)
(***************************************************************************)
Text          == [d |-> "text"]
Define(m, v)  == [d |-> "define", m |-> m, v |-> v]
UndefLine(m)  == [d |-> "undef", m |-> m]
Ifdef(m)      == [d |-> "ifdef", m |-> m]
Ifndef(m)     == [d |-> "ifndef", m |-> m]
IfLine(m)     == [d |-> "if", m |-> m]
Elif(m)       == [d |-> "elif", m |-> m]
Else          == [d |-> "else"]
Endif         == [d |-> "endif"]
Include(p)    == [d |-> "include", p |-> p]
IncludeOf(m)  == [d |-> "computed", m |-> m]
PragmaOnce    == [d |-> "once"]
ErrorLine     == [d |-> "error"]

OpenKinds == {"ifdef", "ifndef", "if"}
IncludeKinds == {"include", "computed"}
CondKinds == OpenKinds \cup {"elif", "else", "endif"}
ASSUME LinesAssumption ==
    \A l \in Lines :
        /\ l.d \in CondKinds \cup IncludeKinds \cup {"text", "define", "undef", "once", "error"}
        /\ l.d \in {"if", "elif", "computed"} => l.m \in Macros
        /\ l.d \in {"ifdef", "ifndef", "define", "undef"} => l.m \in Macros \cup {NoName}
        /\ l.d = "define" => l.v \in Values \ {Undef}
        /\ l.d = "include" => l.p \in Paths

VARIABLES
    text,      \* the lines of each file that have been read
    ended,     \* the files whose end has been read
    status,    \* "run", "done", "died"
    walk,      \* the files being expanded, innermost first
    once,      \* the files with an active #pragma once
    macros,    \* the macros of the walk
    fstatus,   \* the final pass: "run", "failed" or "unresolved"
    fframes,   \* the final pass: conditionals, innermost first
    fmacros    \* the final pass: macros

vars == <<text, ended, status, walk, once, macros, fstatus, fframes, fmacros>>
finalVars == <<fstatus, fframes, fmacros>>

(***************************************************************************)
(* IfFrame.hs.  ran counts the groups of one #if that were active: it is   *)
(* kept for the properties only.                                           *)
(***************************************************************************)
Frame(parent, taken, active, ran) ==
    [parent |-> parent, taken |-> taken, active |-> active, ran |-> ran]
Count(active) == IF active THEN 1 ELSE 0

ifStackActive(fs) == IF fs = <<>> THEN TRUE ELSE Head(fs).active

pushIfFrame(fs, cond) ==
    LET active == ifStackActive(fs) /\ cond
    IN  <<Frame(ifStackActive(fs), active, active, Count(active))>> \o fs

replaceElifFrame(fs, cond) ==
    LET f == Head(fs)
        active == f.parent /\ ~f.taken /\ cond
    IN  <<Frame(f.parent, f.taken \/ active, active, f.ran + Count(active))>> \o Tail(fs)

\* Mutant: an #else looks at the last group only.
MutElse(fs) ==
    LET f == Head(fs)
        active == f.parent /\ ~f.active
    IN  <<Frame(f.parent, TRUE, active, f.ran + Count(active))>> \o Tail(fs)

replaceElseFrame(fs) ==
    LET f == Head(fs)
        active == f.parent /\ ~f.taken
    IN  <<Frame(f.parent, TRUE, active, f.ran + Count(active))>> \o Tail(fs)

popIfFrame(fs) == Tail(fs)

\* Whether the expression of an #if or #elif is evaluated at all.
elifEligible(fs) == fs # <<>> /\ Head(fs).parent /\ ~Head(fs).taken
Eligible(fs, l) ==
    \/ l.d = "if" /\ ifStackActive(fs)
    \/ l.d = "elif" /\ elifEligible(fs)

\* evalIf fails on what is no expression; a name that is not defined is 0.
EvalFails(fs, ms, l) == Eligible(fs, l) /\ ms[l.m] \in Paths

\* The value of the condition of line l; an expression that is not evaluated
\* counts as false.
Condition(fs, ms, l) ==
    \/ l.d = "ifdef" /\ l.m # NoName /\ ms[l.m] # Undef
    \/ l.d = "ifndef" /\ l.m # NoName /\ ms[l.m] = Undef
    \/ Eligible(fs, l) /\ ms[l.m] = "1"

\* applyIfDirective
Conditional(fs, ms, l) ==
    CASE l.d \in OpenKinds -> pushIfFrame(fs, Condition(fs, ms, l))
      [] l.d = "elif"      -> replaceElifFrame(fs, Condition(fs, ms, l))
      [] l.d = "else"      -> replaceElseFrame(fs)
      [] l.d = "endif"     -> popIfFrame(fs)

Unmatched(fs, l) == l.d \in {"elif", "else", "endif"} /\ fs = <<>>

\* #define and #undef must name a macro.
NoMacro(l) == l.d \in {"define", "undef"} /\ l.m = NoName

\* defineMacro, symbolMapDelete: what an active line does to the macros.
MacrosAfter(ms, l) ==
    CASE l.d = "define" -> [ms EXCEPT ![l.m] = l.v]
      [] l.d = "undef"  -> [ms EXCEPT ![l.m] = Undef]
      [] OTHER          -> ms

(***************************************************************************)
(* The final pass: preprocess, handleDirective.                            *)
(***************************************************************************)
FinalFails(l) ==
    \/ Unmatched(fframes, l)
    \/ EvalFails(fframes, fmacros, l)
    \/ l.d \in {"ifdef", "ifndef"} /\ l.m = NoName
    \/ ifStackActive(fframes) /\ (l.d = "error" \/ NoMacro(l))

FinalLine(l) ==
    IF fstatus # "run" THEN UNCHANGED finalVars
    ELSE IF l.d \in IncludeKinds /\ ifStackActive(fframes)
    THEN fstatus' = "unresolved" /\ UNCHANGED <<fframes, fmacros>>
    ELSE IF FinalFails(l)
    THEN fstatus' = "failed" /\ UNCHANGED <<fframes, fmacros>>
    ELSE /\ fframes' = IF l.d \in CondKinds THEN Conditional(fframes, fmacros, l) ELSE fframes
         /\ fmacros' = IF ifStackActive(fframes) THEN MacrosAfter(fmacros, l) ELSE fmacros
         /\ UNCHANGED fstatus

(***************************************************************************)
(* The include walk.                                                       *)
(***************************************************************************)
\* outer: the conditionals of the final pass when the file was entered, kept
\* for the properties only.
Entry(f) == [file |-> f, next |-> 1, frames |-> <<>>, outer |-> fframes]

Top == Head(walk)
Active == ifStackActive(Top.frames)

Init ==
    /\ text = [f \in Files |-> <<>>]
    /\ ended = {}
    /\ status = "run"
    /\ fstatus = "run"
    /\ fframes = <<>>
    /\ fmacros = Defines
    /\ walk = <<Entry(Main)>>
    /\ once = {}
    /\ macros = Defines

\* Reading line l: the line that is there, or a new one.
Next1(l) ==
    /\ status = "run"
    /\ \/ /\ Top.next <= Len(text[Top.file])
          /\ l = text[Top.file][Top.next]
          /\ UNCHANGED <<text, ended>>
       \/ /\ Top.next = Len(text[Top.file]) + 1
          /\ Top.file \notin ended
          /\ Len(text[Top.file]) < MaxLines
          /\ text' = [text EXCEPT ![Top.file] = Append(@, l)]
          /\ UNCHANGED ended

Die == status' = "died" /\ UNCHANGED <<walk, once, macros, finalVars>>

Moved(frames) == [file |-> Top.file, next |-> Top.next + 1, frames |-> frames, outer |-> Top.outer]
Advance(frames) == <<Moved(frames)>> \o Tail(walk)

\* Mutant: definitions in inactive groups enter the macros.
MutPlain(l) ==
    /\ Next1(l)
    /\ l.d \notin CondKinds
    /\ l.d \in IncludeKinds => ~Active
    /\ IF NoMacro(l) THEN Die
       ELSE /\ walk' = Advance(Top.frames)
            /\ macros' = MacrosAfter(macros, l)
            /\ once' = IF l.d = "once" /\ Active THEN once \cup {Top.file} ELSE once
            /\ FinalLine(l)
            /\ UNCHANGED status

\* A kept line that is no conditional (define, undef, pragma, text, error, and
\* an #include in an inactive group).
ExpandPlain(l) ==
    /\ Next1(l)
    /\ l.d \notin CondKinds
    /\ l.d \in IncludeKinds => ~Active
    /\ IF Active /\ NoMacro(l) THEN Die
       ELSE /\ walk' = Advance(Top.frames)
            /\ macros' = IF Active THEN MacrosAfter(macros, l) ELSE macros
            /\ once' = IF l.d = "once" /\ Active THEN once \cup {Top.file} ELSE once
            /\ FinalLine(l)
            /\ UNCHANGED status

ExpandConditional(l) ==
    /\ Next1(l)
    /\ l.d \in CondKinds
    /\ IF Unmatched(Top.frames, l) \/ EvalFails(Top.frames, macros, l)
       THEN Die
       ELSE /\ walk' = Advance(Conditional(Top.frames, macros, l))
            /\ FinalLine(l)
            /\ UNCHANGED <<status, once, macros>>

\* includeRequest and findInclude: the file of an active #include, or Missing.
Included(l) ==
    LET p == IF l.d = "include" THEN l.p ELSE macros[l.m]
    IN  IF p \in Paths THEN Resolve[p] ELSE Missing

\* Mutant: the line of an #include is kept.
MutInclude(l) ==
    /\ Next1(l)
    /\ l.d \in IncludeKinds /\ Active
    /\ LET f == Included(l) IN
       IF f = Missing \/ (f \notin once /\ Len(walk) >= MaxDepth)
       THEN Die
       ELSE /\ walk' = (IF f \in once THEN <<>> ELSE <<Entry(f)>>) \o Advance(Top.frames)
            /\ FinalLine(l)
            /\ UNCHANGED <<status, once, macros>>

\* Mutant: the line of the #include is read again after the header.
MutNoAdvance(l) ==
    /\ Next1(l)
    /\ l.d \in IncludeKinds /\ Active
    /\ LET f == Included(l) IN
       IF f = Missing \/ (f \notin once /\ Len(walk) >= MaxDepth)
       THEN Die
       ELSE /\ walk' = (IF f \in once THEN <<>> ELSE <<Entry(f)>>) \o walk
            /\ UNCHANGED <<status, once, macros, finalVars>>

\* An active #include: nothing for a file in once, or its lines come next; the
\* line itself is dropped.
ExpandInclude(l) ==
    /\ Next1(l)
    /\ l.d \in IncludeKinds /\ Active
    /\ LET f == Included(l) IN
       IF f = Missing \/ (f \notin once /\ Len(walk) >= MaxDepth)
       THEN Die
       ELSE /\ walk' = (IF f \in once THEN <<>> ELSE <<Entry(f)>>) \o Advance(Top.frames)
            /\ UNCHANGED <<status, once, macros, finalVars>>

\* Mutant: a conditional may stay open at the end of a file.
MutEndFile ==
    /\ status = "run"
    /\ Top.next = Len(text[Top.file]) + 1
    /\ ended' = ended \cup {Top.file}
    /\ walk' = Tail(walk)
    /\ status' = IF Tail(walk) = <<>> THEN "done" ELSE "run"
    /\ UNCHANGED <<text, once, macros, finalVars>>

\* Mutant: the end of the input file is not noticed.
MutLastFile ==
    /\ status = "run"
    /\ Top.next = Len(text[Top.file]) + 1
    /\ ended' = ended \cup {Top.file}
    /\ UNCHANGED text
    /\ IF Top.frames # <<>> THEN Die
       ELSE walk' = Tail(walk) /\ UNCHANGED <<status, once, macros, finalVars>>

\* The end of a file: its conditionals must be closed.
EndFile ==
    /\ status = "run"
    /\ Top.next = Len(text[Top.file]) + 1
    /\ ended' = ended \cup {Top.file}
    /\ UNCHANGED text
    /\ IF Top.frames # <<>> THEN Die
       ELSE /\ walk' = Tail(walk)
            /\ status' = IF Tail(walk) = <<>> THEN "done" ELSE "run"
            /\ UNCHANGED <<once, macros, finalVars>>

Next ==
    \/ \E l \in Lines : ExpandPlain(l) \/ ExpandConditional(l) \/ ExpandInclude(l)
    \/ EndFile

\* hcpp is one sequential process.
Spec == Init /\ [][Next]_vars /\ WF_vars(Next)

-----------------------------------------------------------------------------------
(***************************************************************************)
(* Properties.                                                             *)
(***************************************************************************)
Frames == [parent : BOOLEAN, taken : BOOLEAN, active : BOOLEAN, ran : Nat]
Entries == [file : Files, next : Nat \ {0}, frames : Seq(Frames), outer : Seq(Frames)]

\* Every variable keeps its type; while the walk runs there is a file to read.
TypeOK ==
    /\ text \in [Files -> Seq(Lines)]
    /\ ended \subseteq Files
    /\ status \in {"run", "done", "died"}
    /\ walk \in Seq(Entries)
    /\ status = "run" => walk # <<>>
    /\ once \subseteq Files
    /\ macros \in [Macros -> Values]
    /\ fstatus \in {"run", "failed", "unresolved"}
    /\ fframes \in Seq(Frames)
    /\ fmacros \in [Macros -> Values]

\* The comment in IncludeExpand.hs: the include walk and the final pass share
\* eligibility and conditional arithmetic, header definitions flow back to the
\* includer, inactive definitions never enter.  At every line, in whatever file,
\* both passes have the same macros and the same idea of what is active.
PassesAgree ==
    fstatus = "run" /\ status = "run" =>
        /\ macros = fmacros
        /\ ifStackActive(fframes) = Active

\* The final pass never meets an #include that is active for it ("unresolved
\* active #include"): the walk has replaced every one of them.
IncludesResolved == fstatus # "unresolved"

\* When the walk is done and the final pass has not failed, no conditional is
\* open in the final pass ("unterminated conditional directive" is not reached).
ConditionalsClosed == status = "done" /\ fstatus = "run" => fframes = <<>>

\* Of the groups of one #if at most one is ever active, none inside an inactive
\* group, and none is left out once an #else was reached.
OneGroup ==
    \A i \in DOMAIN walk : \A j \in DOMAIN walk[i].frames :
        LET f == walk[i].frames[j]
        IN  /\ f.ran <= 1
            /\ f.ran = 1 => f.parent /\ f.taken
            /\ f.parent /\ f.taken => f.ran = 1
            /\ f.active => f.ran = 1

\* hcpp always ends, also when files include one another in a circle.
WalkEnds == <>(status # "run")
===================================================================================
