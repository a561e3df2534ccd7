------------------------------ MODULE ObjectScript ------------------------------
(***************************************************************************)
(* hcc/support/materialize-object-script.c, and the script that runs it,   *)
(* scripts/hcc-blynn-objs.sh.  The Blynn compiler prints its objects as a  *)
(* shell script of here-documents; materialize-object-script takes it      *)
(* apart into one file per object, and the files that are then in the      *)
(* directory are the input of the next stage.                              *)
(*                                                                         *)
(* A line is a sequence of characters, its line end included.  The system  *)
(* may fail any call and may stop the program at any moment; the script is *)
(* then run again, on what is left and perhaps on other sources.  A read   *)
(* that fails looks like the end of the file to fgetc: inside a line,      *)
(* read_line hands on the beginning of it, and what a later call reads     *)
(* starts behind that, if it does not fail, too.                           *)
(***************************************************************************)
EXTENDS Integers, Sequences, SequencesExt

CONSTANTS
    Scripts,     \* the object scripts the compiler may print
    PathCap,     \* PATH_CAP
    LineCap,     \* LINE_CAP
    DirLen,      \* the length of the path of the directory
    Attempts,    \* how often the script is run
    MaxCuts      \* how often a read may fail inside a line, in one run

LF == "\n"
CR == "\r"
StringEnd == "NUL"

\* A script is its lines, the last of which may lack its line end.  It is a
\* text: the program's strings end at a NUL.
IsScript(s) ==
    /\ s \in Seq(Seq(STRING))
    /\ \A i \in 1..Len(s) :
           /\ s[i] # <<>> /\ (i < Len(s) => Last(s[i]) = LF)
           /\ \A k \in 1..Len(s[i]) : s[i][k] # StringEnd /\ (s[i][k] = LF => k = Len(s[i]))

ASSUME ObjectScriptAssumption ==
    /\ PathCap \in Nat /\ LineCap \in Nat /\ DirLen \in Nat /\ Attempts \in Nat /\ MaxCuts \in Nat
    /\ \A s \in Scripts : IsScript(s)

VARIABLES
    stage,       \* "idle", "clean", "top", "payload", "done" or "failed"
    script,      \* the object script
    next, from,  \* where it is read: the line, and the place in it
    seen,        \* the lines read_line has handed on (history); the last is line
    name,        \* the object being written
    kept,        \* the lines of it stdio has not written yet
    wrote_any,
    objects,     \* the files of the directory
    runs,        \* how often the script may still be run
    faulted      \* has a call failed? (history)

scriptVars == <<stage, script, next, from, seen, name, kept, wrote_any, objects, runs, faulted>>

ScriptInit ==
    /\ stage = "idle" /\ script \in Scripts /\ next = 1 /\ from = 1 /\ seen = <<>>
    /\ name = <<>> /\ kept = <<>> /\ wrote_any = FALSE
    /\ objects = <<>> /\ runs = Attempts /\ faulted = FALSE

(***************************************************************************)
(* Lines.                                                                  *)
(***************************************************************************)
Without(l, c) == IF l # <<>> /\ Last(l) = c THEN Front(l) ELSE l
trim_line_end(l) == Without(Without(l, LF), CR)

CatText == <<"c", "a", "t", " ", ">", " ">>
EofText == <<"E", "O", "F">>
EofLines == {EofText, EofText \o <<LF>>, EofText \o <<CR, LF>>}

\* parse_header: the name is what stands between "cat > " and the next blank.
NameOf(l) ==
    LET rest == SubSeq(l, Len(CatText) + 1, Len(l))
    IN  SubSeq(rest, 1, SelectInSeq(rest, LAMBDA c : c = " ") - 1)

Blank(l) == trim_line_end(l) = <<>>

GoodHeader(l) ==
    LET n == NameOf(l)  j == Len(n)
    IN  /\ IsPrefix(CatText, trim_line_end(l))
        /\ 4 <= j /\ j < PathCap
        /\ Range(n) \cap {"/", "\\", CR, LF} = {}
        /\ \A i \in 1..(j - 1) : ~(n[i] = "." /\ n[i + 1] = ".")
        /\ n[1] # "."
        /\ SubSeq(n, j - 2, j) = <<".", "o", "b">>

\* Mutant: the line must have an end.
MutEofEnded(l) == l \in EofLines /\ Last(l) = LF

is_eof_line(l) == l \in EofLines

\* Mutant: the "/" and the NUL are not counted.
MutNoSlash(n) == DirLen + Len(n) < PathCap

\* make_path: is there room for the path of the object n?
PathFits(n) == DirLen + Len(n) + 2 < PathCap

(***************************************************************************)
(* Reading.                                                                *)
(***************************************************************************)
\* What is not read yet of the line the next read_line starts in.
Unread == IF next <= Len(script) THEN SubSeq(script[next], from, Len(script[next])) ELSE <<>>

\* What read_line may hand on: all of that or, when a read fails, the
\* beginning of it; a line that is too long only if it is cut in time.
Readable ==
    {l \in {SubSeq(Unread, 1, e) : e \in 1..Len(Unread)} :
        Len(l) < LineCap /\ (l = Unread \/ Len(seen) < next - 1 + MaxCuts)}

\* read_line hands on l.
read_line(l) ==
    /\ seen' = Append(seen, l)
    /\ IF l = Unread THEN next' = next + 1 /\ from' = 1
                     ELSE next' = next /\ from' = from + Len(l)
    /\ UNCHANGED <<script, runs>>

\* Nothing fails, but the read inside a line that is cut.
Succeed(l) == faulted' = (faulted \/ l # Unread)

\* A call fails and the program reports it.
Fail == stage' = "failed" /\ faulted' = TRUE /\ UNCHANGED <<kept, objects>>

(***************************************************************************)
(* The steps of hcc-blynn-objs.sh.                                         *)
(***************************************************************************)
\* The script is run, and the compiler prints a new object script.
Run ==
    /\ stage \in {"idle", "done", "failed"} /\ runs > 0
    /\ stage' = "clean" /\ script' \in Scripts
    /\ next' = 1 /\ from' = 1 /\ seen' = <<>> /\ name' = <<>> /\ kept' = <<>> /\ wrote_any' = FALSE
    /\ runs' = runs - 1 /\ faulted' = FALSE
    /\ UNCHANGED objects

\* Mutant: what is there stays there.
MutLeaveOld == objects

\* The objects of an earlier run are removed.
Removed == <<>>

Clean ==
    /\ stage = "clean" /\ stage' = "top"
    /\ objects' = Removed
    /\ UNCHANGED <<script, next, from, seen, name, kept, wrote_any, runs, faulted>>

(***************************************************************************)
(* The steps of materialize-object-script.                                 *)
(***************************************************************************)
\* A file is a sequence of lines.
PutObject(n, lines) == [m \in DOMAIN objects \cup {n} |-> IF m = n THEN lines ELSE objects[m]]

\* A line at the top: a blank line, or the header of an object, whose path must
\* fit and whose file must be opened.
TopLine ==
    \E l \in Readable :
        /\ stage = "top" /\ read_line(l) /\ UNCHANGED wrote_any
        /\ \/ Blank(l) /\ Succeed(l) /\ UNCHANGED <<stage, name, kept, objects>>
           \/ /\ ~Blank(l) /\ ~(GoodHeader(l) /\ PathFits(NameOf(l)))
              /\ stage' = "failed" /\ Succeed(l) /\ UNCHANGED <<name, kept, objects>>
           \/ /\ GoodHeader(l) /\ PathFits(NameOf(l)) /\ name' = NameOf(l)
              /\ \/ Fail
                 \/ stage' = "payload" /\ objects' = PutObject(name', <<>>) /\ kept' = <<>> /\ Succeed(l)

\* A line of a payload goes to stdio, which writes when it likes.
PayloadLine ==
    \E l \in Readable :
        /\ stage = "payload" /\ ~is_eof_line(l) /\ read_line(l) /\ UNCHANGED <<name, wrote_any>>
        /\ \/ Fail
           \/ /\ UNCHANGED stage /\ Succeed(l)
              /\ \/ kept' = Append(kept, l) /\ UNCHANGED objects
                 \/ kept' = <<>> /\ objects' = PutObject(name, objects[name] \o Append(kept, l))

\* The end of a payload: fclose writes the rest, or fails.
PayloadEnd ==
    \E l \in Readable :
        /\ stage = "payload" /\ is_eof_line(l) /\ read_line(l) /\ UNCHANGED name
        /\ \/ Fail /\ UNCHANGED wrote_any
           \/ /\ stage' = "top" /\ wrote_any' = TRUE /\ Succeed(l)
              /\ objects' = PutObject(name, objects[name] \o kept) /\ kept' = <<>>

\* read_line: the line does not fit.  The program exits, which may write what
\* stdio keeps.
TooLong ==
    /\ stage \in {"top", "payload"} /\ Len(Unread) >= LineCap
    /\ stage' = "failed"
    /\ \/ UNCHANGED objects
       \/ stage = "payload" /\ objects' = PutObject(name, objects[name] \o kept)
    /\ UNCHANGED <<script, next, from, seen, name, kept, wrote_any, runs, faulted>>

\* read_line finds no character: at the end, or because a read fails.
NoLine == faulted' = (faulted \/ Unread # <<>>) /\ UNCHANGED <<script, next, from, seen, runs>>

\* There is no line inside a payload; line is still the header, or the last
\* line of the payload.
Unterminated ==
    /\ stage = "payload" /\ ~is_eof_line(Last(seen)) /\ NoLine
    /\ stage' = "failed"
    /\ objects' = PutObject(name, objects[name] \o kept)
    /\ UNCHANGED <<name, kept, wrote_any>>

\* There is no line at the top: there must have been an object, and closing
\* the script may fail.
Finish ==
    /\ stage = "top" /\ UNCHANGED <<name, kept, wrote_any, objects>>
    /\ \/ stage' = (IF wrote_any THEN "done" ELSE "failed") /\ NoLine
       \/ stage' = "failed" /\ faulted' = TRUE /\ UNCHANGED <<script, next, from, seen, runs>>

\* The program is stopped; what stdio has not written is lost.
Stopped ==
    /\ stage \in {"clean", "top", "payload"}
    /\ stage' = "failed" /\ faulted' = TRUE
    /\ UNCHANGED <<script, next, from, seen, name, kept, wrote_any, objects, runs>>

ScriptNext ==
    \/ Run \/ Clean \/ TopLine \/ PayloadLine \/ PayloadEnd \/ TooLong \/ Unterminated \/ Finish
    \/ Stopped

ScriptSpec == ScriptInit /\ [][ScriptNext]_scriptVars

(***************************************************************************)
(* Properties.                                                             *)
(***************************************************************************)
\* What a shell would make of the lines s: where each line stands, and the last
\* here-document of each name among the first n lines.
After(place, l) ==
    CASE place = "top" -> IF Blank(l) THEN "top" ELSE IF GoodHeader(l) THEN "in" ELSE "wrong"
      [] place = "in" -> IF l \in EofLines THEN "top" ELSE "in"
      [] OTHER -> "wrong"
Place(s) ==
    LET place[i \in 1..(Len(s) + 1)] == IF i = 1 THEN "top" ELSE After(place[i - 1], s[i - 1])
    IN  place
Headers(s, n) == {i \in 1..n : Place(s)[i] = "top" /\ GoodHeader(s[i])}
Body(s, h) ==
    LET e == CHOOSE e \in (h + 1)..Len(s) :
                s[e] \in EofLines /\ \A i \in (h + 1)..(e - 1) : s[i] \notin EofLines
    IN  SubSeq(s, h + 1, e - 1)
Named(s, n, m) == {h \in Headers(s, n) : NameOf(s[h]) = m}
Expected(s, n) ==
    [m \in {NameOf(s[h]) : h \in Headers(s, n)} |-> Body(s, Max(Named(s, n, m)))]

\* What materialize-object-script takes: objects, at least one, each with its
\* end, in lines that fit its buffer and with paths that fit theirs.
Acceptable(s) ==
    /\ Place(s)[Len(s) + 1] = "top" /\ Headers(s, Len(s)) # {}
    /\ \A i \in 1..Len(s) : Len(s[i]) < LineCap
    /\ \A h \in Headers(s, Len(s)) : DirLen + Len(NameOf(s[h])) + 2 < PathCap

\* The characters of the script up to where it is read.
Consumed ==
    FlattenSeq(SubSeq(script, 1, next - 1))
      \o (IF next <= Len(script) THEN SubSeq(script[next], 1, from - 1) ELSE <<>>)

\* When materialize-object-script succeeds the directory holds the objects of
\* the lines it has read and no other: every here-document as a whole, the
\* last one of a name, and nothing of an earlier run, however often the script
\* was stopped and run again.  These lines are the lines of the script unless
\* a read has failed; then they are a beginning of its characters, of which a
\* line may be cut in two, and "EOF" cut from a line ends an object.
ObjectsExact ==
    stage = "done" => /\ Acceptable(seen)
                      /\ objects = Expected(seen, Len(seen))
                      /\ FlattenSeq(seen) = Consumed
                      /\ ~faulted => seen = script

\* A script is refused only for a reason: when nothing has failed,
\* materialize-object-script fails on a script without objects, with a line
\* where none may be, without the end of its last object, with a line that
\* does not fit LINE_CAP or a path that does not fit PATH_CAP, and on no other.
RefusedForReason == stage = "failed" /\ ~faulted => ~Acceptable(script)

\* materialize-object-script accepts what is an acceptable script of objects,
\* and then the directory holds these objects; it refuses nothing else unless
\* a call fails.
ScriptFollowed == ObjectsExact /\ RefusedForReason
=============================================================================
