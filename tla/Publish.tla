--------------------------------- MODULE Publish --------------------------------
(***************************************************************************)
(* What a program of the tool chain promises about the file it writes.     *)
(* Once it has opened the file it has one text in mind; the file is always *)
(* a beginning of that text, unless a write has failed; it reports success *)
(* only when the whole text is in the file and there was nothing to refuse *)
(* in its input.  It may stop without success at any moment, and may be    *)
(* started again on whatever is left.                                      *)
(***************************************************************************)
EXTENDS Sequences, SequencesExt

VARIABLES
    status,      \* "idle", "reading", "writing", "spoiled", "done" or "failed"
    want,        \* the text the program is to write
    whole,       \* is the input accepted, so that want is all of the output?
    file         \* the contents of the file

pubVars == <<status, want, whole, file>>

Init == status = "idle"

Stopped == {"idle", "done", "failed"}

\* The program starts; nothing is written yet, but a redirection may already
\* have emptied the file.
Start ==
    /\ status \in Stopped
    /\ status' = "reading"
    /\ file' \in {file, <<>>}

\* The file is created anew; from here on the text is fixed.
Open ==
    /\ status = "reading"
    /\ status' = "writing"
    /\ file' = <<>>

Extend ==
    /\ status = "writing"
    /\ status' = "writing"
    /\ want' = want /\ whole' = whole
    /\ IsPrefix(file, file')
    /\ IsPrefix(file', want)

\* A write that fails leaves anything behind, but is never forgotten.
Spoil ==
    /\ status \in {"writing", "spoiled"}
    /\ status' = "spoiled"

Succeed ==
    /\ status = "writing"
    /\ whole
    /\ file = want
    /\ file' = file
    /\ status' = "done"

\* The program ends without success, or is stopped; what it had buffered may
\* still reach the file.
Fail ==
    /\ status \in {"reading", "writing", "spoiled"}
    /\ status' = "failed"
    /\ status = "reading" => file' = file
    /\ status = "writing" => IsPrefix(file, file') /\ IsPrefix(file', want)

Next == Start \/ Open \/ Extend \/ Spoil \/ Succeed \/ Fail

Spec == Init /\ [][Next]_pubVars
=============================================================================
