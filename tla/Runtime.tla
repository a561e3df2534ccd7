--------------------------------- MODULE Runtime --------------------------------
(***************************************************************************)
(* The C runtime hcpp and hcc1 are linked with: hcc/cbits/hcc_runtime.c on *)
(* a hosted system, hcc/cbits/hcc_runtime_m2.c in the seed build.  Haskell *)
(* code puts text into a buffer or into one of a table of output buffers,  *)
(* opens files through a table of handles, and hands buffers to handles.   *)
(* Both files have the same functions; m2 says which one is linked.  They  *)
(* differ where the hosted one goes through stdio, which keeps text back,  *)
(* and the other calls write(2) itself until everything is written.        *)
(*                                                                         *)
(* A character is a string; hcc_buffer_put, put4 and put8 are one operator *)
(* on one, four or eight characters, and so are the functions on output    *)
(* buffers.  One action is one call, or one write(2) of the call that is   *)
(* under way.                                                              *)
(***************************************************************************)
EXTENDS Integers, Sequences, SequencesExt

CONSTANTS
    Files,           \* the files there are
    NoFile,          \* no file
    Chars,           \* the characters there are; names and parts of paths as well
    MaxHandles,      \* HCC_MAX_HANDLES
    MaxObufs,        \* HCC_MAX_OBUFS
    FirstCap         \* the capacity a buffer starts with (64)

ASSUME RuntimeAssumption ==
    /\ NoFile \notin Files
    /\ MaxHandles \in Nat \ {0} /\ MaxObufs \in Nat \ {0} /\ FirstCap \in Nat \ {0}

Text == Seq(Chars)

VARIABLES
    m2,              \* is hcc_runtime_m2.c linked?
    exited,          \* "no", or how the process has ended: "ok", "fail", "killed"
    ret,             \* what the last call returned
    buffer, result,  \* the text buffer and the result buffer: data and cap
    handles,         \* the open files: name, and what stdio keeps back
    obufs,           \* the output buffers: used, data, cap
    out,             \* the write under way: file, and what is still to be written
    disk,            \* the contents of the files
    given,           \* for each file, the handle the caller got for it, and the
                     \* text it handed to that handle (history)
    faults           \* how many more calls the system may fail

runtimeVars == <<m2, exited, ret, buffer, result, handles, obufs, out, disk, given, faults>>

NoText == [data |-> <<>>, cap |-> 0]
Closed == [file |-> NoFile, kept |-> <<>>]
FreeObuf == [used |-> FALSE, data |-> <<>>, cap |-> 0]
Unopened == [handle |-> -1, text |-> <<>>]
NoWrite == [file |-> NoFile, rest |-> <<>>]

\* A process that has just been started.
Fresh ==
    /\ exited' = "no" /\ ret' = 0
    /\ buffer' = NoText /\ result' = NoText
    /\ handles' = [h \in 1..MaxHandles |-> Closed]
    /\ obufs' = [o \in 1..MaxObufs |-> FreeObuf]
    /\ out' = NoWrite
    /\ given' = [f \in Files |-> Unopened]

\* A call may be made: the process runs and is not inside a write.
Ready == exited = "no" /\ out.rest = <<>>

\* The system may fail a call of a run of the build.
Fault == faults > 0 /\ faults' = faults - 1
NoFault == faults' = faults

(***************************************************************************)
(* Buffers.                                                                *)
(***************************************************************************)
\* Mutant: doubled once.
MutDoubledOnce(cap, needed) ==
    IF cap >= needed THEN cap ELSE IF cap = 0 THEN FirstCap ELSE 2 * cap

\* One, doubled k times.
Doubled[k \in Nat] == IF k = 0 THEN 1 ELSE 2 * Doubled[k - 1]

\* ensure_chars: the capacity after making room, doubled until it is enough.
ensure_chars(cap, needed) ==
    LET start == IF cap = 0 THEN FirstCap ELSE cap
    IN  IF cap >= needed THEN cap
        ELSE start * Doubled[CHOOSE k \in 0..needed :
                                /\ start * Doubled[k] >= needed
                                /\ \A j \in 0..(k - 1) : start * Doubled[j] < needed]

\* The text buffer ends in a 0 that is part of its capacity.
hcc_buffer_clear == buffer' = [data |-> <<>>, cap |-> ensure_chars(buffer.cap, 1)]
hcc_buffer_put(cs) ==
    buffer' = [data |-> buffer.data \o cs,
               cap  |-> ensure_chars(buffer.cap, Len(buffer.data) + Len(cs) + 1)]

\* A table: the first free entry, 0 when it is full.
FirstFree(n, used(_)) ==
    LET free == {i \in 1..n : ~used(i)}
    IN  IF free = {} THEN 0 ELSE CHOOSE i \in free : \A j \in free : i <= j

\* obuf_index
GoodObuf(o) == o \in 1..MaxObufs /\ obufs[o].used

alloc_obuf == FirstFree(MaxObufs, LAMBDA o : obufs[o].used)

hcc_obuf_new(cap) ==
    /\ ret' = alloc_obuf
    /\ obufs' = IF alloc_obuf = 0 THEN obufs
                ELSE [obufs EXCEPT ![alloc_obuf] =
                        [used |-> TRUE, data |-> <<>>, cap |-> IF cap > 0 THEN cap ELSE FirstCap]]

hcc_obuf_free(o) == obufs' = IF GoodObuf(o) THEN [obufs EXCEPT ![o] = FreeObuf] ELSE obufs

hcc_obuf_clear(o) == obufs' = IF GoodObuf(o) THEN [obufs EXCEPT ![o].data = <<>>] ELSE obufs

hcc_obuf_put(o, cs) ==
    obufs' = IF ~GoodObuf(o) THEN obufs
             ELSE [obufs EXCEPT ![o].data = @ \o cs,
                                ![o].cap = ensure_chars(@, Len(obufs[o].data) + Len(cs))]

(***************************************************************************)
(* Files.                                                                  *)
(***************************************************************************)
\* get_handle
GoodHandle(h) == h \in 1..MaxHandles /\ handles[h].file # NoFile

\* Mutant: the first entry, whether it is free or not.
MutFirstHandle == 1

alloc_handle == FirstFree(MaxHandles, LAMBDA h : handles[h].file # NoFile)

\* The end of the process.  On the way out of exit(1) stdio may still write
\* what it kept back, the rest of a failed write included.
AtExit(f) ==
    (IF f = out.file THEN out.rest ELSE <<>>)
      \o FlattenSeq([h \in 1..MaxHandles |-> IF handles[h].file = f THEN handles[h].kept ELSE <<>>])

hcc_exit_failure ==
    /\ exited' = "fail"
    /\ out' = NoWrite
    /\ \/ disk' = disk
       \/ ~m2 /\ disk' = [f \in Files |-> disk[f] \o AtExit(f)]

\* output_failure
output_failure == hcc_exit_failure

\* Write(2) takes some of what it is given, or fails.  The functions of stdio
\* go on after a short write as checked_write does.
WriteResults == {-1, 1, Len(out.rest)} \cup IF m2 THEN {0} ELSE {}

\* Mutant: only the first part is written.
MutWriteOnce(n) ==
    IF n <= 0 THEN output_failure
    ELSE /\ disk' = [disk EXCEPT ![out.file] = @ \o SubSeq(out.rest, 1, n)]
         /\ out' = [out EXCEPT !.rest = <<>>]
         /\ UNCHANGED exited

\* checked_write: one turn of its loop.
checked_write(n) ==
    IF n <= 0 THEN output_failure
    ELSE /\ disk' = [disk EXCEPT ![out.file] = @ \o SubSeq(out.rest, 1, n)]
         /\ out' = [out EXCEPT !.rest = SubSeq(@, n + 1, Len(@))]
         /\ UNCHANGED exited

Writing ==
    /\ exited = "no" /\ out.rest # <<>>
    /\ \E n \in WriteResults : checked_write(n) /\ (IF n >= 0 THEN NoFault ELSE Fault)
    /\ UNCHANGED <<m2, ret, buffer, result, handles, obufs, given>>

hcc_stdout_buffer(stdout) == out' = [file |-> stdout, rest |-> buffer.data]

\* hcc_read_file: a file that cannot be opened gives 0; fgetc does not tell an
\* error from the end of the file.
hcc_read_file(f) ==
    \/ Fault /\ ret' = 0 /\ UNCHANGED result
    \/ /\ ret' = 1
       /\ \E n \in 0..Len(disk[f]) :
            /\ IF n = Len(disk[f]) THEN NoFault ELSE Fault
            /\ result' = [data |-> SubSeq(disk[f], 1, n), cap |-> ensure_chars(result.cap, n + 1)]

\* hcc_open_write: fopen empties the file before the table is looked at.
hcc_open_write(f) ==
    \/ Fault /\ ret' = 0 /\ UNCHANGED <<disk, handles, given>>
    \/ /\ NoFault
       /\ disk' = [disk EXCEPT ![f] = <<>>]
       /\ ret' = alloc_handle
       /\ given' = [given EXCEPT ![f] = [handle |-> alloc_handle, text |-> <<>>]]
       /\ handles' = IF alloc_handle = 0 THEN handles
                     ELSE [handles EXCEPT ![alloc_handle] = [file |-> f, kept |-> <<>>]]

\* checked_flush, fflush
hcc_handle_flush(h) ==
    IF ~GoodHandle(h) THEN output_failure /\ UNCHANGED handles
    ELSE /\ out' = [file |-> handles[h].file, rest |-> handles[h].kept]
         /\ handles' = [handles EXCEPT ![h].kept = <<>>]
         /\ UNCHANGED <<exited, disk>>

\* hcc_obuf_write: the hosted fwrite may keep the text back.
hcc_obuf_write(h, o) ==
    IF ~GoodHandle(h) \/ ~GoodObuf(o)
    THEN output_failure /\ UNCHANGED <<handles, given>>
    ELSE IF obufs[o].data = <<>> THEN UNCHANGED <<exited, handles, given, out, disk>>
    ELSE LET f == handles[h].file
             text == handles[h].kept \o obufs[o].data
         IN  /\ given' = [g \in Files |->
                   IF given[g].handle = h THEN [given[g] EXCEPT !.text = @ \o obufs[o].data]
                   ELSE given[g]]
             /\ \/ /\ out' = [file |-> f, rest |-> text]
                   /\ handles' = [handles EXCEPT ![h].kept = <<>>]
                \/ /\ ~m2
                   /\ handles' = [handles EXCEPT ![h].kept = text]
                   /\ UNCHANGED out
             /\ UNCHANGED <<exited, disk>>

\* hcc_close: what was kept back is written first.
hcc_close(h) ==
    IF ~GoodHandle(h) THEN NoFault /\ UNCHANGED <<handles, out, exited, disk, given>>
    ELSE \/ Fault /\ output_failure /\ UNCHANGED <<handles, given>>
         \/ /\ NoFault
            /\ out' = [file |-> handles[h].file, rest |-> handles[h].kept]
            /\ handles' = [handles EXCEPT ![h] = Closed]
            /\ given' = [g \in Files |->
                  IF given[g].handle = h THEN [given[g] EXCEPT !.handle = 0] ELSE given[g]]
            /\ UNCHANGED <<exited, disk>>

hcc_exit_success ==
    \/ Fault /\ output_failure
    \/ NoFault /\ exited' = "ok" /\ UNCHANGED <<out, disk>>

hcc_getcwd(cwd) ==
    \/ Fault /\ ret' = 0 /\ UNCHANGED result
    \/ NoFault /\ ret' = 1 /\ result' = [data |-> cwd, cap |-> ensure_chars(result.cap, Len(cwd) + 1)]

(***************************************************************************)
(* A program that makes any calls in any order, of which hcpp and hcc1 are *)
(* two: it opens no file twice at a time.                                  *)
(***************************************************************************)
CONSTANTS
    ClientFiles,     \* the files it opens
    ClientTexts,     \* the texts it puts: 1, 4 or 8 characters
    ClientMax        \* the characters it puts into one buffer, or into one file

ASSUME ClientAssumption == ClientFiles \subseteq Files /\ ClientTexts \subseteq Text

Idle == UNCHANGED <<m2, result, buffer>>

ClientOpen ==
    /\ \E f \in ClientFiles :
         /\ given[f].handle < 1
         /\ hcc_open_write(f)
    /\ UNCHANGED <<exited, obufs, out>>

ClientObuf ==
    /\ \/ \E cap \in {0, 1} : hcc_obuf_new(cap)
       \/ \E o \in 0..(MaxObufs + 1) : UNCHANGED ret /\ (hcc_obuf_free(o) \/ hcc_obuf_clear(o))
       \/ \E o \in 0..(MaxObufs + 1), cs \in ClientTexts :
            /\ GoodObuf(o) => Len(obufs[o].data) + Len(cs) <= ClientMax
            /\ UNCHANGED ret
            /\ hcc_obuf_put(o, cs)
    /\ NoFault /\ UNCHANGED <<exited, handles, out, disk, given>>

ClientWrite ==
    /\ \E h \in 0..(MaxHandles + 1), o \in 0..(MaxObufs + 1) :
         /\ GoodHandle(h) /\ GoodObuf(o) =>
              Len(given[handles[h].file].text) + Len(obufs[o].data) <= ClientMax
         /\ hcc_obuf_write(h, o)
    /\ NoFault /\ UNCHANGED <<ret, obufs>>

ClientFlush ==
    /\ \E h \in 0..(MaxHandles + 1) : hcc_handle_flush(h)
    /\ NoFault /\ UNCHANGED <<ret, obufs, given>>

ClientClose ==
    /\ \E h \in 0..(MaxHandles + 1) : hcc_close(h)
    /\ UNCHANGED <<ret, obufs>>

Client == Ready /\ Idle /\ (ClientOpen \/ ClientObuf \/ ClientWrite \/ ClientFlush \/ ClientClose)

(***************************************************************************)
(* Properties.                                                             *)
(***************************************************************************)
\* Whatever was put into the text buffer, the result and the output buffers in
\* pieces of 1, 4 and 8 characters lies inside the memory ensure_chars made
\* room for, the 0 at the end of the first two included.
InBounds ==
    /\ buffer.cap > 0 => Len(buffer.data) + 1 <= buffer.cap
    /\ result.cap > 0 => Len(result.data) + 1 <= result.cap
    /\ \A o \in 1..MaxObufs : obufs[o].used => Len(obufs[o].data) <= obufs[o].cap

\* As long as no write has failed, a file the process has opened holds what the
\* caller handed to the handle it got for this file, in order, nothing twice and
\* nothing of another file, but for what is on its way (the write under way) or
\* kept back by stdio, and holds all of it once hcc_close has returned; this is
\* so for full tables, reused entries and calls with handles that are not open.
FilesFaithful ==
    exited = "no" =>
        \A f \in {g \in Files : given[g].handle >= 0} :
            given[f].text =
                disk[f] \o (IF out.file = f THEN out.rest ELSE <<>>)
                  \o FlattenSeq([h \in 1..MaxHandles |->
                       IF handles[h].file = f THEN handles[h].kept ELSE <<>>])
=============================================================================
