---------------------------------- MODULE Stdio ---------------------------------
(***************************************************************************)
(* The streams of hcc/support/tcc-bootstrap-support.c, which TinyCC uses   *)
(* until there is a C library.  A stream is a descriptor; its error        *)
(* indicator is kept in an array for the descriptors 0..2 and in a list of *)
(* slots for the others.  Nothing is buffered.                             *)
(*                                                                         *)
(* The system hands out the lowest unused descriptor, writes as much as it *)
(* likes, and may fail any call; once the disk is full nothing is written  *)
(* any more, and every write(2) gives 0 or every one fails.  The program   *)
(* calls what it may call: it uses a stream between the call that gave it  *)
(* and fclose, and it also opens and closes descriptors itself.  One       *)
(* action is a call, or one open(2) or write(2) of the call under way.     *)
(***************************************************************************)
EXTENDS Integers, Sequences, FiniteSets, SequencesExt

CONSTANTS
    MaxFd,          \* the highest descriptor
    MaxChunk,       \* the largest count write(2) is given (0x7fffffff)
    SizeMax,        \* the largest size_t
    PrintCap,       \* the size of the buffer of fprintf (1024)
    MayBeClosed,    \* the standard descriptors that may be closed at the start
    Used,           \* the standard streams the program uses
    Lengths,        \* the lengths of the texts it writes
    Items           \* the sizes and counts it calls fwrite with

ASSUME StdioAssumption ==
    /\ MaxFd \in Nat /\ MaxFd >= 3
    /\ MayBeClosed \subseteq 0..2 /\ Used \subseteq 0..2
    /\ Lengths \subseteq Nat /\ Items \subseteq (Nat \ {0}) \X (Nat \ {0})
    /\ MaxChunk \in Nat \ {0} /\ SizeMax \in Nat \ {0} /\ PrintCap \in Nat \ {0}

VARIABLES
    fds,                  \* the open descriptors
    hcc_standard_errors,  \* the error indicators of 0..2
    hcc_streams,          \* the slots, the head of the list first: fd, error
    full,                 \* is the disk full, and what does write(2) answer then?
    call,                 \* the call under way
    held,                 \* the streams the program has (history)
    raw,                  \* the descriptors it has opened itself (history)
    failed,               \* the streams a call has failed on (history)
    peak                  \* the most streams that were open at once (history)

stdioVars == <<fds, hcc_standard_errors, hcc_streams, full, call, held, raw, failed, peak>>

Standard == 0..2
None == -1
Idle == [op |-> "none"]

StdioInit ==
    /\ \E closed \in SUBSET MayBeClosed : fds = Standard \ closed
    /\ hcc_standard_errors = [s \in Standard |-> FALSE]
    /\ hcc_streams = <<>>
    /\ full = "no" /\ call = Idle
    /\ held = {} /\ raw = {} /\ failed = {} /\ peak = 0

\* open(2): the lowest unused descriptor, or a failure.
LowestUnused == LET unused == (0..MaxFd) \ fds
                IN  IF unused = {} THEN None ELSE CHOOSE d \in unused : \A e \in unused : d <= e
open == {LowestUnused, None}

\* The streams that can be used: standard ones always, the others while the
\* program has them.
Streams == Used \cup held

(***************************************************************************)
(* The error indicators.  slots stands for the list hcc_streams.           *)
(***************************************************************************)
\* hcc_stream_error: the place of a stream's slot in the list, 0 if it has none.
SlotOf(slots, s) == SelectInSeq(slots, LAMBDA p : p.fd = s)

HasIndicator(s) == s \in Standard \/ SlotOf(hcc_streams, s) # 0

ferror(s) ==
    IF s \in Standard THEN hcc_standard_errors[s]
    ELSE HasIndicator(s) => hcc_streams[SlotOf(hcc_streams, s)].error

\* The assignment *error = e.
SetError(s, e) ==
    /\ hcc_standard_errors' = IF s \in Standard THEN [hcc_standard_errors EXCEPT ![s] = e]
                              ELSE hcc_standard_errors
    /\ hcc_streams' = IF s \in Standard THEN hcc_streams
                      ELSE [hcc_streams EXCEPT ![SlotOf(hcc_streams, s)].error = e]

\* Mutant: a slot that is used again keeps its indicator.
MutKeepError(slots, s) ==
    LET k == SlotOf(slots, s)  unused == SlotOf(slots, None)
    IN  IF k # 0 THEN [slots EXCEPT ![k].error = FALSE]
        ELSE IF unused # 0 THEN [slots EXCEPT ![unused].fd = s]
        ELSE <<[fd |-> s, error |-> FALSE]>> \o slots

\* hcc_stream_open: the stream's own slot, else a closed one, else a new one
\* at the head of the list.
hcc_stream_open(slots, s) ==
    LET k == SlotOf(slots, s)  unused == SlotOf(slots, None)
        clean == [fd |-> s, error |-> FALSE]
    IN  IF k # 0 THEN [slots EXCEPT ![k] = clean]
        ELSE IF unused # 0 THEN [slots EXCEPT ![unused] = clean]
        ELSE <<clean>> \o slots

\* A new slot needs memory, and there may be none.
NeedsMemory(s) == ~HasIndicator(s) /\ SlotOf(hcc_streams, None) = 0

\* Mutant: the slot stays the stream's.
MutKeepSlot(slots, s) == slots

\* fclose: the slots of the stream are free again.
Release(slots, s) == [i \in DOMAIN slots |-> IF slots[i].fd = s THEN [slots[i] EXCEPT !.fd = None] ELSE slots[i]]

(***************************************************************************)
(* Opening and closing.                                                    *)
(***************************************************************************)
Peak(streams) == Max({peak, Cardinality(streams \ Standard)})

CallOpen(old) ==
    /\ call = Idle
    /\ call' = [op |-> "fopen", old |-> old]
    /\ UNCHANGED <<fds, hcc_standard_errors, hcc_streams, full, held, raw, failed, peak>>

fopen == CallOpen(None)
freopen(stream) == stream \in Streams /\ CallOpen(stream)

\* The open(2) of fopen that gave fd.  A standard descriptor is kept open and
\* another one asked for.
KeepsAsking(fd) == fd \in Standard

OpenAgain(fd) ==
    /\ KeepsAsking(fd)
    /\ fds' = fds \cup {fd}
    /\ UNCHANGED <<hcc_standard_errors, hcc_streams, full, call, held, raw, failed, peak>>

\* Mutant: the descriptor is forgotten.
MutLeaveOpen(fd) == fds \cup {fd}

\* fopen closes the descriptor it has no slot for.
CloseAgain(fd) == fds

OpenFails(fd) ==
    /\ fd = None \/ (~KeepsAsking(fd) /\ NeedsMemory(fd))
    /\ fds' = IF fd = None THEN fds ELSE CloseAgain(fd)
    /\ call' = Idle
    /\ UNCHANGED <<hcc_standard_errors, hcc_streams, full, held, raw, failed, peak>>

\* fopen succeeds; freopen then closes the old stream unless it is a standard one.
OpenDone(fd) ==
    LET opened  == hcc_stream_open(hcc_streams, fd)
        closing == {call.old} \ (Standard \cup {None})
    IN  /\ fd # None /\ ~KeepsAsking(fd)
        /\ fds' = (fds \cup {fd}) \ closing
        /\ hcc_streams' = IF closing = {} THEN opened ELSE Release(opened, call.old)
        /\ held' = (held \cup {fd}) \ closing
        /\ failed' = failed \ ({fd} \cup closing)
        /\ peak' = Peak(held \cup {fd})
        /\ call' = Idle
        /\ UNCHANGED <<hcc_standard_errors, full, raw>>

Opening == call.op = "fopen" /\ \E fd \in open : OpenAgain(fd) \/ OpenFails(fd) \/ OpenDone(fd)

\* fclose does nothing to a standard stream.  Whatever close(2) answers, the
\* descriptor is gone.
fclose(s) ==
    /\ call = Idle /\ s \in held
    /\ held' = held \ {s} /\ failed' = failed \ ({s} \ Standard)
    /\ fds' = fds \ ({s} \ Standard)
    /\ hcc_streams' = IF s \in Standard THEN hcc_streams ELSE Release(hcc_streams, s)
    /\ UNCHANGED <<hcc_standard_errors, full, call, raw, peak>>

\* The program's own descriptors, and fdopen, which makes a stream of one.
RawOpen ==
    /\ call = Idle /\ LowestUnused # None
    /\ fds' = fds \cup {LowestUnused} /\ raw' = raw \cup {LowestUnused}
    /\ UNCHANGED <<hcc_standard_errors, hcc_streams, full, call, held, failed, peak>>

RawClose(d) ==
    /\ call = Idle /\ d \in raw
    /\ fds' = fds \ {d} /\ raw' = raw \ {d}
    /\ UNCHANGED <<hcc_standard_errors, hcc_streams, full, call, held, failed, peak>>

fdopen(d) ==
    /\ call = Idle /\ d \in raw
    /\ raw' = raw \ {d} /\ held' = held \cup {d} /\ failed' = failed \ {d}
    /\ IF d \in Standard THEN SetError(d, FALSE)
       ELSE hcc_streams' = hcc_stream_open(hcc_streams, d) /\ UNCHANGED hcc_standard_errors
    /\ peak' = Peak(held \cup {d})
    /\ UNCHANGED <<fds, full, call>>

clearerr(s) ==
    /\ call = Idle /\ s \in Streams
    /\ SetError(s, FALSE)
    /\ failed' = failed \ {s}
    /\ UNCHANGED <<fds, full, call, held, raw, peak>>

(***************************************************************************)
(* Writing and reading.                                                    *)
(***************************************************************************)
WriteCalls == {"fputc", "fputs", "fwrite", "fprintf"}

\* The bytes of a text of n, all different.
Bytes(n) == [i \in 1..n |-> i]

\* A call of hcc_stream_write with data; asked is what the caller wants written.
CallWrite(op, s, asked, data, size) ==
    /\ call = Idle /\ s \in Streams
    /\ call' = [op |-> op, fd |-> s, asked |-> asked, data |-> data, size |-> size,
                done |-> 0, sent |-> <<>>, stopped |-> ~HasIndicator(s)]
    /\ UNCHANGED <<fds, hcc_standard_errors, hcc_streams, full, held, raw, failed, peak>>

fputc(s) == CallWrite("fputc", s, Bytes(1), Bytes(1), 1)
fputs(s, n) == CallWrite("fputs", s, Bytes(n), Bytes(n), 1)

\* fprintf puts the formatted text, of n characters, into a buffer and writes
\* that; what does not fit the buffer is cut off.
fprintf(s, n) == LET text == Bytes(IF n < PrintCap THEN n ELSE PrintCap - 1)
                 IN  CallWrite("fprintf", s, text, text, n)

Overflows(size, count) == count > SizeMax \div size

fwrite(s, size, count) ==
    /\ IF Overflows(size, count)
       THEN /\ call = Idle /\ s \in Streams
            /\ SetError(s, TRUE) /\ failed' = failed \cup {s}
            /\ call' = [op |-> "fwrite", fd |-> s, asked |-> Bytes(size * count), data |-> <<>>,
                        size |-> size, done |-> 0, sent |-> <<>>, stopped |-> TRUE]
            /\ UNCHANGED <<fds, full, held, raw, peak>>
       ELSE CallWrite("fwrite", s, Bytes(size * count), Bytes((size * count) % (SizeMax + 1)), size)

\* Mutant: the whole rest at once.
MutOneChunk(rest) == rest

Chunk(rest) == IF rest > MaxChunk THEN MaxChunk ELSE rest

\* What write(2) may answer; an int holds no more than MaxChunk.
write(fd, chunk) ==
    CASE full = "no" /\ fd \in fds -> {-1, 0} \cup 1..chunk
      [] full = "zero" /\ fd \in fds -> {0}
      [] OTHER -> {-1}
AsInt(n) == IF n > MaxChunk THEN -1 ELSE n

\* Mutant: only a negative answer stops the loop.
MutZeroGoesOn(n) == n < 0

Stops(n) == n <= 0

\* hcc_stream_write: one turn of its loop, in which write(2) takes n bytes.
Turn(n) ==
    /\ call' = [call EXCEPT !.sent = @ \o SubSeq(call.data, call.done + 1, call.done + n),
                            !.done = IF Stops(AsInt(n)) THEN @ ELSE @ + AsInt(n),
                            !.stopped = Stops(AsInt(n))]
    /\ IF Stops(AsInt(n)) THEN SetError(call.fd, TRUE) /\ failed' = failed \cup {call.fd}
       ELSE UNCHANGED <<hcc_standard_errors, hcc_streams, failed>>
    /\ UNCHANGED <<fds, full, held, raw, peak>>

hcc_stream_write ==
    /\ call.op \in WriteCalls /\ ~call.stopped /\ call.done < Len(call.data)
    /\ \E n \in write(call.fd, Chunk(Len(call.data) - call.done)) : Turn(n)

\* What the call returns when the loop has ended.
Value ==
    CASE call.op = "fputc"   -> IF call.done = 1 THEN call.data[1] ELSE -1
      [] call.op = "fputs"   -> IF call.done # Len(call.data) THEN -1 ELSE 0
      [] call.op = "fprintf" -> IF call.done # Len(call.data) THEN -1 ELSE call.size
      [] call.op = "fwrite"  -> call.done \div call.size

Finished == call.op \in WriteCalls /\ (call.stopped \/ call.done >= Len(call.data))

Return ==
    /\ Finished
    /\ call' = Idle
    /\ UNCHANGED <<fds, hcc_standard_errors, hcc_streams, full, held, raw, failed, peak>>

\* fgetc and fread: one read(2), here one that fails; any other changes nothing.
fread(s) ==
    /\ call = Idle /\ s \in Streams
    /\ SetError(s, TRUE) /\ failed' = failed \cup {s}
    /\ UNCHANGED <<fds, full, call, held, raw, peak>>

DiskFills ==
    /\ full = "no" /\ full' \in {"zero", "fails"}
    /\ UNCHANGED <<fds, hcc_standard_errors, hcc_streams, call, held, raw, failed, peak>>

StdioNext ==
    \/ fopen
    \/ \E s \in Streams : freopen(s)
    \/ Opening
    \/ \E s \in held : fclose(s)
    \/ RawOpen
    \/ \E d \in raw : RawClose(d)
    \/ \E d \in raw : fdopen(d)
    \/ \E s \in Streams : clearerr(s)
    \/ \E s \in Streams : fputc(s)
    \/ \E s \in Streams, n \in Lengths : fputs(s, n)
    \/ \E s \in Streams, n \in Lengths : fprintf(s, n)
    \/ \E s \in Streams, i \in Items : fwrite(s, i[1], i[2])
    \/ hcc_stream_write
    \/ Return
    \/ \E s \in Streams : fread(s)
    \/ DiskFills

StdioFairness == WF_stdioVars(Opening) /\ WF_stdioVars(hcc_stream_write) /\ WF_stdioVars(Return)

StdioSpec == StdioInit /\ [][StdioNext]_stdioVars /\ StdioFairness

(***************************************************************************)
(* Properties.                                                             *)
(***************************************************************************)
\* A stream has one slot and a slot one stream: every stream the program has
\* beyond the standard ones is an open descriptor with exactly one slot, no
\* other slot is in use, and every open descriptor beyond the standard ones is
\* still the program's, whatever opening or closing failed on the way
\* (hcc_stream_open, fopen, fclose, freopen).
StreamsSound ==
    /\ \A i, j \in DOMAIN hcc_streams :
           hcc_streams[i].fd = hcc_streams[j].fd /\ i # j => hcc_streams[i].fd = None
    /\ held \ Standard = {hcc_streams[i].fd : i \in DOMAIN hcc_streams} \ {None}
    /\ fds \ Standard = (held \cup raw) \ Standard

\* The list of slots is no longer than the most streams that were ever open at
\* once, as the comment on the slots promises: closed slots are used again.
SlotsFollowPeak == Len(hcc_streams) <= peak

\* The error indicator is exact: ferror says yes of a stream exactly when a
\* read or a write on it has failed since it was opened or cleared, whichever
\* stream had the slot or the descriptor before.
ErrorExact == \A s \in Streams : ferror(s) <=> s \in failed

\* What a write call reports is what happened: the bytes the system took are
\* the first bytes of what was asked for, in order and once each; the call
\* reports success exactly when that is all of them, fwrite counts the whole
\* items among them, and a call that falls short leaves the error indicator
\* set (hcc_stream_write, fputc, fputs, fwrite, fprintf).
Complete ==
    CASE call.op = "fputs"  -> Value = 0
      [] call.op = "fwrite" -> Value * call.size = Len(call.asked)
      [] OTHER              -> Value # -1
WritesHonest ==
    Finished =>
        /\ IsPrefix(call.sent, call.asked)
        /\ Complete <=> call.sent = call.asked
        /\ call.op = "fwrite" => Value = Len(call.sent) \div call.size
        /\ call.sent # call.asked => ferror(call.fd)

\* Every call ends: the loop of hcc_stream_write stops when nothing is taken
\* any more, and the loop of fopen runs out of standard descriptors.
CallsEnd == [](call # Idle => <>(call = Idle))

\* Streams, slots and descriptors stay in step (hcc_stream_open, fopen, freopen,
\* fclose), and none is lost for good.
StreamsKept == StreamsSound /\ SlotsFollowPeak
=============================================================================
