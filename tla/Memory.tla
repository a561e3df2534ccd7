--------------------------------- MODULE Memory ---------------------------------
(***************************************************************************)
(* The two heaps of the bootstrap, which only ever grow: that of hcc-m1    *)
(* ("m1", xrealloc of hcc/cbits/hcc_m1.c as M2-Planet builds it) and that  *)
(* of the first TinyCC ("tcc", malloc of hcc/support/tcc-aarch64-runtime.c *)
(* and tcc-riscv64-runtime.c with realloc and memmove of                   *)
(* tcc-bootstrap-support.c).  The first keeps the size of a block in front *)
(* of it; the second does not know it, and its realloc copies as many      *)
(* bytes as the new block has, whatever lies behind the old one.           *)
(*                                                                         *)
(* Memory is a function from addresses to bytes.  The program fills every  *)
(* block it gets, moves bytes about in it, and asks for larger and smaller *)
(* copies.  brk(2) gives the break that is asked for, or the old one.      *)
(***************************************************************************)
EXTENDS Integers, Sequences, FiniteSets, SequencesExt

CONSTANTS
    HeapStart, HeapLimit,  \* the first break, and the largest the system gives
    MaxSize,               \* the largest block the program asks for
    MaxBlocks,             \* how many it asks for
    WordSize,                  \* sizeof(long), the alignment (8)
    Grow                   \* how much xrealloc asks for at least (1048576)

ASSUME MemoryAssumption ==
    /\ HeapStart \in Nat \ {0} /\ HeapLimit \in Nat /\ HeapStart <= HeapLimit
    /\ MaxSize \in Nat /\ MaxBlocks \in Nat /\ WordSize \in Nat \ {0} /\ Grow \in Nat

VARIABLES
    heap,        \* whose heap it is
    sysBreak,    \* the break of the process
    cur, end,    \* hcc_heap_cur, hcc_heap_end; hcc_*_malloc, hcc_*_brk
    mem,         \* the bytes
    blocks,      \* the blocks: where, how large, and what the program has put
                 \* there (history)
    died,        \* has die("out of memory") been called?
    refused      \* has brk(2) ever refused? (history)

memoryVars == <<heap, sysBreak, cur, end, mem, blocks, died, refused>>

Addresses == 0..(HeapLimit + (MaxBlocks + 1) * (MaxSize + 2 * WordSize))

MemoryInit ==
    /\ heap \in {"m1", "tcc"}
    /\ sysBreak = HeapStart /\ cur = 0 /\ end = 0
    /\ mem = [a \in Addresses |-> 0]
    /\ blocks = <<>> /\ died = FALSE /\ refused = FALSE

(***************************************************************************)
(* Copying bytes.                                                          *)
(***************************************************************************)
Copied(m, dest, src, offsets) ==
    LET after[k \in 0..Len(offsets)] ==
            IF k = 0 THEN m
            ELSE [after[k - 1] EXCEPT ![dest + offsets[k]] = after[k - 1][src + offsets[k]]]
    IN  after[Len(offsets)]

\* memcpy copies from the first byte to the last.
memcpy(m, dest, src, n) == Copied(m, dest, src, [i \in 1..n |-> i - 1])

\* Mutant: the first byte first, whichever way the bytes go.
MutForwards(m, dest, src, n) == memcpy(m, dest, src, n)

memmove(m, dest, src, n) ==
    IF dest < src THEN memcpy(m, dest, src, n) ELSE Copied(m, dest, src, [i \in 1..n |-> n - i])

(***************************************************************************)
(* Allocation.  BlockAt is where the new block goes.                            *)
(***************************************************************************)
Cur == IF cur = 0 THEN sysBreak ELSE cur
End == IF cur = 0 THEN sysBreak ELSE end

\* brk(2)
brk(want) == IF want > HeapLimit THEN {sysBreak} ELSE {want, sysBreak}

\* xrealloc: a block with the word for its size, in whole words.
Aligned(size) == ((size + WordSize + WordSize - 1) \div WordSize) * WordSize

Need(size) == IF heap = "m1" THEN Aligned(IF size = 0 THEN 1 ELSE size) ELSE size
Wanted(size) == IF heap = "m1" /\ Cur + Need(size) < End + Grow THEN End + Grow ELSE Cur + Need(size)
BlockAt(size) == IF heap = "m1" THEN Cur + WordSize ELSE Cur

\* The heap gets its room.  The answer of brk(2) is compared with what was
\* asked for in xrealloc, with 0 in malloc.
Room(size, got) ==
    IF Cur + Need(size) <= End THEN got = sysBreak /\ UNCHANGED <<sysBreak, refused>> /\ end' = End
    ELSE /\ got \in brk(Wanted(size))
         /\ sysBreak' = got /\ end' = got
         /\ refused' = (refused \/ got < Wanted(size))

\* Mutant: the test of the other heap.
MutNegative(size, got) == FALSE

OutOfMemory(size, got) == heap = "m1" /\ Cur + Need(size) > End /\ got < Wanted(size)

Fill(m, at, text) == [a \in Addresses |-> IF a \in at..(at + Len(text) - 1) THEN text[a - at + 1] ELSE m[a]]

\* The word in front of a block of xrealloc holds its size.
Header(size) == [i \in 1..WordSize |-> IF i = 1 THEN size ELSE 0]
WithHeader(m, size) == IF heap = "m1" THEN Fill(m, Cur, Header(IF size = 0 THEN 1 ELSE size)) ELSE m

\* The program fills the new block, the first bytes of it (kept) excepted.
NewBlock(size, kept, m) ==
    LET text == kept \o [i \in 1..(size - Len(kept)) |-> 10 * (Len(blocks) + 1) + i]
        rest == SubSeq(text, Len(kept) + 1, size)
    IN  /\ cur' = Cur + Need(size)
        /\ blocks' = Append(blocks, [at |-> BlockAt(size), size |-> size, text |-> text])
        /\ mem' = Fill(m, BlockAt(size) + Len(kept), rest)

\* malloc, or xrealloc of no block.
Allocate(size) ==
    /\ ~died /\ Len(blocks) < MaxBlocks
    /\ \E got \in brk(Wanted(size)) \cup {sysBreak} :
          /\ Room(size, got)
          /\ IF OutOfMemory(size, got) THEN died' = TRUE /\ UNCHANGED <<cur, mem, blocks>>
             ELSE NewBlock(size, <<>>, WithHeader(mem, size)) /\ UNCHANGED died
    /\ UNCHANGED heap

\* realloc of the tcc heap copies as much as the new block holds; xrealloc
\* looks up the old size.
CopySize(b, size) ==
    LET old == mem[blocks[b].at - WordSize] IN IF heap = "m1" /\ old < size THEN old ELSE size

realloc(b, size) ==
    /\ ~died /\ Len(blocks) < MaxBlocks
    /\ \E got \in brk(Wanted(size)) \cup {sysBreak} :
          /\ Room(size, got)
          /\ IF OutOfMemory(size, got) THEN died' = TRUE /\ UNCHANGED <<cur, mem, blocks>>
             ELSE /\ NewBlock(size, SubSeq(blocks[b].text, 1, Min({blocks[b].size, size})),
                              memcpy(WithHeader(mem, size), BlockAt(size), blocks[b].at, CopySize(b, size)))
                  /\ UNCHANGED died
    /\ UNCHANGED heap

\* memmove within a block the program has only just filled.
Move(b, dest, src, n) ==
    LET block == blocks[b]  t == block.text
    IN  /\ ~died /\ heap = "tcc"
        /\ n > 0 /\ dest + n <= block.size /\ src + n <= block.size /\ dest # src
        /\ b = Len(blocks) /\ t = [i \in 1..block.size |-> 10 * b + i]
        /\ mem' = memmove(mem, block.at + dest, block.at + src, n)
        /\ blocks' = [blocks EXCEPT ![b].text =
                         [i \in 1..block.size |-> IF i \in (dest + 1)..(dest + n) THEN t[i - dest + src] ELSE t[i]]]
        /\ UNCHANGED <<heap, sysBreak, cur, end, died, refused>>

MemoryNext ==
    \/ \E size \in 0..MaxSize : Allocate(size)
    \/ \E b \in DOMAIN blocks, size \in 0..MaxSize : realloc(b, size)
    \/ \E b \in DOMAIN blocks, dest, src, n \in 0..MaxSize : Move(b, dest, src, n)

MemorySpec == MemoryInit /\ [][MemoryNext]_memoryVars

(***************************************************************************)
(* Properties.                                                             *)
(***************************************************************************)
\* Every block keeps what the program has put there, through all later calls,
\* and a block that realloc gives begins with what the old one held: blocks
\* never overlap, and no copy writes outside its block, even the one that is
\* longer than the block it reads (xrealloc, realloc, memcpy, memmove).
MemoryKept ==
    \A b \in DOMAIN blocks : \A i \in 1..blocks[b].size : mem[blocks[b].at + i - 1] = blocks[b].text[i]

\* Every block lies in memory the process has.  xrealloc stops the program
\* when brk(2) refuses; the malloc of the tcc heap tests for a negative answer,
\* which brk(2) never gives, so for it this holds until brk(2) refuses.
BlocksInHeap ==
    ~(heap = "tcc" /\ refused) =>
    \A b \in DOMAIN blocks : blocks[b].at >= HeapStart /\ blocks[b].at + blocks[b].size <= sysBreak

\* Blocks are memory the process has and nobody else's (malloc, realloc,
\* xrealloc, memmove).
HeapSound == MemoryKept /\ BlocksInHeap
=============================================================================
