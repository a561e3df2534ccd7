# TLA+ specifications of HCC

HCC is the C compiler of blynn-bootstrap: `hcpp` preprocesses C, `hcc1` parses
and lowers it to a textual IR, `hcc-m1` turns the IR into assembly for `M1` and
`hex2`. It is the first C compiler above Blynn's Haskell in the chain
(stage0 -> M2-Planet -> Blynn -> HCC -> TinyCC -> GCC): nothing below it checks
what it produces, and a wrong translation shows up, if at all, as a TinyCC that
misbehaves several stages later. This project models the parts of HCC in which a
mistake would be silent, checks them with TLC on small instances and proves the
central facts with TLAPS for all instances.

## 1. Inventory

### hcpp (`hcc/src/MainCpp.hs`)

* **Include walk** (`IncludeExpand.hs`, `IfFrame.hs`, `Directive.hs`). State: the
  stack of files being read, per file a stack of conditional frames
  (parent, taken, active), the macros, the set of canonical paths with an active
  `#pragma once`. Operations: one per line (conditionals, `#define`, `#undef`,
  `#pragma once`, `#include` literal or computed, text), end of file. Replaces
  each active `#include` by the header's lines.
* **Final pass** (`Preprocessor.hs: preprocess`). Evaluates the same conditionals
  and definitions again over the text the walk made, and expands macros (hide
  sets, `#`, `##`, variadics, prescan).
* Interaction: the walk's text is the only thing that goes from one to the other.
  Hard: the two must decide alike at every line; conditionals are per file in one
  and global in the other; circular includes must end.
* Correct when: both passes agree; no active `#include` is left; conditionals
  close; at most one group of an `#if` runs; it terminates.

### hcc1 (`hcc/src/MainCc1.hs`)

* **Lexer, literals** (`Lexer.hs`, `Literal.hs`): pure functions on characters.
* **Parser** (`Parser.hs`, `ParseLite.hs`): recursive descent with one piece of
  state, the scopes of typedef names and ordinary names. Statements, expressions,
  declarators.
* **Lowering** (`Lower.hs` and helpers, monad `CompileM.hs`). State: scoped
  variables, next temp, next block id, label -> block id, stacks of break and
  continue targets, globals. Operations: one per statement and expression form.
  Statements are lowered out of their textual order (the rest of a list before an
  `if`'s arms), targets are shortened, code after a jump is left out.
* **Types, constants, expressions, initializers** (`Lower.hs`,
  `LowerTypeInfo.hs`, `LowerDataValues.hs`, `LowerLiterals.hs`, `Literal.hs`). Sizes, alignments and
  member offsets; usual conversions; constant folding on lists of bytes, because
  the seed's `Int` has 32 bits; lvalues as a temp or an address; narrow locals kept
  in whole temps and extended when they are read; templates for aggregates.
* **IR printer** (`M1Ir.hs`): writes one function after another into a buffer
  that is published only when all have been lowered.
* Correct when: the blocks do what the C source does; every name means the
  declaration C gives it; every jump has its block; misplaced statements are
  refused and nothing else; a failing compilation publishes nothing.

### hcc-m1 (`hcc/cbits/hcc_m1.c`, `hcc_m1_arch_aarch64.c`, `hcc_m1_arch_riscv64.c`)

* **Reader**: one function at a time, line by line, nested lists for COND.
* **Allocation**: a slot per temp or object, the size of the frame, uses of each
  temp. State: `LocArray`, `next_slot`.
* **Emission**: per instruction, four targets. State: `EmitState.rax_temp`, the
  temp the accumulator holds. Drops stores and loads that it can show to be
  superfluous; moves the stack pointer while pushing arguments.
* Correct when: slots are disjoint and the frame exact; the use counts are exact;
  a truncated file is refused; the code does what the IR says on each target.

### Runtime (`hcc_runtime.c`, `hcc_runtime_m2.c`)

* What `HccSystem.hs` calls: a text buffer and a result buffer, a table of file
  handles, a table of output buffers. One implementation over stdio, one over
  write(2) for the seed build. Everything fails by `exit(1)`.
* Hard: writes that are short or fail, text kept back by stdio, entries of the tables
  that are used again, buffers at the edge of their capacity.
* Correct when: nothing is written outside a buffer; a file holds exactly what was
  handed to its handle; success is reported for whole files only.

### The bootstrap C library (`hcc/support/tcc-*.c`, `nix/sources/mes-libc/strtod.c`)

* What the first TinyCC is linked with: unbuffered streams whose error indicators
  live in a list of slots, formatted output, strtol and strtod, a heap that only grows.
* Hard: descriptors and slots used again, partial failure of fopen and freopen, a full
  disk, widths of int, long and size_t, buffers of every size, overlapping copies.
* Correct when: slots and descriptors stay in step, errors stick to the stream that had
  them, what is reported written is what the system took, formatted text is what the
  format says and stays in its buffer, numbers are the nearest ones, no block is ever
  changed through another.

### Object scripts (`materialize-object-script.c`, `scripts/hcc-blynn-objs.sh`)

* The Blynn compiler prints its objects as a script of here-documents; the program
  takes it apart into files, the script then uses every file of the directory.
* Hard: a script that is cut, a reading error inside a line, lines and paths at their
  limits, an earlier run that was stopped.
* Correct when: after a success the directory holds the objects of the lines read and no
  others, and without a reading error these are the script's; a script is refused exactly
  when it is not acceptable, unless a call fails.

### Around them

* `hcc/support/*.M1`: start code and system calls.
* `scripts/`, `nix/`, `patches/`: fetching and caching of upstream sources, build
  stages. A stamp file says which revision a cached tree holds; a script may be
  interrupted between any two commands.

Nothing in HCC is concurrent; each program is one sequential process, and
programs talk through files. What makes it hard is order (passes over the same
data that must agree, code generated out of order, registers reused), cached
facts (which temp is in a register, which macro is defined), and interruption
between programs.

## 2. Modules

| module | models | proofs |
|---|---|---|
| `M1Ir` | the lines of the IR and what the backend derives from one of them | |
| `M1Alloc` | hcc-m1 reading a function, allocating slots, counting uses | `M1AllocProofs` |
| `M1Emit` (extends `M1Alloc`) | emission for amd64, i386, aarch64, riscv64 | |
| `M1Exec` (extends `M1Emit`) | an IR interpreter and a machine that runs the emitted code | |
| `StmtParse` | the statement parser of hcc1 | |
| `LowerStmt` (uses `StmtParse`) | lowering of statements, conditions and scopes to blocks | |
| `StmtExec` (extends both) | C's meaning of the statements and the run of the blocks | |
| `CTypes` | hcc1's types and trees: sizes, alignment, members, conversions, promotions | |
| `ConstWord` | constants as lists of bytes and their arithmetic | |
| `LowerExpr` (extends both) | typing and lowering of expressions to IR instructions | |
| `LowerInit` (extends `LowerExpr`) | constant folding, static data, local initializers | |
| `CSemantics` | the reference: C's types, conversions, objects, evaluation, initialization | |
| `IrExec` | a machine for the instructions | |
| `ExprExec` (extends them) | the expression parser's nodes, lowering, and the two runs | |
| `IncludeWalk` | include walk and final pass of hcpp | `IncludeWalkProofs` |
| `M1Cpu` | the instructions of the four processors that hcc-m1 uses | |
| `M1Code` (extends `M1Cpu`) | the instructions hcc-m1 writes on AArch64 and RISC-V | |
| `M1Target` (extends `M1Code`) | every operation of the code generator on every target, run | |
| `Publish` | abstract: what a program promises about the file it writes | |
| `Runtime` | the C runtime of hcpp and hcc1, both implementations | |
| `HccDrivers` (extends `Runtime`) | hcpp and hcc1 as programs: read, refuse, print, exit | |
| `M1Driver` (extends `HccDrivers`) | hcc-m1 as a program: the items of a file, the output stream | |
| `Pipeline` (extends `M1Driver`) | the build: three programs, failures, stops, reruns; refines `Publish` | `PipelineProofs`, `PublishProofs`, `ChainProofs` |
| `Stdio` | streams of the bootstrap library | `StdioProofs` |
| `Format` | `hcc_vformat`, `vsnprintf`, `cstr_printf` | |
| `Numbers` | `strtol`, the two `strtod` | |
| `Memory` | `malloc`, `realloc`, `memmove`, `xrealloc` on a heap that only grows | `LibraryProofs` |
| `ObjectScript` | `materialize-object-script` and the script around it | `LibraryProofs` |

`InductionFacts` holds what several proof modules need: the least element of a set of
naturals, induction, the facts about `FlattenSeq`, chains of values, and recursion over sequences.

`MCAlloc`, `MCExec`, `MCStmt`, `MCExpr`, `MCInclude`, `MCTarget`, `MCPipeline`,
`MCLibrary` instantiate them for TLC.

### M1Ir, M1Alloc, M1Emit, M1Exec

`body` is the function as it stands in the file: a flat sequence of lines; a COND
is its opening line and three lists, each closed by an `O` line. `ReadBlock`,
`ReadInstr`, `ReadCond`... take one line each and any line may come next, also
one out of place, also the end of the file (`ReadEof`): the reader's errors are
steps to phase `dead`. `Allocate...` walks the body as `allocate_instrs` does,
`Count...` as `count_instr_uses`. `locs` is `LocArray`, `next_slot` the frame.

`M1Emit` appends abstract operations to `code`. One operation stands for one
`emit_...` helper, which prints other words for each target; where targets differ
in more than wording (argument registers, who pushes the return address, far
stack words on aarch64, which registers a call needs) the operations differ.
Offsets are in words. `rax_temp` and the two optimisations (`emit_instrs` with
its lookahead, `emit_load_operand`) are kept in full.

`M1Exec` then runs the body with an interpreter that has temps and objects but
no slots or registers, and the code on a machine with registers and a stack.
Values are terms, so one run stands for all numbers. A branch may go either way
the first time its condition is met and goes the same way when the same term is
tested again by either of them. Both record calls with arguments, memory accesses,
block entries and the return. The interpreter is the meaning `hcc1` gives to the
IR; `Contract` states what hcc1 guarantees of a function (parameters first and in
order, unique ids, nobody jumps to the first block).

### StmtParse, LowerStmt, StmtExec

A function is a table `prog` of statements with parent links, built by actions
that follow `Parser.stmt`: every function body over a set of statements and up to
`MaxStmts` of them arises. `LowerStmt` is a direct rendering of
`lowerStatementsFrom` and the functions it calls: each lowering operator takes and
returns the state of `CompileM` (scopes, next block id, labels, targets, blocks).
Expressions are reduced to what statements do with them: conditions are built from
tests of a name with `&&`, `||`, `!`, and a statement may use or declare a name.
Each use records the declaration it is bound to, which is what makes shadowing
visible. `StmtExec` runs the source by the rules of C (on the table, with a position
and an environment) and then the blocks; tests may go either way and are replayed
in the second run.

The lowering operators are RECURSIVE, so these modules are only model-checked.

### CTypes, ConstWord, LowerExpr, LowerInit, CSemantics, IrExec, ExprExec

A *world* fixes what the code has when it meets an expression: the word size of the
target, structs, variables with their temps, globals, functions (the constants of a
compilation, `csVars`, `csGlobals`, ...), and which operators the trees may use. The
actions of `ExprExec` then build a tree bottom up on a stack, one action per node
the parser makes (`Primary`, `Prefix`, `CastTo`, `PostStep`, `Subscript`,
`AssignOp`, ...); ill-typed trees, which hcc1 need not refuse, are not built. `Lower`
lowers the tree as an expression whose value is used, `Declare` as the initializer of
a local variable, and `Run` does three things with several initial contents of the
objects: it evaluates the tree by the rules of C, runs the instructions, and keeps both
results.

The lowering operators keep the names and the case order of the Haskell functions
(`lowerExpr`, `lowerLValue`, `lowerCompoundAssignment`, `constExprTyped`,
`lowerLocalAggregate`...). They thread the number of the next temp and return
instructions, an operand and static data. `IrExec` gives each temp a word and each
aggregate a region of memory. A local whose type is narrower than a word starts with
junk above its bits: lowering must extend it at each read.

`CSemantics` shares no definition with the lowering except the syntax of types and
trees. An object is a tree of locations (an object and a path of members and
indices); a pointer is a location or one past it; a value is an integer at the width of
its type, a pointer or an aggregate. Evaluation reports `Undefined` for what C does
not define (signed overflow, shifts out of range, division by zero, a pointer outside its
array, two unsequenced accesses of an object of which one writes) and the properties
say nothing of such trees: they are the programs for which hcc1 owes nothing. A called
function returns its argument, or member `x` of a struct which it then overwrites in
its own copy: `CalleeResult` says so in C, `CalleeCode` is that function as hcc1
lowers it, so a struct passed without a copy would be seen in the caller.

The operators are RECURSIVE over trees and types; these modules are model-checked.

### IncludeWalk

`walk` is the stack of `expandFile`/`expandLines` calls, innermost first, each with
its file, next line and conditional frames. The final pass (`fstatus`, `fframes`,
`fmacros`) reads each line when the walk keeps it: the code runs it afterwards over
the concatenated lines, in the same order, and the walk never reads anything it
writes. What a file holds is chosen line by line when it is first read and stays
(`text`, `ended`), so all files over `Lines` arise. A macro's value is nothing, 0,
1 or a header name; `#if` on a header name is the invalid expression that only an
eligible line may report. `Resolve` stands for `findInclude` and
`hccCanonicalizePath`: several names may lead to one file. A text line holds whole
macro invocations; C leaves directives among macro arguments undefined (there the
final pass takes the directive for an argument while the walk follows it).

### M1Cpu, M1Code, M1Target

`M1Emit` takes an operation such as "scratch register shifted left by the accumulator"
or "jump if less" as one step. These modules open that step. A *task* is one operation on one target
with operands; its code is what the C functions append to the file, with the words of
the aarch64 emitter and the `DEFINE` tables of the headers byte by byte, and x86
mnemonics by name (most of them come from M2libc). `Run` executes one instruction:
`M1Cpu` decodes the four bytes of an aarch64 or RISC-V instruction, so that a wrong
opcode, register field or immediate is a wrong result and not a different spelling.
A literal in the code is a unit the processor cannot execute: it must be jumped over.

A byte has `Byte` = 2 bits, a word 8 or 4 bytes; the fields inside instructions (12-bit
immediates, branch distances, register numbers) keep their widths, so that frames and
offsets do cross their limits. The meaning of each operation is stated on integers
(`Meaning`) and shares only the machine words with the emitter.

### Runtime, HccDrivers, M1Driver, Pipeline, Publish

`Runtime` has an action (or an operator used in one) per function of the runtime; `m2`
chooses the implementation. A call that writes leaves what is to be written in `out`,
and each `Writing` step is one write(2) that takes some of it or fails; with stdio, text may
stay in `kept` until a flush, a close or the exit. `faults` bounds how many calls the
system fails.

`HccDrivers` is the control of `MainCpp.hs` and `MainCc1.hs`: reading, refusing, the
comparison of the paths, opening, lines put into an output buffer in pieces, and the hand-over only
when everything was lowered. A source is a list of declarations; what preprocessing
and lowering do to one is the subject of the other modules, here a declaration is
accepted, refused early or refused late. `M1Ir.hs`'s order of items, pending literals and
runs of zeros are kept. `M1Driver` reads what was written back line by line and prints
an item when it is complete.

`Pipeline` runs the programs as `tinycc-boot-hcc.sh` does, each only after the success of
the one before. A program may be stopped at any moment (`Killed`) and the build started again
on the files that are left. Two other jobs use the same code: hcc-m1 on hand-written
files, and a client that calls the runtime in any order, with handles that are not open.

`Publish` is the promise each program makes about its file: the file is a beginning of one text fixed
when it is opened, unless a write failed, and success means all of it, of an
accepted input. `CppPublish`, `Cc1Publish` and `M1Publish` are its three
instances: the status is read off the program's place, `want` is what the source or the
IR file just read stands for (`should`, a history variable computed by `Ir` and
`Translation`, which parse whole files and share no step with the programs).

### Stdio, Format, Numbers, Memory, ObjectScript

Each is a component with its own variables and steps; `MCLibrary` puts them side by
side. `Stdio` keeps the system's descriptors, the list of slots and the call under way; a
turn of `hcc_stream_write` is a step, so the disk may fill up in between. `Format` reads a
format character by character; the caller's pieces say what was meant and `Formatted`
puts that together independently. `Numbers` reads digits with wrapping arithmetic of
`WordBits` bits. `Memory` has bytes at addresses: a block that overlaps another is seen
when the other changes. `ObjectScript` reads lines, which are sequences of characters: `next` and
`from` say where in the script, `Readable` what `read_line` may hand on (the rest of the line, or
after a failed read the beginning of it), `seen` what it has handed on. It keeps what stdio
has not yet written, refuses lines that reach `LINE_CAP` (`TooLong`) and paths that reach
`PATH_CAP` (`PathFits`), may be stopped and run again on another script.

## 3. Runs

| run | instance | shows |
|---|---|---|
| `alloc` | all bodies of up to 7 of 13 lines, 3 temps | slots disjoint, frame exact, uses exact, truncated functions refused, "missing allocation" exactly when a temp has no definition |
| `exec` | up to 6 of 10 lines about calls and 5 of 12 about memory (6 on amd64) on four targets; up to 8 of 7 lines about COND on amd64, 10 without the constant; up to 6 of 11 about branches on amd64, aarch64 and riscv64 (7 on amd64 with one parameter) | dropped loads and stores never change what memory accesses and arithmetic see, aliasing through ADDROF and objects included; arguments in registers and on the stack (0 to 9 of them), indirect calls, results; nested conditional expressions, fall through, inverted comparisons, loops; the return address survives; code never gets stuck; labels distinct |
| `exec_far` | violation | indirect call in a frame of 4096 words or more on aarch64 |
| `lower` | up to 5 statements of one of three sets (10 about jumps, 9 about `switch`, 8 about scopes) | goto in all directions, loops, arms, short-circuit conditions; cases, default anywhere, fall through, break and continue; shadowing in every scope, outside the two cases below |
| `lower_catch_up` | 4 of 10 statements | liveness: blocks reach everything the source does |
| `lower_shadow` | violation | declarations bound before an `if` that precedes them |
| `expr` | every tree of up to 3 to 6 nodes in each of 18 worlds: arithmetic on all types with 64-bit and 32-bit words, nested arithmetic with casts, assignments, chains of them, pointers, structs, packed and anonymous members, short circuits, calls, constants, initializers of six types | value, objects and type of an expression as in C; folding gives what evaluation gives and refuses nothing C defines; layout sound |
| `expr_bool` | violation | `b++` on a `_Bool` in memory |
| `include` | 2 files: up to 3 and 2 lines of any of 18 kinds, or up to 5 each of 6 kinds, nesting 3 | every kind of line in every order; guards, `#elif` chains, a header that includes itself to the limit, termination |
| `target` | every operation of the code generator on four targets: all pairs of 14 operands (8 on i386), 9 offsets, 6 frame sizes, all sizes of loads, stores and extensions, 1 to 8 arguments, data items of 3 values | the instructions compute what the operation means, branch exactly when they should, keep the other operand, write only the bytes they should; arguments do not overwrite each other; stack pointer and return address come back; data is laid out and aligned |
| `pipeline` | 8 sources, 3 spellings of the output path, 587 IR files written by hand, 2 attempts, 1 failure or stop in each job, both runtimes | each program implements `Publish`; a build that succeeds gives the translation of the source; buffers stay in bounds; files hold what was handed over; the source survives; every program ends |
| `library` | 5 descriptors; formats of up to two pieces in buffers of 0 to 5 bytes; 513 numbers in two bases; up to 3 blocks of up to 3 bytes; 151 object scripts, 2 attempts, 1 read that fails inside a line in each | see section 1, "The bootstrap C library" and "Object scripts": each "correct when" is one or two of the properties |

Several properties are conjunctions of named parts, one for each way to be wrong
(`ControlSound`, `OperationsMean`, `ProgramsPublish`, `HeapSound`...); the parts have
comments of their own and most have a mutant of their own.

Where one run (`exec`, `lower`, `expr`, `include`) checks several families of inputs, the MC module's `OneFamily` says
which inputs each family has, and `MCSpec` lets the reading steps build members of a
family only. It bounds inputs: every step after reading is the module's own.

Bounds. The optimisations of the backend look one instruction ahead and remember
one temp, so a wrong decision needs a definition, the instruction that forgets or
keeps it and a use: with block header, parameters and terminator six or seven lines
hold every such triple. Lowering decides by a statement, its list and the statement
around it: five statements hold a jump out of two nested statements and something
after each. `MaxTrace` cuts runs of loops after 4 or 5 observable events, enough to
go round a loop twice. Two files suffice for a header seen from outside, from
itself and twice; `MaxDepth` 3 stands for the limit of 200, and is reached.
`MaxBody`, `MaxStmts` and `MaxLines` bound the inputs only.

In `expr` a byte has 2 bits (`ByteBits`), so `char`, `short`, `int`, `long` have 2,
4, 8 and 16 bits. Every relation among the types that conversions depend on is kept
(each strictly wider than the one before, `int` half a word on 64-bit targets and
a whole one on 32-bit ones), every value fits TLC's integers, and overflow, sign and
truncation are reached with literals up to 300. `HostIntBytes` is the seed's `Int`. `MemTop` bounds the machine's
memory. Three nodes hold every operator on every pair of types; six hold an operator on a
nested lvalue with an assignment inside it. The contents of objects are combinations of the least,
the greatest, -1, 1 and 2 of each type. Left out of the worlds: `long long` on a
32-bit word, calls with several arguments or through a pointer, members of a union other
than the first in an initializer, postfix steps of a `_Bool` in memory (finding 3).

In `target` the operands are 0, 1, 2, the values around the sign bits of one, two and four
bytes and around the limits of immediates, the largest and the word before it; the
frames and offsets lie on both sides of 2047, 2048, 4095 and 4095 words.

In `pipeline` lines have at most `LineCap` = 10 characters, and there is a source with a line
that just fits and one with a line that does not; two handles and two output buffers are
enough for a full table of buffers, a reused entry and a wrong handle. The client has two
files and opens none twice, so that an open never meets a full table of handles here;
`FilesStayFaithful` (section 4) covers it; a capacity that starts at 2
doubles more than once under `put8`. One failure in each job is enough for every
single point of failure, and the second attempt meets what it left behind. Two failures
would add pairs; the programs stop at the first one or (stdio) remember it. The hand-written
files are all sequences of up to two of eight lines, and those with a third line that is
"R", "E" or one hcc-m1 does not know.

In `library` a long has 6 bits in `Format` and 15 in `Numbers`, a mantissa 4 and an
exponent of up to 20: a number passes through every case of `abtod` (fits, reduced once,
reduced more often than an unsigned long has bits, infinite). `MaxChunk` 2 and `SizeMax` 3 make a
write of 3 bytes take two turns and a product of 4 overflow. Descriptors run out at 4.
Object scripts are all sequences of up to 3 of 4 lines, two objects one behind the other in every
combination, and headers of every bad kind alone and after an object. `PathCap` is 9 and the
directory has 1 character: names of 4 and 5 characters fit, one of 6 is a name whose path does
not fit, one of 9 is no name. `LineCap` is 20: a line of 19 characters fits, one of 20 does
not. A read that fails inside "EOFp" leaves "EOF".

Runs have `CHECK_DEADLOCK FALSE`: each program ends.

Fairness. `lower_catch_up` assumes weak fairness of the execution steps, `include` and
`target` of the next-state relation: one sequential program that goes on as long as it can.
`pipeline` assumes weak fairness of the running program and of the shell's next
command, not of a stop, a failure or a new attempt: `BuildEnds` is about a program that
was started. `library` assumes it of the steps inside a library call (`Opening`,
`hcc_stream_write`, `Return`), not of the caller. No step is assumed to win against another.

### Findings

1. `exec_far`: on aarch64 an indirect call keeps its callee in x16 while arguments
   are loaded, and loads far from sp go through x16.
2. `lower_shadow`: statements after an `if` are lowered first and in the same scope,
   so a declaration after the `if` already captures the names in it.
3. `expr_bool`: the postfix form of `++` and `--` on an object in memory stores the
   sum without converting it to the object's type; a `_Bool` that was 1 becomes 2.

Where lowering deliberately supports less than C (labels nested in code after a jump,
`case` inside nested blocks, declarations before the first case) the properties say
exactly which programs are concerned (`GotoLost`, `Lost`, `InSwitchList`,
`ScopeSafe`): hcc/README.md claims only "the C subset needed for this bootstrap".

Observations: what the code does in places where the repository states nothing it could be
held to. The properties are stated so as to leave exactly these out, and say where.

* A declaration among the clauses of a `switch` is still bound after the switch
  (`Lower.hs:243`): clauses have no scope of their own (`InSwitchList`).
* `hcc_read_file`, `read_line` of hcc-m1 and of materialize-object-script take a reading
  error for the end of the file. A file misread at the end of an item is accepted as a
  shorter one (`misread` in `EndToEnd`). materialize-object-script also takes the "EOF" that is
  read of a longer line for the end of an object, and may succeed with a shortened one:
  `ScriptFollowed` holds it to the lines read, and to the script only if no read has failed.
* `..` in the output path of hcc1 is not recognised as the input's directory; a comment in
  `HccSystem.hs:92` says so.
* `malloc` of the aarch64 and riscv64 runtimes tests brk for a negative answer, which the
  system call does not give (`BlocksInHeap`, a part of `HeapSound`).
* `realloc` reads past the end of the old block when the new one is larger.
* `fprintf` cuts its text at 1023 characters and returns the full length. `hcc_vformat`
  knows no `0` flag and no precision.
* `hcc_double_from_scaled_uint64` rounds up, never to nearest, and in the first library
  `strtod` goes through `strtol`: from 2^63 on the result is wrong in sign. The comments
  call exact rounding outside the bootstrap subset; `StrtodFaithful` asks for one of
  the two neighbours, and of the first library only for numbers that fit a long.
* If descriptor 1 is closed when a program starts, `fopen` leaves the new file open on
  it as well, and what is printed goes into that file.
* On RISC-V `divu` and `remu` are defined by the start code only.

## 4. Proofs

Each theorem holds for every value of the constants that satisfies the assumptions named
in the modules, not only for the instances of section 3: functions and files of any length,
any number of temps, descriptors, handles and buffers, any number of failures. The
bounds of the guards (`MaxBody`, `MaxTries`, `MaxFaults`, `ClientMax`) are constants too.

**`M1AllocProofs`**: `AllocTypeCorrect`, `AllocSlotsDisjoint`, `AllocFrameExact`. Disjointness
alone is not inductive: a slot range given out by `alloc_def` is new only if all earlier
ranges lie below `next_slot`. `Layout` therefore joins it with exactness of the frame (every
allocated temp has at least one slot, all below `next_slot`, and every slot below has
an owner), and each allocation either keeps `locs` or adds the range
`next_slot .. next_slot + n - 1`.

Its second part: `BodyInvariant`, `AllocWholeFunction`. That a truncated function is
refused is a fact about the whole body, while the reader sees a line and the lists that
are open. `Followed` keeps the missing history as a witness: there is a sequence of open
lists, one for each line, in which consecutive ones are related by `Reads`, and the two
passes are at the place in it that their own stack of CONDs says (`Matches`). `Balanced`
counts the `O` lines: those read and those still to come (`Pending`, one to three for each open
list of a COND) are three for each COND. When no list is open, nothing is pending.

Its third part: `PlacedInvariant`, `CountedInvariant`, `AllocUsesExact`. A temp has a
place when a line before `pos` defines it; only a COND gets its place late, at its last `O`,
which the matching stacks of `BodyInv` locate. The counter of a temp is the number of
places (a field, an address, an argument of a call) that name it in the lines before `pos`:
these sets of places grow by those of one line, and a line names the temp in as many
places as `count_instr_uses` visits operands (`CountedOperands`).

**`IncludeWalkProofs`**: `WalkTypeCorrect`, `WalkPassesAgree`, `WalkIncludesResolved`,
`WalkConditionalsClosed`, `WalkRunsOneGroup`. Agreement is not inductive: after the end of a header
the two passes must agree again, which depends on frames the walk is not looking at
then. `Chain` says that the final pass's stack is the file's own stack on top of the
stack it had at the file's `#include`, down to the input file, and that each of these
was active. The lemmas: a directive whose `#if` is in the file does the same to the
file's stack and to the longer one (`ConditionalConcat`), and `Chain` survives moving
to the next line, entering a file from an active line and leaving a file whose
conditionals are closed (`ChainMove`, `ChainPush`, `ChainPop`). Leaving a file with an
open conditional stops hcpp, which is just what `WalkConditionalsClosed` needs.
`WalkRunsOneGroup` says of every frame of every file under way that its flag `taken`
remembers, in an active surrounding, whether a group has run; the frames below the
innermost file are those it will come back to, so the fact is kept for all of them.

**`StdioProofs`**: `StdioInvariant`, `StreamsStayKept`, `ErrorStaysExact`, `WritesStayHonest`.
The list of slots is searched from its head, so everything rests on no descriptor being
in two slots (`SlotsFor`); that is kept because `fopen` takes a slot only for a
descriptor the system has just given, which nobody else holds (`SlotsKept`: open
descriptors are the program's streams and its own, never both). `ErrorsKept` adds that
each slot in use carries the indicator of its stream. `WriteKept` is the loop
invariant of `hcc_stream_write`: what was sent are the first `done` bytes, and a loop that
stopped early has set the indicator. The count of `fwrite` then needs that a quotient
is below the count when fewer bytes than all were taken.

**`PipelineProofs`**: `PipelineInvariant`, `BuffersInBounds`, `FilesStayFaithful`,
`SourceStaysIntact`, for the three programs, the client and the shell. `BuffersInBounds`
needs that `ensure_chars` gives what was asked for: its loop is a least number of
doublings, which exists because k doublings exceed k (`EnsureChars`). `FilesStayFaithful`
needs who owns an entry of the table of handles (`Owners`: an entry names a file exactly if
it answered the file's last opening), so that what is kept back in one entry cannot be
of another file; then a file, what is on its way to it and what is kept back are what
was handed over (`Faithful`), from which the sum over the whole table in `FilesFaithful`
follows, all other entries being empty. `SourceStaysIntact` follows the path from the
working directory to the opening (`Order`): hcc1 opens a path only after comparing its parts
with those of the input, in the directory that `hcc_getcwd` gave. It assumes what the
comparison assumes (`PathsAssumption`): no links and no `..`.

**`PublishProofs`**: `HcppImplements`, `Hcc1Implements`, `HccM1Implements`, `AllPublish`:
the pipeline implements `Publish` three times, step by step, with faults, stops, and the
runs that start on what an earlier one left. `Texts` says that all that moves is text, and
`Faithful` of the pipeline's invariant that a file begins what was handed to its handle.
Besides, each program has an invariant that says where the text it has in mind is while
it works; the initial states and steps of `Publish` follow from it.

* `CppTold`: what is in the file and on its way, then what is in the buffer, then what is
  still to be put.
* `Cc1Told`: hcc1 collects the lines in an output buffer, which with the lines still to be
  printed is the whole IR. What it has handed to its handle is nothing or everything, so
  whatever part of that a failing write lets through is a beginning.
* `M1Told`: hcc-m1 writes while it reads, so the text is split within an item. What has
  been sent, followed by the translation of the open item's lines (`OpenItem`) and the unread
  ones, is the translation of the input. A line that ends an item moves the item's text
  from the second part to the first (`ItemFirst`); a line that continues one moves
  nothing. For this `LinesOf` and `Items`, given by recursive functions, are shown to
  satisfy their equations for every text (`SeqRecursion`: a function defined by the value
  at a shorter sequence exists; `SeqAgree`: there is one only).

**`ChainProofs`**: `ChainInvariant`, `BuildIsRight`: the three programs in a row. `EndToEnd`
speaks of the end of a build only; `ChainInv` says of every program while it runs that it
found what the one before has written of the source that is there now, that it has read all
of it, and that the text it has in mind is made of that. What arrives in its file is
`Publish`: a program ends in success only by `Succeed`, whose text is the one in mind, so
the steps of `PublishProofs` are used here instead of being gone through again. A stop, a
failure or a new attempt breaks none of it, since hcpp starts on an empty file and the others
only after a success. What remains is about data:

* what is written line by line is read line by line (`LinesReadBack`), if no line holds a line
  end; the names of a source survive being written, with the newline hcpp adds (`NamesRead`);
* a data item is read as its values (`DataReads`): `emitDataValuesIr` prints a count at the
  first zero of a run and nothing for the others, so the proof goes through the lines up
  to a value with the values they will amount to (`ValueLines`, `ReadUpto`), which are ahead
  of it inside a run;
* a function is read as its blocks, or refused when a line of it is too long
  (`FunctionReads`); no beginning of an item is an item (`ItemReads`), which makes
  `Items`, that takes the shortest one, find the one that was printed;
* `Reads` and `Refuses` say this of lines whatever comes after them, so that items can be
  put one behind another (`ReadsAll`) and the whole IR means `Expected` (`Translated`).

**`LibraryProofs`**: `ScriptInvariant`, `ScriptIsFollowed`, `MemoryInvariant`, `HeapStaysSound`.
`ScriptInv` relates the directory to the lines read so far. Outside an object it holds
`Expected` of them (`Between`); inside one, the lines since the header are in the object's file
or still kept by stdio, and all other objects are as the lines before the header ask (`Open`).
`PositionKept` relates the lines read to the script: together they are its characters up to
where it is read, and its lines as long as nothing has failed. That the object so written is the one
`Expected` finds needs that an object has no second header and that its end is the first `EOF`
after it (`HeadersOpen`, `ExpectedNext`); that one more line read leaves what was said of the
others, that all of this depends on the lines read alone (`SameExpected`, `Carried`). A refusal
without a failure concerns a line that is the script's own, and the lines above it: `Refused`
and the lemmas of the steps show that no lines behind it can make the script acceptable.
`MemoryKept` alone says nothing of where the next block goes. `MemoryInv` adds that the blocks
lie one behind another below `Cur` (`Placed`), that `Cur` never gets further than the break
unless the tcc heap was refused, and that the word in front of a block of xrealloc still holds
its size (`Sized`), on which the length of the copy depends. `Cur` grows by no more than
`Widest` a block, so no address used is beyond memory, also when malloc has gone on after a
refusal. Copies are chains of memories, each with one byte more in its place
(`CopiedBytes`): `memcpy` carries every byte that it has not written over before it reads
it, `memmove` all of them, whichever way they go (`MemmoveBytes`). The realloc of the tcc heap
may copy more than the old block holds; it is `Placed` that keeps the bytes read, and hence
the block, what they must be.

`InductionFacts` serves these. The library's induction theorems take an operator, which
the provers here cannot instantiate; a property of numbers is therefore the set of those
that have it, and induction is `SetInduction`, from the well-foundedness of the order on
the naturals. In this way recursive functions of the model (`Doubled`) and `FlattenSeq` are
shown to have the values their equations give; there is a table of the
values up to each n, and tables agree. `SeqRecursion` does the same for functions on
sequences that go on with a shorter one (`LinesOf`, `Items`), and `ChainExists` for a value
that each of n steps makes of the one before (`Copied`, the places of lines in a script).

Assumptions on the constants beyond types: lines carry temps, operands and operand
fields where the reader has parsed them, and the four targets are the known ones
(`M1Alloc`); macros are not header names (`IncludeWalk`); write takes at least one byte
unless it fails and there is a descriptor beyond the standard ones (`Stdio`); the files
of the client and of the build are different, and the output path of hcc1 leads to its
output or its input; what the lowering hands to `M1Ir.hs` is made of blocks that begin with
their label and end with their terminator, holds no line ends, and counts runs of zeros
that one digit of the model can hold; a declaration that no program refuses leads to data or a
function; `LINE_CAP` is more than 2 (`Pipeline`); an object script is a text: it holds no NUL, and
its lines are not empty and end where their line end is (`ObjectScript`); a line holds at least one character and what the programs
print is made of the characters that files may hold (`M1Driver`, `HccDrivers`). TLC evaluates all of them in the runs.

Only model-checked, and why:

* liveness (`BlocksCatchUp`, `WalkEnds`, `FragmentEnds`, `BuildEnds`, `CallsEnd`): fairness and
  ENABLED are out of the prover's reach;
* everything about `LowerStmt`, `LowerExpr`, `LowerInit`, `CSemantics`, `StmtExec` and
  `ExprExec`, which are recursive over trees, and about `M1Target`, which needs bits;
* `CodeFollowsIr` and `ControlSound` of `M1Exec`: a simulation between two machines
  that are built with recursive operators;
* `FormatRight`, `StrtodFaithful`: both compare digits with powers of the base and words with
  `2 ^ WordBits`, and the provers know nothing of `^` beyond its value on literals;
  `StrtodFaithful` is besides a bound on rounding errors, which for `abtod` also depends on
  how many digits a number has.

## 5. Not modelled, and the plan

Done: M1Ir, M1Alloc, M1Emit, M1Exec and the layout proofs; StmtParse, LowerStmt, StmtExec;
IncludeWalk with proofs; CTypes, ConstWord, LowerExpr, LowerInit against CSemantics and
IrExec; M1Target; Runtime, HccDrivers, M1Driver and Pipeline against Publish; the library
and the object scripts.

All safety properties of the build (`Pipeline`), the allocation, the include walk, the streams,
the heap and the object scripts are proved. What is left of the properties is over trees, bits or
digits (section 4).

To model, where it would add most:

* `MacroExpand`: hide sets, argument prescan, rescan, paste; termination, and that a
  name is never expanded inside its own expansion;
* `SourceCache`: `archive_checkout`, `git_checkout`, `populate_oriansj_m2libc` with
  interruption between any two commands and a second run;
* `LexC` and the two passes over continuations and comments (`DriverCommon.hs`);
* `SymbolTable`: the red-black tree of hcc1 as a refinement of a map, with the caches
  of struct sizes and members that must follow a tag bound again in an inner scope;
  enum constants, precedence climbing of the expression parser, several arguments
  and indirect calls in `ExprExec`.

Not modelled in the parts that are: `hcc1 --check` and the parsing of arguments;
`hcc_canonicalize` and the existence test of the runtime; string functions, `qsort`,
seeking, fractions and exponents of `strtod`, `ldexp` and stubs of the library; object scripts
with NUL characters, and what a failed call of materialize-object-script leaves of a file (the next
run removes it); the address of a label or function
as an operand at the level of instructions.

Left out for good: generated and vendored code (`patches/`, `va_list.c`), Nix expressions
and the rest of the build recipes (data for another evaluator), M1 assembly of the
start files (no state of their own), wording of diagnostics.
