# A verification of Pawn 3.2+ in TLA+

Pawn is a small typeless language with a compiler (`source/compiler`) and an
abstract machine, the AMX (`source/amx`), that is linked into a host program.
The compiler translates a script in several passes, rewrites the code with a
peephole optimiser and writes a file; the host loads the file, verifies it, calls
its `main` or one of its public functions, and offers native functions to it.

This directory holds TLA+ models of both halves. TLC checks them on small
instances; TLAPS proves most of the properties of the machine half (interpreter,
verifier, collector, event loop, loader) for instances of any size. `PROJECT.json`
is the index: for each component its modules, for each definition the lines it
models, for each hazard the properties that are about it, for each property a
mutation of the code that breaks it.

Paths below are relative to `src/source`.

1. [The system](#1-the-system)
2. [The models](#2-the-models)
3. [What is checked](#3-what-is-checked)
4. [What is proved](#4-what-is-proved)
5. [Observations](#5-observations)
6. [What is not modelled](#6-what-is-not-modelled)
7. [Plan](#7-plan)

## 1. The system

### The machine at run time

| part | source | state | operations |
|---|---|---|---|
| interpreter | `amx/amx_exec.c`, older core in `amx/amx.c` | STK, HEA, FRM, CIP in C locals, copied to and from `AMX` at calls and exits; the stack and heap in one block that they share from both ends | `amx_Exec` on `main`, on a public function, or to resume; about 150 instructions |
| host API | `amx/amx.c` | `AMX.stk`, `hea`, `paramcount`, `error`, `reset_stk`, `reset_hea` | `amx_Push`, `amx_PushArray`, `amx_PushString`, `amx_Allot`, `amx_Release`, `amx_RaiseError`, `amx_Callback` |
| verifier | `amx/amx_verifier.c` | the image, the bit set `instr_addresses`, which of two native-call forms occurred | two walks over the code; relocation on the second |
| loader | `amx/amx.c`, `amx/amxaux.c` | image, tables of natives and libraries, `AMX.flags` | `amx_Init`, `amx_Cleanup`, `amx_Clone`, `amx_Register`, `amx_Find*`, `aux_LoadProgram`, the expansion of compact code |
| garbage collector | `amx/amxgc.c` | one open-addressing hash table shared by all machines | `gc_settable`, `gc_mark`, `gc_scan`, `gc_clean`, `gc_tablestat` |
| event loop | `amx/pawnrun.c` | a copy `nested_amx` of a sleeping machine, `abortflagged`, the debug hook | run `main`; while it sleeps, and after it ended, call the idle function |
| extension modules | `amxtime.c`, `amxcons.c`, `amxdgram.c` | statics: the timer, the previous idle function, indices of the public functions that handle events | `Init` chains an idle function in front of the one it finds |
| native libraries | `amxstring.c`, `fixed.c`, `fpattern.c`, `amxcore.c`, `amxfile.c`, `amxargs.c`, `amxprocess.c`, `float.c` | cells of the script; a property list, file handles | native functions |
| debugger | `amxdbg.c`, `pawndbg.c` | symbolic information, break points, step mode | lookups in both directions between code and source, a debug hook |

### The compiler

| part | source | state | hard behaviour |
|---|---|---|---|
| passes, declarations, statements | `sc1.c`, `scvars.c` | symbol tables, `sc_status`, stack and heap counters of the block being compiled | the first pass is repeated while a result was used before its tag was known; the last one relies on what they noted |
| preprocessor, lexer | `sc2.c` | a stack of included files and conditions; one line of look-back | files, `#if` and comments nest across each other; the parser uses the same stack |
| expressions, code generation | `sc3.c`, `sc4.c` | the staging buffer; what an expression took of the heap | code is written before it is known whether and in which order it is used |
| staging, peephole | `sc7.c` | the staging buffer | parts are reordered and rewritten |
| automata | `scstate.c` | automata, states, lists of states | variables share cells; a call goes through a jump table that is written before its targets |
| assembler | `sc6.c` | label table, output file | two passes that must agree on sizes; compact encoding that may give up halfway |
| errors, lists, files | `sc5.c`, `sclist.c`, `libpawnc.c`, `memfile.c`, `lstring.c`, `sci18n.c` | lists | |

### How they interact, and where it is hard

* Everything runs on one thread, yet the machine is reentrant: a native may push
  parameters and call `amx_Exec` again, a native or an instruction may put the
  program to sleep, and while it sleeps the host runs events on a *copy* of the
  `AMX` structure whose stack and heap are those of the sleeper. The registers
  are at any moment partly in C locals and partly in the structure; each call
  and each exit has its own list of what it stores.
* `amx_Callback` rewrites the instruction that called it. The code the
  interpreter runs is no longer the code the verifier looked at.
* The lengths of instructions are in three tables in three functions (the
  verifier's `opcode_sizes`, the results of its handlers, `OPHND_NEXT` in the
  interpreter) and in a fourth in the assembler. The checks of an instruction are
  in two interpreters, one per file.
* The idle functions of the extension modules call each other through
  variables that each saved when it was loaded. What an event handler does (set
  the timer again, sleep, loop for ever) happens in the middle of that chain,
  and Ctrl-C may come at any point.
* The hash table of the garbage collector is filled from natives, counted by
  scans and emptied by cleaning, and resized between any two of these.
* Memory, libraries and natives of several machines depend on each other: a clone
  shares the image of its source, a library binds its natives in a machine that
  the host or another library bound before, and loading can fail at every step.
* The passes of the compiler communicate through the symbol table: who refers to
  whom, which tag a result had, what a conditional expression takes of the heap, which
  states a function has. The first pass sees the program before the declarations it
  needs, the last one writes at once.
* The text of a script is in arrays that may be packed or not, that overlap when a
  native works in place, and whose kind shows in the first cell only.

Nothing of the machine's state is kept on disk, so there is no crash recovery;
datagrams may be lost, which the receiver cannot see.

What makes each part correct:

* *interpreter and API*: every caller of `amx_Exec` finds its stack and heap as
  it left them, however the program ended; nobody writes to live cells of
  another activation; an error that ends a program was raised by the native it called, or
  travelled up to it; a sleeper resumes where, and with what, it went to sleep. No instruction reaches
  outside the data, and none refuses what a program may do.
* *verifier*: what it accepts can be executed without looking at operands
  again, and it accepts what the compiler writes.
* *loader*: each block and library has one owner and is given back once, whichever
  step fails; a complete machine only calls functions that exist; what was encoded
  is expanded.
* *garbage collector*: a referenced object lives, an unreferenced one dies, each
  once; no operation hides an object from the next scan.
* *event loop*: a timer that is due and the end of a sleep are noticed
  whatever else keeps coming; the timer's arithmetic survives the wrap of its
  counter; the user can end a loop.
* *natives*: an array holds the text that its last native promises; what is
  encoded is decoded again; a pattern finds what it says; a fixed point result is
  the nearest one.
* *compiler*: a compiled program does what the source means at each level of
  optimisation, and gives back stack and heap whichever way a scope is left; what is
  called is there, what is public is found, what is unused is left out; the lines that
  conditions exclude are excluded, and no others.

## 2. The models

| module | models | composes |
|---|---|---|
| `AmxExec` | `amx_exec.c`, the calling half of `amx.c`, the sleep of `pawnrun.c` | |
| `StackDepth` | how deep the stack is at each instruction of compiled code (`sc3.c`, `sc4.c`) | |
| `AmxExecProofs`, `MCAmxExec` | theorems about it; programs to run | `AmxExec`, `StackDepth` |
| `Cores`, `MCCores` | what each instruction computes and checks, in both C interpreters | |
| `CoresProofs` | theorems about the checks, and about both doing alike | `Cores` |
| `Assembler` | the code half of `sc6.c` | |
| `AmxCode` | `amx_verifier.c`, control flow of `amx_exec.c`, patching in `amx_Callback` | `Assembler` |
| `AmxCodeProofs`, `MCAmxCode` | theorems about it; files to load | `AmxCode` |
| `AmxGC`, `MCAmxGC` | `amxgc.c` under the host `pawnrun/prun5.c` | |
| `Objects` | what a collector promises: the abstract specification of `AmxGC` | |
| `AmxGCProofs` | theorems about the collector; it implements `Objects` | `AmxGC`, `Objects` |
| `AmxHost`, `MCAmxHost` | `pawnrun.c` with `amxtime.c`, `amxcons.c`, `amxdgram.c` | |
| `AmxHostProofs` | theorems about the event loop | `AmxHost` |
| `Loader` | `amx_Init`, `amx_Cleanup`, `amx_Clone`, `amx_Register`, `amxaux.c` | |
| `LoaderProofs` | theorems about it | `Loader` |
| `Iteration` | induction over the naturals, recursive functions and loops: lemmas for the proofs about the collector, the event loop, the loader and the preprocessor | |
| `Compact` | `encode_cell` and its like in `sc6.c`, `expand` in `amx.c` | |
| `DebugInfo` | notes of `sclist.c`, `append_dbginfo` in `sc6.c`, lookups in `amxdbg.c` | |
| `MCImage` | files of programs, from writing to freeing | `Loader`, `Compact`, `DebugInfo`, `AmxCode` |
| `Strings` | `amxstring.c`, string functions of `amx.c` | |
| `Codecs` | UTF-8 in `amx.c` and `sci18n.c`, uuencode, URLs, numbers | |
| `Patterns` | `fpattern.c` | |
| `Fixed` | `fixed.c`, both ways it can be compiled | |
| `MCNatives` | calls of natives | the four above, `AmxGC` |
| `Peephole` | `sc7.c` | |
| `CodeGen`, `Expressions`, `Statements` | `sc4.c`, `sc3.c`, the statements of `sc1.c` | each extends the one before |
| `Machine` | the instructions that the compiler emits | |
| `Compiler` | two passes over a program, then a run | `Statements`, `Machine` |
| `Semantics`, `Reference` | what a program means; what a compiler promises | |
| `MCCompiler` | programs; the refinement | `Compiler`, `Semantics`, `Reference` |
| `Passes` | symbol table and passes of `sc1.c`, `sc2.c`; names in `sc6.c` and `amx.c` | |
| `States` | `scstate.c` and its users | |
| `MCPasses` | programs for the two | `Passes`, `States` |
| `MCTranslation` | joins them with the programs of `MCCompiler` | `MCPasses`, `MCCompiler` |
| `Preprocessor`, `MCPreprocessor` | the reading half of `sc2.c` | |
| `PreprocessorProofs` | theorems about it | `Preprocessor`, `Iteration` |

### AmxExec

The C call stack is explicit: `act` is the stack of running `amx_Exec` calls
with the registers that live in C locals, `ctx` that of their callers, the host
at the bottom and one entry for each native that is being called. A caller is in
control when `ctx` is one longer than `act`, and then any function of the API may
be called: `Push`, `Allot`, `PushArray`, `Release`, `RaiseError`, `Exec`,
`Continue`; the host may also copy a sleeping machine (`HostCopy`), run events on
the copy, and drop it (`HostDrop`). Otherwise the instruction at CIP is executed;
each action of `Interpret` is one family of instructions with its checks in the
order of the code. `AbortExec` and `SleepExec` are the two ways out.

Code is a function from addresses to instructions, given by a constant. Of the
memory only cells that steer control are kept: return addresses, saved frames,
argument counts. The instructions that only compute are one action, `Data`, that
goes on or fails with the error the program gives it; `Cores` has what they
compute. Entries of `ctx` carry history that the properties compare with: the
registers the caller may expect, the state at the moment of a sleep, the errors that were raised by this
native or handed on to it.

### Cores

One instruction on one machine, executed by the default core and by that of earlier
releases (`amx.c` without `AMX_USE_NEW_AMXEXEC`); the state is the machine before and
after, in each. A cell has four bytes of two bits, so that products and sums wrap and
addresses can be unaligned. What of a machine and of an instruction is taken for granted is written
down: `Machine` and `Laid` (a program is loaded), `Verified` (the verifier accepted the
instruction) and `Orderly` (what nobody checks and the compiler keeps to). Bitwise and, or and xor
are constants: no property is about them, and both cores have the same C.

### Assembler and AmxCode

`Assembler` turns lines, as the code generator writes them, into cells the way
`assemble()` does, with its two passes. `AmxCode` takes such an image, or one with
a damaged cell, through its life: `BadHeader` ... `GoodHeader` are the checks
before the walks, `Collect` and `Verify` one iteration of each walk, `BadOpcode`
and `BadOperand` their rejections; then `Start` and the actions of the
interpreter, reduced to what decides the next address. Values that a program
computes are any value. `opcode_sizes`, `NumArgs` (what the handlers return) and
`Advance` (the argument of `OPHND_NEXT`) are three separate operators because they
are three separate tables. `Build` distinguishes the ways a host can be compiled:
without relocation, with it, and with opcodes replaced by handler addresses.

### AmxGC

The table with its probe sequence, its counters and its resizing; objects that
exist; handles in the memory of each machine; the collection of `prun5.c` as a
sequence of scans and a clean. It follows the code in that the number of entries
is never counted (`count` stays 0): the table neither grows by itself nor reports
that it is full, and `gc_tablestat` always says it is empty.

### AmxHost

The chain of idle functions as it is built by the `Init` functions and walked by
each call of the host (`CallIdle`, `PollTime`, `PollKeys`, `PollDGram`), with a
call of a script's public function split into its begin (`Enter`), what the script
does meanwhile (`SetTimer`, `Loop`, `Break`), and its end (`HandlerEnd`). Time,
keys, datagrams and Ctrl-C come from outside at any moment. The tick counter
has the width of a cell and wraps; the stamps of the timer have that of a `long` and
wrap there. `Route` and `Deliver` follow a datagram to the function `amx_DGramIdle` chooses, which
need not exist.

### Loader, Compact, DebugInfo

`Loader` follows blocks of memory and libraries through the steps of
`aux_LoadProgram`, `amx_Init` (in four builds: with pointers wider than a cell or
not, with the new core or not), `amx_Register`, `amx_Clone` and `amx_Cleanup`. Each
program is good, or has one defect that a step of `amx_Init` finds; allocation may
fail anywhere. `Compact` encodes a sequence of cells, falls back to plain
cells, and expands in place, one cell at a time, with the ring of `AMX_COMPACTMARGIN` cells that wait. `DebugInfo` lets the compiler note
files, functions, blocks and lines in any order it can parse them in, take functions
back that turn out to be unused, write the tables, and has the debugger look up
what was noted.

### Strings, Codecs, Patterns, Fixed

Each has one action per native (`Strings`), or composes an input and computes on it.
They keep the loops of the code where their bounds matter and compare with a
definition: of a text as a sequence of characters (`text` in `Strings`), of decoding
as the inverse of encoding, of a pattern as the set of texts it stands for, of
a fixed point result as the nearest number.

### The compiler

`Compiler` compiles a syntax tree twice, first in `statFIRST`, then in `statWRITE`, and
runs the code on `Machine`. The state of the compiler is one record that each function
of the compiler takes and returns, under the function's own name (`hier14`, `plnge2`,
`callfunction`, `doswitch`, `stgwrite`); each node of the tree is compiled by the
function that parses it. `Peephole` has the table of sequences as data, and the loops of
`stgopt` and `stgstring`.

`Semantics` evaluates the same tree over a store of cells, without stack, heap, labels
or instructions. `Reference` is the abstract specification: a program is run, and then
an observer sees what it means. `Implements` in `MCCompiler` is `Reference`'s
specification with `outcome` mapped to what can be seen of the run of the compiled
program: the natives it called with their arguments, its result, its globals, and
whether an assertion or a bound stopped it.

`Passes` has the symbol table of whole programs: `ParseStub`, `ParseFunction` and
`ParseVariable` process one declaration each; `NextPass` removes what nothing refers to
and starts a pass again or the pass that writes; `assemble` writes the tables. The
properties look names up as the host does. `States` adds lists of states to variables
and functions. `Preprocessor` reads files whose lines are chosen while it reads: any line
that may legally stand at this place.

## 3. What is checked

Deadlock is checked in the two `exec_*` runs: a machine or its caller can always go on. The other
systems stop: the host returns from `main`, an image is rejected, a file has been read, a
program is compiled and has run, an instruction has been executed.

Some runs join components that have nothing to do with each other; a behaviour of theirs is about one of
them (the variable `part` of the MC module). `image` has the debug tables, the compact encoding, the
loader and the verifier; `natives` those that compute and the collector; `compiler` declarations, state
lists, and statements with the machine that runs them.

| run | states | properties | shows |
|---|---|---|---|
| `exec_sleep` | 201 687 | `TypeOK`, `CallerMemoryIntact`, `SleepKeepsPlace`, `ErrorTravels` | with sleeping programs, events on a copy, nested calls and calls patched as they are met, no one writes to another's live cells, a sleeper keeps its stack, its heap and its resume point, and an error under a native that `amx_Callback` called was raised by it or travelled up to it |
| `exec_native` | 173 617 | `CallerBalanced`, `ReturnIsClean` | callers are balanced, returns are clean |
| `cores` | 290 346 | `Contained`, `NoFalseAlarm`, `CoresAgree`, `LayoutKept` | no instruction of the default core reaches outside the data, or refuses an access that is inside; what neither core refuses both do alike; stack and heap stay in order |
| `gc_collide` | | `NoDangling` | fails: cleaning hides a colliding handle, and the next collection destroys an object in use |
| `host` | 380 400 | `TimerMeasure`, `TimerServed`, `MainWakes`, `AbortEndsLoop` | the timer's arithmetic; due timers and sleepers are served; Ctrl-C ends a loop |
| `image` | 929 695 | `PlaceFound`, `BreakpointFound`, `ExpandRestores`, `Owned`, `NativesExist`, `BoundOnce`, `WalksAgree`, `NarrowIsAccepted`, `RunsOnInstructions` | the debugger finds the place of every statement; the expanded code is the assembled one; every block and library has one owner; natives exist and stay bound to what they were bound to first; the walks of the verifier agree, compiled files are accepted, and the interpreter stays on verified instructions |
| `natives` | 205 869 | `ContentsKept`, `ResultsAgree`, `DecodesAgain`, `FindsMeant`, `Exact`, `CollectedExactly`, `ChainsKept` | the natives that compute agree with their definitions; with colliding handles too, a collection destroys garbage and nothing else as long as probes find what is in the table, and only a collection can end that |
| `compiler` | 390 673 | `Implements`, `Restored`, `CalledIsThere`, `ExportedFound`, `NothingDead`, `CallsCounted`, `OverlaySafe`, `Dispatched` | compile-and-run refines the reference semantics at three levels of optimisation; stack, heap and frame are given back; calls reach their functions, tables hold what is public, dead code is left out, the estimate of the stack misses no call of a function; state variables overlap only when they may, and calls reach the implementation of the state |
| `preprocessor` | 412 184 | `ConditionsKept`, `PlaceKept` | what branches exclude is skipped and nothing else; an include returns to where it was |
| `passes_estimate` | | `StackEstimate` | fails: the estimate of the stack lacks a return address |
| `passes_states` | | `AlwaysDispatched` | fails: a list that names a state twice makes the stub read behind its table |
| `cores_switch` | | `CoresAgree` | fails: the default core misses cases of long tables |

Some runs are expected to fail; they show where the code disagrees with what is written
about it.

* `gc_collide`: `gc_clean` empties a slot (`amxgc.c:300`) through which the probe for another handle
  goes. The next scan does not find that handle, and the object is given to the callback, whose
  parameter is `unreferenced` (`amxgc.h:27`), although a machine refers to it.
* `cores_switch`: the default core halves a case table in cells although a record is two
  cells (`amx_exec.c:1530`), so that a label may be compared with a case value;
  `sc4.c:717` says the table is sorted so that an abstract machine can search it that way.
  The old core looks through all of it.
* `passes_estimate`: before the first function begins the stack holds the sentinel of `amx_Init`, the
  number of parameters and the zero return address (`amx_exec.c:374`, `379`); the
  compiler counts two of them (`sc1.c:4880`, `4882`). `main(){}` takes four cells, three are estimated.
  `CallsCounted` shows that this cell is all that is missing in programs without
  operators of their own.
* `passes_states`: the function `f() <a, a>` has one state and a table of two records, of
  which one is written (`sc4.c:125` speaks of the states actually used). A call in another state reads on behind the table
  (`sc4.c:135`). `Dispatched` is what is left: every state that is named finds its
  implementation even then, and without such a list every other state finds the one for all others, or stops.

### Bounds

* `exec_*`: eleven (eight in `exec_native`) cells of memory, a margin of two cells
  instead of sixteen, one pushed parameter, one or two active calls of
  `amx_Exec`. The programs in `MCAmxExec` reach every instruction family and every
  failing check; two nested calls are enough for a sleeper, an event on its copy
  and a native of that event, and the proof of `CallerBalanced` has no bound.
* `cores`: each instruction once, from every combination of register values at which a
  check turns, six layouts of stack and heap, two memories. What a program does
  in several steps is covered as far as each step starts from any machine. Case tables
  have up to three records and the linear search ends at three (instead of 30);
  `cores_switch` has longer ones.
* `image`, the verifier: a start, two of eight bodies (a native call in either form, branches
  forward and backward, a switch, a computed jump, pushes of several cells) and
  an end, plus one file for every opcode the assembler knows; for the first group
  every cell is replaced by nine values, among them opcodes, an invalid opcode,
  a negative number and odd addresses. Two bodies are enough for each pair of
  instructions that can refer to each other. A cell is four bytes.
* `natives`, the collector: tables of 4 and 8 slots instead of 128 and more; three handles of which two or three
  collide in the small table, under hosts that collect, and four under one that only fills
  the table up; two machines. The theorems have no such bounds.
* `host`: cells and longs of two bits, so that the clock wraps after four ticks and a timer of
  two ticks crosses the wrap; a poll at most three ticks late (`MaxElapsed`, less
  than one round of the counter, the limit up to which its difference means
  anything); one waiting key and one waiting datagram; four sets of handlers.
* `image`: two functions, two included files, up to two nested includes, two lines or a
  block with locals for each function; cells of 16 bits at both ends of each length of the
  encoding, in runs longer than the margin of the expansion (6); nine programs, two machines
  of which one may be a clone, in every build, two libraries, nine blocks of memory.
* `natives`: arrays of three and two cells of two characters behind each other, so that
  one character too many shows; characters at the limits of each length of UTF-8;
  patterns of up to three items and names of up to three characters; cells of 14 bits in
  two words of seven, with operands around the limits of a word, a cell and the divisor.
* `compiler`, the statements: about 1 150 programs. Each operator is applied to each kind of operand
  (constant, local, global, element, character, reference, call) on either side;
  conditions, assignments and calls are nested two deep; each statement holds each way
  out. What is composed from more parts is composed by the same functions. Programs that
  do not end within 600 steps would fail `Implements`; none does.
* `compiler`, the declarations and the states: every order of up to four declarations with bodies of up to two uses, which
  has chains of three callers, cycles, uses before declarations and a tagged operator;
  three state variables of one or two cells, or four behind each other, and up to four
  implementations over eight lists of states in two automata, one of which names a state twice.
* `preprocessor`: three files, two nested `#if` at a time in all of them, line numbers
  modulo two. The files are not fixed: every line may follow every line after which it
  is legal; a second `#else` is not (`OneElse`).

### Fairness

Only `AmxHost` has liveness properties. Its fairness is: the host keeps polling
(`HostStep`, `PollDGram`; the loops of `main` in `pawnrun.c` have no other exit), a
script function that does not loop returns (`ScriptEnds`), one that loops executes
its BREAK instructions (`Break`; the compiler writes one for each statement unless
told not to), and time passes (`Tick`). Keys, datagrams and Ctrl-C need not come.
The other components are called and return. `Implements` is about safety: it says
what is seen, and the bound on the steps that it is seen.

## 4. What is proved

`tlapm` checks every leaf of the modules below. Each theorem is about the
specification that the runs check, for every value of its constants that the named
assumptions of the module allow; what a theorem assumes beyond them is said with it.

| module | theorems |
|---|---|
| `AmxExecProofs` | `TypeCorrect`, `Balanced` (`CallerBalanced`), `SleeperStays` (`SleepKeepsPlace`), `MemoryKept`, `CompiledKeepsMemory` (`CallerMemoryIntact`), `CompiledReturnsClean` (`ReturnIsClean`), `ErrorsTravel` (`ErrorTravels`) |
| `CoresProofs` | `CoresLayoutKept` (`LayoutKept`), `CoresContained` (`Contained`), `CoresNoFalseAlarm` (`NoFalseAlarm`), `CoresDoAlike` (`CoresAgree`) |
| `AmxCodeProofs` | `TypeCorrect`, `SecondWalkAgrees` (`WalksAgree`), `OnlyInstructionsRun` (`RunsOnInstructions`), `CompiledCodeLoads` (`NarrowIsAccepted`) |
| `AmxGCProofs` | `TypeCorrect`, `Exactly` (`CollectedExactly`), `OnlyCleaningHides` (`ChainsKept`), `Implements` (`Objects`) |
| `AmxHostProofs` | `TypeCorrect`, `TimerMeasures` (`TimerMeasure`) |
| `LoaderProofs` | `Inductive`, `MemoryIsOwned` (`Owned`), `BoundNativesExist` (`NativesExist`), `BindingsStay` (`BoundOnce`) |
| `PreprocessorProofs` | `TypeCorrect`, `ReaderCorrect`, `ConditionsCorrect` (`ConditionsKept`), `PlaceCorrect` (`PlaceKept`) |

### Callers of the interpreter are balanced

`AmxExecProofs!Balanced`: `Spec => []CallerBalanced` for every program, every
memory and margin, any number of nested calls, any native and any use of the API.

`CallerBalanced` is not inductive. What `abort_exec` puts into `AMX.stk` is
`reset_stk`, which `amx_Exec` computed on entry from `AMX.stk` and `paramcount`; so
`IInv` also says that each activation's reset pair is what its caller expects
(`ResetsMatch`), that a ready caller's `STK` plus the pending parameters is what it
expects and that those parameters left a margin (`ReadyInv`), that no parameters are
pending while the interpreter runs (`RunInv`), and that the reset pair of a sleeper
is in the `AMX` (`AsleepInv`) and in the copy that `pawnrun.c` keeps aside
(`SavedInv`).

The theorem assumes `~BadIndex`: no native pushes parameters and returns without
having made the call they were for. With a bad index `amx_Exec` returns before it
clears `paramcount`, and the parameters stay on the stack until the next call
takes them for its own. It also assumes `~HugeAllots`: nobody asks `amx_Allot` for more than
the gap between heap and stack, which it grants (section 5). `TypeCorrect` is
proved under the same assumptions, which it takes from `IInv`.

### Programs on top of one another

The second half of `AmxExecProofs` starts from `IInv` and keeps its two assumptions.

* `SleeperStays`: a sleeping machine is found with the `STK`, `HEA` and resume point
  it had. Only the copy that `pawnrun.c` keeps aside survives an event, so the invariant
  `PlaceInv` says that a sleeper's place is either in the `AMX` itself or in that copy,
  and in the former while nothing runs above it. It assumes `OnlyHaltSleeps`: a native
  or a debug hook that asks for a sleep has the address of its own instruction stored,
  not the next one (section 5).
* `MemoryKept`: `Spec /\ []OwnStack => []CallerMemoryIntact`. `OwnStack` is a property
  of the program that runs: it does not pop more than it pushed. Compiled code does not;
  the machine does not check it. The invariant `MemoryInv`: callers lie above each other
  on the stack, and each entry's memory above its own `STK` is what it noted.
* `ErrorsTravel`: whatever program, depth and patching, an error found in the `AMX` under a
  native that `amx_Callback` called was raised by that native or by one above it whose
  program it ended, and so on. Each caller's record has the errors that were raised by it
  or handed on to it (`heard`); the invariant follows them through `amx->error`, which is one
  cell for all the callers. Natives that a patched instruction calls are left out
  of the conclusion, not of the programs: for them the code does otherwise
  (section 5).

### Compiled programs return cleanly

`CALL`, `RET` and `RETN` trust the stack: a return address, a saved `FRM` and a parameter count
are cells like others, and nothing checks them. So `ReturnIsClean` (at address 0, to which the outermost
function returns, the stack is as deep as its caller left it and `FRM` is 0) is not true of every bytecode.
`CompiledReturnsClean` proves it for bytecode that has a static stack depth, and
`CompiledKeepsMemory` proves `CallerMemoryIntact` for it without the `[]OwnStack` of `MemoryKept`.

`StackDepth` says what that is. A typing gives each instruction that can be reached a depth, the cells
between `FRM` and `STK` (-1 ahead of `PROC`), and the instruction that leaves its function; `IsTyping` says that each
instruction agrees with those it leads to. The compiler generates such code:

* it emits pushes and their removal in pairs (`pushreg`, `popreg`, `modstk` in `sc4.c`, and
  the locals with `modstk` ahead of `ffret`, `sc1.c` 7686-7688);
* it pushes the parameter count right ahead of each call (`sc3.c` 2502-2504, also 263-265 and
  `sc1.c` 5049-5052), and `RETN` drops it with the parameters: `CallTyped`. An instruction that expects the count
  (`Counted`) is reached only from that push;
* the `entry` functions of states are called without a count (`sc1.c` 7813) and left by `RET`
  (7688), the rest by `RETN`;
* a call of a function with states goes to a stub that reads the state and branches to one of several `PROC`s, or to
  a `HALT` (`writeleader`): `HeadTyped`.

Not covered are `SCTRL` 4, 5 and 6: the restoring of `STK` by `goto` and `alignframe`, which set
registers from computed values, functions written in `#emit`, and `CALL.PRI`, which the compiler does not write itself. As
in the whole model, what programs store through pointers is kept out of the control cells. `MCAmxExec` has typings of
`Sleeper`, the program of `exec_sleep`, and of `Stately`, which has a state, its stub and its
`entry` function; TLC evaluates that they are typings (`SleeperIsTyped`, `StatelyIsTyped`).

The inductive invariant is `FrameInv`, on top of `IInv` and `MemoryInv`. It finds the frames again, any number of them
(`Chain`): the innermost one where `STK` and the depth of the instruction say it is, each next
one where the size of the last and the depth at its return address say it is, and the
outermost one with return address 0, saved `FRM` 0 and its last parameter against what the caller
of `amx_Exec` had. It holds this for the program that runs (`Sits`), for those that wait in a native,
in the memory that the native found (`Waits`), for a sleeper (`Rests`) and for the sleeper that
`pawnrun.c` keeps aside (`SleeperFrames`). `CallStep` adds a frame to the chain, `ReturnStep` takes one off, and
`ChainKept` says that nothing else disturbs it. That a program waiting in a native finds its cells as they were
is `MemoryInv`, and that one needs of the running program only what `FrameInv` gives (`OwnPart`: `STK` is
never above the caller's); the two are shown inductive together.

`Compiled` is the one assumption about the program. The others are `~BadIndex` and `~HugeAllots`, as above, and `NativesAwake`: no native raises
`AMX_ERR_SLEEP`. The place at which such a program would be resumed is that of its own call, or of one in
another program that the native ran since (section 5), where other frames are expected.

### Each instruction stays in its memory, and both cores do the same

`CoresProofs`, for every instruction, machine, size of the memory, width of a cell and set of
instruction starts:

* `CoresLayoutKept`: when the default core goes on, the heap is above the globals, the stack above
  the heap and not above its top.
* `CoresContained`: what it has let pass was in the data of the program, and began (a block: also
  ended) outside the gap between heap and stack; what was pushed is above the heap; a return or a computed
  jump is to an instruction.
* `CoresNoFalseAlarm`: the converse. An instruction that accesses globals, heap and stack only, and
  has room for what it pushes, does not end with one of the errors for memory, stack and heap.
* `CoresDoAlike`: what neither core refuses leaves the same registers, data, next instruction and view
  for natives in both. It assumes `ShortTables`: a longer case table is searched by the default core
  with a step of cells for records, and `cores_switch` shows what comes of it. The instructions of
  `Differ` are those that section 5 lists.

The inductive invariant, `Executed`, says that the two results are those of the two cores on the
machine before. What has to be shown is about one instruction at a time, and is long because there are
eighty kinds of them: for each group (`LoadOps` ... `HostOps`) a lemma that heap and stack are
kept (`LoadKeeps` ...), that what was let pass was in bounds, that what is legal is not refused, and
that the cores are alike. Underneath are lemmas about the macros: `RoomMade` and `RoomFreed` for
ALLOCSTACK and FREESTACK, `JumpChecked`, and those that turn the tests on wrapping numbers
into the sets of addresses that the properties speak of.

The premises are `MemoryAssumption` (the data and one cell more fit into the positive cells, instructions
start at multiples of a cell inside the code), `MachinesAssumption` (`Machine` and `Laid`) and
`InstructionsAssumption`, which has two parts. `Verified` has what `amx_verifier.c` checks: operands in number,
LODB.I and STRB.I with 1, 2 or 4 bytes. `Orderly` has what the code leaves to the compiler: blocks are not empty, and FILL's are of whole cells (`v_parm1_number` takes any size);
PUSH.R has a count that is not negative and does not wrap; shifts are by less than a cell; RETN's argument
count is not negative, for only the upper end of the stack is tested (`amx_exec.c:874`); SYSREQ.N's
arguments are on the stack, which nothing tests after the call (`amx_exec.c:1588`). Without the
conditions on PUSH.R, RETN and SYSREQ.N `LayoutKept` is false. TLC evaluates all three on the machines of `cores`.

The attempt corrected the model in one place: two arms of the CASE in `Observed` overlapped
for RETN, and which one counts was left open.

### What the verifier accepts can be run

`AmxCodeProofs` proves, for every image, whether written by the compiler or not,
every size of a cell and every build:

* `SecondWalkAgrees`: the second walk stops only at cells that the first one
  found (`WalksAgree`). This rests on `TablesAgree`: for each of the opcodes, one
  plus what its handler returns is its size in the table.
* `OnlyInstructionsRun`: the interpreter only executes cells that are verified
  instructions (`RunsOnInstructions`). `AdvanceAgrees` does the same for the third
  table, and `PatchedCall` says that a patched call is as long as the one it
  replaces, which needs that only one of the two forms occurs in an image.

The invariant: the instructions the first walk has found follow each other
without gap or overlap and the walk stands behind the last (`Collected`), which
is why an instruction in front of the second walk has been visited by it; each
visited instruction's targets are in `instr_addresses` (`Checked`), which is why a
branch lands on one; and patched cells are calls of the form the verifier has
seen (`Executed`).

The properties are stated with what the code does *not* guarantee as premises:
`Narrow` (no case table of 127 records or more, whose size does not fit the byte it is
computed in), `Regular` (none of INC.I, DEC.I, CALL.PRI and SCTRL on the code pointer,
and no case table beyond the linear search) and `EntriesFound` (the addresses of
`main` and of the public functions are instructions; the verifier only checks that they
are inside the code). They also leave the end of the code open: an image whose last
instruction is no jump runs on into the data section.

* `CompiledCodeLoads`: the converse for what the compiler writes. A file that is
  `WellFormed` is not refused by any build, except for want of memory
  (`NarrowIsAccepted`). What the assembler puts where is given by `LayoutAssumption`
  about the constant `Images` (instructions follow each other from the first cell to the
  last, each as long as its operands; `assemble()` writes them so), which TLC evaluates on
  images that `Assembler` made. The invariant `LoadInv` says that in such an image the
  first walk finds exactly the layout, and that the second has seen one form of calls.

### The collector destroys garbage and nothing else

`AmxGCProofs`, for every set of hosts and machines, all handles, colliding or not, and every
exponent up to 16. In a table whose probes are in order (`Chained`: the probe for a value in
the table ends at its slot) `Exactly` says what a collection destroys: the objects without a
handle and no others. `OnlyCleaningHides` says which operations keep that order: all but the collection
itself. That one does not, and `gc_collide` shows it; there is no theorem
without `Chained` because the code does not have that property.

What one more value does to the probes for the others is `InsertChained`: it goes to the first
free place of its own path, where no probe for another value has stopped before. The loop that
fills a new table keeps that, by induction over the slots of the old one (`Iteration`).
`FreshInv`: between two collections nothing is counted. `ScanInv`: during one the count of a
handle is not zero exactly if one of the machines scanned so far has it.

`Implements` states the whole at once: each step from a table in order is a step of `Objects`,
which has neither table nor counts nor phases, or a stutter. A collection
is one step of `Objects`, taken when the clean ends; marking and resizing stutter.

### The timer measures time

`AmxHostProofs`, for every width of cells and of longs that are at least as wide, every set of modules and
scripts, any schedule of polls, keys, datagrams and Ctrl-C: the difference that
`amxtime.c` computes on its wrapping counters is the time that has passed since the
timer was set or last due (`TimerMeasures`), however often both counters wrap, until a long that is
wider than a cell is extended with another sign (`crossed`): the lemma `Stamps` says that this is the only tick
that moves a stamp by anything but one, and section 5 what happens then. `Once` assumes that each
module is initialised once; `Prompt` that no poll is a whole round of the stamps late. The invariant: the chain of idle functions is a path in the order of the
`Init` calls and ends (`ChainInv`), so that the timer is polled only for scripts that
have `@timer`, and the armed timer's stamp is congruent to real time (`ArmedInv`). That the
walk of the chain, a recursive function, is a sequence of served modules is an induction along
the chain (`Iteration!Descends`).

### Memory, libraries and natives have one owner

`LoaderProofs`, for any number of machines, programs, extension libraries, lists of
natives and blocks, any build, and any order of loads, registrations, clones, calls
and frees that the host may make:

* `MemoryIsOwned`: machines refer to live blocks of the right kind only; each live
  block belongs to a machine or was left by a load that failed; each library is open as often
  as there are handles of it.
* `BoundNativesExist`: when a machine or a clone of it is marked complete, the table of the machine
  that the program was loaded into has only natives bound under their name to the host or to a
  library that is open. In builds whose pointers fit a cell the clones use that table;
  in the others they have none (section 5).
* `BindingsStay`: what is bound is not replaced while its table lives.

`LoaderInv` adds what the calls rely on: each loaded machine is `Sound` (pointers to blocks of
their kind, tables with an entry for each name, functions from libraries whose handle the
machine itself has) or, a clone where pointers are wide, `Stripped` (image and data, no tables),
no block goes with two machines (`Separate`), a clone's source is still
loaded (`Rooted`) and has a complete table if a stripped clone is marked complete (`Vouched`), handles are only in the table for them (`Holder`), and the count of opens is
the number of handles (`Balanced`). TLC checks it on the instance of `image`. The loops over
the libraries of a program (`amx_Init` opening, `amx_Cleanup` closing, `amx_Register` asking
each) are recursive functions, for which `Iteration!Loops` gives a run and an invariant.

`LoaderAssumption` only gives the constants their types: every build clones.

### The reading agrees with what the lines mean

`PreprocessorProofs`, for every text that `MayStand` and `MayEnd` admit under `OneElse` (lines of every
kind in any order, but one `#else` for an `#if`; files that end anywhere they may), any number of open files, any depth of `#if`
and any period of the line count: in between two lines exactly the branches that are taken
are compiled (`ConditionsCorrect`), and the reading stands where the lines say it stands
(`PlaceCorrect`).

`files`, the meaning, has a record for each open file: its number, line, library, the frames of
its `#if` blocks, whether a comment or a parenthesis is open. `sc2.c` has one set of variables
and one stack. The invariant `ReaderInv` relates the two:

* the stack is the concatenation of what each file around the innermost one saved and the
  parser's flags where a parenthesis was open when it did (`Held`); so the
  values that `readline` takes off one by one are, in reverse order, those that
  `plungequalifiedfile` put there (six of the eight: the name of the file goes with its
  number, and the mark for UTF-8 decides about characters only);
* `iflevel`, `skiplevel` and `ifstack` note the frames of *all* files in one row (`Nest`): up to
  `skiplevel` each entry is right and all blocks but the last are live; the blocks behind
  it are dead and stay dead, so that their entries, which nobody resets, are not looked at.
  Around an include everything is live (`Clear`), which is why `readline` may set
  `skiplevel` to `iflevel` at the end of a file and assert that nothing is skipped
  (`sc2.c:386`);
* the place is that of the innermost file (`Stands`), files are numbered in the order in which
  they were opened (`Numbered`), and no parenthesis is open where a file has ended (`Closed`);
* a directive that ends an expression is looked at twice. In between, the meaning is ahead of
  the state by this line (`Again`), and the flags of the parenthesis are off the stack.

`ReaderAssumption` says of the constants that the bounds are positive and options Boolean. The theorems
assume `OneElse`: behind a second `#else` the code does not do what the lines mean
(section 5). The stack and the frames are concatenations written with
`FlattenSeq`, a recursion over the sequence of the open files. `Flattens` and `FlattenAppend`
bring it to the equation "one file more" through `Iteration`; the other proofs expand it for the empty sequence at most.

### Induction

TLAPS knows of `f[n \in S] == body` only that it is some `f` with `f = [n \in S |-> body]`,
if there is one. `Iteration` proves that there is one, by the least counterexample:
`Least` and `UpTo` (induction as a fact about sets, since the library's induction theorems take
an operator), `Recurses` (a recursion that counts to a bound), `Descends` (one that goes
along a function with falling rank), `Loops` (the run of a loop and an invariant of it).

### What stays with TLC

* Liveness (`TimerServed`, `MainWakes`, `AbortEndsLoop`) and `ENABLED`, which the prover does
  not have.
* `ReturnIsClean` for code without a static stack depth: `exec_native` checks it for `Mixed`, whose
  function moves `STK` and `FRM` by hand. It is not true of every bytecode.
* `Implements` and `Restored` of the compiler, `Codecs`, `Patterns`, `Fixed`: recursion over
  trees and texts by RECURSIVE operators, or bit operations, which the backends do not have.
* What the two cores do with case tables of more than `SWITCH_LINEAR` records: they differ.
* `ExpandRestores`, `PlaceFound`, `BreakpointFound`, the properties of `Passes`, `States` and
  `Strings`: their models are built from folds and selections over sequences. Nothing about
  those is in the library of the provers; each would have to be brought to a recursive
  function first.

## 5. Observations

Behaviour that came up while the code was modelled. The models follow the code; the
properties exclude by name what is listed here as going wrong, so that they hold for
the rest.

### Interpreter, API, verifier

* The sleep instruction returns without storing FRM (`amx_exec.c:1423`): the resumed
  function addresses its arguments through the frame of whoever ran last. A
  native called by SYSREQ.N that sleeps leaves its argument count on the stack
  (`amx_exec.c:1593`). A native called by SYSREQ.C that sleeps resumes *at* its call and
  is called once more. `SleepKeepsPlace` is about the other cases.
* A patched call reads `amx->error`, which nobody has reset since the last native that
  raised one, since only `amx_Callback` does (`amx.c:310`). A native that ran a program and did not care
  that it failed leaves the error there; the next native that `SYSREQ.D` or `SYSREQ.ND` calls did not fail, and its
  program ends all the same (`amx_exec.c:1846`), although `amx.h:336` says of `AMX_ERR_NATIVE` that
  the native function failed. `ErrorTravels` says what holds of the calls through `amx_Callback`.
* `amx_Allot` accepts a request that is larger than the gap: its test (`amx.c:3778`) compares unsigned
  numbers, and `HEA` is then above `STK`. `AllotFits` does the same; in the runs and in the
  proofs callers do not make such a request (`~HugeAllots`). One so large that its size in bytes wraps around as well is not modelled.
* A resume passes through the check of the stack margin again and can fail where
  the program did not.
* INC.I and DEC.I skip a cell that the assembler does not write (`amx_exec.c:1276`);
  SCTRL on the code pointer skips a cell at the destination; CALL.PRI does not ask, as
  JUMP.PRI does, whether the address is an instruction. LCTRL of the code pointer gives
  the address of its operand.
* The size of a case table is computed in an `unsigned char` (`amx_verifier.c:962`).
* The verifier keeps the kind of an operand's failure in `vdata.err`, which nobody
  reads. `v_parm2_dataoffs_number` drops the result of its check, so CONST with a bad
  address is accepted. `v_sysreq` accepts an index equal to the number of natives,
  which `amx_Callback` asserts against.
* In a build with handler addresses a case table that lies in front of its switch
  would be rejected; the compiler puts it behind.
* An image that is rejected by the second walk has been relocated up to there.
* MOVS, CMPS and FILL test a block that ends in the data against the gap's *size*
  (`amx_exec.c:1336`): a program whose only global is `new g[10]` and that copies it to a
  local ends with AMX_ERR_MEMACCESS. A block that spans the whole gap is accepted.
* SDIV's remainder is computed from the quotient; RET, SWAP and POP read the stack before
  they look whether it is empty; RETN does not test a negative count; PROC has no margin test
  in the default core. In the old core SWAP, CONST and FILL move 32 bits whatever the cell,
  and SYSREQ.N takes one cell too many off the stack.
* `amx_Clone` copies the flags and neither natives nor libraries nor `instr_addresses`; a clone works in
  builds that keep the first two in the image and have the old core. Where pointers are wider than a
  cell it is marked as complete ("all native functions are registered", `amx.h:361`) without a table; run before its source was
  complete, it reads through NULL (`amx.c:1215`): `Exec` has no such step.
* `aux_LoadProgram` keeps its block when the file is too short (`amxaux.c:87`), `amx_Init`
  leaves tables behind when it rejects an image, and `base` set when it was given memory.

### Garbage collector, event loop

* Cleaning empties a slot in the middle of a probe chain (`amxgc.c:300`): an object behind it is
  not found by the next scan and dies in use (`gc_collide`). `CollectedExactly` speaks of collections that
  find the table in order.
* `gc_mark` returns 0 for success, and `prun5.c` tests the opposite with `VERIFY`.
* Ctrl-C is only looked at while a script runs (`pawnrun.c:261`); the idle loop goes on.
* On a machine where `long` is wider than a cell, `gettimestamp` extends the sign
  of the tick count (`amxtime.c:88`); at the change of the sign one tick moves the stamp by more than one, and
  `@timer` is called at once, at that poll and at the following ones. `TimerServed` is checked for equal widths. Where `CLOCKS_PER_SEC` divides the count
  of a `long` as wide as a cell, the milliseconds wrap earlier than the cell; the model's count wraps with the cell.
* Each idle function drops the result of the one before it: an error in `@timer`
  ends the program only if its module was loaded last.
* `amx_DGramInit` does not look for `@receivepacket` when `@receivestring` exists. Where it does not,
  its index is `INT_MAX` (`amx.c:993`) and not negative as `amxdgram.c:321` expects: a string sent to a
  script with `@receivepacket` alone is given to `amx_Exec` with that index, which fails and leaves
  the parameters pushed. When `select` fails, the model does not let `recvfrom` wait for a datagram.
  `select` is called with 0 as the number of sockets, which is right on Windows only
  (`SelectSees`).
* `srun_Monitor` stores the stack's use when the heap's has grown (`pawnrun.c:92`), and
  `gettimer` stores both results in its first argument (`amxtime.c:352`). In
  `stamp2datetime` February has 28 days in every year (`amxtime.c:110`).

### Natives

* Without integers of two cells, a fixed point product loses the upper words of its middle
  products and a quotient a carry, and a division overflow is another error; negative
  results are rounded by adding half and truncating; `fsqroot` of numbers below one
  returns them unchanged (and fails an assertion, `fixed.c:628`), and squares wrap for
  large ones; `fpower` divides a base of 1465.42 and more by ten (`fixed.c:668`). `Exact`
  names these limits (`NothingLost`, `NoCarry`, `SquaresFit`).
* In a file pattern, a negated set or run takes the end of the name for a character, and
  the matcher then reads behind it (`PastEnd`); a run is greedy; a quoted `}` ends a run when
  it is skipped; `fpattern_matchcount` ignores its counter.
* `strmid` of an empty piece of a packed string clears one character only; `strval` with an
  index of a cell or more skips the wrong cells of an unpacked string; the loop of
  `urldecode` that looks for the end never runs; `urlencode` takes its third string
  parameter for a size; a `strcat` into less room than the text already takes works with a
  negative length.
* The compiler's `get_utf8_char` leaves its loop after the first follower (`sci18n.c`, about
  line 345): characters of three bytes and more are misread, a byte order mark is never
  recognised.

### Compiler

* `test()` ignores its inversion for a constant (`sc1.c:5609`): `assert` of a true constant
  jumps nowhere. `a = b = 5` loses PRI at the peephole optimiser if the value is used
  after it; `x < 3 < 5` with a constant in the middle, `++a[0]` as an argument of a variable
  number, and the order in which the heap of nested conditional expressions is taken off
  its list are other cases that the programs of `MCCompiler` avoid.
* A local is looked up in a block that it has left (`amxdbg.c:569`); line numbers and file
  names are wrong where an include is noted while code is skipped; an address in front of all
  lines is searched outside the table.
* Unused state variables get an address but no cells, so a later one may be laid over an
  ordinary global (`sc1.c:2136`); two automata with an entry function each are error 84; a
  function of states a and b may use two variables that share a cell because one is of a, the
  other of b; `entry() <>` fails an assertion (`scstate.c:278`); a list that names a state twice
  makes the count of a jump table too large (section 3).
* `#if defined` of a function that comes later has different results in the two passes
  (`sc1.c:3789`); the estimate of the stack lacks a return address (section 3) and what calls
  of operators push: `check_userop` (`sc3.c:263`) does not count it as `callfunction` does, and `CallsCounted` leaves such
  programs out; unused
  functions that call each other are kept.
* A file that ends inside parentheses takes the parser's flags off the stack for the state of
  the including file (`sc2.c:367`); `#else` in an include of an `#if` outside it fails an
  assertion (`sc2.c:386`); an `#else` or `#elseif` behind an `#else` is accepted and
  its branch compiled too, since `HANDLED_ELSE` is tested (`sc2.c:1028`) and set nowhere (`OneElse` keeps it out of the lines);
  a directive that ends an expression and opens a comment is lost
  (`sc2.c:1937`); `#pragma library` of a known library does not make it the current one.

## 6. What is not modelled

* *Interpreter*: the twin of the old core for labels as values (`amx.c` 1376–2503), the
  assembler cores and the just-in-time compilers: the same instructions once more.
* *API*: `amx_GetAddr`, `amx_MemInfo`, user data, `amx_InitJIT`; user-supplied memory in
  `aux_LoadProgram`.
* *Natives*: `strformat` and the hashes, `amxcore.c` (random numbers and a list of
  properties), files, arguments, processes, floating point; clock setting.
* *Host*: command line, terminals, line input, the socket calls, the debugger's user
  interface and its look at variables, sample hosts other than `prun5.c`.
* *Compiler*: macro substitution and tokens, tags except where they decide about a pass,
  enumerations, literal strings, destructors, user-defined operators except in `Passes`,
  messages and documentation, the file and code page libraries. `Peephole` has the
  sequences that the programs reach.

`PROJECT.json` lists each component with what is left out of it. Library calls (`clock`,
`kbhit`, sockets, signals, `malloc`, `dlopen`) are modelled from their use and marked external.

## 7. Plan

1. *Done*: the interpreter, its host API and the verifier with their proofs; garbage collector
   and event loop.
2. *Done*: loading, compact encoding, symbolic information; the instruction set in two cores;
   the natives that compute; the compiler from preprocessor to peephole optimiser, with the
   refinement of the reference semantics.
3. *Done*: the invariants of the interpreter about nesting, sleep and errors; the acceptance of
   compiled files; the collector with the refinement of `Objects`; the timer; the
   loader; the reading of lines; induction for recursive functions; the checks of the instruction
   set and the agreement of the two cores.
4. Proofs that are left: lemmas about the lists and tables of `States`, and `Dispatched` from
   them; `CalledIsThere` of `Passes`; the round trip of `Compact`.
5. A composition of `AmxExec` and `AmxHost`, in which a handler's call is a sequence of steps of
   the machine, as a refinement of the present `AmxHost`.
6. Variables of the debugger and the property list of `amxcore.c`.
