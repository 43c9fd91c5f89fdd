# A verification development for Cutlet

Cutlet is a small dynamic language written in C.  A line of source goes through

    tokenizer.c -> parser.c (AST) -> compiler.c (Chunk) -> vm.c (vm_execute)

and its values live in a heap with a mark-and-sweep collector (`gc.c`).  The
same interpreter serves a TCP REPL: `repl_server.c` starts a thread for every
client, `json.c` frames the messages, `repl.c` evaluates a line under one lock
of `runtime.c`.

This directory holds TLA+ modules translated from that code, TLC configurations
that check them on small instances, and proofs checked by TLAPS.  Source lines
are named in `PROJECT.json` (`map`); file names below are relative to `src/`.

1. [Inventory](#1-inventory) - 2. [Modules](#2-modules) - 3. [Runs](#3-runs) -
4. [Fairness](#4-fairness) - 5. [Proofs](#5-proofs) -
6. [Where the code does not do what it says](#6-where-the-code-does-not-do-what-it-says) -
7. [Not modelled](#7-not-modelled) - 8. [Plan](#8-plan)

## 1. Inventory

| Component | State it keeps | Operations | Talks to | What makes it correct |
|---|---|---|---|---|
| Garbage collector, `gc.c` | object list, marks, `bytes_allocated`, `next_gc`, the VM registered with it | `gc_alloc`, `gc_collect` (mark roots, trace, sweep), `gc_free_all` | reads the VM's stack, frames and open upvalues, runtime globals, compiler roots, pins; removes strings from the intern table | frees nothing the program can reach; frees everything else; ends; the heap stays within the threshold |
| Temporary roots, `gc.c` | a stack of 16 pins | `gc_pin`, `gc_unpin`, `gc_unpin_n`, `gc_pin_value` | opcode handlers that hold operands in C locals over an allocation | pins and unpins pair up on every path; what a handler still uses is pinned |
| Compiler roots, `gc.c` | a stack of 64 chunks | push, pop | `compile`, `compile_function_closure` | constants of unfinished chunks survive |
| String interning, `gc.c`, `value.c` | open-addressing table with tombstones | find, add, grow, remove | `obj_string_new`, `obj_string_take`, the sweep | one object per text (string equality is pointer equality); walks end; no entry for a freed string |
| Values and objects, `value.c` | strings, arrays, maps, functions, closures, upvalues; counted object types and instances | constructors, copy on write, `value_equal`, `value_format` | all of the above | sharing is never visible; counts and sweep agree |
| Runtime globals, `runtime.c` | hash table of names | get, define, assign, resize, clear | VM, collector | a partial function, also when memory runs out |
| Eval lock, `runtime.c` | one rwlock | lock, unlock | `repl_eval_line` | evaluations exclude each other; every exit unlocks |
| Virtual machine, `vm.c` | value stack, call frames, open upvalues | one handler per opcode, `vm_call_value`, `vm_runtime_error` | compiler's chunks, collector | calls, locals and captured variables mean what the program says; stack effects balance |
| Compiler, `compiler.c` | scopes, slots of locals, upvalue descriptors, jumps | `compile_*`, one per node | parser's tree, chunk, collector | every slot number it emits is the slot the machine uses |
| Chunks, `chunk.c` | code, constants (up to 256), lines | write, add constant, disassemble | compiler, VM | an index written is the constant meant |
| Parser, `parser.c` | token position, tree under construction | precedence climbing, statements, `parser_is_complete` | tokenizer | the tree follows the precedences; a line is complete exactly when it can be parsed or can never be |
| Tokenizer, `tokenizer.c` | position | next token, peek | parser | longest match, errors at boundaries |
| REPL core, `repl.c` | none of its own | `repl_eval_line` | parser, compiler, VM, lock | every exit releases what was taken |
| REPL server, `repl_server.c` | listening socket, shutdown flag, accept thread, client threads | start, accept, handle request, stop | clients over TCP, REPL core | answers in order, clients do not disturb one another, stop returns |
| JSON protocol, `json.c` | buffers of one frame | frame read and write, parse, encode | server, command-line client | framing survives any cut of the stream |
| Command line, `main.c` | terminal state | run a file, REPL, connect, serve, signal handler | everything | mostly input and output |
| Pointer array, `ptr_array.c` | count, capacity | push, clear | parser, compiler | growth |

Where it is hard:

* **Collections at every allocation.**  Any handler that allocates may start a
  collection; what it holds in C locals must be on one of six root sets at that
  moment.  Tests reach this only when an allocation crosses the threshold.
* **Re-entrance.**  `vm_call_value` runs `vm_run` inside a handler; the handlers
  inside use the same pin stack, stack and frames.
* **Captured variables.**  A variable moves from a stack slot to its upvalue at a
  moment neither the closure nor the compiler sees, and an ordered list decides
  which upvalues move.
* **Weak references.**  The intern table does not keep strings alive; the sweep
  takes them out while a lookup of `obj_string_new` is between its miss and its
  insertion.
* **Threads.**  Client threads, the accept thread and the thread that stops the
  server share the server structure; output is sent under the lock.
* **The network.**  TCP cuts a stream anywhere; receives time out after 30
  seconds; peers close while something is being sent.

`PROJECT.json` lists each of these as hazards with their lines.

## 2. Modules

| Module | Models |
|---|---|
| `AbstractHeap` | what a heap promises: objects appear, references move, and only the unreachable disappears |
| `Collector` | `gc.c`: `gc_alloc`, the mark phase over the root sets, the sweep |
| `Heap` | the operations of `compiler.c`, `vm.c`, `value.c`, `runtime.c` that move references, over `Collector`; the safety properties and the inductive invariant |
| `HeapProofs` | theorems about `Heap` |
| `Variables` | what captured variables mean, without stack or upvalues |
| `Upvalues` | value stack, frames, upvalues and the open list under the code `compiler.c` emits |
| `UpvaluesProofs` | theorems about `Upvalues` |
| `Pins` | the pin stack under the handlers of `vm.c` that allocate, nested |
| `PinsProofs` | theorems about `Pins` |
| `Probing` | open addressing with linear probing, shared by the two tables |
| `ProbingProofs` | lemmas about walks, used by the two below |
| `StringSet`, `InternTable` | the promise of interning, and the table of `gc.c` under `obj_string_new` and the sweep |
| `Globals`, `VarTable` | the promise of global variables, and the table of `runtime.c` |
| `InternTableProofs`, `VarTableProofs` | theorems about the two tables |
| `Tokenizer` | `tokenizer.c`: characters to tokens with their lines and columns |
| `Parser` | `parser.c`: tokens to a tree or an error, `parser_is_complete` |
| `Grammar` | a reference for both: which stretch of text is which token, and which trees a row of operators has |
| `Repl` | the loops of `main.c` that read lines and evaluate what is complete |
| `Values` | `value.c` and the operators of `vm.c` on values: arithmetic, comparison, containers, meta-operators with a symbol |
| `Compiler` | `compiler.c` and the constants of `chunk.c`: a tree to the code of its functions |
| `Machine` | `vm.c`: one action for each opcode (or family of opcodes that differ in an operator), calls, meta-operators that call, errors |
| `Meaning` | a reference for both: what a tree means, by recursion on the tree, and the abstract specification of an evaluation |
| `Evaluation` | what `Compiler` and `Machine` promise |
| `Frames` | `json_frame_read` and `client_thread_fn` over a stream that is cut anywhere |
| `FramesProofs` | theorems about `Frames` |
| `Evaluator` | what the eval lock promises clients: each request evaluated in one step |
| `ReplServer` | accept thread, client threads, the eval lock, output, stop, clients |
| `ReplServerProofs` | theorems about `ReplServer` |
| `MCHeap`, `MCInternTable`, `MCVarTable`, `MCReplServer`, `MCRepl`, `MCPrograms` | values of constants for TLC |

Modules refine abstract ones (`Heap` -> `AbstractHeap`, `Upvalues` ->
`Variables`, `InternTable` -> `StringSet`, `VarTable` -> `Globals`, `Machine`
-> `Meaning`, `ReplServer` -> `Evaluator`), each by an
`INSTANCE ... WITH` and a property `Implements...`.
`Grammar` and `Meaning` are written from the documents' rules and the parser's
grammar comments, not from the code they judge.

**Collector and Heap.**  An object is an address; its contents are the set of
objects its fields refer to (`held`), because marking and reachability depend on
nothing else.  Marking is kept apart from reachability: `Traced` is what
`gc_mark_object` follows, `Points` is what an opcode follows (an open upvalue
leads to a stack slot).  A collection is a sequence of steps in the code's
order: one step per root set (`stage`), per frame (the code unmarks a frame's
closure and function first), per traced object (the recursion is the set
`gray`), per swept object.  The interpreter is suspended meanwhile, as in the
code.  The operations of `Heap` take any value the program can reach; whether a
handler protects what it holds in C locals is the subject of `Pins`.

The properties of the heap are not claimed for every program.  `Points` of an open
upvalue is what its slot holds; where the location is above the top of the stack,
or in the stack of a `vm_execute` that has returned, `OP_GET_UPVALUE` reads what
happens to be there, and `Points` is every address.  The code lets a location get
there in two ways, and two constants of `Collector` say whether programs do so.
With `BlocksCapture` the slot of a captured variable is popped while its upvalue
stays open: `end_scope` does that to a block's local, and `OP_ARRAY` or `OP_MAP`
to a local declared among its operands (`OP_POP` and they have no check, and
nothing emits `OP_CLOSE_UPVALUE`).  With `OpenErrors` an evaluation fails while an
upvalue is open: `vm_runtime_error` closes none.  In both cases the collector frees
what such a closure goes on to read: `NoReachableFreed` and `ImplementsAbstractHeap`
are then violated (section 6).  The runs and the theorems are about programs that
do neither, in which only `OP_RETURN` gives up a captured slot: closures over
parameters and over locals of a function's body outside any inner block, in any
number and nesting.

**Upvalues.**  Frames, slots, and the open list as in `vm.c`; declarations,
blocks and captures as `compiler.c` emits them.  The auxiliary component `var`
of a slot names the variable of the program the slot is meant for, and `access`
records what an access to a variable read or wrote, which is what `Variables`
compares.  A declaration happens only with no operand above the locals; what the
compiler does otherwise is in `Compiler` and `Machine`.

**Pins.**  A handler in progress is a record with its operands' kinds; an object
is named by the handler that holds it and its part there.  Each allocation
(`MayCollect`) loses what is held and not pinned.  The pins that a handler takes
and gives back on success and on failure are operators (`ResultPins`,
`SuccessUnpins`, `FailureUnpins`), so that the table of all handlers can be read
against `vm.c`.

**InternTable, VarTable.**  Slot by slot, including the growth loops, with
hashes given as a constant; capacities start at 4 and 2 (64 and 16 in the
code), which changes no comparison the code makes.  Allocation of a new table
may fail.

**Tokenizer, Parser, Repl.**  A text is a sequence of characters.  A keyword is
one character: the tokenizer reads any run of letters alike, so that `if` as one
letter goes the same way, and the words fit a small alphabet.  A token has its
type, its value, its position, its line and column, as in the code.  The parser
is the code's functions, one operator each, from a position to a node and the
next position or the first error; nodes are tuples headed by the code's node
type.  `Repl` has the variables of the loops: what has been typed and not read
(`stdin`), `input_buf`, what has been printed for each evaluation (`results`),
and beside them `file`, the lines as a file would hold them.  A vocabulary is a
set of pieces from which a user makes lines; a loop is a terminal's, a pipe's, a
client's behind a pipe, or none (a file is run).

**Compiler.**  A compiler in progress is a record: code, constants, locals with
their depths, upvalue descriptors, loops with the jumps to patch, context.
Functions are compiled with the enclosing compilers below on a stack.  Code is a
sequence of instructions; their sizes in bytes count only where the code's own
arithmetic depends on them, which is `patch_jump` behind an error: a jump whose
place is outside the chunk sets `wild`, and the machine may then only crash.

**Machine.**  A frame has its function (as the way to it through constants), its
closure, the next instruction, its window, and the meta-operator it is in the
middle of, if any.  `vm_call_value` is not recursion here: a meta-operator that
calls keeps its loop in `meta`, `MetaCall` starts one round, the called frame is
marked `nested` and hands its value back.  That makes every instruction of every
nested run a step.  Objects are never collected (`Heap` is about that).  Numbers
are integers; `/` keeps a quotient only when it is one, in code and meaning
alike.  `Settled` in `Meaning` names the programs for which the promise is
claimed; section 6 says what the others do.

**Frames.**  A frame is six pieces (the header's name, its number, the line's
end, the empty line, and two of the body); TCP delivers any prefix.
`json_frame_read` keeps `start` (where its `hdr` began), `length`, `left`.  The
client may hang up (it sends no more) or leave (it receives no more either, so that a
`send` and a `recv` may fail) at any moment, the server may be stopped and freed at
any moment, and memory may run out for a body, a request or an answer.  `Check` is
`while (!srv->shutdown)`: it looks at the flag between two requests only, and may
find anything in a server that is freed.  `Handle` is `handle_json_request`: an
answer that cannot be encoded or sent ends the connection if it is one to a request
(`send_ok ? 1 : 0`), and is passed over if it is an error response.  `answers` are
those the server has made, `lost` the ones among them that did not go out, `starved`
the frames for which memory ran out; the last two are only for the properties.

**ReplServer.**  One program counter per thread.  An evaluation reads and then
writes one global variable, with output in between, so that any overlap of two
evaluations is a lost update.  The read of a freed server may return anything.
`Evaluator` has none of that: a request is asked, evaluated or failed, and its value
delivered.  `Asked` counts a request as waiting until its evaluation writes, and
`OnItsWay` is the value a thread has written and not yet sent.

## 3. Runs

All of them finish with no error, within five minutes, but for the last two.

| Run | Bounds | What it shows |
|---|---|---|
| `heap` | 3 addresses, symmetric; stack of 3, 2 frames, threshold of 2 units; programs that give up captured slots by returns only; every graph of one text's string, maps, instances, functions, closures and upvalues (maps while at most one chunk is in compilation), or two texts or a global over a stack of one, or pins over an empty stack (`GraphStringsOrPins`) | `NoReachableFreed`, `CollectionIsPrecise`, `BytesAccounted`, `GrowthBounded`, `StringsCanonical`, `TypeOK` when the threshold starts collections |
| `heap_calls` | 4 addresses, each used again for its own kinds of object only (`ByKind`), stack of 3, 2 frames, 2 chunks in compilation, a collection at every allocation; programs as in `heap` | `ImplementsAbstractHeap`, `CollectionEnds` with calls, strings, closures, upvalues |
| `upvalues` | 2 frames, 2 variables captured in any order and 2 upvalues per closure, with blocks; or 3 frames and 1 variable passed on through 3 closures, without blocks (`SharedOrNested`) | `UpvaluesFollowVariables`, `ImplementsVariables`, `OneUpvaluePerVariable`, `OpenListSorted`, `TypeOK` |
| `pins_balanced` | handlers nested four deep, 16 pins as in the code, methods up to 3 | `NothingLost`, `PinsPaired` |
| `intern_table` | 5 addresses, 4 texts that collide and wrap around, 4 to 16 slots | `TableIsLive`, `CountsMatch`, `ProbesEnd`, `ImplementsStringSet`, `TypeOK` |
| `var_table` | 4 colliding names, 2 values, 2 to 8 slots, failure of every allocation | `NeverFull`, `ImplementsGlobals`, `TypeOK` |
| `repl` | 20 vocabularies of 4 to 12 pieces, one for each construct and loop; up to 5 pieces on up to 5 lines, lines of 9 characters behind a pipe, a buffer of 24 | `TypedIsFiled`, `GivesUpWhenHopeless`, `TokensAreLexemes`, `PositionsTrue`, `OperatorsBindAsDocumented` |
| `programs` | nearly five thousand programs; 16 constants, 6 locals and 3 upvalues in a function, 4 frames, 12 values | `ImplementsMeaning`, `Finishes`, `CodeIsBalanced`, `TypeOK` |
| `frames` | 3 frames of every kind, any cut; hang-up, leaving, stop and want of memory at any moment; no stall inside a frame | `AnsweredInOrder`, `ClosedForCause`, `EveryFrameAnswered`, `TypeOK` |
| `server` | 2 clients, 2 requests and 1, one frame of buffer | `ImplementsEvaluator`, `Serialised`, `StopReturns`, `LockIsReleased` |
| `upvalues_blocks` | a block with a captured local | **violated**: `UpvaluesFollowVariables` |
| `pins_broadcast` | vectorized operations with a scalar operand, one inside the other | **violated**: `NothingLost` |

Why the bounds are enough to be of use.  Three addresses are a root, an object
and an object behind it, and with the script's own closure and function (which
are not on the object list) five nodes, so that a cycle, sharing and a chain can
each be garbage and reachable in turn; four are a function, the closure that runs,
one it makes and the variable this one captures.  `ByKind` fixes which address is
which, so that the stress build can be checked to its end; that an address is used
again for an object of another kind is what `heap` has.  Objects have one unit
or two, so that a threshold of two is both crossed and not.  An array differs
from a map in nothing the collector does and is left to the theorems.  What TLC
shows for three or four, the theorems show for any number.  Three frames are a declaring function, a
closure that runs while the variable is on the stack, and the script; two
variables with two upvalues are what an order in the open list needs.  Four
handlers deep in `Pins` reach 15 and more pins, the limit being 16.  Two
capacities of growth after the first exercise reinsertion with and without
wrap-around.  Three frames are one that succeeds, one that follows an error, and
one after that.  Two clients are the fewest that can disturb each other.

Programs come in families: every operator on every pair of eleven values;
declarations and uses of two names in nested blocks and functions; loops with
`break`, `continue` and `return` at every place; closures over shared variables
called in any order; all of these mixed in one function; calls up to and past the
limit of frames; containers under several names; types with mixins and
initializers; meta-operators with symbols, functions and natives; functions with
one constant, local, upvalue or operand more than fit; programs that are refused.
The bounds on a function's size are the code's 256, 256, 256, 64 and 256 made
small enough to be reached.  A vocabulary of `repl` holds the words of one
construct (`MCVocabularies`), so that every way to open, close and break it
across lines occurs, the wrong ones included; those whose names begin with `p`
go through a pipe, `inFile` is run as a file.  No piece ends in a bare `@`, which
would take the end of the line as its operator (section 6).

The settled programs, and some 1700 more of the same families, were also
written out as Cutlet text and run
by a build of `src/`: it printed what the machine here computes, but for the
limits of size, which are smaller here, and arrays that contain themselves, which
`value_format` follows without end.  The other programs showed the defects of
section 6.

Deadlock is checked except where the system does stop: `frames` (the connection
is closed), `server` (everything has ended), `repl` (the input has ended),
`programs` (there is a result), `intern_table` (the bound on the
capacity, or a table that could not grow and is full, where the code would loop
or write through NULL).

`ProbesEnd` is claimed only while no growth has failed.

Every property has at least one mutant in `PROJECT.json`: a change of a mapped
definition such as a bug in that code would make, with which TLC finds the
property violated.  The mutated forms stand in the modules, under the comment
`Mutant:`, next to the definition they replace.

## 4. Fairness

* `Heap`: weak fairness of the steps of `gc_alloc`.  The thread that allocates
  runs alone under the eval lock and the collector waits for nothing.  The
  interpreter itself need not go on.
* `Frames`: weak fairness of the client thread (`Server`: the check of the flag and
  the reading).  It is a thread of its own that waits for its socket only.  That a
  `send` returns is assumed with it: there is no send timeout, and a client that stays
  and stops receiving can hold the thread up.  Nothing says that a client goes on
  sending, that it leaves, that the server is stopped, or that a timeout strikes.
* `ReplServer`: weak fairness of the accept thread, of every client thread and
  of a stop that has begun (operating system threads, with timeouts in `poll`
  and `recv`), and of a client's reading of what it has been sent.  The last is
  an assumption about the environment: the code has no send timeout, and a
  client that stops reading while its program prints keeps the eval lock.  No
  fairness of the lock is assumed, since POSIX promises none; therefore no
  property says that each request is served.

* `Evaluation` (in `Machine`): weak fairness of the machine.  It is one thread
  under the eval lock and waits for nothing.  `Fairness` says it without
  `ENABLED`: there is always a step while there is no result, so steps are taken
  again and again or there is a result in the end.

Nothing assumes that programs end, except that `ReplServer` and `Frames` model
evaluations that do; that the programs of the run `programs` end is a property.

## 5. Proofs

### The heap

`HeapProofs` proves, for any set of addresses, sizes, thresholds and limits
(the assumptions `ObjAssumption`, `SizeAssumption`, `BoundAssumption` of
`Collector`: sizes and limits are numbers, the script's closure and function
are not addresses of the heap), of programs that are `Disciplined`
(`~BlocksCapture /\ ~OpenErrors`: only a return gives up the slot of a captured
variable, see section 2):

| Theorem | States, if `Disciplined` |
|---|---|
| `Invariance` | `Spec => []Inv` |
| `TypeCorrect` | `Spec => []TypeOK` |
| `MemorySafety` | `Spec => []NoReachableFreed` |
| `CanonicalStrings` | `Spec => []StringsCanonical` |
| `Precision` | `Spec => CollectionIsPrecise` |
| `Growth` | `Spec => []GrowthBounded` |
| `Accounting` | `Spec => []BytesAccounted` |
| `Advance` | `Spec => CollectionAdvances` |
| `Refinement` | `Spec => ImplementsAbstractHeap` |

The inductive invariant is `Inv == TypeOK /\ HeapInv`.  `NoReachableFreed` is
not inductive: before a sweep starts, nothing in it says that the marks cover
what is reachable.  `HeapInv` adds

* `GraphOK`: roots, and references of what exists, stay inside what exists
  (`Live`, which during a sweep already leaves out what the sweep will free);
* `MarksOK` with `Marking`, the tricolour argument: a marked object that is no
  longer gray has marked references, the root sets started so far are marked,
  and only reachable objects are marked.  When all stages are done and nothing
  is gray, marked and reachable coincide, and so `Live = InReach` holds when the
  sweep starts and until it ends;
* `ScriptOK`: the script's closure and function are not on the object list and
  no sweep clears their marks, so `Marking` speaks of them only once the frame
  stage has cleared them (`ScriptDone`);
* `FramesOK`, `UpvaluesOK`: frame windows are stacked, and an upvalue that
  points into the stack is in the open list, its slot in the window of a called
  function.  The collector does not follow such an upvalue, the interpreter does:
  this is why the two notions agree.  It is this conjunct that needs `Disciplined`:
  a block's end or a failure leaves an upvalue that is open and has no slot, and from
  there on the program can reach what the collector frees, so that no other conjunct
  could be kept either;
* `RequestOK`: what a handler checked before `gc_alloc` still holds after the
  collection inside it, in particular that a text is still not interned;
* `StringsCanonical` itself, which a sweep keeps because it takes freed strings
  out of the table.

There is one lemma per action (`...Step`).  Steps that only move references go
through `QuietStep`; reachability is the smallest closed set
(`RootsReachable`, `PointsReachable`, `ReachableSmallest`), so that no induction
over paths is needed.  `Refinement` shows that a step of the collector or the
interpreter is a step of `AbstractHeap` or a stutter: the whole garbage of a
cycle disappears at the step that starts the sweep.

`BytesAccounted` says that the counter is the sum of the sizes of the listed
objects.  A sum over a set would be a recursion; `Units` says the same as a
cardinality, each object contributing as many elements as it has units, told apart
by their object.  Its inductive form adds that `Units` is finite: an allocation
adds a block disjoint from the rest, the sweep removes one that is there
(`CreateUnits`, `FreeUnits`), so the clamp at 0 in `gc_sweep` is never taken.

`CollectionAdvances` is the safety half of termination: every step of a collection
goes down in a lexicographic order (root sets left, frames left, objects not
marked, whether a trace is under way, objects not swept), with cyclic structures and any number of objects.  That
such steps are taken (`CollectionEnds`) needs fairness and stays with TLC.

### The server

`ReplServerProofs` proves, for any number of clients with any number of requests
and any output buffer (`ClientAssumption`: `Nobody` is no client;
`BoundAssumption`: the bounds are numbers):

| Theorem | States |
|---|---|
| `Invariance` | `Spec => []Inv` |
| `TypeCorrect` | `Spec => []TypeOK` |
| `Serialisation` | `Spec => []Serialised` |
| `LockIsExact` | `Spec => []LockHeldToEvaluate` |
| `FreedLast` | `Spec => []FreedWhenUnused` |
| `Refinement` | `Spec => ImplementsEvaluator` |

`Serialised` speaks of the answers that have been sent.  It is not inductive: it
does not say why the next answer will be a new one.  `Inv` adds

* `LockOK`: a client between the lock and the unlock of `repl_eval_line` is the
  holder, and from its read to its write the global is what it has read.  So
  there is at most one such client, and its write is above every answer;
* `AnswersOK`: an answer is never above the global, and one that is computed and
  not yet sent is above its client's earlier ones and differs from those of all
  other clients, sent or not.

The lock alone does the work: `QuietStep` shows that a step which leaves the
variables of the evaluation alone (accepting, stopping, clients, frames, errors)
keeps the invariant, and one lemma treats each step under the lock.

* `LockHeldToEvaluate`: a client holds the lock exactly while it evaluates.  It is
  inductive beside `Inv` (`LockExactStep`).  That the lock is given back in the end
  (`LockIsReleased`) also needs that the holder goes on, which is fairness.
* `FreedWhenUnused` follows from `StopOK`, which says what `repl_server_stop` has done
  by each of its steps: the listener is closed before the join, the accept thread has
  ended before the grace period, and only then is the server freed.  The proof shows
  that client threads are all that is left to read a freed server; they do
  (`NoUseAfterFree` in section 6).
* `Refinement` maps a request that has been sent, received or is being evaluated to one
  that is asked, and the value a thread is about to send to an answer.  Reading the
  variable is a stutter and writing it the whole abstract evaluation: this is where the
  proof needs `LockOK`, without which the value written would not be the variable's next.
  `Serialised` speaks of the values alone; the refinement adds that each value belongs
  to a request of that client and that no request is evaluated twice.

### The tables

`ProbingProofs` treats a walk once for both: from the home slot of a hash, modulo
any capacity, a walk visits every slot (`SlotOnto`); so it ends if a slot is
empty (`WalkEnds`), and what a walk reaches it still reaches when slots are filled
(`ReachedKept`).  The arithmetic of `%` is proved from quotients.

`VarTableProofs` and `InternTableProofs` hold for any names or texts, any hashes,
capacities from 2, and a failure of any allocation.  The assumptions are that the
empty slot and the tombstone are no entries or strings, that the result of a failed
look-up is no value, that hashes are numbers, and that the first capacity is at
least 2.

| Theorem | States |
|---|---|
| `VarTableProofs!Invariance`, `InternTableProofs!Invariance` | `Spec => []Inv` |
| `VarTableProofs!TypeCorrect`, `InternTableProofs!TypeCorrect` | `Spec => []TypeOK` |
| `VarTableProofs!NotFull` | `Spec => []NeverFull` |
| `VarTableProofs!Refinement` | `Spec => ImplementsGlobals` |
| `InternTableProofs!HoldsTheLive` | `Spec => []TableIsLive` |
| `InternTableProofs!CountsAreRight` | `Spec => []CountsMatch` |
| `InternTableProofs!WalksEnd` | `Spec => []ProbesEnd` |
| `InternTableProofs!Refinement` | `Spec => ImplementsStringSet` |

That a look-up finds a name says nothing about the next growth.  Both invariants
add

* `WellPlaced`: a name (a text) is in one slot at most, and the walk for it comes
  to that slot before it comes to an empty one.  Tombstones are not empty: this
  is why a removal may not clear a slot, and the proof of `FreeStep` needs it;
* `LoadOK`: the counts count what is in the slots, and at most three quarters are
  taken, so that a slot is free.  In the intern table the fraction holds until a
  growth fails (`starved`); in the table of globals it always holds, since a
  definition that cannot grow the table is refused;
* `ResizeOK`, `GrowOK`: in the middle of a growth the new table is well placed
  too and holds exactly what has been moved so far;
* `EntryOK`, `StrOK`: what is about to be inserted is still not there, although a
  sweep or a growth came between the look-up and the insertion.

### The connection

`FramesProofs`, for any number of frames and any size of the header buffer from 4
pieces:

| Theorem | States |
|---|---|
| `TypeCorrect` | `Spec => []TypeOK` |
| `Invariance` | `~Stalls` implies `Spec => [](TypeInv /\ Inv)` |
| `AnswersInOrder` | `~Stalls` implies `Spec => []AnsweredInOrder` |
| `ClosesForCause` | `~Stalls` implies `Spec => []ClosedForCause` |
| `NoRequestTwice` | `Spec => []EvaluatedOnce` |
| `NoAnswerOwed` | `~Stalls` implies `Spec => []NothingOwed` |

`TypeCorrect` and `NoRequestTwice` need no hypothesis.  The others are about clients that do not stall
inside a frame for longer than the receive timeout, because with such a client the
code does break them (section 6).  In all of them the client may leave, the server be
stopped and freed, and memory run out at any moment: `ClosedForCause` lists these as
causes, and says of each how far it reaches (a stop closes between two frames only,
memory only counts if it ran out for the last answer or for the next body), and
`AnsweredInOrder` says that the answer to a request is never lost in the middle: the
connection ends with it (`LostOK` in `Inv`).  `EveryFrameAnswered`, which is left to
TLC, excuses a frame for the same three reasons.  `Inv` says where the server is: it began to
read at the end of the last frame it answered, and is at most three pieces into a
header or as far into the body as `left` says.  Outside `json_frame_read` it has read nothing of the next frame,
which is why the flag closes between two frames.  It never takes the body of one
frame for the header of the next, wherever the stream is cut; and as it reads what it
has been sent, it owes no answer to a whole frame when nothing is left to read.

With a client that does stall the server may take up the stream inside a frame.  What
remains true then is `EvaluatedOnce`: whatever it takes for a frame ends at the end of
a frame the client sent, so it evaluates requests of the client only, in its order, none
of them twice.  `StallInv` says that a header that was found lies behind everything
answered before it.

### Captured variables

`UpvaluesProofs`, for any number of values, variables, closures, upvalues, frames
and slots, without the constraint that the run needs:

| Theorem | States, if `Disciplined` |
|---|---|
| `Invariance` | `Spec => []Inv` |
| `TypeCorrect` | `Spec => []TypeOK` |
| `OneUpvalue` | `Spec => []OneUpvaluePerVariable` |
| `Sorted` | `Spec => []OpenListSorted` |
| `Follow` | `Spec => []UpvaluesFollowVariables` |
| `Refinement` | `Spec => ImplementsVariables` |

`Disciplined` is `~BlocksCapture /\ ~OpenErrors`: no variable of a block is
captured, and no script fails while an upvalue is open.  These are the two ways
in which the code breaks the properties (`upvalues_blocks`, and `vm_runtime_error`
in section 6); programs without them include every closure over parameters and
locals of functions.  None of the properties is inductive.  `Inv` adds

* `FramesOK`: windows of the stack lie in the order of their frames, so
  `close_upvalues(slots)` closes exactly what the frames above captured;
* `LocalsOK`: a variable has one slot;
* `UpvaluesOK`: an upvalue is open as long as its variable has a slot, in that
  slot, and is closed with a value after that: this is what makes the later read
  through the upvalue the read of the variable;
* `OpenOK`: the list is sorted and is exactly the open upvalues, without which
  the walk of `capture_upvalue` could miss one, or that of `close_upvalues` stop
  early;
* `ClosuresOK`: captures that are still to be emitted have room.

The refinement maps a variable to the value in its slot, or in its upvalue once it
has no slot.  There is a lemma per action that its step is the abstract machine's
or leaves values and environments alone.

### Pins

`PinsProofs`, for any depth of nesting and number of methods:

| Theorem | States, if `Disciplined` |
|---|---|
| `Invariance` | `Spec => []Inv` |
| `PinsProtect` | `Spec => []NothingLost` |
| `Paired` | `Spec => PinsPaired` |

`Disciplined` has three parts: the handlers are those that balance, the operands
are arrays and maps, and there is room.  `OP_REDUCE` and `OP_VECTORIZE` and
scalar operands are outside of it because there the code does lose objects
(section 6).  Room is `3 * CallsMax` pins, and `2 * MethodsMax + 1` for an object
type above `CallsMax - 1` callers: a handler that calls a function has at most two
operands and a result.  With the 16 pins of the code that covers nesting four deep
with three methods, or methods up to seven outside any caller.  `Inv` adds

* `StackedOK`: each handler's pins begin where those of its caller end, and the
  stack's height is where those of the innermost end.  So giving back as many as
  it took leaves the caller's in place, and no pin was ever dropped for lack of
  room;
* `CallsOK`: what a handler has made by now, and that all but the innermost are
  in the middle of a call;
* `PinnedOK`: each part a handler must protect is among its own pins.

### Only model-checked

* Liveness: `CollectionEnds`, `EveryFrameAnswered`, `StopReturns`, `LockIsReleased`,
  `Finishes` (fairness and ENABLED are out of the prover's reach).
* The properties of `Repl` and `Evaluation`, with what `Parser`, `Compiler` and
  `Meaning` compute: they are recursive over trees and tokens, which needs induction
  over data and operators the prover does not take.

### Proved and not in a run

`CollectionAdvances`, `LockHeldToEvaluate`, `FreedWhenUnused`, `EvaluatedOnce`,
`NothingOwed`, and `TypeOK` of `ReplServer` are theorems, so that the runs spend their
time on others.  TLC found them to hold before they were proved, on the instances of
`server` and `frames` (`EvaluatedOnce` with `Stalls = TRUE` too) and
on a heap of two objects; adding their names to a cfg shows it again.

## 6. Where the code does not do what it says

Two runs show disagreements with a comment of the code:

* `upvalues_blocks`: a captured local of a block keeps an open upvalue on its
  slot when the block ends, because nothing emits `OP_CLOSE_UPVALUE`
  (`vm.c:1585` says what it is for); the next value in the slot becomes the
  variable's value.
* `pins_broadcast`: an element function that itself broadcasts with a scalar
  unpins three for the two it pinned, and an operand of the outer operation
  loses its protection (`gc.h:236`).

The models hold more, which their constants switch off in the passing runs so
that the rest can be checked.  Each can be seen by changing one line of a cfg:

| Change | Then fails | Because |
|---|---|---|
| `BlocksCapture = TRUE` in `heap_calls.cfg` | `ImplementsAbstractHeap` | a captured block local is popped with its upvalue open (`compiler.c:194`, `vm.c:1544`): the collector frees what the closure goes on to read (`vm.c:1463`) |
| `OpenErrors = TRUE` and `Names = {g}` in `heap_calls.cfg` | `ImplementsAbstractHeap` | the same for a closure in a global, after `vm_runtime_error` (`vm.c:91`) |
| either of these with `Names = {g}`, `Texts = {}` and `NoReachableFreed` as an invariant in place of the properties | `NoReachableFreed` | likewise |
| `OpenErrors = TRUE` in `upvalues.cfg` | `ImplementsVariables`, `UpvaluesFollowVariables` | `vm_runtime_error` frees the stack and leaves upvalues open |
| `"OP_VECTORIZE"` added to `Handlers` in `pins_balanced.cfg` | `PinsPaired` | an element error unpins two of three (`vm.c:3101`) |
| `"OP_REDUCE"` added there | `NothingLost` | the accumulator of a fold with `++` is on no root (`vm.c:617`) |
| `MethodsMax = 10` there | `NothingLost` | nine methods need more than the 16 pins, and `gc_pin` drops silently (`gc.h:206`) |
| `Stalls = TRUE` in `frames.cfg` | `ClosedForCause`; alone, `AnsweredInOrder` | a receive timeout inside a header drops what has been received of it (`json.c:725`) |
| `StaysAlive` as an invariant of `server.cfg` | itself | `send` without `MSG_NOSIGNAL`: SIGPIPE ends the process |
| `NoUseAfterFree` as an invariant of `server.cfg` | itself | `repl_server_stop` frees after 100 ms what blocked client threads go on to read |
| `WaitsWithHope` as an invariant of `repl.cfg` | itself | behind `(`, `1 +` or a string that is open, no further line can mend what is there, and the loop takes lines until the input ends (`parser.h:106`, `TUTORIAL.md:1735`) |

`Meaning` claims nothing of the programs below (`Settled`), nor does `Grammar` of
what the tokenizer swallows.  Each was confirmed with a build of `src/`.

| Program or input | What happens | Where |
|---|---|---|
| `break and 1`, `if break then 1 end`, `return or 2` | the process ends: a jump is patched although nothing was emitted behind the error, outside the chunk.  `TUTORIAL.md:456` promises an error | `compiler.c:146` |
| `xs[f()] = 5` where `f` assigns `xs` | the assignment inside `f` is lost: the container read first is stored back | `compiler.c:918` |
| `10 + (if true then my x = 2` newline `x * 3 end)` in a function | 32 instead of 16: the declaration takes the operand's slot | `compiler.c:435` |
| `1 + break` inside a loop | the operand stays on the stack, and the locals behind it are read from the wrong slots | `compiler.c:726` |
| a closure over a block's local that outlives the block | see `upvalues_blocks`; what the variable held may be freed while the closure reads it | `vm.c:1585` |
| `make T()` where `init` assigns `self` | returns what was assigned: the instance is read from the slot | `vm.c:3443` |
| `xs @f ys` where `f` pops from `xs` | reads elements that are gone | `vm.c:3294` |
| `@f xs` where `f` pushes to `xs` | never ends | `vm.c:3183` |
| `@% [-7, 3]` | -1, though `-7 % 3` is 2 and `TUTORIAL.md:1426` defines the fold by the operator | `vm.c:586` |
| an array that contains itself, shown or compared | recursion without end | `value.c:238` |
| an operator character before a line's end, `#` or `@` | the newline or comment becomes part of the operator; later lines are counted one too few | `tokenizer.c:457` |
| a line of more than 4095 characters behind a pipe | is evaluated in pieces | `main.c:776` |
| more than 256 KiB without a complete program | all of it is dropped | `main.c:716` |
| `1 < 2 not in [3]`, `(xs[0]) = 1`, `then` as an atom | accepted, though the grammar in the comments has no such tree | `parser.c` |
| 256 arguments of a method, methods, mixins | the count is cut to a byte | `compiler.c:1511` |

## 7. Not modelled

* `gc_free_all`, `gc_suppress`, tests' hooks, allocation of anything but objects.
* The order of the object list: the sweep treats objects one by one.
* Reference counts of object types and instances (`value.c:382-497`).
* Floating point: numbers are integers, and number formatting is left out.
* JSON values, disassembly, debug output, prompts, history, `say`, `str`,
  `type`: conversions and input/output on which no property here depends.
* The growth of the pointer array: its users are modelled by sequences.
* In `Frames`, SIGPIPE and what an evaluation does: both are in `ReplServer`.
* The signal handler of `main.c` as an interrupt: stop runs beside the threads
  here, not inside one.
* `vendor/`: third-party code.

## 8. Plan

Done, in this order: `AbstractHeap`, `Collector`, `Heap` and the proofs;
`Variables`, `Upvalues`; `Pins`; `Probing`, `StringSet`, `InternTable`;
`Globals`, `VarTable`; `Frames`; `ReplServer`; `Tokenizer`, `Parser`, `Grammar`,
`Repl`; `Values`, `Compiler`, `Machine`, `Meaning`, `Evaluation`; the proofs
about the server, the walks and the two tables, the connection, captured
variables, and pins; the accounting of the heap, the variant of a collection,
`Evaluator`, and what stalls cannot break.

Next models: reference counts of object types and instances against the sweep;
`gc_free_all` and the object list.

Next proofs: that `OneUpvaluePerVariable` and `TypeOK` of `Upvalues` hold without
the hypothesis on failing scripts (upvalues left open lie outside the list, so the
argument about the list stays as it is); that the constraint of room in `PinsProofs` is
necessary as well as sufficient.
