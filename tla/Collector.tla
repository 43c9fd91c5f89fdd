------------------------------ MODULE Collector -------------------------------
(***************************************************************************)
(* The mark-and-sweep collector of gc.c together with the root sets it     *)
(* walks and the interpreter functions that fill and empty those sets.     *)
(*                                                                         *)
(* An object is an address of the C heap.  Its contents are reduced to the *)
(* objects its fields refer to ("held"), a Value to the set of heap        *)
(* objects embedded in it: none for a scalar, one for a string, array,     *)
(* map, function or closure, the methods map for an object type, the data  *)
(* map and the methods map for an instance.                                *)
(*                                                                         *)
(* gc_collect runs inside gc_alloc, with the interpreter suspended.  The   *)
(* recursion of gc_mark_object is kept as the set "gray" of the objects it *)
(* has marked and not yet traced; root sets are marked in the code's order *)
(* and the sweep frees one object per step.  The order of the object list  *)
(* is left out: the sweep treats each object on its own.                   *)
(***************************************************************************)
EXTENDS Integers, Sequences, FiniteSets

CONSTANTS
  Obj,              \* addresses of the C heap
  ScriptClosure,    \* vm_execute's script_closure: on the C stack, not listed
  ScriptFn,         \* vm_execute's script_fn: likewise
  Texts,            \* contents a string can have
  Names,            \* names of global variables
  Containers,       \* bound: the kinds of container the program creates
  NoText,           \* the text of an object that is not a string
  Size,             \* Size[k]: the alloc_size of an object of kind k
  MinThreshold,     \* 1024 in gc_collect
  InitThreshold,    \* GC_INITIAL_THRESHOLD
  GCStress,         \* whether GC_STRESS is defined
  StackMax,         \* bound: VM_STACK_MAX
  FramesMax,        \* bound: FRAMES_MAX
  TempRootsMax,     \* GC_TEMP_ROOTS_MAX
  CompilerRootsMax, \* bound: GC_COMPILER_ROOTS_MAX
  BlocksCapture,    \* whether a captured slot is popped otherwise than by a return
  OpenErrors        \* whether programs fail while an upvalue is open

Kinds == {"STRING", "ARRAY", "MAP", "FUNCTION", "CLOSURE", "UPVALUE"}
Script == {ScriptClosure, ScriptFn}
Node == Obj \cup Script

ASSUME ObjAssumption ==
  /\ Obj # {}
  /\ ScriptClosure # ScriptFn
  /\ Obj \cap Script = {}
  /\ NoText \notin Texts
ASSUME SizeAssumption ==
  /\ Size \in [Kinds -> Nat \ {0}]
  /\ MinThreshold \in Nat \ {0}
  /\ InitThreshold \in Nat \ {0}
ASSUME BoundAssumption ==
  /\ GCStress \in BOOLEAN
  /\ Containers \subseteq {"ARRAY", "MAP"}
  /\ StackMax \in Nat
  /\ FramesMax \in Nat \ {0}
  /\ TempRootsMax \in Nat
  /\ CompilerRootsMax \in Nat \ {0}
  /\ {BlocksCapture, OpenErrors} \subseteq BOOLEAN

VARIABLES
  objects,        \* gc.objects, as a set
  kind,           \* Obj.type
  held,           \* the objects an object's own fields refer to
  loc,            \* ObjUpvalue.location: a stack slot, Closed or Dead
  text,           \* ObjString.chars
  interned,       \* the live entries of the intern table
  bytes,          \* gc.bytes_allocated
  next_gc,        \* gc.next_gc
  stack,          \* vm->stack up to stack_top
  frames,         \* vm->frames up to frame_count
  open_upvalues,  \* vm->open_upvalues, as a set
  globals,        \* the variables of runtime.c
  compiler_roots, \* the constants of the chunks being compiled, outermost first
  pins,           \* temp_root_stack up to temp_root_count
  running,        \* gc_vm # NULL
  request,        \* the gc_alloc call in progress
  phase,          \* what runs: the interpreter, or a part of gc_alloc
  stage,          \* how many of the root sets gc_mark_roots has started
  frames_left,    \* the frames gc_mark_roots has still to visit
  marked,         \* the objects with is_marked set
  gray,           \* marked objects whose fields are not traced yet
  unswept         \* the objects gc_sweep has still to visit

content == <<kind, held, loc, text>>
roots == <<stack, frames, open_upvalues, globals, compiler_roots, pins, running>>
trace == <<stage, frames_left, marked, gray, unswept>>
heap == <<objects, content, interned, bytes, next_gc>>
vars == <<heap, roots, request, phase, trace>>

Closed == 0     \* location == &closed
Dead == -1      \* location points into the stack of a VM that has ended

NoRequest == [kind |-> "none"]

-------------------------------------------------------------------------------
(* What the program can reach.                                             *)

(* gc_mark_object: the fields it traces. An upvalue's location is followed *)
(* only when it is the upvalue's own field.                                *)
Traced(n) == IF kind[n] = "UPVALUE" /\ loc[n] # Closed THEN {} ELSE held[n]

(* What the interpreter finds when it follows n: OP_GET_UPVALUE reads      *)
(* through location, wherever it points. Above the top of the stack, and   *)
(* where the stack of a VM that has ended was, that may be any address.    *)
Points(n) ==
  CASE kind[n] # "UPVALUE" \/ loc[n] = Closed -> held[n]
    [] kind[n] = "UPVALUE" /\ loc[n] \in 1..Len(stack) -> stack[loc[n]]
    [] OTHER -> Obj

StackRoots == UNION {stack[i] : i \in 1..Len(stack)}
FrameRoots == {frames[i].closure : i \in 1..Len(frames)}
GlobalRoots == UNION {globals[x] : x \in Names}
CompilerRoots == UNION {compiler_roots[i] : i \in 1..Len(compiler_roots)}
PinRoots == {pins[i] : i \in 1..Len(pins)}

Roots ==
  StackRoots \cup FrameRoots \cup open_upvalues \cup GlobalRoots
    \cup CompilerRoots \cup PinRoots

(* The sets that hold the roots and whatever their members refer to: the   *)
(* reachable objects are the ones that all of these sets have.             *)
ClosedSets ==
  LET start == Roots IN
  {S \in SUBSET Node : start \subseteq S /\ \A n \in S : Points(n) \subseteq S}

Reachable == LET closed == ClosedSets IN {n \in Node : \A S \in closed : n \in S}

InReach == Reachable \cap Obj

-------------------------------------------------------------------------------
Init ==
  /\ objects = {}
  /\ kind = [n \in Node |-> IF n = ScriptClosure THEN "CLOSURE" ELSE "FUNCTION"]
  /\ held = [n \in Node |-> IF n = ScriptClosure THEN {ScriptFn} ELSE {}]
  /\ loc = [n \in Node |-> Closed]
  /\ text = [n \in Node |-> NoText]
  /\ interned = {}
  /\ bytes = 0
  /\ next_gc = InitThreshold
  /\ stack = <<>>
  /\ frames = <<>>
  /\ open_upvalues = {}
  /\ globals = [x \in Names |-> {}]
  /\ compiler_roots = <<>>
  /\ pins = <<>>
  /\ running = FALSE
  /\ request = NoRequest
  /\ phase = "interpreter"
  /\ stage = 0
  /\ frames_left = {}
  /\ marked = {}
  /\ gray = {}
  /\ unswept = {}

-------------------------------------------------------------------------------
(* gc_alloc                                                                *)

(* gc_alloc is called for an object described by r: it collects first in a *)
(* stress build and when the heap has outgrown the threshold.              *)
StartAlloc(r) ==
  /\ phase = "interpreter"
  /\ request' = r
  /\ phase' = IF GCStress \/ bytes > next_gc THEN "mark" ELSE "calloc"
  /\ stage' = 0
  /\ UNCHANGED <<heap, roots, frames_left, marked, gray, unswept>>

PopMany(s, n) == SubSeq(s, 1, Len(s) - n)
Top(s) == s[Len(s)]
OnTop(s, n) == UNION {s[i] : i \in (Len(s) - n + 1)..Len(s)}

(* What the new object refers to once its constructor and the handler that *)
(* asked for it are done.                                                  *)
Contents ==
  CASE request.dest = "array"    -> OnTop(stack, request.count)
    [] request.dest = "function" -> Top(compiler_roots)
    [] request.dest = "closure"  -> request.value
    [] OTHER                     -> {}

(* Where the handler that asked for object o puts it.                      *)
Deliver(o) ==
  CASE request.dest = "constant" ->
         /\ compiler_roots' = [compiler_roots EXCEPT ![Len(compiler_roots)] = @ \cup {o}]
         /\ UNCHANGED <<stack, open_upvalues>>
    [] request.dest = "function" ->
         /\ compiler_roots' = [PopMany(compiler_roots, 1)
                                 EXCEPT ![Len(compiler_roots) - 1] = @ \cup {o}]
         /\ UNCHANGED <<stack, open_upvalues>>
    [] request.dest = "array" ->
         /\ stack' = Append(PopMany(stack, request.count), {o})
         /\ UNCHANGED <<compiler_roots, open_upvalues>>
    [] request.dest = "upvalue" ->
         /\ open_upvalues' = open_upvalues \cup {o}
         /\ UNCHANGED <<stack, compiler_roots>>
    [] request.dest = "instance" ->
         /\ stack' = Append(stack, {o} \cup request.value)
         /\ UNCHANGED <<compiler_roots, open_upvalues>>
    [] OTHER ->
         /\ stack' = Append(stack, {o})
         /\ UNCHANGED <<compiler_roots, open_upvalues>>

(* calloc returns the address o; gc_alloc lists it and the caller fills it *)
(* in. A string enters the intern table, a captured slot's upvalue enters  *)
(* the closure that captures it.                                           *)
Create(o) ==
  /\ phase = "calloc"
  /\ o \in Obj \ objects
  /\ objects' = objects \cup {o}
  /\ kind' = [kind EXCEPT ![o] = request.kind]
  /\ held' = [n \in Node |->
                IF n = o THEN Contents
                ELSE IF request.dest = "upvalue" /\ n \in request.value
                     THEN held[n] \cup {o}
                ELSE held[n]]
  /\ loc' = [loc EXCEPT ![o] = request.slot]
  /\ text' = [text EXCEPT ![o] = request.text]
  /\ interned' = IF request.kind = "STRING" THEN interned \cup {o} ELSE interned
  /\ bytes' = bytes + Size[request.kind]
  /\ Deliver(o)
  /\ request' = NoRequest
  /\ phase' = "interpreter"
  /\ UNCHANGED <<next_gc, frames, globals, pins, running, trace>>

(* calloc returns NULL: the handler gives up with "memory allocation       *)
(* failed", a runtime error or a compile error.                            *)
OutOfMemory ==
  /\ phase = "calloc"
  /\ request' = NoRequest
  /\ phase' = "interpreter"
  /\ UNCHANGED <<heap, roots, trace>>

-------------------------------------------------------------------------------
(* gc_collect: mark                                                        *)

\* Mutant: the open upvalues are not a root set.
RootSetWithoutUpvalues(i) ==
  CASE i = 1 /\ running -> StackRoots
    [] i = 4 -> GlobalRoots
    [] i = 5 -> CompilerRoots
    [] i = 6 -> PinRoots
    [] OTHER -> {}

(* The VM's own root sets are walked only while a VM is registered.        *)
RootSet(i) ==
  CASE i = 1 /\ running -> StackRoots
    [] i = 3 /\ running -> open_upvalues
    [] i = 4 -> GlobalRoots
    [] i = 5 -> CompilerRoots
    [] i = 6 -> PinRoots
    [] OTHER -> {}

FrameStage == 2
LastStage == 6

(* The next root set is marked once the tracing of the previous one is     *)
(* over. The second one, the frames, is visited frame by frame.            *)
MarkRoots ==
  /\ phase = "mark"
  /\ gray = {} /\ frames_left = {}
  /\ stage < LastStage
  /\ stage' = stage + 1
  /\ frames_left' = IF stage' = FrameStage /\ running THEN FrameRoots ELSE {}
  /\ gray' = RootSet(stage') \ marked
  /\ marked' = marked \cup RootSet(stage')
  /\ UNCHANGED <<heap, roots, request, phase, unswept>>

FunctionOf(c) == {f \in held[c] : kind[f] = "FUNCTION"}

\* Mutant: the marks of the script's closure and function stay.
StaleFrameMarks(c) == marked

(* A frame's closure and its function are unmarked before the closure is   *)
(* marked, so that both are traced: the script's are not on the list, no   *)
(* sweep clears their mark.                                                *)
ClearFrameMarks(c) == marked \ ({c} \cup FunctionOf(c))

MarkFrame(c) ==
  LET cleared == ClearFrameMarks(c)
      reached == {c} \cup FunctionOf(c)
  IN
  /\ phase = "mark"
  /\ gray = {}
  /\ c \in frames_left
  /\ frames_left' = frames_left \ {c}
  /\ gray' = reached \ cleared
  /\ marked' = cleared \cup reached
  /\ UNCHANGED <<heap, roots, request, phase, stage, unswept>>

\* Mutant: gc_mark_object does not return early from a marked object.
TraceAgain(reached) == reached

(* gc_mark_object returns early from an object that is marked.             *)
Unmarked(reached) == reached \ marked

(* gc_mark_object traces the fields of the objects it has marked, one      *)
(* level of its recursion in a step.                                       *)
Trace ==
  LET reached == UNION {Traced(o) : o \in gray} IN
  /\ phase = "mark"
  /\ gray # {}
  /\ gray' = Unmarked(reached)
  /\ marked' = marked \cup reached
  /\ UNCHANGED <<heap, roots, request, phase, stage, frames_left, unswept>>

-------------------------------------------------------------------------------
(* gc_collect: sweep                                                       *)

StartSweep ==
  /\ phase = "mark"
  /\ stage = LastStage /\ gray = {} /\ frames_left = {}
  /\ phase' = "sweep"
  /\ unswept' = objects
  /\ UNCHANGED <<heap, roots, request, stage, frames_left, marked, gray>>

\* Mutant: gc_sweep leaves the marks of the survivors.
MarksLeft == marked

MarksAfterKeep == marked \ unswept

(* The marked objects are kept and their marks cleared.                    *)
Keep ==
  /\ phase = "sweep"
  /\ unswept \cap marked # {}
  /\ marked' = MarksAfterKeep
  /\ unswept' = unswept \ marked
  /\ UNCHANGED <<heap, roots, request, phase, stage, frames_left, gray>>

\* Mutant: every object is taken to have the size of a string.
UniformBytesAfterFree(o) ==
  IF bytes >= Size["STRING"] THEN bytes - Size["STRING"] ELSE 0

BytesAfterFree(o) == IF bytes >= Size[kind[o]] THEN bytes - Size[kind[o]] ELSE 0

\* Mutant: gc_sweep does not call intern_remove.
InternedAfterFreeUnchanged(o) == interned

InternedAfterFree(o) == IF kind[o] = "STRING" THEN interned \ {o} ELSE interned

(* An unmarked object is unlinked, leaves the intern table and is freed:   *)
(* what its memory holds from then on is no object's.                      *)
Free(o) ==
  /\ phase = "sweep"
  /\ unswept \cap marked = {}
  /\ o \in unswept
  /\ unswept' = unswept \ {o}
  /\ objects' = objects \ {o}
  /\ bytes' = BytesAfterFree(o)
  /\ interned' = InternedAfterFree(o)
  /\ kind' = [kind EXCEPT ![o] = "FUNCTION"]
  /\ held' = [held EXCEPT ![o] = {}]
  /\ loc' = [loc EXCEPT ![o] = Closed]
  /\ text' = [text EXCEPT ![o] = NoText]
  /\ UNCHANGED <<next_gc, roots, request, phase, stage, frames_left, marked, gray>>

\* Mutant: the next collection waits for a fixed number of bytes.
ThresholdNotUpdated == MinThreshold

NextThreshold == IF bytes < MinThreshold THEN MinThreshold ELSE bytes * 2

(* The threshold follows the bytes that survived, and gc_alloc goes on.    *)
FinishCollect ==
  /\ phase = "sweep"
  /\ unswept = {}
  /\ next_gc' = NextThreshold
  /\ phase' = "calloc"
  /\ UNCHANGED <<objects, content, interned, bytes, roots, request, trace>>

Collect ==
  \/ MarkRoots
  \/ \E c \in FrameRoots : MarkFrame(c)
  \/ Trace
  \/ StartSweep
  \/ Keep
  \/ \E o \in unswept : Free(o)
  \/ FinishCollect
===============================================================================
