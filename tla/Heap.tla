-------------------------------- MODULE Heap ----------------------------------
(***************************************************************************)
(* The heap as the interpreter uses it: the functions of compiler.c, vm.c, *)
(* value.c and runtime.c that move references in and out of the collector's *)
(* root sets, interleaved with the collections their allocations start.    *)
(*                                                                         *)
(* The operations take any value the program can reach: which handler      *)
(* keeps its operands in a root set while it allocates is the subject of   *)
(* another module.  Two constants say what else programs do: with          *)
(* BlocksCapture the slot of a captured variable is popped while its       *)
(* upvalue stays open, as OP_POP does at the end of a block and OP_ARRAY   *)
(* to a local declared among its operands; with OpenErrors a program fails *)
(* while an upvalue is open.  Either leaves an upvalue whose location is   *)
(* no live slot, which the collector does not follow and the interpreter   *)
(* does: what then holds is in neither's hands.                            *)
(***************************************************************************)
EXTENDS Collector

Idle == phase = "interpreter"

(* What gc_alloc is asked for: an object of kind k, for the purpose d,     *)
(* linked to the objects v, built from the top c values or capturing slot  *)
(* i, with the text t.                                                     *)
Allocation(k, d, v, c, i, t) ==
  [kind |-> k, dest |-> d, value |-> v, count |-> c, slot |-> i, text |-> t]

CollectorIdle == UNCHANGED <<objects, text, interned, bytes, next_gc, request, phase, trace>>

-------------------------------------------------------------------------------
(* Compilation                                                             *)

(* compile: the script's chunk becomes a compiler root.                    *)
BeginCompile ==
  /\ Idle /\ ~running /\ compiler_roots = <<>>
  /\ compiler_roots' = <<{}>>
  /\ CollectorIdle
  /\ UNCHANGED <<kind, held, loc, stack, frames, open_upvalues, globals, pins, running>>

(* compile_function_closure: so does the chunk of a nested function.       *)
EnterFunction ==
  /\ Idle /\ compiler_roots # <<>>
  /\ Len(compiler_roots) < CompilerRootsMax
  /\ compiler_roots' = Append(compiler_roots, {})
  /\ CollectorIdle
  /\ UNCHANGED <<kind, held, loc, stack, frames, open_upvalues, globals, pins, running>>

\* Mutant: obj_string_take always makes a new string.
InternMiss(t) == {}

(* The string with a given text that the intern table holds, if any.       *)
InternFind(t) == {s \in interned : text[s] = t}

(* A literal or a name: the constant is the interned string or a new one.  *)
CompileString(t) ==
  /\ compiler_roots # <<>>
  /\ IF InternFind(t) = {}
     THEN StartAlloc(Allocation("STRING", "constant", {}, 0, Closed, t))
     ELSE /\ Idle
          /\ compiler_roots' =
               [compiler_roots EXCEPT ![Len(compiler_roots)] = @ \cup InternFind(t)]
          /\ CollectorIdle
          /\ UNCHANGED <<kind, held, loc, stack, frames, open_upvalues, globals, pins, running>>

(* The end of a nested function: its ObjFunction is allocated while its    *)
(* chunk is still a root, then becomes a constant of the enclosing chunk.  *)
CompileFunction ==
  /\ Len(compiler_roots) > 1
  /\ StartAlloc(Allocation("FUNCTION", "function", {}, 0, Closed, NoText))

(* A compile error: the chunk being compiled is given up, its constants    *)
(* with it, and the compilation around it fails in turn.                   *)
CompileError ==
  /\ Idle /\ compiler_roots # <<>>
  /\ compiler_roots' = PopMany(compiler_roots, 1)
  /\ CollectorIdle
  /\ UNCHANGED <<kind, held, loc, stack, frames, open_upvalues, globals, pins, running>>

(* compile returns the chunk and vm_execute runs it: nothing is allocated  *)
(* between the pop of the compiler root and the registration of the VM.    *)
BeginEval ==
  /\ Idle /\ Len(compiler_roots) = 1
  /\ compiler_roots' = <<>>
  /\ held' = [held EXCEPT ![ScriptFn] = compiler_roots[1]]
  /\ frames' = <<[closure |-> ScriptClosure, slots |-> 1]>>
  /\ running' = TRUE
  /\ marked' = marked \ Script
  /\ UNCHANGED <<objects, kind, loc, text, interned, bytes, next_gc, stack, open_upvalues,
                 globals, pins, request, phase, stage, frames_left, gray, unswept>>

(* The script returns or fails: the stack is freed and the VM unregistered. *)
(* An upvalue that is still open, in a function that was running when the  *)
(* error occurred, points into a stack that is gone.                       *)
EndEval ==
  /\ Idle /\ running
  /\ Len(frames) > 1 /\ open_upvalues # {} => OpenErrors
  /\ running' = FALSE
  /\ stack' = <<>>
  /\ frames' = <<>>
  /\ open_upvalues' = {}
  /\ loc' = [n \in Node |-> IF n \in open_upvalues THEN Dead ELSE loc[n]]
  /\ held' = [held EXCEPT ![ScriptFn] = {}]
  /\ CollectorIdle
  /\ UNCHANGED <<kind, globals, compiler_roots, pins>>

-------------------------------------------------------------------------------
(* The value stack and the variables                                       *)

(* vm_push of a value read from a constant, a variable or a container.     *)
Push(v) ==
  /\ Idle /\ running
  /\ Len(stack) < StackMax
  /\ stack' = Append(stack, v)
  /\ CollectorIdle
  /\ UNCHANGED <<kind, held, loc, frames, open_upvalues, globals, compiler_roots, pins, running>>

Captured(i) == \E uv \in open_upvalues : loc[uv] = i

LowestPop == IF Len(frames) = 1 THEN 1 ELSE Top(frames).slots + 1

(* OP_POP. A frame leaves its callee where it is; a captured local that is *)
(* popped, at the end of a block, leaves its upvalue as it is.             *)
Pop ==
  /\ Idle /\ running
  /\ Len(stack) >= LowestPop
  /\ Captured(Len(stack)) => BlocksCapture
  /\ stack' = PopMany(stack, 1)
  /\ CollectorIdle
  /\ UNCHANGED <<kind, held, loc, frames, open_upvalues, globals, compiler_roots, pins, running>>

(* runtime_var_define and runtime_var_assign, of the value on top.         *)
SetGlobal(x) ==
  /\ Idle /\ running /\ stack # <<>>
  /\ globals' = [globals EXCEPT ![x] = Top(stack)]
  /\ CollectorIdle
  /\ UNCHANGED <<kind, held, loc, stack, frames, open_upvalues, compiler_roots, pins, running>>

\* Mutant: gc_pin does not look at the limit.
PinsWithoutLimit(o) == Append(pins, o)

(* gc_pin: a pin that finds the pin stack full is dropped.                 *)
PinsWith(o) == IF Len(pins) < TempRootsMax THEN Append(pins, o) ELSE pins

Pin(o) ==
  /\ Idle
  /\ pins' = PinsWith(o)
  /\ CollectorIdle
  /\ UNCHANGED <<kind, held, loc, stack, frames, open_upvalues, globals, compiler_roots, running>>

(* gc_unpin                                                                *)
Unpin ==
  /\ Idle /\ pins # <<>>
  /\ pins' = PopMany(pins, 1)
  /\ CollectorIdle
  /\ UNCHANGED <<kind, held, loc, stack, frames, open_upvalues, globals, compiler_roots, running>>

-------------------------------------------------------------------------------
(* Objects                                                                 *)

HasRoom == running /\ Len(stack) < StackMax

(* obj_string_take for a string computed at run time.                      *)
NewString(t) ==
  /\ HasRoom
  /\ IF InternFind(t) = {}
     THEN StartAlloc(Allocation("STRING", "stack", {}, 0, Closed, t))
     ELSE Push(InternFind(t))

(* OP_ARRAY and OP_MAP: the elements stay on the stack while the object is *)
(* allocated, and move into it afterwards.                                 *)
NewContainer(k, n) ==
  /\ HasRoom
  /\ Len(stack) - n + 1 >= LowestPop
  /\ (\E i \in (Len(stack) - n + 1)..Len(stack) : Captured(i)) => BlocksCapture
  /\ StartAlloc(Allocation(k, "array", {}, n, Closed, NoText))

(* obj_instance_new for a type whose methods map is m: the instance's      *)
(* value holds the new data map and m.                                     *)
NewInstance(m) ==
  /\ HasRoom
  /\ kind[m] = "MAP"
  /\ StartAlloc(Allocation("MAP", "instance", {m}, 0, Closed, NoText))

CurrentFunction == {f \in held[Top(frames).closure] : kind[f] = "FUNCTION"}
Constants == UNION {held[f] : f \in CurrentFunction}

(* OP_CLOSURE: a closure over a function of the running chunk's constants. *)
NewClosure(f) ==
  /\ HasRoom
  /\ f \in Constants /\ kind[f] = "FUNCTION"
  /\ StartAlloc(Allocation("CLOSURE", "closure", {f}, 0, Closed, NoText))

(* OP_CLOSURE, continued: capture_upvalue for a local of the frame, which  *)
(* a called function has and a script does not. The closure is on top of   *)
(* the stack; an open upvalue of the slot is shared.                       *)
Capture(i) ==
  /\ running /\ stack # <<>> /\ Len(frames) > 1
  /\ \E c \in Top(stack) :
       /\ kind[c] = "CLOSURE"
       /\ i \in LowestPop .. Len(stack) - 1
       /\ IF Captured(i)
          THEN /\ Idle
               /\ held' = [held EXCEPT ![c] = @ \cup {uv \in open_upvalues : loc[uv] = i}]
               /\ CollectorIdle
               /\ UNCHANGED <<kind, loc, roots>>
          ELSE StartAlloc(Allocation("UPVALUE", "upvalue", {c}, 0, i, NoText))

(* obj_array_push, obj_map_set and an assignment to an element: v joins    *)
(* the container p, in the place of what old stands for.                   *)
SetElement(p, old, v) ==
  /\ Idle
  /\ kind[p] \in {"ARRAY", "MAP"}
  /\ held' = [held EXCEPT ![p] = (@ \ old) \cup v]
  /\ CollectorIdle
  /\ UNCHANGED <<kind, loc, roots>>

(* The slot an upvalue's location is, if any: the VM is a variable of      *)
(* vm_execute, and the stack of one that has ended may have been anywhere  *)
(* where the present one is.                                               *)
SlotsOf(uv) == IF loc[uv] = Dead THEN 0..Len(stack) ELSE {loc[uv]}

(* OP_SET_UPVALUE writes through location, wherever it points: above the   *)
(* top of the stack, nothing the program can reach is there.               *)
SetUpvalue(uv) ==
  /\ Idle /\ running /\ stack # <<>>
  /\ kind[uv] = "UPVALUE"
  /\ \/ /\ loc[uv] = Closed
        /\ held' = [held EXCEPT ![uv] = Top(stack)]
        /\ UNCHANGED stack
     \/ /\ loc[uv] # Closed
        /\ \E i \in SlotsOf(uv) :
             stack' = [j \in 1..Len(stack) |-> IF j = i THEN Top(stack) ELSE stack[j]]
        /\ UNCHANGED held
  /\ CollectorIdle
  /\ UNCHANGED <<kind, loc, frames, open_upvalues, globals, compiler_roots, pins, running>>

-------------------------------------------------------------------------------
(* Calls                                                                   *)

(* OP_CALL of the closure c in slot i, with the arguments above it.        *)
Call(i) ==
  /\ Idle /\ running
  /\ Len(frames) < FramesMax
  /\ i >= LowestPop
  /\ \E c \in stack[i] :
       /\ kind[c] = "CLOSURE"
       /\ frames' = Append(frames, [closure |-> c, slots |-> i])
  /\ CollectorIdle
  /\ UNCHANGED <<kind, held, loc, stack, open_upvalues, globals, compiler_roots, pins, running>>

(* OP_RETURN from a called function: its result, or the receiver in slot 1 *)
(* if it is an initializer, replaces its window, whose captured slots are  *)
(* closed first.                                                           *)
Return ==
  LET base == Top(frames).slots
      closing == {uv \in open_upvalues : loc[uv] >= base}
  IN
  /\ Idle /\ Len(frames) > 1
  /\ \E i \in {Len(stack), base + 1} \cap 1..Len(stack) :
       stack' = Append(SubSeq(stack, 1, base - 1), stack[i])
  /\ held' = [n \in Node |-> IF n \in closing THEN Points(n) ELSE held[n]]
  /\ loc' = [n \in Node |-> IF n \in closing THEN Closed ELSE loc[n]]
  /\ open_upvalues' = open_upvalues \ closing
  /\ frames' = PopMany(frames, 1)
  /\ CollectorIdle
  /\ UNCHANGED <<kind, globals, compiler_roots, pins, running>>

-------------------------------------------------------------------------------
(* What the program does with the objects in its reach.                    *)
UseObjects ==
  LET reachable == InReach IN
  \E o \in reachable :
    \/ Push({o}) \/ Pin(o) \/ NewInstance(o) \/ NewClosure(o) \/ SetUpvalue(o)
    \/ \E v \in reachable, old \in {{}, held[o]} : SetElement(o, old, {v})

Interpreter ==
  \/ BeginCompile \/ EnterFunction \/ CompileFunction \/ CompileError
  \/ BeginEval \/ EndEval
  \/ \E t \in Texts : CompileString(t) \/ NewString(t)
  \/ UseObjects
  \/ \E x \in Names : SetGlobal(x)
  \/ \E k \in Containers, n \in 0..Len(stack) : NewContainer(k, n)
  \/ \E i \in 1..Len(stack) : Capture(i) \/ Call(i)
  \/ Pop \/ Unpin \/ Return

Allocate == (\E o \in Obj : Create(o)) \/ OutOfMemory

Next == Interpreter \/ Allocate \/ Collect

(* The collector and the end of an allocation are straight-line code of    *)
(* the one thread that evaluates: once called, they run.                   *)
Fairness == WF_vars(Allocate \/ Collect)

Spec == Init /\ [][Next]_vars
FairSpec == Spec /\ Fairness
-------------------------------------------------------------------------------
Dests == {"constant", "function", "array", "upvalue", "instance", "closure", "stack"}

Requests ==
  [kind : Kinds, dest : Dests, value : SUBSET Obj, count : 0..StackMax,
   slot : 0..StackMax, text : Texts \cup {NoText}]

FrameRecords == [closure : Node, slots : 1..StackMax + 1]

(* Type correctness of the heap, the root sets and the collector's state.  *)
TypeOK ==
  /\ objects \subseteq Obj
  /\ kind \in [Node -> Kinds]
  /\ held \in [Node -> SUBSET Node]
  /\ loc \in [Node -> -1..StackMax]
  /\ text \in [Node -> Texts \cup {NoText}]
  /\ interned \subseteq Obj
  /\ bytes \in Nat /\ next_gc \in Nat
  /\ stack \in Seq(SUBSET Obj) /\ Len(stack) <= StackMax
  /\ frames \in Seq(FrameRecords) /\ Len(frames) <= FramesMax
  /\ open_upvalues \subseteq Obj
  /\ globals \in [Names -> SUBSET Obj]
  /\ compiler_roots \in Seq(SUBSET Obj) /\ Len(compiler_roots) <= CompilerRootsMax
  /\ pins \in Seq(Obj) /\ Len(pins) <= TempRootsMax
  /\ running \in BOOLEAN
  /\ request \in Requests \cup {NoRequest}
  /\ phase \in {"interpreter", "calloc", "mark", "sweep"}
  /\ stage \in 0..LastStage
  /\ frames_left \subseteq Node
  /\ marked \subseteq Node
  /\ gray \subseteq marked
  /\ unswept \subseteq objects

(* Memory safety: whatever the program can still get at, through the       *)
(* stack, a frame, a global, a chunk being compiled, a pin or a captured   *)
(* variable, is allocated: gc_sweep never frees it, in no collection. With *)
(* BlocksCapture or OpenErrors the code breaks this: a captured variable   *)
(* whose slot was popped is no longer marked and can still be read.        *)
NoReachableFreed == InReach \subseteq objects

(* Precision: when gc_collect returns, the object list holds the reachable *)
(* objects and nothing else: no garbage survives a cycle by a stale mark.  *)
CollectionIsPrecise ==
  [][phase = "sweep" /\ phase' = "calloc" => objects' = InReach']_vars

(* String equality is pointer equality (value_equal): two strings on the   *)
(* object list never have the same text, however collections and lookups   *)
(* interleave, and the weak intern table never leads to a freed string.    *)
StringsCanonical ==
  /\ interned = {s \in objects : kind[s] = "STRING"}
  /\ \A s, t \in interned : text[s] = text[t] => s = t

(* gc.bytes_allocated is the sum of the alloc_size of the listed objects:  *)
(* the branch of gc_sweep that clamps it at 0 is never needed. The sum is  *)
(* the number of units of all objects, each told apart by its object.      *)
Units == UNION {{o} \X (1..Size[kind[o]]) : o \in objects}

BytesAccounted == bytes = Cardinality(Units)

MaxSize == CHOOSE n \in {Size[k] : k \in Kinds} : \A k \in Kinds : Size[k] <= n

(* The heap never outgrows the threshold by more than the allocation that  *)
(* crossed it: the next one collects.                                      *)
GrowthBounded == phase = "interpreter" => bytes <= next_gc + MaxSize

(* The refinement: while a sweep is going on, the heap is already what the *)
(* sweep will leave.                                                       *)
Live == IF phase = "sweep" THEN (objects \ unswept) \cup (unswept \cap marked) ELSE objects

Abstract == INSTANCE AbstractHeap WITH live <- Live, reach <- InReach

(* The collector and its clients implement the abstract heap.              *)
ImplementsAbstractHeap == Abstract!Spec

-------------------------------------------------------------------------------
(* The inductive invariant behind the safety properties.                   *)

(* The script's closure and function are where vm_execute put them; no     *)
(* object of the C heap refers to them, and without a VM they hold nothing. *)
(* Compilation is over when the VM starts.                                 *)
ScriptOK ==
  /\ kind[ScriptClosure] = "CLOSURE" /\ kind[ScriptFn] = "FUNCTION"
  /\ held[ScriptClosure] = {ScriptFn}
  /\ held[ScriptFn] \subseteq Obj
  /\ \A o \in Obj : held[o] \subseteq Obj
  /\ ~running => /\ stack = <<>> /\ frames = <<>>
                 /\ open_upvalues = {} /\ held[ScriptFn] = {}
  /\ running => Len(frames) >= 1 /\ frames[1].closure = ScriptClosure
  /\ compiler_roots # <<>> => ~running

(* The windows of called functions are stacked and begin on the stack, and *)
(* their closures are closure objects.                                     *)
FramesOK ==
  \A i \in 2..Len(frames) :
    /\ frames[i].closure \in Obj
    /\ kind[frames[i].closure] = "CLOSURE"
    /\ frames[i].slots <= Len(stack)
    /\ \A j \in 2..Len(frames) : i < j => frames[i].slots < frames[j].slots

(* The upvalues that are not closed are the VM's open upvalues, of slots   *)
(* in the windows of called functions.                                     *)
UpvaluesOK ==
  /\ \A uv \in open_upvalues :
       /\ kind[uv] = "UPVALUE" /\ loc[uv] \in 1..Len(stack)
       /\ Len(frames) > 1 /\ loc[uv] >= frames[2].slots
  /\ \A n \in Node : kind[n] = "UPVALUE" /\ loc[n] # Closed => n \in open_upvalues

(* What a gc_alloc call in progress counts on has not changed under it.    *)
RequestOK ==
  phase # "interpreter" =>
    /\ request \in Requests
    /\ request.dest \in {"array", "instance", "closure", "stack"} =>
         running /\ Len(stack) < StackMax
    /\ request.dest = "array" =>
         /\ request.count <= Len(stack)
         /\ Len(stack) - request.count + 1 >= LowestPop
         /\ \A i \in (Len(stack) - request.count + 1)..Len(stack) :
              Captured(i) => BlocksCapture
    /\ request.dest = "constant" => compiler_roots # <<>>
    /\ request.dest = "function" => Len(compiler_roots) > 1
    /\ request.dest = "upvalue" =>
         /\ running /\ request.slot \in 1..Len(stack)
         /\ Len(frames) > 1 /\ request.slot >= frames[2].slots
    /\ request.dest = "upvalue" <=> request.kind = "UPVALUE"
    /\ request.dest # "upvalue" => request.slot = Closed
    /\ request.kind = "STRING" => request.text \in Texts /\ InternFind(request.text) = {}

(* Nothing that exists, or that the program can start from, refers to an   *)
(* object that does not exist; what an allocation will link is reachable.  *)
GraphOK ==
  /\ Roots \subseteq Live \cup Script
  /\ \A n \in Live \cup Script : Points(n) \subseteq Live \cup Script
  /\ phase # "interpreter" => request.value \subseteq InReach

ScriptDone == running /\ stage >= FrameStage /\ ScriptClosure \notin frames_left

(* The marking invariant: what is marked and no longer gray refers only to *)
(* marked objects, the root sets started so far are marked, and only       *)
(* reachable objects are.                                                  *)
Marking ==
  /\ \A n \in marked \ gray : n \in Obj \/ ScriptDone => Traced(n) \subseteq marked
  /\ stage >= 1 => StackRoots \subseteq marked
  /\ stage >= 2 => FrameRoots \ frames_left \subseteq marked
  /\ stage >= 3 => open_upvalues \subseteq marked
  /\ stage >= 4 => GlobalRoots \subseteq marked
  /\ stage >= 5 => CompilerRoots \subseteq marked
  /\ stage >= 6 => PinRoots \subseteq marked
  /\ frames_left \subseteq FrameRoots
  /\ frames_left # {} => stage = FrameStage
  /\ marked \cap Obj \subseteq Reachable
  /\ gray \subseteq Reachable

MarksOK ==
  /\ phase \in {"interpreter", "calloc"} => marked \subseteq Script
  /\ phase # "mark" => gray = {} /\ frames_left = {}
  /\ phase # "sweep" => unswept = {}
  /\ phase = "mark" => Marking
  /\ phase = "sweep" => marked \cap Obj \subseteq unswept /\ Live = InReach

ThresholdOK == phase = "calloc" => bytes <= next_gc

HeapInv ==
  /\ ScriptOK /\ FramesOK /\ UpvaluesOK /\ RequestOK
  /\ GraphOK /\ MarksOK /\ StringsCanonical

(* A collection that has started comes to its end, and the interpreter     *)
(* gets control back.                                                      *)
CollectionEnds == (phase # "interpreter") ~> (phase = "interpreter")

(* What makes it end: each step of gc_mark_roots starts another root set,  *)
(* visits another frame or marks another object (or ends a recursion that  *)
(* met marked objects only), each step of gc_sweep has fewer objects left, *)
(* and gc_alloc does not go on before there are none.                      *)
CollectionAdvances ==
  [][/\ phase = "mark" =>
          \/ phase' = "sweep"
          \/ stage < stage' /\ stage' <= LastStage
          \/ stage' = stage /\ frames_left' \subseteq frames_left /\ frames_left' # frames_left
          \/ /\ UNCHANGED <<stage, frames_left>>
             /\ marked \subseteq marked'
             /\ marked' # marked \/ (gray # {} /\ gray' = {})
     /\ phase = "sweep" =>
          \/ phase' = "sweep" /\ unswept' \subseteq unswept /\ unswept' # unswept
          \/ phase' = "calloc" /\ unswept = {}]_vars
===============================================================================
