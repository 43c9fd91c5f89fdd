------------------------------- MODULE Upvalues --------------------------------
(***************************************************************************)
(* Captured variables in the virtual machine: the value stack with its     *)
(* call frames, the upvalues of closures and the VM's list of open ones,   *)
(* under the bytecode that compiler.c emits for functions and blocks.      *)
(*                                                                         *)
(* A local variable is a stack slot the compiler has counted; "var" is an  *)
(* auxiliary component that says which variable of the program a slot      *)
(* holds, so that an access can be compared with the variable it is meant  *)
(* for.  Objects are never freed here: what the collector may free is the  *)
(* subject of Heap.                                                        *)
(***************************************************************************)
EXTENDS Integers, Sequences

CONSTANTS
  Number,         \* the values that are not closures
  NoValue,        \* the value of a variable that does not exist
  VarMax,         \* bound: the declarations a run executes
  ClosureMax,     \* bound: the closures a run creates
  UpvalueMax,     \* bound: the upvalues a run creates
  CapturesMax,    \* bound: UPVALUES_MAX
  StackMax,       \* bound: VM_STACK_MAX
  FramesMax,      \* bound: FRAMES_MAX
  BlocksCapture,  \* whether programs leave a block with a captured local
  OpenErrors      \* whether programs fail while an upvalue is open

Var == 1..VarMax
Closure == 1..ClosureMax
Upvalue == 1..UpvalueMax
Value == Number \cup Closure
Script == 0       \* vm_execute's script_closure, which captures nothing
Temp == 0         \* not a variable: an operand, a result, a callee
Closed == 0       \* location == &closed

ASSUME ValueAssumption == Number \cap Closure = {} /\ NoValue \notin Value
ASSUME BoundAssumption ==
  /\ {VarMax, ClosureMax, UpvalueMax, CapturesMax} \subseteq Nat
  /\ {StackMax, FramesMax} \subseteq Nat \ {0}
  /\ {BlocksCapture, OpenErrors} \subseteq BOOLEAN

VARIABLES
  stack,      \* vm->stack up to stack_top: the value of each slot and its variable
  frames,     \* vm->frames: closure, slots and the heights at which blocks began
  open,       \* vm->open_upvalues, from the head of the list
  loc,        \* ObjUpvalue.location: a stack slot or Closed
  closed,     \* ObjUpvalue.closed
  captured,   \* the variable an upvalue was made for (auxiliary)
  upvalues,   \* ObjClosure.upvalues
  to_fill,    \* the descriptors OP_CLOSURE has still to read
  global,     \* the value of a global variable
  nvars,      \* the declarations executed so far (auxiliary)
  nclosures,  \* the closures created so far
  nupvalues,  \* the upvalues created so far
  access      \* the last access to a variable (auxiliary)

heap == <<loc, closed, captured, upvalues, nclosures, nupvalues>>
vars == <<stack, frames, open, heap, to_fill, global, nvars, access>>

NoAccess == [op |-> "none"]
Access(o, v, x) == [op |-> o, var |-> v, val |-> x]

Top(s) == s[Len(s)]
First(s, n) == SubSeq(s, 1, n)
Push(x) == Append(stack, [val |-> x, var |-> Temp])
Frame == Top(frames)
Running == frames # <<>> /\ to_fill = 0

\* Mutant: vm_push does not look at the limit.
HasRoomAlways == Running

HasRoom == Running /\ Len(stack) < StackMax

(* The first slot of the frame above its callee.                           *)
Bottom == Frame.slots + (IF Frame.closure = Script THEN 0 ELSE 1)

(* The slots of the frame's local variables.                               *)
Locals == {i \in Frame.slots..Len(stack) : stack[i].var # Temp}

(* The upvalues of the closure that is running.                            *)
FrameUpvalues ==
  IF frames = <<>> \/ Frame.closure = Script THEN {}
  ELSE {upvalues[Frame.closure][j] : j \in 1..Len(upvalues[Frame.closure])}

Init ==
  /\ stack = <<>> /\ frames = <<>> /\ open = <<>>
  /\ loc = [u \in Upvalue |-> Closed]
  /\ closed = [u \in Upvalue |-> NoValue]
  /\ captured = [u \in Upvalue |-> Temp]
  /\ upvalues = [c \in Closure |-> <<>>]
  /\ to_fill = 0
  /\ global \in Number
  /\ nvars = 0 /\ nclosures = 0 /\ nupvalues = 0
  /\ access = NoAccess

-------------------------------------------------------------------------------
(* Scripts                                                                 *)

(* vm_execute: frame 0 begins at the bottom of an empty stack, and the     *)
(* list of open upvalues is empty.                                         *)
BeginScript ==
  /\ frames = <<>>
  /\ frames' = <<[closure |-> Script, slots |-> 1, blocks |-> <<>>]>>
  /\ open' = <<>>
  /\ access' = NoAccess
  /\ UNCHANGED <<stack, heap, to_fill, global, nvars>>

(* vm_free_stack at the end of a script: OP_RETURN from the last frame, or *)
(* vm_runtime_error in any. The open upvalues keep their locations.        *)
EndScript ==
  /\ Running
  /\ Len(frames) > 1 /\ open # <<>> => OpenErrors
  /\ frames' = <<>>
  /\ stack' = <<>>
  /\ access' = NoAccess
  /\ UNCHANGED <<open, heap, to_fill, global, nvars>>

-------------------------------------------------------------------------------
(* Operands and local variables                                            *)

(* OP_CONSTANT and OP_GET_GLOBAL                                           *)
PushValue(x) ==
  /\ HasRoom
  /\ stack' = Push(x)
  /\ access' = NoAccess
  /\ UNCHANGED <<frames, open, heap, to_fill, global, nvars>>

(* OP_SET_GLOBAL                                                           *)
SetGlobal ==
  /\ Running /\ stack # <<>>
  /\ global' = Top(stack).val
  /\ access' = NoAccess
  /\ UNCHANGED <<stack, frames, open, heap, to_fill, nvars>>

(* OP_POP of an operand                                                    *)
Pop ==
  /\ Running
  /\ Len(stack) >= Bottom
  /\ Top(stack).var = Temp
  /\ stack' = First(stack, Len(stack) - 1)
  /\ access' = NoAccess
  /\ UNCHANGED <<frames, open, heap, to_fill, global, nvars>>

(* compile_decl in a function: the value on top of the stack becomes a     *)
(* local and OP_GET_LOCAL pushes it again. No operand may lie between the  *)
(* locals and the value, the compiler takes the next slot for it.          *)
Declare ==
  LET x == Top(stack).val IN
  /\ HasRoom /\ Frame.closure # Script
  /\ Len(stack) > Frame.slots
  /\ Locals = Frame.slots + 1 .. Len(stack) - 1
  /\ nvars < VarMax
  /\ nvars' = nvars + 1
  /\ stack' = First(stack, Len(stack) - 1)
                \o <<[val |-> x, var |-> nvars'], [val |-> x, var |-> Temp]>>
  /\ access' = Access("read", nvars', x)
  /\ UNCHANGED <<frames, open, heap, to_fill, global>>

(* OP_GET_LOCAL                                                            *)
GetLocal(i) ==
  /\ HasRoom /\ i \in Locals
  /\ stack' = Push(stack[i].val)
  /\ access' = Access("read", stack[i].var, stack[i].val)
  /\ UNCHANGED <<frames, open, heap, to_fill, global, nvars>>

(* OP_SET_LOCAL                                                            *)
SetLocal(i) ==
  LET x == Top(stack).val IN
  /\ Running /\ stack # <<>> /\ i \in Locals
  /\ stack' = [stack EXCEPT ![i].val = x]
  /\ access' = Access("write", stack[i].var, x)
  /\ UNCHANGED <<frames, open, heap, to_fill, global, nvars>>

-------------------------------------------------------------------------------
(* Upvalues                                                                *)

(* What location points to: above the top of the stack there are leftovers. *)
Located(u) ==
  CASE loc[u] = Closed -> {closed[u]}
    [] loc[u] \in 1..Len(stack) -> {stack[loc[u]].val}
    [] OTHER -> Value

(* OP_GET_UPVALUE                                                          *)
GetUpvalue(u) ==
  /\ HasRoom
  /\ \E x \in Located(u) :
       /\ stack' = Push(x)
       /\ access' = Access("read", captured[u], x)
  /\ UNCHANGED <<frames, open, heap, to_fill, global, nvars>>

(* OP_SET_UPVALUE                                                          *)
SetUpvalue(u) ==
  LET x == Top(stack).val IN
  /\ Running /\ stack # <<>>
  /\ IF loc[u] = Closed
     THEN closed' = [closed EXCEPT ![u] = x] /\ UNCHANGED stack
     ELSE /\ stack' = [i \in 1..Len(stack) |->
                         IF i = loc[u] THEN [stack[i] EXCEPT !.val = x] ELSE stack[i]]
          /\ UNCHANGED closed
  /\ access' = Access("write", captured[u], x)
  /\ UNCHANGED <<frames, open, loc, captured, upvalues, nclosures, nupvalues,
                 to_fill, global, nvars>>

(* OP_CLOSURE: the closure is on the stack before its upvalues are filled  *)
(* in, one for each of the descriptors that follow.                        *)
NewClosure(descriptors) ==
  /\ HasRoom
  /\ descriptors > 0 => Locals # {} \/ FrameUpvalues # {}
  /\ nclosures < ClosureMax /\ nupvalues + descriptors <= UpvalueMax
  /\ nclosures' = nclosures + 1
  /\ stack' = Push(nclosures')
  /\ to_fill' = descriptors
  /\ access' = NoAccess
  /\ UNCHANGED <<frames, open, loc, captured, closed, upvalues, nupvalues, global, nvars>>

\* Mutant: the search stops at the first upvalue that is not above the slot,
\* without looking whether it is the slot's own.
FoundIgnored(i) == {}

(* capture_upvalue: how many upvalues of the list are above slot i, and    *)
(* the upvalue it finds there if it is the one of the slot.                *)
AboveCount(i) ==
  CHOOSE n \in 0..Len(open) :
    /\ \A j \in 1..n : loc[open[j]] > i
    /\ n < Len(open) => loc[open[n + 1]] <= i

Found(i) ==
  {u \in Upvalue :
     LET n == AboveCount(i) IN n < Len(open) /\ u = open[n + 1] /\ loc[u] = i}

\* Mutant: a new upvalue goes to the head of the list.
InsertAtHead(u, n) == <<u>> \o open

Insert(u, n) == First(open, n) \o <<u>> \o SubSeq(open, n + 1, Len(open))

FillWith(u) ==
  /\ upvalues' = [upvalues EXCEPT ![nclosures] = Append(@, u)]
  /\ to_fill' = to_fill - 1
  /\ access' = NoAccess
  /\ UNCHANGED <<stack, frames, global, nvars, nclosures>>

(* OP_CLOSURE, a descriptor with is_local: the upvalue of the slot is      *)
(* shared or made.                                                         *)
CaptureLocal(i) ==
  /\ to_fill > 0
  /\ i \in Locals
  /\ IF Found(i) # {}
     THEN /\ \E u \in Found(i) : FillWith(u)
          /\ UNCHANGED <<open, loc, closed, captured, nupvalues>>
     ELSE /\ nupvalues' = nupvalues + 1
          /\ loc' = [loc EXCEPT ![nupvalues'] = i]
          /\ captured' = [captured EXCEPT ![nupvalues'] = stack[i].var]
          /\ open' = Insert(nupvalues', AboveCount(i))
          /\ FillWith(nupvalues')
          /\ UNCHANGED closed

(* OP_CLOSURE, a descriptor without: the frame's own upvalue is passed on. *)
CaptureUpvalue(u) ==
  /\ to_fill > 0
  /\ FillWith(u)
  /\ UNCHANGED <<open, loc, closed, captured, nupvalues>>

-------------------------------------------------------------------------------
(* Calls and blocks                                                        *)

(* OP_CALL of a closure: the arguments above it become the parameters.     *)
Call(argc) ==
  LET base == Len(stack) - argc
  IN
  /\ Running /\ Len(frames) < FramesMax
  /\ base >= Bottom
  /\ stack[base].val \in Closure
  /\ \A i \in base..Len(stack) : stack[i].var = Temp
  /\ nvars + argc <= VarMax
  /\ nvars' = nvars + argc
  /\ stack' = [i \in 1..Len(stack) |->
                 IF i > base THEN [stack[i] EXCEPT !.var = nvars + i - base] ELSE stack[i]]
  /\ frames' = Append(frames, [closure |-> stack[base].val, slots |-> base, blocks |-> <<>>])
  /\ access' = NoAccess
  /\ UNCHANGED <<open, heap, to_fill, global>>

\* Mutant: OP_RETURN closes the upvalues of the callee slot only.
ClosesCalleeOnly(last) == {u \in Upvalue : loc[u] = last}

(* close_upvalues takes upvalues off the head of the list for as long as   *)
(* they point at or above a slot.                                          *)
ClosedBy(last) == {open[n] : n \in 1..AboveCount(last - 1)}

Close(closing, last) ==
  /\ loc' = [u \in Upvalue |-> IF u \in closing THEN Closed ELSE loc[u]]
  /\ open' = SubSeq(open, AboveCount(last - 1) + 1, Len(open))

\* Mutant: the value is not copied.
CloseWithoutCopy(last) == Close(ClosedBy(last), last) /\ UNCHANGED closed

CloseUpvalues(last) ==
  LET closing == ClosedBy(last) IN
  /\ closed' = [u \in Upvalue |-> IF u \in closing THEN stack[loc[u]].val ELSE closed[u]]
  /\ Close(closing, last)

(* OP_RETURN from a function: its upvalues are closed, then its window is  *)
(* replaced by its result.                                                 *)
Return ==
  /\ Running /\ Len(frames) > 1
  /\ Len(stack) > Frame.slots /\ Top(stack).var = Temp
  /\ CloseUpvalues(Frame.slots)
  /\ stack' = Append(First(stack, Frame.slots - 1), Top(stack))
  /\ frames' = First(frames, Len(frames) - 1)
  /\ access' = NoAccess
  /\ UNCHANGED <<captured, upvalues, nclosures, nupvalues, to_fill, global, nvars>>

(* begin_scope, for the body of an if or a while in a function. As for     *)
(* declarations, no operands lie above the locals.                         *)
BeginBlock ==
  /\ Running /\ Frame.closure # Script /\ Frame.blocks = <<>>
  /\ Locals = Frame.slots + 1 .. Len(stack)
  /\ frames' = [frames EXCEPT ![Len(frames)].blocks = Append(@, Len(stack))]
  /\ access' = NoAccess
  /\ UNCHANGED <<stack, open, heap, to_fill, global, nvars>>

(* end_scope: OP_SET_LOCAL puts the result of the block in the slot of its *)
(* first local, OP_POP takes the locals off one by one.                    *)
EndBlock ==
  LET first == Top(Frame.blocks) + 1 IN
  /\ Running /\ Frame.blocks # <<>>
  /\ Len(stack) >= first /\ Top(stack).var = Temp
  /\ \A i \in first..Len(stack) - 1 : stack[i].var # Temp
  /\ (\E u \in Upvalue : loc[u] >= first) => BlocksCapture
  /\ stack' = Append(First(stack, first - 1), Top(stack))
  /\ frames' = [frames EXCEPT ![Len(frames)].blocks = First(@, Len(@) - 1)]
  /\ access' = NoAccess
  /\ UNCHANGED <<open, heap, to_fill, global, nvars>>

-------------------------------------------------------------------------------
Next ==
  \/ BeginScript \/ EndScript
  \/ \E x \in Number \cup {global} : PushValue(x)
  \/ SetGlobal \/ Pop \/ Declare
  \/ \E i \in 1..Len(stack) : GetLocal(i) \/ SetLocal(i) \/ CaptureLocal(i)
  \/ \E u \in FrameUpvalues : GetUpvalue(u) \/ SetUpvalue(u) \/ CaptureUpvalue(u)
  \/ \E n \in 0..CapturesMax : NewClosure(n)
  \/ \E n \in 0..Len(stack) - 1 : Call(n)
  \/ Return \/ BeginBlock \/ EndBlock

Spec == Init /\ [][Next]_vars

-------------------------------------------------------------------------------
Slot == [val : Value, var : Var \cup {Temp}]

TypeOK ==
  /\ stack \in Seq(Slot) /\ Len(stack) <= StackMax
  /\ frames \in Seq([closure : Closure \cup {Script}, slots : 1..StackMax,
                     blocks : Seq(1..StackMax)])
  /\ Len(frames) <= FramesMax
  /\ open \in Seq(Upvalue)
  /\ loc \in [Upvalue -> 0..StackMax]
  /\ closed \in [Upvalue -> Value \cup {NoValue}]
  /\ captured \in [Upvalue -> Var \cup {Temp}]
  /\ upvalues \in [Closure -> Seq(Upvalue)]
  /\ to_fill \in 0..CapturesMax
  /\ global \in Value
  /\ nvars \in 0..VarMax /\ nclosures \in 0..ClosureMax /\ nupvalues \in 0..UpvalueMax

(* The closures the program can still call: those in the global variable,  *)
(* on the stack, in a frame or in a captured variable.                     *)
Usable ==
  {c \in Closure :
     \/ c = global
     \/ \E i \in 1..Len(stack) : stack[i].val = c
     \/ \E i \in 1..Len(frames) : frames[i].closure = c
     \/ \E u \in Upvalue : closed[u] = c}

(* An open upvalue of a closure points to the stack slot of the variable   *)
(* it was made for (value.h: "When open, location points to the variable's *)
(* stack slot"), whatever has been called, returned from or left since.    *)
UpvaluesFollowVariables ==
  \A c \in Usable : \A j \in 1..Len(upvalues[c]) :
    LET u == upvalues[c][j] IN
    \/ loc[u] = Closed
    \/ loc[u] <= Len(stack) /\ stack[loc[u]].var = captured[u]

(* A variable has one upvalue, so that every closure that captures it      *)
(* sees the others' assignments (capture_upvalue, "reuse it").             *)
OneUpvaluePerVariable ==
  \A u, w \in 1..nupvalues : captured[u] = captured[w] => u = w

(* The open list holds exactly the upvalues that point into the stack, in  *)
(* the descending order that close_upvalues and capture_upvalue count on.  *)
OpenListSorted ==
  /\ \A i, j \in 1..Len(open) : i < j => loc[open[i]] > loc[open[j]]
  /\ frames # <<>> => {open[i] : i \in 1..Len(open)} = {u \in Upvalue : loc[u] # Closed}

(* The refinement: a variable's value is in its stack slot or, once that   *)
(* is gone, in the closed upvalue made for it.                             *)
ValueOf(v) ==
  LET slots == {i \in 1..Len(stack) : stack[i].var = v}
      ups == {u \in 1..nupvalues : captured[u] = v /\ loc[u] = Closed}
  IN CASE slots # {} -> stack[CHOOSE i \in slots : TRUE].val
       [] slots = {} /\ ups # {} -> closed[CHOOSE u \in ups : TRUE]
       [] OTHER -> NoValue

Env(c) == {captured[upvalues[c][j]] : j \in 1..Len(upvalues[c])}

Values == [v \in Var |-> ValueOf(v)]
Envs == [c \in Closure |-> Env(c)]

Abstract == INSTANCE Variables WITH value <- Values, env <- Envs

(* Closures access the variables the program means: stack slots, upvalues  *)
(* and their closing implement variables with a life of their own.         *)
ImplementsVariables == Abstract!Spec

(* The states looked at: two variables, upvalues and closures in two frames,  *)
(* or one variable in three, passed on through three closures, outside of    *)
(* blocks and with the variable captured before the third closure is made.   *)
SharedOrNested ==
  \/ Len(frames) <= 2 /\ nclosures <= 2
  \/ /\ nvars <= 1 /\ nupvalues <= 1
     /\ \A c \in 1..nclosures : Len(upvalues[c]) <= 1
     /\ nclosures = 3 => nupvalues = 1
     /\ \A i \in DOMAIN frames : frames[i].blocks = <<>>
===============================================================================
