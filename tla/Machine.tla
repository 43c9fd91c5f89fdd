-------------------------------- MODULE Machine --------------------------------
(* One evaluation: compiler.c makes a chunk of a tree, and vm.c runs it, an   *)
(* instruction of vm_run at a step.  The collector is left to module Heap:   *)
(* an object stays for good here.                                            *)
EXTENDS Compiler, Values, TLC

CONSTANTS
  Programs,       \* trees that the parser may return
  FramesMax,      \* FRAMES_MAX
  StackMax        \* VM_STACK_MAX

ASSUME MachineAssumption == {FramesMax, StackMax} \subseteq Nat \ {0}

VARIABLES
  tree,           \* what is evaluated
  script,         \* its chunk, as a function
  frames,         \* vm.frames[0 .. frame_count - 1]
  stack,          \* vm.stack, up to vm.stack_top
  globals,        \* the runtime's variables
  objects,        \* arrays, maps, closures, upvalues, types and instances
  result          \* Running, Value, Error or Crash

vars == <<tree, script, frames, stack, globals, objects, result>>

NotCompiled == [code |-> <<>>]
Running     == [status |-> "running"]
Finished(v) == [status |-> "value", value |-> v]
Failure(e)  == [status |-> "error", error |-> e]
Crash       == [status |-> "crash"]

(* A frame: the function it runs, as the places of constants that lead to    *)
(* it, its closure, the place of the next instruction, how many values lie   *)
(* below its window of the stack, whether it is an initializer, whether      *)
(* vm_call_value made it, and the meta-operator that it is in the middle of. *)
NoMeta == [kind |-> "none"]
Frame(fn, closure, base, init, nested) ==
  [fn |-> fn, closure |-> closure, ip |-> 1, base |-> base, init |-> init,
   nested |-> nested, meta |-> NoMeta]

(* register_builtins.                                                        *)
Builtins == [n \in DOMAIN Arities |-> <<"native", n>>]

Init ==
  /\ tree \in Programs
  /\ script = NotCompiled
  /\ frames = <<>> /\ stack = <<>> /\ objects = <<>>
  /\ globals = Builtins
  /\ result = Running

(* repl_eval_line: compile, then vm_execute.  A compiler that has written    *)
(* where it may not can do anything.                                         *)
Start ==
  /\ script = NotCompiled /\ result = Running
  /\ LET c == Compile(tree)
     IN  \/ c.wild /\ result' = Crash /\ UNCHANGED <<script, frames>>
         \/ c.err # "" /\ result' = Failure(c.err) /\ UNCHANGED <<script, frames>>
         \/ /\ c.err = ""
            /\ script' = c.fn
            /\ frames' = <<Frame(<<>>, 0, 0, FALSE, FALSE)>>
            /\ UNCHANGED result
  /\ UNCHANGED <<tree, stack, globals, objects>>

-----------------------------------------------------------------------------
(* What an instruction sees.                                                 *)

FunctionAt(path) == FoldLeft(LAMBDA f, i : f.constants[i][2], script, path)

Frm      == Last(frames)
Chunk    == FunctionAt(Frm.fn)
Ins      == Chunk.code[Frm.ip]
At(op)   == result = Running /\ frames # <<>> /\ Frm.meta = NoMeta /\ Ins[1] = op
Name     == Chunk.constants[Ins[2]][2]
Tos      == Last(stack)
Below(n) == SubSeq(stack, 1, Len(stack) - n)
TopOf(n) == SubSeq(stack, Len(stack) - n + 1, Len(stack))
Slot(i)  == Frm.base + i + 1

(* vm_runtime_error.                                                         *)
Stop(objs, err) ==
  /\ result' = Failure(err) /\ stack' = <<>> /\ objects' = objs
  /\ UNCHANGED <<tree, script, frames, globals>>

(* The instruction leaves that stack, and the frame at that instruction.     *)
GoTo(objs, st, ip) ==
  IF Len(st) > StackMax THEN Stop(objs, "stack overflow")
  ELSE /\ stack' = st /\ objects' = objs
       /\ frames' = [frames EXCEPT ![Len(frames)].ip = ip]
       /\ UNCHANGED <<tree, script, globals, result>>

Next1(objs, st) == GoTo(objs, st, Frm.ip + 1)
Leave(st)       == Next1(objects, st)

(* What an operation on values yields goes on the stack.                     *)
Yield(st, r) == IF r.err # "" THEN Stop(r.objs, r.err) ELSE Next1(r.objs, Append(st, r.v))

-----------------------------------------------------------------------------
(* Values and variables.                                                     *)

OpConstant == At("CONSTANT") /\ Leave(Append(stack, Chunk.constants[Ins[2]]))

OpLiteral ==
  \/ At("TRUE")    /\ Leave(Append(stack, Boolean(TRUE)))
  \/ At("FALSE")   /\ Leave(Append(stack, Boolean(FALSE)))
  \/ At("NOTHING") /\ Leave(Append(stack, Nothing))

OpInfix  == At("INFIX") /\ Yield(Below(2), Infix(objects, Ins[2], TopOf(2)[1], Tos))
OpNegate == At("NEGATE") /\ Yield(Below(1), Negated(objects, Tos))
OpNot    == At("NOT") /\ Yield(Below(1), Inverted(objects, Tos))

OpDefineGlobal ==
  /\ At("DEFINE_GLOBAL")
  /\ globals' = (Name :> Tos) @@ globals
  /\ frames' = [frames EXCEPT ![Len(frames)].ip = @ + 1]
  /\ UNCHANGED <<tree, script, stack, objects, result>>

OpGetGlobal ==
  /\ At("GET_GLOBAL")
  /\ IF Name \in DOMAIN globals THEN Leave(Append(stack, globals[Name]))
     ELSE Stop(objects, "unknown variable")

OpSetGlobal ==
  /\ At("SET_GLOBAL")
  /\ IF Name \in DOMAIN globals
     THEN /\ globals' = [globals EXCEPT ![Name] = Tos]
          /\ frames' = [frames EXCEPT ![Len(frames)].ip = @ + 1]
          /\ UNCHANGED <<tree, script, stack, objects, result>>
     ELSE Stop(objects, "undefined variable")

OpGetLocal == At("GET_LOCAL") /\ Leave(Append(stack, stack[Slot(Ins[2])]))
OpSetLocal == At("SET_LOCAL") /\ Leave([stack EXCEPT ![Slot(Ins[2])] = Tos])

(* An upvalue is open while slot is the place of its variable on the stack;  *)
(* then the slot is 0, and the value its own.                                *)
Upvalue(i) == objects[objects[Frm.closure].upvalues[i + 1]]

OpGetUpvalue ==
  /\ At("GET_UPVALUE")
  /\ LET u == Upvalue(Ins[2])
     IN  Leave(Append(stack, IF u.slot > 0 THEN stack[u.slot] ELSE u.value))

OpSetUpvalue ==
  /\ At("SET_UPVALUE")
  /\ LET u == Upvalue(Ins[2])
     IN  IF u.slot > 0 THEN Leave([stack EXCEPT ![u.slot] = Tos])
         ELSE Next1([objects EXCEPT ![objects[Frm.closure].upvalues[Ins[2] + 1]].value = Tos], stack)

OpPop  == At("POP")  /\ Leave(Below(1))
OpDup  == At("DUP")  /\ Leave(Append(stack, Tos))
OpSwap == At("SWAP") /\ Leave(Below(2) \o Reverse(TopOf(2)))

-----------------------------------------------------------------------------
(* Jumps.                                                                    *)

OpJump == (At("JUMP") \/ At("LOOP")) /\ GoTo(objects, stack, Ins[2])

OpJumpIf ==
  /\ At("JUMP_IF_FALSE") \/ At("JUMP_IF_TRUE")
  /\ GoTo(objects, stack,
          IF Truthy(objects, Tos) = (Ins[1] = "JUMP_IF_TRUE") THEN Ins[2] ELSE Frm.ip + 1)

-----------------------------------------------------------------------------
(* Containers.                                                               *)

OpArray == At("ARRAY") /\ Yield(Below(Ins[2]), NewArray(objects, TopOf(Ins[2])))

OpMap ==
  /\ At("MAP")
  /\ LET pairs == TopOf(2 * Ins[2])
     IN  Yield(Below(2 * Ins[2]), Map(objects, [i \in 1..Ins[2] |-> pairs[2 * i - 1]],
                                               [i \in 1..Ins[2] |-> pairs[2 * i]]))

OpIndexGet == At("INDEX_GET") /\ Yield(Below(2), Element(objects, TopOf(2)[1], Tos))

(* The value stays, below the container.                                     *)
OpIndexSet ==
  /\ At("INDEX_SET")
  /\ Yield(Below(2), SetElement(objects, TopOf(2)[1], Tos, TopOf(3)[1]))

OpZipMap == At("ZIP_MAP") /\ Yield(Below(2), ZipMap(objects, TopOf(2)[1], Tos))

OpReduce    == At("REDUCE")    /\ Yield(Below(1), Reduce(objects, Ins[2], Tos))
OpVectorize == At("VECTORIZE") /\ Yield(Below(2), Vectorize(objects, Ins[2], TopOf(2)[1], Tos))

-----------------------------------------------------------------------------
(* Functions.                                                                *)

(* capture_upvalue for one variable of the closure being made: the open      *)
(* upvalue of the slot, or a new one; acc: the objects and the upvalues so   *)
(* far.                                                                      *)
Capture(acc, desc) ==
  LET slot == Slot(desc.index)
      open == {o \in DOMAIN acc.objs : acc.objs[o].kind = "upvalue" /\ acc.objs[o].slot = slot}
  IN  IF ~desc.isLocal
      THEN [acc EXCEPT !.upvalues = Append(@, objects[Frm.closure].upvalues[desc.index + 1])]
      ELSE IF open # {} THEN [acc EXCEPT !.upvalues = Append(@, CHOOSE o \in open : TRUE)]
      ELSE [objs |-> Append(acc.objs, [kind |-> "upvalue", slot |-> slot, value |-> Nothing]),
            upvalues |-> Append(acc.upvalues, Len(acc.objs) + 1)]

OpClosure ==
  /\ At("CLOSURE")
  /\ LET got == FoldLeft(Capture, [objs |-> objects, upvalues |-> <<>>], Ins[3])
         fn  == Chunk.constants[Ins[2]][2]
     IN  Yield(stack, New(got.objs, [kind |-> "closure", name |-> fn.name, arity |-> fn.arity,
                                     fn |-> Append(Frm.fn, Ins[2]), upvalues |-> got.upvalues]))

OpObjectType ==
  /\ At("OBJECT_TYPE")
  /\ LET pairs  == TopOf(2 * Ins[3])
         mixins == SubSeq(TopOf(2 * Ins[3] + Ins[4]), 1, Ins[4])
     IN  Yield(Below(2 * Ins[3] + Ins[4]),
               ObjectType(objects, Name, mixins,
                          [i \in 1..Ins[3] |-> <<pairs[2 * i - 1], pairs[2 * i]>>]))

\* Mutant: the last frame is taken as free once more.
FullTooLate == Len(frames) > FramesMax

Full == Len(frames) >= FramesMax

(* A frame for the closure c over the top argc + 1 values of st.             *)
Enter(c, objs, st, argc, init, nested) ==
  IF Full \/ Len(st) > StackMax THEN Stop(objs, "stack overflow")
  ELSE /\ frames' = Append(IF nested THEN frames ELSE [frames EXCEPT ![Len(frames)].ip = @ + 1],
                           Frame(objs[c[2]].fn, c[2], Len(st) - argc - 1, init, nested))
       /\ stack' = st /\ objects' = objs
       /\ UNCHANGED <<tree, script, globals, result>>

OpCall ==
  /\ At("CALL")
  /\ LET argc   == Ins[2]
         callee == TopOf(argc + 1)[1]
     IN  CASE Is(callee, "native") ->
                IF Arities[callee[2]] # argc THEN Stop(objects, "wrong number of arguments")
                ELSE Yield(Below(argc + 1), Native(objects, callee[2], TopOf(argc)))
           [] Is(callee, "closure") ->
                IF objects[callee[2]].arity # argc THEN Stop(objects, "wrong number of arguments")
                ELSE Enter(callee, objects, stack, argc, FALSE, FALSE)
           [] OTHER -> Stop(objects, "cannot call")

OpMake ==
  /\ At("MAKE")
  /\ LET argc == Ins[2]
         type == TopOf(argc + 1)[1]
         made == NewInstance(objects, type)
         init == Get(objects, Entries(objects, type), String("init"))
     IN  IF ~Is(type, "object_type") THEN Stop(objects, "can only make object types")
         ELSE IF init = Nothing
         THEN IF argc > 0 THEN Stop(made.objs, "no init() method") ELSE Yield(Below(1), made)
         ELSE IF objects[init[2]].arity # argc + 1 THEN Stop(made.objs, "wrong number of arguments")
         ELSE Enter(init, made.objs, Below(argc + 1) \o <<init, made.v>> \o TopOf(argc),
                    argc + 1, TRUE, FALSE)

-----------------------------------------------------------------------------
(* Meta-operators with a function: it lies on top of the stack while         *)
(* vm_call_value runs it for one pair of values after the other.             *)

Begin(st, meta) ==
  /\ stack' = st
  /\ frames' = [frames EXCEPT ![Len(frames)].meta = meta]
  /\ UNCHANGED <<tree, script, globals, objects, result>>

OpReduceCall ==
  /\ At("REDUCE_CALL")
  /\ IF ~Is(Tos, "array") THEN Stop(objects, "@ requires an array")
     ELSE IF Items(objects, Tos) = <<>> THEN Stop(objects, "cannot reduce empty")
     ELSE Begin(Below(1), [kind |-> "reduce", array |-> Tos, next |-> 2,
                           acc |-> Items(objects, Tos)[1]])

OpVectorizeCall ==
  /\ At("VECTORIZE_CALL")
  /\ LET l == TopOf(2)[1]
         n == Len(Items(objects, IF Is(l, "array") THEN l ELSE Tos))
     IN  IF ~Is(l, "array") /\ ~Is(Tos, "array") THEN Stop(objects, "@ requires at least one array")
         ELSE IF Is(l, "array") /\ Is(Tos, "array") /\ Len(Items(objects, Tos)) # n
         THEN Stop(objects, "array length mismatch")
         ELSE Begin(Below(2), [kind |-> "vectorize", left |-> l, right |-> Tos, next |-> 1,
                               count |-> n, done |-> <<>>])

(* The fold reads the array's count each time, the vectorized call read it   *)
(* when it began.                                                            *)
MetaCount(m) == IF m.kind = "reduce" THEN Len(Items(objects, m.array)) ELSE m.count

ItemOf(v, i) == IF Is(v, "array") THEN Items(objects, v)[i] ELSE v

MetaArgs(m) ==
  IF m.kind = "reduce" THEN <<m.acc, ItemOf(m.array, m.next)>>
  ELSE <<ItemOf(m.left, m.next), ItemOf(m.right, m.next)>>

\* Mutant: a vectorized call stays at the pair it is at.
CollectedInPlace(m, v) ==
  IF m.kind = "reduce" THEN [m EXCEPT !.acc = v, !.next = @ + 1]
  ELSE [m EXCEPT !.done = Append(SubSeq(@, 1, m.next - 1), v)]

Collected(m, v) ==
  IF m.kind = "reduce" THEN [m EXCEPT !.acc = v, !.next = @ + 1]
  ELSE [m EXCEPT !.done = Append(@, v), !.next = @ + 1]

InMeta == result = Running /\ frames # <<>> /\ Frm.meta # NoMeta

(* vm_call_value.                                                            *)
MetaCall ==
  /\ InMeta /\ Frm.meta.next <= MetaCount(Frm.meta)
  /\ LET args == MetaArgs(Frm.meta)
         r    == Native(objects, Tos[2], args)
     IN  CASE Is(Tos, "native") ->
                IF Arities[Tos[2]] # 2 THEN Stop(objects, "wrong number of arguments")
                ELSE IF r.err # "" THEN Stop(r.objs, r.err)
                ELSE /\ objects' = r.objs
                     /\ frames' = [frames EXCEPT ![Len(frames)].meta = Collected(@, r.v)]
                     /\ UNCHANGED <<tree, script, stack, globals, result>>
           [] Is(Tos, "closure") ->
                IF objects[Tos[2]].arity # 2 THEN Stop(objects, "wrong number of arguments")
                ELSE Enter(Tos, objects, stack \o <<Tos>> \o args, 2, FALSE, TRUE)
           [] OTHER -> Stop(objects, "cannot call")

MetaEnd ==
  /\ InMeta /\ Frm.meta.next > MetaCount(Frm.meta)
  /\ LET r == IF Frm.meta.kind = "reduce" THEN Yields(objects, Frm.meta.acc)
              ELSE NewArray(objects, Frm.meta.done)
     IN  /\ stack' = Append(Below(1), r.v) /\ objects' = r.objs
         /\ frames' = [frames EXCEPT ![Len(frames)].meta = NoMeta, ![Len(frames)].ip = @ + 1]
         /\ UNCHANGED <<tree, script, globals, result>>

-----------------------------------------------------------------------------
(* Returns.                                                                  *)

(* close_upvalues.                                                           *)
Closed(objs, base) ==
  [o \in DOMAIN objs |->
     IF objs[o].kind = "upvalue" /\ objs[o].slot > base
     THEN [objs[o] EXCEPT !.slot = 0, !.value = stack[objs[o].slot]] ELSE objs[o]]

(* What the frame returns: an initializer, what is in the slot of self.      *)
Returned == IF Frm.init THEN stack[Slot(1)] ELSE IF Len(stack) > Frm.base THEN Tos ELSE Nothing

OpReturn ==
  /\ At("RETURN")
  /\ LET callers == Front(frames)
         window  == SubSeq(stack, 1, Frm.base)
     IN  IF callers = <<>>
         THEN /\ result' = Finished(Returned) /\ stack' = <<>>
              /\ UNCHANGED <<tree, script, frames, globals, objects>>
         ELSE /\ objects' = Closed(objects, Frm.base)
              /\ stack' = IF Frm.nested THEN window ELSE Append(window, Returned)
              /\ frames' = IF Frm.nested
                           THEN [callers EXCEPT ![Len(callers)].meta = Collected(@, Returned)]
                           ELSE callers
              /\ UNCHANGED <<tree, script, globals, result>>

Next ==
  \/ Start \/ OpConstant \/ OpLiteral \/ OpInfix \/ OpNegate \/ OpNot
  \/ OpDefineGlobal \/ OpGetGlobal \/ OpSetGlobal \/ OpGetLocal \/ OpSetLocal
  \/ OpGetUpvalue \/ OpSetUpvalue \/ OpPop \/ OpDup \/ OpSwap \/ OpJump \/ OpJumpIf
  \/ OpArray \/ OpMap \/ OpIndexGet \/ OpIndexSet \/ OpZipMap \/ OpReduce \/ OpVectorize
  \/ OpClosure \/ OpObjectType \/ OpCall \/ OpMake
  \/ OpReduceCall \/ OpVectorizeCall \/ MetaCall \/ MetaEnd \/ OpReturn

(* WF_vars(Next): a step is enabled just while there is no result.           *)
Fairness == []<>(result # Running) \/ []<><<Next>>_vars

Spec     == Init /\ [][Next]_vars
FairSpec == Spec /\ Fairness
===============================================================================
