--------------------------------- MODULE Pins ----------------------------------
(***************************************************************************)
(* The temporary roots of gc.c under the opcode handlers of vm.c.  A       *)
(* handler pops its operands into C locals, pins them, allocates, and      *)
(* unpins before it pushes its result.  A handler that calls a function    *)
(* for every element (OP_REDUCE_CALL, OP_VECTORIZE_CALL) stays in          *)
(* progress while the function runs other handlers: vm_call_value enters   *)
(* vm_run again, on the same pin stack.                                    *)
(*                                                                         *)
(* An object is named by the handler in progress that holds it and by the  *)
(* part it plays there.  Every allocation may collect, and a collection    *)
(* frees what a C local holds and nothing pins.                            *)
(***************************************************************************)
EXTENDS Integers, Sequences, FiniteSetsExt, Functions

CONSTANTS
  Handlers,      \* bound: the opcodes the programs use
  Kinds,         \* bound: the kinds of operand they are used with
  MethodsMax,    \* bound: the methods of an object type
  CallsMax,      \* bound: the handlers in progress at a time
  TempRootsMax   \* GC_TEMP_ROOTS_MAX

OneOperand == {"OP_REDUCE", "OP_REDUCE_CALL", "OP_CALL"}
TwoOperands == {"OP_CONCAT", "OP_VECTORIZE", "OP_VECTORIZE_CALL", "OP_ZIP_MAP", "OP_INDEX_GET"}
OnStack == {"OP_ARRAY", "OP_MAP", "OP_MAKE"}
Callers == {"OP_REDUCE_CALL", "OP_VECTORIZE_CALL"}

ASSUME BoundAssumption ==
  /\ Handlers \subseteq OneOperand \cup TwoOperands \cup OnStack \cup {"OP_OBJECT_TYPE"}
  /\ Kinds \subseteq {"scalar", "array", "map", "instance"}
  /\ {MethodsMax, CallsMax, TempRootsMax} \subseteq Nat

VARIABLES
  pins,     \* temp_root_stack up to temp_root_count
  calls,    \* the handlers in progress, innermost last
  failing,  \* whether a runtime error is on its way out of them
  lost      \* whether a collection has freed an object a handler still uses

vars == <<pins, calls, failing, lost>>

(* The parts an object plays in a handler: operand 1, 2, ..., or           *)
Result == 0          \* result_arr, result_map, arr, inst ...
MethodsOf == -1      \* the methods map of OP_MAKE's object type
Accumulator == -2    \* acc of OP_REDUCE

Init == pins = <<>> /\ calls = <<>> /\ failing = FALSE /\ lost = FALSE

Depth == Len(calls)
Current == calls[Depth]

(* gc_pin_value: the pins a value takes. A method is its name and closure, *)
(* an instance its data map and its type's methods map.                    *)
PinsOf(k) ==
  CASE k = "scalar" -> 0
    [] k \in {"array", "map"} -> 1
    [] k \in {"instance", "method"} -> 2

(* Those of several values together: each value's first and second.        *)
PinCount(args) == Cardinality({p \in (DOMAIN args) \X {1, 2} : p[2] <= PinsOf(args[p[1]])})

\* Mutant: only the first operand is pinned.
FirstOperandPins(d, args) ==
  IF args = <<>> THEN <<>> ELSE [j \in 1..PinsOf(args[1]) |-> <<d, 1>>]

(* The pins of the operands of the handler at depth d, in order.           *)
OperandPins(d, args) ==
  [j \in 1..PinCount(args) |->
     <<d, CHOOSE i \in DOMAIN args :
            /\ PinCount(SubSeq(args, 1, i - 1)) < j
            /\ PinCount(SubSeq(args, 1, i)) >= j>>]

(* gc_pin of each: a pin that finds the stack full is dropped.             *)
PinAll(objs) ==
  LET all == pins \o objs IN SubSeq(all, 1, Min({Len(all), TempRootsMax}))

(* gc_unpin, n times: with nothing pinned it does nothing.                 *)
UnpinMany(n) == SubSeq(pins, 1, Max({0, Len(pins) - n}))

(* What the handler at depth d holds in C locals alone.                    *)
HeldBy(d) ==
  {<<d, i>> : i \in {i \in DOMAIN calls[d].args : calls[d].args[i] # "scalar"}}
    \cup {<<d, part>> : part \in calls[d].made}

(* A gc_alloc that collects.                                               *)
MayCollect ==
  lost' = (lost \/ ~((UNION {HeldBy(d) : d \in 1..Depth}) \subseteq Range(pins)))

-------------------------------------------------------------------------------
(* A handler                                                               *)

Arguments(op) ==
  CASE op \in OneOperand -> {<<k>> : k \in Kinds}
    [] op \in TwoOperands -> Kinds \X Kinds
    [] op \in OnStack -> {<<>>}
    [] op = "OP_OBJECT_TYPE" -> {[i \in 1..n |-> "method"] : n \in 1..MethodsMax}

(* The operands are popped and pinned.                                     *)
Begin(op) ==
  /\ ~failing /\ Depth < CallsMax
  /\ calls # <<>> => Current.op \in Callers /\ Current.looping
  /\ \E args \in Arguments(op) :
       /\ calls' = Append(calls, [op |-> op, args |-> args, made |-> {},
                                  looping |-> FALSE, base |-> Len(pins)])
       /\ pins' = PinAll(OperandPins(Depth + 1, args))
  /\ UNCHANGED <<failing, lost>>

HasContainer(args) == {"array", "map"} \cap Range(args) # {}

(* The operands pass the handler's checks.                                 *)
Accepts(c) ==
  CASE c.op \in {"OP_CONCAT"} -> c.args \in {<<"array", "array">>, <<"map", "map">>}
    [] c.op \in {"OP_ZIP_MAP", "OP_REDUCE_CALL"} -> Range(c.args) = {"array"}
    [] c.op = "OP_REDUCE" -> HasContainer(c.args)
    [] c.op = "OP_VECTORIZE" -> HasContainer(c.args) /\ ~({"array", "map"} \subseteq Range(c.args))
    [] c.op = "OP_VECTORIZE_CALL" -> "array" \in Range(c.args)
    [] c.op = "OP_INDEX_GET" -> c.args \in {<<"array", "array">>, <<"map", "array">>}
    [] OTHER -> TRUE

(* The handlers that pin the object they make.                             *)
ResultPins(c) ==
  CASE c.op \in {"OP_CONCAT", "OP_VECTORIZE", "OP_VECTORIZE_CALL", "OP_ARRAY", "OP_MAP",
                 "OP_OBJECT_TYPE"} -> <<<<Depth, Result>>>>
    [] c.op = "OP_MAKE" -> <<<<Depth, Result>>, <<Depth, MethodsOf>>>>
    [] OTHER -> <<>>

(* The object for the result is allocated, and pinned if more allocations  *)
(* may come. The folds have none; a map is folded over an array of its     *)
(* values, which takes its place and its pin.                              *)
MakeResult ==
  /\ calls # <<>> /\ ~failing
  /\ ~Current.looping /\ Accepts(Current)
  /\ Current.op \notin {"OP_REDUCE", "OP_REDUCE_CALL"}
  /\ MayCollect
  /\ pins' = PinAll(ResultPins(Current))
  /\ calls' = [calls EXCEPT ![Depth].looping = TRUE, ![Depth].made = {Result}]
  /\ UNCHANGED failing

StartFold ==
  /\ calls # <<>> /\ ~failing
  /\ ~Current.looping /\ Accepts(Current)
  /\ Current.op \in {"OP_REDUCE", "OP_REDUCE_CALL"}
  /\ calls' = [calls EXCEPT ![Depth].looping = TRUE]
  /\ IF "map" \in Range(Current.args) THEN MayCollect ELSE UNCHANGED lost
  /\ UNCHANGED <<pins, failing>>

(* reduce_apply_op for OP_CONCAT makes a new object of two elements. The   *)
(* fold goes on with it as its accumulator, the vectorized operation has   *)
(* put it into its result. OP_MAKE looks the name "init" up.               *)
Element ==
  /\ calls # <<>> /\ ~failing
  /\ Current.looping
  /\ Current.op \in {"OP_REDUCE", "OP_VECTORIZE", "OP_MAKE"}
  /\ MayCollect
  /\ calls' = IF Current.op = "OP_REDUCE"
              THEN [calls EXCEPT ![Depth].made = {Accumulator}] ELSE calls
  /\ UNCHANGED <<pins, failing>>

(* The handlers that count: gc_pin_value returns how many pins it asked    *)
(* for, dropped ones included, and OP_OBJECT_TYPE adds its methods map.    *)
Counted(c) ==
  PinCount(c.args) + IF c.op = "OP_OBJECT_TYPE" /\ c.made # {} THEN 1 ELSE 0

Counting == {"OP_CALL", "OP_INDEX_GET", "OP_OBJECT_TYPE"}

\* Mutant: OP_VECTORIZE_CALL forgets the pin of its result.
TwoUnpins(c) == IF c.op \in Counting THEN Counted(c) ELSE 2

(* The unpins at the end of a handler that succeeds ...                    *)
SuccessUnpins(c) ==
  CASE c.op \in Counting -> Counted(c)
    [] c.op \in {"OP_CONCAT", "OP_VECTORIZE", "OP_VECTORIZE_CALL"} -> 3
    [] c.op \in {"OP_ZIP_MAP", "OP_MAKE"} -> 2
    [] c.op \in {"OP_REDUCE", "OP_REDUCE_CALL", "OP_ARRAY", "OP_MAP"} -> 1

(* ... and on the way out of one that fails.                               *)
FailureUnpins(c) ==
  CASE c.op \in Counting -> Counted(c)
    [] c.op = "OP_VECTORIZE" -> IF c.looping /\ "map" \in Range(c.args) THEN 3 ELSE 2
    [] c.op = "OP_VECTORIZE_CALL" -> IF c.looping THEN 3 ELSE 2
    [] c.op \in {"OP_CONCAT", "OP_ZIP_MAP", "OP_MAKE"} -> 2
    [] c.op \in {"OP_REDUCE", "OP_REDUCE_CALL", "OP_MAP"} -> 1

Finish ==
  /\ calls # <<>> /\ ~failing
  /\ Current.looping
  /\ pins' = UnpinMany(SuccessUnpins(Current))
  /\ calls' = SubSeq(calls, 1, Depth - 1)
  /\ UNCHANGED <<failing, lost>>

(* Operands that are not accepted, or are empty or of lengths that do not  *)
(* fit, an element or a key that is not accepted, or the error that a      *)
(* function called for an element returned.                                *)
CanFail(c) ==
  \/ ~c.looping /\ ~Accepts(c)
  \/ ~c.looping /\ c.op \in (OneOperand \cup TwoOperands) \ {"OP_CALL", "OP_CONCAT"}
  \/ c.looping /\ c.op \notin {"OP_CONCAT", "OP_ARRAY", "OP_INDEX_GET"}

Fail ==
  /\ calls # <<>>
  /\ CanFail(Current)
  /\ pins' = UnpinMany(FailureUnpins(Current))
  /\ calls' = SubSeq(calls, 1, Depth - 1)
  /\ failing' = (Depth > 1)
  /\ UNCHANGED lost

-------------------------------------------------------------------------------
Next ==
  \/ \E op \in Handlers : Begin(op)
  \/ MakeResult \/ StartFold \/ Element \/ Finish \/ Fail

Spec == Init /\ [][Next]_vars

(* No collection frees an object that an opcode handler has popped off the *)
(* stack, or has just made, and goes on to use: it is pinned, however the  *)
(* handlers nest.                                                          *)
NothingLost == ~lost

(* gc_pin and gc_unpin are paired (gc.h): a handler that ends, by success  *)
(* or by error, leaves the pin stack as it found it.                       *)
PinsPaired == [][Depth' < Depth => Len(pins') = Current.base]_vars
===============================================================================
