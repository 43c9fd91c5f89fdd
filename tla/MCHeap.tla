------------------------------- MODULE MCHeap ---------------------------------
(* Values and bounds for checking Heap with TLC.                             *)
EXTENDS Heap, TLC

(* One unit for a small object, two for a bigger one.                        *)
MCSize == [k \in Kinds |-> IF k \in {"MAP", "FUNCTION", "CLOSURE"} THEN 2 ELSE 1]

Symmetry == Permutations(Obj)

OneText   == \A o \in objects : text[o] \in {NoText, CHOOSE t \in Texts : TRUE}
NoMaps    == \A o \in objects : kind[o] # "MAP"
NoGlobals == \A x \in Names : globals[x] = {}

(* The states looked at when nothing is stressed: object graphs, with maps   *)
(* or while a nested function is compiled; globals, or a second text, on a   *)
(* stack of one; pins over an empty stack.                                   *)
GraphStringsOrPins ==
  \/ pins = <<>> /\ NoGlobals /\ OneText /\ (NoMaps \/ Len(compiler_roots) <= 1)
  \/ pins = <<>> /\ Len(stack) <= 1 /\ NoMaps /\ (OneText \/ NoGlobals)
  \/ stack = <<>> /\ NoMaps /\ OneText /\ NoGlobals

(* The states looked at in a stress build: an address is used again for the  *)
(* same kinds of object only. What is used again for another is looked at    *)
(* when nothing is stressed.                                                 *)
KindsAt == <<{"FUNCTION"}, {"CLOSURE"}, {"CLOSURE", "STRING"}, {"UPVALUE"}>>

Address == CHOOSE f \in [1..Len(KindsAt) -> Obj] : \A o \in Obj : \E i \in 1..Len(KindsAt) : f[i] = o

ByKind == \A i \in 1..Len(KindsAt) : Address[i] \in objects => kind[Address[i]] \in KindsAt[i]
===============================================================================
