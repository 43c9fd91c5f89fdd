------------------------------ MODULE Evaluation ------------------------------
(* What the compiler and the machine together promise of a program.          *)
EXTENDS Machine

Outcome ==
  CASE result.status = "value" -> Seen("value", result.value, objects, globals)
    [] result.status = "error" -> Seen("error", result.error, objects, globals)
    [] OTHER                   -> [how |-> IF result = Running THEN "unknown" ELSE "crash"]

M == INSTANCE Meaning WITH outcome <- Outcome

(* The machine implements the meaning of the tree: the value or the error of *)
(* an evaluation and the variables it leaves are those the tree means, or    *)
(* the program is refused for its size.                                      *)
ImplementsMeaning == M!Spec

(* Every program here ends, and so does its evaluation: no jump of its       *)
(* chunks goes round for ever.                                               *)
Finishes == <>(result # Running)

-----------------------------------------------------------------------------
(* What an instruction takes from the stack and leaves there.                *)
Takes(ins) ==
  CASE ins[1] \in {"POP", "NEGATE", "NOT", "RETURN", "REDUCE", "DUP", "DEFINE_GLOBAL", "SET_GLOBAL",
                   "SET_LOCAL", "SET_UPVALUE", "JUMP_IF_FALSE", "JUMP_IF_TRUE"} -> 1
    [] ins[1] \in {"INFIX", "SWAP", "INDEX_GET", "ZIP_MAP", "VECTORIZE", "REDUCE_CALL"} -> 2
    [] ins[1] \in {"INDEX_SET", "VECTORIZE_CALL"} -> 3
    [] ins[1] = "ARRAY"            -> ins[2]
    [] ins[1] = "MAP"              -> 2 * ins[2]
    [] ins[1] \in {"CALL", "MAKE"} -> ins[2] + 1
    [] ins[1] = "OBJECT_TYPE"      -> 2 * ins[3] + ins[4]
    [] OTHER                       -> 0

Leaves(ins) ==
  CASE ins[1] \in {"POP", "RETURN", "JUMP", "LOOP"} -> 0
    [] ins[1] \in {"DUP", "SWAP", "INDEX_SET"}      -> 2
    [] OTHER                                        -> 1

(* A path leads to an instruction with the stack at height h.                *)
Flow(acc, to, h) ==
  IF to \notin DOMAIN acc.at THEN [acc EXCEPT !.ok = FALSE]
  ELSE IF acc.at[to] = -1 THEN [acc EXCEPT !.at[to] = h]
  ELSE [acc EXCEPT !.ok = @ /\ acc.at[to] = h]

VerifyOne(code, floor, acc, i) ==
  LET ins  == code[i]
      h    == acc.at[i]
      left == h - Takes(ins) + Leaves(ins)
      safe == /\ h - Takes(ins) >= floor
              /\ ins[1] \in {"GET_LOCAL", "SET_LOCAL"} => ins[2] < h
              /\ ins[1] = "CLOSURE" => \A k \in DOMAIN ins[3] : ins[3][k].isLocal => ins[3][k].index < h
      here == [acc EXCEPT !.ok = @ /\ safe]
      next == IF ins[1] \in {"JUMP", "LOOP", "RETURN"} THEN here ELSE Flow(here, i + 1, left)
  IN  IF h = -1 THEN acc
      ELSE IF ins[1] \in {"JUMP", "LOOP", "JUMP_IF_FALSE", "JUMP_IF_TRUE"}
      THEN Flow(next, ins[2], left) ELSE next

(* A stretch of code, its first half before its second.                      *)
RECURSIVE VerifyStretch(_, _, _, _, _)
VerifyStretch(code, floor, acc, from, to) ==
  IF ~acc.ok THEN acc
  ELSE IF from = to THEN VerifyOne(code, floor, acc, from)
  ELSE LET mid == (from + to) \div 2
       IN  VerifyStretch(code, floor, VerifyStretch(code, floor, acc, from, mid), mid + 1, to)

(* The heights of the stack at each instruction of a function, -1 where no   *)
(* path leads; ok while every path agrees, nothing below the arguments is    *)
(* taken, and every local is in the window.                                  *)
Verify(fn, isScript) ==
  LET floor  == IF isScript THEN 0 ELSE fn.arity + 1
      bottom == [i \in DOMAIN fn.code |-> IF i > 1 THEN -1 ELSE floor]
  IN  VerifyStretch(fn.code, floor, [ok |-> TRUE, at |-> bottom], 1, Len(fn.code)).ok

RECURSIVE AllFunctions(_)
AllFunctions(fn) ==
  {fn} \cup UNION {AllFunctions(fn.constants[i][2]) :
                     i \in {k \in DOMAIN fn.constants : fn.constants[k][1] = "function"}}

(* In the code of a program, every path to an instruction finds the stack    *)
(* equally high, whatever loops were left and branches taken, and no         *)
(* instruction reaches below its window or reads a local above the top.      *)
CodeIsBalanced ==
  (script # NotCompiled /\ frames = <<Frame(<<>>, 0, 0, FALSE, FALSE)>> /\ M!Settled(tree)) =>
    \A fn \in AllFunctions(script) : Verify(fn, fn = script)

-----------------------------------------------------------------------------
(* The windows of the frames lie in order on the stack, every frame is at an  *)
(* instruction of its function, and every reference has its object.          *)
Refers(v) ==
  v[1] \in {"array", "map", "closure", "object_type", "instance"} =>
    v[2] \in DOMAIN objects /\ objects[v[2]].kind = v[1]

TypeOK ==
  /\ Len(frames) <= FramesMax
  /\ \A i \in DOMAIN frames :
       /\ frames[i].ip \in DOMAIN FunctionAt(frames[i].fn).code
       /\ i > 1 => frames[i - 1].base <= frames[i].base
  /\ result = Running /\ frames # <<>> => Frm.base <= Len(stack)
  /\ \A i \in DOMAIN stack : Refers(stack[i])
  /\ \A x \in DOMAIN globals : Refers(globals[x])
===============================================================================
