------------------------------- MODULE Compiler --------------------------------
(* compiler.c: a tree of the parser into chunks.  The operators take the      *)
(* stack of compilers, the script's first and that of the function being     *)
(* compiled last, and return it changed.  An instruction is a tuple of its   *)
(* opcode and operands; a jump holds the place it goes to, and its offset    *)
(* always fits.  NUMBER nodes hold their number.                             *)
EXTENDS Integers, SequencesExt, Folds

CONSTANTS ConstantsMax, LocalsMax, UpvaluesMax

ASSUME CompilerAssumption == {ConstantsMax, LocalsMax, UpvaluesMax} \subseteq Nat \ {0}

Byte(n) == n % 256

(* chunk, locals, upvalues and loops of one function; wild: the compiler has *)
(* written where the chunk's code is not.                                    *)
NewCompiler(context, locals) ==
  [code |-> <<>>, constants |-> <<>>, context |-> context, locals |-> locals,
   depth |-> IF context = "SCRIPT" THEN 0 ELSE 1, upvalues |-> <<>>, loops |-> <<>>,
   err |-> "", wild |-> FALSE]

Top(cs)       == Last(cs)
InFunction(cs) == Top(cs).context = "FUNCTION"
Failed(cs)    == Top(cs).err # ""

With(cs, c)   == Append(Front(cs), c)
Error(cs, e)  == IF Failed(cs) THEN cs ELSE With(cs, [Top(cs) EXCEPT !.err = e])
Emit(cs, ins) == IF Failed(cs) THEN cs ELSE With(cs, [Top(cs) EXCEPT !.code = Append(@, ins)])

RECURSIVE EmitTimes(_, _, _)
EmitTimes(cs, ins, n) == IF n = 0 THEN cs ELSE EmitTimes(Emit(cs, ins), ins, n - 1)

-----------------------------------------------------------------------------
(* Constants.                                                                *)

(* chunk_find_or_add_constant.                                               *)
SameConstant(a, b) == a[1] \in {"string", "number"} /\ a = b
ConstantAt(c, v) ==
  LET same == {i \in DOMAIN c.constants : SameConstant(c.constants[i], v)}
  IN  IF same # {} THEN CHOOSE i \in same : TRUE ELSE Len(c.constants) + 1

(* Adds the constant v and emits what Of makes of its index.                 *)
WithConstant(cs, v, Of(_)) ==
  LET c == Top(cs)
      i == ConstantAt(c, v)
  IN  IF i > ConstantsMax THEN Error(cs, "too many constants")
      ELSE Emit(With(cs, [c EXCEPT !.constants = IF i > Len(@) THEN Append(@, v) ELSE @]), Of(i))

Constant(cs, v)  == WithConstant(cs, v, LAMBDA i : <<"CONSTANT", i>>)
Global(cs, op, name) == WithConstant(cs, <<"string", name>>, LAMBDA i : <<op, i>>)

-----------------------------------------------------------------------------
(* Jumps.                                                                    *)

Size(ins) ==
  CASE ins[1] \in {"JUMP", "JUMP_IF_FALSE", "JUMP_IF_TRUE", "LOOP"} -> 3
    [] ins[1] = "OBJECT_TYPE" -> 4
    [] ins[1] = "CLOSURE"     -> 2 + 2 * Len(ins[3])
    [] ins[1] = "INFIX"       -> 1
    [] OTHER                  -> Len(ins)
Bytes(code) == FoldLeft(LAMBDA n, ins : n + Size(ins), 0, code)

(* Where emit_jump leaves the offset: in the instruction it emitted, or,     *)
(* behind an error, two bytes before the end of the code: 0 when that is not *)
(* in the code.                                                              *)
JumpAt(cs) == IF Failed(cs) /\ Bytes(Top(cs).code) < 2 THEN 0 ELSE Len(Top(cs).code)

Patch(cs, at) ==
  LET c == Top(cs)
  IN  IF at = 0 THEN With(cs, [c EXCEPT !.wild = TRUE])
      ELSE IF Failed(cs) THEN cs
      ELSE With(cs, [c EXCEPT !.code[at][2] = Len(c.code) + 1])

-----------------------------------------------------------------------------
(* Scopes and variables.  A slot is counted from 0, the callee's.            *)

Local(name, depth) == [name |-> name, depth |-> depth]

(* How many locals at the end satisfy P.                                     *)
Departing(c, P(_)) ==
  Len(c.locals) - Max({0} \cup {i \in DOMAIN c.locals : ~P(c.locals[i])})

BeginScope(cs) ==
  IF InFunction(cs) THEN With(cs, [Top(cs) EXCEPT !.depth = @ + 1]) ELSE cs

(* The result goes to the first departing slot, then they are popped.        *)
PopLocals(cs, n) ==
  IF n = 0 THEN cs
  ELSE EmitTimes(Emit(cs, <<"SET_LOCAL", Len(Top(cs).locals) - n>>), <<"POP">>, n)

EndScope(cs) ==
  LET n == Departing(Top(cs), LAMBDA l : l.depth = Top(cs).depth)
      popped == PopLocals(cs, n)
  IN  IF ~InFunction(cs) THEN cs
      ELSE With(popped, [Top(popped) EXCEPT !.locals = SubSeq(@, 1, Len(@) - n), !.depth = @ - 1])

\* Mutant: the outermost local of that name is found.
ResolveOutermost(c, name) ==
  LET found == {i \in DOMAIN c.locals : c.locals[i].name = name}
  IN  IF found = {} THEN -1 ELSE Min(found) - 1

(* The slot of the innermost local of that name, -1 if there is none.        *)
ResolveLocal(c, name) ==
  Max({0} \cup {i \in DOMAIN c.locals : c.locals[i].name = name}) - 1

(* The upvalue of the k-th compiler for one of the function around it.       *)
AddUpvalue(cs, k, isLocal, index) ==
  LET desc  == [isLocal |-> isLocal, index |-> index]
      same  == {i \in DOMAIN cs[k].upvalues : cs[k].upvalues[i] = desc}
      count == Len(cs[k].upvalues)
  IN  IF same # {} THEN [cs |-> cs, index |-> (CHOOSE i \in same : TRUE) - 1]
      ELSE IF count >= UpvaluesMax
           THEN [cs |-> [cs EXCEPT ![k].err = IF @ = "" THEN "too many upvalues" ELSE @], index |-> -1]
      ELSE [cs |-> [cs EXCEPT ![k].upvalues = Append(@, desc)], index |-> count]

RECURSIVE ResolveUpvalue(_, _, _)
ResolveUpvalue(cs, k, name) ==
  IF k = 1 THEN [cs |-> cs, index |-> -1]
  ELSE LET slot  == ResolveLocal(cs[k - 1], name)
           outer == ResolveUpvalue(cs, k - 1, name)
       IN  IF slot >= 0 THEN AddUpvalue(cs, k, TRUE, slot)
           ELSE IF outer.index >= 0 THEN AddUpvalue(outer.cs, k, FALSE, outer.index)
           ELSE outer

(* Reads or writes a variable: a local, else an upvalue, else a global.      *)
Access(cs, name, ops) ==
  LET slot == ResolveLocal(Top(cs), name)
      up   == ResolveUpvalue(cs, Len(cs), name)
  IN  IF InFunction(cs) /\ slot >= 0 THEN Emit(cs, <<ops[1], slot>>)
      ELSE IF InFunction(cs) /\ up.index >= 0 THEN Emit(up.cs, <<ops[2], up.index>>)
      ELSE Global(up.cs, ops[3], name)

Read(cs, name)  == Access(cs, name, <<"GET_LOCAL", "GET_UPVALUE", "GET_GLOBAL">>)
Write(cs, name) == Access(cs, name, <<"SET_LOCAL", "SET_UPVALUE", "SET_GLOBAL">>)

(* Gives the value on the stack a name: the local of the next slot, or a     *)
(* global.                                                                   *)
Bind(cs, name) ==
  LET c    == Top(cs)
      slot == Len(c.locals)
  IN  IF ~InFunction(cs) THEN Global(cs, "DEFINE_GLOBAL", name)
      ELSE IF slot >= LocalsMax THEN Error(cs, "too many local variables")
      ELSE Emit(With(cs, [c EXCEPT !.locals = Append(@, Local(name, c.depth))]), <<"GET_LOCAL", slot>>)

-----------------------------------------------------------------------------
(* Nodes.                                                                    *)

RECURSIVE Node(_, _), Nodes(_, _), Block(_, _), Closure(_, _)

Ungrouped(n) == IF n[1] = "GROUP" THEN n[2] ELSE n

Nodes(cs, ns) == IF Failed(cs) \/ ns = <<>> THEN cs ELSE Nodes(Node(cs, Head(ns)), Tail(ns))

Infixes == {"+", "-", "*", "/", "%", "**", "++", "==", "!=", "<", ">", "<=", ">=", "in"}
MetaOps == (Infixes \ {"in"}) \cup {"and", "or"}

(* and, or: the right operand replaces the left unless that decides.         *)
ShortCircuit(cs, n, jump) ==
  LET left  == Emit(Node(cs, n[3]), <<jump, 0>>)
      right == Node(Emit(left, <<"POP">>), n[4])
  IN  Patch(right, JumpAt(left))

Binop(cs, n) ==
  CASE n[2] = "and" -> ShortCircuit(cs, n, "JUMP_IF_FALSE")
    [] n[2] = "or"  -> ShortCircuit(cs, n, "JUMP_IF_TRUE")
    [] n[2] \in Infixes -> Emit(Nodes(cs, <<n[3], n[4]>>), <<"INFIX", n[2]>>)
    [] OTHER -> Error(Nodes(cs, <<n[3], n[4]>>), "unknown operator")

(* Every value but the last is popped.                                       *)
Block(cs, ns) ==
  CASE Failed(cs)  -> cs
    [] ns = <<>>   -> Emit(cs, <<"NOTHING">>)
    [] Len(ns) = 1 -> Node(cs, Head(ns))
    [] OTHER       -> Block(Emit(Node(cs, Head(ns)), <<"POP">>), Tail(ns))

Scoped(cs, n) == EndScope(Node(BeginScope(cs), n))

(* The branch without a condition, behind the one with it; then ends in the  *)
(* jump past it.                                                             *)
Else(cond, then, ns) ==
  LET else == Emit(Patch(then, JumpAt(cond)), <<"POP">>)
  IN  Patch(IF Len(ns) = 3 THEN Scoped(else, ns[3]) ELSE Emit(else, <<"NOTHING">>), JumpAt(then))

ThenElse(cond, ns) ==
  Else(cond, Emit(Scoped(Emit(cond, <<"POP">>), ns[2]), <<"JUMP", 0>>), ns)

If(cs, ns) == ThenElse(Emit(Node(cs, ns[1]), <<"JUMP_IF_FALSE", 0>>), ns)

(* The end of a loop, where its breaks go.                                   *)
PatchBreaks(cs) == FoldLeft(LAMBDA acc, at : Patch(acc, at), cs, Last(Top(cs).loops).breaks)
LeaveLoop(cs)   == With(cs, [Top(cs) EXCEPT !.loops = Front(@)])

(* The body of a loop, from the jump behind its condition, and the way back. *)
LoopBody(test, first, body) ==
  LET back == Emit(Scoped(EmitTimes(test, <<"POP">>, 2), body), <<"LOOP", first>>)
  IN  LeaveLoop(PatchBreaks(Emit(Patch(back, JumpAt(test)), <<"POP">>)))

While(cs, cond, body) ==
  LET start == Emit(cs, <<"NOTHING">>)
      first == Len(Top(start).code) + 1
      loop  == [start |-> first, breaks |-> <<>>, depth |-> Top(cs).depth]
      entry == With(start, [Top(start) EXCEPT !.loops = Append(@, loop)])
  IN  LoopBody(Emit(Node(entry, cond), <<"JUMP_IF_FALSE", 0>>), first, body)

\* Mutant: break leaves the locals of the loop's body where they are.
NoLocalsOfLoop(c) == 0

(* The locals of the innermost loop's body.                                  *)
LocalsOfLoop(c) ==
  IF c.context = "SCRIPT" THEN 0 ELSE Departing(c, LAMBDA l : l.depth > Last(c.loops).depth)

(* The value of break and return.                                            *)
Value(cs, ns) == IF ns = <<>> THEN Emit(cs, <<"NOTHING">>) ELSE Node(cs, ns[1])

Break(cs, ns) ==
  LET value == Value(cs, ns)
      jump  == Emit(PopLocals(value, LocalsOfLoop(Top(value))), <<"JUMP", 0>>)
      loops == Top(jump).loops
  IN  IF Top(cs).loops = <<>> THEN Error(cs, "'break' outside of loop")
      ELSE With(jump, [Top(jump) EXCEPT !.loops[Len(loops)].breaks = Append(@, JumpAt(jump))])

Continue(cs) ==
  IF Top(cs).loops = <<>> THEN Error(cs, "'continue' outside of loop")
  ELSE Emit(Emit(EmitTimes(cs, <<"POP">>, LocalsOfLoop(Top(cs))), <<"NOTHING">>),
            <<"LOOP", Last(Top(cs).loops).start>>)

Return(cs, ns) ==
  IF ~InFunction(cs) THEN Error(cs, "'return' outside of function")
  ELSE Emit(Value(cs, ns), <<"RETURN">>)

(* The function that the innermost compiler has made, for n, becomes a       *)
(* constant of the one around it.                                            *)
EndFunction(cs, n) ==
  LET c     == Top(cs)
      fn    == [name |-> n[2], arity |-> Len(n[3]), upvalues |-> Len(c.upvalues),
                code |-> Append(c.code, <<"RETURN">>), constants |-> c.constants]
      outer == With(Front(cs), [Top(Front(cs)) EXCEPT !.wild = @ \/ c.wild])
  IN  IF c.err # "" THEN Error(outer, c.err)
      ELSE WithConstant(outer, <<"function", fn>>, LAMBDA i : <<"CLOSURE", i, c.upvalues>>)

(* compile_function_closure: n is <<"FUNCTION", name, params, body>>.        *)
Closure(cs, n) ==
  LET locals == [i \in 1..(Len(n[3]) + 1) |-> Local(IF i = 1 THEN "" ELSE n[3][i - 1], 1)]
  IN  IF Len(locals) > LocalsMax THEN Error(cs, "too many local variables")
      ELSE EndFunction(Node(Append(cs, NewCompiler("FUNCTION", locals)), n[4]), n)

(* The value just compiled gets its name, if it has one.                     *)
Named(cs, name) == IF Failed(cs) \/ name = "" THEN cs ELSE Bind(cs, name)

MixinReads(cs, names) == FoldLeft(LAMBDA acc, m : Read(acc, m), cs, names)
MethodClosures(cs, ms) ==
  FoldLeft(LAMBDA acc, m : IF Failed(acc) THEN acc
                           ELSE Closure(Constant(acc, <<"string", m[2]>>), m), cs, ms)

(* n is <<"OBJECT_DEF", name, mixins, methods>>.                             *)
ObjectDef(cs, n) ==
  LET name  == <<"string", IF n[2] = "" THEN "<anonymous object>" ELSE n[2]>>
      c     == Top(cs)
      at    == ConstantAt(c, name)
      named == With(cs, [c EXCEPT !.constants = IF at > Len(@) THEN Append(@, name) ELSE @])
  IN  IF at > ConstantsMax THEN Error(cs, "too many constants")
      ELSE Named(Emit(MethodClosures(MixinReads(named, n[3]), n[4]),
                      <<"OBJECT_TYPE", at, Byte(Len(n[4])), Byte(Len(n[3]))>>), n[2])

Reduction(cs, op, operand) ==
  CASE op = ":"        -> Error(cs, "':' cannot be used as a reduction operator")
    [] op \in MetaOps  -> Emit(Node(cs, operand), <<"REDUCE", op>>)
    [] OTHER           -> Emit(Node(Read(cs, op), operand), <<"REDUCE_CALL">>)

Vectorized(cs, op, operands) ==
  CASE op = ":"        -> Emit(Nodes(cs, operands), <<"ZIP_MAP">>)
    [] op \in MetaOps  -> Emit(Nodes(cs, operands), <<"VECTORIZE", op>>)
    [] OTHER           -> Emit(Nodes(Read(cs, op), operands), <<"VECTORIZE_CALL">>)

(* The method is looked up in a copy of the receiver, and goes below it.     *)
MethodCall(cs, n) ==
  LET method == Emit(Constant(Emit(Node(cs, n[2]), <<"DUP">>), <<"string", n[3]>>), <<"INDEX_GET">>)
  IN  Emit(Nodes(Emit(method, <<"SWAP">>), n[4]), <<"CALL", Byte(Len(n[4]) + 1)>>)

(* The value stays below; the container changed goes back to its variable.   *)
IndexAssign(cs, n) ==
  LET set    == Emit(Nodes(cs, <<n[4], n[2], n[3]>>), <<"INDEX_SET">>)
      target == Ungrouped(n[2])
  IN  Emit(IF target[1] = "IDENT" THEN Write(set, target[2]) ELSE set, <<"POP">>)

Call(cs, n) ==
  IF Len(n[3]) > 255 THEN Error(cs, "too many arguments")
  ELSE Emit(Nodes(Read(cs, n[2]), n[3]), <<"CALL", Len(n[3])>>)

(* compile_node.                                                             *)
Node(cs, n) ==
  IF Failed(cs) THEN cs
  ELSE CASE n[1] = "GROUP"        -> Node(cs, n[2])
         [] n[1] = "NUMBER"       -> Constant(cs, <<"number", n[2]>>)
         [] n[1] = "STRING"       -> Constant(cs, <<"string", n[2]>>)
         [] n[1] = "BOOL"         -> Emit(cs, <<IF n[2] = "true" THEN "TRUE" ELSE "FALSE">>)
         [] n[1] = "NOTHING"      -> Emit(cs, <<"NOTHING">>)
         [] n[1] = "IDENT"        -> Read(cs, n[2])
         [] n[1] = "BINOP"        -> Binop(cs, n)
         [] n[1] = "UNARY"        -> Emit(Node(cs, n[3]), <<IF n[2] = "-" THEN "NEGATE" ELSE "NOT">>)
         [] n[1] = "DECL"         -> Named(Node(cs, n[3]), n[2])
         [] n[1] = "ASSIGN"       -> Write(Node(cs, n[3]), n[2])
         [] n[1] = "BLOCK"        -> Block(cs, n[2])
         [] n[1] = "CALL"         -> Call(cs, n)
         [] n[1] = "IF"           -> If(cs, n[2])
         [] n[1] = "WHILE"        -> While(cs, n[2], n[3])
         [] n[1] = "BREAK"        -> Break(cs, n[2])
         [] n[1] = "CONTINUE"     -> Continue(cs)
         [] n[1] = "RETURN"       -> Return(cs, n[2])
         [] n[1] = "FUNCTION"     -> Named(Closure(cs, n), n[2])
         [] n[1] = "ARRAY"        -> IF Len(n[2]) > 255 THEN Error(cs, "too many elements")
                                     ELSE Emit(Nodes(cs, n[2]), <<"ARRAY", Len(n[2])>>)
         [] n[1] = "MAP"          -> IF Len(n[2]) > 510 THEN Error(cs, "too many pairs")
                                     ELSE Emit(Nodes(cs, n[2]), <<"MAP", Len(n[2]) \div 2>>)
         [] n[1] = "INDEX"        -> Emit(Nodes(cs, <<n[2], n[3]>>), <<"INDEX_GET">>)
         [] n[1] = "INDEX_ASSIGN" -> IndexAssign(cs, n)
         [] n[1] = "REDUCE"       -> Reduction(cs, n[2], n[3])
         [] n[1] = "VECTORIZE"    -> Vectorized(cs, n[2], <<n[3], n[4]>>)
         [] n[1] = "METHOD_CALL"  -> MethodCall(cs, n)
         [] n[1] = "OBJECT_DEF"   -> ObjectDef(cs, n)
         [] n[1] = "MAKE"         -> Emit(Nodes(Read(cs, n[2]), n[3]), <<"MAKE", Byte(Len(n[3]))>>)

(* compile: the script as a function without a name.                         *)
Compile(n) ==
  LET c == Top(Node(<<NewCompiler("SCRIPT", <<>>)>>, n))
  IN  [err |-> c.err, wild |-> c.wild,
       fn |-> [name |-> "", arity |-> 0, upvalues |-> 0,
               code |-> Append(c.code, <<"RETURN">>), constants |-> c.constants]]
===============================================================================
