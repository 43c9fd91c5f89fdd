-------------------------------- MODULE Meaning --------------------------------
(* What a program means, said on its tree: names stand for cells, an          *)
(* environment maps the names in scope to them, and a construct ends with a  *)
(* value, or with a break, continue, return or error on its way out.  There  *)
(* is no stack, no jump and no upvalue here.  The specification below is     *)
(* what an evaluation promises: the outcome is the one the tree means.       *)
EXTENDS Values, TLC

CONSTANTS FramesMax

(* The state s of an evaluator: what lives, the names in scope, how many     *)
(* calls are under way, and how the last construct ended, with what.         *)
InFunction(s)      == s.depth > 1
Go(s, F(_))        == IF s.how = "value" THEN F(s) ELSE s
Gives(s, v)        == [s EXCEPT !.v = v]
Ends(s, how, v)    == [s EXCEPT !.how = how, !.v = v]
Throws(s, e)       == Ends(s, "error", e)
Takes(s, r)        == IF r.err # "" THEN Throws([s EXCEPT !.objs = r.objs], r.err)
                      ELSE [s EXCEPT !.objs = r.objs, !.v = r.v]

(* A new cell for the name in a function, the global of that name elsewhere. *)
Declare(s, name, v) ==
  IF InFunction(s)
  THEN [s EXCEPT !.objs = Append(@, [kind |-> "cell", value |-> v]),
                 !.env = (name :> Len(s.objs) + 1) @@ @, !.v = v]
  ELSE [s EXCEPT !.globals = (name :> v) @@ @, !.v = v]

Lookup(s, name) ==
  IF name \in DOMAIN s.env THEN Gives(s, s.objs[s.env[name]].value)
  ELSE IF name \in DOMAIN s.globals THEN Gives(s, s.globals[name])
  ELSE Throws(s, "unknown variable")

Assign(s, name, v) ==
  IF name \in DOMAIN s.env THEN [s EXCEPT !.objs[s.env[name]].value = v, !.v = v]
  ELSE IF name \in DOMAIN s.globals THEN [s EXCEPT !.globals[name] = v, !.v = v]
  ELSE Throws(s, "undefined variable")

Operators == {"+", "-", "*", "/", "%", "**", "++", "==", "!=", "<", ">", "<=", ">=", "in"}

(* Any binary operator of two values that are there.                         *)
Combine(s, op, a, b) ==
  CASE op = "and" -> Gives(s, IF Truthy(s.objs, a) THEN b ELSE a)
    [] op = "or"  -> Gives(s, IF Truthy(s.objs, a) THEN a ELSE b)
    [] OTHER      -> Takes(s, Infix(s.objs, op, a, b))

RECURSIVE Eval(_, _), Loop(_, _, _, _), Following(_, _), Gathering(_, _, _)

(* Several trees one after the other, until one does not end with a value.   *)
Following(s, ns) ==
  IF s.how # "value" \/ ns = <<>> THEN s ELSE Following(Eval(s, Head(ns)), Tail(ns))

(* Their values, behind the values vs, as a sequence.                        *)
Gathering(s, vs, ns) ==
  IF ns = <<>> THEN Gives(s, vs)
  ELSE Go(Eval(s, Head(ns)), LAMBDA r : Gathering(r, Append(vs, r.v), Tail(ns)))
EvalAll(s, ns) == Gathering(s, <<>>, ns)

Scoped(s, n) == [Eval(s, n) EXCEPT !.env = s.env]

(* Calls a function with arguments; a closure's body has the closure's names *)
(* in scope, and its parameters.                                             *)
RECURSIVE DeclareAll(_, _, _)
DeclareAll(s, names, vs) ==
  IF names = <<>> THEN s
  ELSE DeclareAll(Declare(s, Head(names), Head(vs)), Tail(names), Tail(vs))

Invoke(s, f, args) ==
  IF Is(f, "native")
  THEN IF Arities[f[2]] # Len(args) THEN Throws(s, "wrong number of arguments")
       ELSE Takes(s, Native(s.objs, f[2], args))
  ELSE IF ~Is(f, "closure") THEN Throws(s, "cannot call")
  ELSE LET c     == s.objs[f[2]]
           inner == DeclareAll([s EXCEPT !.env = c.env, !.depth = @ + 1], c.params, args)
           end   == Eval(inner, c.body)
       IN  IF c.arity # Len(args) THEN Throws(s, "wrong number of arguments")
           ELSE IF s.depth >= FramesMax THEN Throws(s, "stack overflow")
           ELSE [end EXCEPT !.env = s.env, !.depth = s.depth,
                            !.how = IF @ = "return" THEN "value" ELSE @]

(* A round of a loop after another; acc is the value of the last one.        *)
Loop(s, cond, body, acc) ==
  Go(Eval(s, cond), LAMBDA c :
    IF ~Truthy(c.objs, c.v) THEN Gives(c, acc)
    ELSE LET b == Scoped(c, body)
         IN  CASE b.how = "value"    -> Loop(b, cond, body, b.v)
               [] b.how = "continue" -> Loop([b EXCEPT !.how = "value"], cond, body, Nothing)
               [] b.how = "break"    -> [b EXCEPT !.how = "value"]
               [] OTHER              -> b)

-----------------------------------------------------------------------------
(* Meta-operators: a fold, and a map over pairs.                             *)

FoldWith(s, vs, F(_, _, _)) ==
  FoldLeft(LAMBDA acc, v : Go(acc, LAMBDA a : F(a, a.v, v)), Gives(s, Head(vs)), Tail(vs))

MapWith(s, ls, rs, F(_, _, _)) ==
  FoldLeft(LAMBDA acc, i : Go(acc, LAMBDA a : Go(F(a, ls[i], rs[i]),
                                                 LAMBDA r : Gives(r, Append(a.v, r.v)))),
           Gives(s, <<>>), [i \in DOMAIN ls |-> i])

Keys(objs, m)    == [i \in DOMAIN Entries(objs, m) |-> Entries(objs, m)[i][1]]
All(objs, c)     == IF Is(c, "array") THEN Items(objs, c) ELSE ValuesOf(objs, c)
Container(v)     == v[1] \in {"array", "map"}
Repeated(v, n)   == [i \in 1..n |-> v]

Folded(s, op, c) ==
  IF ~Container(c) THEN Throws(s, "@ requires an array or map")
  ELSE IF All(s.objs, c) = <<>> THEN Throws(s, "cannot reduce empty")
  ELSE FoldWith(s, All(s.objs, c), LAMBDA t, a, b : Combine(t, op, a, b))

FoldedBy(s, f, c) ==
  IF ~Is(c, "array") THEN Throws(s, "@ requires an array")
  ELSE IF Items(s.objs, c) = <<>> THEN Throws(s, "cannot reduce empty")
  ELSE FoldWith(s, Items(s.objs, c), LAMBDA t, a, b : Invoke(t, f, <<a, b>>))

(* The rows to combine, and the keys of the map to make of them, if any: two *)
(* maps meet in the keys they share, and what is not a container is repeated.*)
Rows(objs, l, r) ==
  LET both == SelectSeq(Keys(objs, l), LAMBDA k : Has(objs, Entries(objs, r), k))
      AtKeys(m, ks) == [i \in DOMAIN ks |-> Get(objs, Entries(objs, m), ks[i])]
  IN  CASE Is(l, "map") /\ Is(r, "map") ->
             [keys |-> both, ls |-> AtKeys(l, both), rs |-> AtKeys(r, both)]
        [] Container(l) /\ Container(r) /\ ~(Is(l, "map") /\ Is(r, "map")) ->
             [keys |-> <<>>, ls |-> All(objs, l), rs |-> All(objs, r)]
        [] Container(l) /\ ~Container(r) ->
             [keys |-> IF Is(l, "map") THEN Keys(objs, l) ELSE <<>>,
              ls |-> All(objs, l), rs |-> Repeated(r, Len(All(objs, l)))]
        [] OTHER ->
             [keys |-> IF Is(r, "map") THEN Keys(objs, r) ELSE <<>>,
              ls |-> Repeated(l, Len(All(objs, r))), rs |-> All(objs, r)]

Mapped(s, op, l, r) ==
  LET rows == Rows(s.objs, l, r)
  IN  IF ~Container(l) /\ ~Container(r) THEN Throws(s, "@ requires at least one array")
      ELSE IF {l[1], r[1]} = {"array", "map"} THEN Throws(s, "cannot vectorize")
      ELSE IF Len(rows.ls) # Len(rows.rs) THEN Throws(s, "array length mismatch")
      ELSE Go(MapWith(s, rows.ls, rows.rs, LAMBDA t, a, b : Combine(t, op, a, b)),
              LAMBDA e : Takes(e, IF Is(l, "map") \/ Is(r, "map")
                                  THEN Map(e.objs, rows.keys, e.v) ELSE NewArray(e.objs, e.v)))

(* A function takes a map as one value.                                      *)
MappedBy(s, f, l, r) ==
  LET Row(v, other) == IF Is(v, "array") THEN Items(s.objs, v) ELSE Repeated(v, Len(All(s.objs, other)))
  IN  IF ~Is(l, "array") /\ ~Is(r, "array") THEN Throws(s, "@ requires at least one array")
      ELSE IF Len(Row(l, r)) # Len(Row(r, l)) THEN Throws(s, "array length mismatch")
      ELSE Go(MapWith(s, Row(l, r), Row(r, l), LAMBDA t, a, b : Invoke(t, f, <<a, b>>)),
              LAMBDA e : Takes(e, NewArray(e.objs, e.v)))

Symbols == (Operators \ {"in"}) \cup {"and", "or"}

-----------------------------------------------------------------------------
(* Objects.                                                                  *)

Function(s, n) ==
  Takes(s, New(s.objs, [kind |-> "closure", name |-> n[2], arity |-> Len(n[3]),
                        params |-> n[3], body |-> n[4], env |-> s.env]))

Functions(s, ns) ==
  FoldLeft(LAMBDA acc, n : LET f == Function(acc, n) IN Gives(f, Append(acc.v, f.v)), Gives(s, <<>>), ns)

ObjectDef(s, n) ==
  Go(EvalAll(s, [i \in DOMAIN n[3] |-> <<"IDENT", n[3][i]>>]), LAMBDA m :
    LET fs == Functions(m, n[4])
    IN  Takes(fs, ObjectType(fs.objs, IF n[2] = "" THEN "<anonymous object>" ELSE n[2], m.v,
                             [i \in DOMAIN n[4] |-> <<String(n[4][i][2]), fs.v[i]>>])))

Make(s, type, args) ==
  LET made == Takes(s, NewInstance(s.objs, type))
      init == Get(s.objs, Entries(s.objs, type), String("init"))
  IN  IF ~Is(type, "object_type") THEN Throws(s, "can only make object types")
      ELSE IF init # Nothing
      THEN Go(Invoke(made, init, <<made.v>> \o args), LAMBDA r : Gives(r, made.v))
      ELSE IF args # <<>> THEN Throws(made, "no init() method") ELSE made

-----------------------------------------------------------------------------

Named(s, name) == Go(s, LAMBDA r : IF name = "" THEN r ELSE Declare(r, name, r.v))

Eval(s, n) ==
  CASE n[1] = "GROUP"    -> Eval(s, n[2])
    [] n[1] = "NUMBER"   -> Gives(s, Number(n[2]))
    [] n[1] = "STRING"   -> Gives(s, String(n[2]))
    [] n[1] = "BOOL"     -> Gives(s, Boolean(n[2] = "true"))
    [] n[1] = "NOTHING"  -> Gives(s, Nothing)
    [] n[1] = "IDENT"    -> Lookup(s, n[2])
    [] n[1] = "BINOP" /\ n[2] \in Operators ->
         Go(EvalAll(s, <<n[3], n[4]>>), LAMBDA r : Combine(r, n[2], r.v[1], r.v[2]))
    [] n[1] = "BINOP" /\ n[2] \notin Operators ->
         Go(Eval(s, n[3]), LAMBDA l : IF Truthy(l.objs, l.v) = (n[2] = "and") THEN Eval(l, n[4]) ELSE l)
    [] n[1] = "UNARY"    ->
         Go(Eval(s, n[3]), LAMBDA r :
           Takes(r, IF n[2] = "-" THEN Negated(r.objs, r.v) ELSE Inverted(r.objs, r.v)))
    [] n[1] = "DECL"     -> Go(Eval(s, n[3]), LAMBDA r : Declare(r, n[2], r.v))
    [] n[1] = "ASSIGN"   -> Go(Eval(s, n[3]), LAMBDA r : Assign(r, n[2], r.v))
    [] n[1] = "BLOCK"    -> Following(Gives(s, Nothing), n[2])
    [] n[1] = "IF"       ->
         Go(Eval(s, n[2][1]), LAMBDA c :
           IF Truthy(c.objs, c.v) THEN Scoped(c, n[2][2])
           ELSE IF Len(n[2]) = 3 THEN Scoped(c, n[2][3]) ELSE Gives(c, Nothing))
    [] n[1] = "WHILE"    -> LET e == Loop(s, n[2], n[3], Nothing) IN [e EXCEPT !.env = s.env]
    [] n[1] \in {"BREAK", "RETURN"} ->
         Go(IF n[2] = <<>> THEN Gives(s, Nothing) ELSE Eval(s, n[2][1]), LAMBDA r :
           Ends(r, IF n[1] = "BREAK" THEN "break" ELSE "return", r.v))
    [] n[1] = "CONTINUE" -> Ends(s, "continue", Nothing)
    [] n[1] = "FUNCTION" -> Named(Function(s, n), n[2])
    [] n[1] = "CALL"     ->
         Go(EvalAll(s, <<<<"IDENT", n[2]>>>> \o n[3]), LAMBDA r : Invoke(r, Head(r.v), Tail(r.v)))
    [] n[1] = "ARRAY"    -> Go(EvalAll(s, n[2]), LAMBDA r : Takes(r, NewArray(r.objs, r.v)))
    [] n[1] = "MAP"      ->
         Go(EvalAll(s, n[2]), LAMBDA r :
           LET half == [i \in 1..(Len(r.v) \div 2) |-> i]
           IN  Takes(r, Map(r.objs, [i \in DOMAIN half |-> r.v[2 * i - 1]],
                                    [i \in DOMAIN half |-> r.v[2 * i]])))
    [] n[1] = "INDEX"    ->
         Go(EvalAll(s, <<n[2], n[3]>>), LAMBDA r : Takes(r, Element(r.objs, r.v[1], r.v[2])))
    [] n[1] = "INDEX_ASSIGN" ->
         Go(EvalAll(s, <<n[4], n[2], n[3]>>), LAMBDA r :
           Go(Takes(r, SetElement(r.objs, r.v[2], r.v[3], r.v[1])), LAMBDA t : Gives(t, r.v[1])))
    [] n[1] = "REDUCE" /\ n[2] \in Symbols ->
         Go(Eval(s, n[3]), LAMBDA r : Folded(r, n[2], r.v))
    [] n[1] = "REDUCE" /\ n[2] \notin Symbols ->
         Go(EvalAll(s, <<<<"IDENT", n[2]>>, n[3]>>), LAMBDA r : FoldedBy(r, r.v[1], r.v[2]))
    [] n[1] = "VECTORIZE" /\ n[2] \in Symbols \cup {":"} ->
         Go(EvalAll(s, <<n[3], n[4]>>), LAMBDA r :
           IF n[2] = ":" THEN Takes(r, ZipMap(r.objs, r.v[1], r.v[2]))
           ELSE Mapped(r, n[2], r.v[1], r.v[2]))
    [] n[1] = "VECTORIZE" /\ n[2] \notin Symbols \cup {":"} ->
         Go(EvalAll(s, <<<<"IDENT", n[2]>>, n[3], n[4]>>), LAMBDA r :
           MappedBy(r, r.v[1], r.v[2], r.v[3]))
    [] n[1] = "METHOD_CALL" ->
         Go(Eval(s, n[2]), LAMBDA o :
           Go(Takes(o, Element(o.objs, o.v, String(n[3]))), LAMBDA f :
             Go(EvalAll(f, n[4]), LAMBDA r : Invoke(r, f.v, <<o.v>> \o r.v))))
    [] n[1] = "OBJECT_DEF" -> Named(ObjectDef(s, n), n[2])
    [] n[1] = "MAKE"     ->
         Go(EvalAll(s, <<<<"IDENT", n[2]>>>> \o n[3]), LAMBDA r : Make(r, Head(r.v), Tail(r.v)))

-----------------------------------------------------------------------------
(* What is said about a tree without evaluating it.                          *)

(* The subtrees that belong to the same function, and the functions of a     *)
(* node.                                                                     *)
Parts(n) ==
  CASE n[1] \in {"BREAK", "RETURN", "IF", "BLOCK", "ARRAY", "MAP"} -> n[2]
    [] n[1] \in {"CALL", "MAKE"}                                   -> n[3]
    [] n[1] = "METHOD_CALL"                                        -> <<n[2]>> \o n[4]
    [] n[1] \in {"BINOP", "VECTORIZE"}                             -> <<n[3], n[4]>>
    [] n[1] \in {"UNARY", "DECL", "ASSIGN", "REDUCE"}              -> <<n[3]>>
    [] n[1] \in {"INDEX", "WHILE"}                                 -> <<n[2], n[3]>>
    [] n[1] = "INDEX_ASSIGN"                                       -> <<n[4], n[2], n[3]>>
    [] n[1] = "GROUP"                                              -> <<n[2]>>
    [] OTHER                                                       -> <<>>

Bodies(n) ==
  CASE n[1] = "FUNCTION"   -> {n[4]}
    [] n[1] = "OBJECT_DEF" -> {n[4][i][4] : i \in DOMAIN n[4]}
    [] OTHER               -> {}

RECURSIVE Inside(_), Within(_)
Inside(n) == {n} \cup UNION {Inside(Parts(n)[i]) : i \in DOMAIN Parts(n)}
Within(n) ==
  {n} \cup UNION {Within(Parts(n)[i]) : i \in DOMAIN Parts(n)} \cup UNION {Within(b) : b \in Bodies(n)}

(* Why a tree is not a program.                                              *)
RECURSIVE Faults(_, _, _)
Faults(n, inLoop, inFunction) ==
  (CASE n[1] \in {"BREAK", "CONTINUE"} /\ ~inLoop -> {"'" \o (IF n[1] = "BREAK" THEN "break" ELSE "continue") \o "' outside of loop"}
     [] n[1] = "RETURN" /\ ~inFunction            -> {"'return' outside of function"}
     [] n[1] = "REDUCE" /\ n[2] = ":"             -> {"':' cannot be used as a reduction operator"}
     [] OTHER                                     -> {})
  \cup UNION {Faults(Parts(n)[i], inLoop \/ n[1] = "WHILE", inFunction) : i \in DOMAIN Parts(n)}
  \cup UNION {Faults(b, FALSE, TRUE) : b \in Bodies(n)}

Limits == {"too many " \o w : w \in {"constants", "local variables", "upvalues", "arguments", "elements", "pairs"}}
          \cup {"stack overflow"}

(* The parts of a node that are evaluated while another operand of it waits, *)
(* and those that may not be evaluated though the node is.                   *)
Waiting(n) ==
  CASE n[1] = "BINOP" /\ n[2] \in Operators -> {n[4]}
    [] n[1] \in {"CALL", "MAKE"}            -> ToSet(n[3])
    [] n[1] = "METHOD_CALL"                 -> ToSet(n[4])
    [] n[1] \in {"ARRAY", "MAP"} /\ n[2] # <<>> -> ToSet(Tail(n[2]))
    [] n[1] = "INDEX"                       -> {n[3]}
    [] n[1] = "INDEX_ASSIGN"                -> {n[2], n[3]}
    [] n[1] = "REDUCE"                      -> IF n[2] \in Symbols THEN {} ELSE {n[3]}
    [] n[1] = "VECTORIZE" -> IF n[2] \in Symbols \cup {":"} THEN {n[4]} ELSE {n[3], n[4]}
    [] n[1] = "WHILE"                       -> {n[2]}
    [] OTHER                                -> {}

Skippable(n) == IF n[1] = "BINOP" /\ n[2] \in {"and", "or"} THEN {n[4]} ELSE {}

(* The parts of a node that are scopes of their own in a function.           *)
Scopes(n) ==
  CASE n[1] = "IF"    -> ToSet(Tail(n[2]))
    [] n[1] = "WHILE" -> {n[3]}
    [] OTHER          -> {}

Declared(n) == {m[2] : m \in {k \in Inside(n) : k[1] \in {"DECL", "FUNCTION", "OBJECT_DEF"}}} \ {""}
Used(n) ==
  {m[2] : m \in {k \in Within(n) : k[1] \in {"IDENT", "ASSIGN", "CALL", "MAKE", "REDUCE", "VECTORIZE"}}}
  \cup UNION {ToSet(m[3]) : m \in {k \in Within(n) : k[1] = "OBJECT_DEF"}}

RECURSIVE JumpsOut(_)
JumpsOut(n) ==
  \/ n[1] \in {"BREAK", "CONTINUE"}
  \/ n[1] # "WHILE" /\ \E i \in DOMAIN Parts(n) : JumpsOut(Parts(n)[i])

Calls(n) == {"CALL", "METHOD_CALL", "MAKE", "REDUCE", "VECTORIZE"} \cap {m[1] : m \in Inside(n)} # {}
Changes(n) == {"ASSIGN", "DECL", "INDEX_ASSIGN"} \cap {m[1] : m \in Inside(n)} # {}

(* Where the source does not keep the promise: a declaration, break or       *)
(* continue while an operand waits on the stack; a function that captures    *)
(* what the block around it declares; an index that changes the variable it  *)
(* indexes; an init() that assigns its self; what a meta-operator's function *)
(* does to the array under way; @% and @++ of maps; and an error the         *)
(* compiler finds in an operand of a jump.                                   *)
Settled(t) ==
  LET all    == Within(t)
      bodies == UNION {Bodies(n) : n \in all}
      metas  == {n \in all : n[1] \in {"REDUCE", "VECTORIZE"}}
  IN  /\ \A b \in bodies : \A n \in Inside(b) :
           /\ \A p \in Waiting(n) \cup Skippable(n) : Declared(p) = {}
           /\ \A p \in Scopes(n) : \A f \in UNION {Bodies(m) : m \in Inside(p)} :
                Used(f) \cap Declared(p) = {}
      /\ \A n \in all : \A p \in Waiting(n) : ~JumpsOut(p)
      /\ \A n \in all : n[1] = "INDEX_ASSIGN" => ~Calls(n[3]) /\ ~Changes(n[3])
      /\ \A n \in all : n[1] = "OBJECT_DEF" => \A i \in DOMAIN n[4] :
           n[4][i][2] = "init" /\ n[4][i][3] # <<>> =>
             \A m \in Within(n[4][i][4]) : ~(m[1] = "ASSIGN" /\ m[2] = n[4][i][3][1])
      /\ metas # {} => \A b \in bodies : \A n \in Inside(b) :
           n[1] # "INDEX_ASSIGN" /\ ~(n[1] = "CALL" /\ n[2] \in {"push", "pop"})
      /\ \A n \in metas : n[2] # "%" /\ (n[2] = "++" => \A m \in all : m[1] # "MAP")
      /\ Faults(t, FALSE, FALSE) # {} => \A n \in all : n[1] # "IF" /\ Skippable(n) = {}

-----------------------------------------------------------------------------
(* The promise.                                                              *)

VARIABLES
  tree,           \* what is evaluated
  outcome         \* Unknown, or what came of it

Unknown == [how |-> "unknown"]

Builtin == [n \in DOMAIN Arities |-> <<"native", n>>]

Meant(t) ==
  LET e == Eval([objs |-> <<>>, globals |-> Builtin, env |-> <<>>, depth |-> 1,
                 how |-> "value", v |-> Nothing], t)
      faults == Faults(t, FALSE, FALSE)
  IN  IF faults # {} THEN {Seen("error", f, <<>>, Builtin) : f \in faults}
      ELSE {Seen(e.how, e.v, e.objs, e.globals)}

Start  == outcome = Unknown
Finish ==
  /\ outcome = Unknown /\ outcome' # Unknown /\ tree' = tree
  /\ \/ ~Settled(tree)
     \/ outcome' \in Meant(tree)
     \/ outcome' \in {Seen("error", e, <<>>, Builtin) : e \in Limits}

Spec == Start /\ [][Finish]_<<tree, outcome>>
===============================================================================
