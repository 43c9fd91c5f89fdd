-------------------------------- MODULE Values --------------------------------
(* value.c, and what vm.c computes from values.  A value is a tuple of its   *)
(* type and its content; arrays, maps, closures, types and instances are     *)
(* references to objects, which every copy of the value shares.  Numbers are *)
(* integers here, and quotients those that are.                              *)
EXTENDS Integers, SequencesExt

CONSTANTS
  TextOrder,      \* texts as strcmp orders them
  Substrings      \* <<s, t>>: strstr finds s in t

Number(n)  == <<"number", n>>
String(s)  == <<"string", s>>
Boolean(b) == <<"boolean", b>>
Nothing    == <<"nothing">>

Is(v, type) == v[1] = type
IsKey(v)    == v[1] \in {"string", "number", "boolean", "nothing"}

(* What an operation leaves: the objects, its value, and its error, if any.  *)
Yields(objs, v) == [objs |-> objs, v |-> v, err |-> ""]
Bad(objs, err)  == [objs |-> objs, v |-> Nothing, err |-> err]

New(objs, obj) == Yields(Append(objs, obj), <<obj.kind, Len(objs) + 1>>)

NewArray(objs, items) == New(objs, [kind |-> "array", items |-> items])
NewMap(objs, entries) == New(objs, [kind |-> "map", entries |-> entries])

Items(objs, v)   == objs[v[2]].items
Entries(objs, v) == objs[v[2]].entries

Truthy(objs, v) ==
  CASE Is(v, "boolean") -> v[2]
    [] Is(v, "number")  -> v[2] # 0
    [] Is(v, "string")  -> v[2] # ""
    [] Is(v, "array")   -> Items(objs, v) # <<>>
    [] Is(v, "map")     -> Entries(objs, v) # <<>>
    [] OTHER            -> ~Is(v, "nothing")

(* Arrays and maps are equal when what they hold is, the rest when it is the *)
(* same.                                                                     *)
RECURSIVE Equal(_, _, _)
Places(objs, entries, key) == {i \in DOMAIN entries : Equal(objs, entries[i][1], key)}
Equal(objs, a, b) ==
  \/ a = b
  \/ /\ Is(a, "array") /\ Is(b, "array")
     /\ LET as == Items(objs, a)
            bs == Items(objs, b)
        IN  Len(as) = Len(bs) /\ \A i \in DOMAIN as : Equal(objs, as[i], bs[i])
  \/ /\ Is(a, "map") /\ Is(b, "map")
     /\ LET as == Entries(objs, a)
            bs == Entries(objs, b)
        IN  /\ Len(as) = Len(bs)
            /\ \A i \in DOMAIN as : \E j \in Places(objs, bs, as[i][1]) :
                 Equal(objs, as[i][2], bs[j][2])

(* obj_map_get, nothing when the key is missing; and obj_map_set.            *)
Has(objs, entries, key) == Places(objs, entries, key) # {}
Get(objs, entries, key) ==
  IF Has(objs, entries, key)
  THEN entries[CHOOSE i \in Places(objs, entries, key) : TRUE][2] ELSE Nothing
Put(objs, entries, key, v) ==
  IF Has(objs, entries, key)
  THEN [i \in DOMAIN entries |->
          IF i \in Places(objs, entries, key) THEN <<entries[i][1], v>> ELSE entries[i]]
  ELSE Append(entries, <<key, v>>)
PutAll(objs, entries, more) ==
  FoldLeft(LAMBDA es, e : Put(objs, es, e[1], e[2]), entries, more)

(* What can be seen of a value so many containers deep, without identities.  *)
RECURSIVE Shown(_, _, _)
Shown(objs, v, deep) ==
  LET Pairs(es) == [i \in DOMAIN es |-> <<Shown(objs, es[i][1], deep - 1), Shown(objs, es[i][2], deep - 1)>>]
  IN  CASE v[1] \in {"array", "map", "instance", "object_type"} /\ deep = 0 -> <<v[1]>>
        [] Is(v, "array") /\ deep > 0 ->
             <<"array", [i \in DOMAIN Items(objs, v) |-> Shown(objs, Items(objs, v)[i], deep - 1)]>>
        [] Is(v, "map") /\ deep > 0 -> <<"map", Pairs(Entries(objs, v))>>
        [] Is(v, "instance") /\ deep > 0 ->
             <<"instance", objs[objs[v[2]].type].name, Pairs(Entries(objs, v))>>
        [] Is(v, "object_type") /\ deep > 0 -> <<"object_type", objs[v[2]].name, Pairs(Entries(objs, v))>>
        [] Is(v, "closure") -> <<"closure", objs[v[2]].name, objs[v[2]].arity>>
        [] OTHER -> v

(* What can be seen after an evaluation: its value or error, and the         *)
(* variables.                                                                *)
Seen(how, v, objs, globals) ==
  [how |-> how, v |-> IF how = "value" THEN Shown(objs, v, 4) ELSE <<"error", v>>,
   globals |-> [x \in DOMAIN globals |-> Shown(objs, globals[x], 4)]]

Methods(objs, instance) == objs[objs[instance[2]].type].entries

-----------------------------------------------------------------------------
(* Operators.                                                                *)

Arithmetics  == {"+", "-", "*", "/", "%", "**"}
Comparisons == {"<", ">", "<=", ">="}

Quotient(a, b) == a \div b
Modulo(a, b)   == a - b * (a \div b)
Fmod(a, b)     == LET Abs(n) == IF n < 0 THEN -n ELSE n
                  IN  IF a < 0 THEN -(Abs(a) % Abs(b)) ELSE a % Abs(b)

Arithmetic(objs, op, a, b) ==
  IF ~Is(a, "number") \/ ~Is(b, "number") THEN Bad(objs, "arithmetic requires numbers")
  ELSE LET x == a[2]
           y == b[2]
       IN  CASE op = "+"  -> Yields(objs, Number(x + y))
             [] op = "-"  -> Yields(objs, Number(x - y))
             [] op = "*"  -> Yields(objs, Number(x * y))
             [] op = "**" -> Yields(objs, Number(x^y))
             [] op = "/"  -> IF y = 0 THEN Bad(objs, "division by zero")
                             ELSE Yields(objs, Number(Quotient(x, y)))
             [] op = "%"  -> IF y = 0 THEN Bad(objs, "modulo by zero")
                             ELSE Yields(objs, Number(Modulo(x, y)))

(* values_compare.                                                           *)
Rank(v) == IF Is(v, "number") THEN v[2] ELSE CHOOSE i \in DOMAIN TextOrder : TextOrder[i] = v[2]
Compare(objs, op, a, b) ==
  CASE Is(a, "nothing") \/ Is(b, "nothing") -> Bad(objs, "cannot compare nothing")
    [] ~(Is(a, "nothing") \/ Is(b, "nothing")) /\ a[1] # b[1] ->
         Bad(objs, "ordered comparison requires same types")
    [] a[1] = b[1] /\ a[1] \in {"number", "string"} ->
         Yields(objs, Boolean(CASE op = "<"  -> Rank(a) < Rank(b)
                                [] op = ">"  -> Rank(a) > Rank(b)
                                [] op = "<=" -> Rank(a) <= Rank(b)
                                [] op = ">=" -> Rank(a) >= Rank(b)))
    [] OTHER -> Bad(objs, "ordered comparison not supported")

(* OP_CONCAT.                                                                *)
Concat(objs, a, b) ==
  CASE Is(a, "array") /\ Is(b, "array") -> NewArray(objs, Items(objs, a) \o Items(objs, b))
    [] Is(a, "map") /\ Is(b, "map") ->
         NewMap(objs, PutAll(objs, Entries(objs, a), Entries(objs, b)))
    [] Is(a, "string") /\ Is(b, "string") -> Yields(objs, String(a[2] \o b[2]))
    [] OTHER -> Bad(objs, "cannot concatenate")

(* OP_IN.                                                                    *)
Membership(objs, needle, hay) ==
  CASE Is(hay, "map")   -> Yields(objs, Boolean(Has(objs, Entries(objs, hay), needle)))
    [] Is(hay, "array") ->
         Yields(objs, Boolean(\E i \in DOMAIN Items(objs, hay) :
                                Equal(objs, Items(objs, hay)[i], needle)))
    [] Is(hay, "instance") ->
         Yields(objs, Boolean(\/ Has(objs, Entries(objs, hay), needle)
                              \/ Is(needle, "string") /\ Has(objs, Methods(objs, hay), needle)))
    [] Is(hay, "string") ->
         IF Is(needle, "string")
         THEN Yields(objs, Boolean(needle[2] \in {"", hay[2]} \/ <<needle[2], hay[2]>> \in Substrings))
         ELSE Bad(objs, "in requires a string")
    [] OTHER -> Bad(objs, "cannot use 'in'")

(* The infix operators that evaluate both operands.                          *)
Infix(objs, op, a, b) ==
  CASE op \in Arithmetics -> Arithmetic(objs, op, a, b)
    [] op \in Comparisons -> Compare(objs, op, a, b)
    [] op = "++" -> Concat(objs, a, b)
    [] op = "in" -> Membership(objs, a, b)
    [] op = "==" -> Yields(objs, Boolean(Equal(objs, a, b)))
    [] op = "!=" -> Yields(objs, Boolean(~Equal(objs, a, b)))

(* reduce_apply_op, with and and or as OP_VECTORIZE and OP_REDUCE have them. *)
ApplyOp(objs, op, a, b) ==
  CASE op = "and" -> Yields(objs, IF Truthy(objs, a) THEN b ELSE a)
    [] op = "or"  -> Yields(objs, IF Truthy(objs, a) THEN a ELSE b)
    [] op = "%" /\ Is(a, "number") /\ Is(b, "number") ->
         IF b[2] = 0 THEN Bad(objs, "division by zero")
         ELSE Yields(objs, Number(Fmod(a[2], b[2])))
    [] op = "++" /\ Is(a, "map") -> Bad(objs, "cannot concatenate")
    [] OTHER -> Infix(objs, op, a, b)

-----------------------------------------------------------------------------
(* Containers.                                                               *)

(* The place of a number in an array, counted from its end when negative; 0  *)
(* is none.                                                                  *)
Place(items, n) ==
  LET i == IF n < 0 THEN n + Len(items) ELSE n
  IN  IF i \in 0..(Len(items) - 1) THEN i + 1 ELSE 0

(* OP_INDEX_GET.                                                             *)
Element(objs, c, i) ==
  CASE Is(c, "map") ->
         LET es == Entries(objs, c)
         IN  IF Is(i, "array")
             THEN NewMap(objs, PutAll(objs, <<>>,
                    FlattenSeq([n \in DOMAIN Items(objs, i) |->
                      LET key == Items(objs, i)[n]
                      IN  IF Has(objs, es, key) THEN <<<<key, Get(objs, es, key)>>>> ELSE <<>>])))
             ELSE IF IsKey(i) THEN Yields(objs, Get(objs, es, i)) ELSE Bad(objs, "invalid map key")
    [] Is(c, "instance") ->
         Yields(objs, IF Has(objs, Entries(objs, c), i) THEN Get(objs, Entries(objs, c), i)
                      ELSE IF Is(i, "string") THEN Get(objs, Methods(objs, c), i)
                      ELSE Nothing)
    [] Is(c, "array") /\ Is(i, "array") ->
         LET src  == Items(objs, c)
             mask == Items(objs, i)
         IN  IF Len(mask) # Len(src) THEN Bad(objs, "mask length")
             ELSE IF \E n \in DOMAIN mask : ~Is(mask[n], "boolean") THEN Bad(objs, "mask of booleans")
             ELSE NewArray(objs, FlattenSeq([n \in DOMAIN src |->
                                   IF mask[n][2] THEN <<src[n]>> ELSE <<>>]))
    [] Is(c, "array") /\ Is(i, "number") ->
         IF Place(Items(objs, c), i[2]) = 0 THEN Bad(objs, "index out of bounds")
         ELSE Yields(objs, Items(objs, c)[Place(Items(objs, c), i[2])])
    [] Is(c, "array") /\ ~Is(i, "array") /\ ~Is(i, "number") -> Bad(objs, "index must be an integer")
    [] OTHER -> Bad(objs, "cannot index")

(* OP_INDEX_SET: the object itself changes.                                  *)
SetElement(objs, c, i, v) ==
  CASE Is(c, "map") \/ Is(c, "instance") ->
         IF Is(c, "map") /\ ~IsKey(i) THEN Bad(objs, "invalid map key")
         ELSE Yields([objs EXCEPT ![c[2]].entries = Put(objs, @, i, v)], c)
    [] Is(c, "array") ->
         IF ~Is(i, "number") THEN Bad(objs, "index must be an integer")
         ELSE IF Place(Items(objs, c), i[2]) = 0 THEN Bad(objs, "index out of bounds")
         ELSE Yields([objs EXCEPT ![c[2]].items[Place(Items(objs, c), i[2])] = v], c)
    [] OTHER -> Bad(objs, "cannot index")

(* OP_MAP and OP_ZIP_MAP: keys and values into a new map.                    *)
Map(objs, keys, values) ==
  IF \E i \in DOMAIN keys : ~IsKey(keys[i]) THEN Bad(objs, "invalid map key")
  ELSE NewMap(objs, PutAll(objs, <<>>, [i \in DOMAIN keys |-> <<keys[i], values[i]>>]))

ZipMap(objs, keys, values) ==
  IF ~Is(keys, "array") \/ ~Is(values, "array") THEN Bad(objs, "requires two arrays")
  ELSE IF Len(Items(objs, keys)) # Len(Items(objs, values)) THEN Bad(objs, "array length mismatch")
  ELSE Map(objs, Items(objs, keys), Items(objs, values))

(* OP_OBJECT_TYPE: the methods of the mixins, then its own, later ones over  *)
(* earlier ones.                                                             *)
ObjectType(objs, name, mixins, own) ==
  IF \E i \in DOMAIN mixins : ~Is(mixins[i], "object_type") THEN Bad(objs, "mixin must be an object type")
  ELSE New(objs, [kind |-> "object_type", name |-> name,
                  entries |-> PutAll(objs, <<>>,
                    FlattenSeq([i \in DOMAIN mixins |-> Entries(objs, mixins[i])]) \o own)])

NewInstance(objs, type) ==
  New(objs, [kind |-> "instance", type |-> type[2], entries |-> <<>>])

(* OP_NEGATE and OP_NOT.                                                     *)
Negated(objs, v) ==
  IF Is(v, "number") THEN Yields(objs, Number(-v[2])) ELSE Bad(objs, "unary minus requires a number")
Inverted(objs, v) == Yields(objs, Boolean(~Truthy(objs, v)))

-----------------------------------------------------------------------------
(* Meta-operators.                                                           *)

ValuesOf(objs, c) == [i \in DOMAIN Entries(objs, c) |-> Entries(objs, c)[i][2]]

(* OP_REDUCE.                                                                *)
Reduce(objs, op, c) ==
  IF ~Is(c, "array") /\ ~Is(c, "map") THEN Bad(objs, "@ requires an array or map")
  ELSE LET items == IF Is(c, "map") THEN ValuesOf(objs, c) ELSE Items(objs, c)
       IN  IF items = <<>> THEN Bad(objs, "cannot reduce empty")
           ELSE FoldLeft(LAMBDA r, v : IF r.err = "" THEN ApplyOp(r.objs, op, r.v, v) ELSE r,
                         Yields(objs, Head(items)), Tail(items))

(* OP_VECTORIZE: what stands for each element of an operand, n times.        *)
Spread(objs, v, n) ==
  CASE Is(v, "array") -> Items(objs, v)
    [] Is(v, "map")   -> ValuesOf(objs, v)
    [] OTHER          -> [i \in 1..n |-> v]

(* The op of two rows of values, one after the other: r.v is the row.        *)
ApplyEach(objs, op, ls, rs) ==
  FoldLeft(LAMBDA r, i :
             IF r.err # "" THEN r
             ELSE LET e == ApplyOp(r.objs, op, ls[i], rs[i]) IN [e EXCEPT !.v = Append(r.v, @)],
           Yields(objs, <<>>), [i \in DOMAIN ls |-> i])

Vectorize(objs, op, l, r) ==
  LET shared == SelectSeq(Entries(objs, l), LAMBDA e : Has(objs, Entries(objs, r), e[1]))
      Keyed(es, rows) ==
        LET each == ApplyEach(objs, op, rows[1], rows[2])
        IN  IF each.err # "" THEN each
            ELSE NewMap(each.objs, [i \in DOMAIN es |-> <<es[i][1], each.v[i]>>])
      size(v)  == Len(Spread(objs, v, 0))
      n        == IF Is(l, "array") \/ Is(l, "map") THEN size(l) ELSE size(r)
      rows     == <<Spread(objs, l, n), Spread(objs, r, n)>>
      each     == ApplyEach(objs, op, rows[1], rows[2])
  IN  CASE {l[1], r[1]} = {"array", "map"} -> Bad(objs, "cannot vectorize")
        [] Is(l, "map") /\ Is(r, "map") ->
             Keyed(shared, << [i \in DOMAIN shared |-> shared[i][2]],
                              [i \in DOMAIN shared |-> Get(objs, Entries(objs, r), shared[i][1])] >>)
        [] Is(l, "map") /\ r[1] \notin {"array", "map"} -> Keyed(Entries(objs, l), rows)
        [] Is(r, "map") /\ l[1] \notin {"array", "map"} -> Keyed(Entries(objs, r), rows)
        [] Is(l, "array") /\ Is(r, "array") /\ size(l) # size(r) -> Bad(objs, "array length mismatch")
        [] "map" \notin {l[1], r[1]} /\ "array" \in {l[1], r[1]}
             /\ ~(Is(l, "array") /\ Is(r, "array") /\ size(l) # size(r)) ->
             IF each.err # "" THEN each ELSE NewArray(each.objs, each.v)
        [] OTHER -> Bad(objs, "@ requires at least one array")

-----------------------------------------------------------------------------
(* Native functions: those that do more than write or format.                *)

Arities == [len |-> 1, push |-> 2, pop |-> 1, keys |-> 1, values |-> 1, has_key |-> 2]

Native(objs, name, args) ==
  LET c == args[1]
  IN  CASE name = "push" ->
             IF Is(c, "array") THEN Yields([objs EXCEPT ![c[2]].items = Append(@, args[2])], c)
             ELSE Bad(objs, "push() requires an array")
        [] name = "pop" ->
             IF ~Is(c, "array") THEN Bad(objs, "pop() requires an array")
             ELSE IF Items(objs, c) = <<>> THEN Bad(objs, "pop() on empty array")
             ELSE Yields([objs EXCEPT ![c[2]].items = Front(@)], c)
        [] name = "len" ->
             IF Is(c, "array") THEN Yields(objs, Number(Len(Items(objs, c))))
             ELSE IF Is(c, "string") THEN Yields(objs, Number(Len(c[2])))
             ELSE IF Is(c, "map") \/ Is(c, "instance") THEN Yields(objs, Number(Len(Entries(objs, c))))
             ELSE Bad(objs, "len() requires a container")
        [] name = "keys" ->
             IF Is(c, "map") \/ Is(c, "instance")
             THEN NewArray(objs, [i \in DOMAIN Entries(objs, c) |-> Entries(objs, c)[i][1]])
             ELSE Bad(objs, "keys() requires a map or instance")
        [] name = "values" ->
             IF Is(c, "map") THEN NewArray(objs, ValuesOf(objs, c))
             ELSE Bad(objs, "values() requires a map")
        [] name = "has_key" ->
             IF Is(c, "map") THEN Yields(objs, Boolean(Has(objs, Entries(objs, c), args[2])))
             ELSE IF Is(c, "instance") THEN Membership(objs, args[2], c)
             ELSE Bad(objs, "has_key() requires a map or instance")
===============================================================================
