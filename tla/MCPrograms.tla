------------------------------ MODULE MCPrograms -------------------------------
(* Small programs for Evaluation, in families, and the bounds for TLC.       *)
EXTENDS Evaluation

(* Trees, as the parser makes them.                                          *)
N(n)          == <<"NUMBER", n>>
Neg(n)        == <<"UNARY", "-", N(n)>>
S(s)          == <<"STRING", s>>
T(b)          == <<"BOOL", b>>
Nil           == <<"NOTHING">>
V(x)          == <<"IDENT", x>>
Op(op, a, b)  == <<"BINOP", op, a, b>>
My(x, e)      == <<"DECL", x, e>>
Be(x, e)      == <<"ASSIGN", x, e>>
Do(ns)        == IF Len(ns) = 1 THEN ns[1] ELSE <<"BLOCK", ns>>
If2(c, a)     == <<"IF", <<c, a>>>>
If3(c, a, b)  == <<"IF", <<c, a, b>>>>
Loop(c, b)    == <<"WHILE", c, b>>
Out(v)        == <<"BREAK", <<v>>>>
Again         == <<"CONTINUE">>
Ret(v)        == <<"RETURN", <<v>>>>
Fn(f, ps, b)  == <<"FUNCTION", f, ps, b>>
Run(f, as)    == <<"CALL", f, as>>
Arr(es)       == <<"ARRAY", es>>
Mp(kvs)       == <<"MAP", kvs>>
Ix(a, i)      == <<"INDEX", a, i>>
Put2(a, i, v) == <<"INDEX_ASSIGN", a, i, v>>
Fold2(op, a)  == <<"REDUCE", op, a>>
Zip2(op, a, b) == <<"VECTORIZE", op, a, b>>
Msg(o, m, as) == <<"METHOD_CALL", o, m, as>>
Obj(o, ms, fs) == <<"OBJECT_DEF", o, ms, fs>>
Mk(o, as)     == <<"MAKE", o, as>>
Inc(x)        == Be(x, Op("+", V(x), N(1)))
Seqs(A, n)    == UNION {[1..k -> A] : k \in 1..n}

-----------------------------------------------------------------------------
(* Every operator on every pair of values of these.                          *)
Atoms == {N(0), N(2), Neg(2), S(""), S("a"), S("ab"), T("true"), T("false"), Nil,
          Arr(<<>>), Arr(<<N(2), N(0)>>), Mp(<<S("a"), N(2)>>)}
Expressions ==
  {Op(op, a, b) : op \in {"+", "/", "%", "<", ">=", "==", "!=", "in", "++", "and", "or"},
                  a \in Atoms, b \in Atoms}
  \cup {Op(op, a, b) : op \in {"-", "*", ">", "<="}, a \in {N(2), Neg(3), S("a")}, b \in {N(2), S("ab")}}
  \cup {Op(op, Neg(3), N(2)) : op \in {"**", "%"}} \cup {Op("%", N(3), Neg(2))}
  \cup {<<"UNARY", op, a>> : op \in {"-", "not"}, a \in Atoms}
  \cup {Ix(a, i) : a \in Atoms, i \in Atoms}
  \cup {Ix(a, Arr(<<i, j>>)) : a \in {Arr(<<N(2), N(0)>>), Mp(<<S("a"), N(2), N(0), Nil>>)},
                               i, j \in {N(0), S("a"), T("true"), T("false")}}
  \cup {<<"GROUP", Op("or", Op("and", a, V("zz")), Op("and", b, N(1)))>> :
          a, b \in {T("true"), T("false"), N(1)}}

(* Declarations, assignments and reads of two names in nested blocks, at the *)
(* top and in a function whose parameter is one of them.                     *)
Simple == {My("x", N(5)), My("p", Op("+", V("p"), N(1))), Be("x", Op("+", V("p"), N(2))), Be("p", N(7)), V("x")}
Blocks == {If2(T("true"), Do(ss)) : ss \in Seqs(Simple, 2)}
          \cup {If3(V("p"), s, t) : s, t \in {My("x", N(6)), Inc("p"), Nil}}
Bodies2 == {<<a, b, c>> : a \in Simple, b \in Blocks, c \in {V("x"), Be("x", V("p"))}}
           \cup {<<a, b, Arr(<<V("x"), V("p")>>)>> : a, b \in Simple}
Scopings ==
  {Do(<<My("x", N(1)), Fn("f", <<"p">>, Do(b)), Arr(<<Run("f", <<N(3)>>), V("x")>>)>>) : b \in Bodies2}
  \cup {Do(<<My("p", N(1)), My("x", N(0))>> \o b) : b \in Bodies2}

(* Loops: what a round does before and after the counter goes on.            *)
Round == {Nil, Be("s", Op("+", V("s"), V("i"))), My("t", Op("*", V("i"), N(2)))}
Leaving ==
  {<<If2(Op("==", V("i"), N(2)), j)>> : j \in {Out(S("b")), <<"BREAK", <<>>>>, Again, Out(V("i")),
                                          Do(<<My("u", V("i")), Out(Op("+", V("u"), N(1)))>>),
                                          Do(<<My("u", V("i")), Again>>)}}
  \cup {<<If3(Op("<", V("i"), N(2)), Again, Out(V("s")))>>,
        <<Op("and", Op("==", V("i"), N(2)), Out(N(9)))>>,
        <<My("j", N(0)), Loop(T("true"), Do(<<Inc("j"), If2(Op("==", V("j"), N(2)), Out(V("j")))>>))>>}
Rounds == {<<a, Inc("i")>> \o b \o <<c>> : a \in Round, b \in Leaving, c \in Round}
          \cup {<<Inc("i")>> \o b : b \in Leaving}
Counting(body) == <<My("s", N(0)), My("i", N(0)), Loop(Op("<", V("i"), N(3)), Do(body))>>
Loops ==
  {Do(Counting(b)) : b \in Rounds}
  \cup {Do(<<Fn("f", <<"q">>, Do(Append(Counting(b), V("s")))), Run("f", <<Nil>>)>>) : b \in Rounds}
  \cup {Do(<<Fn("f", <<>>, Do(<<My("v", Last(Counting(b))), V("v")>>)), My("i", N(0)), My("s", N(0)), Run("f", <<>>)>>) :
          b \in Rounds}
  \cup {Do(<<Fn("f", <<"n">>, Loop(T("true"), Do(<<My("m", V("n")), If2(Op("==", V("n"), N(k)), Ret(V("m"))), Inc("n")>>))),
             Run("f", <<N(0)>>)>>) : k \in 0..2}

(* Closures over the same and over different variables, called in any order. *)
Counters ==
  <<Fn("counter", <<"n">>, Do(<<My("k", N(10)),
      Arr(<<Fn("", <<>>, Inc("n")), Fn("", <<>>, Arr(<<V("n"), V("k")>>)),
            Fn("", <<"d">>, Fn("", <<>>, Do(<<Be("k", Op("+", V("k"), V("d"))), Be("d", V("n"))>>)))>>)>>)),
    My("a", Run("counter", <<N(0)>>)), My("b", Run("counter", <<N(5)>>)),
    My("up", Ix(V("a"), N(0))), My("get", Ix(V("a"), N(1))), My("upb", Ix(V("b"), N(0))),
    My("add", Ix(V("a"), N(2))), My("one", Run("add", <<N(1)>>)), My("two", Run("add", <<N(2)>>))>>
Closures ==
  {Do(Counters \o [i \in DOMAIN fs |-> Run(fs[i], <<>>)] \o <<Run("get", <<>>)>>) :
     fs \in [1..3 -> {"up", "upb", "one", "two"}]}
  \cup {Do(<<Fn("f", <<"p">>, Do(<<My("g", Fn("", <<>>, Be("p", Op("+", V("p"), N(1))))), a, b,
                                   Arr(<<V("p"), Run("g", <<>>), V("p")>>)>>)),
             Run("f", <<N(1)>>)>>) :
          a, b \in {Nil, Run("g", <<>>), Be("p", N(8)), My("p", N(4)), Loop(Op("<", V("p"), N(3)), Run("g", <<>>))}}

(* All of these in one function: a closure that changes the parameter, loops *)
(* with variables of their own, folds that call.                             *)
Mix ==
  {Inc("p"), My("x", Run("g", <<>>)), Be("x", Op("+", V("p"), V("x"))),
   Loop(Op("<", V("p"), N(5)), Do(<<Run("g", <<>>), If2(Op("==", V("p"), N(4)), Out(V("p")))>>)),
   Loop(Op("<", V("p"), N(4)), Do(<<My("y", V("p")), Inc("p"), If2(Op("==", V("y"), N(2)), Again), Be("x", V("y"))>>)),
   If3(Op(">", V("p"), N(2)), Ret(Arr(<<V("x"), V("p")>>)), Run("g", <<>>)),
   Be("p", Fold2("h", Arr(<<V("p"), V("x"), N(1)>>))),
   My("x", Fold2("+", Zip2("h", Arr(<<V("x"), Run("g", <<>>)>>), V("p")))),
   Fn("g", <<>>, Do(<<Be("x", Op("+", V("x"), N(10))), Inc("p")>>))}
Mixed ==
  {Do(<<My("total", N(0)), Fn("h", <<"a", "b">>, Do(<<Inc("total"), Op("+", V("a"), V("b"))>>)),
        Fn("f", <<"p">>, Do(<<My("x", N(1)), My("g", Fn("", <<>>, Inc("p"))), a, b, c, Arr(<<V("p"), V("x"), Run("g", <<>>)>>)>>)),
        Arr(<<Run("f", <<N(1)>>), V("total")>>)>>) : a, b, c \in Mix}

(* Calls: recursion up to the frames there are, wrong arguments, callees     *)
(* that are none.                                                            *)
Calling ==
  {Do(<<Fn("f", <<"n">>, If3(Op("<", V("n"), N(1)), base, Op("*", V("n"), Run("f", <<Op("-", V("n"), N(1))>>)))),
        Run("f", <<N(k)>>)>>) : base \in {N(1), Ret(N(1)), S("a")}, k \in 0..4}
  \cup {Do(<<My("g", N(0)), Fn("f", ps, Do(<<Inc("g"), V("g")>>)), Run(c, as)>>) :
          ps \in {<<>>, <<"a">>, <<"a", "a">>}, c \in {"f", "g", "h", "len", "push"},
          as \in {<<>>, <<N(1)>>, <<Arr(<<N(1)>>), Inc("g")>>, <<V("zz"), Inc("g")>>}}
  \cup {Do(<<Fn("f", <<"x">>, Do(<<Fn(inner, <<>>, Do(<<Be("x", N(2)), V(name)>>)), Run(inner, <<>>), V("x")>>)),
             Run("f", <<N(1)>>)>>) : inner \in {"g", "x"}, name \in {"x", "f", "g"}}

(* Containers under several names.                                           *)
Sharing ==
  {Put2(V("a"), N(0), N(5)), Put2(V("b"), Neg(1), V("b")), Put2(V("b"), N(2), N(5)),
   Put2(V("m"), S("k"), V("a")), Put2(Ix(V("m"), S("k")), N(0), N(7)), Put2(V("m"), V("a"), N(1)),
   Run("push", <<V("a"), N(3)>>), Run("pop", <<V("b")>>), Be("a", Op("++", V("a"), Arr(<<N(1)>>))),
   My("m", Op("++", V("m"), Mp(<<S("k"), N(4), N(1), Nil>>))), My("b", Run("keys", <<V("m")>>)),
   Be("b", Run("values", <<V("m")>>)), Run("has_key", <<V("m"), S("k")>>)}
Containers ==
  {Do(<<My("a", Arr(<<N(1), N(2)>>)), My("b", V("a")), My("m", Mp(<<S("k"), V("b")>>))>> \o ss
      \o <<Arr(<<V("a"), V("b"), Run("len", <<V("m")>>)>>)>>) : ss \in Seqs(Sharing, 2)}
  \cup {Do(<<My("a", Mp(<<k, N(1), k, N(2), l, N(3)>>)), Put2(V("a"), l, N(4)), Run("len", <<V("a")>>)>>) :
          k, l \in {S("a"), N(0), Nil, T("true"), Arr(<<>>)}}
  \cup {Do(<<Fn("f", <<"xs">>, Do(<<Put2(V("xs"), N(0), v), Be("xs", Arr(<<>>)), Ix(V("xs"), N(0))>>)),
             My("ys", Arr(<<N(1)>>)), Run("f", <<V("ys")>>)>>) : v \in {N(2), V("xs"), Run("pop", <<V("xs")>>)}}

(* Types with and without init(), mixed in, their methods and fields.        *)
Types ==
  <<Obj("A", <<>>, <<Fn("get", <<"self">>, Ix(V("self"), S("x"))),
                     Fn("set", <<"self", "v">>, Put2(V("self"), S("x"), V("v")))>>),
    Obj("B", <<>>, <<Fn("get", <<"self">>, S("B")),
                     Fn("init", <<"self", "v">>, Do(<<Msg(V("self"), "set", <<V("v")>>), N(0)>>))>>),
    Obj("C", <<"A", "B">>, <<>>),
    Obj("D", <<"B", "A">>, <<Fn("init", <<"me">>, Do(<<Put2(V("me"), S("get"), Fn("", <<"s">>, N(9))),
                                                       If2(T("true"), Ret(S("gone")))>>))>>)>>
Objects ==
  {Do(Types \o <<My("o", Mk(t, as)), u, Arr(<<Msg(V("o"), "get", <<>>), V("o")>>)>>) :
     t \in {"A", "B", "C", "D", "len"}, as \in {<<>>, <<N(1)>>},
     u \in {Msg(V("o"), "set", <<N(4)>>), Put2(V("o"), S("x"), V("o")), Op("in", S("set"), V("o")),
            Msg(V("o"), "none", <<>>), Be("o", Mp(<<S("get"), V("len")>>))}}
  \cup {Do(<<My("A", N(1)), Obj("B", <<m>>, <<>>)>>) : m \in {"A", "Z"}}
  \cup {Do(<<Fn("f", <<"k">>, Do(<<Obj("T", <<>>, <<Fn("init", <<"self">>, Inc("k"))>>),
                                   Obj("", <<>>, <<>>), Mk("T", <<>>), Mk("T", <<>>), V("k")>>)), Run("f", <<N(0)>>)>>)}
  \cup {Do(<<Obj("R", <<>>, <<Fn("init", <<"self", "n">>,
                If2(Op(">", V("n"), N(0)), Mk("R", <<Op("-", V("n"), N(1))>>)))>>), Mk("R", <<N(k)>>)>>) : k \in 0..3}

(* Meta-operators, with symbols, functions and natives.                      *)
Vectors == {Arr(<<>>), Arr(<<N(4)>>), Arr(<<N(1), N(2)>>), Arr(<<S("a"), N(2)>>), Mp(<<S("a"), N(1), S("b"), N(2)>>),
            Mp(<<S("b"), N(3)>>), N(2), Nil}
Lists   == {Arr(<<>>), Arr(<<N(1)>>), Arr(<<N(4), N(1)>>), Arr(<<N(4), N(1), N(3)>>), N(3), Mp(<<N(1), N(2)>>)}
Workers ==
  {Fn("f", <<"a", "b">>, Op("-", V("a"), V("b"))),
   Fn("f", <<"a", "b">>, Do(<<My("c", Op("+", V("a"), V("b"))), If2(Op(">", V("c"), N(4)), Ret(Inc("g"))), V("c")>>)),
   Fn("f", <<"a", "b">>, Fold2("h", Arr(<<V("a"), V("b")>>))),
   Fn("f", <<"a">>, V("a")), My("f", N(1)), My("f", V("push")), My("f", V("keys"))}
Metas ==
  {Zip2(op, a, b) : op \in {"+", "==", "<", "and", "or", ":"}, a \in Vectors, b \in Vectors}
  \cup {Fold2(op, a) : op \in {"-", "*", "and", "or", ">", "==", ":"}, a \in Vectors}
  \cup {Fold2("++", Arr(<<a, b>>)) : a \in {S("a"), Arr(<<N(1)>>)}, b \in {S("b"), Arr(<<N(2)>>)}}
  \cup {Do(<<My("g", N(0)), Fn("h", <<"x", "y">>, Op("*", V("x"), V("y"))), w, e>>) :
          w \in Workers, e \in {Fold2("f", a) : a \in Lists} \cup {Zip2("f", a, b) : a, b \in Lists \ {Arr(<<N(1)>>)}}}

(* More constants, locals, upvalues and operands than a function may have.   *)
Crowded ==
  {Do([i \in 1..k |-> N(i)]) : k \in {16, 17}}
  \cup {Do(<<Fn("f", <<"p">>, Do([i \in 1..k |-> My("p", V("p"))])), Run("f", <<N(1)>>)>>) : k \in 3..6}
  \cup {Do(<<Fn("f", <<"p">>, Do([i \in 1..k |-> If2(T("true"), My("p", V("p")))])), Run("f", <<N(1)>>)>>) : k \in 6..7}
  \cup {Do(<<Fn("f", <<"p", "q", "r">>, Fn("", <<>>, Arr(vs)))>>) : vs \in [1..3 -> {V("p"), V("q"), V("r")}]}
  \cup {Fn("f", [i \in 1..k |-> "p"], V("p")) : k \in 5..7}
  \cup {Arr([i \in 1..k |-> N(1)]) : k \in 12..13}

(* What is no program, and what the source does not keep its promise for.    *)
Refused ==
  {Do(<<a, b>>) : a \in {N(1), Loop(T("false"), N(1))},
                  b \in {Out(N(1)), Again, Ret(N(1)), Fn("f", <<>>, Again), Fold2(":", Arr(<<>>)),
                         Loop(T("true"), Fn("f", <<>>, Out(N(1)))), Op("+", N(1), Op("and", Again, N(1)))}}
Unsettled ==
  {Op("and", Out(N(1)), N(1)), If2(Again, N(1)), Op("or", Ret(N(1)), N(2)),
   Do(<<Fn("f", <<>>, Op("+", N(10), If2(T("true"), Do(<<My("x", N(2)), Op("*", V("x"), N(3))>>)))), Run("f", <<>>)>>),
   Do(<<Loop(Op("<", Op("+", N(1), N(1)), N(3)), Op("+", N(1), Out(N(2)))), N(3)>>),
   Do(<<My("xs", Arr(<<N(1)>>)), Fn("f", <<>>, Do(<<Be("xs", Arr(<<N(9), N(9)>>)), N(0)>>)),
        Put2(V("xs"), Run("f", <<>>), N(5)), V("xs")>>),
   Do(<<Obj("T", <<>>, <<Fn("init", <<"self">>, Be("self", N(5)))>>), Mk("T", <<>>)>>),
   Do(<<My("ys", Arr(<<S("a"), S("c")>>)), Fn("g", <<"a", "b">>, Do(<<Run("push", <<V("ys"), N(1)>>), V("a")>>)),
        Zip2("g", V("ys"), N(1))>>)}

MCPrograms ==
  Expressions \cup Scopings \cup Loops \cup Closures \cup Mixed \cup Calling \cup Containers
  \cup Objects \cup Metas \cup Crowded \cup Refused \cup Unsettled

MCTextOrder  == <<"", "a", "ab", "b", "c">>
MCSubstrings == {<<"a", "ab">>}
===============================================================================
