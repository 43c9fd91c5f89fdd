-------------------------------- MODULE Grammar --------------------------------
(* What a text of cutlet means, without saying how it is read: which stretch *)
(* of characters is a token, and which trees a row of operators and operands *)
(* may have.  plans/done/20260219145149-parser.md:5 is where the table of    *)
(* precedences is written down; TUTORIAL.md describes the tokens.            *)
EXTENDS Integers, SequencesExt, FiniteSetsExt

CONSTANTS Letters, Digits

LOCAL Solo    == {"(", ")", "[", "]", "{", "}", "+", "-", "/", "%", ",", ":", "."}
LOCAL Names   == Letters \cup {"_"}
LOCAL InNames == Names \cup Digits
LOCAL Breaks  == {"\n", "\r"}
LOCAL Blanks  == {" ", "\t"}

LOCAL All(s, S) == \A i \in DOMAIN s : s[i] \in S

-----------------------------------------------------------------------------
(* Tokens.                                                                   *)

IsWord(s) ==
  /\ s # <<>> /\ s[1] \in Names /\ All(s, InNames \cup {"-"})
  /\ \A i \in DOMAIN s : s[i] = "-" => i < Len(s) /\ s[i + 1] \in Letters

IsNumber(s) ==
  \/ s # <<>> /\ All(s, Digits)
  \/ \E i \in 2..(Len(s) - 1) :
       s[i] = "." /\ All(SubSeq(s, 1, i - 1), Digits) /\ All(SubSeq(s, i + 1, Len(s)), Digits)

IsSymbol(s) ==
  \/ s \in {<<"+", "+">>, <<".", ".">>}
  \/ Len(s) = 1 /\ s[1] \in Solo
  \/ s # <<>> /\ \A c \in ToSet(s) : c \notin Solo \cup InNames \cup Blanks \cup {"\""}

IsString(s) ==
  Len(s) >= 2 /\ s[1] = "\"" /\ Last(s) = "\"" /\
  \A i \in 2..(Len(s) - 1) : s[i] \notin Breaks \cup {"\""}

IsMeta(s) ==
  Len(s) >= 2 /\ s[1] = "@" /\
  LET rest == Tail(s) IN IsSymbol(rest) \/ (rest[1] \in Names /\ All(rest, InNames))

IsBreak(s) == s \in {<<"\n">>, <<"\r">>, <<"\r", "\n">>}

(* Whether s, standing where nothing else precedes it, is a token of a kind. *)
IsA(kind, s) ==
  CASE kind = "IDENT"    -> IsWord(s)
    [] kind = "NUMBER"   -> IsNumber(s)
    [] kind = "STRING"   -> IsString(s)
    [] kind = "META"     -> IsMeta(s)
    [] kind = "NEWLINE"  -> IsBreak(s)
    [] kind = "OPERATOR" -> IsSymbol(s) /\ s[1] \notin Breaks \cup {"@", "#"}

IsToken(s) == IsWord(s) \/ IsBreak(s) \/ \E k \in {"NUMBER", "STRING", "META", "OPERATOR"} : IsA(k, s)

(* The ends of the tokens that might start at i.                             *)
Ends(text, i) == {j \in (i + 1)..(Len(text) + 1) : IsToken(SubSeq(text, i, j - 1))}

(* i is neither blank nor, given that the token before it ended at from,     *)
(* inside a comment.                                                         *)
Skipped(text, from, i) ==
  \A k \in from..(i - 1) :
    \/ text[k] \in Blanks
    \/ \E h \in from..k : text[h] = "#" /\ \A n \in h..k : text[n] \notin Breaks

(* Line and column of position i.                                            *)
BreaksBefore(text, i) ==
  {k \in 1..(i - 1) : text[k] = "\n" \/ (text[k] = "\r" /\ ~(k < Len(text) /\ text[k + 1] = "\n"))}
LineOf(text, i)   == 1 + Cardinality(BreaksBefore(text, i))
ColumnOf(text, i) == i - (IF BreaksBefore(text, i) = {} THEN 0 ELSE Max(BreaksBefore(text, i)))

-----------------------------------------------------------------------------
(* Trees of operators and operands.                                          *)

(* From the loosest to the tightest.                                         *)
Levels ==
  << {"or"}, {"and"}, {"not"}, {"==", "!=", "<", ">", "<=", ">=", "in"}, {"++"},
     {"+", "-"}, {"*", "/", "%"}, {"negation"}, {"**"}, {"index"} >>

Level(op) == CHOOSE i \in DOMAIN Levels : op \in Levels[i]
Infix == UNION {Levels[i] : i \in {1, 2, 4, 5, 6, 7, 9}}

MetaLevel(op) == IF op \in Infix THEN Level(op) ELSE Level("+")
RightFirst == {"++", "**"}

(* The loosest operator that could still take something to the right of the  *)
(* tree, and the loosest infix operator on its left edge.                    *)
RECURSIVE OpenRight(_), OpenLeft(_)
Tightest == Len(Levels) + 1

OpenRight(n) ==
  CASE n[1] = "BINOP"     -> Min({Level(n[2]), OpenRight(n[4])})
    [] n[1] = "VECTORIZE" -> Min({MetaLevel(n[2]), OpenRight(n[4])})
    [] n[1] = "UNARY" /\ n[2] = "not" -> Min({Level("not"), OpenRight(n[3])})
    [] n[1] = "UNARY" /\ n[2] = "-"   -> Min({Level("negation"), OpenRight(n[3])})
    [] n[1] = "NOT_IN"    -> Min({Level("in"), OpenRight(n[3])})
    [] n[1] = "REDUCE"    -> Min({Level("negation"), OpenRight(n[3])})
    [] OTHER              -> Tightest

OpenLeft(n) ==
  CASE n[1] = "BINOP"     -> Min({Level(n[2]), OpenLeft(n[3])})
    [] n[1] = "VECTORIZE" -> Min({MetaLevel(n[2]), OpenLeft(n[3])})
    [] n[1] = "NOT_IN"    -> Min({Level("in"), OpenLeft(n[2])})
    [] n[1] = "INDEX"     -> Min({Level("index"), OpenLeft(n[2])})
    [] OTHER              -> Tightest

(* Whether an infix operator of that level may have these operands.  not in  *)
(* is the one comparison that may follow another.                            *)
MayJoin(level, op, l, r) ==
  LET rightFirst == op \in RightFirst
      chained    == level = Level("==") /\ op # "not in"
  IN  /\ IF rightFirst \/ chained THEN OpenRight(l) > level ELSE OpenRight(l) >= level
      /\ IF rightFirst THEN OpenLeft(r) >= level ELSE OpenLeft(r) > level

IsOperand(t) ==
  t.type \in {"NUMBER", "STRING"} \/ (t.type = "IDENT" /\ t.value \notin {"and", "or", "not", "in"})

(* Every tree the grammar gives to the tokens s; not in has a node of its    *)
(* own here.                                                                 *)
RECURSIVE Readings(_)
Readings(s) ==
  LET n      == Len(s)
      Is(i, v) == s[i].type \in {"OPERATOR", "IDENT"} /\ s[i].value = v
      Up(i)    == Readings(SubSeq(s, 1, i))
      From(i)  == Readings(SubSeq(s, i, n))
      Between  == 2..(n - 1)
  IN  IF n = 0 THEN {}
      ELSE IF n = 1 THEN (IF IsOperand(s[1]) THEN {<<s[1].type, s[1].value>>} ELSE {})
      ELSE UNION
        { IF Is(1, "(") /\ Is(n, ")")
          THEN {IF t[1] = "GROUP" THEN t ELSE <<"GROUP", t>> : t \in Readings(SubSeq(s, 2, n - 1))}
          ELSE {},
          IF Is(1, "not")
          THEN {<<"UNARY", "not", t>> : t \in {t \in From(2) : OpenLeft(t) >= Level("not")}}
          ELSE {},
          IF Is(1, "-")
          THEN {<<"UNARY", "-", t>> : t \in {t \in From(2) : OpenLeft(t) >= Level("negation")}}
          ELSE {},
          IF s[1].type = "META"
          THEN {<<"REDUCE", s[1].value, t>> : t \in {t \in From(2) : OpenLeft(t) >= Level("negation")}}
          ELSE {},
          UNION {{<<"INDEX", p[1], p[2]>> :
                    p \in {q \in Up(k - 1) \X Readings(SubSeq(s, k + 1, n - 1)) :
                             OpenRight(q[1]) >= Level("index")}} :
                   k \in {k \in Between : Is(k, "[") /\ Is(n, "]")}},
          UNION {{<<"NOT_IN", p[1], p[2]>> :
                    p \in {q \in Up(k - 1) \X From(k + 2) : MayJoin(Level("in"), "not in", q[1], q[2])}} :
                   k \in {k \in Between : k + 1 < n /\ Is(k, "not") /\ Is(k + 1, "in")}},
          UNION {{<<"VECTORIZE", s[k].value, p[1], p[2]>> :
                    p \in {q \in Up(k - 1) \X From(k + 1) :
                             MayJoin(MetaLevel(s[k].value), s[k].value, q[1], q[2])}} :
                   k \in {k \in Between : s[k].type = "META"}},
          UNION {{<<"BINOP", s[k].value, p[1], p[2]>> :
                    p \in {q \in Up(k - 1) \X From(k + 1) :
                             MayJoin(Level(s[k].value), s[k].value, q[1], q[2])}} :
                   k \in {k \in Between : s[k].type \in {"OPERATOR", "IDENT"} /\ s[k].value \in Infix}} }

(* The node the program has for x not in y.                                  *)
RECURSIVE Plain(_)
Plain(n) ==
  CASE n[1] = "NOT_IN"               -> <<"UNARY", "not", <<"BINOP", "in", Plain(n[2]), Plain(n[3])>>>>
    [] n[1] \in {"BINOP", "VECTORIZE"} -> <<n[1], n[2], Plain(n[3]), Plain(n[4])>>
    [] n[1] \in {"UNARY", "REDUCE"}    -> <<n[1], n[2], Plain(n[3])>>
    [] n[1] = "GROUP"                -> <<"GROUP", Plain(n[2])>>
    [] n[1] = "INDEX"                -> <<"INDEX", Plain(n[2]), Plain(n[3])>>
    [] OTHER                         -> n

(* Tokens of a row of operators and operands: no keyword, call, literal,      *)
(* assignment or vectorized comparison among them.                           *)
Keywords ==
  {"true", "false", "nothing", "if", "while", "fn", "object", "make", "break",
   "continue", "return", "my", "then", "else", "end", "do", "is", "with"}

IsOperatorRow(s) ==
  LET IsWordToken(i, w) == s[i].type = "IDENT" /\ s[i].value = w
      EndsOperand(i) ==
        i > 0 /\ (IsOperand(s[i]) \/ (s[i].type = "OPERATOR" /\ s[i].value \in {")", "]"}))
  IN  \A i \in DOMAIN s :
        CASE s[i].type = "OPERATOR" ->
               /\ s[i].value \in Infix \cup {"(", ")", "[", "]"}
               /\ s[i].value = "(" => i = 1 \/ ~IsOperand(s[i - 1]) \/ s[i - 1].type # "IDENT"
               /\ s[i].value = "[" => EndsOperand(i - 1)
          [] s[i].type = "IDENT" ->
               /\ s[i].value \notin Keywords
               /\ s[i].value = "in" =>
                    EndsOperand(i - 1) \/ (i > 2 /\ IsWordToken(i - 1, "not") /\ EndsOperand(i - 2))
          [] s[i].type = "META" -> s[i].value \notin Levels[Level("==")]
          [] OTHER -> s[i].type \in {"NUMBER", "STRING"}
===============================================================================
