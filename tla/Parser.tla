-------------------------------- MODULE Parser --------------------------------
(* parser.c: precedence climbing over the tokens of a text.  A parse         *)
(* function takes the tokens and the position of p->current and returns the  *)
(* position after what it read, the tree, and the error ("" for none; then   *)
(* pos is p->current when it was found).  A tree is a tuple whose first      *)
(* element is the node's type; node->grouped is a GROUP around the node.     *)
EXTENDS Tokenizer

Ok(pos, node)  == [pos |-> pos, node |-> node, err |-> ""]
Fail(pos, err) == [pos |-> pos, node |-> <<>>, err |-> err]

(* Goes on with Rest unless an error has been found: the first error wins.   *)
Then(r, Rest(_)) == IF r.err = "" THEN Rest(r) ELSE r

IsKeyword(t, kw) == t.type = "IDENT" /\ t.value = kw
IsOp(t, op)      == t.type = "OPERATOR" /\ t.value = op
IsNewline(t)     == t.type = "NEWLINE"

Reserved ==
  {"true", "false", "nothing", "and", "or", "not", "in", "if", "then", "else",
   "end", "while", "do", "break", "continue", "return", "fn", "is", "object",
   "make", "with"}

IsName(t) == t.type = "IDENT" /\ t.value \notin Reserved

SkipNewlines(ts, pos) == RunEnd(ts, pos, IsNewline)

-----------------------------------------------------------------------------
(* Operators.                                                                *)

InfixPrecedence(op) ==
  CASE op = "or"                                        -> 1
    [] op = "and"                                       -> 2
    [] op \in {"==", "!=", "<", ">", "<=", ">=", "in"}  -> 4
    [] op = "++"                                        -> 5
    [] op \in {"+", "-"}                                -> 6
    [] op \in {"*", "/", "%"}                           -> 7
    [] op = "**"                                        -> 9
    [] OTHER                                            -> 0

RightAssociative(op) == op \in {"**", "++"}

IsKeywordInfix(t) == t.type = "IDENT" /\ t.value \in {"and", "or", "in"}

IsComparison(t) ==
  (t.type = "OPERATOR" \/ IsKeywordInfix(t)) /\ InfixPrecedence(t.value) = 4

(* The precedence at which parse_expr takes t as the next operator, 0 if it  *)
(* is none.                                                                  *)
Precedence(t) ==
  CASE IsKeyword(t, "not")                  -> 4
    [] IsOp(t, "[") \/ IsOp(t, ".")         -> 10
    [] t.type = "META"                      -> IF InfixPrecedence(t.value) = 0 THEN 6
                                               ELSE InfixPrecedence(t.value)
    [] t.type = "OPERATOR" \/ IsKeywordInfix(t) -> InfixPrecedence(t.value)
    [] OTHER                                -> 0

\* Mutant: an operator of the same precedence goes to the right operand too.
RightPrecedenceOfAll(t) == Precedence(t)

(* The precedence from which an operator's right operand takes operators.    *)
RightPrecedence(t) ==
  IF RightAssociative(t.value) THEN Precedence(t) ELSE Precedence(t) + 1

(* Whether break and return take what follows as their value.                *)
StartsValue(t) ==
  \/ t.type \in {"NUMBER", "STRING"}
  \/ t.type = "OPERATOR" /\ t.value \in {"(", "-", "[", "{"}
  \/ /\ t.type = "IDENT"
     /\ t.value \notin {"end", "else", "then", "do", "and", "or", "in", "break",
                        "continue", "return"}

RECURSIVE ParseAssignment(_, _), ParseExpr(_, _, _), ParseInfix(_, _, _, _),
          ParseAtom(_, _), ParseList(_, _, _), ParseElements(_, _, _),
          ParseEntries(_, _, _), ParseIf(_, _), ParseBodyRest(_, _, _, _),
          ParseMethods(_, _, _), ParseNames(_, _, _, _)

(* node->grouped, set and looked through.                                    *)
Grouped(node)   == IF node[1] = "GROUP" THEN node ELSE <<"GROUP", node>>
Ungrouped(node) == IF node[1] = "GROUP" THEN node[2] ELSE node

(* The node of a body or of a whole text.                                    *)
Fold(exprs) == IF Len(exprs) = 1 THEN exprs[1] ELSE <<"BLOCK", exprs>>

-----------------------------------------------------------------------------
(* Lists.                                                                    *)

(* Arguments of a call, a method call or a make, after the '('.              *)
ParseList(ts, pos, args) ==
  Then(ParseAssignment(ts, pos), LAMBDA a :
    IF IsOp(ts[a.pos], ",") THEN ParseList(ts, a.pos + 1, Append(args, a.node))
    ELSE IF IsOp(ts[a.pos], ")") THEN Ok(a.pos + 1, Append(args, a.node))
    ELSE Fail(a.pos, "expected ')'"))

ParseArgs(ts, pos) ==
  IF IsOp(ts[pos], ")") THEN Ok(pos + 1, <<>>) ELSE ParseList(ts, pos, <<>>)

(* What closes an array or a map, behind newlines.                           *)
Close(ts, pos, bracket, node) ==
  LET i == SkipNewlines(ts, pos)
  IN  IF IsOp(ts[i], bracket) THEN Ok(i + 1, node)
      ELSE Fail(i, IF bracket = "]" THEN "expected ']'" ELSE "expected '}'")

(* Elements of an array, after the '[' or a ','.                             *)
ParseElements(ts, pos, elems) ==
  LET i == SkipNewlines(ts, pos)
  IN  IF IsOp(ts[i], "]") THEN Ok(i + 1, <<"ARRAY", elems>>)
      ELSE Then(ParseAssignment(ts, i), LAMBDA e :
             IF IsOp(ts[e.pos], ",")
             THEN ParseElements(ts, e.pos + 1, Append(elems, e.node))
             ELSE Close(ts, e.pos, "]", <<"ARRAY", Append(elems, e.node)>>))

(* A key: a bare name, an expression in brackets, or any expression.         *)
ParseKey(ts, pos) ==
  CASE IsName(ts[pos]) ->
         Ok(pos + 1, <<IF IsOp(ts[pos + 1], ":") THEN "STRING" ELSE "IDENT",
                       ts[pos].value>>)
    [] IsOp(ts[pos], "[") ->
         Then(ParseAssignment(ts, pos + 1), LAMBDA k :
           IF IsOp(ts[k.pos], "]") THEN Ok(k.pos + 1, k.node)
           ELSE Fail(k.pos, "expected ']'"))
    [] OTHER -> ParseAssignment(ts, pos)

(* Entries of a map, keys and values alternating, after the '{' or a ','.    *)
ParseEntries(ts, pos, entries) ==
  LET i == SkipNewlines(ts, pos)
  IN  IF IsOp(ts[i], "}") THEN Ok(i + 1, <<"MAP", entries>>)
      ELSE Then(ParseKey(ts, i), LAMBDA k :
             IF ~IsOp(ts[k.pos], ":") THEN Fail(k.pos, "expected ':'")
             ELSE Then(ParseAssignment(ts, k.pos + 1), LAMBDA v :
                    LET all == entries \o <<k.node, v.node>>
                    IN  IF IsOp(ts[v.pos], ",") THEN ParseEntries(ts, v.pos + 1, all)
                        ELSE Close(ts, v.pos, "}", <<"MAP", all>>)))

(* Comma-separated names: parameters, mixins.                                *)
ParseNames(ts, pos, names, err) ==
  IF ~IsName(ts[pos]) THEN Fail(pos, err)
  ELSE LET all == Append(names, ts[pos].value)
       IN  IF IsOp(ts[pos + 1], ",") THEN ParseNames(ts, pos + 2, all, err)
           ELSE Ok(pos + 1, all)

-----------------------------------------------------------------------------
(* Bodies.                                                                   *)

ParseBodyRest(ts, pos, stops, exprs) ==
  LET i == SkipNewlines(ts, pos)
  IN  IF \/ ~IsNewline(ts[pos])
         \/ ts[i].type = "EOF"
         \/ \E kw \in stops : IsKeyword(ts[i], kw)
      THEN Ok(i, Fold(exprs))
      ELSE Then(ParseAssignment(ts, i), LAMBDA e :
             ParseBodyRest(ts, e.pos, stops, Append(exprs, e.node)))

(* Expressions on lines of their own, until one of the keywords in stops.    *)
ParseBody(ts, pos, stops) ==
  LET i == SkipNewlines(ts, pos)
  IN  IF \E kw \in stops : IsKeyword(ts[i], kw)
      THEN Fail(i, "expected expression in body")
      ELSE Then(ParseAssignment(ts, i), LAMBDA e :
             ParseBodyRest(ts, e.pos, stops, <<e.node>>))

(* One expression on the line of the keyword before it.                      *)
ParseInline(ts, pos, stops) ==
  IF \E kw \in stops : IsKeyword(ts[pos], kw)
  THEN Fail(pos, "expected expression in body")
  ELSE ParseAssignment(ts, pos)

\* Mutant: the end of an inline body may stand on a later line.
EndOnAnyLine(ts, pos) ==
  LET i == SkipNewlines(ts, pos) IN IF IsKeyword(ts[i], "end") THEN i + 1 ELSE pos

(* The 'end' of an inline body, on its line.                                 *)
OptionalEnd(ts, pos) == IF IsKeyword(ts[pos], "end") THEN pos + 1 ELSE pos

(* The body of a while or fn: inline with an optional end, or lines and end. *)
ParseEnded(ts, pos) ==
  IF ~IsNewline(ts[pos])
  THEN Then(ParseInline(ts, pos, {"end"}), LAMBDA b :
         Ok(OptionalEnd(ts, b.pos), b.node))
  ELSE Then(ParseBody(ts, pos, {"end"}), LAMBDA b :
         IF IsKeyword(ts[b.pos], "end") THEN Ok(b.pos + 1, b.node)
         ELSE Fail(b.pos, "expected 'end'"))

(* if and while: the condition and the keyword that ends it, which is read.  *)
ParseCondition(ts, pos, kw) ==
  LET i == SkipNewlines(ts, pos + 1)
  IN  IF IsKeyword(ts[i], kw) THEN Fail(i, "expected condition")
      ELSE Then(ParseAssignment(ts, i), LAMBDA c :
             LET j == SkipNewlines(ts, c.pos)
             IN  IF IsKeyword(ts[j], kw) THEN Ok(j + 1, c.node)
                 ELSE Fail(j, IF kw = "then" THEN "expected 'then'" ELSE "expected 'do'"))

InlineIf(ts, pos, cond) ==
  Then(ParseInline(ts, pos, {"else", "end"}), LAMBDA b :
    IF ~IsKeyword(ts[b.pos], "else")
    THEN Ok(OptionalEnd(ts, b.pos), <<"IF", <<cond, b.node>>>>)
    ELSE Then(IF IsKeyword(ts[b.pos + 1], "if") THEN ParseIf(ts, b.pos + 1)
              ELSE ParseInline(ts, b.pos + 1, {"end"}), LAMBDA e :
           Ok(OptionalEnd(ts, e.pos), <<"IF", <<cond, b.node, e.node>>>>)))

LinesIf(ts, pos, cond) ==
  Then(ParseBody(ts, pos, {"else", "end"}), LAMBDA b :
    LET i == SkipNewlines(ts, b.pos + 1)
    IN  CASE IsKeyword(ts[b.pos], "end") -> Ok(b.pos + 1, <<"IF", <<cond, b.node>>>>)
          [] ~(IsKeyword(ts[b.pos], "end") \/ IsKeyword(ts[b.pos], "else")) ->
               Fail(b.pos, "expected 'else' or 'end'")
          [] OTHER ->
               IF IsKeyword(ts[i], "if")
               THEN Then(ParseIf(ts, i), LAMBDA e :
                      Ok(e.pos, <<"IF", <<cond, b.node, e.node>>>>))
               ELSE Then(ParseBody(ts, i, {"end"}), LAMBDA e :
                      IF IsKeyword(ts[e.pos], "end")
                      THEN Ok(e.pos + 1, <<"IF", <<cond, b.node, e.node>>>>)
                      ELSE Fail(e.pos, "expected 'end'")))

ParseIf(ts, pos) ==
  Then(ParseCondition(ts, pos, "then"), LAMBDA c :
    IF IsNewline(ts[c.pos]) THEN LinesIf(ts, c.pos, c.node)
    ELSE InlineIf(ts, c.pos, c.node))

ParseWhile(ts, pos) ==
  Then(ParseCondition(ts, pos, "do"), LAMBDA c :
    Then(ParseEnded(ts, c.pos), LAMBDA b : Ok(b.pos, <<"WHILE", c.node, b.node>>)))

-----------------------------------------------------------------------------
(* Definitions.                                                              *)

(* The parameter list, 'is' and the body; pos is at the '('.                 *)
ParseFnRest(ts, pos, name) ==
  IF ~IsOp(ts[pos], "(") THEN Fail(pos, "expected '('")
  ELSE Then(IF IsOp(ts[pos + 1], ")") THEN Ok(pos + 1, <<>>)
            ELSE ParseNames(ts, pos + 1, <<>>, "expected parameter name"),
            LAMBDA params :
         LET i == SkipNewlines(ts, params.pos + 1)
         IN  IF ~IsOp(ts[params.pos], ")") THEN Fail(params.pos, "expected ')'")
             ELSE IF ~IsKeyword(ts[i], "is") THEN Fail(i, "expected 'is'")
             ELSE Then(ParseEnded(ts, i + 1), LAMBDA b :
                    Ok(b.pos, <<"FUNCTION", name, params.node, b.node>>)))

ParseFn(ts, pos) ==
  LET t == ts[pos + 1]
  IN  IF IsOp(t, "(") THEN ParseFnRest(ts, pos + 1, "")
      ELSE IF IsName(t) THEN ParseFnRest(ts, pos + 2, t.value)
      ELSE Fail(pos + 1, "expected function name")

(* Methods until 'end'; an anonymous one is an error.                        *)
ParseMethods(ts, pos, methods) ==
  IF IsKeyword(ts[pos], "end") THEN Ok(pos + 1, methods)
  ELSE IF ~IsKeyword(ts[pos], "fn") THEN Fail(pos, "expected 'fn' or 'end' in object body")
  ELSE Then(ParseFn(ts, pos), LAMBDA f :
         IF f.node[2] = "" THEN Fail(f.pos, "object methods must be named")
         ELSE ParseMethods(ts, SkipNewlines(ts, f.pos), Append(methods, f.node)))

ParseObject(ts, pos) ==
  LET named == IsName(ts[pos + 1])
      i     == IF named THEN pos + 2 ELSE pos + 1
  IN  IF ~named /\ ~IsKeyword(ts[i], "is") THEN Fail(i, "expected type name")
      ELSE Then(IF IsKeyword(ts[i], "with")
                THEN ParseNames(ts, i + 1, <<>>, "expected mixin name")
                ELSE Ok(i, <<>>), LAMBDA mixins :
             IF ~IsKeyword(ts[mixins.pos], "is") THEN Fail(mixins.pos, "expected 'is'")
             ELSE Then(ParseMethods(ts, SkipNewlines(ts, mixins.pos + 1), <<>>), LAMBDA ms :
                    Ok(ms.pos, <<"OBJECT_DEF", IF named THEN ts[pos + 1].value ELSE "",
                                 mixins.node, ms.node>>)))

ParseMake(ts, pos) ==
  IF ~IsName(ts[pos + 1]) THEN Fail(pos + 1, "expected type name")
  ELSE IF ~IsOp(ts[pos + 2], "(") THEN Fail(pos + 2, "expected '('")
  ELSE Then(ParseArgs(ts, pos + 3), LAMBDA a :
         Ok(a.pos, <<"MAKE", ts[pos + 1].value, a.node>>))

(* break and return: the value, if one follows.                              *)
ParseJump(ts, pos, type) ==
  IF StartsValue(ts[pos + 1])
  THEN Then(ParseAssignment(ts, pos + 1), LAMBDA v : Ok(v.pos, <<type, <<v.node>>>>))
  ELSE Ok(pos + 1, <<type, <<>>>>)

-----------------------------------------------------------------------------
(* Expressions.                                                              *)

ParseKeyword(ts, pos) ==
  CASE ts[pos].value \in {"true", "false"} -> Ok(pos + 1, <<"BOOL", ts[pos].value>>)
    [] ts[pos].value = "nothing"  -> Ok(pos + 1, <<"NOTHING">>)
    [] ts[pos].value = "if"       -> ParseIf(ts, pos)
    [] ts[pos].value = "while"    -> ParseWhile(ts, pos)
    [] ts[pos].value = "fn"       -> ParseFn(ts, pos)
    [] ts[pos].value = "object"   -> ParseObject(ts, pos)
    [] ts[pos].value = "make"     -> ParseMake(ts, pos)
    [] ts[pos].value = "break"    -> ParseJump(ts, pos, "BREAK")
    [] ts[pos].value = "continue" -> Ok(pos + 1, <<"CONTINUE">>)
    [] ts[pos].value = "return"   -> ParseJump(ts, pos, "RETURN")
    [] ts[pos].value = "not"      -> Then(ParseExpr(ts, pos + 1, 3), LAMBDA e :
                                       Ok(e.pos, <<"UNARY", "not", e.node>>))
    [] ts[pos].value \in {"and", "or"} -> Fail(pos, "unexpected keyword")
    [] OTHER -> IF IsOp(ts[pos + 1], "(")
                THEN Then(ParseArgs(ts, pos + 2), LAMBDA a :
                       Ok(a.pos, <<"CALL", ts[pos].value, a.node>>))
                ELSE Ok(pos + 1, <<"IDENT", ts[pos].value>>)

ParseAtom(ts, pos) ==
  LET t == ts[pos]
  IN  CASE t.type = "ERROR"   -> Fail(pos, t.value)
        [] t.type = "EOF"     -> Fail(pos, "expected expression, got EOF")
        [] t.type = "NEWLINE" -> Fail(pos, "expected expression, got newline")
        [] t.type = "META"    -> Then(ParseExpr(ts, pos + 1, 8), LAMBDA e :
                                   Ok(e.pos, <<"REDUCE", t.value, e.node>>))
        [] t.type \in {"NUMBER", "STRING"} -> Ok(pos + 1, <<t.type, t.value>>)
        [] t.type = "IDENT"   -> ParseKeyword(ts, pos)
        [] IsOp(t, "-")       -> Then(ParseExpr(ts, pos + 1, 8), LAMBDA e :
                                   Ok(e.pos, <<"UNARY", "-", e.node>>))
        [] IsOp(t, "(")       -> Then(ParseAssignment(ts, pos + 1), LAMBDA e :
                                   IF IsOp(ts[e.pos], ")")
                                   THEN Ok(e.pos + 1, Grouped(e.node))
                                   ELSE Fail(e.pos, "expected ')'"))
        [] IsOp(t, "[")       -> ParseElements(ts, pos + 1, <<>>)
        [] IsOp(t, "{")       -> ParseEntries(ts, pos + 1, <<>>)
        [] OTHER              -> Fail(pos, "unexpected operator")

(* Behind a '.': a method call, or the property of that name.                *)
ParseDot(ts, pos, left) ==
  IF ts[pos].type # "IDENT"
  THEN Fail(pos, IF ts[pos].type \in {"EOF", "NEWLINE"}
                 THEN "expected identifier after '.'"
                 ELSE "expected identifier after '.', got something")
  ELSE IF IsOp(ts[pos + 1], "(")
       THEN Then(ParseArgs(ts, pos + 2), LAMBDA a :
              Ok(a.pos, <<"METHOD_CALL", left, ts[pos].value, a.node>>))
       ELSE Ok(pos + 1, <<"INDEX", left, <<"STRING", ts[pos].value>>>>)

ParseIndex(ts, pos, left) ==
  Then(ParseAssignment(ts, pos), LAMBDA i :
    IF IsOp(ts[i.pos], "]") THEN Ok(i.pos + 1, <<"INDEX", left, i.node>>)
    ELSE Fail(i.pos, "expected ']'"))

(* An operand that must not be followed by a further comparison.             *)
NotChained(ts, r, node) ==
  IF IsComparison(ts[r.pos])
  THEN Fail(r.pos, "comparison operators cannot be chained")
  ELSE Ok(r.pos, node)

(* What the operator t at pos makes of the operand before it.                *)
ParseOperator(ts, pos, left) ==
  LET t == ts[pos]
  IN  CASE IsKeyword(t, "not") ->
             IF ~IsKeyword(ts[pos + 1], "in") THEN Fail(pos + 1, "expected 'in' after 'not'")
             ELSE Then(ParseExpr(ts, pos + 2, 5), LAMBDA r :
                    NotChained(ts, r, <<"UNARY", "not", <<"BINOP", "in", left, r.node>>>>))
        [] IsOp(t, "[") -> ParseIndex(ts, pos + 1, left)
        [] IsOp(t, ".") -> ParseDot(ts, pos + 1, left)
        [] t.type = "META" ->
             Then(ParseExpr(ts, pos + 1, RightPrecedence(t)), LAMBDA r :
               Ok(r.pos, <<"VECTORIZE", t.value, left, r.node>>))
        [] OTHER ->
             Then(ParseExpr(ts, pos + 1, RightPrecedence(t)), LAMBDA r :
               LET node == <<"BINOP", t.value, left, r.node>>
               IN  IF IsComparison(t) THEN NotChained(ts, r, node) ELSE Ok(r.pos, node))

(* The loop of parse_expr.                                                   *)
ParseInfix(ts, pos, left, min) ==
  IF Precedence(ts[pos]) = 0 \/ Precedence(ts[pos]) < min THEN Ok(pos, left)
  ELSE Then(ParseOperator(ts, pos, left), LAMBDA r : ParseInfix(ts, r.pos, r.node, min))

ParseExpr(ts, pos, min) ==
  Then(ParseAtom(ts, pos), LAMBDA a : ParseInfix(ts, a.pos, a.node, min))

ParseDeclaration(ts, pos) ==
  IF ~IsName(ts[pos + 1]) THEN Fail(pos + 1, "expected identifier after 'my'")
  ELSE IF ~IsOp(ts[pos + 2], "=") THEN Fail(pos + 2, "expected '=' after variable name")
  ELSE Then(ParseAssignment(ts, pos + 3), LAMBDA e :
         Ok(e.pos, <<"DECL", ts[pos + 1].value, e.node>>))

(* What '=' makes of the expression before it.                               *)
ParseTarget(ts, pos, left) ==
  LET target == Ungrouped(left)
  IN  CASE target[1] = "INDEX" ->
             Then(ParseAssignment(ts, pos + 1), LAMBDA e :
               Ok(e.pos, <<"INDEX_ASSIGN", target[2], target[3], e.node>>))
        [] left[1] = "IDENT" ->
             Then(ParseAssignment(ts, pos + 1), LAMBDA e :
               Ok(e.pos, <<"ASSIGN", left[2], e.node>>))
        [] OTHER -> Fail(pos, "invalid assignment target")

ParseAssignment(ts, pos) ==
  IF IsKeyword(ts[pos], "my") THEN ParseDeclaration(ts, pos)
  ELSE Then(ParseExpr(ts, pos, 0), LAMBDA left :
         IF IsOp(ts[left.pos], "=") THEN ParseTarget(ts, left.pos, left.node) ELSE left)

-----------------------------------------------------------------------------
(* parser_parse and parser_is_complete.                                      *)

ParserParse(ts) ==
  LET first == SkipNewlines(ts, 1)
  IN  IF ts[first].type = "EOF" THEN Fail(first, "expected expression, got EOF")
      ELSE Then(ParseAssignment(ts, first), LAMBDA e :
             Then(ParseBodyRest(ts, e.pos, {}, <<e.node>>), LAMBDA all :
               CASE ts[all.pos].type = "EOF"   -> all
                 [] ts[all.pos].type = "ERROR" -> Fail(all.pos, ts[all.pos].value)
                 [] OTHER                      -> Fail(all.pos, "unexpected extra token")))

(* is_whitespace_only: blanks, newlines and comments.                        *)
IsWhitespaceOnly(ts) == \A i \in DOMAIN ts : ts[i].type \in {"NEWLINE", "EOF"}

\* Mutant: a method body's missing end is not among them.
MissingInputWithoutBodies ==
  {"unterminated string", "expected expression, got EOF",
   "expected expression, got newline", "expected ')'", "expected ']'",
   "expected '}'", "expected ':'", "expected identifier after '.'",
   "expected 'then'", "expected 'end'", "expected 'do'", "expected 'is'",
   "expected 'else' or 'end'"}

(* The errors parser_is_complete takes for the sign of missing input.        *)
MissingInput ==
  {"unterminated string", "expected expression, got EOF",
   "expected expression, got newline", "expected ')'", "expected ']'",
   "expected '}'", "expected ':'", "expected identifier after '.'",
   "expected 'then'", "expected 'end'", "expected 'do'", "expected 'is'",
   "expected 'fn' or 'end' in object body", "expected 'else' or 'end'"}

ParserIsComplete(ts) ==
  IsWhitespaceOnly(ts) \/ ParserParse(ts).err \notin MissingInput
===============================================================================
