------------------------------ MODULE Tokenizer -------------------------------
(* tokenizer.c.  A text is a sequence of characters; positions are counted   *)
(* from 1.  A character of Letters may stand for a whole run of letters: no  *)
(* rule of the tokenizer looks inside such a run.                            *)
EXTENDS Integers, SequencesExt

CONSTANTS Letters,      \* characters is_ascii_letter accepts
          Digits        \* characters is_ascii_digit accepts

ASSUME LettersAndDigits ==
  /\ Letters \cap Digits = {}
  /\ (Letters \cup Digits) \cap
       {" ", "\t", "\n", "\r", "#", "\"", "_", "@", ".", "+", "-"} = {}

IsWhitespace(c)    == c \in {" ", "\t"}
IsNewlineChar(c)   == c \in {"\n", "\r"}
IsLetter(c)        == c \in Letters
IsDigit(c)         == c \in Digits
IsIdentStart(c)    == IsLetter(c) \/ c = "_"
IsIdentContinue(c) == IsLetter(c) \/ IsDigit(c) \/ c = "_"
IsSymbolChar(c)    == ~(IsWhitespace(c) \/ IsIdentContinue(c) \/ c = "\"")
IsSoloSymbol(c)    == c \in {"(", ")", "[", "]", "{", "}", "+", "-", "/", "%",
                             ",", ":", "."}

(* The character at i, if there is one, satisfies P.                         *)
At(text, i, P(_)) == i <= Len(text) /\ P(text[i])

(* Where the longest run of characters that satisfy P, from i on, ends.      *)
RunEnd(text, i, P(_)) ==
  LET end[k \in Nat] == IF At(text, k, P) THEN end[k + 1] ELSE k IN end[i]

(* The characters from i up to but not including j, as one string.           *)
Slice(text, i, j) ==
  LET joined[k \in Nat] == IF k < j THEN text[k] \o joined[k + 1] ELSE "" IN joined[i]

(* skip_whitespace: blanks and comments; the newline stays.                  *)
SkipWhitespace(text, i) ==
  LET skip[k \in Nat] ==
        IF At(text, k, IsWhitespace) THEN skip[k + 1]
        ELSE IF At(text, k, LAMBDA c : c = "#")
             THEN skip[RunEnd(text, k, LAMBDA c : ~IsNewlineChar(c))]
             ELSE k
  IN  skip[i]

-----------------------------------------------------------------------------
(* What each read_* function leaves tok->pos at.                             *)

\* Mutant: a CR and the LF behind it are two line ends.
NewlineEndsAtOnce(text, i) == i + 1

NewlineEnd(text, i) ==
  IF text[i] = "\r" /\ At(text, i + 1, LAMBDA c : c = "\n") THEN i + 2 ELSE i + 1

NumberEnd(text, i) ==
  LET whole == RunEnd(text, i, IsDigit)
  IN  IF At(text, whole, LAMBDA c : c = ".") /\ At(text, whole + 1, IsDigit)
      THEN RunEnd(text, whole + 1, IsDigit)
      ELSE whole

\* Mutant: a dash between an identifier and anything else belongs to it.
IdentEndWithDashes(text, i) == RunEnd(text, i, LAMBDA c : IsIdentContinue(c) \/ c = "-")

(* A dash belongs to an identifier when a letter follows it.                 *)
IdentEnd(text, i) ==
  LET end[k \in Nat] ==
        LET run == RunEnd(text, k, IsIdentContinue)
        IN  IF At(text, run, LAMBDA c : c = "-") /\ At(text, run + 1, IsLetter)
            THEN end[run + 1]
            ELSE run
  IN  end[i]

(* The run of symbol characters; a newline, a '#' and a '@' are among them.  *)
OperatorEnd(text, i) ==
  IF text[i] \in {"+", "."} /\ At(text, i + 1, LAMBDA c : c = text[i]) THEN i + 2
  ELSE IF IsSoloSymbol(text[i]) THEN i + 1
  ELSE RunEnd(text, i, LAMBDA c : IsSymbolChar(c) /\ ~IsSoloSymbol(c))

(* Behind the '@' an operator, or an identifier without dashes.              *)
MetaEnd(text, i) ==
  IF At(text, i + 1, IsIdentStart) THEN RunEnd(text, i + 1, IsIdentContinue)
  ELSE OperatorEnd(text, i + 1)

(* The closing quote of the string opened at i, or what is found instead.    *)
StringEnd(text, i) ==
  RunEnd(text, i + 1, LAMBDA c : c # "\"" /\ ~IsNewlineChar(c))

-----------------------------------------------------------------------------
(* The tokenizer: where it stands, and the token that end or error repeats.  *)

Token(type, value, pos, line, col) ==
  [type |-> type, value |-> value, pos |-> pos, line |-> line, col |-> col]

NoToken == Token("NONE", "", 0, 0, 0)

TokenizerCreate == [pos |-> 1, line |-> 1, col |-> 1, sticky |-> NoToken]

(* What tokenizer_next hands out, tok standing at the token: a token that     *)
(* ends at end, or one that it repeats from now on.                          *)
Emit(tok, type, value, end) ==
  [token |-> Token(type, value, tok.pos, tok.line, tok.col),
   tok   |-> [tok EXCEPT !.pos = end, !.col = @ + (end - tok.pos)]]

Stick(tok, type, value) ==
  LET token == Token(type, value, tok.pos, tok.line, tok.col)
  IN  [token |-> token, tok |-> [tok EXCEPT !.sticky = token]]

ReadNewline(text, tok) ==
  [token |-> Token("NEWLINE", "\n", tok.pos, tok.line, tok.col),
   tok   |-> [tok EXCEPT !.pos = NewlineEnd(text, tok.pos), !.line = @ + 1, !.col = 1]]

ReadString(text, tok, end) ==
  IF At(text, end, LAMBDA c : c = "\"")
  THEN Emit(tok, "STRING", Slice(text, tok.pos + 1, end), end + 1)
  ELSE Stick(tok, "ERROR", "unterminated string")

ReadNumber(text, tok, end) ==
  IF At(text, end, IsIdentStart) THEN Stick(tok, "ERROR", "number followed by identifier")
  ELSE Emit(tok, "NUMBER", Slice(text, tok.pos, end), end)

ReadIdent(text, tok, end)    == Emit(tok, "IDENT", Slice(text, tok.pos, end), end)
ReadOperator(text, tok, end) == Emit(tok, "OPERATOR", Slice(text, tok.pos, end), end)

ReadMeta(text, tok) ==
  IF At(text, tok.pos + 1, LAMBDA c : IsIdentStart(c) \/ IsSymbolChar(c))
  THEN LET end == MetaEnd(text, tok.pos) IN Emit(tok, "META", Slice(text, tok.pos + 1, end), end)
  ELSE Stick(tok, "ERROR", "expected operator after @")

(* The token at tok.pos.                                                     *)
ReadToken(text, tok) ==
  IF tok.pos > Len(text) THEN Stick(tok, "EOF", "")
  ELSE LET c == text[tok.pos]
       IN  CASE IsNewlineChar(c) -> ReadNewline(text, tok)
             [] c = "\""         -> ReadString(text, tok, StringEnd(text, tok.pos))
             [] IsDigit(c)       -> ReadNumber(text, tok, NumberEnd(text, tok.pos))
             [] IsIdentStart(c)  -> ReadIdent(text, tok, IdentEnd(text, tok.pos))
             [] c = "@"          -> ReadMeta(text, tok)
             [] OTHER            -> ReadOperator(text, tok, OperatorEnd(text, tok.pos))

Advance(tok, i) == [tok EXCEPT !.pos = i, !.col = @ + (i - tok.pos)]

(* One call of tokenizer_next: the token, and the tokenizer after it.        *)
TokenizerNext(text, tok) ==
  IF tok.sticky # NoToken THEN [token |-> tok.sticky, tok |-> tok]
  ELSE ReadToken(text, Advance(tok, SkipWhitespace(text, tok.pos)))

(* What tokenizer_next returns from the call on that made step, up to and    *)
(* including the end of input or the first error.                            *)
RECURSIVE From(_, _)
From(text, step) ==
  <<step.token>> \o
    (IF step.tok.sticky = NoToken THEN From(text, TokenizerNext(text, step.tok)) ELSE <<>>)

Tokens(text) == From(text, TokenizerNext(text, TokenizerCreate))
===============================================================================
