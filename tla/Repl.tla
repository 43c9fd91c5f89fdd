---------------------------------- MODULE Repl ----------------------------------
(* The loops of main.c that turn typed lines into evaluations: the local     *)
(* REPL at a terminal and behind a pipe, the two loops of the client, which  *)
(* send to a server what the local ones hand to repl_eval_line, and the      *)
(* evaluation of a file.  Of an evaluation this module keeps what the parser *)
(* says.                                                                     *)
EXTENDS Parser

G == INSTANCE Grammar

CONSTANTS
  Vocabularies,   \* what a user may type, and into which loops: by name,
                  \* records [pieces, max, lines, modes]
  LineMax,        \* MAX_LINE_LEN: what fgets takes at once, with its newline
  InputMax        \* MAX_INPUT_BUF

ASSUME ReplAssumption ==
  /\ \A v \in DOMAIN Vocabularies :
       Vocabularies[v].modes \subseteq {"terminal", "pipe", "client pipe", "file"}
  /\ LineMax \in Nat \ {0, 1} /\ InputMax \in Nat

VARIABLES
  vocab,          \* the name of the user's vocabulary
  mode,           \* the loop that runs
  left,           \* how many pieces, and lines, the user still types
  stdin,          \* characters typed that no loop has read yet
  inputBuf,       \* input_buf
  results,        \* what was printed: [text, ok, exprs] for each evaluation
  file,           \* every line typed so far, as a file would hold them
  cut,            \* a line was split, or input dropped for its length
  ended           \* the loop has seen the end of its input

vars == <<vocab, mode, left, stdin, inputBuf, results, file, cut, ended>>

Init ==
  /\ vocab \in DOMAIN Vocabularies
  /\ mode \in Vocabularies[vocab].modes
  /\ left = [pieces |-> Vocabularies[vocab].max, lines |-> Vocabularies[vocab].lines]
  /\ stdin = <<>> /\ inputBuf = <<>> /\ results = <<>> /\ file = <<>>
  /\ cut = FALSE /\ ended = FALSE

-----------------------------------------------------------------------------
(* repl_eval_line, as far as the parser: the top-level expressions, or the   *)
(* parse error.                                                              *)
Result(text, r) ==
  IF r.err # "" THEN [text |-> text, ok |-> FALSE, exprs |-> <<>>]
  ELSE [text |-> text, ok |-> TRUE,
        exprs |-> IF r.node[1] = "BLOCK" THEN r.node[2] ELSE <<r.node>>]

EvalTokens(text, ts) ==
  IF IsWhitespaceOnly(ts) THEN [text |-> text, ok |-> TRUE, exprs |-> <<>>]
  ELSE Result(text, ParserParse(ts))

Eval(text) == EvalTokens(text, Tokens(text))

(* The lines that so many pieces of a vocabulary can make.                   *)
Lines ==
  [v \in DOMAIN Vocabularies |->
     [n \in 0..Vocabularies[v].max |->
        {FlattenSeq(ps) : ps \in [1..n -> Vocabularies[v].pieces]}]]

(* The user types a line; the key for a line's end ends it at a terminal.  A  *)
(* blank line counts as a piece.                                             *)
Type ==
  /\ ~ended /\ stdin = <<>> /\ left.lines > 0 /\ left.pieces > 0
  /\ \E n \in 0..left.pieces : \E line \in Lines[vocab][n] :
       /\ mode = "terminal" => "\r" \notin ToSet(line)
       /\ stdin' = IF mode = "file" THEN <<>> ELSE Append(line, "\n")
       /\ file'  = file \o Append(line, "\n")
       /\ left'  = [pieces |-> left.pieces - (IF n = 0 THEN 1 ELSE n), lines |-> left.lines - 1]
  /\ UNCHANGED <<vocab, mode, inputBuf, results, cut, ended>>

-----------------------------------------------------------------------------
(* The body of a loop that accumulates: the line goes behind what is there,  *)
(* and what is complete is evaluated.  Too much input is dropped whole.      *)
Feed(text, ts) ==
  IF ParserIsComplete(ts)
  THEN inputBuf' = <<>> /\ results' = Append(results, EvalTokens(text, ts))
  ELSE inputBuf' = text /\ UNCHANGED results

Text(line) == IF inputBuf = <<>> THEN line ELSE inputBuf \o <<"\n">> \o line

Accumulate(line, split) ==
  IF Len(inputBuf) + Len(line) + 2 >= InputMax
  THEN inputBuf' = <<>> /\ cut' = TRUE /\ UNCHANGED results
  ELSE Feed(Text(line), Tokens(Text(line))) /\ cut' = (cut \/ split)

(* ic_readline: a whole line, of any length.                                 *)
ReadLine ==
  /\ mode = "terminal" /\ stdin # <<>>
  /\ stdin' = <<>>
  /\ Accumulate(Front(stdin), FALSE)
  /\ UNCHANGED <<vocab, mode, left, file, ended>>

(* What fgets takes, and what is left of it without the line ends behind.    *)
Got == SubSeq(stdin, 1, IF Len(stdin) < LineMax THEN Len(stdin) ELSE LineMax - 1)
Line ==
  SubSeq(Got, 1, CHOOSE n \in 0..Len(Got) :
                   /\ n > 0 => ~IsNewlineChar(Got[n])
                   /\ \A k \in (n + 1)..Len(Got) : IsNewlineChar(Got[k]))

(* run_local_repl_pipe.                                                      *)
ReadPipe ==
  /\ mode = "pipe" /\ stdin # <<>>
  /\ stdin' = SubSeq(stdin, Len(Got) + 1, Len(stdin))
  /\ Accumulate(Line, stdin' # <<>>)
  /\ UNCHANGED <<vocab, mode, left, file, ended>>

(* run_connect_pipe: every line on its own.                                  *)
SendLine ==
  /\ mode = "client pipe" /\ stdin # <<>>
  /\ stdin' = SubSeq(stdin, Len(Got) + 1, Len(stdin))
  /\ results' = Append(results, Eval(Line))
  /\ cut' = (cut \/ stdin' # <<>>)
  /\ UNCHANGED <<vocab, mode, left, inputBuf, file, ended>>

(* The end of the input: what is still incomplete is evaluated for the error.*)
Eof ==
  /\ mode # "file" /\ ~ended /\ stdin = <<>>
  /\ ended' = TRUE
  /\ results' = IF inputBuf = <<>> THEN results ELSE Append(results, Eval(inputBuf))
  /\ UNCHANGED <<vocab, mode, left, stdin, inputBuf, file, cut>>

(* run_file: the lines are those of a file, and are evaluated in one call.   *)
RunFile ==
  /\ mode = "file" /\ ~ended
  /\ ended' = TRUE
  /\ results' = <<Eval(file)>>
  /\ UNCHANGED <<vocab, mode, left, stdin, inputBuf, file, cut>>

Next == Type \/ ReadLine \/ ReadPipe \/ SendLine \/ Eof \/ RunFile

Spec == Init /\ [][Next]_vars

-----------------------------------------------------------------------------
(* Properties.                                                               *)

Accepted == \A i \in DOMAIN results : results[i].ok
Exprs    == FlattenSeq([i \in DOMAIN results |-> results[i].exprs])
AllRead  == stdin = <<>> /\ ~cut /\ ~ended

(* The lines typed so far and run, what `cutlet run` makes of them in a file. *)
MakesOf(run) ==
  /\ mode # "client pipe" /\ run.ok => inputBuf = <<>> /\ Accepted /\ Exprs = run.exprs
  /\ inputBuf = <<>> /\ Accepted    => run.ok /\ Exprs = run.exprs

(* A program typed line by line, or piped in, is the program that the file   *)
(* holds: whenever the file would parse, the loops that accumulate have      *)
(* evaluated exactly its top-level expressions and wait for nothing; and     *)
(* lines that were all accepted, by any loop, make a file that parses.       *)
TypedIsFiled == AllRead /\ mode # "file" => MakesOf(Eval(file))

(* The parser has failed at a token in front of the end, and a further line  *)
(* leaves that token where it is.                                            *)
FailsBeforeEnd(ts) ==
  LET r == ParserParse(ts) IN r.err # "" /\ ts[r.pos].type # "EOF"

Hopeless(text) == FailsBeforeEnd(Tokens(Append(text, "\n")))

(* parser.h:102-104: what is handed over with a syntax error in it could not *)
(* have been mended by typing on.                                            *)
GivesUpWhenHopeless ==
  [][ /\ mode \in {"terminal", "pipe"} /\ Len(results') > Len(results)
      /\ ~(ended' \/ cut' \/ Last(results').ok)
      => Hopeless(Last(results').text) ]_vars

(* parser.h:106-111: a loop that asks for more can still be given what is    *)
(* missing.                                                                  *)
WaitsWithHope == inputBuf # <<>> => ~Hopeless(inputBuf)

(* The text that has just been evaluated, if one has.                        *)
Fresh == /\ stdin = <<>> /\ inputBuf = <<>> /\ results # <<>>
         /\ ended => mode = "file"
Evaluated == Last(results).text

(* t is a longest lexeme, and what precedes it, from the end of the token    *)
(* before it on, is skipped; ends are the places where a token that starts   *)
(* there may end.                                                            *)
Lexeme(text, t, from, ends) ==
  /\ from <= t.pos /\ G!Skipped(text, from, t.pos)
  /\ CASE t.type = "EOF"   -> t.pos = Len(text) + 1
       [] t.type = "ERROR" ->
            ends # {} => /\ G!IsA("NUMBER", SubSeq(text, t.pos, Max(ends) - 1))
                         /\ At(text, Max(ends), IsIdentStart)
       [] OTHER -> /\ ends # {} /\ G!IsA(t.type, SubSeq(text, t.pos, Max(ends) - 1))
                   /\ ~G!Skipped(text, from, t.pos + 1)

RECURSIVE Lexemes(_, _, _, _)
Lexemes(text, ts, from, ends) ==
  /\ Lexeme(text, ts[1], from, ends)
  /\ Len(ts) > 1 => Lexemes(text, Tail(ts), Max(ends), G!Ends(text, ts[2].pos))

LexemesOf(text, ts) == Lexemes(text, ts, 1, G!Ends(text, ts[1].pos))

(* The tokens of an evaluated text are its longest lexemes, with nothing but *)
(* blanks and comments between them, and an error stands where there is none.*)
TokensAreLexemes == Fresh => LexemesOf(Evaluated, Tokens(Evaluated))

Newlines(ts) == {t.pos : t \in {t \in ToSet(ts) : t.type = "NEWLINE"}}

Placed(text, t, newlines) ==
  \/ \E b \in G!BreaksBefore(text, t.pos) : {b - 1, b} \cap newlines = {}
  \/ t.line = G!LineOf(text, t.pos) /\ t.col = G!ColumnOf(text, t.pos)

AllPlaced(text, ts) == \A i \in DOMAIN ts : Placed(text, ts[i], Newlines(ts))

(* The line and column of every token, and so of every parse error, are      *)
(* where it stands, unless a line's end has become part of an operator.      *)
PositionsTrue == Fresh => AllPlaced(Evaluated, Tokens(Evaluated))

ReadAs(ts, trees) ==
  Last(ts).type = "EOF" /\ Len(ts) > 1 /\ G!IsOperatorRow(Front(ts)) =>
    trees = {G!Plain(t) : t \in G!Readings(Front(ts))}

(* Operators bind as the table of precedences says: a row of operators and   *)
(* operands is accepted exactly when the grammar gives it a tree, and the    *)
(* one tree that it gives is the one the parser builds.                      *)
OperatorsBindAsDocumented ==
  Fresh => ReadAs(Tokens(Evaluated), ToSet(Last(results).exprs))
===============================================================================
