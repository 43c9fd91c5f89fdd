-------------------------------- MODULE MCRepl ---------------------------------
(* What the users of the checked REPL type.                                  *)
EXTENDS Repl

(* A word of several letters is one character.                               *)
MCLetters ==
  {"x", "f", "T", "A", "if", "then", "else", "end", "while", "do", "break", "fn", "is",
   "return", "object", "with", "make", "my", "not", "in", "and", "or", "true"}
MCDigits == {"1"}

Words(ws) == FlattenSeq([i \in DOMAIN ws |-> <<ws[i], " ">>])

Conditionals == {Words(<<"if", "x", "then">>), Words(<<"else">>), Words(<<"end">>), <<"1">>}
Loops ==
  {Words(<<"while", "x">>), Words(<<"do">>), Words(<<"break">>), Words(<<"end">>), <<"#", "x">>}
Functions ==
  {<<"fn", " ", "f", "(">>, <<"x", " ">>, <<")", " ", "is", " ">>, Words(<<"return">>),
   Words(<<"end">>)}
Objects(head) ==
  {Words(head), <<"fn", " ", "f", "(", ")", " ", "is", " ">>, <<"x">>, Words(<<"end">>)}
Brackets == {<<"[">>, <<"]">>, <<"1", " ">>, <<",">>}
Calls    == {<<"f", "(">>, <<"make", " ", "T", "(">>, <<")">>, <<"1", " ">>, <<",">>}
Braces   == {<<"{">>, <<"}">>, <<"x", " ">>, <<":">>, <<",">>}
Places   == {<<"x", " ">>, <<".">>, <<"[", "1", "]">>, Words(<<"my">>), <<"=">>}
Arithmetic ==
  {<<"x", " ">>, <<"x", "+">>, <<"x", "*">>, <<"x", "*", "*">>, <<"x", "+", "+">>, <<"-">>,
   <<"(">>, <<")">>, <<"x", "@", "+">>}
Logic ==
  {<<"x", " ">>, Words(<<"x", "and">>), Words(<<"x", "or">>), Words(<<"x", "==">>),
   Words(<<"x", "not", "in">>), Words(<<"not">>)}
Indices ==
  {<<"x", " ">>, <<"x", "+">>, <<"x", "[">>, <<"]">>, <<"-">>, <<"@", "f">>}
Names   == {<<"x">>, <<"1">>, <<"-">>, <<".">>, <<"@", "x">>, <<" ">>}
Symbols == {<<"x">>, <<"+">>, <<"<">>, <<"@", "+">>, <<"#">>, <<"\"">>}
Characters == Names \cup Symbols \cup {<<"\r">>}

Typing(pieces, max, lines, modes) ==
  [pieces |-> pieces, max |-> max, lines |-> lines, modes |-> modes]

Local == {"terminal"}
Piped == {"pipe", "client pipe"}

MCVocabularies ==
  [conditionals  |-> Typing(Conditionals, 5, 5, Local),
   objects       |-> Typing(Objects(<<"object", "T", "is">>), 4, 3, Local),
   mixins        |-> Typing(Objects(<<"object", "T", "with", "A", "is">>), 5, 2, Local),
   loops         |-> Typing(Loops, 4, 3, Local),
   functions     |-> Typing(Functions, 4, 3, Local),
   brackets      |-> Typing(Brackets, 4, 3, Local),
   calls         |-> Typing(Calls, 4, 3, Local),
   braces        |-> Typing(Braces, 4, 3, Local),
   places        |-> Typing(Places, 4, 3, Local),
   arithmetic    |-> Typing(Arithmetic, 4, 1, Local),
   logic         |-> Typing(Logic, 4, 1, Local),
   indices       |-> Typing(Indices, 4, 1, Local),
   names         |-> Typing(Names, 4, 1, Local),
   symbols       |-> Typing(Symbols, 4, 2, Local),
   pConditionals |-> Typing(Conditionals, 3, 3, Piped),
   pLoops        |-> Typing(Loops, 3, 3, Piped),
   pFunctions    |-> Typing(Functions, 3, 3, Piped),
   pBrackets     |-> Typing(Brackets, 3, 3, Piped),
   pCharacters   |-> Typing(Symbols \cup {<<"\r">>}, 3, 2, Piped),
   inFile        |-> Typing(Characters, 3, 2, {"file"})]
===============================================================================
