------------------------------ MODULE StringSet --------------------------------
(***************************************************************************)
(* What the intern table of gc.c promises: a weak set of strings with no   *)
(* two of the same text.  Making a string gives the one of its text if     *)
(* there is one; the collector takes strings away.                         *)
(***************************************************************************)
CONSTANTS
  String,   \* the addresses of ObjStrings
  Chars,    \* the text of the string at an address
  NULL      \* no string

VARIABLES
  strings,  \* the strings that exist
  made      \* the string the last call made or found

Init == strings = {} /\ made = NULL

WithText(t) == {s \in strings : Chars[s] = t}

(* obj_string_new and obj_string_take                                      *)
Make(s) ==
  /\ s \in strings \/ WithText(Chars[s]) = {}
  /\ strings' = strings \cup {s}
  /\ made' = s

(* gc_sweep                                                                *)
Free(s) ==
  /\ strings' = strings \ {s}
  /\ UNCHANGED made

Next == \E s \in String : Make(s) \/ (s \in strings /\ Free(s))

Spec == Init /\ [][Next]_<<strings, made>>
===============================================================================
