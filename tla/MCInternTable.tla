----------------------------- MODULE MCInternTable -----------------------------
(* Instances for TLC: five addresses, two of them for the same text, and   *)
(* hashes that collide, and wrap around, at every capacity up to 16.       *)
EXTENDS InternTable

MCString == {"a", "A", "b", "c", "d"}
MCChars == [s \in MCString |-> IF s = "A" THEN "a" ELSE s]
MCHash == [t \in {"a", "b", "c", "d"} |->
             CASE t = "a" -> 15 [] t = "b" -> 31 [] t = "c" -> 14 [] t = "d" -> 0]
===============================================================================
