------------------------------- MODULE MCVarTable ------------------------------
(* Instances for TLC: four names whose hashes collide, and wrap around, at *)
(* every capacity up to 8.                                                 *)
EXTENDS VarTable

MCName == {"a", "b", "c", "d"}
MCHash == [n \in MCName |->
             CASE n = "a" -> 7 [] n = "b" -> 15 [] n = "c" -> 6 [] n = "d" -> 0]
===============================================================================
