------------------------------ MODULE MCReplServer -----------------------------
(* Instances for TLC: one client with two requests, one with one.          *)
EXTENDS ReplServer

CONSTANTS c1, c2

MCClient == {c1, c2}
MCRequestMax == [c \in MCClient |-> IF c = c1 THEN 2 ELSE 1]
===============================================================================
