----------------------------- MODULE AbstractHeap -----------------------------
(***************************************************************************)
(* What cutlet's garbage-collected heap promises to the rest of the        *)
(* interpreter, without saying how gc.c does it: an object that the        *)
(* program can reach stays allocated, and a collection leaves exactly the  *)
(* reachable objects behind.                                               *)
(***************************************************************************)
CONSTANT Obj    \* the addresses calloc can hand out

VARIABLES
  live,         \* the addresses of the objects that exist
  reach         \* the objects the program can reach from its roots

vars == <<live, reach>>

Init == live = {} /\ reach = {}

(* The program moves references around: it can only reach what exists.     *)
Use ==
  /\ reach' \subseteq live
  /\ live' = live

(* One object comes into being at an address that was not in use.          *)
Allocate ==
  \E o \in Obj \ live :
    /\ live' = live \cup {o}
    /\ reach' \subseteq live'

(* A collection removes precisely the objects out of reach.                *)
Collect ==
  /\ live' = reach
  /\ reach' = reach

Next == Use \/ Allocate \/ Collect

Spec == Init /\ [][Next]_vars
===============================================================================
