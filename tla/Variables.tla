------------------------------ MODULE Variables -------------------------------
(***************************************************************************)
(* What a cutlet program means by a captured variable: every declaration   *)
(* makes a variable of its own, a closure refers to variables and not to   *)
(* places, and a variable lives for as long as a scope or a closure needs  *)
(* it.  Nothing here is about stacks, slots or upvalues.                   *)
(***************************************************************************)
CONSTANTS
  Var,         \* identities of variables, one for each declaration executed
  Closure,     \* identities of closures
  Value,       \* the values of variables
  NoValue      \* the value of a variable that does not exist

VARIABLES
  value,       \* the value of every variable that exists
  env,         \* the variables every closure refers to
  access       \* the last read or write of a variable: which one, what value

vars == <<value, env, access>>

NoAccess == [op |-> "none"]
Access(o, v, x) == [op |-> o, var |-> v, val |-> x]

Exists(v) == value[v] # NoValue

Init ==
  /\ value = [v \in Var |-> NoValue]
  /\ env = [c \in Closure |-> {}]
  /\ access = NoAccess

(* One variable comes into being, or the parameters of a call together.    *)
Declare(new) ==
  /\ \A v \in new : ~Exists(v) /\ value'[v] \in Value
  /\ \A v \in Var \ new : value'[v] = value[v]
  /\ DOMAIN value' = Var
  /\ access' \in {NoAccess} \cup {Access("read", v, value'[v]) : v \in new}
  /\ UNCHANGED env

Read(v) ==
  /\ Exists(v)
  /\ access' = Access("read", v, value[v])
  /\ UNCHANGED <<value, env>>

Write(v, x) ==
  /\ Exists(v)
  /\ value' = [value EXCEPT ![v] = x]
  /\ access' = Access("write", v, x)
  /\ UNCHANGED env

(* A closure comes to refer to one more variable.                          *)
Capture(c, v) ==
  /\ Exists(v)
  /\ env' = [env EXCEPT ![c] = @ \cup {v}]
  /\ access' = NoAccess
  /\ UNCHANGED value

(* Variables that no closure refers to may go, whenever their scopes end.  *)
Leave ==
  \E gone \in SUBSET {v \in Var : \A c \in Closure : v \notin env[c]} :
    /\ value' = [v \in Var |-> IF v \in gone THEN NoValue ELSE value[v]]
    /\ access' = NoAccess
    /\ UNCHANGED env

Next ==
  \/ \E v \in Var : Read(v)
  \/ \E new \in SUBSET Var : Declare(new)
  \/ \E v \in Var, x \in Value : Write(v, x)
  \/ \E c \in Closure, v \in Var : Capture(c, v)
  \/ Leave

Spec == Init /\ [][Next]_vars
===============================================================================
