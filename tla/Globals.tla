------------------------------- MODULE Globals ---------------------------------
(***************************************************************************)
(* What runtime.c promises of global variables: a partial function from    *)
(* names to values.  A definition that runs out of memory changes nothing. *)
(***************************************************************************)
CONSTANTS Name, Value, Undefined

VARIABLES
  env,    \* the value of each name, or Undefined
  status  \* what the last call returned

Init == env = [n \in Name |-> Undefined] /\ status = <<"none">>

Get(n) ==
  /\ status' = IF env[n] = Undefined THEN <<"not found">> ELSE <<"ok", env[n]>>
  /\ UNCHANGED env

Define(n, v) ==
  \/ env' = [env EXCEPT ![n] = v] /\ status' = <<"ok", v>>
  \/ env[n] = Undefined /\ status' = <<"oom">> /\ UNCHANGED env

Assign(n, v) ==
  IF env[n] = Undefined THEN status' = <<"not found">> /\ UNCHANGED env
  ELSE env' = [env EXCEPT ![n] = v] /\ status' = <<"ok", v>>

Destroy == env' = [n \in Name |-> Undefined] /\ status' = <<"none">>

Next ==
  \/ \E n \in Name : Get(n) \/ \E v \in Value : Define(n, v) \/ Assign(n, v)
  \/ Destroy

Spec == Init /\ [][Next]_<<env, status>>
===============================================================================
