------------------------------- MODULE Evaluator -------------------------------
(***************************************************************************)
(* What the eval lock promises the clients of a server: every request is   *)
(* evaluated at once and at most once, as if nobody else were there, and   *)
(* its value is the next one its client is sent.                           *)
(***************************************************************************)
EXTENDS Integers, Sequences

CONSTANT Client

VARIABLES
  global,  \* the global variable that every evaluation adds one to
  asked,   \* the requests of each client that are still to be evaluated
  answer,  \* the value that is on its way to a client, if any
  results  \* the values sent to each client

Init ==
  /\ global = 0
  /\ asked = [c \in Client |-> 0]
  /\ answer = [c \in Client |-> {}]
  /\ results = [c \in Client |-> <<>>]

Ask(c) ==
  /\ asked' = [asked EXCEPT ![c] = @ + 1]
  /\ UNCHANGED <<global, answer, results>>

Evaluate(c) ==
  /\ asked[c] > 0 /\ answer[c] = {}
  /\ asked' = [asked EXCEPT ![c] = @ - 1]
  /\ global' = global + 1
  /\ answer' = [answer EXCEPT ![c] = {global + 1}]
  /\ UNCHANGED results

(* An evaluation that fails before it has written changes nothing.         *)
Fail(c) ==
  /\ asked[c] > 0
  /\ asked' = [asked EXCEPT ![c] = @ - 1]
  /\ UNCHANGED <<global, answer, results>>

Deliver(c) ==
  /\ \E v \in answer[c] : results' = [results EXCEPT ![c] = Append(@, v)]
  /\ answer' = [answer EXCEPT ![c] = {}]
  /\ UNCHANGED <<global, asked>>

Next == \E c \in Client : Ask(c) \/ Evaluate(c) \/ Fail(c) \/ Deliver(c)

Spec == Init /\ [][Next]_<<global, asked, answer, results>>
===============================================================================
