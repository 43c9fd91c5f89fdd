---------------------------- MODULE ReplServerProofs ---------------------------
(***************************************************************************)
(* Proofs about ReplServer: evaluations of any number of clients, with any *)
(* number of requests, are serialised by the eval lock, which makes the    *)
(* server implement Evaluator; the lock is always given back; the server   *)
(* is freed when nobody but a client's thread can use it.                  *)
(***************************************************************************)
EXTENDS ReplServer, TLAPS

(* The lock is held by the client whose evaluation is in progress, which    *)
(* has therefore read what the variable still is.                          *)
LockOK ==
  /\ \A c \in Client : Evaluating(c) => holder = c
  /\ \A c \in Client : thread[c] \in {"say", "write"} => seen[c] = global

(* An answer that is still to be sent is later than the client's earlier    *)
(* answers and is nobody else's.                                           *)
AnswersOK ==
  /\ \A c \in Client : \A i \in 1..Len(results[c]) : results[c][i] <= global
  /\ \A c \in Client : thread[c] = "respond" =>
       /\ seen[c] <= global
       /\ \A i \in 1..Len(results[c]) : results[c][i] < seen[c]
       /\ \A d \in Client \ {c} :
            /\ \A j \in 1..Len(results[d]) : results[d][j] # seen[c]
            /\ thread[d] = "respond" => seen[d] # seen[c]

Inv == TypeOK /\ LockOK /\ AnswersOK /\ Serialised

-------------------------------------------------------------------------------
(* Every client's thread is somewhere, and only somewhere.                 *)
Places == {"none", "queued", "check", "read", "capabilities", "lock", "eval",
           "say", "write", "respond", "report", "ended"}

LEMMA GoToFacts ==
  ASSUME TypeOK, NEW c \in Client, NEW p \in Places, GoTo(c, p)
  PROVE  /\ thread' \in [Client -> Places] /\ thread'[c] = p
         /\ \A d \in Client \ {c} : thread'[d] = thread[d]
BY DEF GoTo, TypeOK, Places

(* The evaluation's variables depend on nothing else: a step that leaves    *)
(* them alone, and moves threads only outside of evaluations, keeps the     *)
(* invariant.                                                              *)
LEMMA QuietStep ==
  ASSUME Inv, UNCHANGED evaluation, TypeOK',
         \A c \in Client : thread'[c] = thread[c]
                           \/ thread'[c] \notin {"eval", "say", "write", "respond"}
  PROVE  Inv'
<1>. USE DEF evaluation
<1>1. LockOK'
  BY DEF Inv, LockOK, Evaluating
<1>2. AnswersOK'
  BY DEF Inv, AnswersOK
<1>3. Serialised'
  BY DEF Inv, Serialised
<1>. QED
  BY <1>1, <1>2, <1>3 DEF Inv

(* Accepting and stopping touch no evaluation: a thread begins or ends.     *)
LEMMA ServerStep ==
  ASSUME Inv, AcceptLoop \/ BeginStop \/ Stop
  PROVE  Inv'
<1>. USE DEF server, evaluation, connection
<1>1. TypeOK /\ UNCHANGED evaluation
  BY DEF Inv, AcceptLoop, AcceptCheck, Poll, Accept, BeginStop, Stop, CloseListener,
         JoinAcceptor, FreeServer
<1>2. CASE AcceptCheck \/ Poll \/ BeginStop \/ JoinAcceptor \/ FreeServer
  <2>1. TypeOK' /\ UNCHANGED thread
    BY <1>1, <1>2 DEF TypeOK, AcceptCheck, Poll, BeginStop, JoinAcceptor, FreeServer
  <2>. QED
    BY <1>1, <2>1, QuietStep
<1>3. CASE Accept
  <2>1. CASE UNCHANGED thread
    <3>1. TypeOK'
      BY <1>1, <1>3, <2>1 DEF TypeOK, Accept
    <3>. QED
      BY <1>1, <2>1, <3>1, QuietStep
  <2>2. CASE \E c \in Queued : GoTo(c, "check") \/ GoTo(c, "ended")
    <3>1. PICK c \in Client, p \in {"check", "ended"} : GoTo(c, p)
      BY <2>2 DEF Queued
    <3>2. /\ thread' \in [Client -> Places] /\ thread'[c] = p
          /\ \A d \in Client \ {c} : thread'[d] = thread[d]
      BY <1>1, <3>1, GoToFacts DEF Places
    <3>3. TypeOK'
      BY <1>1, <1>3, <3>2 DEF TypeOK, Accept, Places
    <3>. QED
      BY <1>1, <3>2, <3>3, QuietStep
  <2>. QED
    BY <1>3, <2>1, <2>2 DEF Accept
<1>4. CASE CloseListener
  <2>1. TypeOK'
    BY <1>1, <1>4 DEF TypeOK, CloseListener
  <2>2. \A c \in Client : thread'[c] = thread[c] \/ thread'[c] = "ended"
    BY <1>4 DEF CloseListener
  <2>. QED
    BY <1>1, <2>1, <2>2, QuietStep
<1>. QED
  BY <1>2, <1>3, <1>4 DEF AcceptLoop, Stop

(* What the peer does (connect, send, read, close) touches no evaluation.   *)
LEMMA ClientStep ==
  ASSUME Inv, NEW c \in Client, Connect(c) \/ SendRequest(c) \/ ReadFrame(c) \/ Close(c)
  PROVE  Inv'
<1>. USE DEF server, evaluation, connection
<1>1. TypeOK
  BY DEF Inv
<1>2. UNCHANGED evaluation
  BY DEF Connect, SendRequest, ReadFrame, Close
<1>3. CASE Connect(c)
  <2>1. /\ thread' \in [Client -> Places] /\ thread'[c] = "queued"
        /\ \A d \in Client \ {c} : thread'[d] = thread[d]
    BY <1>1, <1>3, GoToFacts DEF Connect, Places
  <2>2. TypeOK'
    BY <1>1, <1>3, <2>1 DEF TypeOK, Connect, Places
  <2>. QED
    BY <1>2, <2>1, <2>2, QuietStep
<1>4. CASE SendRequest(c)
  <2>1. /\ requests[c] \in Nat /\ pending[c] \in Nat /\ RequestMax[c] \in Nat
        /\ pending[c] <= requests[c] /\ requests[c] + 1 <= RequestMax[c]
    <3>1. /\ requests \in [Client -> Nat] /\ pending \in [Client -> Nat]
          /\ pending[c] <= requests[c] /\ requests[c] < RequestMax[c]
      BY <1>1, <1>4 DEF TypeOK, SendRequest
    <3>2. requests[c] \in Nat /\ pending[c] \in Nat /\ RequestMax[c] \in Nat
      BY <3>1, BoundAssumption
    <3>. QED
      BY <3>1, <3>2
  <2>2. /\ requests' \in [Client -> Nat] /\ pending' \in [Client -> Nat]
        /\ requests'[c] = requests[c] + 1 /\ pending'[c] = pending[c] + 1
        /\ \A d \in Client \ {c} : requests'[d] = requests[d] /\ pending'[d] = pending[d]
    <3>1. /\ requests \in [Client -> Nat] /\ pending \in [Client -> Nat]
          /\ requests' = [requests EXCEPT ![c] = @ + 1]
          /\ pending' = [pending EXCEPT ![c] = @ + 1]
      BY <1>1, <1>4 DEF TypeOK, SendRequest
    <3>. QED
      BY <2>1, <3>1
  <2>3. \A d \in Client : requests'[d] \in 0..RequestMax[d] /\ pending'[d] <= requests'[d]
    <3>1. \A d \in Client : requests[d] \in 0..RequestMax[d] /\ pending[d] <= requests[d]
      BY <1>1 DEF TypeOK
    <3>2. requests'[c] \in 0..RequestMax[c] /\ pending'[c] <= requests'[c]
      BY <2>1, <2>2
    <3>. QED
      BY <2>2, <3>1, <3>2
  <2>4. TypeOK' /\ UNCHANGED thread
    BY <1>1, <1>4, <2>2, <2>3 DEF TypeOK, SendRequest
  <2>. QED
    BY <1>2, <2>4, QuietStep
<1>5. CASE ReadFrame(c)
  <2>1. unread[c] - 1 \in 0..BufferMax
    BY <1>1, <1>5, BoundAssumption, SMTT(30) DEF TypeOK, ReadFrame
  <2>2. TypeOK' /\ UNCHANGED thread
    BY <1>1, <1>5, <2>1 DEF TypeOK, ReadFrame
  <2>. QED
    BY <1>2, <2>2, QuietStep
<1>6. CASE Close(c)
  <2>1. TypeOK' /\ UNCHANGED thread
    BY <1>1, <1>6 DEF TypeOK, Close
  <2>. QED
    BY <1>2, <2>1, QuietStep
<1>. QED
  BY <1>3, <1>4, <1>5, <1>6

-------------------------------------------------------------------------------
(* The client's thread.                                                    *)

(* What SendTo does to the connection.                                     *)
LEMMA SendFacts ==
  ASSUME TypeOK, NEW c \in Client, SendTo(c)
  PROVE  unread' \in [Client -> 0..BufferMax] /\ killed' \in BOOLEAN
<1>1. CASE c \in gone
  BY <1>1 DEF SendTo, TypeOK
<1>2. CASE c \notin gone
  <2>1. unread[c] + 1 \in 0..BufferMax
    BY <1>2, BoundAssumption DEF SendTo, TypeOK
  <2>. QED
    BY <1>2, <2>1 DEF SendTo, TypeOK
<1>. QED
  BY <1>1, <1>2

(* Nor does a thread on its way from one request to the lock.              *)
LEMMA OutsideStep ==
  ASSUME Inv, NEW c \in Client, Check(c) \/ Receive(c) \/ ReceiveFails(c) \/ Intersect(c)
  PROVE  Inv'
<1>. USE DEF server, evaluation, connection
<1>1. TypeOK
  BY DEF Inv
<1>2. UNCHANGED evaluation
  BY DEF Check, Receive, ReceiveFails, Intersect
<1>3. PICK p \in {"ended", "read", "check", "capabilities", "lock"} : GoTo(c, p)
  BY DEF Check, Receive, ReceiveFails, Intersect
<1>4. /\ thread' \in [Client -> Places] /\ thread'[c] = p
      /\ \A d \in Client \ {c} : thread'[d] = thread[d]
  BY <1>1, <1>3, GoToFacts DEF Places
<1>5. stale' \in BOOLEAN
  BY <1>1 DEF TypeOK, Check, Receive, ReceiveFails, Intersect, ReadsServer
<1>6. CASE Receive(c)
  <2>1. pending'[c] \in Nat /\ pending'[c] <= requests'[c]
    BY <1>1, <1>6, BoundAssumption, SMTT(30) DEF TypeOK, Receive, HasRequest
  <2>2. TypeOK'
    BY <1>1, <1>4, <1>6, <2>1 DEF TypeOK, Receive, Places
  <2>. QED
    BY <1>2, <1>4, <2>2, QuietStep
<1>7. CASE Check(c) \/ ReceiveFails(c) \/ Intersect(c)
  <2>1. TypeOK'
    BY <1>1, <1>4, <1>5, <1>7 DEF TypeOK, Check, ReceiveFails, Intersect, Places
  <2>. QED
    BY <1>2, <1>4, <2>1, QuietStep
<1>. QED
  BY <1>6, <1>7

(* The lock is taken when nobody evaluates.                                *)
LEMMA LockStep ==
  ASSUME Inv, NEW c \in Client, Lock(c)
  PROVE  Inv'
<1>. USE DEF server, connection, Lock
<1>1. TypeOK
  BY DEF Inv
<1>2. /\ thread' \in [Client -> Places] /\ thread'[c] = "eval"
      /\ \A d \in Client \ {c} : thread'[d] = thread[d]
  BY <1>1, GoToFacts DEF Places
<1>3. TypeOK'
  BY <1>1, <1>2 DEF TypeOK, Places
<1>4. \A d \in Client : ~Evaluating(d)
  BY ClientAssumption DEF Inv, LockOK, LockIsFree
<1>5. LockOK'
  BY <1>2, <1>4 DEF LockOK, Evaluating
<1>6. AnswersOK'
  BY <1>2 DEF Inv, AnswersOK
<1>7. Serialised'
  BY DEF Inv, Serialised
<1>. QED
  BY <1>3, <1>5, <1>6, <1>7 DEF Inv

(* What an evaluation reads is what the variable is.                       *)
LEMMA EvalReadsStep ==
  ASSUME Inv, NEW c \in Client, EvalReads(c)
  PROVE  Inv'
<1>. USE DEF server, connection, EvalReads
<1>1. TypeOK
  BY DEF Inv
<1>2. PICK p \in {"write", "say"} : GoTo(c, p)
  OBVIOUS
<1>3. /\ thread' \in [Client -> Places] /\ thread'[c] = p
      /\ \A d \in Client \ {c} : thread'[d] = thread[d]
  BY <1>1, <1>2, GoToFacts DEF Places
<1>4. seen' \in [Client -> Nat] /\ seen'[c] = global
      /\ \A d \in Client \ {c} : seen'[d] = seen[d]
  BY <1>1 DEF TypeOK
<1>5. TypeOK'
  BY <1>1, <1>3, <1>4 DEF TypeOK, Places
<1>6. LockOK'
  BY <1>3, <1>4 DEF Inv, LockOK, Evaluating
<1>7. AnswersOK'
  BY <1>3, <1>4 DEF Inv, AnswersOK
<1>8. Serialised'
  BY DEF Inv, Serialised
<1>. QED
  BY <1>5, <1>6, <1>7, <1>8 DEF Inv

(* Output is sent while the evaluation holds the lock.                     *)
LEMMA SayStep ==
  ASSUME Inv, NEW c \in Client, Say(c)
  PROVE  Inv'
<1>. USE DEF server, evaluation, Say
<1>1. TypeOK
  BY DEF Inv
<1>2. /\ thread' \in [Client -> Places] /\ thread'[c] = "write"
      /\ \A d \in Client \ {c} : thread'[d] = thread[d]
  BY <1>1, GoToFacts DEF Places
<1>3. unread' \in [Client -> 0..BufferMax] /\ killed' \in BOOLEAN
  BY <1>1, SendFacts
<1>4. TypeOK'
  BY <1>1, <1>2, <1>3 DEF TypeOK, Places
<1>5. LockOK'
  BY <1>2 DEF Inv, LockOK, Evaluating
<1>6. AnswersOK'
  BY <1>2 DEF Inv, AnswersOK
<1>7. Serialised'
  BY DEF Inv, Serialised
<1>. QED
  BY <1>4, <1>5, <1>6, <1>7 DEF Inv

(* The new value is beyond every earlier one, because the variable has not  *)
(* changed since it was read.                                              *)
LEMMA EvalWritesStep ==
  ASSUME Inv, NEW c \in Client, EvalWrites(c)
  PROVE  Inv'
<1>. USE DEF server, connection, EvalWrites
<1>1. TypeOK /\ global \in Nat
  BY DEF Inv, TypeOK
<1>2. /\ thread' \in [Client -> Places] /\ thread'[c] = "respond"
      /\ \A d \in Client \ {c} : thread'[d] = thread[d]
  BY <1>1, GoToFacts DEF Places
<1>3. seen[c] = global /\ \A d \in Client \ {c} : ~Evaluating(d)
  BY DEF Inv, LockOK, Evaluating
<1>4. global' = global + 1 /\ seen'[c] = global + 1 /\ seen' \in [Client -> Nat]
      /\ \A d \in Client \ {c} : seen'[d] = seen[d]
  BY <1>1, <1>3 DEF TypeOK
<1>5. TypeOK'
  BY <1>1, <1>2, <1>4 DEF TypeOK, Places
<1>6. LockOK'
  BY <1>2, <1>3 DEF LockOK, Evaluating
<1>7. AnswersOK'
  <2>1. \A d \in Client : \A i \in 1..Len(results[d]) :
          results[d][i] \in Nat /\ results[d][i] <= global
    <3>1. \A d \in Client : results[d] \in Seq(Nat)
      BY <1>1 DEF TypeOK
    <3>2. \A d \in Client : \A i \in 1..Len(results[d]) : results[d][i] \in Nat
      BY <3>1
    <3>. QED
      BY <3>2 DEF Inv, AnswersOK
  <2>2. \A d \in Client : thread[d] = "respond" => seen[d] \in Nat /\ seen[d] <= global
    BY <1>1 DEF Inv, AnswersOK, TypeOK
  <2>3. ASSUME NEW d \in Client, thread'[d] = "respond"
        PROVE  /\ seen'[d] <= global'
               /\ \A i \in 1..Len(results'[d]) : results'[d][i] < seen'[d]
               /\ \A e \in Client \ {d} :
                    /\ \A j \in 1..Len(results'[e]) : results'[e][j] # seen'[d]
                    /\ thread'[e] = "respond" => seen'[e] # seen'[d]
    <3>1. CASE d = c
      BY <1>1, <1>2, <1>4, <2>1, <2>2, <3>1
    <3>2. CASE d # c
      BY <1>1, <1>2, <1>4, <2>2, <2>3, <3>2 DEF Inv, AnswersOK
    <3>. QED
      BY <3>1, <3>2
  <2>4. \A d \in Client : \A i \in 1..Len(results'[d]) : results'[d][i] <= global'
    BY <1>1, <1>4, <2>1
  <2>. QED
    BY <2>3, <2>4 DEF AnswersOK
<1>8. Serialised'
  BY DEF Inv, Serialised
<1>. QED
  BY <1>5, <1>6, <1>7, <1>8 DEF Inv

(* An evaluation that fails gives the lock back and answers no value.      *)
LEMMA EvalFailsStep ==
  ASSUME Inv, NEW c \in Client, EvalFails(c)
  PROVE  Inv'
<1>. USE DEF server, connection, EvalFails, HolderAfterError
<1>1. TypeOK
  BY DEF Inv
<1>2. /\ thread' \in [Client -> Places] /\ thread'[c] = "report"
      /\ \A d \in Client \ {c} : thread'[d] = thread[d]
  BY <1>1, GoToFacts DEF Places
<1>3. TypeOK'
  BY <1>1, <1>2 DEF TypeOK, Places
<1>4. \A d \in Client \ {c} : ~Evaluating(d)
  BY DEF Inv, LockOK, Evaluating
<1>5. LockOK'
  BY <1>2, <1>4 DEF LockOK, Evaluating
<1>6. AnswersOK'
  BY <1>2 DEF Inv, AnswersOK
<1>7. Serialised'
  BY DEF Inv, Serialised
<1>. QED
  BY <1>3, <1>5, <1>6, <1>7 DEF Inv

(* An answer is appended: the pending one, later than the client's others   *)
(* and different from everybody else's, sent and pending.                  *)
LEMMA RespondStep ==
  ASSUME Inv, NEW c \in Client, Respond(c)
  PROVE  Inv'
<1>. USE DEF server, Respond
<1>1. TypeOK
  BY DEF Inv
<1>2. PICK p \in {"check", "ended"} : GoTo(c, p)
  OBVIOUS
<1>3. /\ thread' \in [Client -> Places] /\ thread'[c] = p
      /\ \A d \in Client \ {c} : thread'[d] = thread[d]
  BY <1>1, <1>2, GoToFacts DEF Places
<1>4. unread' \in [Client -> 0..BufferMax] /\ killed' \in BOOLEAN
  BY <1>1, SendFacts
<1>5. CASE thread[c] = "report"
  <2>1. UNCHANGED evaluation
    BY <1>5 DEF evaluation
  <2>2. TypeOK'
    BY <1>1, <1>3, <1>4, <1>5 DEF TypeOK, Places
  <2>. QED
    BY <1>3, <2>1, <2>2, QuietStep
<1>6. CASE thread[c] = "respond"
  <2>. DEFINE n == Len(results[c])
  <2>1. /\ n \in Nat /\ results[c] \in Seq(Nat) /\ seen[c] \in Nat
        /\ results' \in [Client -> Seq(Nat)] /\ results'[c] = Append(results[c], seen[c])
        /\ \A d \in Client \ {c} : results'[d] = results[d]
    BY <1>1, <1>6 DEF TypeOK
  <2>2. /\ Len(results'[c]) = n + 1 /\ results'[c][n + 1] = seen[c]
        /\ \A i \in 1..n : results'[c][i] = results[c][i]
    BY <2>1
  <2>3. TypeOK'
    BY <1>1, <1>3, <1>4, <2>1 DEF TypeOK, Places
  <2>4. LockOK'
    BY <1>3 DEF Inv, LockOK, Evaluating
  <2>5. /\ seen[c] <= global
        /\ \A i \in 1..n : results[c][i] < seen[c] /\ results[c][i] <= global
        /\ \A d \in Client \ {c} :
             /\ \A j \in 1..Len(results[d]) : results[d][j] # seen[c]
             /\ thread[d] = "respond" => seen[d] # seen[c]
    BY <1>6 DEF Inv, AnswersOK
  <2>6. \A i \in 1..Len(results'[c]) : i \in 1..n \/ i = n + 1
    BY <2>1, <2>2
  <2>7. AnswersOK'
    <3>1. ASSUME NEW d \in Client, NEW i \in 1..Len(results'[d])
          PROVE  results'[d][i] <= global'
      <4>1. CASE d = c
        BY <2>2, <2>5, <2>6, <4>1
      <4>2. CASE d # c
        BY <2>1, <4>2 DEF Inv, AnswersOK
      <4>. QED
        BY <4>1, <4>2
    <3>2. ASSUME NEW d \in Client, thread'[d] = "respond"
          PROVE  /\ seen'[d] <= global'
                 /\ \A i \in 1..Len(results'[d]) : results'[d][i] < seen'[d]
                 /\ \A e \in Client \ {d} :
                      /\ \A j \in 1..Len(results'[e]) : results'[e][j] # seen'[d]
                      /\ thread'[e] = "respond" => seen'[e] # seen'[d]
      <4>1. d # c /\ thread[d] = "respond"
        BY <1>3, <3>2
      <4>2. /\ seen[d] <= global
            /\ \A i \in 1..Len(results[d]) : results[d][i] < seen[d]
            /\ \A e \in Client \ {d} :
                 /\ \A j \in 1..Len(results[e]) : results[e][j] # seen[d]
                 /\ thread[e] = "respond" => seen[e] # seen[d]
        BY <4>1 DEF Inv, AnswersOK
      <4>3. \A j \in 1..Len(results'[c]) : results'[c][j] # seen[d]
        BY <1>6, <2>2, <2>6, <4>1, <4>2
      <4>. QED
        BY <1>3, <2>1, <4>1, <4>2, <4>3
    <3>. QED
      BY <3>1, <3>2 DEF AnswersOK
  <2>8. Serialised'
    <3>. SUFFICES ASSUME NEW d \in Client, NEW e \in Client,
                         NEW i \in 1..Len(results'[d]), NEW j \in 1..Len(results'[e])
                  PROVE  /\ d # e => results'[d][i] # results'[e][j]
                         /\ d = e /\ i < j => results'[d][i] < results'[e][j]
      BY DEF Serialised
    <3>1. CASE d = c /\ e = c
      <4>1. CASE j \in 1..n
        BY <2>1, <2>2, <2>6, <3>1, <4>1 DEF Inv, Serialised
      <4>2. CASE j = n + 1
        BY <2>1, <2>2, <2>5, <2>6, <3>1, <4>2
      <4>. QED
        BY <2>6, <3>1, <4>1, <4>2
    <3>2. CASE d = c /\ e # c
      BY <2>1, <2>2, <2>5, <2>6, <3>2 DEF Inv, Serialised
    <3>3. CASE d # c /\ e = c
      BY <2>1, <2>2, <2>5, <2>6, <3>3 DEF Inv, Serialised
    <3>4. CASE d # c /\ e # c
      BY <2>1, <3>4 DEF Inv, Serialised
    <3>. QED
      BY <3>1, <3>2, <3>3, <3>4
  <2>. QED
    BY <2>3, <2>4, <2>7, <2>8 DEF Inv
<1>. QED
  BY <1>5, <1>6

-------------------------------------------------------------------------------
(* The inductive invariant: who evaluates holds the lock and has read what  *)
(* the variable is, and answers still to be sent are new.                   *)
THEOREM Invariance == Spec => []Inv
<1>1. Init => Inv
  <2>. SUFFICES ASSUME Init PROVE Inv
    OBVIOUS
  <2>1. TypeOK
    <3>1. \A c \in Client : RequestMax[c] \in Nat /\ 0 \in 0..RequestMax[c] /\ 0 \in 0..BufferMax
      BY BoundAssumption
    <3>2. [c \in Client |-> <<>>] \in [Client -> Seq(Nat)]
      OBVIOUS
    <3>. QED
      <4>1. results \in [Client -> Seq(Nat)]
        BY <3>2 DEF Init
      <4>2. /\ thread \in [Client -> Places] /\ unread \in [Client -> 0..BufferMax]
            /\ seen \in [Client -> Nat] /\ pending \in [Client -> Nat]
            /\ requests \in [Client -> Nat]
        BY <3>1 DEF Init, Places
      <4>3. \A c \in Client : requests[c] \in 0..RequestMax[c] /\ pending[c] <= requests[c]
        BY <3>1 DEF Init
      <4>. QED
        BY <4>1, <4>2, <4>3 DEF Init, TypeOK, Places
  <2>2. LockOK /\ AnswersOK /\ Serialised
    BY DEF Init, LockOK, AnswersOK, Serialised, Evaluating
  <2>. QED
    BY <2>1, <2>2 DEF Inv
<1>2. Inv /\ [Next]_vars => Inv'
  <2>. SUFFICES ASSUME Inv, [Next]_vars PROVE Inv'
    OBVIOUS
  <2>1. ASSUME NEW c \in Client, Connect(c) \/ SendRequest(c) \/ ReadFrame(c) \/ Close(c)
        PROVE  Inv'
    BY <2>1, ClientStep
  <2>2. ASSUME NEW c \in Client, ClientThread(c)
        PROVE  Inv'
    BY <2>2, OutsideStep, LockStep, EvalReadsStep, SayStep, EvalWritesStep, EvalFailsStep,
       RespondStep DEF ClientThread
  <2>3. CASE AcceptLoop \/ BeginStop \/ Stop
    BY <2>3, ServerStep
  <2>4. CASE UNCHANGED vars
    BY <2>4 DEF vars, server, evaluation, connection, Inv, TypeOK, LockOK, AnswersOK,
                Serialised, Evaluating
  <2>. QED
    BY <2>1, <2>2, <2>3, <2>4 DEF Next
<1>. QED
  BY <1>1, <1>2, PTL DEF Spec

(* Threads, buffers and answers are what their types say: a client has no   *)
(* more frames on their way than the buffers hold.                         *)
THEOREM TypeCorrect == Spec => []TypeOK
<1>1. Inv => TypeOK
  BY DEF Inv
<1>. QED
  BY <1>1, Invariance, PTL

(* No update of a global is lost, and answers are distinct and in order,    *)
(* for any clients, requests and interleaving.                             *)
THEOREM Serialisation == Spec => []Serialised
<1>1. Inv => Serialised
  BY DEF Inv
<1>. QED
  BY <1>1, Invariance, PTL

-------------------------------------------------------------------------------
(* The lock is given back, and the server is freed last.                   *)

(* What Stop has done by the time it gets to each of its steps.            *)
StopOK ==
  /\ stopper # "idle" <=> shutdown
  /\ stopper \in {"join", "grace", "done"} => ~listening /\ Queued = {}
  /\ stopper \in {"grace", "done"} => acceptor = "exited"
  /\ freed => stopper = "done"
  /\ stale => freed

LEMMA MoveFacts ==
  ASSUME TypeOK, NEW c \in Client, ClientThread(c)
  PROVE  /\ \A d \in Client \ {c} : thread'[d] = thread[d]
         /\ thread'[c] # "queued" /\ thread'[c] \in Places
         /\ thread' \in [Client -> Places]
<1>1. PICK p \in Places \ {"queued"} : GoTo(c, p)
  BY DEF ClientThread, Check, Receive, ReceiveFails, Intersect, Lock, EvalReads, Say, EvalWrites,
         EvalFails, Respond, Places
<1>. QED
  BY <1>1, GoToFacts

(* A step takes, keeps or gives back the lock together with the evaluation. *)
LEMMA LockExactStep ==
  ASSUME Inv, LockHeldToEvaluate, [Next]_vars
  PROVE  LockHeldToEvaluate'
<1>. USE DEF server, evaluation, connection
<1>1. TypeOK
  BY DEF Inv
<1>2. ASSUME NEW c \in Client, ClientThread(c)
      PROVE  LockHeldToEvaluate'
  <2>1. \A d \in Client \ {c} : thread'[d] = thread[d]
    BY <1>1, <1>2, MoveFacts
  <2>2. CASE Lock(c)
    <3>1. holder' = c /\ thread'[c] = "eval" /\ holder = Nobody
      BY <1>1, <2>2, GoToFacts DEF Lock, LockIsFree, Places
    <3>. QED
      BY <2>1, <3>1, ClientAssumption DEF LockHeldToEvaluate, Evaluating
  <2>3. CASE EvalWrites(c) \/ EvalFails(c)
    <3>1. /\ holder' = Nobody /\ thread'[c] \in {"respond", "report"} /\ Evaluating(c)
      BY <1>1, <2>3, GoToFacts DEF EvalWrites, EvalFails, HolderAfterError, Places, Evaluating
    <3>. QED
      BY <2>1, <3>1, ClientAssumption DEF LockHeldToEvaluate, Evaluating
  <2>4. CASE EvalReads(c) \/ Say(c)
    <3>1. UNCHANGED holder /\ thread'[c] \in {"say", "write"} /\ Evaluating(c)
      BY <1>1, <2>4, GoToFacts DEF EvalReads, Say, Places, Evaluating
    <3>. QED
      BY <2>1, <3>1 DEF LockHeldToEvaluate, Evaluating
  <2>5. CASE Check(c) \/ Receive(c) \/ ReceiveFails(c) \/ Intersect(c) \/ Respond(c)
    <3>1. PICK p \in {"ended", "read", "check", "capabilities", "lock"} : GoTo(c, p)
      BY <2>5 DEF Check, Receive, ReceiveFails, Intersect, Respond
    <3>2. UNCHANGED holder /\ ~Evaluating(c)
      BY <2>5 DEF Check, Receive, ReceiveFails, Intersect, Respond, Evaluating
    <3>3. thread'[c] = p
      BY <1>1, <3>1, GoToFacts DEF Places
    <3>. QED
      BY <2>1, <3>2, <3>3 DEF LockHeldToEvaluate, Evaluating
  <2>. QED
    BY <1>2, <2>2, <2>3, <2>4, <2>5 DEF ClientThread
<1>3. ASSUME UNCHANGED holder,
             \A c \in Client : thread'[c] = thread[c]
                               \/ /\ thread[c] \notin {"eval", "say", "write"}
                                  /\ thread'[c] \in {"queued", "check", "ended"}
      PROVE  LockHeldToEvaluate'
  BY <1>3 DEF LockHeldToEvaluate, Evaluating
<1>4. ASSUME NEW c \in Client, Connect(c) \/ SendRequest(c) \/ ReadFrame(c) \/ Close(c)
      PROVE  LockHeldToEvaluate'
  <2>1. CASE Connect(c)
    <3>1. thread'[c] = "queued" /\ thread[c] = "none" /\ \A d \in Client \ {c} : thread'[d] = thread[d]
      BY <1>1, <2>1, GoToFacts DEF Connect, Places
    <3>. QED
      BY <1>3, <2>1, <3>1 DEF Connect
  <2>2. CASE SendRequest(c) \/ ReadFrame(c) \/ Close(c)
    BY <1>3, <2>2 DEF SendRequest, ReadFrame, Close
  <2>. QED
    BY <1>4, <2>1, <2>2
<1>5. CASE AcceptLoop \/ BeginStop \/ Stop
  <2>1. CASE UNCHANGED <<thread, holder>>
    BY <1>3, <2>1
  <2>2. CASE Accept /\ thread' # thread
    <3>1. PICK c \in Queued, p \in {"check", "ended"} : GoTo(c, p)
      BY <2>2 DEF Accept
    <3>2. thread'[c] = p /\ thread[c] = "queued" /\ \A d \in Client \ {c} : thread'[d] = thread[d]
      BY <1>1, <3>1, GoToFacts DEF Places, Queued
    <3>. QED
      BY <1>3, <2>2, <3>2 DEF Accept
  <2>3. CASE CloseListener
    BY <1>3, <2>3 DEF CloseListener, Queued
  <2>. QED
    BY <1>5, <2>1, <2>2, <2>3
    DEF AcceptLoop, AcceptCheck, Poll, Accept, BeginStop, Stop, JoinAcceptor, FreeServer
<1>6. CASE UNCHANGED vars
  BY <1>3, <1>6 DEF vars
<1>. QED
  BY <1>2, <1>4, <1>5, <1>6 DEF Next

(* The lock is held by an evaluation and never by anything else: a client  *)
(* that fails, prints, goes away or is refused leaves it free.             *)
THEOREM LockIsExact == Spec => []LockHeldToEvaluate
<1>1. Init => LockHeldToEvaluate
  BY ClientAssumption DEF Init, LockHeldToEvaluate, Evaluating
<1>2. Inv /\ LockHeldToEvaluate /\ [Next]_vars => LockHeldToEvaluate'
  BY LockExactStep
<1>. QED
  BY <1>1, <1>2, Invariance, PTL DEF Spec

(* repl_server_stop frees the server after the accept thread has ended and *)
(* with nobody left to accept; what uses it later is a client's thread.    *)
THEOREM FreedLast == Spec => []FreedWhenUnused
<1>1. Init => StopOK
  BY DEF Init, StopOK
<1>2. ASSUME Inv, StopOK, [Next]_vars PROVE StopOK'
  <2>. USE DEF server, evaluation, connection
  <2>1. TypeOK
    BY <1>2 DEF Inv
  <2>2. ASSUME NEW c \in Client, Connect(c) \/ SendRequest(c) \/ ReadFrame(c) \/ Close(c)
        PROVE  StopOK'
    <3>1. CASE Connect(c)
      BY <1>2, <3>1 DEF StopOK, Connect
    <3>2. CASE SendRequest(c) \/ ReadFrame(c) \/ Close(c)
      BY <1>2, <3>2 DEF StopOK, SendRequest, ReadFrame, Close, Queued
    <3>. QED
      BY <2>2, <3>1, <3>2
  <2>3. ASSUME NEW c \in Client, ClientThread(c)
        PROVE  StopOK'
    <3>1. UNCHANGED server /\ stale' \in {stale, stale \/ freed}
      BY <2>3 DEF ClientThread, Check, Receive, ReceiveFails, Intersect, Lock, EvalReads, Say,
                  EvalWrites, EvalFails, Respond, ReadsServer
    <3>2. Queued' \subseteq Queued
      BY <2>1, <2>3, MoveFacts DEF Queued
    <3>. QED
      BY <1>2, <3>1, <3>2 DEF StopOK
  <2>4. CASE AcceptCheck \/ Poll
    BY <1>2, <2>4 DEF StopOK, AcceptCheck, Poll, Queued
  <2>5. CASE Accept
    <3>1. Queued' \subseteq Queued
      <4>1. CASE UNCHANGED thread
        BY <4>1 DEF Queued
      <4>2. CASE thread' # thread
        <5>1. PICK c \in Queued, p \in {"check", "ended"} : GoTo(c, p)
          BY <2>5, <4>2 DEF Accept
        <5>2. thread'[c] = p /\ \A d \in Client \ {c} : thread'[d] = thread[d]
          BY <2>1, <5>1, GoToFacts DEF Places, Queued
        <5>. QED
          BY <5>2 DEF Queued
      <4>. QED
        BY <4>1, <4>2
    <3>. QED
      BY <1>2, <2>5, <3>1 DEF StopOK, Accept
  <2>6. CASE CloseListener
    <3>1. Queued' = {}
      BY <2>6 DEF CloseListener, Queued
    <3>. QED
      BY <1>2, <2>6, <3>1 DEF StopOK, CloseListener
  <2>7. CASE BeginStop \/ JoinAcceptor \/ FreeServer
    BY <1>2, <2>7 DEF StopOK, BeginStop, JoinAcceptor, FreeServer, Queued
  <2>8. CASE UNCHANGED vars
    BY <1>2, <2>8 DEF vars, StopOK, Queued
  <2>. QED
    BY <1>2, <2>2, <2>3, <2>4, <2>5, <2>6, <2>7, <2>8 DEF Next, AcceptLoop, Stop
<1>3. StopOK => FreedWhenUnused
  BY DEF StopOK, FreedWhenUnused
<1>. QED
  BY <1>1, <1>2, <1>3, Invariance, PTL DEF Spec

-------------------------------------------------------------------------------
(* The refinement, step by step.                                           *)

LEMMA MappedFacts ==
  ASSUME TypeOK
  PROVE  /\ Asked \in [Client -> Nat]
         /\ \A c \in Client : Asked[c] = pending[c] + (IF Underway(c) THEN 1 ELSE 0)
         /\ \A c \in Client : OnItsWay[c] = IF thread[c] = "respond" THEN {seen[c]} ELSE {}
<1>1. \A c \in Client : pending[c] \in Nat
  BY DEF TypeOK
<1>. QED
  BY <1>1 DEF Asked, OnItsWay

(* A step that evaluates nothing, fails nothing and takes no new request.  *)
LEMMA SilentStep ==
  ASSUME UNCHANGED <<global, results, pending>>,
         \A c \in Client :
           /\ (thread'[c] \in {"capabilities", "lock", "eval", "say", "write"})
                <=> (thread[c] \in {"capabilities", "lock", "eval", "say", "write"})
           /\ (thread'[c] = "respond") <=> (thread[c] = "respond")
           /\ (thread[c] = "respond") => (seen'[c] = seen[c])
  PROVE  UNCHANGED <<global, Asked, OnItsWay, results>>
<1>1. \A c \in Client : pending'[c] + (IF Underway(c)' THEN 1 ELSE 0)
                        = pending[c] + (IF Underway(c) THEN 1 ELSE 0)
  BY DEF Underway
<1>2. \A c \in Client : (IF thread'[c] = "respond" THEN {seen'[c]} ELSE {})
                        = (IF thread[c] = "respond" THEN {seen[c]} ELSE {})
  OBVIOUS
<1>3. Asked' = Asked
  BY <1>1 DEF Asked
<1>4. OnItsWay' = OnItsWay
  BY <1>2 DEF OnItsWay
<1>. QED
  BY <1>3, <1>4

(* A request in progress that succeeds or fails leaves the queue.          *)
LEMMA DoneFacts ==
  ASSUME TypeOK, NEW c \in Client, Underway(c), ~Underway(c)', UNCHANGED pending,
         \A d \in Client \ {c} : thread'[d] = thread[d]
  PROVE  Asked[c] > 0 /\ Asked' = [Asked EXCEPT ![c] = @ - 1]
<1>1. Asked[c] = pending[c] + 1 /\ pending[c] \in Nat
  BY MappedFacts DEF TypeOK
<1>2. Asked' = [d \in Client |-> pending[d] + (IF Underway(d)' THEN 1 ELSE 0)]
  BY DEF Asked
<1>3. Asked'[c] = pending[c]
  BY <1>1, <1>2
<1>4. \A d \in Client \ {c} : Asked'[d] = Asked[d]
  BY <1>2 DEF Asked, Underway
<1>5. Asked' = [d \in Client |-> Asked'[d]]
  BY <1>2
<1>. QED
  BY <1>1, <1>3, <1>4, <1>5, MappedFacts

LEMMA ThreadRefines ==
  ASSUME Inv, NEW c \in Client, ClientThread(c)
  PROVE  [Abstract!Next]_<<global, Asked, OnItsWay, results>>
<1>. USE DEF server, evaluation, connection
<1>1. TypeOK
  BY DEF Inv
<1>2. \A d \in Client \ {c} : thread'[d] = thread[d]
  BY <1>1, MoveFacts
<1>3. CASE Check(c) \/ ReceiveFails(c) \/ Intersect(c) \/ Lock(c) \/ EvalReads(c) \/ Say(c)
  <2>1. PICK p \in Places : GoTo(c, p)
    BY <1>3 DEF Check, ReceiveFails, Intersect, Lock, EvalReads, Say, Places
  <2>2. thread'[c] = p
    BY <1>1, <2>1, GoToFacts
  <2>3. /\ thread'[c] # "respond" /\ thread[c] # "respond"
        /\ (thread'[c] \in {"capabilities", "lock", "eval", "say", "write"})
             <=> (thread[c] \in {"capabilities", "lock", "eval", "say", "write"})
    BY <1>1, <1>3, GoToFacts DEF Check, ReceiveFails, Intersect, Lock, EvalReads, Say, Places
  <2>4. UNCHANGED <<global, results, pending>> /\ \A d \in Client \ {c} : seen'[d] = seen[d]
    BY <1>1, <1>3 DEF Check, ReceiveFails, Intersect, Lock, EvalReads, Say, TypeOK
  <2>. QED
    BY <1>2, <2>3, <2>4, SilentStep
<1>4. CASE Receive(c)
  <2>1. /\ thread[c] = "read" /\ thread'[c] = "capabilities"
        /\ pending[c] > 0 /\ pending' = [pending EXCEPT ![c] = @ - 1]
        /\ UNCHANGED <<global, seen, results>>
    BY <1>1, <1>4, GoToFacts DEF Receive, HasRequest, Places
  <2>2. pending \in [Client -> Nat]
    BY <1>1 DEF TypeOK
  <2>3. \A d \in Client : pending'[d] + (IF Underway(d)' THEN 1 ELSE 0)
                            = pending[d] + (IF Underway(d) THEN 1 ELSE 0)
    BY <1>2, <2>1, <2>2 DEF Underway
  <2>4. UNCHANGED Asked
    BY <2>3 DEF Asked
  <2>5. UNCHANGED OnItsWay
    BY <1>2, <2>1 DEF OnItsWay
  <2>. QED
    BY <2>1, <2>4, <2>5
<1>5. CASE EvalWrites(c)
  <2>1. /\ thread[c] = "write" /\ thread'[c] = "respond" /\ seen[c] = global
        /\ seen'[c] = global + 1 /\ \A d \in Client \ {c} : seen'[d] = seen[d]
        /\ global' = global + 1 /\ UNCHANGED <<results, pending>>
    BY <1>1, <1>5, GoToFacts DEF EvalWrites, Places, TypeOK, Inv, LockOK
  <2>2. Asked[c] > 0 /\ Asked' = [Asked EXCEPT ![c] = @ - 1]
    BY <1>1, <1>2, <2>1, DoneFacts DEF Underway
  <2>3. OnItsWay[c] = {} /\ OnItsWay' = [OnItsWay EXCEPT ![c] = {global + 1}]
    BY <1>2, <2>1 DEF OnItsWay
  <2>. QED
    BY <2>1, <2>2, <2>3 DEF Abstract!Next, Abstract!Evaluate
<1>6. CASE EvalFails(c)
  <2>1. /\ thread[c] \in {"eval", "write"} /\ thread'[c] = "report"
        /\ UNCHANGED <<global, seen, results, pending>>
    BY <1>1, <1>6, GoToFacts DEF EvalFails, Places
  <2>2. Asked[c] > 0 /\ Asked' = [Asked EXCEPT ![c] = @ - 1]
    BY <1>1, <1>2, <2>1, DoneFacts DEF Underway
  <2>3. UNCHANGED OnItsWay
    BY <1>2, <2>1 DEF OnItsWay
  <2>. QED
    BY <2>1, <2>2, <2>3 DEF Abstract!Next, Abstract!Fail
<1>7. CASE Respond(c)
  <2>1. /\ thread[c] \in {"respond", "report"} /\ thread'[c] \in {"check", "ended"}
        /\ UNCHANGED <<global, seen, pending>>
    BY <1>1, <1>7, GoToFacts DEF Respond, Places
  <2>2. CASE thread[c] = "report"
    <3>1. UNCHANGED results
      BY <1>7, <2>2 DEF Respond
    <3>. QED
      BY <1>2, <2>1, <2>2, <3>1, SilentStep
  <2>3. CASE thread[c] = "respond"
    <3>1. results' = [results EXCEPT ![c] = Append(@, seen[c])]
      BY <1>7, <2>3 DEF Respond
    <3>2. OnItsWay[c] = {seen[c]} /\ OnItsWay' = [OnItsWay EXCEPT ![c] = {}]
      BY <1>2, <2>1, <2>3 DEF OnItsWay
    <3>3. UNCHANGED Asked
      BY <1>2, <2>1 DEF Asked, Underway
    <3>. QED
      BY <2>1, <3>1, <3>2, <3>3 DEF Abstract!Next, Abstract!Deliver
  <2>. QED
    BY <2>1, <2>2, <2>3
<1>. QED
  BY <1>3, <1>4, <1>5, <1>6, <1>7 DEF ClientThread

LEMMA StepRefines ==
  ASSUME Inv, [Next]_vars
  PROVE  [Abstract!Next]_<<global, Asked, OnItsWay, results>>
<1>. USE DEF server, evaluation, connection
<1>1. TypeOK
  BY DEF Inv
<1>2. ASSUME NEW c \in Client, SendRequest(c)
      PROVE  Abstract!Next
  <2>1. /\ pending \in [Client -> Nat] /\ pending' = [pending EXCEPT ![c] = @ + 1]
        /\ UNCHANGED <<global, seen, results, thread>>
    BY <1>1, <1>2 DEF SendRequest, TypeOK
  <2>2. Asked' = [d \in Client |-> pending'[d] + (IF Underway(d) THEN 1 ELSE 0)]
    BY <2>1 DEF Asked, Underway
  <2>3. Asked' = [Asked EXCEPT ![c] = @ + 1]
    <3>1. pending'[c] = pending[c] + 1 /\ \A d \in Client \ {c} : pending'[d] = pending[d]
      BY <2>1
    <3>2. \A d \in Client : Asked'[d] = IF d = c THEN Asked[c] + 1 ELSE Asked[d]
      BY <2>1, <2>2, <3>1 DEF Asked, Underway
    <3>3. Asked' = [d \in Client |-> Asked'[d]]
      BY <2>2
    <3>. QED
      BY <1>1, <3>2, <3>3, MappedFacts
  <2>4. UNCHANGED OnItsWay
    BY <2>1 DEF OnItsWay
  <2>. QED
    BY <2>1, <2>3, <2>4 DEF Abstract!Next, Abstract!Ask
<1>3. ASSUME NEW c \in Client, Connect(c)
      PROVE  UNCHANGED <<global, Asked, OnItsWay, results>>
  <2>1. thread[c] = "none" /\ thread'[c] = "queued" /\ \A d \in Client \ {c} : thread'[d] = thread[d]
    BY <1>1, <1>3, GoToFacts DEF Connect, Places
  <2>. QED
    BY <1>3, <2>1, SilentStep DEF Connect
<1>4. ASSUME NEW c \in Client, ReadFrame(c) \/ Close(c)
      PROVE  UNCHANGED <<global, Asked, OnItsWay, results>>
  BY <1>4, SilentStep DEF ReadFrame, Close
<1>5. CASE AcceptLoop \/ BeginStop \/ Stop
  <2>1. UNCHANGED <<global, seen, results, pending>>
    BY <1>5 DEF AcceptLoop, AcceptCheck, Poll, Accept, BeginStop, Stop, CloseListener, JoinAcceptor,
                FreeServer
  <2>2. CASE UNCHANGED thread
    BY <2>1, <2>2, SilentStep
  <2>3. CASE Accept /\ thread' # thread
    <3>1. PICK c \in Queued, p \in {"check", "ended"} : GoTo(c, p)
      BY <2>3 DEF Accept
    <3>2. thread'[c] = p /\ thread[c] = "queued" /\ \A d \in Client \ {c} : thread'[d] = thread[d]
      BY <1>1, <3>1, GoToFacts DEF Places, Queued
    <3>. QED
      BY <2>1, <3>2, SilentStep
  <2>4. CASE CloseListener
    BY <2>1, <2>4, SilentStep DEF CloseListener, Queued
  <2>. QED
    BY <1>5, <2>2, <2>3, <2>4
    DEF AcceptLoop, AcceptCheck, Poll, BeginStop, Stop, JoinAcceptor, FreeServer
<1>6. CASE UNCHANGED vars
  BY <1>6, SilentStep DEF vars
<1>. QED
  BY <1>2, <1>3, <1>4, <1>5, <1>6, ThreadRefines DEF Next

(* The server as its clients see it evaluates each request in one step, at *)
(* most once, and sends its value before it evaluates their next request:  *)
(* the lock makes reading and writing the variable one operation, whatever *)
(* is printed, fails, stops or goes away in between.                       *)
THEOREM Refinement == Spec => ImplementsEvaluator
<1>1. Init => Abstract!Init
  <2>1. Init => Asked = [c \in Client |-> 0] /\ OnItsWay = [c \in Client |-> {}]
    BY DEF Init, Asked, OnItsWay, Underway
  <2>. QED
    BY <2>1 DEF Init, Abstract!Init
<1>2. Inv /\ [Next]_vars => [Abstract!Next]_<<global, Asked, OnItsWay, results>>
  BY StepRefines
<1>. QED
  BY <1>1, <1>2, Invariance, PTL DEF Spec, ImplementsEvaluator, Abstract!Spec
===============================================================================
