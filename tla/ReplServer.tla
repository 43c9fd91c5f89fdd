------------------------------- MODULE ReplServer ------------------------------
(***************************************************************************)
(* The REPL server: the accept thread, a detached thread for every client, *)
(* the eval lock they share, repl_server_stop, and clients that connect,   *)
(* send requests, read answers and go away.                                *)
(*                                                                         *)
(* A request is whole when it is received (Frames has the rest), and an    *)
(* evaluation adds one to a global variable, reading and writing it in     *)
(* separate steps, and prints at most once in between.                     *)
(***************************************************************************)
EXTENDS Integers, Sequences, FiniteSets

CONSTANTS
  Client,       \* the connections that are made
  Nobody,       \* not a client
  RequestMax,   \* bound: the requests on each connection
  BufferMax,    \* bound: the frames that fit in a socket's buffers
  Impolite      \* whether a client closes while an answer is on its way

ASSUME ClientAssumption == Nobody \notin Client
ASSUME BoundAssumption ==
  RequestMax \in [Client -> Nat] /\ BufferMax \in Nat /\ Impolite \in BOOLEAN

VARIABLES
  freed,      \* whether the ReplServer has been freed
  shutdown,   \* server->shutdown
  listening,  \* server->listen_fd >= 0
  acceptor,   \* where accept_loop is
  stopper,    \* where repl_server_stop is
  thread,     \* where client_thread_fn is, for each client
  holder,     \* who holds the eval lock
  global,     \* the global variable
  seen,       \* what an evaluation has read of it
  results,    \* the values sent to each client
  pending,    \* the requests a client has sent that have not been received
  requests,   \* the requests a client has sent
  unread,     \* the frames sent to a client that it has not read
  gone,       \* the clients that have closed their connections
  killed,     \* whether SIGPIPE has ended the process
  stale       \* whether a thread has read the ReplServer after free (auxiliary)

server == <<freed, shutdown, listening, acceptor, stopper>>
evaluation == <<holder, global, seen, results>>
connection == <<pending, requests, unread, gone>>
vars == <<server, thread, evaluation, connection, killed, stale>>

Init ==
  /\ freed = FALSE /\ shutdown = FALSE /\ listening = TRUE
  /\ acceptor = "check" /\ stopper = "idle"
  /\ thread = [c \in Client |-> "none"]
  /\ holder = Nobody /\ global = 0
  /\ seen = [c \in Client |-> 0]
  /\ results = [c \in Client |-> <<>>]
  /\ pending = [c \in Client |-> 0]
  /\ requests = [c \in Client |-> 0]
  /\ unread = [c \in Client |-> 0]
  /\ gone = {}
  /\ killed = FALSE /\ stale = FALSE

GoTo(c, place) == thread' = [thread EXCEPT ![c] = place]
Queued == {c \in Client : thread[c] = "queued"}

-------------------------------------------------------------------------------
(* Clients                                                                 *)

Connect(c) ==
  /\ listening /\ thread[c] = "none"
  /\ GoTo(c, "queued")
  /\ UNCHANGED <<server, evaluation, connection, killed, stale>>

SendRequest(c) ==
  /\ thread[c] \notin {"none", "ended"} /\ c \notin gone
  /\ requests[c] < RequestMax[c]
  /\ requests' = [requests EXCEPT ![c] = @ + 1]
  /\ pending' = [pending EXCEPT ![c] = @ + 1]
  /\ UNCHANGED <<server, thread, evaluation, unread, gone, killed, stale>>

ReadFrame(c) ==
  /\ unread[c] > 0 /\ c \notin gone
  /\ unread' = [unread EXCEPT ![c] = @ - 1]
  /\ UNCHANGED <<server, thread, evaluation, pending, requests, gone, killed, stale>>

Close(c) ==
  /\ thread[c] # "none" /\ c \notin gone
  /\ Impolite \/ (pending[c] = 0 /\ unread[c] = 0 /\ thread[c] \in {"queued", "check", "read", "ended"})
  /\ gone' = gone \cup {c}
  /\ UNCHANGED <<server, thread, evaluation, pending, requests, unread, killed, stale>>

-------------------------------------------------------------------------------
(* accept_loop                                                             *)

\* Mutant: poll without a timeout.
PollWaits == Queued # {}

PollReturns == TRUE

AcceptCheck ==
  /\ acceptor = "check"
  /\ acceptor' = IF shutdown THEN "exited" ELSE "poll"
  /\ UNCHANGED <<freed, shutdown, listening, stopper, thread, evaluation, connection,
                 killed, stale>>

(* poll returns for a connection or after 200 ms.                          *)
Poll ==
  /\ acceptor = "poll" /\ PollReturns
  /\ acceptor' = IF listening /\ Queued # {} THEN "accept" ELSE "check"
  /\ UNCHANGED <<freed, shutdown, listening, stopper, thread, evaluation, connection,
                 killed, stale>>

(* accept, then malloc and pthread_create, which may fail.                 *)
Accept ==
  /\ acceptor = "accept"
  /\ acceptor' = "check"
  /\ IF listening /\ Queued # {}
     THEN \E c \in Queued : GoTo(c, "check") \/ GoTo(c, "ended")
     ELSE UNCHANGED thread
  /\ UNCHANGED <<freed, shutdown, listening, stopper, evaluation, connection, killed, stale>>

-------------------------------------------------------------------------------
(* client_thread_fn. What it reads of a ReplServer that has been freed is  *)
(* anything.                                                               *)

ReadsServer == stale' = (stale \/ freed)

(* while (!srv->shutdown)                                                  *)
Check(c) ==
  /\ thread[c] = "check"
  /\ ReadsServer
  /\ \/ (shutdown \/ freed) /\ GoTo(c, "ended")
     \/ (~shutdown \/ freed) /\ GoTo(c, "read")
  /\ UNCHANGED <<server, evaluation, connection, killed>>

\* Mutant: json_frame_read returns without a frame.
AnyInput(c) == TRUE

HasRequest(c) == pending[c] > 0

(* json_frame_read                                                         *)
Receive(c) ==
  /\ thread[c] = "read"
  /\ HasRequest(c)
  /\ pending' = [pending EXCEPT ![c] = @ - 1]
  /\ GoTo(c, "capabilities")
  /\ UNCHANGED <<server, evaluation, requests, unread, gone, killed, stale>>

(* SO_RCVTIMEO, or the end of the stream                                   *)
ReceiveFails(c) ==
  /\ thread[c] = "read" /\ pending[c] = 0
  /\ GoTo(c, IF c \in gone THEN "ended" ELSE "check")
  /\ UNCHANGED <<server, evaluation, connection, killed, stale>>

(* srv->enable_tokens, enable_ast and enable_bytecode                      *)
Intersect(c) ==
  /\ thread[c] = "capabilities"
  /\ ReadsServer
  /\ GoTo(c, "lock")
  /\ UNCHANGED <<server, evaluation, connection, killed>>

\* Mutant: readers do not exclude each other.
LockAlwaysFree == TRUE

LockIsFree == holder = Nobody

(* runtime_eval_lock                                                       *)
Lock(c) ==
  /\ thread[c] = "lock" /\ LockIsFree
  /\ holder' = c
  /\ GoTo(c, "eval")
  /\ UNCHANGED <<server, global, seen, results, connection, killed, stale>>

(* repl_eval_line: the value is read; then OP_CALL may call say.           *)
EvalReads(c) ==
  /\ thread[c] = "eval"
  /\ seen' = [seen EXCEPT ![c] = global]
  /\ GoTo(c, "write") \/ GoTo(c, "say")
  /\ UNCHANGED <<server, holder, global, results, connection, killed, stale>>

(* A send that blocks while the buffers are full. To a client that has     *)
(* gone it fails, and raises SIGPIPE once the client's host has answered;  *)
(* no handler is installed and no flag given.                              *)
SendTo(c) ==
  IF c \in gone
  THEN killed' \in BOOLEAN /\ UNCHANGED unread
  ELSE /\ unread[c] < BufferMax
       /\ unread' = [unread EXCEPT ![c] = @ + 1]
       /\ UNCHANGED killed

(* server_output_write, under the eval lock                                *)
Say(c) ==
  /\ thread[c] = "say"
  /\ SendTo(c)
  /\ GoTo(c, "write")
  /\ UNCHANGED <<server, evaluation, pending, requests, gone, stale>>

(* The value is written, the lock released.                                *)
EvalWrites(c) ==
  /\ thread[c] = "write"
  /\ global' = seen[c] + 1
  /\ seen' = [seen EXCEPT ![c] = @ + 1]
  /\ holder' = Nobody
  /\ GoTo(c, "respond")
  /\ UNCHANGED <<server, results, connection, killed, stale>>

\* Mutant: an early return forgets to unlock.
StillHeld == holder

HolderAfterError == Nobody

(* A syntax, compile or runtime error                                      *)
EvalFails(c) ==
  /\ thread[c] \in {"eval", "write"}
  /\ holder' = HolderAfterError
  /\ GoTo(c, "report")
  /\ UNCHANGED <<server, global, seen, results, connection, killed, stale>>

(* The response is sent; a send that failed ends the thread.               *)
Respond(c) ==
  /\ thread[c] \in {"respond", "report"}
  /\ SendTo(c)
  /\ results' = IF thread[c] = "report" THEN results
                ELSE [results EXCEPT ![c] = Append(@, seen[c])]
  /\ GoTo(c, "check") \/ (c \in gone /\ GoTo(c, "ended"))
  /\ UNCHANGED <<server, holder, global, seen, pending, requests, gone, stale>>

-------------------------------------------------------------------------------
(* repl_server_stop                                                        *)

BeginStop ==
  /\ stopper = "idle"
  /\ shutdown' = TRUE
  /\ stopper' = "close"
  /\ UNCHANGED <<freed, listening, acceptor, thread, evaluation, connection, killed, stale>>

(* Connections that nobody has accepted are reset.                         *)
CloseListener ==
  /\ stopper = "close"
  /\ listening' = FALSE
  /\ thread' = [c \in Client |-> IF c \in Queued THEN "ended" ELSE thread[c]]
  /\ stopper' = "join"
  /\ UNCHANGED <<freed, shutdown, acceptor, evaluation, connection, killed, stale>>

JoinAcceptor ==
  /\ stopper = "join" /\ acceptor = "exited"
  /\ stopper' = "grace"
  /\ UNCHANGED <<freed, shutdown, listening, acceptor, thread, evaluation, connection,
                 killed, stale>>

(* usleep(100000), whatever the client threads are doing, and free.        *)
FreeServer ==
  /\ stopper = "grace"
  /\ freed' = TRUE
  /\ stopper' = "done"
  /\ UNCHANGED <<shutdown, listening, acceptor, thread, evaluation, connection, killed, stale>>

-------------------------------------------------------------------------------
AcceptLoop == AcceptCheck \/ Poll \/ Accept
Stop == CloseListener \/ JoinAcceptor \/ FreeServer
ClientThread(c) ==
  \/ Check(c) \/ Receive(c) \/ ReceiveFails(c) \/ Intersect(c) \/ Lock(c)
  \/ EvalReads(c) \/ Say(c) \/ EvalWrites(c) \/ EvalFails(c) \/ Respond(c)

Next ==
  /\ ~killed
  /\ \/ \E c \in Client :
          \/ Connect(c) \/ SendRequest(c) \/ ReadFrame(c) \/ Close(c)
          \/ ClientThread(c)
     \/ AcceptLoop \/ BeginStop \/ Stop

(* Threads run; poll and recv have timeouts; clients read what they are    *)
(* sent. A stop need not begin and a client need not send.                 *)
Fairness ==
  /\ WF_vars(~killed /\ AcceptLoop) /\ WF_vars(~killed /\ Stop)
  /\ \A c \in Client : WF_vars(~killed /\ ClientThread(c)) /\ WF_vars(~killed /\ ReadFrame(c))

Spec == Init /\ [][Next]_vars /\ Fairness

-------------------------------------------------------------------------------
TypeOK ==
  /\ {freed, shutdown, listening, killed, stale} \subseteq BOOLEAN
  /\ acceptor \in {"check", "poll", "accept", "exited"}
  /\ stopper \in {"idle", "close", "join", "grace", "done"}
  /\ thread \in [Client -> {"none", "queued", "check", "read", "capabilities", "lock", "eval",
                            "say", "write", "respond", "report", "ended"}]
  /\ holder \in Client \cup {Nobody}
  /\ global \in Nat /\ seen \in [Client -> Nat]
  /\ results \in [Client -> Seq(Nat)]
  /\ pending \in [Client -> Nat] /\ requests \in [Client -> Nat]
  /\ \A c \in Client : requests[c] \in 0..RequestMax[c] /\ pending[c] <= requests[c]
  /\ unread \in [Client -> 0..BufferMax]
  /\ gone \subseteq Client

(* Evaluations of different clients happen one after the other: no update  *)
(* of a global is lost, no two requests are answered with the same value,  *)
(* and a client's answers follow the order of its requests.                *)
Serialised ==
  \A c, d \in Client : \A i \in 1..Len(results[c]), j \in 1..Len(results[d]) :
    /\ c # d => results[c][i] # results[d][j]
    /\ c = d /\ i < j => results[c][i] < results[c][j]

(* repl_server.h: "Stop the server and free all resources. Waits for       *)
(* active client threads to finish (with a timeout)": no thread uses the   *)
(* server once it has been freed.                                          *)
NoUseAfterFree == ~stale

(* repl_server.c: handle_json_request returns 0 for a closed connection    *)
(* and the thread of that client stops. No client ends the whole server.   *)
StaysAlive == ~killed

(* repl_server_stop returns, whatever the clients are doing: closing a     *)
(* socket does not wake accept, polling does.                              *)
StopReturns == (stopper # "idle") ~> (stopper = "done" \/ killed)

(* An evaluation that has begun ends and lets the others in, by success or *)
(* by error, if the clients read what they are sent.                       *)
LockIsReleased == \A c \in Client : (holder = c) ~> (holder # c \/ killed)

(* The eval lock is held exactly while an evaluation is in progress: there *)
(* is no path through repl_eval_line that keeps it.                        *)
Evaluating(c) == thread[c] \in {"eval", "say", "write"}

LockHeldToEvaluate == \A c \in Client : holder = c <=> Evaluating(c)

(* repl_server_stop frees the ReplServer when the accept thread has ended, *)
(* the listener is closed and nobody waits to be accepted: only a client's *)
(* detached thread can use it afterwards.                                  *)
FreedWhenUnused ==
  /\ freed => acceptor = "exited" /\ ~listening /\ Queued = {}
  /\ stale => freed

(* The refinement: a request waits until its evaluation writes or fails,   *)
(* and its value from then on until it is sent.                            *)
Underway(c) == thread[c] \in {"capabilities", "lock", "eval", "say", "write"}

Asked == [c \in Client |-> pending[c] + (IF Underway(c) THEN 1 ELSE 0)]
OnItsWay == [c \in Client |-> IF thread[c] = "respond" THEN {seen[c]} ELSE {}]

Abstract == INSTANCE Evaluator WITH asked <- Asked, answer <- OnItsWay

(* Evaluations behave as if each were a single step.                       *)
ImplementsEvaluator == Abstract!Spec
===============================================================================
