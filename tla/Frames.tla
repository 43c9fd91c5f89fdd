-------------------------------- MODULE Frames ---------------------------------
(***************************************************************************)
(* The request stream of one connection to the REPL server: frames cut     *)
(* into pieces by the network, json_frame_read of json.c putting them      *)
(* together under a receive timeout, and client_thread_fn of repl_server.c *)
(* calling it again.                                                       *)
(*                                                                         *)
(* A frame is six pieces: two of its Content-Length line, two of the blank *)
(* line that ends the header, two of its body.                             *)
(***************************************************************************)
EXTENDS Integers, Sequences

CONSTANTS
  FrameMax,   \* bound: the frames a client sends
  HeaderMax,  \* bound: the pieces that fit in hdr[256]
  Stalls      \* whether a client may stall inside a frame

Kind ==
  {"eval",     \* a request
   "garbage",  \* a body that is not a request
   "size"}     \* a Content-Length that is 0 or above JSON_MAX_FRAME_SIZE

ASSUME BoundAssumption ==
  FrameMax \in Nat /\ HeaderMax \in Nat /\ HeaderMax >= 4 /\ Stalls \in BOOLEAN

FrameSize == 6
PieceMax == FrameMax * FrameSize

(* What the p-th piece of the stream is                                    *)
FrameOf(p) == ((p - 1) \div FrameSize) + 1
IsPart(p, part) == p % FrameSize = part
LengthEnd(p) == IsPart(p, 2)
BlankEnd(p) == IsPart(p, 4)
BodyEnd(p) == IsPart(p, 0)

VARIABLES
  kinds,    \* the kinds of the frames
  sent,     \* how many pieces the client has sent
  hungup,   \* whether it will send no more
  gone,     \* whether it will not receive any more either
  server,   \* "runs", or "stops" with its shutdown flag set, or "freed"
  reading,  \* whether the client thread is inside json_frame_read
  read,     \* how many pieces the server has received
  start,    \* how many before the call of json_frame_read in progress
  length,   \* the frame whose Content-Length is being received, or 0
  left,     \* how many pieces of body it still expects
  answers,  \* what the server has answered: the frame's id, or 0 for an error
  lost,     \* which of the answers could not be encoded or sent
  starved,  \* for which frames, in their order, memory ran out
  conn      \* "open", or "closed" by the server

client == <<kinds, sent, hungup, gone>>
call == <<reading, read, start, length, left>>
outcome == <<answers, lost, starved>>
vars == <<client, server, call, outcome, conn>>

Init ==
  /\ kinds \in [1..FrameMax -> Kind]
  /\ sent = 0 /\ hungup = FALSE /\ gone = FALSE
  /\ server = "runs"
  /\ reading = FALSE /\ read = 0 /\ start = 0 /\ length = 0 /\ left = 0
  /\ answers = <<>> /\ lost = {} /\ starved = {}
  /\ conn = "open"

-------------------------------------------------------------------------------
(* The client, and the thread that stops the server.                       *)

Send ==
  /\ ~hungup /\ sent < PieceMax
  /\ sent' = sent + 1
  /\ UNCHANGED <<kinds, hungup, gone, server, call, outcome, conn>>

HangUp ==
  /\ ~hungup
  /\ hungup' = TRUE
  /\ UNCHANGED <<kinds, sent, gone, server, call, outcome, conn>>

(* The client closes its socket, or the network gives the connection up.   *)
Leave ==
  /\ ~gone
  /\ gone' = TRUE /\ hungup' = TRUE
  /\ UNCHANGED <<kinds, sent, server, call, outcome, conn>>

(* repl_server_stop sets the flag and, 100 milliseconds after the accept   *)
(* thread has ended, frees the server.                                     *)
Stop ==
  /\ \/ server = "runs" /\ server' = "stops"
     \/ server = "stops" /\ server' = "freed"
  /\ UNCHANGED <<client, call, outcome, conn>>

-------------------------------------------------------------------------------
(* The loop of client_thread_fn looks at the flag between two requests. Of *)
(* a server that is freed it may read anything.                            *)
Check ==
  /\ conn = "open" /\ ~reading
  /\ \/ server # "runs" /\ conn' = "closed" /\ UNCHANGED reading
     \/ server # "stops" /\ reading' = TRUE /\ UNCHANGED conn
  /\ UNCHANGED <<client, server, read, start, length, left, outcome>>

(* json_frame_read: recv of a byte of the header. The header ends when all *)
(* of a blank line has been received in this call, or when hdr is full.    *)
HeaderEnds ==
  \/ BlankEnd(read') /\ read' - start >= 2
  \/ read' - start = HeaderMax

(* strstr: the first Content-Length line that is in hdr as a whole         *)
LengthLines ==
  {p \in start + 2 .. read' : LengthEnd(p)}

FrameFound ==
  IF LengthLines = {} THEN 0
  ELSE FrameOf(CHOOSE p \in LengthLines : \A q \in LengthLines : p <= q)

\* Mutant: the count of the body is off by one.
ShortBody == 1

BodySize == 2

(* The frame whose body json_frame_read would now receive.                 *)
Ordinal == Len(answers) + 1

(* A length that is refused, or a malloc of the body that fails, ends the  *)
(* call and the connection.                                                *)
ReadHeader ==
  /\ conn = "open" /\ reading /\ length = 0 /\ read < sent
  /\ read' = read + 1
  /\ IF ~HeaderEnds THEN UNCHANGED <<length, left, starved, conn>>
     ELSE IF FrameFound = 0 \/ kinds[FrameFound] = "size"
     THEN conn' = "closed" /\ UNCHANGED <<length, left, starved>>
     ELSE \/ length' = FrameFound /\ left' = BodySize /\ UNCHANGED <<starved, conn>>
          \/ /\ conn' = "closed" /\ starved' = starved \cup {Ordinal}
             /\ UNCHANGED <<length, left>>
  /\ UNCHANGED <<client, server, reading, start, answers, lost>>

(* What handle_json_request answers to a body that ends at piece p.        *)
Answer(p) ==
  IF BodyEnd(p) /\ FrameOf(p) = length /\ kinds[length] = "eval" THEN length ELSE 0

\* Mutant: a body that is not a request gets no answer.
AnsweredIf(id) == IF id = 0 THEN answers ELSE Append(answers, id)

AnswersAfter(id) == Append(answers, id)

\* Mutant: an error response ends the connection as well.
ClosedAfterError(id, send_ok) == IF send_ok /\ id # 0 THEN conn ELSE "closed"

(* After an answer to a request that was not sent the thread ends; after   *)
(* an error response that was not sent it goes on.                         *)
ConnAfter(id, send_ok) == IF send_ok \/ id = 0 THEN conn ELSE "closed"

(* handle_json_request with a body that ends at piece p. Without memory a  *)
(* request is taken for none, or its answer is not encoded; without its    *)
(* client the answer may not be sent. (That send may also raise SIGPIPE is *)
(* left to the module of the whole server.)                                *)
Handle(p) ==
  \E id \in {Answer(p), 0}, memory, send_ok \in BOOLEAN :
    /\ memory => id = Answer(p) /\ (send_ok \/ gone)
    /\ answers' = AnswersAfter(id)
    /\ lost' = IF send_ok THEN lost ELSE lost \cup {Ordinal}
    /\ starved' = IF memory THEN starved ELSE starved \cup {Ordinal}
    /\ conn' = ConnAfter(id, send_ok)

\* Mutant: the frame stays the one being received.
SameLength == length

LengthAfterBody == 0

(* recv_exact of the body, and the answer when it is complete.             *)
ReadBody ==
  /\ conn = "open" /\ reading /\ length # 0 /\ read < sent
  /\ read' = read + 1
  /\ left' = left - 1
  /\ IF left > 1 THEN UNCHANGED <<reading, start, length, outcome, conn>>
     ELSE /\ Handle(read')
          /\ length' = LengthAfterBody
          /\ start' = read'
          /\ reading' = FALSE
  /\ UNCHANGED <<client, server>>

(* Nothing arrives for 30 seconds. In a header, json_frame_read returns    *)
(* with timed_out set and is called again, with hdr empty; in a body it    *)
(* returns as for an error.                                                *)
Timeout ==
  /\ conn = "open" /\ reading /\ read = sent /\ ~hungup
  /\ Stalls \/ (read = start /\ length = 0)
  /\ IF length = 0 THEN start' = read /\ reading' = FALSE /\ UNCHANGED conn
     ELSE conn' = "closed" /\ UNCHANGED <<start, reading>>
  /\ UNCHANGED <<client, server, read, length, left, outcome>>

(* recv returns 0.                                                         *)
EndOfStream ==
  /\ conn = "open" /\ reading /\ read = sent /\ hungup
  /\ conn' = "closed"
  /\ UNCHANGED <<client, server, call, outcome>>

(* recv fails: the connection was reset, and what was sent is dropped.     *)
Reset ==
  /\ conn = "open" /\ reading /\ gone
  /\ conn' = "closed"
  /\ UNCHANGED <<client, server, call, outcome>>

Server == Check \/ ReadHeader \/ ReadBody \/ EndOfStream

Next == Send \/ HangUp \/ Leave \/ Stop \/ Server \/ Timeout \/ Reset

(* The client thread is an operating system thread with nothing to wait    *)
(* for but its socket.                                                     *)
Fairness == WF_vars(Server)

Spec == Init /\ [][Next]_vars /\ Fairness

-------------------------------------------------------------------------------
TypeOK ==
  /\ sent \in 0..PieceMax /\ read \in 0..sent /\ start \in 0..read
  /\ hungup \in BOOLEAN /\ gone \in BOOLEAN /\ reading \in BOOLEAN
  /\ gone => hungup
  /\ server \in {"runs", "stops", "freed"} /\ conn \in {"open", "closed"}
  /\ length \in 0..FrameMax /\ left \in 0..2
  /\ length # 0 => left > 0
  /\ answers \in Seq(0..FrameMax)
  /\ lost \subseteq 1..Len(answers) /\ starved \subseteq 1..Ordinal

Expected(i) == IF kinds[i] = "eval" THEN i ELSE 0

(* The answers are those to the first frames, in their order: no request   *)
(* is skipped, answered twice or answered with another's, wherever the     *)
(* network cuts the stream; only without memory a request is taken for     *)
(* none. When the answer to a request is lost no other follows it.         *)
AnsweredInOrder ==
  /\ Len(answers) <= FrameMax
  /\ \A i \in 1..Len(answers) :
       answers[i] = Expected(i) \/ (answers[i] = 0 /\ i \in starved)
  /\ \A i \in lost :
       /\ gone \/ i \in starved
       /\ answers[i] # 0 => i = Len(answers) /\ conn = "closed"

(* A connection is closed by the server only because the client has hung   *)
(* up or left, for a frame that cannot be skipped, because memory ran out  *)
(* for the last answer or for the frame after it, or, between two frames,  *)
(* because the server is being stopped.                                    *)
ClosedForCause ==
  conn = "closed" =>
    \/ hungup /\ read = sent
    \/ gone
    \/ \E i \in 1..FrameMax : kinds[i] = "size" /\ Len(answers) = i - 1
    \/ Ordinal \in starved
    \/ Len(answers) \in lost \cap starved
    \/ server # "runs" /\ read = FrameSize * Len(answers)

(* A frame that has been sent, after frames that can be skipped, is        *)
(* answered, unless the client leaves, the server is stopped or memory     *)
(* runs out for the frame or one before it.                                *)
EveryFrameAnswered ==
  \A i \in 1..FrameMax :
    (sent >= i * FrameSize /\ \A j \in 1..i : kinds[j] # "size")
      ~> \/ Len(answers) >= i /\ i \notin lost
         \/ gone \/ server # "runs" \/ \E j \in starved : j <= i

(* Even if a client stalls, so that a part of a header is dropped and the  *)
(* server takes up the stream inside a frame, what is evaluated are        *)
(* requests the client sent, in its order, none of them twice.             *)
EvaluatedOnce ==
  \A i \in 1..Len(answers) :
    answers[i] # 0 =>
      /\ kinds[answers[i]] = "eval"
      /\ \A j \in 1..Len(answers) : i < j /\ answers[j] # 0 => answers[i] < answers[j]

(* A server that waits for its client has answered every frame it has been *)
(* sent as a whole.                                                        *)
NothingOwed ==
  conn = "open" /\ read = sent => Len(answers) = sent \div FrameSize
===============================================================================
