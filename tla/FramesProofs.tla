------------------------------ MODULE FramesProofs -----------------------------
(***************************************************************************)
(* Proofs about Frames: wherever the network cuts a stream of any length,  *)
(* the answers are those to the first frames in their order, and the       *)
(* server closes a connection only for cause, as long as no client stalls  *)
(* inside a frame for longer than the receive timeout; whatever a client   *)
(* does, no request is evaluated twice or out of order.  The server may be *)
(* stopped, the client leave and memory run out at any moment.             *)
(***************************************************************************)
EXTENDS Frames, WellFoundedInduction, TLAPS

(* Where the server is in the frame after those it has answered.            *)
InFrame ==
  /\ IF length = 0 THEN read - start \in 0..3
     ELSE length = Len(answers) + 1 /\ read = start + FrameSize - left
  /\ ~reading => length = 0 /\ read = start

InOrder ==
  \A i \in 1..Len(answers) :
    answers[i] = Expected(i) \/ (answers[i] = 0 /\ i \in starved)

(* What is lost, and that nothing follows the lost answer to a request.     *)
LostOK ==
  \A i \in lost :
    /\ gone \/ i \in starved
    /\ answers[i] # 0 => i = Len(answers) /\ conn = "closed"

TypeInv == TypeOK /\ kinds \in [1..FrameMax -> Kind]

Inv ==
  /\ start = FrameSize * Len(answers)
  /\ conn = "open" => InFrame
  /\ InOrder /\ LostOK /\ ClosedForCause

-------------------------------------------------------------------------------
(* The stream.                                                             *)

(* Every piece the client can send belongs to a frame it can send.          *)
LEMMA FrameOfRange ==
  ASSUME NEW p \in 1..PieceMax
  PROVE  FrameOf(p) \in 1..FrameMax
<1>1. PICK n \in Nat : n = FrameMax
  BY BoundAssumption
<1>2. p \in Nat /\ 1 <= p /\ p <= n * 6
  BY <1>1 DEF PieceMax, FrameSize
<1>3. ((p - 1) \div 6) + 1 \in 1..n
  BY <1>2
<1>. QED
  BY <1>1, <1>3 DEF FrameOf, FrameSize

(* The frame that is found is the one of a Content-Length line in hdr.      *)
LEMMA FoundLine ==
  ASSUME TypeInv, read' \in 1..PieceMax, LengthLines # {}
  PROVE  /\ LengthLines \subseteq 1..PieceMax
         /\ \E q \in LengthLines : FrameFound = FrameOf(q)
<1>1. PieceMax \in Nat /\ FrameMax \in Nat /\ start \in Nat
  BY BoundAssumption DEF PieceMax, FrameSize, TypeInv, TypeOK
<1>2. \A p \in LengthLines : p \in 1..PieceMax
  BY <1>1 DEF LengthLines
<1>3. LengthLines \in SUBSET Nat
  BY <1>1, <1>2
<1>4. PICK n \in LengthLines : \A m \in LengthLines : <<m, n>> \notin OpToRel(<, Nat)
  BY <1>3, NatLessThanWellFounded, WFMin
<1>5. \A m \in LengthLines : ~(m < n)
  BY <1>3, <1>4 DEF OpToRel
<1>6. \A m \in LengthLines : n <= m
  BY <1>3, <1>5
<1>7. PICK q \in LengthLines :
        q = CHOOSE p \in LengthLines : \A m \in LengthLines : p <= m
  BY <1>6
<1>8. FrameFound = FrameOf(q)
  BY <1>7 DEF FrameFound
<1>. QED
  BY <1>2, <1>8

(* It is a frame that can be sent.                                         *)
LEMMA FoundRange ==
  ASSUME TypeInv, read' \in 1..PieceMax
  PROVE  FrameFound \in 0..FrameMax
<1>1. FrameMax \in Nat
  BY BoundAssumption
<1>2. CASE LengthLines = {}
  BY <1>1, <1>2 DEF FrameFound
<1>3. CASE LengthLines # {}
  BY <1>1, <1>3, FoundLine, FrameOfRange
<1>. QED
  BY <1>2, <1>3

(* The parts of the frame that begins after k others.                       *)
LEMMA FrameParts ==
  ASSUME NEW k \in Nat
  PROVE  /\ FrameOf(6 * k + 2) = k + 1 /\ FrameOf(6 * k + 6) = k + 1
         /\ \A d \in 1..6 : /\ BlankEnd(6 * k + d) <=> d = 4
                            /\ LengthEnd(6 * k + d) <=> d = 2
                            /\ BodyEnd(6 * k + d) <=> d = 6
<1>1. FrameOf(6 * k + 2) = k + 1 /\ FrameOf(6 * k + 6) = k + 1
  BY DEF FrameOf, FrameSize
<1>2. ASSUME NEW d \in 1..6
      PROVE  (6 * k + d) % 6 = IF d = 6 THEN 0 ELSE d
  OBVIOUS
<1>. QED
  BY <1>1, <1>2 DEF BlankEnd, LengthEnd, BodyEnd, IsPart, FrameSize

-------------------------------------------------------------------------------
(* What holds of stalling clients too.                                      *)

LEMMA InitType == Init => TypeInv
<1>. SUFFICES ASSUME Init PROVE TypeInv
  OBVIOUS
<1>1. PieceMax \in Nat /\ FrameMax \in Nat
  BY BoundAssumption DEF PieceMax, FrameSize
<1>2. answers \in Seq(0..FrameMax) /\ lost = {} /\ starved = {}
  BY DEF Init
<1>3. hungup = FALSE /\ gone = FALSE /\ reading = FALSE
  BY DEF Init
<1>4. /\ sent = 0 /\ read = 0 /\ start = 0 /\ length = 0 /\ left = 0
      /\ conn = "open" /\ server = "runs"
  BY DEF Init
<1>5. kinds \in [1..FrameMax -> Kind]
  BY DEF Init
<1>6. /\ sent \in 0..PieceMax /\ read \in 0..sent /\ start \in 0..read
      /\ length \in 0..FrameMax /\ left \in 0..2 /\ (length # 0 => left > 0)
  BY <1>1, <1>4
<1>7. lost \subseteq 1..Len(answers) /\ starved \subseteq 1..Ordinal
  BY <1>2
<1>. QED
  BY <1>2, <1>3, <1>4, <1>5, <1>6, <1>7 DEF TypeInv, TypeOK

(* What a step of the environment or between two frames leaves alone.       *)
LEMMA QuietFacts ==
  ASSUME TypeInv,
         Send \/ HangUp \/ Leave \/ Stop \/ Check \/ EndOfStream \/ Reset \/ UNCHANGED vars
  PROVE  /\ UNCHANGED <<kinds, read, start, length, left, answers, lost, starved>>
         /\ sent' \in {sent, sent + 1} /\ sent' \in 0..PieceMax
         /\ (hungup => hungup') /\ (gone => gone') /\ (server # "runs" => server' # "runs")
         /\ hungup' \in BOOLEAN /\ gone' \in BOOLEAN /\ reading' \in BOOLEAN
         /\ (gone' => hungup')
         /\ server' \in {"runs", "stops", "freed"} /\ conn' \in {"open", "closed"}
         /\ (conn = "closed" => conn' = "closed")
         /\ (hungup => sent' = sent)
<1>1. /\ hungup \in BOOLEAN /\ gone \in BOOLEAN /\ reading \in BOOLEAN
      /\ (gone => hungup)
      /\ server \in {"runs", "stops", "freed"} /\ conn \in {"open", "closed"}
      /\ sent \in 0..PieceMax /\ PieceMax \in Nat
  BY BoundAssumption DEF TypeInv, TypeOK, PieceMax, FrameSize
<1>2. CASE Send
  BY <1>1, <1>2 DEF Send, client, call, outcome
<1>3. CASE HangUp
  BY <1>1, <1>3 DEF HangUp, client, call, outcome
<1>4. CASE Leave
  BY <1>1, <1>4 DEF Leave, client, call, outcome
<1>5. CASE Stop
  BY <1>1, <1>5 DEF Stop, client, call, outcome
<1>6. CASE Check
  BY <1>1, <1>6 DEF Check, client, call, outcome
<1>7. CASE EndOfStream \/ Reset
  BY <1>1, <1>7 DEF EndOfStream, Reset, client, call, outcome
<1>8. CASE UNCHANGED vars
  BY <1>1, <1>8 DEF vars, client, call, outcome
<1>. QED
  BY <1>2, <1>3, <1>4, <1>5, <1>6, <1>7, <1>8

(* How handle_json_request leaves the connection.                          *)
LEMMA HandleFacts ==
  ASSUME TypeInv, NEW p \in Nat, Handle(p)
  PROVE  \E id \in {Answer(p), 0} :
           /\ id \in 0..FrameMax /\ answers' = Append(answers, id)
           /\ answers' \in Seq(0..FrameMax) /\ Len(answers') = Len(answers) + 1
           /\ \A i \in 1..Len(answers) : answers'[i] = answers[i]
           /\ answers'[Len(answers) + 1] = id
           /\ lost' \subseteq lost \cup {Len(answers) + 1}
           /\ starved \subseteq starved' /\ starved' \subseteq starved \cup {Len(answers) + 1}
           /\ id = Answer(p) \/ Len(answers) + 1 \in starved'
           /\ Len(answers) + 1 \in lost' =>
                 /\ gone \/ Len(answers) + 1 \in starved'
                 /\ id # 0 => conn' = "closed"
           /\ conn' # conn => conn' = "closed" /\ Len(answers) + 1 \in lost'
<1>1. PICK id \in {Answer(p), 0}, memory \in BOOLEAN, send_ok \in BOOLEAN :
        /\ memory => id = Answer(p) /\ (send_ok \/ gone)
        /\ answers' = AnswersAfter(id)
        /\ lost' = IF send_ok THEN lost ELSE lost \cup {Ordinal}
        /\ starved' = IF memory THEN starved ELSE starved \cup {Ordinal}
        /\ conn' = ConnAfter(id, send_ok)
  BY DEF Handle
<1>2. /\ answers \in Seq(0..FrameMax) /\ lost \subseteq 1..Len(answers)
      /\ Ordinal = Len(answers) + 1 /\ Len(answers) \in Nat /\ Ordinal \notin lost
  BY DEF TypeInv, TypeOK, Ordinal
<1>3. id \in 0..FrameMax
  BY BoundAssumption DEF Answer, TypeInv, TypeOK
<1>4. /\ answers' = Append(answers, id) /\ answers' \in Seq(0..FrameMax)
      /\ Len(answers') = Len(answers) + 1 /\ answers'[Len(answers) + 1] = id
      /\ \A i \in 1..Len(answers) : answers'[i] = answers[i]
  BY <1>1, <1>2, <1>3 DEF AnswersAfter
<1>5. Len(answers) + 1 \in lost' => ~send_ok
  BY <1>1, <1>2
<1>6. /\ lost' \subseteq lost \cup {Len(answers) + 1}
      /\ starved \subseteq starved' /\ starved' \subseteq starved \cup {Len(answers) + 1}
      /\ id = Answer(p) \/ Len(answers) + 1 \in starved'
  BY <1>1, <1>2
<1>7. Len(answers) + 1 \in lost' =>
        (gone \/ Len(answers) + 1 \in starved') /\ (id # 0 => conn' = "closed")
  BY <1>1, <1>2, <1>5 DEF ConnAfter
<1>8. conn' # conn => conn' = "closed" /\ Len(answers) + 1 \in lost'
  BY <1>1, <1>2 DEF ConnAfter
<1>. QED
  BY <1>3, <1>4, <1>6, <1>7, <1>8

LEMMA TypeStep ==
  ASSUME TypeInv, [Next]_vars
  PROVE  TypeInv'
<1>1. /\ PieceMax \in Nat /\ FrameMax \in Nat
      /\ sent \in 0..PieceMax /\ read \in 0..sent /\ start \in 0..read
      /\ length \in 0..FrameMax /\ left \in 0..2 /\ (length # 0 => left > 0)
      /\ kinds \in [1..FrameMax -> Kind]
      /\ answers \in Seq(0..FrameMax) /\ Len(answers) \in Nat
      /\ lost \subseteq 1..Len(answers) /\ starved \subseteq 1..Len(answers) + 1
  BY BoundAssumption DEF PieceMax, FrameSize, TypeInv, TypeOK, Ordinal
<1>2. CASE Send \/ HangUp \/ Leave \/ Stop \/ Check \/ EndOfStream \/ Reset \/ UNCHANGED vars
  <2>1. read' = read /\ sent' \in 0..PieceMax /\ sent <= sent'
    BY <1>1, <1>2, QuietFacts
  <2>2. /\ sent' \in 0..PieceMax /\ read' \in 0..sent' /\ start' \in 0..read'
        /\ length' \in 0..FrameMax /\ left' \in 0..2 /\ (length' # 0 => left' > 0)
    BY <1>1, <1>2, <2>1, QuietFacts
  <2>3. /\ answers' \in Seq(0..FrameMax) /\ kinds' \in [1..FrameMax -> Kind]
        /\ lost' \subseteq 1..Len(answers') /\ starved' \subseteq 1..Ordinal'
    BY <1>1, <1>2, QuietFacts DEF Ordinal
  <2>4. /\ hungup' \in BOOLEAN /\ gone' \in BOOLEAN /\ reading' \in BOOLEAN
        /\ (gone' => hungup')
        /\ server' \in {"runs", "stops", "freed"} /\ conn' \in {"open", "closed"}
    BY <1>2, QuietFacts
  <2>. QED
    BY <2>2, <2>3, <2>4 DEF TypeInv, TypeOK
<1>3. CASE ReadHeader
  <2>1. read' = read + 1 /\ read' \in 1..PieceMax /\ read' \in 0..sent /\ start \in 0..read'
    BY <1>1, <1>3 DEF ReadHeader
  <2>2. FrameFound \in 0..FrameMax
    BY <2>1, FoundRange
  <2>3. /\ length' \in 0..FrameMax /\ left' \in 0..2 /\ (length' # 0 => left' > 0)
        /\ conn' \in {"open", "closed"}
    BY <1>1, <1>3, <2>2 DEF ReadHeader, BodySize, TypeInv, TypeOK
  <2>4. /\ UNCHANGED <<kinds, sent, hungup, gone, server, reading, start, answers, lost>>
        /\ starved' \subseteq starved \cup {Len(answers) + 1}
    BY <1>3 DEF ReadHeader, client, Ordinal
  <2>5. starved' \subseteq 1..Len(answers) + 1
    BY <1>1, <2>4
  <2>. QED
    BY <1>1, <2>1, <2>3, <2>4, <2>5 DEF TypeInv, TypeOK, Ordinal
<1>4. CASE ReadBody
  <2>1. /\ read' = read + 1 /\ read' \in Nat /\ read' \in 0..sent /\ left' = left - 1 /\ length # 0
        /\ UNCHANGED <<kinds, sent, hungup, gone, server>>
    BY <1>1, <1>4 DEF ReadBody, client
  <2>2. CASE left > 1
    <3>1. UNCHANGED <<reading, start, length, answers, lost, starved, conn>>
      BY <1>4, <2>2 DEF ReadBody, outcome
    <3>. QED
      BY <1>1, <2>1, <2>2, <3>1 DEF TypeInv, TypeOK, Ordinal
  <2>3. CASE ~(left > 1)
    <3>1. Handle(read') /\ length' = 0 /\ start' = read' /\ reading' = FALSE
      BY <1>4, <2>3 DEF ReadBody, LengthAfterBody
    <3>2. /\ answers' \in Seq(0..FrameMax) /\ Len(answers') = Len(answers) + 1
          /\ lost' \subseteq lost \cup {Len(answers) + 1}
          /\ starved' \subseteq starved \cup {Len(answers) + 1}
          /\ conn' \in {"open", "closed"}
      BY <2>1, <3>1, HandleFacts DEF TypeInv, TypeOK
    <3>3. lost' \subseteq 1..Len(answers') /\ starved' \subseteq 1..Len(answers') + 1
      BY <1>1, <3>2
    <3>4. /\ sent' \in 0..PieceMax /\ read' \in 0..sent' /\ start' \in 0..read'
          /\ length' \in 0..FrameMax /\ left' \in 0..2 /\ (length' # 0 => left' > 0)
      BY <1>1, <2>1, <3>1
    <3>5. /\ hungup' \in BOOLEAN /\ gone' \in BOOLEAN /\ reading' \in BOOLEAN
          /\ (gone' => hungup') /\ server' \in {"runs", "stops", "freed"}
      BY <2>1, <3>1 DEF TypeInv, TypeOK
    <3>. QED
      BY <1>1, <2>1, <3>2, <3>3, <3>4, <3>5 DEF TypeInv, TypeOK, Ordinal
  <2>. QED
    BY <2>2, <2>3
<1>5. CASE Timeout
  <2>1. /\ UNCHANGED <<kinds, sent, hungup, gone, server, read, length, left, answers, lost, starved>>
        /\ start' \in {start, read} /\ reading' \in {reading, FALSE} /\ conn' \in {conn, "closed"}
    BY <1>5 DEF Timeout, client, outcome
  <2>2. /\ sent' \in 0..PieceMax /\ read' \in 0..sent' /\ start' \in 0..read'
        /\ length' \in 0..FrameMax /\ left' \in 0..2 /\ (length' # 0 => left' > 0)
    BY <1>1, <2>1
  <2>. QED
    BY <1>1, <2>1, <2>2 DEF TypeInv, TypeOK, Ordinal
<1>. QED
  BY <1>2, <1>3, <1>4, <1>5 DEF Next, Server

-------------------------------------------------------------------------------
(* What holds if no client stalls inside a frame: the server is in the      *)
(* frame after those it has answered.                                      *)

LEMMA InitInv == Init => Inv
BY DEF Init, Inv, InFrame, InOrder, LostOK, ClosedForCause, FrameSize

(* What the client does, the stop of the server, the check of its flag and *)
(* the end of the stream.                                                  *)
LEMMA QuietStep ==
  ASSUME TypeInv, Inv,
         Send \/ HangUp \/ Leave \/ Stop \/ Check \/ EndOfStream \/ Reset \/ UNCHANGED vars
  PROVE  Inv'
<1>1. /\ UNCHANGED <<kinds, read, start, length, left, answers, lost, starved>>
      /\ (hungup => hungup' /\ sent' = sent) /\ (gone => gone')
      /\ (server # "runs" => server' # "runs")
      /\ (conn = "closed" => conn' = "closed")
  BY QuietFacts
<1>2. start' = FrameSize * Len(answers') /\ InOrder' /\ LostOK'
  BY <1>1 DEF Inv, InOrder, Expected, LostOK
<1>3. conn' = "open" => InFrame'
  <2>. SUFFICES ASSUME conn' = "open" PROVE InFrame'
    OBVIOUS
  <2>1. InFrame
    BY <1>1 DEF Inv, TypeInv, TypeOK
  <2>2. reading' \/ reading' = reading
    BY DEF Send, HangUp, Leave, Stop, Check, EndOfStream, Reset, vars, call
  <2>. QED
    BY <1>1, <2>1, <2>2 DEF InFrame
<1>4. ClosedForCause'
  <2>. SUFFICES ASSUME conn' = "closed" PROVE ClosedForCause'
    BY DEF ClosedForCause
  <2>1. CASE conn = "closed"
    BY <1>1, <2>1 DEF Inv, ClosedForCause, Ordinal
  <2>2. CASE conn # "closed" /\ Check
    <3>1. InFrame /\ ~reading /\ server' # "runs"
      BY <1>1, <2>2 DEF Check, Inv, client
    <3>2. read' = FrameSize * Len(answers')
      BY <1>1, <3>1 DEF Inv, InFrame
    <3>. QED
      BY <3>1, <3>2 DEF ClosedForCause
  <2>3. CASE EndOfStream \/ Reset
    BY <1>1, <2>3 DEF EndOfStream, Reset, ClosedForCause
  <2>4. CASE conn # "closed" /\ (Send \/ HangUp \/ Leave \/ Stop \/ UNCHANGED vars)
    BY <2>4 DEF Send, HangUp, Leave, Stop, vars
  <2>. QED
    BY <2>1, <2>2, <2>3, <2>4
<1>. QED
  BY <1>2, <1>3, <1>4 DEF Inv

LEMMA ReadHeaderStep ==
  ASSUME TypeInv, TypeInv', Inv, ReadHeader
  PROVE  Inv'
<1>1. PICK k \in Nat : k = Len(answers)
  BY DEF TypeInv, TypeOK
<1>2. /\ conn = "open" /\ reading /\ length = 0 /\ read' = read + 1 /\ start' = start
      /\ UNCHANGED <<answers, lost, kinds, sent, hungup, gone, reading>>
      /\ starved \subseteq starved'
  BY DEF ReadHeader, client
<1>3. /\ start = 6 * k /\ read - start \in 0..3 /\ read \in Nat
      /\ read' \in 0..PieceMax /\ PieceMax \in Nat
  BY <1>1, <1>2, BoundAssumption DEF Inv, InFrame, FrameSize, TypeInv, TypeOK, PieceMax
<1>4. PICK d \in 1..4 : read' = 6 * k + d
  <2>1. read' - 6 * k \in 1..4 /\ read' = 6 * k + (read' - 6 * k)
    BY <1>2, <1>3
  <2>. QED
    BY <2>1
<1>5. HeaderEnds <=> d = 4
  <2>1. BlankEnd(read') <=> d = 4
    BY <1>4, FrameParts
  <2>2. read' - start = d /\ HeaderMax \in Nat /\ HeaderMax >= 4
    BY <1>3, <1>4, BoundAssumption
  <2>. QED
    BY <2>1, <2>2 DEF HeaderEnds
<1>6. start' = FrameSize * Len(answers') /\ InOrder' /\ LostOK'
  <2>1. LostOK'
    BY <1>2 DEF Inv, LostOK
  <2>2. InOrder'
    BY <1>2 DEF Inv, InOrder, Expected
  <2>. QED
    BY <1>2, <2>1, <2>2 DEF Inv
<1>7. CASE d # 4
  <2>1. length' = length /\ conn' = conn
    BY <1>5, <1>7 DEF ReadHeader
  <2>2. InFrame'
    BY <1>2, <1>3, <1>4, <1>7, <2>1 DEF InFrame
  <2>3. ClosedForCause'
    BY <1>2, <2>1 DEF ClosedForCause
  <2>. QED
    BY <1>6, <2>2, <2>3 DEF Inv
<1>8. CASE d = 4
  <2>1. LengthLines = {6 * k + 2}
    <3>1. ASSUME NEW p \in 6 * k + 2 .. 6 * k + 4 PROVE LengthEnd(p) <=> p = 6 * k + 2
      <4>1. p - 6 * k \in 1..6 /\ p = 6 * k + (p - 6 * k)
        OBVIOUS
      <4>2. LengthEnd(6 * k + (p - 6 * k)) <=> p - 6 * k = 2
        BY <4>1, FrameParts
      <4>. QED
        BY <4>1, <4>2
    <3>2. LengthLines = {p \in 6 * k + 2 .. 6 * k + 4 : LengthEnd(p)}
      BY <1>3, <1>4, <1>8 DEF LengthLines
    <3>3. 6 * k + 2 \in 6 * k + 2 .. 6 * k + 4
      OBVIOUS
    <3>. QED
      BY <3>1, <3>2, <3>3
  <2>2. FrameFound = k + 1
    <3>1. (CHOOSE p \in LengthLines : \A q \in LengthLines : p <= q) = 6 * k + 2
      BY <2>1
    <3>. QED
      BY <2>1, <3>1, FrameParts DEF FrameFound
  <2>3. k + 1 \in 1..FrameMax
    <3>1. 6 * k + 2 \in 1..PieceMax
      BY <1>3, <1>4, <1>8
    <3>. QED
      BY <3>1, FrameOfRange, FrameParts
  <2>4. CASE kinds[k + 1] = "size"
    <3>1. conn' = "closed"
      BY <1>5, <1>8, <2>2, <2>4 DEF ReadHeader
    <3>2. ClosedForCause'
      BY <1>1, <1>2, <2>3, <2>4 DEF ClosedForCause
    <3>. QED
      BY <1>6, <3>1, <3>2 DEF Inv
  <2>5. CASE kinds[k + 1] # "size" /\ conn' = "closed"
    <3>1. starved' = starved \cup {Ordinal}
      BY <1>2, <1>5, <1>8, <2>2, <2>5 DEF ReadHeader
    <3>2. Ordinal' = Ordinal
      BY <1>2 DEF Ordinal
    <3>3. ClosedForCause'
      BY <3>1, <3>2 DEF ClosedForCause
    <3>. QED
      BY <1>6, <2>5, <3>3 DEF Inv
  <2>6. CASE kinds[k + 1] # "size" /\ conn' # "closed"
    <3>1. length' = k + 1 /\ left' = 2
      BY <1>5, <1>8, <2>2, <2>6 DEF ReadHeader, BodySize
    <3>2. InFrame' /\ ClosedForCause'
      BY <1>1, <1>2, <1>3, <1>4, <1>8, <2>6, <3>1 DEF InFrame, ClosedForCause, FrameSize
    <3>. QED
      BY <1>6, <3>2 DEF Inv
  <2>. QED
    BY <2>4, <2>5, <2>6
<1>. QED
  BY <1>7, <1>8

LEMMA ReadBodyStep ==
  ASSUME TypeInv, TypeInv', Inv, ReadBody
  PROVE  Inv'
<1>1. PICK k \in Nat : k = Len(answers)
  BY DEF TypeInv, TypeOK
<1>2. /\ conn = "open" /\ reading /\ length = k + 1 /\ read' = read + 1
      /\ left' = left - 1 /\ UNCHANGED <<kinds, gone>> /\ InFrame
  BY <1>1 DEF ReadBody, client, Inv, InFrame
<1>3. read = start + 6 - left /\ start = 6 * k /\ left \in 1..2 /\ read \in Nat
  BY <1>1, <1>2 DEF ReadBody, Inv, InFrame, FrameSize, TypeInv, TypeOK
<1>4. CASE left = 2
  <2>1. UNCHANGED <<reading, start, length, answers, lost, starved, conn>>
    BY <1>4 DEF ReadBody, outcome
  <2>2. InFrame'
    BY <1>1, <1>2, <1>3, <1>4, <2>1 DEF InFrame, FrameSize
  <2>3. InOrder' /\ LostOK'
    BY <1>2, <2>1 DEF Inv, InOrder, LostOK, Expected
  <2>4. ClosedForCause'
    BY <1>2, <2>1 DEF ClosedForCause
  <2>. QED
    BY <2>1, <2>2, <2>3, <2>4 DEF Inv
<1>5. CASE left = 1
  <2>1. /\ start' = read' /\ length' = 0 /\ read' = 6 * k + 6 /\ reading' = FALSE
        /\ Handle(read')
    BY <1>2, <1>3, <1>5 DEF ReadBody, LengthAfterBody
  <2>2. PICK id \in {Answer(read'), 0} :
          /\ Len(answers') = k + 1 /\ \A i \in 1..k : answers'[i] = answers[i]
          /\ answers'[k + 1] = id
          /\ lost' \subseteq lost \cup {k + 1} /\ starved \subseteq starved'
          /\ id = Answer(read') \/ k + 1 \in starved'
          /\ k + 1 \in lost' => /\ gone \/ k + 1 \in starved'
                                /\ id # 0 => conn' = "closed"
          /\ conn' # conn => conn' = "closed" /\ k + 1 \in lost'
    BY <1>1, <2>1, HandleFacts
  <2>3. Answer(read') = Expected(k + 1)
    BY <1>2, <2>1, FrameParts, SMTT(30) DEF Answer, Expected
  <2>4. InOrder'
    <3>. SUFFICES ASSUME NEW i \in 1..k + 1
                  PROVE  answers'[i] = Expected(i) \/ (answers'[i] = 0 /\ i \in starved')
      BY <1>2, <2>2 DEF InOrder, Expected
    <3>1. CASE i = k + 1
      BY <2>2, <2>3, <3>1
    <3>2. CASE i # k + 1
      BY <1>1, <2>2, <3>2 DEF Inv, InOrder
    <3>. QED
      BY <3>1, <3>2
  <2>5. LostOK'
    <3>. SUFFICES ASSUME NEW i \in lost'
                  PROVE  /\ gone \/ i \in starved'
                         /\ answers'[i] # 0 => i = k + 1 /\ conn' = "closed"
      BY <1>2, <2>2 DEF LostOK
    <3>1. CASE i = k + 1
      BY <2>2, <3>1
    <3>2. CASE i # k + 1
      <4>1. i \in lost /\ i \in 1..k
        BY <1>1, <2>2, <3>2 DEF TypeInv, TypeOK
      <4>2. answers'[i] = 0 /\ (gone \/ i \in starved)
        BY <1>2, <2>2, <4>1 DEF Inv, LostOK
      <4>. QED
        BY <2>2, <4>2
    <3>. QED
      BY <3>1, <3>2
  <2>6. start' = FrameSize * Len(answers') /\ InFrame'
    BY <2>1, <2>2 DEF FrameSize, InFrame
  <2>7. ClosedForCause'
    BY <1>2, <2>2 DEF ClosedForCause
  <2>. QED
    BY <2>4, <2>5, <2>6, <2>7 DEF Inv
<1>. QED
  BY <1>3, <1>4, <1>5

LEMMA NextStep ==
  ASSUME ~Stalls, TypeInv, TypeInv', Inv, [Next]_vars
  PROVE  Inv'
<1>1. CASE Send \/ HangUp \/ Leave \/ Stop \/ Check \/ EndOfStream \/ Reset \/ UNCHANGED vars
  BY <1>1, QuietStep
<1>2. CASE ReadHeader
  BY <1>2, ReadHeaderStep
<1>3. CASE ReadBody
  BY <1>3, ReadBodyStep
<1>4. CASE Timeout
  <2>1. /\ UNCHANGED <<kinds, sent, hungup, gone, server, read, start, length, left>>
        /\ UNCHANGED <<answers, lost, starved, conn>>
        /\ read = start /\ length = 0 /\ conn = "open"
    BY <1>4 DEF Timeout, client, outcome
  <2>2. InFrame'
    BY <2>1 DEF Inv, InFrame
  <2>3. InOrder' /\ LostOK'
    BY <2>1 DEF Inv, InOrder, LostOK, Expected
  <2>4. ClosedForCause'
    BY <2>1 DEF ClosedForCause
  <2>. QED
    BY <2>1, <2>2, <2>3, <2>4 DEF Inv
<1>. QED
  BY <1>1, <1>2, <1>3, <1>4 DEF Next, Server

-------------------------------------------------------------------------------
(* The variables of a connection stay in range, client stalls included: the *)
(* body never wants a negative rest.                                       *)
THEOREM TypeCorrect == Spec => []TypeOK
<1>1. Init => TypeInv
  BY InitType
<1>2. TypeInv /\ [Next]_vars => TypeInv'
  BY TypeStep
<1>3. TypeInv => TypeOK
  BY DEF TypeInv
<1>. QED
  BY <1>1, <1>2, <1>3, PTL DEF Spec

(* The invariant holds if no client stalls inside a frame.                  *)
THEOREM Invariance ==
  ASSUME ~Stalls
  PROVE  Spec => [](TypeInv /\ Inv)
<1>1. Init => TypeInv /\ Inv
  BY InitType, InitInv
<1>2. TypeInv /\ Inv /\ [Next]_vars => (TypeInv /\ Inv)'
  BY TypeStep, NextStep
<1>. QED
  BY <1>1, <1>2, PTL DEF Spec

(* Wherever the stream is cut, each request is answered once, in order, and *)
(* none after one whose answer was lost.                                   *)
THEOREM AnswersInOrder ==
  ASSUME ~Stalls
  PROVE  Spec => []AnsweredInOrder
<1>1. TypeInv /\ Inv => AnsweredInOrder
  <2>. SUFFICES ASSUME TypeInv, Inv PROVE Len(answers) <= FrameMax
    BY DEF AnsweredInOrder, Inv, InOrder, LostOK
  <2>1. PICK k \in Nat, n \in Nat : k = Len(answers) /\ n = FrameMax
    BY BoundAssumption DEF TypeInv, TypeOK
  <2>2. 6 * k <= n * 6
    BY <2>1 DEF TypeInv, TypeOK, Inv, PieceMax, FrameSize
  <2>. QED
    BY <2>1, <2>2
<1>. QED
  BY <1>1, Invariance, PTL

(* The server closes a connection only when the client has hung up or left, *)
(* for a length it does not accept, for want of memory, or between two      *)
(* frames when it is being stopped.                                        *)
THEOREM ClosesForCause ==
  ASSUME ~Stalls
  PROVE  Spec => []ClosedForCause
<1>1. TypeInv /\ Inv => ClosedForCause
  BY DEF Inv
<1>. QED
  BY <1>1, Invariance, PTL

-------------------------------------------------------------------------------
(* What a client that stalls inside a frame cannot bring about.            *)

(* The frame whose header was found begins after everything that was       *)
(* answered before it.                                                     *)
StallInv ==
  /\ length # 0 => start <= FrameSize * (length - 1)
  /\ \A i \in 1..Len(answers) : answers[i] # 0 => FrameSize * answers[i] <= start
  /\ EvaluatedOnce

LEMMA FoundAfterStart ==
  ASSUME TypeInv, read' \in 1..PieceMax, FrameFound # 0
  PROVE  start <= 6 * (FrameFound - 1)
<1>1. PieceMax \in Nat /\ start \in Nat
  BY BoundAssumption DEF PieceMax, FrameSize, TypeInv, TypeOK
<1>2. LengthLines # {}
  BY DEF FrameFound
<1>3. PICK p \in LengthLines : FrameFound = FrameOf(p)
  BY <1>2, FoundLine
<1>4. p \in Nat /\ start + 2 <= p /\ p % 6 = 2
  BY <1>1, <1>3 DEF LengthLines, LengthEnd, IsPart, FrameSize
<1>5. p = 6 * (((p - 1) \div 6)) + 2
  BY <1>4
<1>6. FrameOf(p) = ((p - 1) \div 6) + 1
  BY DEF FrameOf, FrameSize
<1>. QED
  BY <1>1, <1>3, <1>4, <1>5, <1>6

(* A request is answered when the whole of its body has been received.     *)
LEMMA AnswerFacts ==
  ASSUME TypeInv, length # 0, NEW p \in Nat \ {0}, Answer(p) # 0
  PROVE  Answer(p) = length /\ kinds[length] = "eval" /\ p = 6 * length
<1>1. Answer(p) = length /\ kinds[length] = "eval" /\ p % 6 = 0 /\ ((p - 1) \div 6) + 1 = length
  BY DEF Answer, BodyEnd, IsPart, FrameOf, FrameSize
<1>2. p = 6 * (((p - 1) \div 6) + 1)
  BY <1>1
<1>. QED
  BY <1>1, <1>2

LEMMA StallStep ==
  ASSUME TypeInv, TypeInv', StallInv, [Next]_vars
  PROVE  StallInv'
<1>. USE DEF FrameSize
<1>1. /\ read \in Nat /\ sent \in Nat /\ start \in Nat /\ start <= read /\ read <= sent
      /\ length \in 0..FrameMax /\ FrameMax \in Nat /\ PieceMax \in Nat /\ sent <= PieceMax
      /\ answers \in Seq(0..FrameMax) /\ Len(answers) \in Nat
      /\ \A i \in 1..Len(answers) : answers[i] \in Nat
  BY BoundAssumption DEF TypeInv, TypeOK, PieceMax
<1>2. ASSUME UNCHANGED <<answers, kinds>>, start' \in Nat, start <= start',
             length' # 0 => start' <= 6 * (length' - 1)
      PROVE  StallInv'
  BY <1>1, <1>2 DEF StallInv, EvaluatedOnce
<1>3. CASE Send \/ HangUp \/ Leave \/ Stop \/ Check \/ EndOfStream \/ Reset \/ UNCHANGED vars
  <2>1. UNCHANGED <<answers, kinds, start, length>>
    BY <1>3, QuietFacts
  <2>. QED
    BY <1>1, <1>2, <2>1 DEF StallInv
<1>4. CASE Timeout
  <2>1. UNCHANGED <<answers, kinds, length>> /\ start' \in {start, read}
        /\ (length # 0 => start' = start)
    BY <1>4 DEF Timeout, client, outcome
  <2>. QED
    BY <1>1, <1>2, <2>1 DEF StallInv
<1>5. CASE ReadHeader
  <2>1. UNCHANGED <<answers, kinds, start>> /\ length = 0 /\ length' \in {0, FrameFound}
        /\ read' = read + 1 /\ read < sent
    BY <1>5 DEF ReadHeader, client
  <2>2. read' \in 1..PieceMax
    BY <1>1, <2>1
  <2>3. length' # 0 => start' <= 6 * (length' - 1)
    BY <2>1, <2>2, FoundAfterStart
  <2>4. start' \in Nat /\ start <= start'
    BY <1>1, <2>1
  <2>. QED
    BY <1>2, <2>1, <2>3, <2>4
<1>6. CASE ReadBody
  <2>1. UNCHANGED kinds /\ length # 0 /\ read' = read + 1 /\ read' \in Nat \ {0}
        /\ start <= 6 * (length - 1)
    BY <1>1, <1>6 DEF ReadBody, client, StallInv
  <2>2. CASE left > 1
    <3>1. UNCHANGED <<answers, start, length>>
      BY <1>6, <2>2 DEF ReadBody, outcome
    <3>. QED
      BY <1>1, <1>2, <2>1, <3>1
  <2>3. CASE ~(left > 1)
    <3>. DEFINE n == Len(answers)
    <3>0. Handle(read') /\ length' = 0 /\ start' = read'
      BY <1>6, <2>3 DEF ReadBody, LengthAfterBody
    <3>1. PICK a \in {Answer(read'), 0} :
            a \in 0..FrameMax /\ answers' = Append(answers, a) /\ length' = 0 /\ start' = read'
      BY <2>1, <3>0, HandleFacts
    <3>2. a # 0 => a = length /\ kinds[a] = "eval" /\ 6 * a = start'
      BY <2>1, <3>1, AnswerFacts
    <3>3. /\ Len(answers') = n + 1 /\ answers'[n + 1] = a
          /\ \A i \in 1..n : answers'[i] = answers[i]
      BY <1>1, <3>1
    <3>4. \A i \in 1..n : /\ answers[i] \in Nat
                          /\ answers[i] # 0 => /\ 6 * answers[i] <= start
                                               /\ kinds[answers[i]] = "eval"
      BY <1>1 DEF StallInv, EvaluatedOnce
    <3>5. \A i \in 1..n + 1 : i \in 1..n \/ i = n + 1
      BY <1>1
    <3>6. \A i \in 1..n : answers[i] # 0 /\ a # 0 => answers[i] < a
      BY <1>1, <2>1, <3>2, <3>4
    <3>7. \A i \in 1..Len(answers') : answers'[i] # 0 => 6 * answers'[i] <= start'
      BY <1>1, <2>1, <3>1, <3>2, <3>3, <3>4, <3>5
    <3>8. EvaluatedOnce'
      <4>. SUFFICES ASSUME NEW i \in 1..n + 1, answers'[i] # 0
                    PROVE  /\ kinds[answers'[i]] = "eval"
                           /\ \A j \in 1..n + 1 : i < j /\ answers'[j] # 0
                                                    => answers'[i] < answers'[j]
        BY <2>1, <3>3 DEF EvaluatedOnce
      <4>1. CASE i = n + 1
        BY <1>1, <3>2, <3>3, <4>1
      <4>2. CASE i \in 1..n
        <5>1. \A j \in 1..n : i < j /\ answers[j] # 0 => answers[i] < answers[j]
          BY <3>3, <4>2 DEF StallInv, EvaluatedOnce
        <5>. QED
          BY <3>3, <3>4, <3>5, <3>6, <4>2, <5>1
      <4>. QED
        BY <3>5, <4>1, <4>2
    <3>. QED
      BY <3>1, <3>7, <3>8 DEF StallInv
  <2>. QED
    BY <2>2, <2>3
<1>. QED
  BY <1>3, <1>4, <1>5, <1>6 DEF Next, Server

(* However long a client stalls and wherever: no request is evaluated      *)
(* twice, out of order, or put together from the parts of several frames.  *)
THEOREM NoRequestTwice == Spec => []EvaluatedOnce
<1>1. Init => TypeInv /\ StallInv
  <2>1. Init => StallInv
    BY DEF Init, StallInv, EvaluatedOnce
  <2>. QED
    BY <2>1, InitType
<1>2. TypeInv /\ StallInv /\ [Next]_vars => (TypeInv /\ StallInv)'
  BY TypeStep, StallStep
<1>3. StallInv => EvaluatedOnce
  BY DEF StallInv
<1>. QED
  BY <1>1, <1>2, <1>3, PTL DEF Spec

(* No answer is owed while the server waits: a request is answered without *)
(* the client having to send anything after it.                            *)
THEOREM NoAnswerOwed ==
  ASSUME ~Stalls
  PROVE  Spec => []NothingOwed
<1>1. TypeInv /\ Inv => NothingOwed
  <2>. SUFFICES ASSUME TypeInv, Inv, conn = "open", read = sent
                PROVE  Len(answers) = sent \div FrameSize
    BY DEF NothingOwed
  <2>1. PICK k \in Nat : k = Len(answers)
    BY DEF TypeInv, TypeOK
  <2>2. read \in Nat /\ start = 6 * k /\ left \in 0..2 /\ (length # 0 => left > 0)
    BY <2>1 DEF TypeInv, TypeOK, Inv, FrameSize
  <2>3. PICK d \in 0..5 : read = 6 * k + d
    <3>1. CASE length = 0
      <4>1. read - 6 * k \in 0..5 /\ read = 6 * k + (read - 6 * k)
        BY <2>2, <3>1 DEF Inv, InFrame
      <4>. QED
        BY <4>1
    <3>2. CASE length # 0
      <4>1. 6 - left \in 0..5 /\ read = 6 * k + (6 - left)
        BY <2>2, <3>2 DEF Inv, InFrame, FrameSize
      <4>. QED
        BY <4>1
    <3>. QED
      BY <3>1, <3>2
  <2>4. (6 * k + d) \div 6 = k
    OBVIOUS
  <2>. QED
    BY <2>1, <2>3, <2>4 DEF FrameSize
<1>. QED
  BY <1>1, Invariance, PTL
===============================================================================
