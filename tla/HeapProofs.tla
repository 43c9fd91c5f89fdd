------------------------------ MODULE HeapProofs ------------------------------
(***************************************************************************)
(* Proofs about Heap: type correctness, memory safety, precision of a      *)
(* collection, canonical strings, bounded growth and an exact byte count,  *)
(* for every number of objects, stack and frame limits, root sets and      *)
(* object sizes, and that the heap implements AbstractHeap. All of them    *)
(* are about programs that are Disciplined: of a program that is not, the  *)
(* interpreter reads and writes objects the collector has freed.           *)
(***************************************************************************)
EXTENDS Heap, FiniteSetTheorems, TLAPS

Inv == TypeOK /\ HeapInv

(* The slot of a captured variable is given up by OP_RETURN only, which    *)
(* closes its upvalue: no block that declares a captured variable ends, no *)
(* local is declared among the operands of an array or map literal and     *)
(* captured there, and no evaluation fails while an upvalue is open. The   *)
(* compiler does not see to it.                                            *)
Disciplined == ~BlocksCapture /\ ~OpenErrors

-------------------------------------------------------------------------------
(* Facts about sequences and frames.                                       *)

LEMMA PrefixFacts ==
  ASSUME NEW F, NEW s \in Seq(F), NEW n \in 0..Len(s)
  PROVE  /\ SubSeq(s, 1, n) \in Seq(F) /\ Len(SubSeq(s, 1, n)) = n
         /\ \A i \in 1..n : SubSeq(s, 1, n)[i] = s[i]
<1>1. SubSeq(s, 1, n) \in Seq(F) /\ Len(SubSeq(s, 1, n)) = n
  OBVIOUS
<1>2. ASSUME NEW i \in 1..n PROVE SubSeq(s, 1, n)[i] = s[i]
  OBVIOUS
<1>. QED
  BY <1>1, <1>2

LEMMA PopManyFacts ==
  ASSUME NEW F, NEW s \in Seq(F), NEW n \in 0..Len(s)
  PROVE  /\ PopMany(s, n) \in Seq(F) /\ Len(PopMany(s, n)) = Len(s) - n
         /\ \A i \in 1..Len(s) - n : PopMany(s, n)[i] = s[i]
<1>1. Len(s) - n \in 0..Len(s)
  OBVIOUS
<1>. QED
  BY <1>1, PrefixFacts DEF PopMany

LEMMA AppendFacts ==
  ASSUME NEW F, NEW s \in Seq(F), NEW e \in F
  PROVE  /\ Append(s, e) \in Seq(F) /\ Len(Append(s, e)) = Len(s) + 1
         /\ \A i \in 1..Len(s) : Append(s, e)[i] = s[i]
         /\ Append(s, e)[Len(s) + 1] = e
OBVIOUS

LEMMA ExceptFacts ==
  ASSUME NEW F, NEW s \in Seq(F), NEW i \in 1..Len(s), NEW e \in F
  PROVE  /\ [s EXCEPT ![i] = e] \in Seq(F) /\ Len([s EXCEPT ![i] = e]) = Len(s)
         /\ \A j \in 1..Len(s) : [s EXCEPT ![i] = e][j] = IF j = i THEN e ELSE s[j]
OBVIOUS

LEMMA SingletonFacts ==
  ASSUME NEW F, NEW e \in F
  PROVE  <<e>> \in Seq(F)
OBVIOUS

LEMMA FrameFacts ==
  ASSUME TypeOK
  PROVE  /\ Len(frames) \in Nat /\ Len(stack) \in Nat
         /\ \A i \in 1..Len(frames) :
              frames[i].closure \in Node /\ frames[i].slots \in 1..StackMax + 1
<1>1. \A i \in 1..Len(frames) : frames[i] \in FrameRecords
  BY DEF TypeOK
<1>. QED
  BY <1>1 DEF FrameRecords, TypeOK

-------------------------------------------------------------------------------
(* Facts about the reachable objects.                                      *)

(* Roots and references are objects when the state is well typed.          *)
LEMMA GraphTypes ==
  ASSUME TypeOK
  PROVE  /\ Roots \subseteq Node
         /\ \A n \in Node : Points(n) \subseteq Node /\ Traced(n) \subseteq Node
<1>1. StackRoots \subseteq Node
  BY DEF TypeOK, StackRoots, Node
<1>2. FrameRoots \subseteq Node
  <2>1. \A i \in 1..Len(frames) : frames[i] \in FrameRecords
    BY DEF TypeOK
  <2>. QED
    BY <2>1 DEF FrameRoots, FrameRecords
<1>3. GlobalRoots \subseteq Node /\ open_upvalues \subseteq Node
  BY DEF TypeOK, GlobalRoots, Node
<1>4. CompilerRoots \subseteq Node
  BY DEF TypeOK, CompilerRoots, Node
<1>5. PinRoots \subseteq Node
  BY DEF TypeOK, PinRoots, Node
<1>6. ASSUME NEW n \in Node PROVE Points(n) \subseteq Node /\ Traced(n) \subseteq Node
  BY DEF TypeOK, Points, Traced, Node
<1>. QED
  BY <1>1, <1>2, <1>3, <1>4, <1>5, <1>6 DEF Roots

(* The roots are reachable.                                                *)
LEMMA RootsReachable ==
  ASSUME Roots \subseteq Node
  PROVE  Roots \subseteq Reachable
BY DEF Reachable, ClosedSets

(* What a reachable object refers to is reachable.                         *)
LEMMA PointsReachable ==
  ASSUME NEW n \in Reachable, Points(n) \subseteq Node
  PROVE  Points(n) \subseteq Reachable
BY DEF Reachable, ClosedSets

(* A set that contains the roots and is closed under references contains   *)
(* the reachable objects.                                                  *)
LEMMA ReachableSmallest ==
  ASSUME NEW S \in SUBSET Node, Roots \subseteq S, \A n \in S : Points(n) \subseteq S
  PROVE  Reachable \subseteq S
BY DEF Reachable, ClosedSets

(* What is reachable exists.                                               *)
LEMMA ReachableLive ==
  ASSUME TypeOK, GraphOK
  PROVE  InReach \subseteq Live /\ Live \subseteq objects
<1>1. Live \subseteq objects
  BY DEF TypeOK, Live
<1>2. Live \cup Script \in SUBSET Node
  BY <1>1 DEF TypeOK, Node
<1>3. Reachable \subseteq Live \cup Script
  BY <1>2, ReachableSmallest DEF GraphOK
<1>. QED
  BY <1>1, <1>3, ObjAssumption DEF InReach

(* The collector follows a part of what the interpreter can follow.        *)
LEMMA TracedPoints ==
  ASSUME NEW n \in Node
  PROVE  Traced(n) \subseteq Points(n)
BY DEF Traced, Points, Closed

(* What an open upvalue refers to is what its slot holds.                  *)
LEMMA PointsCases ==
  ASSUME TypeOK, UpvaluesOK, NEW n \in Node
  PROVE  \/ Points(n) = Traced(n) /\ (kind[n] # "UPVALUE" \/ loc[n] = Closed)
         \/ /\ kind[n] = "UPVALUE" /\ n \in open_upvalues
            /\ loc[n] \in 1..Len(stack) /\ Points(n) = stack[loc[n]]
            /\ Points(n) \subseteq StackRoots
<1>1. CASE kind[n] # "UPVALUE" \/ loc[n] = Closed
  <2>1. ~(kind[n] = "UPVALUE" /\ loc[n] \in 1..Len(stack))
    BY <1>1 DEF TypeOK, Closed
  <2>2. Points(n) = held[n] /\ Traced(n) = held[n]
    BY <1>1, <2>1 DEF Points, Traced
  <2>. QED
    BY <1>1, <2>2
<1>2. CASE kind[n] = "UPVALUE" /\ loc[n] # Closed
  <2>1. n \in open_upvalues /\ loc[n] \in 1..Len(stack)
    BY <1>2 DEF UpvaluesOK
  <2>2. Points(n) = stack[loc[n]]
    BY <1>2, <2>1 DEF Points
  <2>. QED
    BY <1>2, <2>1, <2>2 DEF StackRoots
<1>. QED
  BY <1>1, <1>2

-------------------------------------------------------------------------------
(* Facts about the steps that leave the collector alone.                   *)

(* A step that leaves the heap and the root sets alone changes nothing     *)
(* about what is reachable.                                                *)
LEMMA SameGraph ==
  ASSUME UNCHANGED <<kind, held, loc, roots>>
  PROVE  /\ Roots' = Roots /\ Reachable' = Reachable /\ InReach' = InReach
         /\ StackRoots' = StackRoots /\ FrameRoots' = FrameRoots
         /\ GlobalRoots' = GlobalRoots /\ CompilerRoots' = CompilerRoots
         /\ PinRoots' = PinRoots /\ LowestPop' = LowestPop
         /\ \A n \in Node : Points(n)' = Points(n) /\ Traced(n)' = Traced(n)
         /\ \A i : Captured(i)' = Captured(i)
<1>1. /\ StackRoots' = StackRoots /\ FrameRoots' = FrameRoots
      /\ GlobalRoots' = GlobalRoots /\ CompilerRoots' = CompilerRoots
      /\ PinRoots' = PinRoots
  BY DEF roots, StackRoots, FrameRoots, GlobalRoots, CompilerRoots, PinRoots
<1>2. Roots' = Roots
  BY <1>1 DEF Roots, roots
<1>3. \A n : Points(n)' = Points(n) /\ Traced(n)' = Traced(n)
  BY DEF Points, Traced, roots
<1>4. ClosedSets' = ClosedSets
  BY <1>2, <1>3 DEF ClosedSets
<1>5. Reachable' = Reachable /\ InReach' = InReach
  BY <1>4 DEF Reachable, InReach
<1>6. LowestPop' = LowestPop /\ \A i : Captured(i)' = Captured(i)
  BY DEF LowestPop, Captured, roots, Top
<1>. QED
  BY <1>1, <1>2, <1>3, <1>5, <1>6

(* A step of the interpreter that only moves references keeps the heap     *)
(* invariant when roots and references stay inside the object list.        *)
LEMMA QuietStep ==
  ASSUME HeapInv, Idle, CollectorIdle, UNCHANGED kind
  PROVE  /\ RequestOK' /\ MarksOK' /\ StringsCanonical' /\ Live = objects /\ Live' = objects
         /\ (/\ Roots' \subseteq objects \cup Script
             /\ \A n \in objects \cup Script : Points(n)' \subseteq objects \cup Script)
            => GraphOK'
<1>1. phase = "interpreter" /\ phase' = "interpreter"
  BY DEF Idle, CollectorIdle
<1>2. RequestOK'
  BY <1>1 DEF RequestOK
<1>3. MarksOK'
  BY <1>1 DEF HeapInv, MarksOK, CollectorIdle, trace
<1>6. StringsCanonical'
  BY DEF HeapInv, StringsCanonical, CollectorIdle
<1>4. Live = objects /\ Live' = objects
  BY <1>1 DEF Live, CollectorIdle
<1>5. ASSUME /\ Roots' \subseteq objects \cup Script
             /\ \A n \in objects \cup Script : Points(n)' \subseteq objects \cup Script
      PROVE  GraphOK'
  BY <1>1, <1>4, <1>5 DEF GraphOK
<1>. QED
  BY <1>2, <1>3, <1>4, <1>5, <1>6

-------------------------------------------------------------------------------
(* The steps of the interpreter that allocate nothing.                     *)

(* What exists may be referred to: the parts of the invariant in one place. *)
LEMMA GraphFacts ==
  ASSUME Inv, Idle
  PROVE  /\ Live = objects /\ objects \subseteq Obj /\ InReach \subseteq objects
         /\ StackRoots \subseteq objects /\ open_upvalues \subseteq objects
         /\ GlobalRoots \subseteq objects /\ CompilerRoots \subseteq objects
         /\ PinRoots \subseteq objects /\ FrameRoots \subseteq objects \cup Script
         /\ \A n \in objects \cup Script : Points(n) \subseteq objects \cup Script
<1>1. Live = objects /\ objects \subseteq Obj
  BY DEF Inv, TypeOK, Live, Idle
<1>2. InReach \subseteq objects
  BY <1>1, ReachableLive DEF Inv, HeapInv
<1>3. Roots \subseteq objects \cup Script
      /\ \A n \in objects \cup Script : Points(n) \subseteq objects \cup Script
  BY <1>1 DEF Inv, HeapInv, GraphOK
<1>4. StackRoots \subseteq Obj /\ open_upvalues \subseteq Obj /\ GlobalRoots \subseteq Obj
      /\ CompilerRoots \subseteq Obj /\ PinRoots \subseteq Obj
  BY DEF Inv, TypeOK, StackRoots, GlobalRoots, CompilerRoots, PinRoots
<1>. QED
  BY <1>1, <1>2, <1>3, <1>4, ObjAssumption DEF Roots

LEMMA BeginCompileStep ==
  ASSUME Inv, BeginCompile
  PROVE  Inv'
<1>. USE DEF BeginCompile
<1>1. TypeOK'
  BY BoundAssumption DEF Inv, TypeOK, CollectorIdle, trace
<1>2. ScriptOK' /\ FramesOK' /\ UpvaluesOK'
  BY DEF Inv, HeapInv, ScriptOK, FramesOK, UpvaluesOK
<1>3. CompilerRoots' = {}
  BY DEF CompilerRoots
<1>4. Roots' \subseteq objects \cup Script
  BY <1>3, GraphFacts DEF Roots, StackRoots, FrameRoots, GlobalRoots, PinRoots
<1>5. \A n \in objects \cup Script : Points(n)' \subseteq objects \cup Script
  BY GraphFacts DEF Points, Traced
<1>. QED
  BY <1>1, <1>2, <1>4, <1>5, QuietStep DEF Inv, HeapInv

LEMMA EnterFunctionStep ==
  ASSUME Inv, EnterFunction
  PROVE  Inv'
<1>. USE DEF EnterFunction
<1>1. TypeOK'
  BY BoundAssumption DEF Inv, TypeOK, CollectorIdle, trace
<1>2. ScriptOK' /\ FramesOK' /\ UpvaluesOK'
  BY DEF Inv, HeapInv, ScriptOK, FramesOK, UpvaluesOK
<1>3. CompilerRoots' = CompilerRoots
  BY DEF CompilerRoots, Inv, TypeOK
<1>4. Roots' \subseteq objects \cup Script
  BY <1>3, GraphFacts DEF Roots, StackRoots, FrameRoots, GlobalRoots, PinRoots
<1>5. \A n \in objects \cup Script : Points(n)' \subseteq objects \cup Script
  BY GraphFacts DEF Points, Traced
<1>. QED
  BY <1>1, <1>2, <1>4, <1>5, QuietStep DEF Inv, HeapInv

LEMMA CompileErrorStep ==
  ASSUME Inv, CompileError
  PROVE  Inv'
<1>. USE DEF CompileError
<1>0. /\ Len(compiler_roots) \in Nat /\ Len(compiler_roots) > 0
      /\ Len(compiler_roots') = Len(compiler_roots) - 1
      /\ compiler_roots' \in Seq(SUBSET Obj)
      /\ \A i \in 1..Len(compiler_roots) - 1 : compiler_roots'[i] = compiler_roots[i]
  <2>1. compiler_roots \in Seq(SUBSET Obj) /\ 1 \in 0..Len(compiler_roots)
    BY DEF Inv, TypeOK
  <2>. QED
    BY <2>1, PopManyFacts, SMTT(30)
<1>1. TypeOK'
  BY <1>0, BoundAssumption DEF Inv, TypeOK, CollectorIdle, trace
<1>2. ScriptOK' /\ FramesOK' /\ UpvaluesOK'
  BY DEF Inv, HeapInv, ScriptOK, FramesOK, UpvaluesOK
<1>3. CompilerRoots' \subseteq objects
  <2>1. CompilerRoots' \subseteq CompilerRoots
    BY <1>0 DEF CompilerRoots
  <2>. QED
    BY <2>1, GraphFacts
<1>4. Roots' \subseteq objects \cup Script
  BY <1>3, GraphFacts DEF Roots, FrameRoots, StackRoots, GlobalRoots, PinRoots
<1>5. \A n \in objects \cup Script : Points(n)' \subseteq objects \cup Script
  BY GraphFacts DEF Points, Traced
<1>. QED
  BY <1>1, <1>2, <1>4, <1>5, QuietStep DEF Inv, HeapInv

LEMMA BeginEvalStep ==
  ASSUME Inv, BeginEval
  PROVE  Inv'
<1>. USE DEF BeginEval
<1>1. TypeOK'
  <2>1. [closure |-> ScriptClosure, slots |-> 1] \in FrameRecords
    BY BoundAssumption DEF Node, Script, FrameRecords
  <2>2. <<[closure |-> ScriptClosure, slots |-> 1]>> \in Seq(FrameRecords)
    BY <2>1, SingletonFacts
  <2>3. held' \in [Node -> SUBSET Node]
    <3>1. compiler_roots[1] \in SUBSET Obj
      <4>1. compiler_roots \in Seq(SUBSET Obj) /\ 1 \in 1..Len(compiler_roots)
        BY DEF Inv, TypeOK
      <4>. QED
        BY <4>1, SMTT(30)
    <3>. QED
      BY <3>1 DEF Inv, TypeOK, Node
  <2>4. gray = {}
    BY DEF Inv, HeapInv, MarksOK, Idle
  <2>. QED
    BY <2>2, <2>3, <2>4, BoundAssumption DEF Inv, TypeOK
<1>2. ScriptOK' /\ FramesOK' /\ UpvaluesOK'
  <2>1. compiler_roots \in Seq(SUBSET Obj) /\ 1 \in 1..Len(compiler_roots)
    BY DEF Inv, TypeOK
  <2>2. compiler_roots[1] \in SUBSET Obj
    BY <2>1, SMTT(30)
  <2>3. ScriptOK'
    BY <2>2, ObjAssumption DEF Inv, TypeOK, HeapInv, ScriptOK, Node, Script
  <2>4. FramesOK' /\ UpvaluesOK'
    BY <2>1 DEF Inv, HeapInv, ScriptOK, FramesOK, UpvaluesOK
  <2>. QED
    BY <2>3, <2>4
<1>3. compiler_roots[1] \subseteq CompilerRoots
  BY DEF CompilerRoots
<1>4. Roots' \subseteq objects \cup Script
  BY <1>3, GraphFacts DEF Roots, StackRoots, FrameRoots, GlobalRoots, PinRoots, Script, CompilerRoots
<1>5. \A n \in objects \cup Script : Points(n)' \subseteq objects \cup Script
  BY <1>3, GraphFacts DEF Points, Traced, Inv, TypeOK, Node, Script
<1>. QED
  BY <1>1, <1>2, <1>4, <1>5 DEF Inv, HeapInv, RequestOK, MarksOK, GraphOK, StringsCanonical, Live, Idle

LEMMA EndEvalStep ==
  ASSUME Inv, Disciplined, EndEval
  PROVE  Inv'
<1>. USE DEF EndEval
<1>0. open_upvalues = {} /\ loc' = loc
  <2>1. open_upvalues = {}
    BY DEF Inv, HeapInv, UpvaluesOK, Disciplined
  <2>. QED
    BY <2>1 DEF Inv, TypeOK
<1>1. TypeOK'
  <2>1. loc' \in [Node -> -1..StackMax]
    BY BoundAssumption DEF Inv, TypeOK, Dead
  <2>2. held' \in [Node -> SUBSET Node]
    BY DEF Inv, TypeOK
  <2>3. stack' \in Seq(SUBSET Obj) /\ Len(stack') <= StackMax
    BY BoundAssumption
  <2>4. frames' \in Seq(FrameRecords) /\ Len(frames') <= FramesMax
    BY BoundAssumption
  <2>. QED
    BY <2>1, <2>2, <2>3, <2>4, BoundAssumption DEF Inv, TypeOK, CollectorIdle, trace
<1>2. ScriptOK' /\ FramesOK' /\ UpvaluesOK'
  BY <1>0, ObjAssumption DEF Inv, TypeOK, HeapInv, ScriptOK, FramesOK, UpvaluesOK, Node, Script
<1>4. Roots' \subseteq objects \cup Script
  BY GraphFacts DEF Roots, StackRoots, FrameRoots, GlobalRoots, PinRoots, Script, CompilerRoots
<1>5. \A n \in objects \cup Script : Points(n)' \subseteq objects \cup Script
  <2>. SUFFICES ASSUME NEW n \in objects \cup Script
                PROVE  Points(n)' \subseteq objects \cup Script
    OBVIOUS
  <2>1. n \in Node
    BY DEF Inv, TypeOK, Node
  <2>2. Points(n)' = {} \/ Points(n)' = Traced(n)
    BY <1>0, <2>1
    DEF Points, Traced, Closed, Inv, TypeOK, HeapInv, ScriptOK, UpvaluesOK, Node, Script
  <2>. QED
    BY <2>1, <2>2, GraphFacts, TracedPoints
<1>. QED
  BY <1>1, <1>2, <1>4, <1>5, QuietStep DEF Inv, HeapInv

LEMMA PushStep ==
  ASSUME Inv, NEW v \in SUBSET objects, Push(v)
  PROVE  Inv'
<1>. USE DEF Push
<1>0. Len(stack') = Len(stack) + 1 /\ Len(stack) \in Nat
  BY DEF Inv, TypeOK
<1>1. TypeOK'
  BY BoundAssumption, GraphFacts, SMTT(30) DEF Inv, TypeOK, CollectorIdle, trace
<1>2. ScriptOK' /\ UpvaluesOK'
  BY <1>0 DEF Inv, HeapInv, ScriptOK, UpvaluesOK
<1>6. FramesOK'
  BY <1>0, FrameFacts DEF Inv, HeapInv, FramesOK
<1>3. StackRoots' \subseteq objects
  BY GraphFacts DEF StackRoots, Inv, TypeOK
<1>4. Roots' \subseteq objects \cup Script
  BY <1>3, GraphFacts DEF Roots, FrameRoots, GlobalRoots, PinRoots, CompilerRoots
<1>5. \A n \in objects \cup Script : Points(n)' \subseteq objects \cup Script
  BY GraphFacts DEF Points, Traced, Inv, TypeOK, HeapInv, UpvaluesOK, StackRoots, Node
<1>. QED
  BY <1>1, <1>2, <1>4, <1>5, <1>6, QuietStep DEF Inv, HeapInv

LEMMA PopStep ==
  ASSUME Inv, Disciplined, Pop
  PROVE  Inv'
<1>. USE DEF Pop
<1>0. Len(stack) \in Nat /\ Len(stack) > 0 /\ Len(stack') = Len(stack) - 1
      /\ (\A i \in 1..Len(stack) - 1 : stack'[i] = stack[i])
      /\ stack' \in Seq(SUBSET Obj)
  <2>1. Len(stack) \in Nat /\ Len(frames) >= 1
    BY DEF Inv, TypeOK, HeapInv, ScriptOK
  <2>2. LowestPop >= 1
    BY <2>1, FrameFacts DEF LowestPop, Top, Inv
  <2>3. LowestPop \in Int
    BY <2>1, FrameFacts, BoundAssumption DEF LowestPop, Top, Inv
  <2>. QED
    <3>1. 1 \in 0..Len(stack)
      BY <2>1, <2>2, <2>3
    <3>2. stack \in Seq(SUBSET Obj)
      BY DEF Inv, TypeOK
    <3>. QED
      BY <3>1, <3>2, PopManyFacts
<1>1. TypeOK'
  BY <1>0, BoundAssumption DEF Inv, TypeOK, CollectorIdle, trace
<1>2. ScriptOK' /\ UpvaluesOK'
  BY <1>0, SMTT(30) DEF Inv, TypeOK, HeapInv, ScriptOK, UpvaluesOK, Captured, Disciplined
<1>6. FramesOK'
  <2>. SUFFICES ASSUME NEW i \in 2..Len(frames) PROVE frames[i].slots <= Len(stack) - 1
    BY <1>0, FrameFacts DEF Inv, HeapInv, FramesOK
  <2>1. frames[i].slots <= Top(frames).slots
    BY FrameFacts, BoundAssumption DEF Inv, HeapInv, FramesOK, Top
  <2>. QED
    BY <1>0, <2>1, FrameFacts, BoundAssumption, SMTT(30) DEF Inv, LowestPop, Top
<1>3. StackRoots' \subseteq objects
  BY <1>0, GraphFacts DEF StackRoots
<1>4. Roots' \subseteq objects \cup Script
  BY <1>3, GraphFacts DEF Roots, FrameRoots, GlobalRoots, PinRoots, CompilerRoots
<1>5. \A n \in objects \cup Script : Points(n)' \subseteq objects \cup Script
  <2>. SUFFICES ASSUME NEW n \in objects \cup Script
                PROVE  Points(n)' = Points(n)
    BY GraphFacts
  <2>1. n \in Node
    BY GraphFacts DEF Node
  <2>2. kind[n] = "UPVALUE" /\ loc[n] # Closed => loc[n] \in 1..Len(stack')
    BY <1>2, <2>1 DEF UpvaluesOK
  <2>3. kind[n] = "UPVALUE" /\ loc[n] # Closed =>
          loc[n] \in 1..Len(stack) /\ stack'[loc[n]] = stack[loc[n]]
    BY <1>0, <2>2
  <2>. QED
    BY <2>2, <2>3 DEF Points
<1>. QED
  BY <1>1, <1>2, <1>4, <1>5, <1>6, QuietStep DEF Inv, HeapInv

LEMMA SetGlobalStep ==
  ASSUME Inv, NEW x \in Names, SetGlobal(x)
  PROVE  Inv'
<1>. USE DEF SetGlobal
<1>0. Top(stack) \subseteq StackRoots /\ Top(stack) \subseteq Obj
  <2>1. Len(stack) \in 1..Len(stack) /\ stack[Len(stack)] \in SUBSET Obj
    BY DEF Inv, TypeOK
  <2>. QED
    BY <2>1 DEF Top, StackRoots
<1>1. TypeOK'
  BY <1>0, BoundAssumption DEF Inv, TypeOK, CollectorIdle, trace
<1>2. ScriptOK' /\ FramesOK' /\ UpvaluesOK'
  BY DEF Inv, HeapInv, ScriptOK, FramesOK, UpvaluesOK
<1>3. GlobalRoots' \subseteq objects
  BY <1>0, GraphFacts DEF GlobalRoots, Inv, TypeOK
<1>4. Roots' \subseteq objects \cup Script
  BY <1>3, GraphFacts DEF Roots, FrameRoots, StackRoots, PinRoots, CompilerRoots
<1>5. \A n \in objects \cup Script : Points(n)' \subseteq objects \cup Script
  BY GraphFacts DEF Points, Traced
<1>. QED
  BY <1>1, <1>2, <1>4, <1>5, QuietStep DEF Inv, HeapInv

LEMMA PinStep ==
  ASSUME Inv, NEW o \in objects, Pin(o)
  PROVE  Inv'
<1>. USE DEF Pin, PinsWith
<1>1. TypeOK'
  BY BoundAssumption DEF Inv, TypeOK, CollectorIdle, trace
<1>2. ScriptOK' /\ FramesOK' /\ UpvaluesOK'
  BY DEF Inv, HeapInv, ScriptOK, FramesOK, UpvaluesOK
<1>3. PinRoots' \subseteq objects
  BY GraphFacts DEF PinRoots, Inv, TypeOK
<1>4. Roots' \subseteq objects \cup Script
  BY <1>3, GraphFacts DEF Roots, FrameRoots, StackRoots, GlobalRoots, CompilerRoots
<1>5. \A n \in objects \cup Script : Points(n)' \subseteq objects \cup Script
  BY GraphFacts DEF Points, Traced
<1>. QED
  BY <1>1, <1>2, <1>4, <1>5, QuietStep DEF Inv, HeapInv

LEMMA UnpinStep ==
  ASSUME Inv, Unpin
  PROVE  Inv'
<1>. USE DEF Unpin
<1>0. /\ Len(pins) \in Nat /\ Len(pins) > 0 /\ Len(pins') = Len(pins) - 1
      /\ pins' \in Seq(Obj) /\ (\A i \in 1..Len(pins) - 1 : pins'[i] = pins[i])
  <2>1. pins \in Seq(Obj) /\ 1 \in 0..Len(pins)
    BY DEF Inv, TypeOK
  <2>. QED
    BY <2>1, PopManyFacts, SMTT(30)
<1>1. TypeOK'
  BY <1>0, BoundAssumption DEF Inv, TypeOK, CollectorIdle, trace
<1>2. ScriptOK' /\ FramesOK' /\ UpvaluesOK'
  BY DEF Inv, HeapInv, ScriptOK, FramesOK, UpvaluesOK
<1>3. PinRoots' \subseteq objects
  BY <1>0, GraphFacts, SMTT(30) DEF PinRoots, Inv, TypeOK
<1>4. Roots' \subseteq objects \cup Script
  BY <1>3, GraphFacts DEF Roots, FrameRoots, StackRoots, GlobalRoots, CompilerRoots
<1>5. \A n \in objects \cup Script : Points(n)' \subseteq objects \cup Script
  BY GraphFacts DEF Points, Traced
<1>. QED
  BY <1>1, <1>2, <1>4, <1>5, QuietStep DEF Inv, HeapInv

LEMMA SetElementStep ==
  ASSUME Inv, NEW p \in objects, NEW old \in SUBSET Obj, NEW v \in SUBSET objects,
         SetElement(p, old, v)
  PROVE  Inv'
<1>. USE DEF SetElement
<1>0. /\ held' = [held EXCEPT ![p] = (held[p] \ old) \cup v] /\ p \in Obj /\ v \subseteq Obj
      /\ roots' = roots /\ kind' = kind /\ loc' = loc /\ kind[p] # "UPVALUE"
  BY GraphFacts
<1>1. TypeOK'
  BY <1>0, BoundAssumption, SMTT(30) DEF Inv, TypeOK, CollectorIdle, trace, Node, roots
<1>2. ScriptOK' /\ FramesOK' /\ UpvaluesOK'
  BY <1>0, ObjAssumption
  DEF Inv, TypeOK, HeapInv, ScriptOK, FramesOK, UpvaluesOK, roots, Node, Script
<1>4. Roots' \subseteq objects \cup Script
  BY <1>0, GraphFacts
  DEF Roots, FrameRoots, StackRoots, GlobalRoots, CompilerRoots, PinRoots, roots
<1>5. \A n \in objects \cup Script : Points(n)' \subseteq objects \cup Script
  BY <1>0, GraphFacts DEF Points, Traced, Inv, TypeOK, Node, roots
<1>. QED
  BY <1>1, <1>2, <1>4, <1>5, QuietStep DEF Inv, HeapInv

LEMMA SetUpvalueStep ==
  ASSUME Inv, NEW uv \in objects, SetUpvalue(uv)
  PROVE  Inv'
<1>. USE DEF SetUpvalue
<1>1. Top(stack) \subseteq StackRoots /\ Top(stack) \in SUBSET Obj /\ uv \in Obj /\ uv \in Node
  <2>1. Len(stack) \in 1..Len(stack) /\ stack[Len(stack)] \in SUBSET Obj
    BY DEF Inv, TypeOK
  <2>. QED
    BY <2>1, GraphFacts DEF Top, StackRoots, Node
<1>2. CASE loc[uv] = Closed /\ held' = [held EXCEPT ![uv] = Top(stack)] /\ stack' = stack
  <2>1. TypeOK'
    BY <1>1, <1>2, BoundAssumption DEF Inv, TypeOK, CollectorIdle, trace, Node
  <2>2. ScriptOK' /\ FramesOK' /\ UpvaluesOK'
    BY <1>1, <1>2, ObjAssumption
    DEF Inv, TypeOK, HeapInv, ScriptOK, FramesOK, UpvaluesOK, Node, Script
  <2>4. Roots' \subseteq objects \cup Script
    BY <1>2, GraphFacts
    DEF Roots, FrameRoots, StackRoots, GlobalRoots, CompilerRoots, PinRoots
  <2>5. \A n \in objects \cup Script : Points(n)' \subseteq objects \cup Script
    BY <1>1, <1>2, GraphFacts DEF Points, Traced, Inv, TypeOK, Node, Closed
  <2>. QED
    BY <2>1, <2>2, <2>4, <2>5, QuietStep DEF Inv, HeapInv
<1>3. CASE /\ loc[uv] # Closed /\ held' = held
           /\ \E i \in SlotsOf(uv) :
                stack' = [j \in 1..Len(stack) |-> IF j = i THEN Top(stack) ELSE stack[j]]
  <2>0. stack \in Seq(SUBSET Obj) /\ loc[uv] \in 1..Len(stack) /\ SlotsOf(uv) = {loc[uv]}
    BY <1>1, <1>3 DEF Inv, TypeOK, HeapInv, UpvaluesOK, SlotsOf, Dead
  <2>1. /\ stack' \in Seq(SUBSET Obj) /\ Len(stack') = Len(stack)
        /\ \A j \in 1..Len(stack) : stack'[j] = IF j = loc[uv] THEN Top(stack) ELSE stack[j]
    BY <1>1, <1>3, <2>0, SMTT(30)
  <2>2. \A i \in 1..Len(stack) : stack'[i] \subseteq StackRoots
    BY <1>1, <2>1 DEF StackRoots
  <2>3. TypeOK'
    BY <1>3, <2>1, BoundAssumption DEF Inv, TypeOK, CollectorIdle, trace
  <2>4. ScriptOK' /\ FramesOK' /\ UpvaluesOK'
    BY <1>3, <2>1 DEF Inv, HeapInv, ScriptOK, FramesOK, UpvaluesOK
  <2>5. StackRoots' \subseteq objects
    BY <2>1, <2>2, GraphFacts DEF StackRoots
  <2>6. Roots' \subseteq objects \cup Script
    BY <2>5, GraphFacts DEF Roots, FrameRoots, GlobalRoots, CompilerRoots, PinRoots
  <2>7. \A n \in objects \cup Script : Points(n)' \subseteq objects \cup Script
    BY <1>3, <2>1, <2>2, GraphFacts DEF Points, Traced
  <2>. QED
    BY <2>3, <2>4, <2>6, <2>7, QuietStep DEF Inv, HeapInv
<1>. QED
  BY <1>2, <1>3

LEMMA CallStep ==
  ASSUME Inv, NEW i \in 1..Len(stack), Call(i)
  PROVE  Inv'
<1>. USE DEF Call
<1>0. PICK c \in stack[i] :
        kind[c] = "CLOSURE" /\ frames' = Append(frames, [closure |-> c, slots |-> i])
  OBVIOUS
<1>1. /\ c \in objects /\ c \in Obj /\ i \in Nat /\ i <= StackMax
      /\ [closure |-> c, slots |-> i] \in FrameRecords
  <2>1. c \in StackRoots
    BY DEF StackRoots
  <2>2. i \in 1..StackMax + 1 /\ i <= StackMax
    BY BoundAssumption DEF Inv, TypeOK
  <2>. QED
    BY <2>1, <2>2, GraphFacts DEF FrameRecords, Node
<1>2. /\ Len(frames) >= 1 /\ frames' \in Seq(FrameRecords) /\ Len(frames') = Len(frames) + 1
      /\ frames'[Len(frames) + 1] = [closure |-> c, slots |-> i]
      /\ \A j \in 1..Len(frames) : frames'[j] = frames[j]
  BY <1>0, <1>1, AppendFacts DEF Inv, TypeOK, HeapInv, ScriptOK
<1>3. TypeOK'
  <2>1. Len(frames') <= FramesMax
    BY <1>2, FrameFacts, BoundAssumption DEF Inv
  <2>. QED
    BY <1>2, <2>1 DEF Inv, TypeOK, CollectorIdle, trace
<1>4. ScriptOK' /\ UpvaluesOK'
  BY <1>2, FrameFacts DEF Inv, HeapInv, ScriptOK, UpvaluesOK
<1>5. FramesOK'
  <2>1. \A j \in 2..Len(frames) : frames[j].slots < i
    BY FrameFacts, BoundAssumption DEF Inv, HeapInv, FramesOK, LowestPop, Top
  <2>. QED
    BY <1>0, <1>1, <1>2, <2>1, FrameFacts DEF Inv, HeapInv, FramesOK
<1>6. FrameRoots' \subseteq objects \cup Script
  BY <1>1, <1>2, FrameFacts, GraphFacts DEF FrameRoots, Inv
<1>7. Roots' \subseteq objects \cup Script
  BY <1>6, GraphFacts DEF Roots, StackRoots, GlobalRoots, CompilerRoots, PinRoots
<1>8. \A n \in objects \cup Script : Points(n)' \subseteq objects \cup Script
  BY GraphFacts DEF Points, Traced
<1>. QED
  BY <1>3, <1>4, <1>5, <1>7, <1>8, QuietStep DEF Inv, HeapInv

LEMMA ReturnStep ==
  ASSUME Inv, Return
  PROVE  Inv'
<1>. DEFINE base == Top(frames).slots
            closing == {uv \in open_upvalues : loc[uv] >= base}
<1>0. PICK i \in 1..Len(stack) : stack' = Append(SubSeq(stack, 1, base - 1), stack[i])
  BY DEF Return
<1>1. /\ Idle /\ CollectorIdle /\ Len(frames) > 1
      /\ held' = [n \in Node |-> IF n \in closing THEN Points(n) ELSE held[n]]
      /\ loc' = [n \in Node |-> IF n \in closing THEN Closed ELSE loc[n]]
      /\ open_upvalues' = open_upvalues \ closing
      /\ frames' = PopMany(frames, 1)
      /\ UNCHANGED <<kind, globals, compiler_roots, pins, running>>
  BY DEF Return
<1>2. /\ Len(frames) \in Nat /\ Len(stack) \in Nat /\ base \in 1..Len(stack)
      /\ \A j \in 2..Len(frames) - 1 : frames[j].slots < base
  BY <1>1, FrameFacts, BoundAssumption DEF Inv, HeapInv, FramesOK, Top
<1>3. /\ frames' \in Seq(FrameRecords) /\ Len(frames') = Len(frames) - 1
      /\ \A j \in 1..Len(frames) - 1 : frames'[j] = frames[j]
  <2>1. frames \in Seq(FrameRecords) /\ 1 \in 0..Len(frames)
    BY <1>1, <1>2 DEF Inv, TypeOK
  <2>. QED
    BY <1>1, <2>1, PopManyFacts
<1>4. /\ stack' \in Seq(SUBSET Obj) /\ Len(stack') = base
      /\ stack'[base] = stack[i] /\ stack[i] \in SUBSET Obj
      /\ \A j \in 1..base - 1 : stack'[j] = stack[j]
  <2>1. base - 1 \in 0..Len(stack) /\ stack[i] \in SUBSET Obj /\ stack \in Seq(SUBSET Obj)
    BY <1>2 DEF Inv, TypeOK
  <2>2. /\ SubSeq(stack, 1, base - 1) \in Seq(SUBSET Obj)
        /\ Len(SubSeq(stack, 1, base - 1)) = base - 1
        /\ \A j \in 1..base - 1 : SubSeq(stack, 1, base - 1)[j] = stack[j]
    BY <2>1, PrefixFacts
  <2>. QED
    BY <1>0, <1>2, <2>1, <2>2, AppendFacts
<1>5. \A uv \in closing :
        /\ loc[uv] \in 1..Len(stack) /\ uv \in Obj /\ Points(uv) = stack[loc[uv]]
        /\ Points(uv) \in SUBSET Obj /\ Points(uv) \subseteq StackRoots
  BY DEF Inv, TypeOK, HeapInv, UpvaluesOK, StackRoots, Points, Closed
<1>. HIDE DEF base, closing
<1>6. TypeOK'
  <2>1. held' \in [Node -> SUBSET Node] /\ loc' \in [Node -> -1..StackMax]
    BY <1>1, <1>5, BoundAssumption, SMTT(30) DEF Inv, TypeOK, Node, Closed
  <2>. QED
    BY <1>1, <1>2, <1>3, <1>4, <2>1, BoundAssumption, SMTT(30) DEF Inv, TypeOK, CollectorIdle, trace
<1>7. ScriptOK'
  <2>1. /\ ScriptClosure \in Node /\ ScriptFn \in Node /\ Obj \subseteq Node
        /\ ScriptClosure \notin closing /\ ScriptFn \notin closing
    BY <1>5, ObjAssumption DEF Node, Script
  <2>2. /\ held'[ScriptClosure] = held[ScriptClosure] /\ held'[ScriptFn] = held[ScriptFn]
        /\ \A o \in Obj : held'[o] \subseteq Obj
    BY <1>1, <1>5, <2>1 DEF Inv, HeapInv, ScriptOK
  <2>3. running
    BY <1>1 DEF Inv, HeapInv, ScriptOK
  <2>4. Len(frames') >= 1 /\ frames'[1] = frames[1]
    BY <1>1, <1>2, <1>3
  <2>. QED
    BY <1>1, <2>2, <2>3, <2>4 DEF Inv, HeapInv, ScriptOK
<1>8. FramesOK'
  <2>. SUFFICES ASSUME NEW j \in 2..Len(frames')
                PROVE  /\ frames'[j].closure \in Obj
                       /\ kind[frames'[j].closure] = "CLOSURE"
                       /\ frames'[j].slots <= Len(stack')
                       /\ \A k \in 2..Len(frames') : j < k => frames'[j].slots < frames'[k].slots
    BY <1>1 DEF FramesOK
  <2>1. j \in 2..Len(frames) - 1 /\ frames'[j] = frames[j]
    BY <1>2, <1>3
  <2>2. \A k \in 2..Len(frames') : k \in 2..Len(frames) /\ frames'[k] = frames[k]
    BY <1>2, <1>3
  <2>3. frames[j].slots <= Len(stack')
    BY <1>2, <1>4, <2>1, FrameFacts DEF Inv
  <2>. QED
    BY <2>1, <2>2, <2>3 DEF Inv, HeapInv, FramesOK
<1>9. UpvaluesOK'
  <2>1. \A uv \in open_upvalues \ closing :
          loc[uv] \in 1..base /\ Len(frames') > 1 /\ loc[uv] >= frames'[2].slots
    BY <1>1, <1>2, <1>3, FrameFacts DEF Inv, HeapInv, UpvaluesOK, closing, base, Top
  <2>. QED
    BY <1>1, <1>2, <1>4, <2>1 DEF Inv, TypeOK, HeapInv, UpvaluesOK, Closed, Node, closing
<1>10. StackRoots' \subseteq objects /\ FrameRoots' \subseteq objects \cup Script
  <2>1. \A j \in 1..base : stack'[j] \subseteq StackRoots
    BY <1>2, <1>4 DEF StackRoots
  <2>. QED
    <3>1. StackRoots' \subseteq StackRoots
      BY <1>4, <2>1 DEF StackRoots
    <3>2. FrameRoots' \subseteq FrameRoots
      BY <1>2, <1>3 DEF FrameRoots
    <3>. QED
      BY <1>1, <3>1, <3>2, GraphFacts
<1>11. Roots' \subseteq objects \cup Script
  BY <1>1, <1>10, GraphFacts DEF Roots, GlobalRoots, CompilerRoots, PinRoots
<1>12. \A n \in objects \cup Script : Points(n)' \subseteq objects \cup Script
  <2>. SUFFICES ASSUME NEW n \in objects \cup Script
                PROVE  Points(n)' \subseteq objects \cup Script
    OBVIOUS
  <2>1. n \in Node
    BY GraphFacts, <1>1 DEF Node
  <2>2. CASE n \in closing
    BY <1>1, <1>5, <2>1, <2>2, GraphFacts DEF Points, Traced, Closed
  <2>3. CASE n \notin closing
    <3>1. held'[n] = held[n] /\ loc'[n] = loc[n] /\ kind'[n] = kind[n]
      BY <1>1, <2>1, <2>3
    <3>2. kind[n] = "UPVALUE" /\ loc[n] # Closed =>
            n \in open_upvalues /\ loc[n] \in 1..Len(stack) /\ loc[n] < base
      BY <1>2, <2>1, <2>3 DEF Inv, TypeOK, HeapInv, UpvaluesOK, closing
    <3>3. kind[n] = "UPVALUE" /\ loc[n] # Closed =>
            /\ loc[n] \in 1..Len(stack) /\ loc[n] \in 1..Len(stack')
            /\ stack'[loc[n]] = stack[loc[n]]
      BY <1>2, <1>4, <3>2
    <3>4. Points(n)' = Points(n)
      BY <3>1, <3>3 DEF Points
    <3>. QED
      BY <1>1, <3>4, GraphFacts
  <2>. QED
    BY <2>2, <2>3
<1>. QED
  BY <1>1, <1>6, <1>7, <1>8, <1>9, <1>11, <1>12, QuietStep DEF Inv, HeapInv

-------------------------------------------------------------------------------
(* The steps that call gc_alloc.                                           *)

(* A call of gc_alloc keeps the invariant when what it counts on holds.    *)
LEMMA StartAllocStep ==
  ASSUME Inv, NEW r \in Requests, StartAlloc(r), RequestOK', r.value \subseteq InReach
  PROVE  Inv'
<1>. USE DEF StartAlloc
<1>1. /\ phase = "interpreter" /\ phase' \in {"mark", "calloc"} /\ stage' = 0 /\ request' = r
      /\ marked' = marked /\ gray' = gray /\ frames_left' = frames_left /\ unswept' = unswept
      /\ UNCHANGED <<objects, kind, held, loc, roots>>
  BY DEF heap, content
<1>2. marked \subseteq Script /\ gray = {} /\ frames_left = {} /\ unswept = {}
  BY <1>1 DEF Inv, HeapInv, MarksOK
<1>3. TypeOK'
  BY <1>1 DEF Inv, TypeOK, heap, content, roots, LastStage
<1>4. ScriptOK' /\ FramesOK' /\ UpvaluesOK'
  BY <1>1 DEF Inv, HeapInv, ScriptOK, FramesOK, UpvaluesOK, roots
<1>5. GraphOK'
  <2>1. Live = objects /\ Live' = objects
    BY <1>1 DEF Live
  <2>2. /\ Roots' = Roots /\ InReach' = InReach
        /\ \A n \in Node : Points(n)' = Points(n)
    BY <1>1, SameGraph
  <2>3. objects \cup Script \subseteq Node
    BY DEF Inv, TypeOK, Node
  <2>. QED
    BY <1>1, <2>1, <2>2, <2>3 DEF Inv, HeapInv, GraphOK
<1>6. MarksOK'
  BY <1>1, <1>2, ObjAssumption DEF MarksOK, Marking, ScriptDone, FrameStage
<1>7. StringsCanonical'
  BY DEF Inv, HeapInv, StringsCanonical, heap, content
<1>. QED
  BY <1>3, <1>4, <1>5, <1>6, <1>7 DEF Inv, HeapInv

(* When the interpreter calls gc_alloc, the root sets and the intern table *)
(* stay as they are.                                                       *)
LEMMA StartAllocSame ==
  ASSUME NEW r, StartAlloc(r)
  PROVE  /\ Idle /\ phase' # "interpreter" /\ request' = r /\ LowestPop' = LowestPop
         /\ running' = running /\ stack' = stack /\ compiler_roots' = compiler_roots
         /\ frames' = frames
         /\ \A i : Captured(i)' = Captured(i)
         /\ \A t : InternFind(t)' = InternFind(t)
BY SameGraph DEF StartAlloc, heap, content, roots, Idle, InternFind

LEMMA RequestStep ==
  ASSUME Inv, NEW k \in Kinds, NEW d \in Dests, NEW v \in SUBSET InReach,
         NEW c \in 0..StackMax, NEW i \in 0..StackMax, NEW t \in Texts \cup {NoText},
         StartAlloc(Allocation(k, d, v, c, i, t)),
         d \in {"array", "instance", "closure", "stack"} => running /\ Len(stack) < StackMax,
         d = "array" => /\ c <= Len(stack)
                        /\ Len(stack) - c + 1 >= LowestPop
                        /\ \A j \in (Len(stack) - c + 1)..Len(stack) : ~Captured(j),
         d = "constant" => compiler_roots # <<>>,
         d = "function" => Len(compiler_roots) > 1,
         d = "upvalue" => /\ running /\ i \in 1..Len(stack)
                          /\ Len(frames) > 1 /\ i >= frames[2].slots,
         d = "upvalue" <=> k = "UPVALUE",
         d # "upvalue" => i = Closed,
         k = "STRING" => t \in Texts /\ InternFind(t) = {}
  PROVE  Inv'
<1>. DEFINE r == Allocation(k, d, v, c, i, t)
<1>1. r \in Requests
  BY DEF Requests, Allocation, InReach
<1>2. /\ r.kind = k /\ r.dest = d /\ r.value = v /\ r.count = c /\ r.slot = i /\ r.text = t
  BY DEF Allocation
<1>. HIDE DEF r
<1>3. /\ request' = r /\ LowestPop' = LowestPop
      /\ running' = running /\ stack' = stack /\ compiler_roots' = compiler_roots
      /\ frames' = frames /\ \A j : Captured(j)' = Captured(j)
      /\ InternFind(t)' = InternFind(t)
  BY StartAllocSame DEF r
<1>4. RequestOK'
  BY <1>1, <1>2, <1>3 DEF RequestOK
<1>. QED
  BY <1>1, <1>2, <1>4, StartAllocStep DEF r

(* The members of the constant sets that requests are made of.             *)
LEMMA RequestConstants ==
  /\ Kinds = {"STRING", "ARRAY", "MAP", "FUNCTION", "CLOSURE", "UPVALUE"}
  /\ Dests = {"constant", "function", "array", "upvalue", "instance", "closure", "stack"}
  /\ 0 \in 0..StackMax /\ Closed = 0 /\ NoText \in Texts \cup {NoText}
BY BoundAssumption DEF Kinds, Dests, Closed

(* The interned string joins the constants of the chunk being compiled.    *)
LEMMA CompileStringStep ==
  ASSUME Inv, NEW t \in Texts, CompileString(t)
  PROVE  Inv'
<1>1. CASE InternFind(t) = {}
  <2>1. /\ StartAlloc(Allocation("STRING", "constant", {}, 0, Closed, t))
        /\ compiler_roots # <<>>
    BY <1>1 DEF CompileString
  <2>. QED
    BY <1>1, <2>1, RequestStep, RequestConstants
<1>2. CASE InternFind(t) # {}
  <2>. DEFINE k == Len(compiler_roots)
  <2>1. /\ Idle /\ CollectorIdle /\ compiler_roots # <<>>
        /\ compiler_roots' =
             [compiler_roots EXCEPT ![k] = compiler_roots[k] \cup InternFind(t)]
        /\ UNCHANGED <<kind, held, loc, stack, frames, open_upvalues, globals, pins, running>>
    BY <1>2 DEF CompileString
  <2>2. InternFind(t) \subseteq objects
    BY DEF InternFind, Inv, HeapInv, StringsCanonical
  <2>3. /\ compiler_roots \in Seq(SUBSET Obj) /\ k \in 1..k
        /\ compiler_roots[k] \in SUBSET Obj /\ compiler_roots[k] \subseteq CompilerRoots
    BY <2>1 DEF Inv, TypeOK, CompilerRoots
  <2>4. /\ compiler_roots' \in Seq(SUBSET Obj) /\ Len(compiler_roots') = k
        /\ \A i \in 1..k : compiler_roots'[i] =
             IF i = k THEN compiler_roots[k] \cup InternFind(t) ELSE compiler_roots[i]
    <3>1. compiler_roots[k] \cup InternFind(t) \in SUBSET Obj
      BY <2>1, <2>2, <2>3, GraphFacts
    <3>. QED
      BY <2>1, <2>3, <3>1, ExceptFacts
  <2>5. TypeOK'
    BY <2>1, <2>4 DEF Inv, TypeOK, CollectorIdle, trace
  <2>6. ScriptOK' /\ FramesOK' /\ UpvaluesOK'
    BY <2>1 DEF Inv, HeapInv, ScriptOK, FramesOK, UpvaluesOK
  <2>7. CompilerRoots' \subseteq objects
    BY <2>1, <2>2, <2>3, <2>4, GraphFacts DEF CompilerRoots
  <2>8. Roots' \subseteq objects \cup Script
    BY <2>1, <2>7, GraphFacts DEF Roots, FrameRoots, GlobalRoots, StackRoots, PinRoots
  <2>9. \A n \in objects \cup Script : Points(n)' \subseteq objects \cup Script
    BY <2>1, GraphFacts DEF Points, Traced
  <2>. QED
    BY <2>1, <2>5, <2>6, <2>8, <2>9, QuietStep DEF Inv, HeapInv
<1>. QED
  BY <1>1, <1>2

LEMMA CompileFunctionStep ==
  ASSUME Inv, CompileFunction
  PROVE  Inv'
<1>1. /\ StartAlloc(Allocation("FUNCTION", "function", {}, 0, Closed, NoText))
      /\ Len(compiler_roots) > 1
  BY DEF CompileFunction
<1>. QED
  BY <1>1, RequestStep, RequestConstants

LEMMA NewStringStep ==
  ASSUME Inv, NEW t \in Texts, NewString(t)
  PROVE  Inv'
<1>1. CASE InternFind(t) = {}
  <2>1. /\ StartAlloc(Allocation("STRING", "stack", {}, 0, Closed, t))
        /\ running /\ Len(stack) < StackMax
    BY <1>1 DEF NewString, HasRoom
  <2>. QED
    BY <1>1, <2>1, RequestStep, RequestConstants
<1>2. CASE InternFind(t) # {}
  <2>1. Push(InternFind(t)) /\ InternFind(t) \in SUBSET objects
    BY <1>2 DEF NewString, InternFind, Inv, HeapInv, StringsCanonical
  <2>. QED
    BY <2>1, PushStep
<1>. QED
  BY <1>1, <1>2

LEMMA NewContainerStep ==
  ASSUME Inv, Disciplined, NEW k \in Containers, NEW n \in 0..Len(stack), NewContainer(k, n)
  PROVE  Inv'
<1>1. /\ StartAlloc(Allocation(k, "array", {}, n, Closed, NoText))
      /\ running /\ Len(stack) < StackMax
      /\ Len(stack) - n + 1 >= LowestPop
      /\ \A i \in (Len(stack) - n + 1)..Len(stack) : ~Captured(i)
  BY DEF NewContainer, HasRoom, Disciplined
<1>2. n \in 0..StackMax /\ n <= Len(stack) /\ k \in {"ARRAY", "MAP"}
  BY BoundAssumption DEF Inv, TypeOK
<1>. QED
  BY <1>1, <1>2, RequestStep, RequestConstants

LEMMA NewInstanceStep ==
  ASSUME Inv, NEW m \in InReach, NewInstance(m)
  PROVE  Inv'
<1>1. /\ StartAlloc(Allocation("MAP", "instance", {m}, 0, Closed, NoText))
      /\ running /\ Len(stack) < StackMax
  BY DEF NewInstance, HasRoom
<1>. QED
  BY <1>1, RequestStep, RequestConstants

LEMMA NewClosureStep ==
  ASSUME Inv, NEW f \in InReach, NewClosure(f)
  PROVE  Inv'
<1>1. /\ StartAlloc(Allocation("CLOSURE", "closure", {f}, 0, Closed, NoText))
      /\ running /\ Len(stack) < StackMax
  BY DEF NewClosure, HasRoom
<1>. QED
  BY <1>1, RequestStep, RequestConstants

(* A slot that is captured already shares its upvalue; another allocates.  *)
LEMMA CaptureStep ==
  ASSUME Inv, NEW i \in 1..Len(stack), Capture(i)
  PROVE  Inv'
<1>0. PICK c \in Top(stack) :
        /\ running /\ stack # <<>> /\ Len(frames) > 1 /\ kind[c] = "CLOSURE"
        /\ i \in LowestPop .. Len(stack) - 1
        /\ IF Captured(i)
           THEN /\ Idle
                /\ held' = [held EXCEPT ![c] =
                              held[c] \cup {uv \in open_upvalues : loc[uv] = i}]
                /\ CollectorIdle
                /\ UNCHANGED <<kind, loc, roots>>
           ELSE StartAlloc(Allocation("UPVALUE", "upvalue", {c}, 0, i, NoText))
  BY DEF Capture
<1>1. Idle
  BY <1>0 DEF StartAlloc, Idle
<1>2. c \in StackRoots /\ c \in objects /\ c \in Obj
  <2>1. Len(stack) \in 1..Len(stack)
    BY <1>0 DEF Inv, TypeOK
  <2>2. c \in StackRoots
    BY <2>1 DEF Top, StackRoots
  <2>. QED
    BY <1>1, <2>2, GraphFacts
<1>3. CASE Captured(i)
  <2>. DEFINE shared == {uv \in open_upvalues : loc[uv] = i}
  <2>1. shared \subseteq objects
    BY <1>1, GraphFacts
  <2>3. /\ held' = [held EXCEPT ![c] = held[c] \cup shared] /\ CollectorIdle
        /\ roots' = roots /\ kind' = kind /\ loc' = loc /\ kind[c] = "CLOSURE"
        /\ shared \subseteq Obj
    BY <1>0, <1>1, <1>3, <2>1, GraphFacts
  <2>. HIDE DEF shared
  <2>4. TypeOK'
    BY <1>2, <2>3, BoundAssumption DEF Inv, TypeOK, CollectorIdle, trace, Node, roots
  <2>5. ScriptOK' /\ FramesOK' /\ UpvaluesOK'
    BY <1>2, <2>3, ObjAssumption
    DEF Inv, TypeOK, HeapInv, ScriptOK, FramesOK, UpvaluesOK, roots, Node, Script
  <2>6. Roots' \subseteq objects \cup Script
    BY <1>1, <2>3, GraphFacts
    DEF Roots, FrameRoots, StackRoots, GlobalRoots, CompilerRoots, PinRoots, roots
  <2>7. \A n \in objects \cup Script : Points(n)' \subseteq objects \cup Script
    BY <1>1, <1>2, <2>1, <2>3, GraphFacts DEF Points, Traced, Inv, TypeOK, Node, roots
  <2>. QED
    BY <1>1, <2>3, <2>4, <2>5, <2>6, <2>7, QuietStep DEF Inv, HeapInv
<1>4. CASE ~Captured(i)
  <2>1. /\ StartAlloc(Allocation("UPVALUE", "upvalue", {c}, 0, i, NoText)) /\ running
    BY <1>0, <1>4
  <2>2. i \in 0..StackMax
    BY BoundAssumption DEF Inv, TypeOK
  <2>3. c \in InReach
    BY <1>2, GraphTypes, RootsReachable DEF InReach, Roots, Inv
  <2>4. Len(frames) > 1 /\ i >= frames[2].slots
    BY <1>0, FrameFacts, BoundAssumption DEF LowestPop, Top, Inv, HeapInv, FramesOK
  <2>. QED
    BY <2>1, <2>2, <2>3, <2>4, RequestStep, RequestConstants
<1>. QED
  BY <1>3, <1>4

(* The steps of the interpreter.                                           *)
LEMMA InterpreterStep ==
  ASSUME Inv, Disciplined, Interpreter
  PROVE  Inv'
<1>1. CASE UseObjects
  <2>1. Idle /\ InReach \subseteq objects
    <3>1. Idle
      BY <1>1
      DEF UseObjects, Push, Pin, NewInstance, NewClosure, SetUpvalue, SetElement, StartAlloc, Idle
    <3>. QED
      BY <3>1, GraphFacts
  <2>2. PICK o \in InReach :
          \/ Push({o}) \/ Pin(o) \/ NewInstance(o) \/ NewClosure(o) \/ SetUpvalue(o)
          \/ \E v \in InReach, old \in {{}, held[o]} : SetElement(o, old, {v})
    BY <1>1 DEF UseObjects
  <2>3. {o} \in SUBSET objects
    BY <2>1
  <2>4. ASSUME NEW v \in InReach, NEW old \in {{}, held[o]}, SetElement(o, old, {v})
        PROVE  Inv'
    <3>1. o \in Obj /\ held[o] \in SUBSET Obj
      BY DEF InReach, Inv, HeapInv, ScriptOK
    <3>2. {v} \in SUBSET objects /\ old \in SUBSET Obj
      BY <2>1, <3>1
    <3>. QED
      BY <2>1, <2>4, <3>2, SetElementStep
  <2>. QED
    BY <2>1, <2>2, <2>3, <2>4, PushStep, PinStep, NewInstanceStep, NewClosureStep, SetUpvalueStep
<1>2. CASE \/ BeginCompile \/ EnterFunction \/ CompileFunction \/ CompileError
          \/ BeginEval \/ EndEval
  BY <1>2, BeginCompileStep, EnterFunctionStep, CompileFunctionStep, CompileErrorStep,
     BeginEvalStep, EndEvalStep
<1>3. CASE \E t \in Texts : CompileString(t) \/ NewString(t)
  BY <1>3, CompileStringStep, NewStringStep
<1>4. CASE \E x \in Names : SetGlobal(x)
  BY <1>4, SetGlobalStep
<1>5. CASE \E k \in Containers, n \in 0..Len(stack) : NewContainer(k, n)
  BY <1>5, NewContainerStep
<1>6. CASE \E i \in 1..Len(stack) : Capture(i) \/ Call(i)
  BY <1>6, CaptureStep, CallStep
<1>7. CASE Pop \/ Unpin \/ Return
  BY <1>7, PopStep, UnpinStep, ReturnStep
<1>. QED
  BY <1>1, <1>2, <1>3, <1>4, <1>5, <1>6, <1>7 DEF Interpreter

-------------------------------------------------------------------------------
(* The steps of the collector.                                             *)

(* Marking and keeping change nothing that the interpreter can see.        *)
LEMMA MarkingSame ==
  ASSUME Inv, phase # "interpreter", UNCHANGED <<heap, roots, request>>
  PROVE  /\ ScriptOK' /\ FramesOK' /\ UpvaluesOK' /\ RequestOK' /\ StringsCanonical'
         /\ Live' = Live => GraphOK'
         /\ Roots' = Roots /\ Reachable' = Reachable /\ InReach' = InReach
         /\ \A n \in Node : Points(n)' = Points(n) /\ Traced(n)' = Traced(n)
<1>1. /\ UNCHANGED <<kind, held, loc, roots>>
      /\ UNCHANGED <<objects, kind, held, loc, text, interned, bytes, next_gc, request>>
      /\ UNCHANGED <<stack, frames, open_upvalues, globals, compiler_roots, pins, running>>
  BY DEF heap, content, roots
<1>2. /\ Roots' = Roots /\ Reachable' = Reachable /\ InReach' = InReach
      /\ LowestPop' = LowestPop
      /\ \A n \in Node : Points(n)' = Points(n) /\ Traced(n)' = Traced(n)
      /\ \A i : Captured(i)' = Captured(i)
  BY <1>1, SameGraph
<1>3. ScriptOK' /\ FramesOK' /\ UpvaluesOK' /\ StringsCanonical'
  BY <1>1 DEF Inv, HeapInv, ScriptOK, FramesOK, UpvaluesOK, StringsCanonical
<1>4. RequestOK'
  <2>1. \A t : InternFind(t)' = InternFind(t)
    BY <1>1 DEF InternFind
  <2>. QED
    BY <1>1, <1>2, <2>1 DEF Inv, HeapInv, RequestOK
<1>5. ASSUME Live' = Live PROVE GraphOK'
  <2>1. Live \cup Script \subseteq Node
    BY ReachableLive DEF Inv, HeapInv, TypeOK, Node
  <2>. QED
    BY <1>1, <1>2, <1>5, <2>1 DEF Inv, HeapInv, GraphOK
<1>. QED
  BY <1>2, <1>3, <1>4, <1>5

(* The root sets are reachable, those of the VM are empty without one.     *)
LEMMA RootSetFacts ==
  ASSUME Inv
  PROVE  /\ Roots \subseteq Reachable /\ Roots \subseteq Node
         /\ StackRoots \subseteq Roots /\ FrameRoots \subseteq Roots
         /\ open_upvalues \subseteq Roots /\ GlobalRoots \subseteq Roots
         /\ CompilerRoots \subseteq Roots /\ PinRoots \subseteq Roots
         /\ ~running => StackRoots = {} /\ FrameRoots = {} /\ open_upvalues = {}
         /\ running => ScriptClosure \in FrameRoots
<1>1. Roots \subseteq Node /\ Roots \subseteq Reachable
  BY GraphTypes, RootsReachable DEF Inv
<1>2. ~running => StackRoots = {} /\ FrameRoots = {} /\ open_upvalues = {}
  BY DEF Inv, HeapInv, ScriptOK, StackRoots, FrameRoots
<1>3. running => ScriptClosure \in FrameRoots
  <2>1. running => 1 \in 1..Len(frames) /\ frames[1].closure = ScriptClosure
    BY FrameFacts DEF Inv, HeapInv, ScriptOK
  <2>. QED
    BY <2>1 DEF FrameRoots
<1>. QED
  BY <1>1, <1>2, <1>3 DEF Roots

LEMMA MarkRootsStep ==
  ASSUME Inv, MarkRoots
  PROVE  Inv'
<1>. USE DEF MarkRoots
<1>1. /\ phase = "mark" /\ phase' = "mark" /\ gray = {} /\ frames_left = {}
      /\ stage \in 0..5 /\ stage' = stage + 1 /\ unswept' = unswept
      /\ frames_left' = IF stage' = FrameStage /\ running THEN FrameRoots ELSE {}
      /\ gray' = RootSet(stage') \ marked /\ marked' = marked \cup RootSet(stage')
      /\ UNCHANGED <<heap, roots, request>>
      /\ Marking
  BY DEF Inv, TypeOK, HeapInv, MarksOK, LastStage
<1>2. /\ Roots' = Roots /\ Reachable' = Reachable
      /\ \A n \in Node : Points(n)' = Points(n) /\ Traced(n)' = Traced(n)
      /\ StackRoots' = StackRoots /\ FrameRoots' = FrameRoots
      /\ GlobalRoots' = GlobalRoots /\ CompilerRoots' = CompilerRoots
      /\ PinRoots' = PinRoots /\ open_upvalues' = open_upvalues /\ running' = running
  BY <1>1, SameGraph, MarkingSame DEF heap, content, roots
<1>3. RootSet(stage') \subseteq Roots /\ RootSet(stage') \subseteq Node
  BY RootSetFacts DEF RootSet
<1>4. TypeOK'
  <2>1. frames_left' \subseteq Node /\ marked' \subseteq Node /\ gray' \subseteq marked'
    BY <1>1, <1>3, GraphTypes, RootSetFacts DEF Inv, TypeOK
  <2>2. stage' \in 0..LastStage
    BY <1>1 DEF LastStage
  <2>. QED
    BY <1>1, <2>1, <2>2 DEF Inv, TypeOK, heap, content, roots
<1>5. Live' = Live
  BY <1>1 DEF Live, heap
<1>6. MarksOK'
  <2>1. \A n \in marked' \ gray' : n \in Obj \/ ScriptDone' => Traced(n)' \subseteq marked'
    <3>. SUFFICES ASSUME NEW n \in marked' \ gray', n \in Obj \/ ScriptDone'
                  PROVE  Traced(n)' \subseteq marked'
      OBVIOUS
    <3>1. n \in marked \ gray /\ n \in Node
      BY <1>1 DEF Inv, TypeOK
    <3>2. ScriptDone' => ScriptDone
      BY <1>1, <1>2, RootSetFacts DEF ScriptDone, FrameStage
    <3>. QED
      BY <1>1, <1>2, <3>1, <3>2 DEF Marking
  <2>2. RootSet(stage') \subseteq marked' /\ marked \subseteq marked'
    BY <1>1
  <2>3. /\ stage' >= 1 => StackRoots \subseteq marked'
        /\ stage' >= 2 => FrameRoots \ frames_left' \subseteq marked'
        /\ stage' >= 3 => open_upvalues \subseteq marked'
        /\ stage' >= 4 => GlobalRoots \subseteq marked'
        /\ stage' >= 5 => CompilerRoots \subseteq marked'
        /\ stage' >= 6 => PinRoots \subseteq marked'
    BY <1>1, <2>2, RootSetFacts DEF Marking, RootSet, FrameStage
  <2>4. /\ marked' \cap Obj \subseteq Reachable /\ gray' \subseteq Reachable
        /\ frames_left' \subseteq FrameRoots /\ (frames_left' # {} => stage' = FrameStage)
    BY <1>1, <1>3, RootSetFacts DEF Marking
  <2>5. Marking'
    BY <1>2, <2>1, <2>3, <2>4 DEF Marking
  <2>. QED
    BY <1>1, <2>5 DEF MarksOK, Inv, HeapInv
<1>. QED
  BY <1>1, <1>4, <1>5, <1>6, MarkingSame DEF Inv, HeapInv

LEMMA MarkFrameStep ==
  ASSUME Inv, NEW c \in FrameRoots, MarkFrame(c)
  PROVE  Inv'
<1>. DEFINE fns == FunctionOf(c)
<1>1. /\ phase = "mark" /\ phase' = "mark" /\ gray = {} /\ c \in frames_left
      /\ frames_left' = frames_left \ {c} /\ stage' = stage /\ unswept' = unswept
      /\ gray' = {c} \cup fns
      /\ marked' = marked \cup {c} \cup fns
      /\ UNCHANGED <<heap, roots, request>>
      /\ Marking
  BY DEF MarkFrame, ClearFrameMarks, Inv, HeapInv, MarksOK
<1>2. /\ Roots' = Roots /\ Reachable' = Reachable
      /\ \A n \in Node : Points(n)' = Points(n) /\ Traced(n)' = Traced(n)
      /\ StackRoots' = StackRoots /\ FrameRoots' = FrameRoots
      /\ GlobalRoots' = GlobalRoots /\ CompilerRoots' = CompilerRoots
      /\ PinRoots' = PinRoots /\ open_upvalues' = open_upvalues /\ running' = running
  BY <1>1, SameGraph, MarkingSame DEF heap, content, roots
<1>3. c \in Node /\ kind[c] = "CLOSURE" /\ c \in Reachable
  <2>1. PICK i \in 1..Len(frames) : c = frames[i].closure
    BY DEF FrameRoots
  <2>2. CASE i = 1
    <3>1. running
      BY <2>1, FrameFacts DEF Inv, HeapInv, ScriptOK
    <3>. QED
      BY <2>1, <2>2, <3>1, RootSetFacts DEF Inv, HeapInv, ScriptOK
  <2>3. CASE i # 1
    <3>1. i \in 2..Len(frames)
      BY <2>3
    <3>. QED
      BY <2>1, <3>1, RootSetFacts DEF Inv, HeapInv, FramesOK
  <2>. QED
    BY <2>2, <2>3
<1>4. fns \subseteq Node /\ fns \subseteq Reachable
  <2>1. fns \subseteq Points(c)
    BY <1>3 DEF FunctionOf, Points, Traced
  <2>. QED
    BY <1>3, <2>1, GraphTypes, PointsReachable DEF Inv
<1>. HIDE DEF fns
<1>5. TypeOK'
  BY <1>1, <1>3, <1>4 DEF Inv, TypeOK, heap, content, roots
<1>6. Live' = Live
  BY <1>1 DEF Live, heap
<1>7. MarksOK'
  <2>1. \A n \in marked' \ gray' : n \in Obj \/ ScriptDone' => Traced(n)' \subseteq marked'
    <3>. SUFFICES ASSUME NEW n \in marked' \ gray', n \in Obj \/ ScriptDone'
                  PROVE  Traced(n)' \subseteq marked'
      OBVIOUS
    <3>1. n \in marked \ gray /\ n \in Node
      BY <1>1 DEF Inv, TypeOK
    <3>2. CASE c = ScriptClosure
      <4>1. ScriptFn \in fns /\ n # ScriptFn /\ n # ScriptClosure
        BY <1>1, <3>2 DEF fns, FunctionOf, Inv, HeapInv, ScriptOK
      <4>. QED
        BY <1>1, <1>2, <3>1, <4>1 DEF Marking, Node, Script
    <3>3. CASE c # ScriptClosure
      <4>1. ScriptDone' => ScriptDone
        BY <1>1, <1>2, <3>3 DEF ScriptDone
      <4>. QED
        BY <1>1, <1>2, <3>1, <4>1 DEF Marking
    <3>. QED
      BY <3>2, <3>3
  <2>2. marked \subseteq marked' /\ c \in marked'
    BY <1>1
  <2>3. Marking'
    BY <1>1, <1>2, <1>3, <1>4, <2>1, <2>2 DEF Marking
  <2>. QED
    BY <1>1, <2>3 DEF MarksOK, Inv, HeapInv
<1>. QED
  BY <1>1, <1>5, <1>6, <1>7, MarkingSame DEF Inv, HeapInv

LEMMA TraceStep ==
  ASSUME Inv, Trace
  PROVE  Inv'
<1>. DEFINE reached == UNION {Traced(o) : o \in gray}
<1>1. /\ phase = "mark" /\ phase' = "mark"
      /\ frames_left' = frames_left /\ stage' = stage /\ unswept' = unswept
      /\ gray' = reached \ marked /\ marked' = marked \cup reached
      /\ UNCHANGED <<heap, roots, request>>
      /\ Marking /\ gray \subseteq marked /\ marked \subseteq Node
  BY DEF Trace, Unmarked, Inv, TypeOK, HeapInv, MarksOK
<1>2. /\ Roots' = Roots /\ Reachable' = Reachable
      /\ \A n \in Node : Points(n)' = Points(n) /\ Traced(n)' = Traced(n)
      /\ StackRoots' = StackRoots /\ FrameRoots' = FrameRoots
      /\ GlobalRoots' = GlobalRoots /\ CompilerRoots' = CompilerRoots
      /\ PinRoots' = PinRoots /\ open_upvalues' = open_upvalues /\ running' = running
  BY <1>1, SameGraph, MarkingSame DEF heap, content, roots
<1>3. reached \subseteq Node /\ reached \subseteq Reachable
      /\ \A o \in gray : Traced(o) \subseteq reached
  <2>1. \A o \in gray : o \in Node /\ o \in Reachable
    BY <1>1 DEF Marking
  <2>2. \A o \in gray : Traced(o) \subseteq Node /\ Traced(o) \subseteq Reachable
    BY <2>1, TracedPoints, GraphTypes, PointsReachable DEF Inv
  <2>. QED
    BY <2>2
<1>. HIDE DEF reached
<1>4. TypeOK'
  BY <1>1, <1>3 DEF Inv, TypeOK, heap, content, roots
<1>5. Live' = Live
  BY <1>1 DEF Live, heap
<1>6. MarksOK'
  <2>1. \A n \in marked' \ gray' : n \in Obj \/ ScriptDone' => Traced(n)' \subseteq marked'
    <3>1. ScriptDone' = ScriptDone
      BY <1>1, <1>2 DEF ScriptDone
    <3>2. \A n \in marked' \ gray' : n \in marked /\ n \in Node
      BY <1>1
    <3>. QED
      BY <1>1, <1>2, <1>3, <3>1, <3>2 DEF Marking
  <2>2. Marking'
    BY <1>1, <1>2, <1>3, <2>1 DEF Marking
  <2>. QED
    BY <1>1, <2>2 DEF MarksOK, Inv, HeapInv
<1>. QED
  BY <1>1, <1>4, <1>5, <1>6, MarkingSame DEF Inv, HeapInv

(* At the end of the mark phase the marked objects are the reachable ones. *)
LEMMA StartSweepStep ==
  ASSUME Inv, StartSweep
  PROVE  Inv'
<1>1. /\ phase = "mark" /\ phase' = "sweep" /\ stage = 6 /\ gray = {} /\ frames_left = {}
      /\ unswept' = objects /\ gray' = {} /\ frames_left' = {} /\ stage' = stage
      /\ marked' = marked /\ UNCHANGED <<heap, roots, request>>
      /\ Marking /\ marked \subseteq Node
  BY DEF StartSweep, LastStage, Inv, TypeOK, HeapInv, MarksOK
<1>2. /\ Roots' = Roots /\ InReach' = InReach /\ objects' = objects
      /\ \A n \in Node : Points(n)' = Points(n)
      /\ request' = request
  BY <1>1, MarkingSame DEF heap
<1>3. TypeOK'
  BY <1>1 DEF Inv, TypeOK, heap, content, roots
<1>4. Roots \subseteq marked
  BY <1>1 DEF Marking, Roots
<1>5. running => ScriptDone /\ ScriptClosure \in marked
  BY <1>1, <1>4, RootSetFacts DEF ScriptDone, FrameStage
<1>6. \A n \in Script : Points(n) = held[n]
  BY DEF Script, Points, Traced, Inv, HeapInv, ScriptOK
<1>7. \A n \in marked \cup Script : Points(n) \subseteq marked \cup Script
  <2>. SUFFICES ASSUME NEW n \in marked \cup Script
                PROVE  Points(n) \subseteq marked \cup Script
    OBVIOUS
  <2>1. CASE n = ScriptClosure
    BY <1>6, <2>1 DEF Script, Inv, HeapInv, ScriptOK
  <2>2. CASE n = ScriptFn
    <3>1. CASE ~running
      BY <1>6, <2>2, <3>1 DEF Script, Inv, HeapInv, ScriptOK
    <3>2. CASE running
      <4>1. Traced(ScriptClosure) = {ScriptFn} /\ Traced(ScriptFn) = held[ScriptFn]
        BY DEF Traced, Inv, HeapInv, ScriptOK
      <4>2. ScriptFn \in marked
        BY <1>1, <1>5, <3>2, <4>1 DEF Marking
      <4>3. held[ScriptFn] \subseteq marked
        BY <1>1, <1>5, <3>2, <4>1, <4>2 DEF Marking
      <4>. QED
        BY <1>6, <2>2, <4>3 DEF Script
    <3>. QED
      BY <3>1, <3>2
  <2>3. CASE n \notin Script
    <3>1. n \in Obj /\ n \in marked /\ Traced(n) \subseteq marked
      BY <1>1, <2>3 DEF Marking, Node
    <3>2. Points(n) = Traced(n) \/ Points(n) \subseteq StackRoots
      BY <3>1, PointsCases DEF Inv, HeapInv, Node
    <3>. QED
      BY <1>4, <3>1, <3>2 DEF Roots
  <2>. QED
    BY <2>1, <2>2, <2>3 DEF Script
<1>8. InReach \subseteq marked /\ InReach \subseteq objects
  <2>1. Reachable \subseteq marked \cup Script
    <3>1. marked \cup Script \in SUBSET Node
      BY <1>1 DEF Node
    <3>. QED
      BY <1>4, <1>7, <3>1, ReachableSmallest
  <2>2. InReach \subseteq objects
    BY ReachableLive DEF Inv, HeapInv
  <2>. QED
    BY <2>1, <2>2, ObjAssumption DEF InReach
<1>9. Live' = InReach
  <2>1. Live' = objects \cap marked
    BY <1>1, <1>2 DEF Live
  <2>2. objects \cap marked \subseteq InReach
    BY <1>1 DEF InReach, Marking, Inv, TypeOK
  <2>. QED
    BY <1>8, <2>1, <2>2
<1>10. GraphOK'
  <2>1. Reachable = InReach \cup (Reachable \cap Script)
    BY DEF InReach, Reachable, Node
  <2>2. \A n \in InReach \cup Script : Points(n) \subseteq InReach \cup Script
    <3>. SUFFICES ASSUME NEW n \in InReach \cup Script
                  PROVE  Points(n) \subseteq InReach \cup Script
      OBVIOUS
    <3>1. n \in Node
      BY DEF InReach, Node
    <3>2. CASE n \in Reachable
      BY <2>1, <3>1, <3>2, GraphTypes, PointsReachable DEF Inv
    <3>3. CASE n \notin Reachable
      <4>1. ~running
        <5>1. running => ScriptClosure \in Reachable
          BY RootSetFacts
        <5>2. running => ScriptFn \in Reachable
          <6>1. Points(ScriptClosure) = {ScriptFn} /\ ScriptFn \in Node
            BY <1>6 DEF Script, Inv, HeapInv, ScriptOK, Node
          <6>. QED
            BY <5>1, <6>1, PointsReachable
        <5>. QED
          BY <3>3, <5>1, <5>2 DEF Script, InReach
      <4>2. n \in Script
        BY <3>3 DEF InReach
      <4>. QED
        BY <1>6, <4>1, <4>2 DEF Script, Inv, HeapInv, ScriptOK
    <3>. QED
      BY <3>2, <3>3
  <2>3. Roots \subseteq InReach \cup Script
    BY <2>1, RootSetFacts
  <2>4. InReach \cup Script \subseteq Node
    BY DEF InReach, Node
  <2>5. request.value \subseteq InReach
    BY <1>1 DEF Inv, HeapInv, GraphOK
  <2>. QED
    BY <1>2, <1>9, <2>2, <2>3, <2>4, <2>5 DEF GraphOK
<1>11. MarksOK'
  BY <1>1, <1>2, <1>8, <1>9 DEF MarksOK, Marking, InReach
<1>. QED
  BY <1>1, <1>3, <1>10, <1>11, MarkingSame DEF Inv, HeapInv

LEMMA KeepStep ==
  ASSUME Inv, Keep
  PROVE  Inv'
<1>1. /\ phase = "sweep" /\ phase' = "sweep"
      /\ marked' = marked \ unswept /\ unswept' = unswept \ marked
      /\ gray' = gray /\ frames_left' = frames_left /\ stage' = stage
      /\ UNCHANGED <<heap, roots, request>> /\ objects' = objects
      /\ marked \cap Obj \subseteq unswept /\ gray = {} /\ frames_left = {}
      /\ unswept \subseteq objects /\ objects \subseteq Obj /\ Live = InReach
  BY DEF Keep, MarksAfterKeep, Inv, TypeOK, HeapInv, MarksOK, heap
<1>2. Live' = Live /\ InReach' = InReach
  BY <1>1, MarkingSame DEF Live
<1>3. TypeOK'
  BY <1>1 DEF Inv, TypeOK, heap, content, roots
<1>4. MarksOK'
  BY <1>1, <1>2 DEF MarksOK
<1>. QED
  BY <1>1, <1>2, <1>3, <1>4, MarkingSame DEF Inv, HeapInv

(* The object freed is out of reach: what is reachable stays the same.     *)
LEMMA FreeFacts ==
  ASSUME Inv, NEW o \in unswept, Free(o)
  PROVE  /\ o \in Obj /\ o \notin Reachable /\ o \notin Live
         /\ Reachable' = Reachable /\ Roots' = Roots
         /\ \A n \in Node \ {o} : Points(n)' = Points(n)
         /\ Points(o)' = {}
<1>1. /\ phase = "sweep" /\ unswept \cap marked = {} /\ Live = InReach
      /\ kind' = [kind EXCEPT ![o] = "FUNCTION"] /\ held' = [held EXCEPT ![o] = {}]
      /\ loc' = [loc EXCEPT ![o] = Closed] /\ UNCHANGED roots
  BY DEF Free, Inv, HeapInv, MarksOK
<1>2. o \in Obj /\ o \notin Live /\ o \in Node
  BY <1>1 DEF Inv, TypeOK, Live, Node
<1>3. o \notin Reachable
  BY <1>1, <1>2 DEF InReach
<1>4. Roots' = Roots
  BY <1>1 DEF Roots, roots, StackRoots, FrameRoots, GlobalRoots, CompilerRoots, PinRoots
<1>5. \A n \in Node \ {o} : Points(n)' = Points(n)
  BY <1>1 DEF Points, Traced, Inv, TypeOK, roots
<1>6. Points(o)' = {}
  BY <1>1, <1>2 DEF Points, Traced, Inv, TypeOK
<1>7. Reachable \in SUBSET Node /\ Roots \subseteq Reachable
      /\ \A n \in Reachable : Points(n) \subseteq Reachable
  BY RootSetFacts, GraphTypes, PointsReachable DEF Inv, Reachable
<1>8. Reachable' \subseteq Reachable
  <2>1. Reachable \in ClosedSets'
    <3>1. \A n \in Reachable : Points(n)' \subseteq Reachable
      BY <1>3, <1>5, <1>7
    <3>. QED
      BY <1>4, <1>7, <3>1 DEF ClosedSets
  <2>. QED
    BY <2>1 DEF Reachable
<1>9. Reachable \subseteq Reachable'
  <2>. SUFFICES ASSUME NEW S \in ClosedSets' PROVE Reachable \subseteq S
    BY <1>7 DEF Reachable
  <2>1. /\ S \in SUBSET Node /\ Roots \subseteq S
        /\ \A n \in S : Points(n)' \subseteq S
    BY <1>4 DEF ClosedSets
  <2>. DEFINE T == S \cap Reachable
  <2>2. T \in SUBSET Node /\ Roots \subseteq T /\ \A n \in T : Points(n) \subseteq T
    BY <1>3, <1>5, <1>7, <2>1
  <2>. QED
    BY <2>2, ReachableSmallest
<1>. QED
  BY <1>2, <1>3, <1>4, <1>5, <1>6, <1>8, <1>9

LEMMA FreeStep ==
  ASSUME Inv, NEW o \in unswept, Free(o)
  PROVE  Inv'
<1>1. /\ phase = "sweep" /\ phase' = "sweep" /\ unswept \cap marked = {} /\ Live = InReach
      /\ unswept' = unswept \ {o} /\ objects' = objects \ {o}
      /\ bytes' = (IF bytes >= Size[kind[o]] THEN bytes - Size[kind[o]] ELSE 0)
      /\ interned' = (IF kind[o] = "STRING" THEN interned \ {o} ELSE interned)
      /\ kind' = [kind EXCEPT ![o] = "FUNCTION"] /\ held' = [held EXCEPT ![o] = {}]
      /\ loc' = [loc EXCEPT ![o] = Closed] /\ text' = [text EXCEPT ![o] = NoText]
      /\ marked' = marked /\ gray' = gray /\ frames_left' = frames_left /\ stage' = stage
      /\ next_gc' = next_gc /\ request' = request
      /\ UNCHANGED <<stack, frames, open_upvalues, globals, compiler_roots, pins, running>>
      /\ gray = {} /\ frames_left = {} /\ marked \cap Obj \subseteq unswept
      /\ unswept \subseteq objects
  BY DEF Free, BytesAfterFree, InternedAfterFree, roots, Inv, TypeOK, HeapInv, MarksOK
<1>2. /\ o \in Obj /\ o \in Node /\ o \notin Reachable /\ o \notin Live
      /\ InReach' = InReach /\ Roots' = Roots
      /\ \A n \in Node \ {o} : Points(n)' = Points(n)
  BY FreeFacts DEF InReach, Node
<1>3. TypeOK'
  <2>1. Size[kind[o]] \in Nat
    BY <1>2, SizeAssumption DEF Inv, TypeOK
  <2>2. bytes' \in Nat
    BY <1>1, <2>1 DEF Inv, TypeOK
  <2>3. /\ kind' \in [Node -> Kinds] /\ held' \in [Node -> SUBSET Node]
        /\ loc' \in [Node -> -1..StackMax] /\ text' \in [Node -> Texts \cup {NoText}]
    BY <1>1, <1>2, BoundAssumption, SMTT(30) DEF Inv, TypeOK, Kinds, Closed
  <2>. QED
    BY <1>1, <2>2, <2>3 DEF Inv, TypeOK
<1>4. Live' = Live
  BY <1>1 DEF Live
<1>5. ScriptOK'
  <2>1. /\ ScriptClosure \in Node /\ ScriptFn \in Node /\ Obj \subseteq Node
        /\ ScriptClosure # o /\ ScriptFn # o
    BY <1>2, ObjAssumption DEF Node, Script
  <2>2. \A n \in Node : /\ kind'[n] = IF n = o THEN "FUNCTION" ELSE kind[n]
                        /\ held'[n] = IF n = o THEN {} ELSE held[n]
    BY <1>1 DEF Inv, TypeOK
  <2>. QED
    BY <1>1, <2>1, <2>2 DEF Inv, HeapInv, ScriptOK
<1>6. FramesOK'
  <2>1. \A i \in 2..Len(frames) : frames[i].closure # o
    <3>1. \A i \in 2..Len(frames) : frames[i].closure \in FrameRoots
      BY FrameFacts DEF FrameRoots, Inv
    <3>. QED
      BY <1>2, <3>1, RootSetFacts
  <2>2. \A i \in 2..Len(frames) : frames[i].closure \in Node
    BY FrameFacts DEF Inv
  <2>. QED
    BY <1>1, <2>1, <2>2 DEF Inv, TypeOK, HeapInv, FramesOK
<1>7. UpvaluesOK'
  BY <1>1, <1>2, RootSetFacts DEF Inv, TypeOK, HeapInv, UpvaluesOK
<1>8. StringsCanonical'
  BY <1>1, <1>2 DEF Inv, TypeOK, HeapInv, StringsCanonical, Node
<1>9. RequestOK'
  <2>1. \A uv \in open_upvalues : loc'[uv] = loc[uv]
    BY <1>1, <1>2, RootSetFacts DEF Inv, TypeOK
  <2>2. \A i : Captured(i)' = Captured(i)
    BY <1>1, <2>1 DEF Captured
  <2>3. LowestPop' = LowestPop
    BY <1>1 DEF LowestPop, Top
  <2>4. \A t : InternFind(t) = {} => InternFind(t)' = {}
    BY <1>1, <1>2 DEF InternFind, Inv, TypeOK, HeapInv, StringsCanonical, Node
  <2>. QED
    BY <1>1, <2>2, <2>3, <2>4 DEF Inv, HeapInv, RequestOK
<1>10. GraphOK'
  <2>1. Live \cup Script \subseteq Node /\ o \notin Live \cup Script
    BY <1>1, <1>2, ObjAssumption DEF InReach, Node
  <2>. QED
    BY <1>1, <1>2, <1>4, <2>1 DEF Inv, HeapInv, GraphOK
<1>11. MarksOK'
  BY <1>1, <1>2, <1>4 DEF MarksOK
<1>. QED
  BY <1>3, <1>5, <1>6, <1>7, <1>8, <1>9, <1>10, <1>11 DEF Inv, HeapInv

LEMMA FinishCollectStep ==
  ASSUME Inv, FinishCollect
  PROVE  Inv'
<1>1. /\ phase = "sweep" /\ phase' = "calloc" /\ unswept = {} /\ unswept' = {}
      /\ next_gc' = NextThreshold /\ marked' = marked /\ gray' = gray
      /\ frames_left' = frames_left /\ stage' = stage /\ request' = request
      /\ UNCHANGED <<objects, kind, held, loc, text, interned, bytes>>
      /\ UNCHANGED <<stack, frames, open_upvalues, globals, compiler_roots, pins, running>>
      /\ UNCHANGED roots
      /\ gray = {} /\ frames_left = {} /\ marked \cap Obj = {} /\ marked \subseteq Node
  BY DEF FinishCollect, content, roots, trace, Inv, TypeOK, HeapInv, MarksOK
<1>2. /\ Roots' = Roots /\ InReach' = InReach /\ LowestPop' = LowestPop
      /\ \A n \in Node : Points(n)' = Points(n)
      /\ \A i : Captured(i)' = Captured(i)
  BY <1>1, SameGraph
<1>3. TypeOK'
  <2>1. next_gc' \in Nat
    BY <1>1, SizeAssumption DEF NextThreshold, Inv, TypeOK
  <2>. QED
    BY <1>1, <2>1 DEF Inv, TypeOK
<1>4. Live' = Live /\ Live \cup Script \subseteq Node
  BY <1>1 DEF Live, Inv, TypeOK, Node
<1>5. ScriptOK' /\ FramesOK' /\ UpvaluesOK' /\ StringsCanonical'
  BY <1>1 DEF Inv, HeapInv, ScriptOK, FramesOK, UpvaluesOK, StringsCanonical
<1>6. RequestOK'
  <2>1. \A t : InternFind(t)' = InternFind(t)
    BY <1>1 DEF InternFind
  <2>. QED
    BY <1>1, <1>2, <2>1 DEF Inv, HeapInv, RequestOK
<1>7. GraphOK'
  BY <1>1, <1>2, <1>4 DEF Inv, HeapInv, GraphOK
<1>8. MarksOK'
  BY <1>1 DEF MarksOK, Node
<1>. QED
  BY <1>3, <1>5, <1>6, <1>7, <1>8 DEF Inv, HeapInv

-------------------------------------------------------------------------------
(* The end of an allocation.                                               *)

LEMMA OutOfMemoryStep ==
  ASSUME Inv, OutOfMemory
  PROVE  Inv'
<1>1. /\ phase = "calloc" /\ phase' = "interpreter" /\ request' = NoRequest
      /\ UNCHANGED <<objects, kind, held, loc, text, interned, bytes, next_gc>>
      /\ UNCHANGED <<stack, frames, open_upvalues, globals, compiler_roots, pins, running>>
      /\ UNCHANGED <<stage, frames_left, marked, gray, unswept>> /\ UNCHANGED roots
  BY DEF OutOfMemory, heap, content, roots, trace
<1>2. Roots' = Roots /\ \A n \in Node : Points(n)' = Points(n)
  BY <1>1, SameGraph
<1>3. TypeOK'
  BY <1>1 DEF Inv, TypeOK
<1>4. ScriptOK' /\ FramesOK' /\ UpvaluesOK' /\ StringsCanonical'
  BY <1>1 DEF Inv, HeapInv, ScriptOK, FramesOK, UpvaluesOK, StringsCanonical
<1>5. Live' = Live /\ Live \cup Script \subseteq Node
  BY <1>1 DEF Live, Inv, TypeOK, Node
<1>6. RequestOK' /\ GraphOK' /\ MarksOK'
  BY <1>1, <1>2, <1>5 DEF RequestOK, GraphOK, MarksOK, Inv, HeapInv
<1>. QED
  BY <1>3, <1>4, <1>6 DEF Inv, HeapInv

(* The new object refers to objects that exist, and nothing else changes   *)
(* but the upvalues of a closure that captures a slot.                     *)
LEMMA CreateFacts ==
  ASSUME Inv, NEW o \in Obj, Create(o)
  PROVE  /\ o \notin objects /\ objects \subseteq Obj /\ objects' = objects \cup {o}
         /\ phase' = "interpreter" /\ request \in Requests
         /\ StackRoots \subseteq objects /\ open_upvalues \subseteq objects
         /\ GlobalRoots \subseteq objects /\ CompilerRoots \subseteq objects
         /\ PinRoots \subseteq objects /\ FrameRoots \subseteq objects \cup Script
         /\ \A n \in objects \cup Script : Points(n) \subseteq objects \cup Script
         /\ request.value \subseteq objects
         /\ \A i \in 1..Len(stack) : stack[i] \subseteq objects
         /\ \A i \in 1..Len(compiler_roots) : compiler_roots[i] \subseteq objects
         /\ Contents \subseteq objects
<1>1. /\ phase = "calloc" /\ phase' = "interpreter" /\ o \notin objects
      /\ objects' = objects \cup {o}
      /\ request \in Requests /\ objects \subseteq Obj
  BY DEF Create, Inv, TypeOK, HeapInv, RequestOK
<1>2. Live = objects
  BY <1>1 DEF Live
<1>3. Roots \subseteq objects \cup Script /\ request.value \subseteq InReach
      /\ \A n \in objects \cup Script : Points(n) \subseteq objects \cup Script
  BY <1>1, <1>2 DEF Inv, HeapInv, GraphOK
<1>4. StackRoots \subseteq Obj /\ open_upvalues \subseteq Obj /\ GlobalRoots \subseteq Obj
      /\ CompilerRoots \subseteq Obj /\ PinRoots \subseteq Obj
  BY DEF Inv, TypeOK, StackRoots, GlobalRoots, CompilerRoots, PinRoots
<1>5. StackRoots \subseteq objects /\ open_upvalues \subseteq objects
      /\ GlobalRoots \subseteq objects /\ CompilerRoots \subseteq objects
      /\ PinRoots \subseteq objects /\ FrameRoots \subseteq objects \cup Script
  BY <1>3, <1>4, ObjAssumption DEF Roots
<1>6. /\ request.value \subseteq objects
      /\ \A i \in 1..Len(stack) : stack[i] \subseteq objects
      /\ \A i \in 1..Len(compiler_roots) : compiler_roots[i] \subseteq objects
  BY <1>2, <1>3, <1>5, ReachableLive DEF StackRoots, CompilerRoots, Inv, HeapInv
<1>7. Contents \subseteq objects
  <2>1. CASE request.dest = "array"
    <3>1. \A i \in (Len(stack) - request.count + 1)..Len(stack) : i \in 1..Len(stack)
      BY <1>1, <2>1 DEF Inv, TypeOK, HeapInv, RequestOK, Requests
    <3>. QED
      BY <1>6, <2>1, <3>1 DEF Contents, OnTop
  <2>2. CASE request.dest = "function"
    <3>1. Len(compiler_roots) \in 1..Len(compiler_roots)
      BY <1>1, <2>2 DEF Inv, TypeOK, HeapInv, RequestOK
    <3>2. Contents = compiler_roots[Len(compiler_roots)]
      BY <2>2 DEF Contents, Top
    <3>. QED
      BY <1>6, <3>1, <3>2
  <2>3. CASE request.dest = "closure"
    BY <1>6, <2>3 DEF Contents
  <2>4. CASE request.dest \notin {"array", "function", "closure"}
    BY <2>4 DEF Contents
  <2>. QED
    BY <2>1, <2>2, <2>3, <2>4
<1>. QED
  BY <1>1, <1>3, <1>5, <1>6, <1>7

(* The handler's delivery keeps the root sets well typed and full of       *)
(* objects that exist, and the open upvalues on the stack.                 *)
LEMMA DeliverFacts ==
  ASSUME Inv, Disciplined, NEW o \in Obj, Create(o)
  PROVE  /\ stack' \in Seq(SUBSET Obj) /\ Len(stack') <= StackMax
         /\ compiler_roots' \in Seq(SUBSET Obj) /\ Len(compiler_roots') <= CompilerRootsMax
         /\ \A i \in 1..Len(stack') : stack'[i] \subseteq objects \cup {o}
         /\ \A i \in 1..Len(compiler_roots') : compiler_roots'[i] \subseteq objects \cup {o}
         /\ open_upvalues' =
              IF request.dest = "upvalue" THEN open_upvalues \cup {o} ELSE open_upvalues
         /\ \A uv \in open_upvalues :
              loc[uv] \in 1..Len(stack) /\ loc[uv] \in 1..Len(stack')
         /\ request.slot # Closed => request.slot \in 1..Len(stack')
         /\ running' = running /\ (~running => stack' = <<>>)
         /\ compiler_roots' # <<>> => compiler_roots # <<>>
         /\ \A i \in 2..Len(frames) : frames[i].slots <= Len(stack')
<1>. DEFINE len == Len(stack)
            depth == Len(compiler_roots)
<1>1. /\ stack \in Seq(SUBSET Obj) /\ compiler_roots \in Seq(SUBSET Obj)
      /\ len \in Nat /\ depth \in Nat /\ len <= StackMax /\ depth <= CompilerRootsMax
      /\ {o} \in SUBSET Obj /\ StackMax \in Nat /\ CompilerRootsMax \in Nat
  BY BoundAssumption DEF Inv, TypeOK
<1>2. /\ \A uv \in open_upvalues : loc[uv] \in 1..len
      /\ \A i \in 2..Len(frames) : frames[i].slots <= len
      /\ ~running => stack = <<>> /\ len = 0 /\ Len(frames) = 0
  BY DEF Inv, HeapInv, UpvaluesOK, FramesOK, ScriptOK
<1>3. phase # "interpreter" /\ RequestOK /\ request \in Requests
  BY DEF Create, Inv, HeapInv, RequestOK
<1>4. /\ running' = running /\ Deliver(o)
      /\ request.value \subseteq objects /\ request.value \subseteq Obj
      /\ \A i \in 1..len : stack[i] \subseteq objects
      /\ \A i \in 1..depth : compiler_roots[i] \subseteq objects
  BY CreateFacts DEF Create
<1>5. CASE request.dest = "constant"
  <2>1. /\ compiler_roots' = [compiler_roots EXCEPT ![depth] = compiler_roots[depth] \cup {o}]
        /\ stack' = stack /\ open_upvalues' = open_upvalues
    BY <1>4, <1>5 DEF Deliver
  <2>2. depth \in 1..depth /\ request.slot = Closed
    BY <1>1, <1>3, <1>5 DEF RequestOK
  <2>3. compiler_roots[depth] \cup {o} \in SUBSET Obj
    BY <1>1, <2>2
  <2>4. /\ compiler_roots' \in Seq(SUBSET Obj) /\ Len(compiler_roots') = depth
        /\ \A j \in 1..depth : compiler_roots'[j] =
             IF j = depth THEN compiler_roots[depth] \cup {o} ELSE compiler_roots[j]
    BY <1>1, <2>1, <2>2, <2>3, ExceptFacts
  <2>5. \A i \in 1..Len(compiler_roots') : compiler_roots'[i] \subseteq objects \cup {o}
    BY <1>4, <2>2, <2>4
  <2>6. \A i \in 1..Len(stack') : stack'[i] \subseteq objects \cup {o}
    BY <1>4, <2>1
  <2>. HIDE DEF len, depth
  <2>. QED
    BY <1>1, <1>2, <1>4, <1>5, <2>1, <2>2, <2>4, <2>5, <2>6 DEF len
<1>6. CASE request.dest = "function"
  <2>. DEFINE outer == PopMany(compiler_roots, 1)
  <2>1. /\ compiler_roots' = [outer EXCEPT ![depth - 1] = outer[depth - 1] \cup {o}]
        /\ stack' = stack /\ open_upvalues' = open_upvalues
    BY <1>4, <1>6 DEF Deliver
  <2>2. depth > 1 /\ 1 \in 0..depth /\ request.slot = Closed
    BY <1>1, <1>3, <1>6 DEF RequestOK
  <2>3. /\ outer \in Seq(SUBSET Obj) /\ Len(outer) = depth - 1
        /\ \A i \in 1..depth - 1 : outer[i] = compiler_roots[i]
    BY <1>1, <2>2, PopManyFacts
  <2>. HIDE DEF outer
  <2>4. /\ depth - 1 \in 1..Len(outer) /\ outer[depth - 1] \cup {o} \in SUBSET Obj
        /\ outer[depth - 1] \subseteq objects
    BY <1>1, <1>4, <2>2, <2>3
  <2>5. /\ compiler_roots' \in Seq(SUBSET Obj) /\ Len(compiler_roots') = depth - 1
        /\ \A j \in 1..depth - 1 : compiler_roots'[j] =
             IF j = depth - 1 THEN outer[depth - 1] \cup {o} ELSE outer[j]
    BY <2>1, <2>3, <2>4, ExceptFacts
  <2>6. \A i \in 1..Len(compiler_roots') : compiler_roots'[i] \subseteq objects \cup {o}
    BY <1>4, <2>2, <2>3, <2>4, <2>5
  <2>7. \A i \in 1..Len(stack') : stack'[i] \subseteq objects \cup {o}
    BY <1>4, <2>1
  <2>8. Len(compiler_roots') <= CompilerRootsMax /\ compiler_roots # <<>>
    BY <1>1, <2>2, <2>5
  <2>. HIDE DEF depth
  <2>. QED
    BY <1>1, <1>2, <1>4, <1>6, <2>1, <2>2, <2>5, <2>6, <2>7, <2>8
<1>7. CASE request.dest = "array"
  <2>. DEFINE n == request.count
              rest == PopMany(stack, n)
  <2>1. /\ stack' = Append(rest, {o})
        /\ compiler_roots' = compiler_roots /\ open_upvalues' = open_upvalues
    BY <1>4, <1>7 DEF Deliver
  <2>2. /\ n \in 0..len /\ len - n + 1 >= LowestPop /\ running /\ len < StackMax
        /\ \A i \in (len - n + 1)..len : ~Captured(i)
        /\ request.slot = Closed
    BY <1>1, <1>3, <1>7 DEF RequestOK, Requests, Disciplined
  <2>3. /\ rest \in Seq(SUBSET Obj) /\ Len(rest) = len - n
        /\ \A i \in 1..len - n : rest[i] = stack[i]
    BY <1>1, <2>2, PopManyFacts
  <2>. HIDE DEF rest, n
  <2>4. /\ stack' \in Seq(SUBSET Obj) /\ Len(stack') = len - n + 1
        /\ stack'[len - n + 1] = {o}
        /\ \A i \in 1..len - n : stack'[i] = rest[i]
    BY <1>1, <2>1, <2>3, AppendFacts
  <2>5. \A uv \in open_upvalues : loc[uv] \in 1..len - n
    BY <1>1, <1>2, <2>2 DEF Captured
  <2>6. \A i \in 2..Len(frames) : frames[i].slots <= len - n + 1
    <3>. SUFFICES ASSUME NEW i \in 2..Len(frames) PROVE frames[i].slots <= len - n + 1
      OBVIOUS
    <3>1. frames[i].slots <= Top(frames).slots
      BY FrameFacts, BoundAssumption DEF Inv, HeapInv, FramesOK, Top
    <3>2. LowestPop = Top(frames).slots + 1 /\ Top(frames).slots \in Nat /\ frames[i].slots \in Nat
      BY FrameFacts, BoundAssumption DEF LowestPop, Top, Inv
    <3>. QED
      BY <1>1, <2>2, <3>1, <3>2, SMTT(30)
  <2>7. \A i \in 1..Len(stack') : stack'[i] \subseteq objects \cup {o}
    <3>. HIDE DEF len
    <3>1. \A i \in 1..len - n : i \in 1..len /\ stack'[i] \subseteq objects
      <4>1. \A i \in 1..len - n : i \in 1..len
        BY <1>1, <2>2
      <4>. QED
        BY <1>4, <2>3, <2>4, <4>1
    <3>2. \A i \in 1..Len(stack') : i \in 1..len - n \/ i = len - n + 1
      BY <1>1, <2>2, <2>4
    <3>. QED
      BY <2>4, <3>1, <3>2
  <2>8. Len(stack') <= StackMax /\ \A uv \in open_upvalues : loc[uv] \in 1..Len(stack')
    BY <1>1, <2>2, <2>4, <2>5 DEF n
  <2>9. \A i \in 2..Len(frames) : frames[i].slots <= Len(stack')
    BY <2>4, <2>6
  <2>10. \A i \in 1..Len(compiler_roots') : compiler_roots'[i] \subseteq objects \cup {o}
    BY <1>4, <2>1
  <2>11. /\ compiler_roots' \in Seq(SUBSET Obj) /\ Len(compiler_roots') <= CompilerRootsMax
         /\ compiler_roots' # <<>> => compiler_roots # <<>>
    BY <1>1, <2>1
  <2>12. \A uv \in open_upvalues : loc[uv] \in 1..Len(stack)
    BY <1>2
  <2>. HIDE DEF len, depth
  <2>. QED
    BY <1>4, <1>7, <2>12, <2>1, <2>2, <2>4, <2>7, <2>8, <2>9, <2>10, <2>11
<1>8. CASE request.dest = "upvalue"
  <2>1. /\ open_upvalues' = open_upvalues \cup {o}
        /\ compiler_roots' = compiler_roots /\ stack' = stack
    BY <1>4, <1>8 DEF Deliver
  <2>2. running /\ request.slot \in 1..len
    BY <1>3, <1>8 DEF RequestOK
  <2>. QED
    BY <1>1, <1>2, <1>4, <1>8, <2>1, <2>2
<1>9. CASE request.dest \in {"instance", "closure", "stack"}
  <2>1. PICK v \in SUBSET (objects \cup {o}) :
          /\ stack' = Append(stack, v) /\ v \subseteq Obj
          /\ compiler_roots' = compiler_roots /\ open_upvalues' = open_upvalues
    <3>1. CASE request.dest = "instance"
      BY <1>1, <1>4, <3>1 DEF Deliver
    <3>2. CASE request.dest \in {"closure", "stack"}
      BY <1>1, <3>2, <1>4 DEF Deliver
    <3>. QED
      BY <1>9, <3>1, <3>2
  <2>2. running /\ len < StackMax /\ request.slot = Closed
    BY <1>3, <1>9 DEF RequestOK
  <2>3. /\ stack' \in Seq(SUBSET Obj) /\ Len(stack') = len + 1 /\ stack'[len + 1] = v
        /\ \A i \in 1..len : stack'[i] = stack[i]
    BY <1>1, <2>1, AppendFacts
  <2>4. \A i \in 2..Len(frames) : frames[i].slots <= len + 1
    BY <1>1, <1>2, FrameFacts DEF Inv
  <2>. QED
    BY <1>1, <1>2, <1>4, <1>9, <2>1, <2>2, <2>3, <2>4
<1>. QED
  BY <1>3, <1>5, <1>6, <1>7, <1>8, <1>9 DEF Requests, Dests

LEMMA CreateStep ==
  ASSUME Inv, Disciplined, NEW o \in Obj, Create(o)
  PROVE  Inv'
<1>1. /\ phase = "calloc" /\ phase' = "interpreter" /\ request' = NoRequest
      /\ kind' = [kind EXCEPT ![o] = request.kind]
      /\ held' = [n \in Node |->
                    IF n = o THEN Contents
                    ELSE IF request.dest = "upvalue" /\ n \in request.value
                         THEN held[n] \cup {o}
                    ELSE held[n]]
      /\ loc' = [loc EXCEPT ![o] = request.slot] /\ text' = [text EXCEPT ![o] = request.text]
      /\ interned' = (IF request.kind = "STRING" THEN interned \cup {o} ELSE interned)
      /\ bytes' = bytes + Size[request.kind]
      /\ UNCHANGED <<next_gc, frames, globals, pins, running>>
      /\ UNCHANGED <<stage, frames_left, marked, gray, unswept>>
  BY DEF Create, trace
<1>2. /\ o \notin objects /\ objects \subseteq Obj /\ objects' = objects \cup {o}
      /\ request \in Requests /\ Contents \subseteq objects /\ request.value \subseteq objects
      /\ o \in Node /\ ScriptClosure \in Node /\ ScriptFn \in Node /\ Obj \subseteq Node
      /\ o # ScriptClosure /\ o # ScriptFn
      /\ ScriptClosure \notin request.value /\ ScriptFn \notin request.value
  BY CreateFacts, ObjAssumption DEF Node, Script
<1>3. /\ \A n \in Node : /\ kind'[n] = IF n = o THEN request.kind ELSE kind[n]
                         /\ loc'[n] = IF n = o THEN request.slot ELSE loc[n]
                         /\ text'[n] = IF n = o THEN request.text ELSE text[n]
                         /\ n # o => held'[n] = held[n] \/ held'[n] = held[n] \cup {o}
                         /\ n \in Script => held'[n] = held[n]
      /\ held'[o] = Contents
  BY <1>1, <1>2 DEF Inv, TypeOK, Script
<1>4. TypeOK'
  <2>1. /\ request.kind \in Kinds /\ request.slot \in 0..StackMax
        /\ request.text \in Texts \cup {NoText}
    BY <1>2 DEF Requests
  <2>2. /\ kind' \in [Node -> Kinds] /\ loc' \in [Node -> -1..StackMax]
        /\ text' \in [Node -> Texts \cup {NoText}]
    BY <1>1, <1>2, <2>1, BoundAssumption, SMTT(30) DEF Inv, TypeOK
  <2>3. held' \in [Node -> SUBSET Node]
    BY <1>1, <1>2 DEF Inv, TypeOK
  <2>4. bytes' \in Nat
    BY <1>1, <2>1, SizeAssumption DEF Inv, TypeOK
  <2>5. objects' \subseteq Obj /\ interned' \subseteq Obj /\ open_upvalues' \subseteq Obj
    <3>1. open_upvalues' \subseteq open_upvalues \cup {o}
      BY DeliverFacts
    <3>. QED
      BY <1>1, <1>2, <3>1 DEF Inv, TypeOK
  <2>6. unswept' \subseteq objects'
    BY <1>1, <1>2 DEF Inv, TypeOK
  <2>. QED
    BY <1>1, <2>2, <2>3, <2>4, <2>5, <2>6, DeliverFacts DEF Inv, TypeOK
<1>5. ScriptOK'
  <2>1. \A x \in Obj : held'[x] \subseteq Obj
    BY <1>2, <1>3 DEF Inv, HeapInv, ScriptOK
  <2>2. ~running => open_upvalues' = {} /\ stack' = <<>>
    BY <1>1, <1>2, DeliverFacts DEF Inv, HeapInv, ScriptOK, RequestOK
  <2>. QED
    BY <1>1, <1>2, <1>3, <2>1, <2>2, DeliverFacts DEF Inv, HeapInv, ScriptOK, Script
<1>6. FramesOK'
  <2>1. \A i \in 2..Len(frames) : frames[i].closure \in objects
    <3>1. \A i \in 2..Len(frames) : frames[i].closure \in FrameRoots /\ frames[i].closure \in Obj
      BY FrameFacts DEF FrameRoots, Inv, HeapInv, FramesOK
    <3>. QED
      BY <3>1, CreateFacts, ObjAssumption
  <2>2. \A i \in 2..Len(frames) : kind'[frames[i].closure] = kind[frames[i].closure]
    BY <1>2, <1>3, <2>1
  <2>. QED
    BY <1>1, <2>2, DeliverFacts DEF Inv, HeapInv, FramesOK
<1>7. RequestOK /\ phase # "interpreter"
  BY <1>1 DEF Inv, HeapInv
<1>8. UpvaluesOK'
  <2>1. \A uv \in open_upvalues : uv # o /\ uv \in Node
    BY <1>2, CreateFacts
  <2>2. request.dest = "upvalue" => request.kind = "UPVALUE" /\ request.slot # Closed
    BY <1>7 DEF RequestOK, Closed
  <2>3. ASSUME NEW uv \in open_upvalues'
        PROVE  kind'[uv] = "UPVALUE" /\ loc'[uv] \in 1..Len(stack')
    BY <1>2, <1>3, <2>1, <2>2, DeliverFacts DEF Inv, HeapInv, UpvaluesOK
  <2>4. ASSUME NEW uv \in open_upvalues'
        PROVE  Len(frames) > 1 /\ loc'[uv] >= frames[2].slots
    <3>1. CASE uv \in open_upvalues
      BY <1>3, <2>1, <3>1 DEF Inv, HeapInv, UpvaluesOK
    <3>2. CASE uv \notin open_upvalues
      BY <1>2, <1>3, <1>7, <3>2, DeliverFacts DEF RequestOK
    <3>. QED
      BY <3>1, <3>2
  <2>5. ASSUME NEW n \in Node, kind'[n] = "UPVALUE", loc'[n] # Closed
        PROVE  n \in open_upvalues'
    BY <1>3, <1>7, <2>5, DeliverFacts DEF Inv, HeapInv, UpvaluesOK, RequestOK
  <2>. QED
    BY <1>1, <2>3, <2>4, <2>5 DEF UpvaluesOK
<1>9. StringsCanonical'
  <2>1. request.kind = "STRING" =>
          request.text \in Texts /\ \A s \in interned : text[s] # request.text
    BY <1>7 DEF RequestOK, InternFind
  <2>2. /\ interned = {s \in objects : kind[s] = "STRING"}
        /\ \A s, t \in interned : text[s] = text[t] => s = t
    BY DEF Inv, HeapInv, StringsCanonical
  <2>3. \A s \in objects : kind'[s] = kind[s] /\ text'[s] = text[s]
    BY <1>2, <1>3
  <2>4. kind'[o] = request.kind /\ text'[o] = request.text
    BY <1>2, <1>3
  <2>5. interned' = {s \in objects' : kind'[s] = "STRING"}
    BY <1>1, <1>2, <2>2, <2>3, <2>4
  <2>6. \A s, t \in interned' : text'[s] = text'[t] => s = t
    BY <1>1, <1>2, <2>1, <2>2, <2>3, <2>4
  <2>. QED
    BY <2>5, <2>6 DEF StringsCanonical
<1>10. Roots' \subseteq objects' \cup Script
  <2>1. StackRoots' \subseteq objects' /\ CompilerRoots' \subseteq objects'
    BY <1>2, DeliverFacts DEF StackRoots, CompilerRoots
  <2>2. FrameRoots' = FrameRoots /\ GlobalRoots' = GlobalRoots /\ PinRoots' = PinRoots
    BY <1>1 DEF FrameRoots, GlobalRoots, PinRoots
  <2>3. open_upvalues' \subseteq objects'
    BY <1>2, CreateFacts, DeliverFacts
  <2>. QED
    BY <1>2, <2>1, <2>2, <2>3, CreateFacts DEF Roots
<1>11. \A n \in objects' \cup Script : Points(n)' \subseteq objects' \cup Script
  <2>. SUFFICES ASSUME NEW n \in objects' \cup Script
                PROVE  Points(n)' \subseteq objects' \cup Script
    OBVIOUS
  <2>1. n \in Node
    BY <1>2 DEF Node
  <2>2. Points(n)' = Traced(n)'
        \/ (loc'[n] \in 1..Len(stack') /\ Points(n)' = stack'[loc'[n]])
    BY <1>4, <1>8, <2>1 DEF Points, Traced, UpvaluesOK
  <2>3. Traced(n)' \subseteq objects' \cup Script
    <3>1. CASE n = o
      BY <1>2, <1>3, <3>1 DEF Traced
    <3>2. CASE n # o
      <4>1. Traced(n)' = {} \/ Traced(n)' \subseteq Traced(n) \cup {o}
        BY <1>3, <2>1, <3>2 DEF Traced
      <4>2. Traced(n) \subseteq objects \cup Script
        BY <1>2, <2>1, <3>2, CreateFacts, TracedPoints
      <4>. QED
        BY <1>2, <4>1, <4>2
    <3>. QED
      BY <3>1, <3>2
  <2>. QED
    BY <1>2, <2>2, <2>3, DeliverFacts
<1>12. RequestOK' /\ GraphOK' /\ MarksOK'
  BY <1>1, <1>2, <1>10, <1>11 DEF RequestOK, GraphOK, MarksOK, Live, Inv, HeapInv
<1>. QED
  BY <1>4, <1>5, <1>6, <1>8, <1>9, <1>12 DEF Inv, HeapInv

-------------------------------------------------------------------------------
(* The theorems.                                                           *)

LEMMA InitInv ==
  ASSUME Init
  PROVE  Inv
<1>. USE DEF Init
<1>1. TypeOK
  <2>1. ScriptFn \in Node /\ ScriptClosure \in Node
    BY DEF Node, Script
  <2>2. /\ kind \in [Node -> Kinds] /\ held \in [Node -> SUBSET Node]
        /\ loc \in [Node -> -1..StackMax] /\ text \in [Node -> Texts \cup {NoText}]
    BY <2>1, BoundAssumption DEF Kinds, Closed
  <2>3. /\ stack \in Seq(SUBSET Obj) /\ frames \in Seq(FrameRecords)
        /\ compiler_roots \in Seq(SUBSET Obj) /\ pins \in Seq(Obj)
        /\ Len(stack) = 0 /\ Len(frames) = 0 /\ Len(compiler_roots) = 0 /\ Len(pins) = 0
    OBVIOUS
  <2>4. /\ bytes \in Nat /\ next_gc \in Nat /\ globals \in [Names -> SUBSET Obj]
        /\ stage \in 0..LastStage
    BY SizeAssumption DEF LastStage
  <2>7. running \in BOOLEAN /\ request \in Requests \cup {NoRequest}
    OBVIOUS
  <2>5. /\ Len(stack) <= StackMax /\ Len(frames) <= FramesMax
        /\ Len(compiler_roots) <= CompilerRootsMax /\ Len(pins) <= TempRootsMax
    BY <2>3, BoundAssumption
  <2>6. /\ objects \subseteq Obj /\ interned \subseteq Obj /\ open_upvalues \subseteq Obj
        /\ phase \in {"interpreter", "calloc", "mark", "sweep"}
        /\ frames_left \subseteq Node /\ marked \subseteq Node
        /\ gray \subseteq marked /\ unswept \subseteq objects
    OBVIOUS
  <2>. HIDE DEF Init
  <2>. QED
    BY <2>2, <2>3, <2>4, <2>5, <2>6, <2>7 DEF TypeOK
<1>2. ScriptOK /\ FramesOK /\ UpvaluesOK /\ RequestOK /\ StringsCanonical
  BY ObjAssumption
  DEF ScriptOK, FramesOK, UpvaluesOK, RequestOK, StringsCanonical, Node, Script, Closed
<1>3. GraphOK
  <2>1. Roots = {}
    BY DEF Roots, StackRoots, FrameRoots, GlobalRoots, CompilerRoots, PinRoots
  <2>2. \A n \in Script : Points(n) \subseteq Script
    BY ObjAssumption DEF Points, Traced, Node, Script, Closed
  <2>. QED
    BY <2>1, <2>2 DEF GraphOK, Live
<1>4. MarksOK
  BY DEF MarksOK
<1>. QED
  BY <1>1, <1>2, <1>3, <1>4 DEF Inv, HeapInv

LEMMA StutterInv ==
  ASSUME Inv, UNCHANGED vars
  PROVE  Inv'
<1>1. UNCHANGED <<objects, kind, held, loc, text, interned, bytes, next_gc>>
      /\ UNCHANGED <<stack, frames, open_upvalues, globals, compiler_roots, pins, running>>
      /\ UNCHANGED <<stage, frames_left, marked, gray, unswept, request, phase>>
  BY DEF vars, heap, content, roots, trace
<1>. USE <1>1
<1>2. TypeOK'
  BY DEF Inv, TypeOK
<1>3. /\ Roots' = Roots /\ Reachable' = Reachable /\ InReach' = InReach /\ LowestPop' = LowestPop
      /\ StackRoots' = StackRoots /\ FrameRoots' = FrameRoots
      /\ GlobalRoots' = GlobalRoots /\ CompilerRoots' = CompilerRoots
      /\ PinRoots' = PinRoots
      /\ \A n \in Node : Points(n)' = Points(n) /\ Traced(n)' = Traced(n)
      /\ \A i : Captured(i)' = Captured(i)
  BY SameGraph DEF roots
<1>4. ScriptOK' /\ FramesOK' /\ UpvaluesOK' /\ StringsCanonical'
  BY DEF Inv, HeapInv, ScriptOK, FramesOK, UpvaluesOK, StringsCanonical
<1>5. Live' = Live /\ \A t : InternFind(t)' = InternFind(t)
  BY DEF Live, InternFind
<1>6. RequestOK'
  BY <1>3, <1>5 DEF Inv, HeapInv, RequestOK
<1>7. GraphOK'
  <2>1. Live \cup Script \subseteq Node
    BY ReachableLive DEF Inv, HeapInv, TypeOK, Node
  <2>. QED
    BY <1>3, <1>5, <2>1 DEF Inv, HeapInv, GraphOK
<1>8. MarksOK'
  <2>1. ScriptDone' = ScriptDone
    BY DEF ScriptDone
  <2>2. Marking => Marking'
    BY <1>2, <1>3, <2>1 DEF Marking, Inv, TypeOK
  <2>. QED
    BY <1>3, <1>5, <2>2 DEF Inv, HeapInv, MarksOK
<1>. QED
  BY <1>2, <1>4, <1>6, <1>7, <1>8 DEF Inv, HeapInv

(* Every step of the interpreter, of an allocation and of the collector.   *)
LEMMA NextInv ==
  ASSUME Inv, Disciplined, [Next]_vars
  PROVE  Inv'
<1>1. CASE Interpreter
  BY <1>1, InterpreterStep
<1>2. CASE Allocate
  BY <1>2, CreateStep, OutOfMemoryStep DEF Allocate
<1>3. CASE Collect
  BY <1>3, MarkRootsStep, MarkFrameStep, TraceStep, StartSweepStep, KeepStep, FreeStep,
     FinishCollectStep DEF Collect
<1>4. CASE UNCHANGED vars
  BY <1>4, StutterInv
<1>. QED
  BY <1>1, <1>2, <1>3, <1>4 DEF Next

(* The inductive invariant, for disciplined programs: one that is not      *)
(* breaks its UpvaluesOK with its first pop of a captured slot.            *)
THEOREM Invariance ==
  ASSUME Disciplined
  PROVE  Spec => []Inv
<1>1. Init => Inv
  BY InitInv
<1>2. Inv /\ [Next]_vars => Inv'
  BY NextInv
<1>. QED
  BY <1>1, <1>2, PTL DEF Spec

(* Heap, root sets, allocation in progress and collector state keep their  *)
(* types: no step of the interpreter or of gc.c takes an element the root  *)
(* sets do not have, or overruns the stack, the frames or the pins.        *)
THEOREM TypeCorrect ==
  ASSUME Disciplined
  PROVE  Spec => []TypeOK
<1>1. Inv => TypeOK
  BY DEF Inv
<1>. QED
  BY <1>1, Invariance, PTL

(* Memory safety of disciplined programs: in every reachable state, in the *)
(* middle of a collection too, what the program can reach through the      *)
(* roots, captured variables included, is allocated.                       *)
THEOREM MemorySafety ==
  ASSUME Disciplined
  PROVE  Spec => []NoReachableFreed
<1>1. Inv => NoReachableFreed
  BY ReachableLive DEF Inv, HeapInv, NoReachableFreed
<1>. QED
  BY <1>1, Invariance, PTL

(* The intern table holds exactly the strings of the object list, and two  *)
(* of them never have the same text: value_equal may compare pointers.     *)
THEOREM CanonicalStrings ==
  ASSUME Disciplined
  PROVE  Spec => []StringsCanonical
<1>1. Inv => StringsCanonical
  BY DEF Inv, HeapInv
<1>. QED
  BY <1>1, Invariance, PTL

(* The end of a sweep is a FinishCollect step.                             *)
LEMMA EndOfSweep ==
  ASSUME Inv, [Next]_vars, phase = "sweep", phase' = "calloc"
  PROVE  FinishCollect
<1>1. ~Interpreter
  BY DEF Interpreter, UseObjects, Push, Pin, NewInstance, NewClosure, SetUpvalue, SetElement,
         BeginCompile, EnterFunction, CompileFunction, CompileError, BeginEval, EndEval, CompileString,
         NewString, SetGlobal, NewContainer, Capture, Call, Pop, Unpin, Return, StartAlloc, Idle
<1>2. ~Allocate
  BY DEF Allocate, Create, OutOfMemory
<1>3. phase' # phase
  OBVIOUS
<1>4. ~UNCHANGED vars
  BY <1>3 DEF vars
<1>5. Collect => FinishCollect
  BY DEF Collect, MarkRoots, MarkFrame, Trace, StartSweep, Keep, Free
<1>. QED
  BY <1>1, <1>2, <1>4, <1>5 DEF Next

(* Precision: a collection leaves the reachable objects and nothing else.  *)
THEOREM Precision ==
  ASSUME Disciplined
  PROVE  Spec => CollectionIsPrecise
<1>1. ASSUME Inv, [Next]_vars, phase = "sweep", phase' = "calloc"
      PROVE  objects' = InReach'
  <2>1. FinishCollect
    BY <1>1, EndOfSweep
  <2>2. unswept = {} /\ objects' = objects /\ InReach' = InReach
    BY <2>1, SameGraph DEF FinishCollect, content
  <2>3. Live = InReach
    BY <1>1 DEF Inv, HeapInv, MarksOK
  <2>. QED
    BY <1>1, <2>2, <2>3 DEF Live
<1>2. Inv /\ [Next]_vars => [phase = "sweep" /\ phase' = "calloc" => objects' = InReach']_vars
  BY <1>1
<1>. QED
  BY <1>2, Invariance, PTL DEF Spec, CollectionIsPrecise

-------------------------------------------------------------------------------
(* The growth of the heap and the refinement.                              *)

(* A step of the interpreter leaves the object list and the byte count to  *)
(* gc_alloc, which collects first when the threshold is behind.            *)
LEMMA InterpreterFacts ==
  ASSUME Inv, Interpreter
  PROVE  /\ phase = "interpreter" /\ UNCHANGED <<objects, kind, bytes, next_gc>>
         /\ \/ phase' = "interpreter"
            \/ /\ phase' \in {"mark", "calloc"}
               /\ phase' = "calloc" => bytes <= next_gc
<1>1. ASSUME NEW r, StartAlloc(r)
      PROVE  /\ phase = "interpreter" /\ UNCHANGED <<objects, kind, bytes, next_gc>>
             /\ phase' \in {"mark", "calloc"} /\ (phase' = "calloc" => bytes <= next_gc)
  BY <1>1 DEF StartAlloc, heap, content, Inv, TypeOK
<1>2. CASE UseObjects
  <2>1. ASSUME NEW v, Push(v)
        PROVE  phase = "interpreter" /\ UNCHANGED <<objects, kind, bytes, next_gc, phase>>
    BY <2>1 DEF Push, Idle, CollectorIdle
  <2>. QED
    BY <1>1, <1>2, <2>1
    DEF UseObjects, Pin, NewInstance, NewClosure, SetUpvalue, SetElement, Idle, CollectorIdle
<1>3. CASE \/ BeginCompile \/ EnterFunction \/ CompileFunction \/ CompileError
          \/ BeginEval \/ EndEval
  BY <1>1, <1>3 DEF BeginCompile, EnterFunction, CompileFunction, CompileError, BeginEval, EndEval, Idle,
                    CollectorIdle
<1>4. CASE \E t \in Texts : CompileString(t) \/ NewString(t)
  BY <1>1, <1>4 DEF CompileString, NewString, Push, Idle, CollectorIdle
<1>5. CASE \E x \in Names : SetGlobal(x)
  BY <1>5 DEF SetGlobal, Idle, CollectorIdle
<1>6. CASE \E k \in Containers, n \in 0..Len(stack) : NewContainer(k, n)
  BY <1>1, <1>6 DEF NewContainer
<1>7. CASE \E i \in 1..Len(stack) : Capture(i) \/ Call(i)
  BY <1>1, <1>7 DEF Capture, Call, Idle, CollectorIdle
<1>8. CASE Pop \/ Unpin \/ Return
  BY <1>8 DEF Pop, Unpin, Return, Idle, CollectorIdle
<1>. QED
  BY <1>2, <1>3, <1>4, <1>5, <1>6, <1>7, <1>8 DEF Interpreter

LEMMA MaxSizeFacts ==
  MaxSize \in Nat /\ \A k \in Kinds : Size[k] <= MaxSize
<1>1. \A k \in Kinds : Size[k] \in Nat
  BY SizeAssumption
<1>2. \E m \in Kinds : \A k \in {"STRING", "ARRAY", "MAP"} : Size[k] <= Size[m]
  BY <1>1 DEF Kinds
<1>3. \E m \in Kinds : \A k \in {"FUNCTION", "CLOSURE", "UPVALUE"} : Size[k] <= Size[m]
  BY <1>1 DEF Kinds
<1>4. \E m \in Kinds : \A k \in Kinds : Size[k] <= Size[m]
  <2>1. PICK m \in Kinds : \A k \in {"STRING", "ARRAY", "MAP"} : Size[k] <= Size[m]
    BY <1>2
  <2>2. PICK n \in Kinds : \A k \in {"FUNCTION", "CLOSURE", "UPVALUE"} : Size[k] <= Size[n]
    BY <1>3
  <2>3. \A k \in Kinds : k \in {"STRING", "ARRAY", "MAP"} \/ k \in {"FUNCTION", "CLOSURE", "UPVALUE"}
    BY DEF Kinds
  <2>4. CASE Size[m] <= Size[n]
    <3>1. \A k \in Kinds : Size[k] <= Size[n]
      BY <1>1, <2>1, <2>2, <2>3, <2>4
    <3>. QED
      BY <3>1
  <2>5. CASE Size[n] <= Size[m]
    <3>1. \A k \in Kinds : Size[k] <= Size[m]
      BY <1>1, <2>1, <2>2, <2>3, <2>5
    <3>. QED
      BY <3>1
  <2>. QED
    BY <1>1, <2>4, <2>5
<1>5. \E n \in {Size[k] : k \in Kinds} : \A k \in Kinds : Size[k] <= n
  BY <1>4
<1>6. MaxSize \in {Size[k] : k \in Kinds} /\ \A k \in Kinds : Size[k] <= MaxSize
  BY <1>5 DEF MaxSize
<1>. QED
  BY <1>1, <1>6

(* Bounded growth: between collections the heap outgrows the threshold by  *)
(* at most the object that crossed it.                                     *)
THEOREM Growth ==
  ASSUME Disciplined
  PROVE  Spec => []GrowthBounded
<1>. DEFINE P == ThresholdOK /\ GrowthBounded
<1>1. Init => P
  BY SizeAssumption, MaxSizeFacts DEF Init, ThresholdOK, GrowthBounded
<1>2. ASSUME Inv, P, [Next]_vars PROVE P'
  <2>1. CASE Interpreter
    BY <1>2, <2>1, InterpreterFacts DEF ThresholdOK, GrowthBounded
  <2>2. CASE Allocate
    <3>1. CASE \E o \in Obj : Create(o)
      <4>1. phase = "calloc" /\ phase' = "interpreter" /\ request.kind \in Kinds
            /\ bytes' = bytes + Size[request.kind] /\ next_gc' = next_gc
        BY <1>2, <3>1 DEF Create, Inv, HeapInv, RequestOK, Requests
      <4>2. Size[request.kind] \in Nat /\ bytes \in Nat /\ next_gc \in Nat
        BY <1>2, <4>1, SizeAssumption DEF Inv, TypeOK
      <4>. QED
        BY <1>2, <4>1, <4>2, MaxSizeFacts DEF ThresholdOK, GrowthBounded
    <3>2. CASE OutOfMemory
      BY <1>2, <3>2, MaxSizeFacts
      DEF OutOfMemory, heap, ThresholdOK, GrowthBounded, Inv, TypeOK
    <3>. QED
      BY <2>2, <3>1, <3>2 DEF Allocate
  <2>3. CASE Collect
    <3>1. CASE FinishCollect
      <4>1. phase' = "calloc" /\ bytes' = bytes /\ next_gc' = NextThreshold
        BY <3>1 DEF FinishCollect
      <4>2. bytes <= NextThreshold
        BY <1>2, SizeAssumption DEF NextThreshold, Inv, TypeOK
      <4>. QED
        BY <4>1, <4>2 DEF ThresholdOK, GrowthBounded
    <3>2. CASE ~FinishCollect
      <4>1. phase' \in {"mark", "sweep"}
        BY <2>3, <3>2 DEF Collect, MarkRoots, MarkFrame, Trace, StartSweep, Keep, Free
      <4>. QED
        BY <4>1 DEF ThresholdOK, GrowthBounded
    <3>. QED
      BY <3>1, <3>2
  <2>4. CASE UNCHANGED vars
    BY <1>2, <2>4 DEF vars, heap, ThresholdOK, GrowthBounded
  <2>. QED
    BY <1>2, <2>1, <2>2, <2>3, <2>4 DEF Next
<1>3. P => GrowthBounded
  OBVIOUS
<1>. HIDE DEF P
<1>. QED
  BY <1>1, <1>2, <1>3, Invariance, PTL DEF Spec

(* The refinement, step by step.                                           *)
LEMMA StepRefines ==
  ASSUME Inv, InReach \subseteq Live, InReach' \subseteq Live', [Next]_vars
  PROVE  [Abstract!Next]_(Abstract!vars)
<1>. USE DEF Abstract!Next, Abstract!vars, Abstract!Use, Abstract!Allocate, Abstract!Collect
<1>1. CASE Interpreter
  <2>1. Live' = objects /\ Live = objects
    BY <1>1, InterpreterFacts DEF Live
  <2>. QED
    BY <2>1
<1>2. CASE \E o \in Obj : Create(o)
  <2>1. PICK o \in Obj : Create(o)
    BY <1>2
  <2>2. Live = objects /\ Live' = objects \cup {o} /\ o \notin objects
    BY <2>1 DEF Create, Live
  <2>. QED
    BY <2>2
<1>3. CASE OutOfMemory \/ FinishCollect
  <2>1. Live' = Live /\ UNCHANGED <<kind, held, loc, roots>>
    BY <1>3 DEF OutOfMemory, FinishCollect, heap, content, Live
  <2>. QED
    BY <2>1, SameGraph
<1>4. CASE MarkRoots \/ (\E c \in FrameRoots : MarkFrame(c)) \/ Trace
  <2>1. Live' = Live /\ UNCHANGED <<kind, held, loc, roots>>
    BY <1>4 DEF MarkRoots, MarkFrame, Trace, heap, content, Live
  <2>. QED
    BY <2>1, SameGraph
<1>5. CASE StartSweep
  <2>1. phase' = "sweep" /\ UNCHANGED <<kind, held, loc, roots>>
    BY <1>5 DEF StartSweep, heap, content
  <2>2. Live' = InReach'
    BY <1>5, <2>1, StartSweepStep DEF Inv, HeapInv, MarksOK
  <2>. QED
    BY <2>1, <2>2, SameGraph
<1>6. CASE Keep
  <2>1. /\ phase = "sweep" /\ phase' = "sweep"
        /\ marked' = marked \ unswept /\ unswept' = unswept \ marked
        /\ UNCHANGED <<objects, kind, held, loc, roots>>
        /\ marked \cap Obj \subseteq unswept
        /\ unswept \subseteq objects /\ objects \subseteq Obj
    BY <1>6 DEF Keep, MarksAfterKeep, heap, content, Inv, TypeOK, HeapInv, MarksOK
  <2>2. Live' = Live
    BY <2>1 DEF Live
  <2>. QED
    BY <2>1, <2>2, SameGraph
<1>7. CASE \E o \in unswept : Free(o)
  <2>1. PICK o \in unswept : Free(o)
    BY <1>7
  <2>2. InReach' = InReach
    BY <2>1, FreeFacts DEF InReach
  <2>3. Live' = Live
    BY <2>1 DEF Free, Live
  <2>. QED
    BY <2>2, <2>3
<1>8. CASE UNCHANGED vars
  <2>1. Live' = Live /\ UNCHANGED <<kind, held, loc, roots>>
    BY <1>8 DEF vars, heap, content, trace, Live
  <2>. QED
    BY <2>1, SameGraph
<1>. QED
  BY <1>1, <1>2, <1>3, <1>4, <1>5, <1>6, <1>7, <1>8 DEF Next, Allocate, Collect

(* The heap as gc.c and its clients keep it implements the abstract heap:  *)
(* to the program a collection is one step, taken as the sweep begins, in  *)
(* which exactly the unreachable objects disappear.                        *)
THEOREM Refinement ==
  ASSUME Disciplined
  PROVE  Spec => ImplementsAbstractHeap
<1>1. Init => Abstract!Init
  <2>. SUFFICES ASSUME Init PROVE Live = {} /\ InReach = {}
    BY DEF Abstract!Init
  <2>1. Live = {}
    BY DEF Init, Live
  <2>2. InReach \subseteq Live
    BY InitInv, ReachableLive DEF Inv, HeapInv
  <2>. QED
    BY <2>1, <2>2
<1>2. Inv => InReach \subseteq Live
  BY ReachableLive DEF Inv, HeapInv
<1>3. Inv /\ InReach \subseteq Live /\ (InReach \subseteq Live)' /\ [Next]_vars
        => [Abstract!Next]_(Abstract!vars)
  BY StepRefines
<1>. QED
  BY <1>1, <1>2, <1>3, Invariance, PTL DEF Spec, ImplementsAbstractHeap, Abstract!Spec

-------------------------------------------------------------------------------
(* The byte count of the collector, and the progress of a collection.      *)

(* The units of one object, and what it does to a count of units to add    *)
(* them or to take them away.                                              *)
LEMMA BlockFacts ==
  ASSUME NEW o, NEW n \in Nat
  PROVE  IsFiniteSet({o} \X (1..n)) /\ Cardinality({o} \X (1..n)) = n
<1>. DEFINE I == 1..n
<1>1. IsFiniteSet({o}) /\ Cardinality({o}) = 1
  BY FS_Singleton
<1>2. IsFiniteSet(I) /\ Cardinality(I) = n
  BY FS_Interval
<1>. HIDE DEF I
<1>3. IsFiniteSet({o} \X I) /\ Cardinality({o} \X I) = Cardinality({o}) * Cardinality(I)
  BY <1>1, <1>2, FS_Product, Zenon
<1>4. Cardinality({o} \X I) = n
  BY <1>1, <1>2, <1>3
<1>. QED
  BY <1>3, <1>4 DEF I

LEMMA AddBlock ==
  ASSUME NEW S, IsFiniteSet(S), NEW B, IsFiniteSet(B), S \cap B = {}
  PROVE  IsFiniteSet(S \cup B) /\ Cardinality(S \cup B) = Cardinality(S) + Cardinality(B)
<1>1. IsFiniteSet(S \cup B)
      /\ Cardinality(S \cup B) = Cardinality(S) + Cardinality(B) - Cardinality(S \cap B)
  BY FS_Union, Zenon
<1>2. Cardinality(S \cap B) = 0
  BY FS_EmptySet
<1>3. Cardinality(S) \in Nat /\ Cardinality(B) \in Nat
  BY FS_CardinalityType
<1>. QED
  BY <1>1, <1>2, <1>3

LEMMA RemoveBlock ==
  ASSUME NEW S, IsFiniteSet(S), NEW B, B \subseteq S
  PROVE  /\ IsFiniteSet(S \ B) /\ Cardinality(S \ B) = Cardinality(S) - Cardinality(B)
         /\ Cardinality(B) <= Cardinality(S)
<1>1. S \cap B = B
  OBVIOUS
<1>2. Cardinality(B) <= Cardinality(S)
  BY FS_Subset
<1>3. IsFiniteSet(S \ B) /\ Cardinality(S \ B) = Cardinality(S) - Cardinality(S \cap B)
  BY FS_Difference, Zenon
<1>. QED
  BY <1>1, <1>2, <1>3

(* The units that a new object adds.                                       *)
LEMMA CreateUnits ==
  ASSUME TypeOK, RequestOK, NEW o \in Obj, Create(o)
  PROVE  /\ Units' = Units \cup ({o} \X (1..Size[request.kind]))
         /\ Units \cap ({o} \X (1..Size[request.kind])) = {}
         /\ Size[request.kind] \in Nat
<1>1. /\ objects' = objects \cup {o} /\ o \notin objects /\ kind'[o] = request.kind
      /\ \A n \in objects : kind'[n] = kind[n]
      /\ request.kind \in Kinds
  BY DEF Create, TypeOK, Node, RequestOK, Requests
<1>2. Units' = UNION {{n} \X (1..Size[kind'[n]]) : n \in objects \cup {o}}
  BY <1>1 DEF Units
<1>3. \A n \in objects : {n} \X (1..Size[kind'[n]]) = {n} \X (1..Size[kind[n]])
  BY <1>1
<1>4. Units' = Units \cup ({o} \X (1..Size[request.kind]))
  <2>1. UNION {{n} \X (1..Size[kind'[n]]) : n \in objects \cup {o}}
          = (UNION {{n} \X (1..Size[kind'[n]]) : n \in objects})
              \cup ({o} \X (1..Size[kind'[o]]))
    OBVIOUS
  <2>2. {{n} \X (1..Size[kind'[n]]) : n \in objects} = {{n} \X (1..Size[kind[n]]) : n \in objects}
    BY <1>3
  <2>. QED
    BY <1>1, <1>2, <2>1, <2>2 DEF Units
<1>5. \A u \in Units : u[1] \in objects
  BY DEF Units
<1>6. \A u \in {o} \X (1..Size[request.kind]) : u[1] = o
  OBVIOUS
<1>. QED
  BY <1>1, <1>4, <1>5, <1>6, SizeAssumption

(* The units that a freed object takes away.                               *)
LEMMA FreeUnits ==
  ASSUME TypeOK, NEW o \in unswept, Free(o)
  PROVE  /\ Units' = Units \ ({o} \X (1..Size[kind[o]]))
         /\ {o} \X (1..Size[kind[o]]) \subseteq Units
         /\ Size[kind[o]] \in Nat
<1>1. /\ objects' = objects \ {o} /\ o \in objects /\ kind[o] \in Kinds
      /\ \A n \in objects \ {o} : kind'[n] = kind[n]
  BY DEF Free, TypeOK, Node
<1>2. {{n} \X (1..Size[kind'[n]]) : n \in objects \ {o}}
        = {{n} \X (1..Size[kind[n]]) : n \in objects \ {o}}
  BY <1>1
<1>3. Units' = UNION {{n} \X (1..Size[kind[n]]) : n \in objects \ {o}}
  BY <1>1, <1>2 DEF Units
<1>4. \A n \in objects \ {o} : \A u \in {n} \X (1..Size[kind[n]]) : u[1] # o
  OBVIOUS
<1>5. \A u \in {o} \X (1..Size[kind[o]]) : u[1] = o
  OBVIOUS
<1>6. Units = (UNION {{n} \X (1..Size[kind[n]]) : n \in objects \ {o}})
                \cup ({o} \X (1..Size[kind[o]]))
  BY <1>1 DEF Units
<1>7. ({o} \X (1..Size[kind[o]]))
        \cap (UNION {{n} \X (1..Size[kind[n]]) : n \in objects \ {o}}) = {}
  BY <1>4, <1>5
<1>. QED
  BY <1>1, <1>3, <1>6, <1>7, SizeAssumption

(* A step that leaves the object list and the kinds alone.                 *)
LEMMA SameUnits ==
  ASSUME UNCHANGED <<objects, kind>>
  PROVE  Units' = Units
BY DEF Units

(* Exact accounting: gc.bytes_allocated is the sum of the sizes of the     *)
(* objects on the list, however allocations and sweeps follow each other,  *)
(* so gc_sweep never has to clamp it at 0.                                 *)
THEOREM Accounting ==
  ASSUME Disciplined
  PROVE  Spec => []BytesAccounted
<1>. DEFINE P == IsFiniteSet(Units) /\ BytesAccounted
<1>1. Init => P
  <2>1. Init => Units = {} /\ bytes = 0
    BY DEF Init, Units
  <2>. QED
    BY <2>1, FS_EmptySet DEF BytesAccounted
<1>2. ASSUME Inv, P, [Next]_vars PROVE P'
  <2>1. CASE \E o \in Obj : Create(o)
    <3>1. PICK o \in Obj : Create(o)
      BY <2>1
    <3>2. TypeOK /\ RequestOK
      BY <1>2 DEF Inv, HeapInv
    <3>3. bytes' = bytes + Size[request.kind]
      BY <3>1 DEF Create
    <3>. DEFINE n == Size[request.kind]
                B == {o} \X (1..n)
    <3>4. Units' = Units \cup B /\ Units \cap B = {} /\ n \in Nat
      BY <3>1, <3>2, CreateUnits
    <3>5. IsFiniteSet(B) /\ Cardinality(B) = n
      BY <3>4, BlockFacts
    <3>. HIDE DEF B
    <3>6. IsFiniteSet(Units') /\ Cardinality(Units') = Cardinality(Units) + n
      BY <1>2, <3>4, <3>5, AddBlock
    <3>. QED
      BY <1>2, <3>3, <3>6 DEF BytesAccounted
  <2>2. CASE \E o \in unswept : Free(o)
    <3>1. PICK o \in unswept : Free(o)
      BY <2>2
    <3>2. TypeOK
      BY <1>2 DEF Inv
    <3>3. bytes' = IF bytes >= Size[kind[o]] THEN bytes - Size[kind[o]] ELSE 0
      BY <3>1 DEF Free, BytesAfterFree
    <3>. DEFINE n == Size[kind[o]]
                B == {o} \X (1..n)
    <3>4. Units' = Units \ B /\ B \subseteq Units /\ n \in Nat
      BY <3>1, <3>2, FreeUnits
    <3>5. Cardinality(B) = n
      BY <3>4, BlockFacts
    <3>. HIDE DEF B
    <3>6. /\ IsFiniteSet(Units') /\ Cardinality(Units') = Cardinality(Units) - n
          /\ n <= Cardinality(Units)
      BY <1>2, <3>4, <3>5, RemoveBlock
    <3>. QED
      BY <1>2, <3>2, <3>3, <3>4, <3>6 DEF BytesAccounted, TypeOK
  <2>3. CASE UNCHANGED <<objects, kind, bytes>>
    BY <1>2, <2>3, SameUnits DEF BytesAccounted
  <2>4. Interpreter => UNCHANGED <<objects, kind, bytes>>
    BY <1>2, InterpreterFacts
  <2>5. OutOfMemory \/ UNCHANGED vars => UNCHANGED <<objects, kind, bytes>>
    BY DEF OutOfMemory, vars, heap, content
  <2>6. Collect => (\E o \in unswept : Free(o)) \/ UNCHANGED <<objects, kind, bytes>>
    BY DEF Collect, MarkRoots, MarkFrame, Trace, StartSweep, Keep, FinishCollect, heap, content
  <2>. QED
    BY <1>2, <2>1, <2>2, <2>3, <2>4, <2>5, <2>6 DEF Next, Allocate
<1>3. P => BytesAccounted
  OBVIOUS
<1>. HIDE DEF P
<1>. QED
  BY <1>1, <1>2, <1>3, Invariance, PTL DEF Spec

(* A collection advances: mark and sweep follow a well-founded order, in a *)
(* heap of any size, and the interpreter is suspended throughout.          *)
THEOREM Advance ==
  ASSUME Disciplined
  PROVE  Spec => CollectionAdvances
<1>. DEFINE A == /\ phase = "mark" =>
                      \/ phase' = "sweep"
                      \/ stage < stage' /\ stage' <= LastStage
                      \/ /\ stage' = stage /\ frames_left' \subseteq frames_left
                         /\ frames_left' # frames_left
                      \/ /\ UNCHANGED <<stage, frames_left>>
                         /\ marked \subseteq marked'
                         /\ marked' # marked \/ (gray # {} /\ gray' = {})
                 /\ phase = "sweep" =>
                      \/ phase' = "sweep" /\ unswept' \subseteq unswept /\ unswept' # unswept
                      \/ phase' = "calloc" /\ unswept = {}
<1>1. ASSUME Inv, Next PROVE A
  <2>1. CASE Interpreter \/ Allocate
    <3>1. phase \notin {"mark", "sweep"}
      BY <1>1, <2>1, InterpreterFacts DEF Allocate, Create, OutOfMemory
    <3>. QED
      BY <3>1
  <2>2. CASE MarkRoots
    BY <1>1, <2>2 DEF MarkRoots, Inv, TypeOK, LastStage
  <2>3. CASE \E c \in FrameRoots : MarkFrame(c)
    BY <2>3 DEF MarkFrame
  <2>4. CASE Trace
    BY <2>4 DEF Trace, Unmarked
  <2>5. CASE StartSweep
    BY <2>5 DEF StartSweep
  <2>6. CASE Keep
    BY <2>6 DEF Keep
  <2>7. CASE \E o \in unswept : Free(o)
    BY <2>7 DEF Free
  <2>8. CASE FinishCollect
    BY <2>8 DEF FinishCollect
  <2>. QED
    BY <1>1, <2>1, <2>2, <2>3, <2>4, <2>5, <2>6, <2>7, <2>8 DEF Next, Collect
<1>2. Inv /\ [Next]_vars => [A]_vars
  BY <1>1
<1>. QED
  BY <1>2, Invariance, PTL DEF Spec, CollectionAdvances
===============================================================================
