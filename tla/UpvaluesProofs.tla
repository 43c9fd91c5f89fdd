----------------------------- MODULE UpvaluesProofs ----------------------------
(***************************************************************************)
(* Proofs about Upvalues: with any number of variables, closures, upvalues *)
(* and frames, stack slots, upvalues and their closing implement variables *)
(* that closures share, in programs that leave no block with a captured    *)
(* local and do not fail while an upvalue is open.                         *)
(***************************************************************************)
EXTENDS Upvalues, WellFoundedInduction, SequenceTheorems, TLAPS

Disciplined == ~BlocksCapture /\ ~OpenErrors

(* Frames: the script's and those of closures above it, with their windows *)
(* of the stack in order and their blocks inside of them.                  *)
FramesOK ==
  /\ frames = <<>> => stack = <<>> /\ to_fill = 0
  /\ \A k \in 1..Len(frames) :
       /\ frames[k].closure = Script <=> k = 1
       /\ k > 1 => frames[k].slots <= Len(stack)
       /\ \A m \in k..Len(frames) : frames[k].slots <= frames[m].slots
       /\ \A b \in 1..Len(frames[k].blocks) : frames[k].slots <= frames[k].blocks[b]

(* A variable has one slot, in the window of a closure's frame.            *)
LocalsOK ==
  /\ \A i \in 1..Len(stack) : stack[i].var # Temp =>
       stack[i].var <= nvars /\ Len(frames) > 1 /\ frames[2].slots < i
  /\ \A i, j \in 1..Len(stack) : stack[i].var = stack[j].var /\ stack[i].var # Temp => i = j

(* A captured variable has one upvalue, which is open as long as it has a  *)
(* slot, and has its value after that.                                     *)
UpvaluesOK ==
  \A u \in Upvalue :
    /\ u > nupvalues => loc[u] = Closed
    /\ u <= nupvalues => /\ captured[u] \in 1..nvars
                         /\ \A w \in 1..nupvalues : captured[u] = captured[w] => u = w
    /\ loc[u] # Closed => loc[u] <= Len(stack) /\ stack[loc[u]].var = captured[u]
    /\ u <= nupvalues /\ loc[u] = Closed =>
         closed[u] \in Value /\ \A i \in 1..Len(stack) : stack[i].var # captured[u]

(* The open list: the open upvalues, from the highest slot to the lowest.  *)
OpenOK ==
  /\ \A i, j \in 1..Len(open) : i < j => loc[open[i]] > loc[open[j]]
  /\ \A i \in 1..Len(open) : loc[open[i]] # Closed
  /\ \A u \in Upvalue : loc[u] # Closed => \E i \in 1..Len(open) : open[i] = u

(* Closures have upvalues that were made; for those to come there is room. *)
ClosuresOK ==
  /\ to_fill > 0 => nclosures > 0
  /\ nupvalues + to_fill <= UpvalueMax
  /\ \A c \in Closure : \A j \in 1..Len(upvalues[c]) : upvalues[c][j] <= nupvalues

Inv == TypeOK /\ FramesOK /\ LocalsOK /\ UpvaluesOK /\ OpenOK /\ ClosuresOK

FrameRecord ==
  [closure : Closure \cup {Script}, slots : 1..StackMax, blocks : Seq(1..StackMax)]

-------------------------------------------------------------------------------
(* Facts about a state.                                                    *)

(* The bounds are numbers.                                                 *)
LEMMA Bounds ==
  /\ VarMax \in Nat /\ ClosureMax \in Nat /\ UpvalueMax \in Nat /\ CapturesMax \in Nat
  /\ StackMax \in Nat \ {0} /\ FramesMax \in Nat \ {0}
  /\ NoValue \notin Value
BY BoundAssumption, ValueAssumption

(* What the invariant says of the stack.                                   *)
LEMMA StackFacts ==
  ASSUME Inv
  PROVE  /\ stack \in Seq(Slot) /\ Len(stack) \in Nat /\ Len(stack) <= StackMax
         /\ \A i \in 1..Len(stack) : /\ stack[i] \in Slot
                                     /\ stack[i].val \in Value /\ stack[i].var \in 0..VarMax
         /\ nvars \in 0..VarMax
<1>1. stack \in Seq(Slot) /\ Len(stack) \in Nat /\ Len(stack) <= StackMax /\ nvars \in 0..VarMax
  BY DEF Inv, TypeOK
<1>2. \A e \in Slot : e.val \in Value /\ e.var \in 0..VarMax
  BY Bounds DEF Slot, Var, Temp
<1>. QED
  BY <1>1, <1>2

(* Of the frames.                                                          *)
LEMMA FrameFacts ==
  ASSUME Inv
  PROVE  /\ frames \in Seq(FrameRecord) /\ Len(frames) \in Nat /\ Len(frames) <= FramesMax
         /\ \A k \in 1..Len(frames) :
              /\ frames[k] \in FrameRecord /\ frames[k].slots \in 1..StackMax
              /\ frames[k].closure \in Closure \cup {Script} /\ frames[k].blocks \in Seq(1..StackMax)
         /\ frames # <<>> => Len(frames) \in 1..Len(frames) /\ Frame = frames[Len(frames)]
<1>1. frames \in Seq(FrameRecord) /\ Len(frames) \in Nat /\ Len(frames) <= FramesMax
  BY DEF Inv, TypeOK, FrameRecord
<1>2. \A f \in FrameRecord :
        f.slots \in 1..StackMax /\ f.closure \in Closure \cup {Script} /\ f.blocks \in Seq(1..StackMax)
  BY DEF FrameRecord
<1>3. frames # <<>> => Len(frames) \in 1..Len(frames) /\ Frame = frames[Len(frames)]
  BY <1>1 DEF Frame, Top
<1>. QED
  BY <1>1, <1>2, <1>3

(* Of the upvalues.                                                        *)
LEMMA UpvalueFacts ==
  ASSUME Inv
  PROVE  /\ nupvalues \in 0..UpvalueMax /\ nclosures \in 0..ClosureMax
         /\ open \in Seq(Upvalue) /\ Len(open) \in Nat
         /\ \A i \in 1..Len(open) : open[i] \in Upvalue /\ loc[open[i]] \in 0..StackMax
         /\ \A u \in Upvalue : /\ loc[u] \in 0..StackMax /\ closed[u] \in Value \cup {NoValue}
                               /\ captured[u] \in 0..VarMax
                               /\ u \in Nat /\ u > 0
         /\ \A c \in Closure : upvalues[c] \in Seq(Upvalue)
<1>1. /\ nupvalues \in 0..UpvalueMax /\ nclosures \in 0..ClosureMax
      /\ open \in Seq(Upvalue) /\ Len(open) \in Nat
      /\ \A u \in Upvalue : /\ loc[u] \in 0..StackMax /\ closed[u] \in Value \cup {NoValue}
      /\ \A c \in Closure : upvalues[c] \in Seq(Upvalue)
  BY DEF Inv, TypeOK
<1>2. \A u \in Upvalue : captured[u] \in Var \cup {Temp}
  BY DEF Inv, TypeOK
<1>3. \A v \in Var \cup {Temp} : v \in 0..VarMax
  BY Bounds DEF Var, Temp
<1>4. \A u \in Upvalue : u \in Nat /\ u > 0
  BY Bounds DEF Upvalue
<1>. QED
  BY <1>1, <1>2, <1>3, <1>4

(* Of a slot and the variable in it.                                       *)
LEMMA SlotFacts ==
  ASSUME NEW e \in Slot
  PROVE  /\ \A x \in Value : /\ [e EXCEPT !.val = x] \in Slot
                             /\ [e EXCEPT !.val = x].val = x /\ [e EXCEPT !.val = x].var = e.var
         /\ \A v \in Var : /\ [e EXCEPT !.var = v] \in Slot
                           /\ [e EXCEPT !.var = v].var = v /\ [e EXCEPT !.var = v].val = e.val
BY DEF Slot

(* Of the first frame.                                                     *)
LEMMA FirstFacts ==
  ASSUME NEW S, NEW s \in Seq(S), NEW n \in 0..Len(s)
  PROVE  /\ First(s, n) \in Seq(S) /\ Len(First(s, n)) = n
         /\ \A i \in 1..n : i \in 1..Len(s) /\ First(s, n)[i] = s[i]
<1>1. First(s, n) = [i \in 1..n |-> s[i]]
  BY DEF First
<1>. QED
  BY <1>1

(* What remains of a sequence after its first n elements.                  *)
LEMMA RestFacts ==
  ASSUME NEW S, NEW s \in Seq(S), NEW n \in 0..Len(s)
  PROVE  /\ SubSeq(s, n + 1, Len(s)) \in Seq(S)
         /\ Len(SubSeq(s, n + 1, Len(s))) = Len(s) - n
         /\ \A j \in 1..Len(s) - n : /\ n + j \in 1..Len(s)
                                      /\ SubSeq(s, n + 1, Len(s))[j] = s[n + j]
<1>1. Len(s) \in Nat /\ n \in Nat /\ n + 1 \in Int /\ Len(s) \in Int
  OBVIOUS
<1>2. \A i \in n + 1..Len(s) : s[i] \in S
  BY <1>1
<1>3. PICK m \in Nat, k \in Nat : m = n + 1 /\ k = Len(s)
  BY <1>1, SMTT(30)
<1>4. /\ SubSeq(s, m, k) \in Seq(S)
      /\ Len(SubSeq(s, m, k)) = IF m <= k THEN k - m + 1 ELSE 0
      /\ \A i \in 1..k - m + 1 : SubSeq(s, m, k)[i] = s[m + i - 1]
  BY <1>2, <1>3, SubSeqProperties
<1>5. k - m + 1 = Len(s) - n
  BY <1>1, <1>3
<1>6. \A j \in 1..Len(s) - n : n + j \in 1..Len(s) /\ m + j - 1 = n + j
  BY <1>1, <1>3
<1>7. Len(SubSeq(s, m, k)) = Len(s) - n
  BY <1>1, <1>3, <1>4
<1>8. \A j \in 1..Len(s) - n : SubSeq(s, m, k)[j] = s[n + j]
  BY <1>4, <1>5, <1>6
<1>. QED
  BY <1>3, <1>4, <1>6, <1>7, <1>8

(* Appending one element, then another.                                    *)
LEMMA AppendTwo ==
  ASSUME NEW S, NEW s \in Seq(S), NEW a \in S, NEW b \in S
  PROVE  /\ s \o <<a, b>> \in Seq(S) /\ Len(s \o <<a, b>>) = Len(s) + 2
         /\ \A i \in 1..Len(s) : (s \o <<a, b>>)[i] = s[i]
         /\ (s \o <<a, b>>)[Len(s) + 1] = a /\ (s \o <<a, b>>)[Len(s) + 2] = b
<1>1. PICK t \in Seq(S) : t = <<a, b>> /\ Len(t) = 2 /\ t[1] = a /\ t[2] = b
  <2>1. <<a, b>> \in Seq(S) /\ Len(<<a, b>>) = 2 /\ <<a, b>>[1] = a /\ <<a, b>>[2] = b
    OBVIOUS
  <2>. QED
    BY <2>1
<1>2. /\ s \o t \in Seq(S) /\ Len(s \o t) = Len(s) + Len(t)
      /\ \A i \in 1..Len(s) + Len(t) : (s \o t)[i] = IF i <= Len(s) THEN s[i] ELSE t[i - Len(s)]
  BY ConcatProperties
<1>3. Len(s) \in Nat
  OBVIOUS
<1>4. /\ \A i \in 1..Len(s) : (s \o t)[i] = s[i]
      /\ (s \o t)[Len(s) + 1] = t[1] /\ (s \o t)[Len(s) + 2] = t[2]
  BY <1>1, <1>2, <1>3
<1>. QED
  BY <1>1, <1>2, <1>3, <1>4

(* The window of the frame that is running is above the others.            *)
LEMMA WindowFacts ==
  ASSUME Inv, frames # <<>>
  PROVE  /\ Frame.slots \in 1..StackMax /\ Bottom \in Nat
         /\ Bottom = IF Len(frames) > 1 THEN Frame.slots + 1 ELSE Frame.slots
         /\ Frame.closure # Script <=> Len(frames) > 1
         /\ Len(frames) > 1 => Frame.slots <= Len(stack)
         /\ \A k \in 1..Len(frames) : frames[k].slots <= Frame.slots
<1>1. PICK n \in 1..Len(frames) : n = Len(frames) /\ Frame = frames[n] /\ n \in Nat
  BY FrameFacts
<1>2. Frame.slots \in 1..StackMax
  BY <1>1, FrameFacts
<1>3. /\ Frame.closure # Script <=> n > 1
      /\ n > 1 => Frame.slots <= Len(stack)
  BY <1>1 DEF Inv, FramesOK
<1>4. ASSUME NEW k \in 1..Len(frames) PROVE frames[k].slots <= Frame.slots
  BY <1>1 DEF Inv, FramesOK
<1>. QED
  BY <1>1, <1>2, <1>3, <1>4, Bounds DEF Bottom

(* An open upvalue points to a slot with the variable it was made for.     *)
LEMMA OpenFacts ==
  ASSUME Inv, NEW u \in Upvalue, loc[u] # Closed
  PROVE  /\ u <= nupvalues /\ captured[u] \in 1..nvars /\ captured[u] # Temp
         /\ loc[u] \in 1..Len(stack) /\ stack[loc[u]].var = captured[u]
<1>1. u \in Nat /\ nupvalues \in Nat /\ loc[u] \in Nat /\ nvars \in Nat /\ Len(stack) \in Nat
  BY Bounds, UpvalueFacts, StackFacts
<1>2. u <= nupvalues /\ captured[u] \in 1..nvars /\ loc[u] <= Len(stack) /\ stack[loc[u]].var = captured[u]
  BY <1>1 DEF Inv, UpvaluesOK
<1>. QED
  BY <1>1, <1>2 DEF Closed, Temp

(* The upvalues of the running closure were made, and each has a value.    *)
LEMMA FrameUpvalueFacts ==
  ASSUME Inv, NEW u \in FrameUpvalues
  PROVE  /\ u \in Upvalue /\ u <= nupvalues /\ captured[u] \in 1..nvars
         /\ frames # <<>>
         /\ loc[u] # Closed =>
              /\ loc[u] \in 1..Len(stack) /\ stack[loc[u]].var = captured[u]
              /\ Located(u) = {stack[loc[u]].val}
         /\ loc[u] = Closed => closed[u] \in Value /\ Located(u) = {closed[u]}
         /\ \A x \in Located(u) : x \in Value
<1>1. frames # <<>> /\ Frame.closure \in Closure
  BY FrameFacts DEF FrameUpvalues
<1>2. PICK j \in 1..Len(upvalues[Frame.closure]) : u = upvalues[Frame.closure][j]
  BY <1>1 DEF FrameUpvalues
<1>3. u \in Upvalue /\ u <= nupvalues
  BY <1>1, <1>2, UpvalueFacts, SMTT(30) DEF Inv, ClosuresOK
<1>4. /\ captured[u] \in 1..nvars
      /\ loc[u] # Closed => loc[u] \in 1..Len(stack) /\ stack[loc[u]].var = captured[u]
      /\ loc[u] = Closed => closed[u] \in Value
  BY <1>3, UpvalueFacts, StackFacts DEF Inv, UpvaluesOK, Closed
<1>5. CASE loc[u] = Closed
  <2>1. Located(u) = {closed[u]}
    BY <1>5 DEF Located, Closed
  <2>. QED
    BY <1>1, <1>3, <1>4, <1>5, <2>1
<1>6. CASE loc[u] # Closed
  <2>1. Located(u) = {stack[loc[u]].val}
    BY <1>4, <1>6 DEF Located
  <2>. QED
    BY <1>1, <1>3, <1>4, <1>6, <2>1, StackFacts
<1>. QED
  BY <1>5, <1>6

-------------------------------------------------------------------------------
(* The invariant is inductive.                                             *)

(* The invariant holds of an empty stack.                                  *)
LEMMA InitInv == Init => Inv
<1>. SUFFICES ASSUME Init PROVE Inv
  OBVIOUS
<1>1. TypeOK
  <2>1. stack \in Seq(Slot) /\ Len(stack) <= StackMax /\ open \in Seq(Upvalue)
    BY Bounds DEF Init
  <2>2. frames \in Seq(FrameRecord) /\ Len(frames) <= FramesMax
    BY Bounds DEF Init
  <2>3. /\ loc \in [Upvalue -> 0..StackMax] /\ closed \in [Upvalue -> Value \cup {NoValue}]
        /\ captured \in [Upvalue -> Var \cup {Temp}] /\ upvalues \in [Closure -> Seq(Upvalue)]
    BY Bounds DEF Init, Closed
  <2>4. /\ to_fill \in 0..CapturesMax /\ global \in Value
        /\ nvars \in 0..VarMax /\ nclosures \in 0..ClosureMax /\ nupvalues \in 0..UpvalueMax
    BY Bounds DEF Init, Value
  <2>. QED
    BY <2>1, <2>2, <2>3, <2>4 DEF TypeOK, FrameRecord
<1>2. FramesOK /\ LocalsOK /\ UpvaluesOK
  BY DEF Init, FramesOK, LocalsOK, UpvaluesOK, Upvalue, Closed
<1>3. OpenOK /\ ClosuresOK
  BY Bounds DEF Init, OpenOK, ClosuresOK
<1>. QED
  BY <1>1, <1>2, <1>3 DEF Inv

(* The variables on the stack stay where they are, or go.                  *)
LEMMA LocalsKept ==
  ASSUME Inv, nvars' = nvars, stack' \in Seq(Slot),
         \A i \in 1..Len(stack') : stack'[i].var # Temp =>
           /\ i \in 1..Len(stack) /\ stack'[i].var = stack[i].var
           /\ Len(frames') > 1 /\ frames'[2].slots = frames[2].slots
  PROVE  LocalsOK'
<1>1. ASSUME NEW i \in 1..Len(stack'), stack'[i].var # Temp
      PROVE  stack'[i].var <= nvars' /\ Len(frames') > 1 /\ frames'[2].slots < i
  BY <1>1 DEF Inv, LocalsOK
<1>2. ASSUME NEW i \in 1..Len(stack'), NEW j \in 1..Len(stack'),
             stack'[i].var = stack'[j].var, stack'[i].var # Temp
      PROVE  i = j
  BY <1>2 DEF Inv, LocalsOK
<1>. QED
  BY <1>1, <1>2 DEF LocalsOK

(* So do the open upvalues, and those that are closed keep a value.        *)
LEMMA UpvaluesKept ==
  ASSUME Inv, UNCHANGED <<loc, captured, nupvalues, nvars, open>>, stack' \in Seq(Slot),
         \A i \in 1..Len(stack') : stack'[i].var # Temp =>
           i \in 1..Len(stack) /\ stack'[i].var = stack[i].var,
         \A u \in Upvalue : loc[u] # Closed =>
           loc[u] <= Len(stack') /\ stack'[loc[u]].var = stack[loc[u]].var,
         \A u \in Upvalue : closed[u] \in Value => closed'[u] \in Value
  PROVE  UpvaluesOK' /\ OpenOK'
<1>1. /\ loc' = loc /\ captured' = captured /\ nupvalues' = nupvalues /\ nvars' = nvars /\ open' = open
      /\ nvars \in Nat
  BY StackFacts
<1>2. ASSUME NEW u \in Upvalue
      PROVE  /\ u > nupvalues => loc[u] = Closed
             /\ u <= nupvalues => /\ captured[u] \in 1..nvars
                                  /\ \A w \in 1..nupvalues : captured[u] = captured[w] => u = w
             /\ loc[u] # Closed => loc[u] <= Len(stack') /\ stack'[loc[u]].var = captured[u]
             /\ u <= nupvalues /\ loc[u] = Closed => closed'[u] \in Value
  BY DEF Inv, UpvaluesOK
<1>3. ASSUME NEW u \in Upvalue, u <= nupvalues, loc[u] = Closed, NEW i \in 1..Len(stack')
      PROVE  stack'[i].var # captured[u]
  <2>1. captured[u] # Temp
    BY <1>1, <1>2, <1>3 DEF Temp
  <2>. QED
    BY <1>3, <2>1 DEF Inv, UpvaluesOK
<1>4. UpvaluesOK'
  BY <1>1, <1>2, <1>3 DEF UpvaluesOK
<1>5. OpenOK'
  BY <1>1 DEF Inv, OpenOK
<1>. QED
  BY <1>4, <1>5

(* A value that is pushed is no variable's.                                *)
LEMMA PushFacts ==
  ASSUME Inv, HasRoom, NEW x \in Value, stack' = Push(x)
  PROVE  /\ stack' \in Seq(Slot) /\ Len(stack') = Len(stack) + 1 /\ Len(stack') <= StackMax
         /\ \A i \in 1..Len(stack) : i \in 1..Len(stack') /\ stack'[i] = stack[i]
         /\ \A i \in 1..Len(stack') :
              stack'[i].var # Temp => i \in 1..Len(stack) /\ stack'[i] = stack[i]
<1>1. [val |-> x, var |-> Temp] \in Slot
  BY DEF Slot
<1>2. /\ stack' \in Seq(Slot) /\ Len(stack') = Len(stack) + 1 /\ Len(stack') <= StackMax
      /\ stack'[Len(stack) + 1].var = Temp
      /\ \A i \in 1..Len(stack) : stack'[i] = stack[i]
  BY <1>1, StackFacts, Bounds DEF Push, HasRoom
<1>3. \A i \in 1..Len(stack') : i \in 1..Len(stack) \/ i = Len(stack) + 1
  BY <1>2, StackFacts
<1>4. \A i \in 1..Len(stack) : i \in 1..Len(stack')
  BY <1>2, StackFacts
<1>. QED
  BY <1>2, <1>3, <1>4

(* A push keeps the invariant, whatever the value.                         *)
LEMMA PushStep ==
  ASSUME Inv, HasRoom, NEW x \in Value, stack' = Push(x),
         UNCHANGED <<frames, open, loc, captured, closed, nupvalues, nvars>>
  PROVE  FramesOK' /\ LocalsOK' /\ UpvaluesOK' /\ OpenOK'
<1>1. /\ stack' \in Seq(Slot) /\ Len(stack') = Len(stack) + 1 /\ Len(stack') <= StackMax
      /\ \A i \in 1..Len(stack) : i \in 1..Len(stack') /\ stack'[i] = stack[i]
      /\ \A i \in 1..Len(stack') :
           stack'[i].var # Temp => i \in 1..Len(stack) /\ stack'[i] = stack[i]
  BY PushFacts
<1>2. FramesOK'
  BY <1>1, StackFacts, FrameFacts DEF Inv, FramesOK, HasRoom, Running
<1>3. LocalsOK'
  BY <1>1, LocalsKept DEF Inv, LocalsOK
<1>4. \A u \in Upvalue : loc[u] # Closed => loc[u] \in 1..Len(stack)
  BY UpvalueFacts DEF Inv, UpvaluesOK, Closed
<1>5. UpvaluesOK' /\ OpenOK'
  BY <1>1, <1>4, StackFacts, UpvaluesKept
<1>. QED
  BY <1>2, <1>3, <1>5

(* OP_CONSTANT and its like.                                               *)
LEMMA PushValueStep ==
  ASSUME Inv, NEW x \in Value, HasRoom, stack' = Push(x),
         UNCHANGED <<frames, open, heap, to_fill, global, nvars>>
  PROVE  Inv'
<1>1. /\ frames' = frames /\ open' = open /\ to_fill' = to_fill /\ global' = global /\ nvars' = nvars
      /\ loc' = loc /\ closed' = closed /\ captured' = captured /\ upvalues' = upvalues
      /\ nclosures' = nclosures /\ nupvalues' = nupvalues
  BY DEF heap
<1>2. /\ FramesOK' /\ LocalsOK' /\ UpvaluesOK' /\ OpenOK'
      /\ stack' \in Seq(Slot) /\ Len(stack') <= StackMax
  BY <1>1, PushFacts, PushStep
<1>3. TypeOK'
  BY <1>1, <1>2 DEF Inv, TypeOK
<1>4. ClosuresOK'
  BY <1>1 DEF Inv, ClosuresOK
<1>. QED
  BY <1>2, <1>3, <1>4 DEF Inv

(* OP_CLOSURE, before its captures.                                        *)
LEMMA NewClosureStep ==
  ASSUME Inv, NEW n \in 0..CapturesMax, NewClosure(n)
  PROVE  Inv'
<1>1. /\ frames' = frames /\ open' = open /\ to_fill' = n /\ global' = global /\ nvars' = nvars
      /\ loc' = loc /\ closed' = closed /\ captured' = captured /\ upvalues' = upvalues
      /\ nclosures' = nclosures + 1 /\ nupvalues' = nupvalues
      /\ HasRoom /\ nclosures < ClosureMax /\ nupvalues + n <= UpvalueMax
      /\ stack' = Push(nclosures')
  BY DEF NewClosure
<1>2. nclosures \in 0..ClosureMax /\ nclosures + 1 \in Value
  BY <1>1, Bounds, UpvalueFacts DEF Value, Closure
<1>3. /\ FramesOK' /\ LocalsOK' /\ UpvaluesOK' /\ OpenOK'
      /\ stack' \in Seq(Slot) /\ Len(stack') <= StackMax
  BY <1>1, <1>2, PushFacts, PushStep
<1>4. TypeOK'
  BY <1>1, <1>2, <1>3, Bounds DEF Inv, TypeOK
<1>5. ClosuresOK'
  BY <1>1, <1>2, Bounds DEF Inv, ClosuresOK
<1>. QED
  BY <1>3, <1>4, <1>5 DEF Inv

(* OP_POP.                                                                 *)
LEMMA PopStep ==
  ASSUME Inv, Pop
  PROVE  Inv'
<1>1. /\ frames' = frames /\ open' = open /\ to_fill' = to_fill /\ global' = global /\ nvars' = nvars
      /\ loc' = loc /\ closed' = closed /\ captured' = captured /\ upvalues' = upvalues
      /\ nclosures' = nclosures /\ nupvalues' = nupvalues
      /\ frames # <<>> /\ Len(stack) >= Bottom /\ stack[Len(stack)].var = Temp
      /\ stack' = First(stack, Len(stack) - 1)
  BY DEF Pop, heap, Top, Running
<1>2. /\ Len(stack) \in Nat /\ Len(stack) >= 1
      /\ stack' \in Seq(Slot) /\ Len(stack') = Len(stack) - 1
      /\ \A i \in 1..Len(stack') : i \in 1..Len(stack) /\ stack'[i] = stack[i]
  <2>1. Len(stack) \in Nat /\ Len(stack) >= 1 /\ Len(stack) - 1 \in 0..Len(stack)
    BY <1>1, StackFacts, WindowFacts
  <2>. QED
    BY <1>1, <2>1, StackFacts, FirstFacts
<1>3. FramesOK'
  <2>1. ASSUME NEW k \in 1..Len(frames), k > 1 PROVE frames[k].slots <= Len(stack')
    <3>1. Len(frames) > 1 /\ frames[k].slots \in Nat
      BY <2>1, FrameFacts
    <3>2. frames[k].slots <= Frame.slots /\ Frame.slots \in Nat /\ Frame.slots + 1 <= Len(stack)
      BY <1>1, <3>1, WindowFacts
    <3>. QED
      BY <1>2, <3>1, <3>2
  <2>. QED
    BY <1>1, <2>1 DEF Inv, FramesOK
<1>4. LocalsOK'
  BY <1>1, <1>2, LocalsKept DEF Inv, LocalsOK
<1>5. ASSUME NEW u \in Upvalue, loc[u] # Closed PROVE loc[u] \in 1..Len(stack')
  <2>1. loc[u] \in 1..Len(stack) /\ stack[loc[u]].var # Temp
    BY <1>5, OpenFacts
  <2>. QED
    BY <1>1, <1>2, <2>1
<1>6. UpvaluesOK' /\ OpenOK'
  BY <1>1, <1>2, <1>5, UpvaluesKept
<1>7. Len(stack') <= StackMax
  BY <1>2, StackFacts, Bounds
<1>8. TypeOK' /\ ClosuresOK'
  BY <1>1, <1>2, <1>7 DEF Inv, TypeOK, ClosuresOK
<1>. QED
  BY <1>3, <1>4, <1>6, <1>8 DEF Inv

(* Values change, on the stack and in closed upvalues, and nothing else.   *)
LEMMA ValuesStep ==
  ASSUME Inv, stack' \in Seq(Slot), Len(stack') = Len(stack),
         \A i \in 1..Len(stack) : stack'[i].var = stack[i].var,
         closed' \in [Upvalue -> Value \cup {NoValue}],
         \A u \in Upvalue : closed[u] \in Value => closed'[u] \in Value,
         global' \in Value,
         UNCHANGED <<frames, open, loc, captured, upvalues, nclosures, nupvalues, to_fill, nvars>>
  PROVE  Inv'
<1>1. /\ frames' = frames /\ open' = open /\ to_fill' = to_fill /\ nvars' = nvars
      /\ loc' = loc /\ captured' = captured /\ upvalues' = upvalues
      /\ nclosures' = nclosures /\ nupvalues' = nupvalues
  OBVIOUS
<1>2. FramesOK'
  <2>1. stack = <<>> => stack' = <<>>
    OBVIOUS
  <2>. QED
    BY <1>1, <2>1 DEF Inv, FramesOK
<1>3. LocalsOK'
  BY <1>1, LocalsKept DEF Inv, LocalsOK
<1>4. UpvaluesOK' /\ OpenOK'
  BY <1>1, OpenFacts, UpvaluesKept
<1>5. TypeOK' /\ ClosuresOK'
  BY <1>1 DEF Inv, TypeOK, ClosuresOK
<1>. QED
  BY <1>2, <1>3, <1>4, <1>5 DEF Inv

(* OP_SET_GLOBAL.                                                          *)
LEMMA SetGlobalStep ==
  ASSUME Inv, SetGlobal
  PROVE  Inv'
<1>1. stack \in Seq(Slot) /\ closed \in [Upvalue -> Value \cup {NoValue}]
  BY DEF Inv, TypeOK
<1>2. Top(stack).val \in Value
  BY StackFacts DEF SetGlobal, Top
<1>. QED
  BY <1>1, <1>2, ValuesStep DEF SetGlobal, heap

(* OP_SET_LOCAL.                                                           *)
LEMMA SetLocalStep ==
  ASSUME Inv, NEW i \in 1..Len(stack), SetLocal(i)
  PROVE  Inv'
<1>1. PICK x \in Value : x = Top(stack).val
  BY StackFacts DEF SetLocal, Top
<1>2. stack' = [stack EXCEPT ![i] = [stack[i] EXCEPT !.val = x]]
  BY <1>1 DEF SetLocal
<1>3. [stack[i] EXCEPT !.val = x] \in Slot /\ [stack[i] EXCEPT !.val = x].var = stack[i].var
  BY StackFacts, SlotFacts
<1>4. /\ stack' \in Seq(Slot) /\ Len(stack') = Len(stack)
      /\ \A j \in 1..Len(stack) : stack'[j].var = stack[j].var
  BY <1>2, <1>3, StackFacts
<1>5. closed \in [Upvalue -> Value \cup {NoValue}] /\ global \in Value
  BY DEF Inv, TypeOK
<1>. QED
  BY <1>4, <1>5, ValuesStep DEF SetLocal, heap

(* OP_SET_UPVALUE.                                                         *)
LEMMA SetUpvalueStep ==
  ASSUME Inv, NEW u \in FrameUpvalues, SetUpvalue(u)
  PROVE  Inv'
<1>1. PICK x \in Value : x = Top(stack).val
  BY StackFacts DEF SetUpvalue, Top
<1>2. closed \in [Upvalue -> Value \cup {NoValue}] /\ global \in Value
  BY DEF Inv, TypeOK
<1>3. CASE loc[u] = Closed
  <2>1. closed' = [closed EXCEPT ![u] = x] /\ stack' = stack
    BY <1>1, <1>3 DEF SetUpvalue
  <2>2. /\ closed' \in [Upvalue -> Value \cup {NoValue}]
        /\ \A w \in Upvalue : closed[w] \in Value => closed'[w] \in Value
    BY <1>2, <2>1
  <2>. QED
    BY <1>2, <2>1, <2>2, StackFacts, ValuesStep DEF SetUpvalue
<1>4. CASE loc[u] # Closed
  <2>1. /\ stack' = [i \in 1..Len(stack) |->
                      IF i = loc[u] THEN [stack[i] EXCEPT !.val = x] ELSE stack[i]]
        /\ closed' = closed
    BY <1>1, <1>4 DEF SetUpvalue
  <2>2. \A i \in 1..Len(stack) : stack'[i] \in Slot /\ stack'[i].var = stack[i].var
    BY <2>1, StackFacts, SlotFacts
  <2>3. stack' \in Seq(Slot) /\ Len(stack') = Len(stack)
    BY <2>1, <2>2, StackFacts
  <2>. QED
    BY <1>2, <2>1, <2>2, <2>3, ValuesStep DEF SetUpvalue
<1>. QED
  BY <1>3, <1>4

(* The value on top of the stack becomes a variable, a new one.            *)
LEMMA DeclareFacts ==
  ASSUME Inv, Declare
  PROVE  /\ Len(frames) > 1 /\ Len(stack) \in 1..StackMax /\ Frame.slots < Len(stack)
         /\ nvars' = nvars + 1 /\ nvars' \in Var
         /\ stack' \in Seq(Slot) /\ Len(stack') = Len(stack) + 1 /\ Len(stack') <= StackMax
         /\ stack[Len(stack)].var = Temp
         /\ stack'[Len(stack)] = [val |-> stack[Len(stack)].val, var |-> nvars']
         /\ stack'[Len(stack) + 1].var = Temp
         /\ \A i \in 1..Len(stack) - 1 : stack'[i] = stack[i]
         /\ UNCHANGED <<frames, open, loc, closed, captured, upvalues, nclosures, nupvalues,
                        to_fill, global>>
<1>. DEFINE n == Len(stack)
            x == Top(stack).val
<1>1. /\ frames # <<>> /\ Frame.closure # Script /\ n > Frame.slots /\ n < StackMax
      /\ Locals = Frame.slots + 1 .. n - 1 /\ nvars < VarMax /\ nvars' = nvars + 1
      /\ stack' = First(stack, n - 1) \o <<[val |-> x, var |-> nvars'], [val |-> x, var |-> Temp]>>
  BY DEF Declare, HasRoom, Running
<1>2. /\ Frame.slots \in Nat /\ n \in 1..StackMax /\ n \in Nat /\ nvars' \in Var /\ Len(frames) > 1
      /\ StackMax \in Nat
  <2>1. Frame.slots \in 1..StackMax /\ Len(frames) > 1
    BY <1>1, WindowFacts
  <2>2. n \in Nat /\ n <= StackMax /\ n > Frame.slots
    BY <1>1, StackFacts
  <2>3. nvars \in 0..VarMax /\ nvars < VarMax /\ nvars' = nvars + 1
    BY <1>1, StackFacts
  <2>4. nvars' \in 1..VarMax
    BY <2>3, Bounds
  <2>5. n \in 1..StackMax /\ Frame.slots \in Nat
    BY <2>1, <2>2, Bounds
  <2>. QED
    BY <2>1, <2>2, <2>4, <2>5, Bounds DEF Var
<1>3. x = stack[n].val /\ x \in Value
  BY <1>2, StackFacts DEF Top
<1>4. stack[n].var = Temp
  <2>1. n \in Frame.slots..n /\ n \notin Frame.slots + 1..n - 1
    BY <1>1, <1>2
  <2>2. n \notin Locals
    BY <1>1, <2>1
  <2>. QED
    BY <2>1, <2>2 DEF Locals
<1>5. PICK s \in Seq(Slot) :
        s = First(stack, n - 1) /\ Len(s) = n - 1 /\ \A i \in 1..n - 1 : s[i] = stack[i]
  <2>1. n - 1 \in 0..Len(stack)
    BY <1>2
  <2>. QED
    BY <2>1, StackFacts, FirstFacts
<1>6. PICK a \in Slot, b \in Slot : a = [val |-> x, var |-> nvars'] /\ b = [val |-> x, var |-> Temp]
  BY <1>2, <1>3 DEF Slot
<1>7. stack' = s \o <<a, b>>
  BY <1>1, <1>5, <1>6
<1>8. /\ stack' \in Seq(Slot) /\ Len(stack') = Len(s) + 2
      /\ \A i \in 1..Len(s) : stack'[i] = s[i]
      /\ stack'[Len(s) + 1] = a /\ stack'[Len(s) + 2] = b
  BY <1>7, AppendTwo
<1>9. /\ Len(stack') = n + 1 /\ \A i \in 1..n - 1 : stack'[i] = stack[i]
      /\ stack'[n] = a /\ stack'[n + 1] = b
  <2>1. Len(s) + 1 = n /\ Len(s) + 2 = n + 1
    BY <1>2, <1>5
  <2>. HIDE DEF n
  <2>. QED
    BY <1>5, <1>8, <2>1
<1>10. UNCHANGED <<frames, open, loc, closed, captured, upvalues, nclosures, nupvalues,
                   to_fill, global>>
  BY DEF Declare, heap
<1>11. /\ n \in 1..StackMax /\ Frame.slots < n /\ n + 1 <= StackMax
       /\ a = [val |-> stack[n].val, var |-> nvars'] /\ b.var = Temp
  <2>1. a = [val |-> stack[n].val, var |-> nvars'] /\ b.var = Temp
    BY <1>3, <1>6
  <2>. QED
    BY <1>1, <1>2, <2>1
<1>. HIDE DEF n
<1>12. stack' \in Seq(Slot) /\ Len(stack') = n + 1 /\ stack'[n] = a /\ stack'[n + 1] = b
  BY <1>8, <1>9
<1>13. n = Len(stack)
  BY DEF n
<1>. QED
  BY <1>1, <1>2, <1>4, <1>9, <1>10, <1>11, <1>12, <1>13

(* A local variable declared on top of the stack.                          *)
LEMMA DeclareStep ==
  ASSUME Inv, Declare
  PROVE  Inv'
<1>. DEFINE n == Len(stack)
<1>1. /\ Len(frames) > 1 /\ n \in 1..StackMax /\ Frame.slots < n
      /\ nvars' = nvars + 1 /\ nvars' \in Var
      /\ stack' \in Seq(Slot) /\ Len(stack') = n + 1 /\ Len(stack') <= StackMax
      /\ stack[n].var = Temp /\ stack'[n].var = nvars' /\ stack'[n + 1].var = Temp
      /\ \A i \in 1..n - 1 : stack'[i] = stack[i]
      /\ frames' = frames /\ open' = open /\ to_fill' = to_fill /\ global' = global
      /\ loc' = loc /\ closed' = closed /\ captured' = captured /\ upvalues' = upvalues
      /\ nclosures' = nclosures /\ nupvalues' = nupvalues
  BY DeclareFacts
<1>2. nvars \in Nat /\ n \in Nat /\ nvars' \in 0..VarMax
  BY <1>1, StackFacts, Bounds DEF Var
<1>3. \A i \in 1..n + 1 : stack'[i].var # Temp =>
        \/ i = n /\ stack'[i].var = nvars + 1
        \/ i \in 1..n - 1 /\ i \in 1..n /\ stack'[i] = stack[i]
  BY <1>1, <1>2
<1>4. \A i \in 1..n : stack[i].var # Temp => stack[i].var \in 0..nvars
  BY StackFacts DEF Inv, LocalsOK
<1>5. FramesOK'
  <2>1. stack' # <<>> /\ frames # <<>>
    BY <1>1, <1>2, FrameFacts
  <2>2. \A k \in 1..Len(frames) : k > 1 => frames[k].slots <= n + 1
    BY <1>2, FrameFacts, SMTT(30) DEF Inv, FramesOK
  <2>. QED
    BY <1>1, <2>1, <2>2 DEF Inv, FramesOK
<1>6. LocalsOK'
  <2>1. frames[2].slots < n
    <3>1. 2 \in 1..Len(frames) /\ frames # <<>>
      BY <1>1, FrameFacts
    <3>2. frames[2].slots \in Nat /\ frames[2].slots <= Frame.slots /\ Frame.slots \in Nat
      BY <3>1, FrameFacts, WindowFacts
    <3>. QED
      BY <1>1, <1>2, <3>2
  <2>2. ASSUME NEW i \in 1..n + 1, stack'[i].var # Temp
        PROVE  stack'[i].var <= nvars + 1 /\ frames[2].slots < i
    <3>1. CASE i = n
      BY <1>1, <1>2, <2>1, <3>1
    <3>2. CASE i \in 1..n /\ stack'[i] = stack[i]
      BY <1>2, <1>4, <2>2, <3>2 DEF Inv, LocalsOK
    <3>. QED
      BY <1>3, <2>2, <3>1, <3>2
  <2>3. ASSUME NEW i \in 1..n + 1, NEW j \in 1..n + 1,
               stack'[i].var = stack'[j].var, stack'[i].var # Temp
        PROVE  i = j
    <3>1. \/ i = n /\ stack'[i].var = nvars + 1
          \/ i \in 1..n /\ stack'[i] = stack[i]
      BY <1>3, <2>3
    <3>2. \/ j = n /\ stack'[j].var = nvars + 1
          \/ j \in 1..n /\ stack'[j] = stack[j]
      BY <1>3, <2>3
    <3>3. CASE i \in 1..n /\ stack'[i] = stack[i] /\ j \in 1..n /\ stack'[j] = stack[j]
      BY <2>3, <3>3 DEF Inv, LocalsOK
    <3>. QED
      BY <1>2, <1>4, <2>3, <3>1, <3>2, <3>3
  <2>. QED
    BY <1>1, <2>2, <2>3 DEF LocalsOK
<1>7. UpvaluesOK'
  <2>1. ASSUME NEW u \in Upvalue
        PROVE  /\ u > nupvalues => loc[u] = Closed
               /\ u <= nupvalues => /\ captured[u] \in 1..nvars
                                    /\ \A w \in 1..nupvalues : captured[u] = captured[w] => u = w
               /\ u <= nupvalues /\ loc[u] = Closed => closed[u] \in Value
    BY DEF Inv, UpvaluesOK
  <2>2. ASSUME NEW u \in Upvalue, loc[u] # Closed
        PROVE  loc[u] <= n + 1 /\ stack'[loc[u]].var = captured[u]
    <3>1. loc[u] \in 1..n /\ stack[loc[u]].var = captured[u] /\ captured[u] # Temp
      BY <2>2, OpenFacts
    <3>2. loc[u] \in 1..n - 1
      BY <1>1, <1>2, <3>1
    <3>. QED
      BY <1>1, <1>2, <3>1, <3>2
  <2>3. ASSUME NEW u \in Upvalue, u <= nupvalues, loc[u] = Closed, NEW i \in 1..n + 1
        PROVE  stack'[i].var # captured[u]
    <3>1. captured[u] \in 1..nvars /\ captured[u] # Temp /\ captured[u] # nvars + 1
      BY <1>2, <2>1, <2>3 DEF Temp
    <3>2. \A k \in 1..n : stack[k].var # captured[u]
      BY <2>3 DEF Inv, UpvaluesOK
    <3>. QED
      BY <1>3, <3>1, <3>2
  <2>4. \A u \in Upvalue : captured[u] \in 1..nvars => captured[u] \in 1..nvars + 1
    BY <1>2
  <2>. QED
    BY <1>1, <2>1, <2>2, <2>3, <2>4 DEF UpvaluesOK
<1>8. TypeOK' /\ OpenOK' /\ ClosuresOK'
  BY <1>1, <1>2 DEF Inv, TypeOK, OpenOK, ClosuresOK
<1>. QED
  BY <1>5, <1>6, <1>7, <1>8 DEF Inv

-------------------------------------------------------------------------------
(* The list of open upvalues.                                              *)

(* The upvalues above slot i are a prefix of the list.                     *)
LEMMA AboveFacts ==
  ASSUME Inv, NEW i \in Nat
  PROVE  /\ AboveCount(i) \in 0..Len(open)
         /\ \A j \in 1..AboveCount(i) : loc[open[j]] > i
         /\ \A j \in AboveCount(i) + 1..Len(open) : loc[open[j]] <= i
<1>. DEFINE M == {n \in 0..Len(open) : n < Len(open) => loc[open[n + 1]] <= i}
<1>1. Len(open) \in Nat /\ \A j \in 1..Len(open) : loc[open[j]] \in Nat
  BY UpvalueFacts
<1>2. Len(open) \in M
  BY <1>1
<1>3. PICK n \in M : \A k \in M : ~(k < n)
  <2>1. M \in SUBSET Nat
    BY <1>1
  <2>2. PICK m \in M : \A k \in M : <<k, m>> \notin OpToRel(<, Nat)
    <3>. HIDE DEF M
    <3>. QED
      BY <1>2, <2>1, NatLessThanWellFounded, WFMin
  <2>3. \A k \in M : ~(k < m)
    <3>. HIDE DEF M
    <3>. QED
      BY <2>1, <2>2 DEF OpToRel
  <2>. QED
    BY <2>3
<1>4. n \in 0..Len(open) /\ n \in Nat /\ (n < Len(open) => loc[open[n + 1]] <= i)
  BY <1>1, <1>3
<1>5. ASSUME NEW j \in 1..n PROVE loc[open[j]] > i
  <2>1. j - 1 \in 0..Len(open) /\ j - 1 < n /\ j - 1 < Len(open) /\ (j - 1) + 1 = j /\ j \in 1..Len(open)
    BY <1>1, <1>4
  <2>2. j - 1 \notin M
    BY <1>3, <2>1
  <2>. QED
    BY <1>1, <2>1, <2>2
<1>6. PICK m \in 0..Len(open) :
        /\ m = AboveCount(i)
        /\ \A j \in 1..m : loc[open[j]] > i
        /\ m < Len(open) => loc[open[m + 1]] <= i
  BY <1>4, <1>5 DEF AboveCount
<1>7. ASSUME NEW j \in m + 1..Len(open) PROVE loc[open[j]] <= i
  <2>1. m + 1 \in 1..Len(open) /\ j \in 1..Len(open) /\ m < Len(open) /\ (j = m + 1 \/ m + 1 < j)
    BY <1>1
  <2>2. m + 1 < j => loc[open[m + 1]] > loc[open[j]]
    BY <2>1 DEF Inv, OpenOK
  <2>3. loc[open[m + 1]] \in Nat /\ loc[open[j]] \in Nat
    BY <1>1, <2>1
  <2>. QED
    BY <1>6, <2>1, <2>2, <2>3
<1>. QED
  BY <1>6, <1>7

(* capture_upvalue finds the upvalue of a slot if there is one.            *)
LEMMA FoundFacts ==
  ASSUME Inv, NEW i \in Nat, i # Closed
  PROVE  /\ \A u \in Found(i) : u \in Upvalue /\ loc[u] = i
         /\ Found(i) = {} => \A u \in Upvalue : loc[u] # i
<1>1. \A u \in Found(i) : u \in Upvalue /\ loc[u] = i
  BY DEF Found
<1>2. ASSUME NEW u \in Upvalue, loc[u] = i PROVE u \in Found(i)
  <2>1. PICK k \in 1..Len(open) : open[k] = u
    BY <1>2 DEF Inv, OpenOK
  <2>2. PICK n \in 0..Len(open) :
          /\ n = AboveCount(i)
          /\ \A j \in 1..n : loc[open[j]] > i
          /\ \A j \in n + 1..Len(open) : loc[open[j]] <= i
    BY AboveFacts
  <2>3. Len(open) \in Nat
    BY UpvalueFacts
  <2>4. k \notin 1..n
    BY <1>2, <2>1, <2>2
  <2>5. n + 1 \in 1..Len(open) /\ n < Len(open) /\ n + 1 \in n + 1..Len(open) /\ (k = n + 1 \/ n + 1 < k)
    BY <2>3, <2>4
  <2>6. ~(n + 1 < k)
    <3>1. SUFFICES ASSUME n + 1 < k PROVE FALSE
      OBVIOUS
    <3>2. loc[open[n + 1]] > loc[open[k]]
      BY <2>5, <3>1 DEF Inv, OpenOK
    <3>3. loc[open[n + 1]] <= i
      BY <2>2, <2>5
    <3>4. loc[open[n + 1]] \in Nat /\ loc[open[k]] = i
      BY <1>2, <2>1, <2>5, UpvalueFacts
    <3>. QED
      BY <3>2, <3>3, <3>4
  <2>. QED
    BY <1>2, <2>1, <2>2, <2>5, <2>6 DEF Found
<1>. QED
  BY <1>1, <1>2

(* Insertion into the list.                                                *)
LEMMA InsertFacts ==
  ASSUME Inv, NEW u \in Upvalue, NEW n \in 0..Len(open)
  PROVE  /\ Insert(u, n) \in Seq(Upvalue) /\ Len(Insert(u, n)) = Len(open) + 1
         /\ \A j \in 1..n : Insert(u, n)[j] = open[j]
         /\ Insert(u, n)[n + 1] = u
         /\ \A j \in n + 2..Len(open) + 1 : Insert(u, n)[j] = open[j - 1]
<1>1. open \in Seq(Upvalue) /\ Len(open) \in Nat /\ n \in Nat
  BY UpvalueFacts
<1>2. PICK a \in Seq(Upvalue) :
        a = First(open, n) /\ Len(a) = n /\ \A j \in 1..n : a[j] = open[j]
  BY <1>1, FirstFacts
<1>3. PICK b \in Seq(Upvalue) : b = <<u>> /\ Len(b) = 1 /\ b[1] = u
  <2>1. <<u>> \in Seq(Upvalue) /\ Len(<<u>>) = 1 /\ <<u>>[1] = u
    OBVIOUS
  <2>. QED
    BY <2>1
<1>4. PICK c \in Seq(Upvalue) :
        /\ c = SubSeq(open, n + 1, Len(open)) /\ Len(c) = Len(open) - n
        /\ \A j \in 1..Len(open) - n : c[j] = open[n + j]
  <2>1. /\ SubSeq(open, n + 1, Len(open)) \in Seq(Upvalue)
        /\ Len(SubSeq(open, n + 1, Len(open))) = Len(open) - n
        /\ \A j \in 1..Len(open) - n : SubSeq(open, n + 1, Len(open))[j] = open[n + j]
    BY <1>1, RestFacts
  <2>. QED
    BY <2>1, Zenon
<1>5. PICK d \in Seq(Upvalue) :
        /\ d = a \o b /\ Len(d) = n + 1
        /\ \A j \in 1..n : d[j] = open[j]
        /\ d[n + 1] = u
  <2>1. /\ a \o b \in Seq(Upvalue) /\ Len(a \o b) = n + 1
        /\ \A j \in 1..n + 1 : (a \o b)[j] = IF j <= n THEN a[j] ELSE b[j - n]
    BY <1>1, <1>2, <1>3, ConcatProperties
  <2>2. \A j \in 1..n : (a \o b)[j] = a[j]
    BY <1>1, <2>1
  <2>3. (a \o b)[n + 1] = b[1]
    BY <1>1, <2>1
  <2>4. \A j \in 1..n : (a \o b)[j] = open[j]
    BY <1>2, <2>2
  <2>. QED
    BY <1>3, <2>1, <2>3, <2>4
<1>6. /\ d \o c \in Seq(Upvalue) /\ Len(d \o c) = Len(d) + Len(c)
      /\ \A j \in 1..Len(d) + Len(c) : (d \o c)[j] = IF j <= Len(d) THEN d[j] ELSE c[j - Len(d)]
  BY ConcatProperties
<1>7. Insert(u, n) = d \o c /\ Len(d) + Len(c) = Len(open) + 1
  <2>1. Insert(u, n) = d \o c
    BY <1>2, <1>3, <1>4, <1>5, Zenon DEF Insert
  <2>2. Len(d) = n + 1 /\ Len(c) = Len(open) - n
    BY <1>4, <1>5, Zenon
  <2>3. Len(d) + Len(c) = Len(open) + 1
    BY <1>1, <2>2
  <2>. QED
    BY <2>1, <2>3
<1>8. /\ \A j \in 1..n : (d \o c)[j] = open[j]
      /\ (d \o c)[n + 1] = u
  <2>1. \A j \in 1..n + 1 : j \in 1..Len(d) + Len(c) /\ j <= Len(d)
    BY <1>1, <1>5, <1>7
  <2>2. \A j \in 1..n + 1 : (d \o c)[j] = d[j]
    BY <1>6, <2>1
  <2>3. n + 1 \in 1..n + 1 /\ \A j \in 1..n : j \in 1..n + 1
    BY <1>1
  <2>. QED
    BY <1>5, <2>2, <2>3
<1>9. ASSUME NEW j \in n + 2..Len(open) + 1 PROVE (d \o c)[j] = open[j - 1]
  <2>1. j \in 1..Len(d) + Len(c) /\ ~(j <= Len(d)) /\ j - Len(d) \in 1..Len(open) - n
        /\ n + (j - Len(d)) = j - 1
    BY <1>1, <1>5, <1>7
  <2>. QED
    BY <1>4, <1>6, <2>1
<1>. QED
  BY <1>6, <1>7, <1>8, <1>9

(* close_upvalues takes exactly the upvalues at or above a slot.           *)
LEMMA CloseFacts ==
  ASSUME Inv, NEW last \in 1..StackMax
  PROVE  /\ \A u \in Upvalue : u \in ClosedBy(last) <=> loc[u] # Closed /\ loc[u] >= last
         /\ \A i \in 1..AboveCount(last - 1) : loc[open[i]] >= last
         /\ AboveCount(last - 1) \in 0..Len(open)
         /\ \A j \in AboveCount(last - 1) + 1..Len(open) : loc[open[j]] < last
<1>1. last - 1 \in Nat /\ last \in Nat /\ Len(open) \in Nat
  BY Bounds, UpvalueFacts
<1>2. PICK n \in 0..Len(open) :
        /\ n = AboveCount(last - 1)
        /\ \A j \in 1..n : loc[open[j]] > last - 1
        /\ \A j \in n + 1..Len(open) : loc[open[j]] <= last - 1
  BY <1>1, AboveFacts
<1>3. \A j \in 1..Len(open) : loc[open[j]] \in Nat
  BY UpvalueFacts
<1>4. \A j \in 1..n : j \in 1..Len(open) /\ loc[open[j]] >= last /\ loc[open[j]] # Closed
  BY <1>1, <1>2, <1>3 DEF Closed
<1>5. \A j \in n + 1..Len(open) : j \in 1..Len(open) /\ loc[open[j]] < last
  BY <1>1, <1>2, <1>3
<1>6. ASSUME NEW u \in Upvalue, u \in ClosedBy(last) PROVE loc[u] # Closed /\ loc[u] >= last
  BY <1>2, <1>4, <1>6 DEF ClosedBy
<1>7. ASSUME NEW u \in Upvalue, loc[u] # Closed, loc[u] >= last PROVE u \in ClosedBy(last)
  <2>1. PICK k \in 1..Len(open) : open[k] = u
    BY <1>7 DEF Inv, OpenOK
  <2>2. loc[u] \in Nat
    BY <1>3, <2>1
  <2>3. k \notin n + 1..Len(open)
    BY <1>1, <1>5, <1>7, <2>1, <2>2
  <2>4. k \in 1..n
    BY <1>1, <2>3
  <2>. QED
    BY <1>2, <2>1, <2>4 DEF ClosedBy
<1>. QED
  BY <1>2, <1>4, <1>5, <1>6, <1>7

-------------------------------------------------------------------------------
(* OP_CLOSURE fills in an upvalue of the closure it has pushed.            *)
LEMMA FillFacts ==
  ASSUME Inv, to_fill > 0, NEW u \in Upvalue, FillWith(u)
  PROVE  /\ frames # <<>> /\ FramesOK' /\ LocalsOK'
         /\ upvalues' \in [Closure -> Seq(Upvalue)]
         /\ to_fill' = to_fill - 1 /\ to_fill' \in 0..CapturesMax
         /\ nclosures' = nclosures /\ nclosures' \in 1..ClosureMax
         /\ stack' = stack /\ frames' = frames /\ global' = global /\ nvars' = nvars
         /\ \A c \in Closure : \A j \in 1..Len(upvalues'[c]) :
              upvalues'[c][j] = u \/ upvalues'[c][j] <= nupvalues
<1>1. /\ upvalues' = [upvalues EXCEPT ![nclosures] = Append(upvalues[nclosures], u)]
      /\ to_fill' = to_fill - 1 /\ stack' = stack /\ frames' = frames
      /\ global' = global /\ nvars' = nvars /\ nclosures' = nclosures
  BY DEF FillWith
<1>2. /\ to_fill \in Nat /\ to_fill <= CapturesMax /\ nclosures \in 1..ClosureMax /\ nclosures \in Closure
      /\ upvalues \in [Closure -> Seq(Upvalue)]
  <2>1. /\ to_fill \in 0..CapturesMax /\ nclosures \in 0..ClosureMax /\ nclosures > 0
        /\ upvalues \in [Closure -> Seq(Upvalue)]
    BY DEF Inv, TypeOK, ClosuresOK
  <2>. QED
    BY <2>1, Bounds DEF Closure
<1>3. frames # <<>>
  BY <1>2 DEF Inv, FramesOK
<1>4. FramesOK' /\ LocalsOK'
  BY <1>1, <1>3 DEF Inv, FramesOK, LocalsOK
<1>5. PICK t \in Seq(Upvalue) :
        /\ t = Append(upvalues[nclosures], u)
        /\ \A j \in 1..Len(t) : t[j] = u \/ (j \in 1..Len(upvalues[nclosures]) /\ t[j] = upvalues[nclosures][j])
  <2>1. PICK s \in Seq(Upvalue) : s = upvalues[nclosures]
    BY <1>2
  <2>2. /\ Append(s, u) \in Seq(Upvalue) /\ Len(s) \in Nat /\ Len(Append(s, u)) = Len(s) + 1
        /\ Append(s, u)[Len(s) + 1] = u
        /\ \A j \in 1..Len(s) : Append(s, u)[j] = s[j]
    OBVIOUS
  <2>3. \A j \in 1..Len(s) + 1 : j \in 1..Len(s) \/ j = Len(s) + 1
    BY <2>2
  <2>. QED
    BY <2>1, <2>2, <2>3
<1>6. upvalues' \in [Closure -> Seq(Upvalue)]
  BY <1>1, <1>2, <1>5
<1>7. ASSUME NEW c \in Closure, NEW j \in 1..Len(upvalues'[c])
      PROVE  upvalues'[c][j] = u \/ upvalues'[c][j] <= nupvalues
  <2>1. CASE c = nclosures
    BY <1>1, <1>2, <1>5, <2>1 DEF Inv, ClosuresOK
  <2>2. CASE c # nclosures
    BY <1>1, <1>2, <2>2 DEF Inv, ClosuresOK
  <2>. QED
    BY <2>1, <2>2
<1>8. to_fill' \in 0..CapturesMax
  BY <1>1, <1>2, Bounds
<1>. QED
  BY <1>1, <1>2, <1>3, <1>4, <1>6, <1>7, <1>8

(* A closure captures its maker's upvalue.                                 *)
LEMMA CaptureUpvalueStep ==
  ASSUME Inv, NEW u \in FrameUpvalues, CaptureUpvalue(u)
  PROVE  Inv'
<1>1. u \in Upvalue /\ u <= nupvalues
  BY FrameUpvalueFacts
<1>2. /\ to_fill > 0 /\ FillWith(u)
      /\ open' = open /\ loc' = loc /\ closed' = closed /\ captured' = captured
      /\ nupvalues' = nupvalues
  BY DEF CaptureUpvalue
<1>3. /\ FramesOK' /\ LocalsOK' /\ upvalues' \in [Closure -> Seq(Upvalue)]
      /\ to_fill' = to_fill - 1 /\ to_fill' \in 0..CapturesMax
      /\ nclosures' = nclosures /\ nclosures' \in 1..ClosureMax
      /\ stack' = stack /\ frames' = frames /\ global' = global /\ nvars' = nvars
      /\ \A c \in Closure : \A j \in 1..Len(upvalues'[c]) :
           upvalues'[c][j] = u \/ upvalues'[c][j] <= nupvalues
  BY <1>1, <1>2, FillFacts
<1>4. to_fill \in 0..CapturesMax /\ nupvalues \in Nat
  BY UpvalueFacts DEF Inv, TypeOK
<1>5. TypeOK' /\ UpvaluesOK' /\ OpenOK'
  BY <1>2, <1>3 DEF Inv, TypeOK, UpvaluesOK, OpenOK
<1>6. ClosuresOK'
  <2>1. nupvalues + (to_fill - 1) <= UpvalueMax
    BY <1>4, Bounds DEF Inv, ClosuresOK
  <2>2. \A c \in Closure : \A j \in 1..Len(upvalues'[c]) : upvalues'[c][j] <= nupvalues
    BY <1>1, <1>3
  <2>. QED
    BY <1>2, <1>3, <2>1, <2>2 DEF ClosuresOK
<1>. QED
  BY <1>3, <1>5, <1>6 DEF Inv

(* A variable with a slot that no upvalue points to is not captured yet.   *)
LEMMA Uncaptured ==
  ASSUME Inv, NEW i \in 1..Len(stack), stack[i].var # Temp, \A u \in Upvalue : loc[u] # i
  PROVE  \A u \in Upvalue : u <= nupvalues => captured[u] # stack[i].var
<1>1. SUFFICES ASSUME NEW u \in Upvalue, u <= nupvalues, captured[u] = stack[i].var PROVE FALSE
  OBVIOUS
<1>2. loc[u] # Closed
  BY <1>1 DEF Inv, UpvaluesOK
<1>3. loc[u] \in 1..Len(stack) /\ stack[loc[u]].var = captured[u]
  BY <1>2, OpenFacts
<1>4. loc[u] = i
  BY <1>1, <1>3 DEF Inv, LocalsOK
<1>. QED
  BY <1>4

(* A closure captures its maker's local variable.                          *)
LEMMA CaptureLocalStep ==
  ASSUME Inv, NEW i \in 1..Len(stack), CaptureLocal(i)
  PROVE  Inv'
<1>1. to_fill > 0 /\ stack[i].var # Temp /\ i \in Nat /\ i # Closed /\ i \in 1..StackMax
  BY StackFacts, Bounds DEF CaptureLocal, Locals, Closed
<1>2. to_fill \in 0..CapturesMax /\ nupvalues \in Nat /\ nvars \in Nat
      /\ nupvalues + to_fill <= UpvalueMax
  BY UpvalueFacts, StackFacts DEF Inv, TypeOK, ClosuresOK
<1>3. CASE Found(i) # {}
  <2>1. PICK u \in Found(i) :
          /\ FillWith(u)
          /\ open' = open /\ loc' = loc /\ closed' = closed /\ captured' = captured
          /\ nupvalues' = nupvalues
    BY <1>3 DEF CaptureLocal
  <2>2. u \in Upvalue /\ u <= nupvalues
    BY <1>1, <2>1, FoundFacts, OpenFacts
  <2>3. /\ FramesOK' /\ LocalsOK' /\ upvalues' \in [Closure -> Seq(Upvalue)]
        /\ to_fill' = to_fill - 1 /\ to_fill' \in 0..CapturesMax
        /\ nclosures' = nclosures /\ nclosures' \in 1..ClosureMax
        /\ stack' = stack /\ frames' = frames /\ global' = global /\ nvars' = nvars
        /\ \A c \in Closure : \A j \in 1..Len(upvalues'[c]) :
             upvalues'[c][j] = u \/ upvalues'[c][j] <= nupvalues
    BY <1>1, <2>1, <2>2, FillFacts
  <2>4. TypeOK'
    BY <2>1, <2>3 DEF Inv, TypeOK
  <2>4a. UpvaluesOK'
    BY <2>1, <2>3 DEF Inv, UpvaluesOK
  <2>4b. OpenOK'
    BY <2>1, <2>3 DEF Inv, OpenOK
  <2>5. nupvalues + (to_fill - 1) <= UpvalueMax
    BY <1>2, Bounds
  <2>6. ClosuresOK'
    BY <2>1, <2>2, <2>3, <2>5 DEF ClosuresOK
  <2>. QED
    BY <2>3, <2>4, <2>4a, <2>4b, <2>6 DEF Inv
<1>4. CASE Found(i) = {}
  <2>1. PICK k \in Upvalue : k = nupvalues + 1 /\ k \in Nat
    BY <1>1, <1>2, Bounds DEF Upvalue
  <2>2. PICK n \in 0..Len(open) :
          /\ n = AboveCount(i)
          /\ \A j \in 1..n : loc[open[j]] > i
          /\ \A j \in n + 1..Len(open) : loc[open[j]] <= i
    BY <1>1, AboveFacts
  <2>3. /\ nupvalues' = k /\ closed' = closed
        /\ loc' = [loc EXCEPT ![k] = i]
        /\ captured' = [captured EXCEPT ![k] = stack[i].var]
        /\ open' = Insert(k, n)
        /\ FillWith(k)
    BY <1>4, <2>1, <2>2 DEF CaptureLocal
  <2>4. /\ FramesOK' /\ LocalsOK' /\ upvalues' \in [Closure -> Seq(Upvalue)]
        /\ to_fill' = to_fill - 1 /\ to_fill' \in 0..CapturesMax
        /\ nclosures' = nclosures /\ nclosures' \in 1..ClosureMax
        /\ stack' = stack /\ frames' = frames /\ global' = global /\ nvars' = nvars
        /\ \A c \in Closure : \A j \in 1..Len(upvalues'[c]) :
             upvalues'[c][j] = k \/ upvalues'[c][j] <= nupvalues
    BY <1>1, <2>3, FillFacts
  <2>5. /\ open' \in Seq(Upvalue) /\ Len(open') = Len(open) + 1
        /\ \A j \in 1..n : open'[j] = open[j]
        /\ open'[n + 1] = k
        /\ \A j \in n + 2..Len(open) + 1 : open'[j] = open[j - 1]
    BY <2>3, InsertFacts
  <2>6. \A u \in Upvalue : loc[u] # i
    BY <1>1, <1>4, FoundFacts
  <2>7. loc[k] = Closed
    BY <1>2, <2>1 DEF Inv, UpvaluesOK
  <2>8. /\ loc' \in [Upvalue -> 0..StackMax] /\ captured' \in [Upvalue -> Var \cup {Temp}]
        /\ loc'[k] = i /\ captured'[k] = stack[i].var
        /\ \A u \in Upvalue : u # k => loc'[u] = loc[u] /\ captured'[u] = captured[u]
    <3>1. /\ loc \in [Upvalue -> 0..StackMax] /\ captured \in [Upvalue -> Var \cup {Temp}]
          /\ i \in 0..StackMax /\ stack[i].var \in Var \cup {Temp}
      BY <1>1, StackFacts, Bounds, SMTT(30) DEF Inv, TypeOK, Var, Temp
    <3>. QED
      BY <2>1, <2>3, <3>1
  <2>9. TypeOK'
    <3>1. nupvalues' \in 0..UpvalueMax
      BY <2>1, <2>3, Bounds DEF Upvalue
    <3>2. nclosures' \in 0..ClosureMax
      BY <2>4, Bounds
    <3>. QED
      BY <2>3, <2>4, <2>5, <2>8, <3>1, <3>2 DEF Inv, TypeOK
  <2>10. UpvaluesOK'
    <3>1. stack[i].var \in 1..nvars
      BY <1>1, StackFacts DEF Inv, LocalsOK, Temp
    <3>2. \A u \in Upvalue : u <= nupvalues => captured[u] # stack[i].var
      BY <1>1, <2>6, Uncaptured
    <3>3. ASSUME NEW u \in Upvalue
          PROVE  /\ u > k => loc'[u] = Closed
                 /\ u <= k => /\ captured'[u] \in 1..nvars
                              /\ \A w \in 1..k : captured'[u] = captured'[w] => u = w
                 /\ loc'[u] # Closed => loc'[u] <= Len(stack) /\ stack[loc'[u]].var = captured'[u]
                 /\ u <= k /\ loc'[u] = Closed =>
                      closed[u] \in Value /\ \A j \in 1..Len(stack) : stack[j].var # captured'[u]
      <4>0. u \in Nat /\ u > 0 /\ \A w \in 1..k : w \in Upvalue
        BY <2>1, UpvalueFacts, Bounds, SMTT(30) DEF Upvalue
      <4>1. CASE u = k
        <5>1. ASSUME NEW w \in 1..k, w # k PROVE captured'[w] # stack[i].var
          <6>1. w \in Upvalue /\ w <= nupvalues
            BY <1>2, <2>1, <4>0, <5>1
          <6>. QED
            BY <2>8, <3>2, <5>1, <6>1
        <5>. QED
          BY <1>1, <2>1, <2>8, <3>1, <4>1, <5>1, StackFacts
      <4>2. CASE u # k
        <5>1. loc'[u] = loc[u] /\ captured'[u] = captured[u]
          BY <2>8, <4>2
        <5>2. u <= k => u <= nupvalues
          BY <1>2, <2>1, <4>0, <4>2
        <5>3. u > k => u > nupvalues
          BY <1>2, <2>1, <4>0
        <5>4. ASSUME u <= k, NEW w \in 1..k, captured[u] = captured'[w] PROVE u = w
          <6>1. w # k
            BY <2>8, <3>2, <5>2, <5>4
          <6>2. w \in 1..nupvalues /\ w \in Upvalue
            BY <1>2, <2>1, <4>0, <5>4, <6>1
          <6>3. captured[u] = captured[w]
            BY <2>8, <5>4, <6>1, <6>2
          <6>. QED
            BY <5>2, <5>4, <6>2, <6>3 DEF Inv, UpvaluesOK
        <5>. QED
          BY <5>1, <5>2, <5>3, <5>4 DEF Inv, UpvaluesOK
      <4>. QED
        BY <4>1, <4>2
    <3>. QED
      BY <2>3, <2>4, <3>3 DEF UpvaluesOK
  <2>11. OpenOK'
    <3>1. Len(open) \in Nat /\ \A j \in 1..Len(open) : open[j] \in Upvalue /\ loc[open[j]] \in Nat
      BY UpvalueFacts
    <3>2. \A j \in 1..Len(open) : loc[open[j]] # Closed /\ loc'[open[j]] = loc[open[j]]
      BY <2>7, <2>8, <3>1 DEF Inv, OpenOK
    <3>3. \A j \in 1..Len(open) + 1 : \/ j \in 1..n
                                      \/ j = n + 1
                                      \/ j \in n + 2..Len(open) + 1 /\ j - 1 \in n + 1..Len(open)
      BY <3>1
    <3>4. \A j \in 1..n : j \in 1..Len(open) /\ open'[j] = open[j] /\ loc'[open'[j]] = loc[open[j]]
                          /\ loc'[open'[j]] > i
      BY <2>2, <2>5, <3>1, <3>2
    <3>5. \A j \in n + 2..Len(open) + 1 :
            j - 1 \in 1..Len(open) /\ open'[j] = open[j - 1] /\ loc'[open'[j]] = loc[open[j - 1]]
            /\ loc'[open'[j]] < i
      <4>1. ASSUME NEW j \in n + 2..Len(open) + 1
            PROVE  j - 1 \in 1..Len(open) /\ j - 1 \in n + 1..Len(open)
        BY <3>1
      <4>2. \A j \in n + 2..Len(open) + 1 : loc[open[j - 1]] <= i /\ loc[open[j - 1]] # i
        BY <2>2, <2>6, <3>1, <4>1
      <4>. QED
        BY <1>1, <2>5, <3>1, <3>2, <4>1, <4>2, SMTT(30)
    <3>6. loc'[open'[n + 1]] = i
      BY <2>5, <2>8
    <3>7. ASSUME NEW a \in 1..Len(open) + 1, NEW b \in 1..Len(open) + 1, a < b
          PROVE  loc'[open'[a]] > loc'[open'[b]]
      <4>1. CASE a \in 1..n /\ b \in 1..n
        BY <3>4, <3>7, <4>1 DEF Inv, OpenOK
      <4>2. CASE a \in 1..n /\ b = n + 1
        BY <3>4, <3>6, <4>2
      <4>3. CASE a \in 1..n /\ b \in n + 2..Len(open) + 1
        <5>1. loc'[open'[a]] > i /\ loc'[open'[a]] \in Nat /\ loc'[open'[b]] < i /\ loc'[open'[b]] \in Nat
          BY <3>1, <3>4, <3>5, <4>3
        <5>. QED
          BY <1>1, <5>1
      <4>4. CASE a = n + 1 /\ b \in n + 2..Len(open) + 1
        <5>1. loc'[open'[a]] = i /\ loc'[open'[b]] < i /\ loc'[open'[b]] \in Nat
          BY <3>1, <3>5, <3>6, <4>4
        <5>. QED
          BY <1>1, <5>1
      <4>5. CASE a \in n + 2..Len(open) + 1 /\ b \in n + 2..Len(open) + 1
        <5>1. a - 1 \in 1..Len(open) /\ b - 1 \in 1..Len(open) /\ a - 1 < b - 1
          BY <3>1, <3>5, <3>7, <4>5
        <5>2. loc[open[a - 1]] > loc[open[b - 1]]
          BY <5>1 DEF Inv, OpenOK
        <5>. QED
          BY <3>5, <4>5, <5>2
      <4>6. n \in Nat /\ Len(open) \in Nat
        BY <3>1
      <4>7. \/ a \in 1..n /\ b \in 1..n
            \/ a \in 1..n /\ b = n + 1
            \/ a \in 1..n /\ b \in n + 2..Len(open) + 1
            \/ a = n + 1 /\ b \in n + 2..Len(open) + 1
            \/ a \in n + 2..Len(open) + 1 /\ b \in n + 2..Len(open) + 1
        BY <3>7, <4>6
      <4>. QED
        BY <4>1, <4>2, <4>3, <4>4, <4>5, <4>7
    <3>8. ASSUME NEW j \in 1..Len(open) + 1 PROVE loc'[open'[j]] # Closed
      <4>1. CASE j \in 1..n
        BY <3>2, <3>4, <4>1
      <4>2. CASE j = n + 1
        BY <1>1, <3>6, <4>2
      <4>3. CASE j \in n + 2..Len(open) + 1
        BY <3>2, <3>5, <4>3
      <4>. QED
        BY <3>3, <4>1, <4>2, <4>3
    <3>9. ASSUME NEW u \in Upvalue, loc'[u] # Closed
          PROVE  \E j \in 1..Len(open) + 1 : open'[j] = u
      <4>1. CASE u = k
        <5>1. n + 1 \in 1..Len(open) + 1
          BY <3>1
        <5>. QED
          BY <2>5, <4>1, <5>1
      <4>2. CASE u # k
        <5>1. PICK j \in 1..Len(open) : open[j] = u
          BY <2>8, <3>9, <4>2 DEF Inv, OpenOK
        <5>2. \/ j \in 1..n /\ j \in 1..Len(open) + 1
              \/ j + 1 \in n + 2..Len(open) + 1 /\ j + 1 \in 1..Len(open) + 1 /\ (j + 1) - 1 = j
          BY <3>1
        <5>3. CASE j \in 1..n /\ j \in 1..Len(open) + 1
          BY <2>5, <5>1, <5>3
        <5>4. CASE j + 1 \in n + 2..Len(open) + 1 /\ j + 1 \in 1..Len(open) + 1 /\ (j + 1) - 1 = j
          BY <2>5, <5>1, <5>4
        <5>. QED
          BY <5>2, <5>3, <5>4
      <4>. QED
        BY <4>1, <4>2
    <3>. QED
      BY <2>5, <3>7, <3>8, <3>9 DEF OpenOK
  <2>12. ClosuresOK'
    <3>1. k + (to_fill - 1) <= UpvalueMax
      BY <1>2, <2>1, Bounds
    <3>2. \A c \in Closure : \A j \in 1..Len(upvalues'[c]) : upvalues'[c][j] <= k
      <4>1. \A c \in Closure : \A j \in 1..Len(upvalues'[c]) : upvalues'[c][j] \in Nat
        BY <2>4, Bounds, SMTT(30) DEF Upvalue
      <4>. QED
        BY <1>2, <2>1, <2>4, <4>1, SMTT(30)
    <3>. QED
      BY <2>3, <2>4, <3>1, <3>2 DEF ClosuresOK
  <2>. QED
    BY <2>4, <2>9, <2>10, <2>11, <2>12 DEF Inv
<1>. QED
  BY <1>3, <1>4

-------------------------------------------------------------------------------
(* Calls, blocks and scripts.                                              *)

(* The new frame's window is the callee and the arguments, which become    *)
(* new variables.                                                          *)
LEMMA CallFacts ==
  ASSUME Inv, NEW n \in 0..Len(stack) - 1, Call(n)
  PROVE  \E base \in 1..Len(stack) :
           /\ base = Len(stack) - n /\ frames # <<>> /\ to_fill = 0
           /\ Frame.slots <= base /\ Len(frames) < FramesMax
           /\ stack[base].val \in Closure
           /\ \A i \in base..Len(stack) : stack[i].var = Temp
           /\ nvars' = nvars + n /\ nvars' \in 0..VarMax
           /\ stack' \in Seq(Slot) /\ Len(stack') = Len(stack)
           /\ \A i \in 1..base : stack'[i] = stack[i]
           /\ \A i \in base + 1..Len(stack) :
                stack'[i].var = nvars + (i - base) /\ stack'[i].val = stack[i].val
           /\ frames' = Append(frames, [closure |-> stack[base].val, slots |-> base, blocks |-> <<>>])
           /\ UNCHANGED <<open, loc, closed, captured, upvalues, nclosures, nupvalues, to_fill, global>>
<1>1. PICK base \in Int : base = Len(stack) - n
  BY StackFacts
<1>2. /\ frames # <<>> /\ to_fill = 0 /\ Len(frames) < FramesMax
      /\ base >= Bottom
      /\ stack[base].val \in Closure
      /\ \A i \in base..Len(stack) : stack[i].var = Temp
      /\ nvars + n <= VarMax /\ nvars' = nvars + n
      /\ stack' = [i \in 1..Len(stack) |->
                    IF i > base THEN [stack[i] EXCEPT !.var = nvars + i - base] ELSE stack[i]]
      /\ frames' = Append(frames, [closure |-> stack[base].val, slots |-> base, blocks |-> <<>>])
      /\ UNCHANGED <<open, loc, closed, captured, upvalues, nclosures, nupvalues, to_fill, global>>
  BY <1>1 DEF Call, Running, heap
<1>3. Len(stack) \in Nat /\ n \in Nat /\ nvars \in Nat /\ VarMax \in Nat /\ base <= Len(stack)
  BY <1>1, StackFacts, Bounds
<1>4. Frame.slots \in 1..StackMax /\ Frame.slots <= Bottom /\ Bottom \in Nat
  BY <1>2, WindowFacts
<1>5. base \in 1..Len(stack) /\ Frame.slots <= base
  BY <1>1, <1>2, <1>3, <1>4, SMTT(30)
<1>6. ASSUME NEW i \in base + 1..Len(stack)
      PROVE  /\ i \in 1..Len(stack) /\ stack'[i] \in Slot
             /\ stack'[i].var = nvars + (i - base) /\ stack'[i].val = stack[i].val
  <2>1. i \in 1..Len(stack) /\ i > base /\ i - base \in 1..n
    BY <1>1, <1>3, <1>5
  <2>2. PICK v \in Var : v = nvars + (i - base)
    <3>1. PICK d \in 1..n : d = i - base
      BY <2>1
    <3>2. nvars + d \in 1..VarMax
      BY <1>2, <1>3, SMTT(30)
    <3>. QED
      BY <3>1, <3>2 DEF Var
  <2>3. stack'[i] = [stack[i] EXCEPT !.var = v] /\ stack[i] \in Slot
    BY <1>2, <2>1, <2>2, StackFacts
  <2>4. /\ [stack[i] EXCEPT !.var = v] \in Slot
        /\ [stack[i] EXCEPT !.var = v].var = v /\ [stack[i] EXCEPT !.var = v].val = stack[i].val
    BY <2>3, SlotFacts
  <2>. QED
    BY <2>1, <2>2, <2>3, <2>4
<1>7. ASSUME NEW i \in 1..base PROVE i \in 1..Len(stack) /\ stack'[i] = stack[i] /\ stack'[i] \in Slot
  <2>1. i \in 1..Len(stack) /\ ~(i > base)
    BY <1>3, <1>5
  <2>. QED
    BY <1>2, <2>1, StackFacts
<1>8. stack' \in Seq(Slot) /\ Len(stack') = Len(stack)
  <2>1. \A i \in 1..Len(stack) : stack'[i] \in Slot
    <3>1. \A i \in 1..Len(stack) : i \in 1..base \/ i \in base + 1..Len(stack)
      BY <1>3, <1>5
    <3>. QED
      BY <1>6, <1>7, <3>1
  <2>. QED
    BY <1>2, <1>3, <2>1
<1>9. nvars' \in 0..VarMax
  BY <1>2, <1>3
<1>. QED
  BY <1>1, <1>2, <1>5, <1>6, <1>7, <1>8, <1>9

(* OP_CALL.                                                                *)
LEMMA CallStep ==
  ASSUME Inv, NEW n \in 0..Len(stack) - 1, Call(n)
  PROVE  Inv'
<1>1. PICK base \in 1..Len(stack) :
        /\ base = Len(stack) - n /\ frames # <<>> /\ to_fill = 0
        /\ Frame.slots <= base /\ Len(frames) < FramesMax
        /\ stack[base].val \in Closure
        /\ \A i \in base..Len(stack) : stack[i].var = Temp
        /\ nvars' = nvars + n /\ nvars' \in 0..VarMax
        /\ stack' \in Seq(Slot) /\ Len(stack') = Len(stack)
        /\ \A i \in 1..base : stack'[i] = stack[i]
        /\ \A i \in base + 1..Len(stack) :
             stack'[i].var = nvars + (i - base) /\ stack'[i].val = stack[i].val
        /\ frames' = Append(frames, [closure |-> stack[base].val, slots |-> base, blocks |-> <<>>])
        /\ UNCHANGED <<open, loc, closed, captured, upvalues, nclosures, nupvalues, to_fill, global>>
  BY CallFacts
<1>2. Len(stack) \in Nat /\ Len(stack) <= StackMax /\ nvars \in Nat /\ n \in Nat /\ base \in Nat
      /\ StackMax \in Nat
  BY StackFacts, Bounds
<1>3. PICK c \in Closure : c = stack[base].val /\ c # Script
  BY <1>1, Bounds, SMTT(30) DEF Closure, Script
<1>4. PICK f \in FrameRecord :
        /\ f = [closure |-> c, slots |-> base, blocks |-> <<>>]
        /\ f.closure = c /\ f.slots = base /\ f.blocks = <<>>
  <2>1. base \in 1..StackMax /\ <<>> \in Seq(1..StackMax)
    BY <1>2
  <2>2. [closure |-> c, slots |-> base, blocks |-> <<>>] \in FrameRecord
    BY <2>1 DEF FrameRecord
  <2>3. PICK f \in FrameRecord : f = [closure |-> c, slots |-> base, blocks |-> <<>>]
    BY <2>2
  <2>4. f.closure = c /\ f.slots = base /\ f.blocks = <<>>
    BY <2>3
  <2>. QED
    BY <2>3, <2>4
<1>5. /\ Len(frames) \in Nat /\ Len(frames) >= 1
      /\ frames' \in Seq(FrameRecord) /\ Len(frames') = Len(frames) + 1
      /\ \A k \in 1..Len(frames) : frames'[k] = frames[k]
      /\ frames'[Len(frames) + 1] = f
  BY <1>1, <1>3, <1>4, FrameFacts
<1>6. \A k \in 1..Len(frames) : frames[k].slots <= base
  <2>1. \A k \in 1..Len(frames) : frames[k].slots \in 1..StackMax
    BY FrameFacts
  <2>2. \A k \in 1..Len(frames) : frames[k].slots <= Frame.slots
    BY <1>1, WindowFacts
  <2>3. Frame.slots \in 1..StackMax /\ Frame.slots <= base
    BY <1>1, WindowFacts
  <2>. QED
    BY <1>2, <2>1, <2>2, <2>3
<1>7. FramesOK'
  <2>1. frames' # <<>>
    BY <1>5
  <2>2. \A k \in 1..Len(frames) + 1 : k \in 1..Len(frames) \/ k = Len(frames) + 1
    BY <1>5
  <2>3. ASSUME NEW k \in 1..Len(frames) + 1
        PROVE  /\ frames'[k].closure = Script <=> k = 1
               /\ k > 1 => frames'[k].slots <= Len(stack)
               /\ \A b \in 1..Len(frames'[k].blocks) : frames'[k].slots <= frames'[k].blocks[b]
    <3>1. CASE k \in 1..Len(frames)
      BY <1>5, <3>1 DEF Inv, FramesOK
    <3>2. CASE k = Len(frames) + 1
      BY <1>2, <1>3, <1>4, <1>5, <3>2
    <3>. QED
      BY <2>2, <3>1, <3>2
  <2>4. ASSUME NEW k \in 1..Len(frames) + 1, NEW m \in k..Len(frames) + 1
        PROVE  frames'[k].slots <= frames'[m].slots
    <3>1. CASE m \in 1..Len(frames)
      <4>1. k \in 1..Len(frames) /\ m \in k..Len(frames)
        BY <1>5, <3>1
      <4>. QED
        BY <1>5, <3>1, <4>1 DEF Inv, FramesOK
    <3>2. CASE m = Len(frames) + 1
      BY <1>2, <1>4, <1>5, <1>6, <2>2, <3>2
    <3>3. m \in 1..Len(frames) \/ m = Len(frames) + 1
      BY <1>5
    <3>. QED
      BY <3>1, <3>2, <3>3
  <2>5. Len(stack') = Len(stack) /\ Len(frames') = Len(frames) + 1
    BY <1>1, <1>5
  <2>. QED
    BY <2>1, <2>3, <2>4, <2>5 DEF FramesOK
<1>8. \A i \in 1..Len(stack) :
        \/ i \in 1..base /\ stack'[i] = stack[i]
        \/ i \in base + 1..Len(stack) /\ stack'[i].var = nvars + (i - base)
  <2>1. \A i \in 1..Len(stack) : i \in 1..base \/ i \in base + 1..Len(stack)
    BY <1>2
  <2>. QED
    BY <1>1, <2>1
<1>9. \A i \in 1..Len(stack) : stack[i].var # Temp => stack[i].var \in 0..nvars
  BY StackFacts DEF Inv, LocalsOK
<1>10. LocalsOK'
  <2>1. frames'[2].slots <= base /\ (Len(frames) > 1 => frames'[2] = frames[2])
    <3>1. CASE Len(frames) = 1
      BY <1>2, <1>4, <1>5, <3>1
    <3>2. CASE Len(frames) > 1
      <4>1. 2 \in 1..Len(frames)
        BY <1>5, <3>2
      <4>. QED
        BY <1>5, <1>6, <3>2, <4>1
    <3>3. PICK d \in Nat : d = Len(frames) /\ d >= 1
      BY <1>5
    <3>4. d = 1 \/ d > 1
      BY <3>3
    <3>. QED
      BY <3>1, <3>2, <3>3, <3>4
  <2>2. ASSUME NEW i \in 1..Len(stack), stack'[i].var # Temp
        PROVE  stack'[i].var <= nvars + n /\ Len(frames') > 1 /\ frames'[2].slots < i
    <3>1. CASE i \in 1..base /\ stack'[i] = stack[i]
      <4>1. stack[i].var \in 0..nvars /\ Len(frames) > 1 /\ frames[2].slots < i
        BY <1>9, <2>2, <3>1 DEF Inv, LocalsOK
      <4>. QED
        BY <1>2, <1>5, <2>1, <3>1, <4>1, SMTT(30)
    <3>2. CASE i \in base + 1..Len(stack) /\ stack'[i].var = nvars + (i - base)
      <4>1. frames'[2].slots \in Nat
        <5>1. 2 \in 1..Len(frames')
          BY <1>5
        <5>2. frames'[2] \in FrameRecord
          BY <1>5, <5>1
        <5>. QED
          BY <5>2, Bounds DEF FrameRecord
      <4>2. PICK d \in 1..n : d = i - base
        <5>1. base = Len(stack) - n
          BY <1>1
        <5>2. i - base \in 1..n
          BY <1>2, <3>2, <5>1
        <5>. QED
          BY <5>2
      <4>3. stack'[i].var <= nvars + n
        BY <1>2, <3>2, <4>2
      <4>4. frames'[2].slots < i
        BY <1>2, <2>1, <3>2, <4>1, SMTT(30)
      <4>5. Len(frames') > 1
        BY <1>5
      <4>. QED
        BY <4>3, <4>4, <4>5
    <3>. QED
      BY <1>8, <3>1, <3>2
  <2>3. ASSUME NEW i \in 1..Len(stack), NEW j \in 1..Len(stack),
               stack'[i].var = stack'[j].var, stack'[i].var # Temp
        PROVE  i = j
    <3>1. \/ i \in 1..base /\ stack'[i] = stack[i]
          \/ i \in base + 1..Len(stack) /\ stack'[i].var = nvars + (i - base)
      BY <1>8
    <3>2. \/ j \in 1..base /\ stack'[j] = stack[j]
          \/ j \in base + 1..Len(stack) /\ stack'[j].var = nvars + (j - base)
      BY <1>8
    <3>3. CASE stack'[i] = stack[i] /\ stack'[j] = stack[j]
      BY <2>3, <3>3 DEF Inv, LocalsOK
    <3>4. CASE stack'[i].var = nvars + (i - base) /\ stack'[j].var = nvars + (j - base)
      <4>1. nvars + (i - base) = nvars + (j - base)
        BY <2>3, <3>4
      <4>. QED
        BY <1>2, <4>1
    <3>5. CASE stack'[i] = stack[i] /\ stack'[j].var = nvars + (j - base) /\ j \in base + 1..Len(stack)
      BY <1>2, <1>9, <2>3, <3>5
    <3>6. CASE stack'[j] = stack[j] /\ stack'[i].var = nvars + (i - base) /\ i \in base + 1..Len(stack)
      BY <1>2, <1>9, <2>3, <3>6
    <3>. QED
      BY <3>1, <3>2, <3>3, <3>4, <3>5, <3>6
  <2>. QED
    BY <1>1, <2>2, <2>3 DEF LocalsOK
<1>11. UpvaluesOK'
  <2>1. ASSUME NEW u \in Upvalue
        PROVE  /\ u > nupvalues => loc[u] = Closed
               /\ u <= nupvalues => /\ captured[u] \in 1..nvars
                                    /\ captured[u] \in 1..nvars + n
                                    /\ \A w \in 1..nupvalues : captured[u] = captured[w] => u = w
               /\ u <= nupvalues /\ loc[u] = Closed => closed[u] \in Value
    <3>1. u <= nupvalues => captured[u] \in 1..nvars
      BY DEF Inv, UpvaluesOK
    <3>2. u <= nupvalues => captured[u] \in 1..nvars + n
      BY <1>2, <3>1
    <3>. QED
      BY <3>1, <3>2 DEF Inv, UpvaluesOK
  <2>2. ASSUME NEW u \in Upvalue, loc[u] # Closed
        PROVE  loc[u] <= Len(stack) /\ stack'[loc[u]].var = captured[u]
    <3>1. loc[u] \in 1..Len(stack) /\ stack[loc[u]].var = captured[u] /\ captured[u] # Temp
      BY <2>2, OpenFacts
    <3>2. loc[u] \in 1..base
      BY <1>1, <1>2, <3>1
    <3>. QED
      BY <1>1, <3>1, <3>2
  <2>3. ASSUME NEW u \in Upvalue, u <= nupvalues, loc[u] = Closed, NEW i \in 1..Len(stack)
        PROVE  stack'[i].var # captured[u]
    <3>1. captured[u] \in 1..nvars /\ stack[i].var # captured[u]
      BY <2>1, <2>3 DEF Inv, UpvaluesOK
    <3>. QED
      BY <1>2, <1>8, <3>1
  <2>. QED
    BY <1>1, <2>1, <2>2, <2>3 DEF UpvaluesOK
<1>12. TypeOK' /\ OpenOK' /\ ClosuresOK'
  <2>1. Len(frames') <= FramesMax
    BY <1>1, <1>5, Bounds
  <2>. QED
    BY <1>1, <1>2, <1>5, <2>1 DEF Inv, TypeOK, OpenOK, ClosuresOK, FrameRecord
<1>. QED
  BY <1>7, <1>10, <1>11, <1>12 DEF Inv

(* The value on top of the stack takes the place of everything above a slot,*)
(* and the variables below stay as they are.                               *)
LEMMA ReplaceFacts ==
  ASSUME Inv, NEW n \in 0..Len(stack) - 1,
         stack' = Append(First(stack, n), Top(stack)), stack[Len(stack)].var = Temp
  PROVE  /\ stack' \in Seq(Slot) /\ Len(stack') = n + 1 /\ Len(stack') <= StackMax
         /\ \A i \in 1..n : i \in 1..Len(stack) /\ stack'[i] = stack[i]
         /\ \A i \in 1..Len(stack') : stack'[i].var # Temp =>
              i \in 1..n /\ i \in 1..Len(stack) /\ stack'[i] = stack[i]
         /\ stack' # <<>>
<1>1. Len(stack) \in Nat /\ n \in Nat /\ n \in 0..Len(stack) /\ Len(stack) \in 1..Len(stack)
      /\ Len(stack) <= StackMax /\ StackMax \in Nat
  BY StackFacts, Bounds
<1>2. PICK s \in Seq(Slot) :
        /\ s = First(stack, n) /\ Len(s) = n
        /\ \A i \in 1..n : i \in 1..Len(stack) /\ s[i] = stack[i]
  <2>1. stack \in Seq(Slot)
    BY StackFacts
  <2>2. /\ First(stack, n) \in Seq(Slot) /\ Len(First(stack, n)) = n
        /\ \A i \in 1..n : i \in 1..Len(stack) /\ First(stack, n)[i] = stack[i]
    BY <1>1, <2>1, FirstFacts
  <2>. QED
    BY <2>2
<1>3. PICK e \in Slot : e = Top(stack) /\ e.var = Temp
  BY <1>1, StackFacts DEF Top
<1>4. /\ stack' \in Seq(Slot) /\ Len(stack') = Len(s) + 1
      /\ \A i \in 1..Len(s) : stack'[i] = s[i]
      /\ stack'[Len(s) + 1] = e
  <2>1. stack' = Append(s, e)
    BY <1>2, <1>3
  <2>. QED
    BY <2>1
<1>5. \A i \in 1..n + 1 : i \in 1..n \/ i = n + 1
  BY <1>1
<1>6. Len(stack') <= StackMax /\ stack' # <<>>
  BY <1>1, <1>2, <1>4
<1>. QED
  BY <1>2, <1>3, <1>4, <1>5, <1>6

(* The window of the frame goes, but for its result, and the upvalues that *)
(* point into it take the values of their variables along.                 *)
LEMMA ReturnFacts ==
  ASSUME Inv, Return
  PROVE  \E s \in 1..StackMax :
           /\ s = Frame.slots /\ s < Len(stack)
           /\ frames # <<>> /\ to_fill = 0 /\ Len(frames) > 1
           /\ frames' = First(frames, Len(frames) - 1)
           /\ UNCHANGED <<captured, upvalues, nclosures, nupvalues, to_fill, global, nvars>>
           /\ closed' = [u \in Upvalue |-> IF u \in ClosedBy(s) THEN stack[loc[u]].val ELSE closed[u]]
           /\ loc' = [u \in Upvalue |-> IF u \in ClosedBy(s) THEN Closed ELSE loc[u]]
           /\ open' = SubSeq(open, AboveCount(s - 1) + 1, Len(open))
           /\ stack' \in Seq(Slot) /\ Len(stack') = s /\ Len(stack') <= StackMax /\ stack' # <<>>
           /\ \A i \in 1..s - 1 : i \in 1..Len(stack) /\ stack'[i] = stack[i]
           /\ \A i \in 1..Len(stack') : stack'[i].var # Temp =>
                i \in 1..s - 1 /\ i \in 1..Len(stack) /\ stack'[i].var = stack[i].var
           /\ \A u \in Upvalue :
                \/ /\ loc[u] # Closed /\ loc[u] >= s /\ loc[u] \in 1..Len(stack)
                   /\ stack[loc[u]].var = captured[u] /\ u <= nupvalues
                   /\ loc'[u] = Closed /\ closed'[u] = stack[loc[u]].val /\ closed'[u] \in Value
                \/ /\ loc[u] = Closed \/ loc[u] < s
                   /\ loc'[u] = loc[u] /\ closed'[u] = closed[u]
<1>1. /\ frames # <<>> /\ to_fill = 0 /\ Len(frames) > 1 /\ Len(stack) > Frame.slots
      /\ stack[Len(stack)].var = Temp
      /\ stack' = Append(First(stack, Frame.slots - 1), Top(stack))
      /\ frames' = First(frames, Len(frames) - 1)
      /\ captured' = captured /\ upvalues' = upvalues /\ nclosures' = nclosures
      /\ nupvalues' = nupvalues /\ to_fill' = to_fill /\ global' = global /\ nvars' = nvars
  BY DEF Return, Running, Top
<1>2. PICK s \in 1..StackMax : s = Frame.slots
  BY <1>1, WindowFacts
<1>3. /\ closed' = [u \in Upvalue |-> IF u \in ClosedBy(s) THEN stack[loc[u]].val ELSE closed[u]]
      /\ loc' = [u \in Upvalue |-> IF u \in ClosedBy(s) THEN Closed ELSE loc[u]]
      /\ open' = SubSeq(open, AboveCount(s - 1) + 1, Len(open))
  BY <1>2 DEF Return, CloseUpvalues, Close
<1>4. /\ s \in Nat /\ StackMax \in Nat /\ Len(stack) \in Nat /\ s < Len(stack) /\ s - 1 \in 0..Len(stack) - 1
      /\ Len(stack) <= StackMax
  BY <1>1, <1>2, StackFacts, Bounds
<1>5. /\ stack' \in Seq(Slot) /\ Len(stack') = s /\ Len(stack') <= StackMax /\ stack' # <<>>
      /\ \A i \in 1..s - 1 : i \in 1..Len(stack) /\ stack'[i] = stack[i]
      /\ \A i \in 1..Len(stack') : stack'[i].var # Temp =>
           i \in 1..s - 1 /\ i \in 1..Len(stack) /\ stack'[i].var = stack[i].var
  <2>1. PICK n \in 0..Len(stack) - 1 : n = s - 1 /\ n + 1 = s
    BY <1>4
  <2>. QED
    BY <1>1, <1>2, <2>1, ReplaceFacts
<1>6. /\ \A u \in Upvalue : u \in ClosedBy(s) <=> loc[u] # Closed /\ loc[u] >= s
      /\ AboveCount(s - 1) \in 0..Len(open)
      /\ \A j \in AboveCount(s - 1) + 1..Len(open) : loc[open[j]] < s
  BY CloseFacts
<1>7. ASSUME NEW u \in Upvalue
      PROVE  \/ /\ loc[u] # Closed /\ loc[u] >= s /\ loc[u] \in 1..Len(stack)
                /\ stack[loc[u]].var = captured[u] /\ u <= nupvalues
                /\ loc'[u] = Closed /\ closed'[u] = stack[loc[u]].val /\ closed'[u] \in Value
             \/ /\ loc[u] = Closed \/ loc[u] < s
                /\ loc'[u] = loc[u] /\ closed'[u] = closed[u]
  <2>1. CASE u \in ClosedBy(s)
    <3>1. loc[u] # Closed /\ loc[u] >= s
      BY <1>6, <2>1
    <3>2. loc'[u] = Closed /\ closed'[u] = stack[loc[u]].val
      BY <1>3, <2>1
    <3>. QED
      BY <3>1, <3>2, OpenFacts, StackFacts
  <2>2. CASE u \notin ClosedBy(s)
    <3>1. loc[u] = Closed \/ ~(loc[u] >= s)
      BY <1>6, <2>2
    <3>2. loc[u] \in Nat
      BY UpvalueFacts
    <3>. QED
      BY <1>3, <1>4, <2>2, <3>1, <3>2
  <2>. QED
    BY <2>1, <2>2
<1>. QED
  BY <1>1, <1>2, <1>3, <1>4, <1>5, <1>7

(* OP_RETURN closes the callee's upvalues and drops its frame.             *)
LEMMA ReturnStep ==
  ASSUME Inv, Return
  PROVE  Inv'
<1>1. PICK s \in 1..StackMax :
        /\ s = Frame.slots /\ s < Len(stack)
        /\ frames # <<>> /\ to_fill = 0 /\ Len(frames) > 1
        /\ frames' = First(frames, Len(frames) - 1)
        /\ UNCHANGED <<captured, upvalues, nclosures, nupvalues, to_fill, global, nvars>>
        /\ closed' = [u \in Upvalue |-> IF u \in ClosedBy(s) THEN stack[loc[u]].val ELSE closed[u]]
        /\ loc' = [u \in Upvalue |-> IF u \in ClosedBy(s) THEN Closed ELSE loc[u]]
        /\ open' = SubSeq(open, AboveCount(s - 1) + 1, Len(open))
        /\ stack' \in Seq(Slot) /\ Len(stack') = s /\ Len(stack') <= StackMax /\ stack' # <<>>
        /\ \A i \in 1..s - 1 : i \in 1..Len(stack) /\ stack'[i] = stack[i]
        /\ \A i \in 1..Len(stack') : stack'[i].var # Temp =>
             i \in 1..s - 1 /\ i \in 1..Len(stack) /\ stack'[i].var = stack[i].var
        /\ \A u \in Upvalue :
             \/ /\ loc[u] # Closed /\ loc[u] >= s /\ loc[u] \in 1..Len(stack)
                /\ stack[loc[u]].var = captured[u] /\ u <= nupvalues
                /\ loc'[u] = Closed /\ closed'[u] = stack[loc[u]].val /\ closed'[u] \in Value
             \/ /\ loc[u] = Closed \/ loc[u] < s
                /\ loc'[u] = loc[u] /\ closed'[u] = closed[u]
  BY ReturnFacts
<1>2. \A u \in Upvalue : /\ loc'[u] = loc[u] \/ loc'[u] = Closed
                         /\ closed'[u] = closed[u] \/ closed'[u] \in Value
  BY <1>1
<1>3. \A u \in Upvalue : loc'[u] # Closed => loc[u] # Closed /\ loc[u] < s
  BY <1>1
<1>4. /\ s \in Nat /\ StackMax \in Nat /\ Len(stack) \in Nat
  BY StackFacts, Bounds
<1>5. \A u \in Upvalue : loc[u] \in Nat /\ loc[u] < s => loc'[u] = loc[u]
  <2>1. ASSUME NEW u \in Upvalue, loc[u] \in Nat, loc[u] < s PROVE loc'[u] = loc[u]
    <3>1. ~(loc[u] >= s)
      BY <1>4, <2>1
    <3>. QED
      BY <1>1, <3>1
  <2>. QED
    BY <2>1
<1>6. PICK m \in Nat : m = Len(frames) - 1 /\ m >= 1 /\ m \in 0..Len(frames)
  BY <1>1, FrameFacts
<1>7. /\ frames' \in Seq(FrameRecord) /\ Len(frames') = m
      /\ \A k \in 1..m : k \in 1..Len(frames) /\ frames'[k] = frames[k]
  <2>1. frames' = First(frames, m)
    BY <1>1, <1>6
  <2>2. frames \in Seq(FrameRecord) /\ m \in 0..Len(frames)
    BY <1>6, FrameFacts
  <2>. QED
    BY <2>1, <2>2, FirstFacts
<1>8. FramesOK'
  <2>1. \A k \in 1..m : frames[k].slots <= s
    BY <1>1, <1>7, WindowFacts
  <2>2. \A k \in 1..m : \A j \in k..m : j \in k..Len(frames)
    BY <1>6, FrameFacts
  <2>3. frames' # <<>>
    BY <1>6, <1>7
  <2>. QED
    <3>1. Len(stack') = s /\ to_fill' = 0
      BY <1>1
    <3>. QED
      BY <1>7, <2>1, <2>2, <2>3, <3>1 DEF Inv, FramesOK
<1>9. LocalsOK'
  <2>1. ASSUME NEW i \in 1..Len(stack'), stack'[i].var # Temp
        PROVE  /\ i \in 1..Len(stack) /\ stack'[i].var = stack[i].var
               /\ Len(frames') > 1 /\ frames'[2].slots = frames[2].slots
    <3>1. i \in 1..s - 1 /\ i \in 1..Len(stack) /\ stack'[i].var = stack[i].var
      BY <1>1, <2>1
    <3>2. frames[2].slots < i
      BY <2>1, <3>1 DEF Inv, LocalsOK
    <3>3. Len(frames) # 2
      <4>1. SUFFICES ASSUME Len(frames) = 2 PROVE FALSE
        OBVIOUS
      <4>2. frames[2].slots = s
        BY <1>1, <4>1, FrameFacts
      <4>. QED
        BY <1>4, <3>1, <3>2, <4>2
    <3>4. m > 1 /\ 2 \in 1..m
      <4>1. Len(frames) \in Nat
        BY FrameFacts
      <4>. QED
        BY <1>6, <3>3, <4>1
    <3>. QED
      BY <1>7, <3>1, <3>4
  <2>. QED
    BY <1>1, <2>1, LocalsKept
<1>10. /\ \A u \in Upvalue : u \in ClosedBy(s) <=> loc[u] # Closed /\ loc[u] >= s
       /\ AboveCount(s - 1) \in 0..Len(open)
       /\ \A j \in AboveCount(s - 1) + 1..Len(open) : loc[open[j]] < s
  BY CloseFacts
<1>12. UpvaluesOK'
  <2>1. ASSUME NEW u \in Upvalue
        PROVE  /\ u > nupvalues => loc'[u] = Closed
               /\ u <= nupvalues => /\ captured[u] \in 1..nvars
                                    /\ \A w \in 1..nupvalues : captured[u] = captured[w] => u = w
               /\ loc'[u] # Closed => loc'[u] <= s /\ stack'[loc'[u]].var = captured[u]
               /\ u <= nupvalues /\ loc'[u] = Closed =>
                    closed'[u] \in Value /\ \A i \in 1..s : stack'[i].var # captured[u]
    <3>1. /\ u <= nupvalues => /\ captured[u] \in 1..nvars
                               /\ \A w \in 1..nupvalues : captured[u] = captured[w] => u = w
          /\ u > nupvalues => loc[u] = Closed
      BY  DEF Inv, UpvaluesOK
    <3>2. u \in Nat /\ nupvalues \in Nat
      BY UpvalueFacts
    <3>3. u <= nupvalues => captured[u] # Temp
      BY <3>1, StackFacts DEF Temp
    <3>4. CASE /\ loc[u] # Closed /\ loc[u] >= s /\ loc[u] \in 1..Len(stack)
               /\ stack[loc[u]].var = captured[u] /\ u <= nupvalues
               /\ loc'[u] = Closed /\ closed'[u] = stack[loc[u]].val /\ closed'[u] \in Value
      <4>1. ASSUME NEW i \in 1..s, stack'[i].var = captured[u] PROVE FALSE
        <5>1. i \in 1..s - 1 /\ i \in 1..Len(stack) /\ stack[i].var = captured[u]
          BY <1>1, <3>3, <3>4, <4>1
        <5>2. i = loc[u]
          BY <3>3, <3>4, <5>1 DEF Inv, LocalsOK
        <5>. QED
          BY <1>4, <3>4, <5>1, <5>2
      <4>. QED
        BY <3>1, <3>2, <3>4, <4>1
    <3>5. CASE (loc[u] = Closed \/ loc[u] < s) /\ loc'[u] = loc[u] /\ closed'[u] = closed[u]
      <4>1. CASE loc[u] = Closed
        <5>1. u <= nupvalues => closed[u] \in Value /\ \A i \in 1..Len(stack) : stack[i].var # captured[u]
          BY <4>1 DEF Inv, UpvaluesOK
        <5>. QED
          BY <1>1, <3>1, <3>3, <3>5, <4>1, <5>1
      <4>2. CASE loc[u] # Closed
        <5>1. loc[u] \in 1..Len(stack) /\ stack[loc[u]].var = captured[u]
          BY <4>2, OpenFacts
        <5>2. loc[u] \in 1..s - 1 /\ loc[u] <= s
          BY <1>4, <3>5, <4>2, <5>1
        <5>. QED
          BY <1>1, <3>1, <3>5, <4>2, <5>1, <5>2
      <4>. QED
        BY <4>1, <4>2
    <3>. QED
      BY <1>1, <3>4, <3>5
  <2>. QED
    BY <1>1, <2>1 DEF UpvaluesOK
<1>13. PICK a \in 0..Len(open) : a = AboveCount(s - 1) /\ \A j \in a + 1..Len(open) : loc[open[j]] < s
  BY <1>10
<1>14. /\ open' \in Seq(Upvalue) /\ Len(open') = Len(open) - a
       /\ \A j \in 1..Len(open) - a : a + j \in 1..Len(open) /\ open'[j] = open[a + j]
  <2>1. open' = SubSeq(open, a + 1, Len(open)) /\ open \in Seq(Upvalue)
    BY <1>1, <1>13, UpvalueFacts
  <2>. QED
    BY <2>1, RestFacts
<1>15. OpenOK'
  <2>1. Len(open) \in Nat /\ a \in Nat
    BY UpvalueFacts
  <2>2. ASSUME NEW j \in 1..Len(open) - a
        PROVE  /\ a + j \in 1..Len(open) /\ open'[j] = open[a + j]
               /\ loc'[open'[j]] = loc[open[a + j]] /\ loc'[open'[j]] # Closed
    <3>1. a + j \in 1..Len(open) /\ a + j \in a + 1..Len(open) /\ open'[j] = open[a + j]
      BY <1>14, <2>1
    <3>2. open[a + j] \in Upvalue /\ loc[open[a + j]] # Closed
      BY <3>1, UpvalueFacts DEF Inv, OpenOK
    <3>3. loc[open[a + j]] < s
      BY <1>13, <3>1
    <3>4. loc'[open[a + j]] = loc[open[a + j]]
      BY <1>5, <3>2, <3>3, UpvalueFacts
    <3>. QED
      BY <3>1, <3>2, <3>4
  <2>3. ASSUME NEW i \in 1..Len(open) - a, NEW j \in 1..Len(open) - a, i < j
        PROVE  loc'[open'[i]] > loc'[open'[j]]
    <3>1. a + i \in 1..Len(open) /\ a + j \in 1..Len(open) /\ a + i < a + j
      BY <2>1, <2>2, <2>3
    <3>2. loc[open[a + i]] > loc[open[a + j]]
      BY <3>1 DEF Inv, OpenOK
    <3>. QED
      BY <2>2, <3>2
  <2>4. ASSUME NEW u \in Upvalue, loc'[u] # Closed
        PROVE  \E j \in 1..Len(open) - a : open'[j] = u
    <3>1. loc[u] # Closed /\ loc[u] < s /\ loc[u] \in Nat
      BY <1>3, <2>4, UpvalueFacts
    <3>2. PICK k \in 1..Len(open) : open[k] = u
      BY <3>1 DEF Inv, OpenOK
    <3>3. u \notin ClosedBy(s)
      BY <1>4, <1>10, <3>1
    <3>4. k \notin 1..a
      BY <1>13, <3>2, <3>3 DEF ClosedBy
    <3>5. k - a \in 1..Len(open) - a /\ a + (k - a) = k
      BY <2>1, <3>4
    <3>. QED
      BY <1>14, <3>2, <3>5
  <2>. QED
    BY <1>14, <2>2, <2>3, <2>4 DEF OpenOK
<1>16. TypeOK'
  <2>1. \A u \in Upvalue : loc'[u] \in 0..StackMax /\ closed'[u] \in Value \cup {NoValue}
    <3>1. Closed \in 0..StackMax
      BY <1>4 DEF Closed
    <3>. QED
      BY <1>2, <3>1, UpvalueFacts
  <2>2. loc' \in [Upvalue -> 0..StackMax] /\ closed' \in [Upvalue -> Value \cup {NoValue}]
    BY <1>1, <2>1
  <2>3. Len(frames') <= FramesMax
    <3>1. Len(frames) \in Nat /\ Len(frames) <= FramesMax
      BY FrameFacts
    <3>2. Len(frames') = Len(frames) - 1
      BY <1>6, <1>7
    <3>. QED
      BY <3>1, <3>2, Bounds
  <2>. QED
    BY <1>1, <1>7, <1>14, <2>2, <2>3 DEF Inv, TypeOK, FrameRecord
<1>17. ClosuresOK'
  BY <1>1 DEF Inv, ClosuresOK
<1>. QED
  BY <1>8, <1>9, <1>12, <1>15, <1>16, <1>17 DEF Inv

(* The blocks of the frame that is running change.                         *)
LEMMA BlocksFacts ==
  ASSUME Inv, frames # <<>>, NEW b \in Seq(1..StackMax),
         \A i \in 1..Len(b) : Frame.slots <= b[i],
         frames' = [frames EXCEPT ![Len(frames)] = [frames[Len(frames)] EXCEPT !.blocks = b]],
         \A k \in 1..Len(frames) : k > 1 => frames[k].slots <= Len(stack')
  PROVE  /\ frames' \in Seq(FrameRecord) /\ Len(frames') = Len(frames)
         /\ FramesOK'
         /\ \A k \in 1..Len(frames) : frames'[k].slots = frames[k].slots
<1>1. PICK n \in 1..Len(frames) : n = Len(frames) /\ Frame = frames[n]
  BY FrameFacts
<1>2. PICK f \in FrameRecord :
        /\ f = [frames[n] EXCEPT !.blocks = b]
        /\ f.blocks = b /\ f.slots = frames[n].slots /\ f.closure = frames[n].closure
  <2>1. frames[n] \in FrameRecord
    BY FrameFacts
  <2>2. PICK f : f = [frames[n] EXCEPT !.blocks = b]
    OBVIOUS
  <2>3. f \in FrameRecord /\ f.blocks = b /\ f.slots = frames[n].slots /\ f.closure = frames[n].closure
    BY <2>1, <2>2 DEF FrameRecord
  <2>. QED
    BY <2>2, <2>3
<1>3. frames' = [frames EXCEPT ![n] = f] /\ frames \in Seq(FrameRecord)
  BY <1>1, <1>2, FrameFacts
<1>4. /\ frames' \in Seq(FrameRecord) /\ Len(frames') = Len(frames) /\ frames'[n] = f
      /\ \A k \in 1..Len(frames) : k # n => frames'[k] = frames[k]
  <2>1. PICK t \in Seq(FrameRecord) : t = frames /\ n \in 1..Len(t)
    BY <1>3
  <2>2. /\ [t EXCEPT ![n] = f] \in Seq(FrameRecord) /\ Len([t EXCEPT ![n] = f]) = Len(t)
        /\ \A k \in 1..Len(t) : [t EXCEPT ![n] = f][k] = IF k = n THEN f ELSE t[k]
    BY <2>1, ExceptSeq
  <2>3. frames' = [t EXCEPT ![n] = f]
    BY <1>3, <2>1
  <2>. QED
    BY <2>1, <2>2, <2>3
<1>5. \A k \in 1..Len(frames) :
        frames'[k].slots = frames[k].slots /\ frames'[k].closure = frames[k].closure
  BY <1>2, <1>4
<1>6. frames' # <<>>
  BY <1>1, <1>4
<1>7. ASSUME NEW k \in 1..Len(frames)
      PROVE  \A i \in 1..Len(frames'[k].blocks) : frames'[k].slots <= frames'[k].blocks[i]
  <2>1. CASE k = n
    BY <1>1, <1>2, <1>4, <2>1
  <2>2. CASE k # n
    BY <1>4, <2>2 DEF Inv, FramesOK
  <2>. QED
    BY <2>1, <2>2
<1>8. \A k \in 1..Len(frames) : \A m \in k..Len(frames) : m \in 1..Len(frames)
  OBVIOUS
<1>9. FramesOK'
  BY <1>4, <1>5, <1>6, <1>7, <1>8 DEF Inv, FramesOK
<1>. QED
  BY <1>4, <1>5, <1>9

(* A block opens.                                                          *)
LEMMA BeginBlockStep ==
  ASSUME Inv, BeginBlock
  PROVE  Inv'
<1>1. /\ frames # <<>> /\ to_fill = 0 /\ Frame.closure # Script /\ Frame.blocks = <<>>
      /\ frames' = [frames EXCEPT ![Len(frames)].blocks = Append(@, Len(stack))]
      /\ stack' = stack /\ open' = open /\ to_fill' = to_fill /\ global' = global /\ nvars' = nvars
      /\ loc' = loc /\ closed' = closed /\ captured' = captured /\ upvalues' = upvalues
      /\ nclosures' = nclosures /\ nupvalues' = nupvalues
  BY DEF BeginBlock, Running, heap
<1>2. Frame = frames[Len(frames)] /\ Len(frames) \in 1..Len(frames)
  BY <1>1, FrameFacts
<1>3. Frame.slots <= Len(stack) /\ Len(stack) \in 1..StackMax
  BY <1>1, WindowFacts, StackFacts, Bounds, SMTT(30)
<1>4. PICK b \in Seq(1..StackMax) :
        b = Append(<<>>, Len(stack)) /\ \A i \in 1..Len(b) : Frame.slots <= b[i]
  <2>1. PICK h \in 1..StackMax : h = Len(stack) /\ Frame.slots <= h
    BY <1>3
  <2>2. /\ Append(<<>>, h) \in Seq(1..StackMax) /\ Len(Append(<<>>, h)) = 1
        /\ Append(<<>>, h)[1] = h
    OBVIOUS
  <2>3. \A i \in 1..Len(Append(<<>>, h)) : Frame.slots <= Append(<<>>, h)[i]
    <3>1. \A i \in 1..1 : i = 1
      OBVIOUS
    <3>. QED
      BY <2>1, <2>2, <3>1
  <2>4. Append(<<>>, Len(stack)) = Append(<<>>, h)
    BY <2>1
  <2>. QED
    BY <2>2, <2>3, <2>4, Zenon
<1>5. frames' = [frames EXCEPT ![Len(frames)] = [frames[Len(frames)] EXCEPT !.blocks = b]]
  BY <1>1, <1>2, <1>4
<1>6. /\ frames' \in Seq(FrameRecord) /\ Len(frames') = Len(frames)
      /\ FramesOK'
      /\ \A k \in 1..Len(frames) : frames'[k].slots = frames[k].slots
  <2>1. \A k \in 1..Len(frames) : k > 1 => frames[k].slots <= Len(stack')
    BY <1>1 DEF Inv, FramesOK
  <2>. QED
    BY <1>1, <1>4, <1>5, <2>1, BlocksFacts
<1>7. LocalsOK'
  <2>1. ASSUME NEW i \in 1..Len(stack), stack[i].var # Temp
        PROVE  Len(frames') > 1 /\ frames'[2].slots = frames[2].slots
    <3>1. Len(frames) > 1 /\ 2 \in 1..Len(frames)
      BY <2>1, FrameFacts DEF Inv, LocalsOK
    <3>. QED
      BY <1>6, <3>1
  <2>2. stack' \in Seq(Slot)
    BY <1>1, StackFacts
  <2>. QED
    BY <1>1, <2>1, <2>2, LocalsKept
<1>8. TypeOK'
  BY <1>1, <1>6 DEF Inv, TypeOK, FrameRecord
<1>9. UpvaluesOK'
  BY <1>1 DEF Inv, UpvaluesOK
<1>10. OpenOK' /\ ClosuresOK'
  BY <1>1 DEF Inv, OpenOK, ClosuresOK
<1>. QED
  BY <1>6, <1>7, <1>8, <1>9, <1>10 DEF Inv

(* A block's locals go, and its result takes the slot of the first.        *)
LEMMA EndBlockFacts ==
  ASSUME Inv, Disciplined, EndBlock
  PROVE  \E first \in 1..StackMax :
           /\ first = Top(Frame.blocks) /\ first \in Nat /\ first \in 0..Len(stack) - 1
           /\ Frame.slots \in Nat /\ Frame.slots <= first
           /\ stack' \in Seq(Slot) /\ Len(stack') = first + 1 /\ Len(stack') <= StackMax
           /\ stack' # <<>>
           /\ \A i \in 1..first : i \in 1..Len(stack) /\ stack'[i] = stack[i]
           /\ \A i \in 1..Len(stack') : stack'[i].var # Temp =>
                i \in 1..first /\ i \in 1..Len(stack) /\ stack'[i] = stack[i]
           /\ \A u \in Upvalue : ~(loc[u] >= first + 1)
<1>1. /\ frames # <<>> /\ to_fill = 0 /\ Frame.blocks # <<>>
      /\ Len(stack) >= Top(Frame.blocks) + 1 /\ stack[Len(stack)].var = Temp
      /\ ~\E u \in Upvalue : loc[u] >= Top(Frame.blocks) + 1
      /\ stack' = Append(First(stack, (Top(Frame.blocks) + 1) - 1), Top(stack))
      /\ frames' = [frames EXCEPT ![Len(frames)].blocks = First(@, Len(@) - 1)]
      /\ open' = open /\ to_fill' = to_fill /\ global' = global /\ nvars' = nvars
      /\ loc' = loc /\ closed' = closed /\ captured' = captured /\ upvalues' = upvalues
      /\ nclosures' = nclosures /\ nupvalues' = nupvalues
  BY DEF EndBlock, Running, heap, Disciplined, Top
<1>2. Frame = frames[Len(frames)] /\ Len(frames) \in 1..Len(frames)
  BY <1>1, FrameFacts
<1>3. PICK c \in Seq(1..StackMax) : c = Frame.blocks /\ c # <<>> /\ Len(c) \in Nat /\ Len(c) >= 1
                                    /\ \A i \in 1..Len(c) : Frame.slots <= c[i]
  <2>1. Frame.blocks \in Seq(1..StackMax)
    BY <1>2, FrameFacts
  <2>2. \A i \in 1..Len(Frame.blocks) : Frame.slots <= Frame.blocks[i]
    BY <1>2 DEF Inv, FramesOK
  <2>. QED
    BY <1>1, <2>1, <2>2
<1>4. PICK first \in 1..StackMax : first = c[Len(c)] /\ Frame.slots <= first
  <2>1. Len(c) \in 1..Len(c)
    BY <1>3
  <2>2. c[Len(c)] \in 1..StackMax
    BY <2>1, ElementOfSeq
  <2>. QED
    BY <1>3, <2>1, <2>2
<1>5. /\ first = Top(Frame.blocks) /\ first \in 0..Len(stack) - 1 /\ Frame.slots \in Nat /\ first \in Nat
      /\ stack' = Append(First(stack, first), Top(stack))
      /\ \A u \in Upvalue : ~(loc[u] >= first + 1)
  <2>1. Top(Frame.blocks) = first
    BY <1>3, <1>4 DEF Top
  <2>2. first \in Nat /\ Len(stack) \in Nat /\ (first + 1) - 1 = first
    BY <1>4, StackFacts, Bounds
  <2>3. Frame.slots \in Nat
    <3>1. Frame.slots \in 1..StackMax
      BY <1>1, WindowFacts
    <3>. QED
      BY <3>1, Bounds
  <2>. QED
    BY <1>1, <2>1, <2>2, <2>3
<1>6. /\ stack' \in Seq(Slot) /\ Len(stack') = first + 1 /\ Len(stack') <= StackMax
      /\ \A i \in 1..first : i \in 1..Len(stack) /\ stack'[i] = stack[i]
      /\ \A i \in 1..Len(stack') : stack'[i].var # Temp =>
           i \in 1..first /\ i \in 1..Len(stack) /\ stack'[i] = stack[i]
      /\ stack' # <<>>
  BY <1>1, <1>5, ReplaceFacts
<1>. QED
  BY <1>4, <1>5, <1>6

(* A block ends and closes the upvalues of its variables.                  *)
LEMMA EndBlockStep ==
  ASSUME Inv, Disciplined, EndBlock
  PROVE  Inv'
<1>1. /\ frames # <<>> /\ to_fill = 0 /\ Frame.blocks # <<>>
      /\ frames' = [frames EXCEPT ![Len(frames)].blocks = First(@, Len(@) - 1)]
      /\ open' = open /\ to_fill' = to_fill /\ global' = global /\ nvars' = nvars
      /\ loc' = loc /\ closed' = closed /\ captured' = captured /\ upvalues' = upvalues
      /\ nclosures' = nclosures /\ nupvalues' = nupvalues
  BY DEF EndBlock, Running, heap
<1>2. Frame = frames[Len(frames)] /\ Len(frames) \in 1..Len(frames)
  BY <1>1, FrameFacts
<1>3. PICK c \in Seq(1..StackMax) : c = Frame.blocks /\ c # <<>> /\ Len(c) \in Nat /\ Len(c) >= 1
                                    /\ \A i \in 1..Len(c) : Frame.slots <= c[i]
  <2>1. Frame.blocks \in Seq(1..StackMax)
    BY <1>2, FrameFacts
  <2>2. \A i \in 1..Len(Frame.blocks) : Frame.slots <= Frame.blocks[i]
    BY <1>2 DEF Inv, FramesOK
  <2>. QED
    BY <1>1, <2>1, <2>2
<1>4. PICK first \in 1..StackMax :
        /\ first = Top(Frame.blocks) /\ first \in Nat /\ first \in 0..Len(stack) - 1
        /\ Frame.slots \in Nat /\ Frame.slots <= first
        /\ stack' \in Seq(Slot) /\ Len(stack') = first + 1 /\ Len(stack') <= StackMax
        /\ stack' # <<>>
        /\ \A i \in 1..first : i \in 1..Len(stack) /\ stack'[i] = stack[i]
        /\ \A i \in 1..Len(stack') : stack'[i].var # Temp =>
             i \in 1..first /\ i \in 1..Len(stack) /\ stack'[i] = stack[i]
        /\ \A u \in Upvalue : ~(loc[u] >= first + 1)
  BY EndBlockFacts
<1>7. PICK b \in Seq(1..StackMax) :
        b = First(c, Len(c) - 1) /\ \A i \in 1..Len(b) : Frame.slots <= b[i]
  <2>0. Len(c) - 1 \in 0..Len(c)
    BY <1>3
  <2>1. PICK n \in 0..Len(c) : n = Len(c) - 1
    BY <2>0
  <2>2. /\ First(c, n) \in Seq(1..StackMax) /\ Len(First(c, n)) = n
        /\ \A i \in 1..n : i \in 1..Len(c) /\ First(c, n)[i] = c[i]
    BY FirstFacts
  <2>. QED
    BY <1>3, <2>1, <2>2
<1>8. frames' = [frames EXCEPT ![Len(frames)] = [frames[Len(frames)] EXCEPT !.blocks = b]]
  BY <1>1, <1>2, <1>3, <1>7
<1>9. /\ frames' \in Seq(FrameRecord) /\ Len(frames') = Len(frames)
      /\ FramesOK'
      /\ \A k \in 1..Len(frames) : frames'[k].slots = frames[k].slots
  <2>1. ASSUME NEW k \in 1..Len(frames) PROVE frames[k].slots <= Len(stack')
    <3>1. frames[k].slots \in 1..StackMax /\ frames[k].slots <= Frame.slots
      BY <1>1, FrameFacts, WindowFacts
    <3>2. Frame.slots \in 1..StackMax
      BY <1>1, WindowFacts
    <3>3. Frame.slots <= first /\ Len(stack') = first + 1
      BY <1>4
    <3>. QED
      BY <1>4, <3>1, <3>2, <3>3, Bounds
  <2>. QED
    BY <1>1, <1>7, <1>8, <2>1, BlocksFacts
<1>10. LocalsOK'
  <2>1. ASSUME NEW i \in 1..Len(stack'), stack'[i].var # Temp
        PROVE  /\ i \in 1..Len(stack) /\ stack'[i].var = stack[i].var
               /\ Len(frames') > 1 /\ frames'[2].slots = frames[2].slots
    <3>1. i \in 1..Len(stack) /\ stack'[i].var = stack[i].var
      BY <1>4, <2>1
    <3>2. Len(frames) > 1 /\ 2 \in 1..Len(frames)
      BY <2>1, <3>1, FrameFacts DEF Inv, LocalsOK
    <3>. QED
      BY <1>9, <3>1, <3>2
  <2>. QED
    BY <1>1, <1>4, <2>1, LocalsKept
<1>11. UpvaluesOK' /\ OpenOK'
  <2>1. ASSUME NEW u \in Upvalue, loc[u] # Closed
        PROVE  loc[u] <= Len(stack') /\ stack'[loc[u]].var = stack[loc[u]].var
    <3>1. loc[u] \in 1..Len(stack) /\ ~(loc[u] >= first + 1)
      BY <1>4, <2>1, OpenFacts
    <3>2. loc[u] \in 1..first /\ loc[u] <= first + 1
      BY <1>4, <3>1
    <3>. QED
      BY <1>4, <3>2
  <2>2. \A u \in Upvalue : closed[u] \in Value => closed'[u] \in Value
    BY <1>1
  <2>. QED
    BY <1>1, <1>4, <2>1, <2>2, UpvaluesKept
<1>12. TypeOK' /\ ClosuresOK'
  BY <1>1, <1>4, <1>9 DEF Inv, TypeOK, ClosuresOK, FrameRecord
<1>. QED
  BY <1>9, <1>10, <1>11, <1>12 DEF Inv

(* A script begins on an empty stack.                                      *)
LEMMA BeginScriptStep ==
  ASSUME Inv, BeginScript
  PROVE  Inv'
<1>1. /\ frames = <<>> /\ open' = <<>>
      /\ frames' = <<[closure |-> Script, slots |-> 1, blocks |-> <<>>]>>
      /\ stack' = stack /\ to_fill' = to_fill /\ global' = global /\ nvars' = nvars
      /\ loc' = loc /\ closed' = closed /\ captured' = captured /\ upvalues' = upvalues
      /\ nclosures' = nclosures /\ nupvalues' = nupvalues
  BY DEF BeginScript, heap
<1>2. stack = <<>> /\ Len(stack) = 0
  BY <1>1 DEF Inv, FramesOK
<1>3. \A u \in Upvalue : loc[u] = Closed
  BY <1>2, OpenFacts
<1>4. PICK f \in FrameRecord : /\ f = [closure |-> Script, slots |-> 1, blocks |-> <<>>]
                               /\ f.closure = Script /\ f.slots = 1 /\ f.blocks = <<>>
  <2>1. 1 \in 1..StackMax /\ <<>> \in Seq(1..StackMax)
    BY Bounds
  <2>2. [closure |-> Script, slots |-> 1, blocks |-> <<>>] \in FrameRecord
    BY <2>1 DEF FrameRecord
  <2>3. PICK f \in FrameRecord : f = [closure |-> Script, slots |-> 1, blocks |-> <<>>]
    BY <2>2
  <2>. QED
    BY <2>3
<1>5. frames' = <<f>>
  BY <1>1, <1>4
<1>6. frames' \in Seq(FrameRecord) /\ Len(frames') = 1 /\ frames'[1] = f /\ frames' # <<>>
  BY <1>5
<1>7. FramesOK'
  <2>1. \A k \in 1..1 : k = 1
    OBVIOUS
  <2>2. /\ f.closure = Script <=> 1 = 1
        /\ 1 > 1 => f.slots <= Len(stack')
        /\ \A m \in 1..1 : f.slots <= frames'[m].slots
        /\ \A b \in 1..Len(f.blocks) : f.slots <= f.blocks[b]
    BY <1>4, <1>6
  <2>. QED
    BY <1>6, <2>1, <2>2 DEF FramesOK
<1>8. LocalsOK'
  BY <1>1, <1>2 DEF LocalsOK
<1>9. UpvaluesOK' /\ OpenOK' /\ ClosuresOK'
  BY <1>1, <1>2, <1>3 DEF Inv, UpvaluesOK, OpenOK, ClosuresOK
<1>10. TypeOK'
  <2>1. Len(frames') <= FramesMax /\ open' \in Seq(Upvalue)
    BY <1>1, <1>6, Bounds
  <2>. QED
    BY <1>1, <1>6, <2>1 DEF Inv, TypeOK, FrameRecord
<1>. QED
  BY <1>7, <1>8, <1>9, <1>10 DEF Inv

(* No upvalue is open when a script ends.                                  *)
LEMMA EndScriptFacts ==
  ASSUME Inv, Disciplined, EndScript
  PROVE  \A u \in Upvalue : loc[u] = Closed
<1>1. ~(Len(frames) > 1 /\ open # <<>>)
  BY DEF EndScript, Disciplined
<1>2. SUFFICES ASSUME NEW u \in Upvalue, loc[u] # Closed PROVE FALSE
  OBVIOUS
<1>3. PICK i \in 1..Len(open) : open[i] = u
  BY <1>2 DEF Inv, OpenOK
<1>4. open # <<>>
  BY <1>3
<1>5. Len(frames) > 1
  BY <1>2, OpenFacts DEF Inv, LocalsOK
<1>. QED
  BY <1>1, <1>4, <1>5

(* A script ends.                                                          *)
LEMMA EndScriptStep ==
  ASSUME Inv, Disciplined, EndScript
  PROVE  Inv'
<1>1. /\ frames # <<>> /\ to_fill = 0 /\ frames' = <<>> /\ stack' = <<>>
      /\ open' = open /\ to_fill' = to_fill /\ global' = global /\ nvars' = nvars
      /\ loc' = loc /\ closed' = closed /\ captured' = captured /\ upvalues' = upvalues
      /\ nclosures' = nclosures /\ nupvalues' = nupvalues
  BY DEF EndScript, Running, heap
<1>2. Len(frames') = 0 /\ Len(stack') = 0
  BY <1>1
<1>3. \A u \in Upvalue : loc[u] = Closed
  BY EndScriptFacts
<1>4. FramesOK' /\ LocalsOK'
  BY <1>1, <1>2 DEF FramesOK, LocalsOK
<1>5. UpvaluesOK' /\ OpenOK' /\ ClosuresOK'
  BY <1>1, <1>2, <1>3 DEF Inv, UpvaluesOK, OpenOK, ClosuresOK
<1>6. TypeOK'
  BY <1>1, <1>2, Bounds DEF Inv, TypeOK
<1>. QED
  BY <1>4, <1>5, <1>6 DEF Inv

-------------------------------------------------------------------------------
(* Every step of the machine keeps the invariant.                          *)
LEMMA NextStep ==
  ASSUME Inv, Disciplined, [Next]_vars
  PROVE  Inv'
<1>1. CASE \E x \in Number \cup {global} : PushValue(x)
  <2>1. PICK x \in Value : PushValue(x)
    BY <1>1 DEF Inv, TypeOK, Value
  <2>. QED
    BY <2>1, PushValueStep DEF PushValue
<1>2. CASE \E i \in 1..Len(stack) : GetLocal(i) \/ SetLocal(i) \/ CaptureLocal(i)
  <2>1. PICK i \in 1..Len(stack) : GetLocal(i) \/ SetLocal(i) \/ CaptureLocal(i)
    BY <1>2
  <2>2. CASE GetLocal(i)
    BY <2>2, StackFacts, PushValueStep DEF GetLocal
  <2>. QED
    BY <2>1, <2>2, SetLocalStep, CaptureLocalStep
<1>3. CASE \E u \in FrameUpvalues : GetUpvalue(u) \/ SetUpvalue(u) \/ CaptureUpvalue(u)
  <2>1. PICK u \in FrameUpvalues : GetUpvalue(u) \/ SetUpvalue(u) \/ CaptureUpvalue(u)
    BY <1>3
  <2>2. CASE GetUpvalue(u)
    <3>1. PICK x \in Located(u) : stack' = Push(x)
      BY <2>2 DEF GetUpvalue
    <3>2. x \in Value
      BY <3>1, FrameUpvalueFacts
    <3>. QED
      BY <2>2, <3>1, <3>2, PushValueStep DEF GetUpvalue
  <2>. QED
    BY <2>1, <2>2, SetUpvalueStep, CaptureUpvalueStep
<1>4. CASE UNCHANGED vars
  BY <1>4 DEF vars, heap, Inv, TypeOK, FramesOK, LocalsOK, UpvaluesOK, OpenOK, ClosuresOK
<1>. QED
  BY <1>1, <1>2, <1>3, <1>4, BeginScriptStep, EndScriptStep, SetGlobalStep, PopStep, DeclareStep,
     NewClosureStep, CallStep, ReturnStep, BeginBlockStep, EndBlockStep DEF Next

-------------------------------------------------------------------------------
(* In every state of the virtual machine, the invariant holds.             *)
THEOREM Invariance ==
  ASSUME Disciplined
  PROVE  Spec => []Inv
<1>1. Inv /\ [Next]_vars => Inv'
  BY NextStep
<1>. QED
  BY <1>1, InitInv, PTL DEF Spec

(* The state of the virtual machine has its type.                          *)
THEOREM TypeCorrect ==
  ASSUME Disciplined
  PROVE  Spec => []TypeOK
<1>1. Inv => TypeOK
  BY DEF Inv
<1>. QED
  BY <1>1, Invariance, PTL

(* No two upvalues are made for one variable: closures that capture it     *)
(* share it (capture_upvalue).                                             *)
THEOREM OneUpvalue ==
  ASSUME Disciplined
  PROVE  Spec => []OneUpvaluePerVariable
<1>1. Inv => OneUpvaluePerVariable
  <2>. SUFFICES ASSUME Inv, NEW u \in 1..nupvalues, NEW w \in 1..nupvalues,
                       captured[u] = captured[w]
                PROVE  u = w
    BY DEF OneUpvaluePerVariable
  <2>1. u \in Upvalue /\ u <= nupvalues
    BY UpvalueFacts, Bounds DEF Upvalue
  <2>. QED
    BY <2>1 DEF Inv, UpvaluesOK
<1>. QED
  BY <1>1, Invariance, PTL

(* The open list is sorted by slot and holds exactly the upvalues that are *)
(* open (capture_upvalue, close_upvalues).                                 *)
THEOREM Sorted ==
  ASSUME Disciplined
  PROVE  Spec => []OpenListSorted
<1>1. Inv => OpenListSorted
  <2>. SUFFICES ASSUME Inv PROVE OpenListSorted
    OBVIOUS
  <2>1. \A u \in Upvalue : loc[u] # Closed => \E i \in 1..Len(open) : open[i] = u
    BY DEF Inv, OpenOK
  <2>2. \A i \in 1..Len(open) : open[i] \in Upvalue /\ loc[open[i]] # Closed
    BY UpvalueFacts DEF Inv, OpenOK
  <2>3. {open[i] : i \in 1..Len(open)} = {u \in Upvalue : loc[u] # Closed}
    BY <2>1, <2>2
  <2>. QED
    BY <2>3 DEF Inv, OpenOK, OpenListSorted
<1>. QED
  BY <1>1, Invariance, PTL

(* An open upvalue of a closure points to the slot of the variable it was  *)
(* made for.                                                               *)
THEOREM Follow ==
  ASSUME Disciplined
  PROVE  Spec => []UpvaluesFollowVariables
<1>1. Inv => UpvaluesFollowVariables
  <2>. SUFFICES ASSUME Inv, NEW c \in Closure, NEW j \in 1..Len(upvalues[c])
                PROVE  \/ loc[upvalues[c][j]] = Closed
                       \/ /\ loc[upvalues[c][j]] <= Len(stack)
                          /\ stack[loc[upvalues[c][j]]].var = captured[upvalues[c][j]]
    BY DEF UpvaluesFollowVariables, Usable
  <2>1. upvalues[c][j] \in Upvalue
    BY UpvalueFacts
  <2>. QED
    BY <2>1 DEF Inv, UpvaluesOK
<1>. QED
  BY <1>1, Invariance, PTL

-------------------------------------------------------------------------------
(* The refinement: what the abstract specification sees.                   *)

(* A variable has the value of its slot, or else of its closed upvalue.    *)
ValuesFollow ==
  /\ Values = [v \in Var |-> Values[v]]
  /\ \A v \in Var :
       /\ \A i \in 1..Len(stack) : stack[i].var = v => Values[v] = stack[i].val
       /\ \A u \in Upvalue :
            u <= nupvalues /\ captured[u] = v /\ loc[u] = Closed => Values[v] = closed[u]
       /\ \/ \E i \in 1..Len(stack) : stack[i].var = v
          \/ \E u \in Upvalue : u <= nupvalues /\ captured[u] = v /\ loc[u] = Closed
          \/ Values[v] = NoValue

(* A closure refers to the variables its upvalues were made for.           *)
EnvsFollow ==
  /\ Envs = [c \in Closure |-> Envs[c]]
  /\ \A c \in Closure : \A v :
       v \in Envs[c] <=> \E j \in 1..Len(upvalues[c]) : captured[upvalues[c][j]] = v

(* The variables are numbered.                                             *)
LEMMA VarFacts == \A v : v \in Var <=> v \in 1..VarMax
BY DEF Var

(* The two machines hold the same values.                                  *)
LEMMA ValueFacts == Inv => ValuesFollow
<1>. SUFFICES ASSUME Inv PROVE ValuesFollow
  OBVIOUS
<1>1. Values = [v \in Var |-> Values[v]]
  BY DEF Values
<1>2. ASSUME NEW v \in Var
      PROVE  /\ \A i \in 1..Len(stack) : stack[i].var = v => Values[v] = stack[i].val
             /\ \A u \in Upvalue :
                  u <= nupvalues /\ captured[u] = v /\ loc[u] = Closed => Values[v] = closed[u]
             /\ \/ \E i \in 1..Len(stack) : stack[i].var = v
                \/ \E u \in Upvalue : u <= nupvalues /\ captured[u] = v /\ loc[u] = Closed
                \/ Values[v] = NoValue
  <2>1. v # Temp
    BY Bounds DEF Var, Temp
  <2>2. PICK slots : \A i : i \in slots <=> i \in 1..Len(stack) /\ stack[i].var = v
    <3>1. \A i : i \in {j \in 1..Len(stack) : stack[j].var = v} <=> i \in 1..Len(stack) /\ stack[i].var = v
      OBVIOUS
    <3>. QED
      BY <3>1
  <2>3. slots = {i \in 1..Len(stack) : stack[i].var = v}
    BY <2>2
  <2>4. PICK ups : ups = {u \in 1..nupvalues : captured[u] = v /\ loc[u] = Closed}
    OBVIOUS
  <2>5. \A u : u \in ups <=> u \in Upvalue /\ u <= nupvalues /\ captured[u] = v /\ loc[u] = Closed
    <3>1. \A u : u \in 1..nupvalues <=> u \in Upvalue /\ u <= nupvalues
      BY UpvalueFacts, Bounds DEF Upvalue
    <3>. QED
      BY <2>4, <3>1
  <2>6. Values[v] = CASE slots # {} -> stack[CHOOSE i \in slots : TRUE].val
                      [] slots = {} /\ ups # {} -> closed[CHOOSE u \in ups : TRUE]
                      [] OTHER -> NoValue
    BY <2>3, <2>4 DEF Values, ValueOf
  <2>7. ASSUME NEW i \in 1..Len(stack), stack[i].var = v PROVE Values[v] = stack[i].val
    <3>1. PICK k \in slots : k = CHOOSE j \in slots : TRUE
      BY <2>2, <2>7
    <3>2. k = i
      BY <2>1, <2>2, <2>7, <3>1 DEF Inv, LocalsOK
    <3>3. slots # {}
      BY <3>1
    <3>. QED
      BY <2>6, <3>1, <3>2, <3>3
  <2>8. ASSUME NEW u \in Upvalue, u <= nupvalues, captured[u] = v, loc[u] = Closed
        PROVE  Values[v] = closed[u]
    <3>1. slots = {}
      BY <2>2, <2>8 DEF Inv, UpvaluesOK
    <3>2. PICK k \in ups : k = CHOOSE w \in ups : TRUE
      BY <2>5, <2>8
    <3>3. k = u
      <4>1. k \in Upvalue /\ k <= nupvalues /\ captured[k] = captured[u] /\ k \in 1..nupvalues
        BY <2>4, <2>5, <2>8, <3>2
      <4>. QED
        BY <2>8, <4>1 DEF Inv, UpvaluesOK
    <3>4. ups # {}
      BY <3>2
    <3>. QED
      BY <2>6, <3>1, <3>2, <3>3, <3>4
  <2>9. slots = {} /\ ups = {} => Values[v] = NoValue
    BY <2>6
  <2>. QED
    BY <2>2, <2>5, <2>7, <2>8, <2>9
<1>. QED
  BY <1>1, <1>2 DEF ValuesFollow

LEMMA ValueFactsNext ==
  ASSUME Inv'
  PROVE  ValuesFollow'
BY ValueFacts, PTL

LEMMA EnvFacts == EnvsFollow
BY DEF EnvsFollow, Envs, Env

LEMMA EnvFactsNext == EnvsFollow'
BY EnvFacts, PTL

(* A captured variable exists, and so does one with a slot.                *)
LEMMA ExistFacts ==
  ASSUME Inv
  PROVE  /\ \A i \in 1..Len(stack) : stack[i].var # Temp =>
              /\ stack[i].var \in Var /\ Values[stack[i].var] = stack[i].val
              /\ Values[stack[i].var] \in Value /\ Abstract!Exists(stack[i].var)
         /\ \A u \in Upvalue : u <= nupvalues =>
              /\ captured[u] \in Var /\ Values[captured[u]] \in Value
              /\ Values[captured[u]] = IF loc[u] = Closed THEN closed[u] ELSE stack[loc[u]].val
              /\ Abstract!Exists(captured[u])
<1>1. ValuesFollow
  BY ValueFacts
<1>2. NoValue \notin Value
  BY Bounds
<1>3. ASSUME NEW i \in 1..Len(stack), stack[i].var # Temp
      PROVE  stack[i].var \in Var /\ Values[stack[i].var] = stack[i].val /\ stack[i].val \in Value
  <2>1. stack[i].var \in Var
    BY <1>3, StackFacts DEF Var, Temp
  <2>. QED
    BY <1>1, <2>1, StackFacts DEF ValuesFollow
<1>4. ASSUME NEW u \in Upvalue, u <= nupvalues
      PROVE  /\ captured[u] \in Var /\ Values[captured[u]] \in Value
             /\ Values[captured[u]] = IF loc[u] = Closed THEN closed[u] ELSE stack[loc[u]].val
  <2>1. captured[u] \in Var
    BY <1>4, StackFacts, Bounds DEF Inv, UpvaluesOK, Var
  <2>2. CASE loc[u] = Closed
    BY <1>1, <1>4, <2>1, <2>2 DEF ValuesFollow, Inv, UpvaluesOK
  <2>3. CASE loc[u] # Closed
    BY <1>3, <2>1, <2>3, OpenFacts
  <2>. QED
    BY <2>1, <2>2, <2>3
<1>. QED
  BY <1>2, <1>3, <1>4 DEF Abstract!Exists

LEMMA EnvsKept ==
  ASSUME captured' = captured, upvalues' = upvalues
  PROVE  Envs' = Envs
<1>1. /\ Envs = [c \in Closure |-> {captured[upvalues[c][j]] : j \in 1..Len(upvalues[c])}]
      /\ Envs' = [c \in Closure |-> {captured'[upvalues'[c][j]] : j \in 1..Len(upvalues'[c])}]
  BY DEF Envs, Env
<1>. QED
  BY <1>1

(* Outside of Return: a variable loses its value with its slot or never.   *)
LEMMA KeptValues ==
  ASSUME Inv, Inv',
         \A u \in Upvalue : u <= nupvalues' /\ loc'[u] = Closed <=> u <= nupvalues /\ loc[u] = Closed,
         \A u \in Upvalue : u <= nupvalues /\ loc[u] = Closed =>
           captured'[u] = captured[u] /\ closed'[u] = closed[u],
         \A i \in 1..Len(stack') : stack'[i].var # Temp => i \in 1..Len(stack) /\ stack'[i] = stack[i]
  PROVE  \A v \in Var :
           \/ Values'[v] = Values[v]
           \/ /\ Values'[v] = NoValue
              /\ \E i \in 1..Len(stack) : /\ stack[i].var = v /\ stack[i].var # Temp
                                          /\ ~(i \in 1..Len(stack') /\ stack'[i] = stack[i])
<1>. SUFFICES ASSUME NEW v \in Var
     PROVE  \/ Values'[v] = Values[v]
            \/ /\ Values'[v] = NoValue
               /\ \E i \in 1..Len(stack) : /\ stack[i].var = v /\ stack[i].var # Temp
                                           /\ ~(i \in 1..Len(stack') /\ stack'[i] = stack[i])
  OBVIOUS
<1>1. ValuesFollow /\ ValuesFollow'
  BY ValueFacts, ValueFactsNext
<1>2. v # Temp
  BY Bounds DEF Var, Temp
<1>3. CASE \E i \in 1..Len(stack) : stack[i].var = v
  <2>1. PICK i \in 1..Len(stack) : stack[i].var = v
    BY <1>3
  <2>2. CASE i \in 1..Len(stack') /\ stack'[i] = stack[i]
    BY <1>1, <2>1, <2>2 DEF ValuesFollow
  <2>3. CASE ~(i \in 1..Len(stack') /\ stack'[i] = stack[i])
    <3>1. ASSUME NEW k \in 1..Len(stack'), stack'[k].var = v PROVE FALSE
      <4>1. k \in 1..Len(stack) /\ stack'[k] = stack[k]
        BY <1>2, <3>1
      <4>2. k = i
        BY <1>2, <2>1, <3>1, <4>1 DEF Inv, LocalsOK
      <4>. QED
        BY <2>3, <4>1, <4>2
    <3>2. ASSUME NEW u \in Upvalue, u <= nupvalues', captured'[u] = v, loc'[u] = Closed PROVE FALSE
      BY <2>1, <3>2 DEF Inv, UpvaluesOK
    <3>3. Values'[v] = NoValue
      BY <1>1, <3>1, <3>2 DEF ValuesFollow
    <3>. QED
      BY <1>2, <2>1, <2>3, <3>3
  <2>. QED
    BY <2>2, <2>3
<1>4. CASE \E u \in Upvalue : u <= nupvalues /\ captured[u] = v /\ loc[u] = Closed
  <2>1. PICK u \in Upvalue : u <= nupvalues /\ captured[u] = v /\ loc[u] = Closed
    BY <1>4
  <2>2. u <= nupvalues' /\ loc'[u] = Closed /\ captured'[u] = v /\ closed'[u] = closed[u]
    BY <2>1
  <2>. QED
    BY <1>1, <2>1, <2>2 DEF ValuesFollow
<1>5. CASE /\ ~\E i \in 1..Len(stack) : stack[i].var = v
           /\ ~\E u \in Upvalue : u <= nupvalues /\ captured[u] = v /\ loc[u] = Closed
  <2>1. Values[v] = NoValue
    BY <1>1, <1>5 DEF ValuesFollow
  <2>2. ~\E i \in 1..Len(stack') : stack'[i].var = v
    BY <1>2, <1>5
  <2>3. ~\E u \in Upvalue : u <= nupvalues' /\ captured'[u] = v /\ loc'[u] = Closed
    BY <1>5
  <2>4. Values'[v] = NoValue
    BY <1>1, <2>2, <2>3 DEF ValuesFollow
  <2>. QED
    BY <2>1, <2>4
<1>. QED
  BY <1>3, <1>4, <1>5

(* Then, if every variable keeps its slot, they all keep their values.     *)
LEMMA SameValues ==
  ASSUME Inv, Inv',
         \A u \in Upvalue : u <= nupvalues' /\ loc'[u] = Closed <=> u <= nupvalues /\ loc[u] = Closed,
         \A u \in Upvalue : u <= nupvalues /\ loc[u] = Closed =>
           captured'[u] = captured[u] /\ closed'[u] = closed[u],
         \A i \in 1..Len(stack') : stack'[i].var # Temp => i \in 1..Len(stack) /\ stack'[i] = stack[i],
         \A i \in 1..Len(stack) : stack[i].var # Temp => i \in 1..Len(stack') /\ stack'[i] = stack[i]
  PROVE  Values' = Values
<1>1. \A v \in Var : Values'[v] = Values[v]
  BY KeptValues
<1>2. Values = [v \in Var |-> Values[v]] /\ Values' = [v \in Var |-> Values'[v]]
  BY ValueFacts, ValueFactsNext DEF ValuesFollow
<1>. QED
  BY <1>1, <1>2

(* Variables that go are of no closure.                                    *)
LEMMA LeaveStep ==
  ASSUME Inv, Inv', access' = NoAccess, Envs' = Envs,
         \A v \in Var : \/ Values'[v] = Values[v]
                        \/ /\ Values'[v] = NoValue
                           /\ \A u \in Upvalue : u <= nupvalues => captured[u] # v
  PROVE  Abstract!Next
<1>. DEFINE gone == {v \in Var : Values'[v] # Values[v]}
<1>1. Values' = [v \in Var |-> Values'[v]]
  BY ValueFactsNext DEF ValuesFollow
<1>2. ASSUME NEW v \in gone, NEW c \in Closure PROVE v \notin Envs[c]
  <2>1. SUFFICES ASSUME v \in Envs[c] PROVE FALSE
    OBVIOUS
  <2>2. PICK j \in 1..Len(upvalues[c]) : captured[upvalues[c][j]] = v
    BY <2>1, EnvFacts DEF EnvsFollow
  <2>3. upvalues[c][j] \in Upvalue /\ upvalues[c][j] <= nupvalues
    BY UpvalueFacts DEF Inv, ClosuresOK
  <2>. QED
    BY <2>2, <2>3
<1>3. gone \in SUBSET {v \in Var : \A c \in Closure : v \notin Envs[c]}
  BY <1>2
<1>4. Values' = [v \in Var |-> IF v \in gone THEN NoValue ELSE Values[v]]
  <2>1. \A v \in Var : Values'[v] = IF v \in gone THEN NoValue ELSE Values[v]
    OBVIOUS
  <2>. HIDE DEF gone
  <2>2. [v \in Var |-> Values'[v]] = [v \in Var |-> IF v \in gone THEN NoValue ELSE Values[v]]
    BY <2>1
  <2>. QED
    BY <1>1, <2>2
<1>5. Abstract!Leave
  <2>1. access' = Abstract!NoAccess
    BY DEF NoAccess, Abstract!NoAccess
  <2>. HIDE DEF gone
  <2>. QED
    BY <1>3, <1>4, <2>1 DEF Abstract!Leave
<1>. QED
  BY <1>5 DEF Abstract!Next

LEMMA ReadStep ==
  ASSUME NEW v \in Var, Abstract!Exists(v), Values' = Values, Envs' = Envs,
         access' = Access("read", v, Values[v])
  PROVE  Abstract!Next
<1>1. Abstract!Read(v)
  BY DEF Abstract!Read, Access, Abstract!Access
<1>. QED
  BY <1>1 DEF Abstract!Next

(* A variable is assigned in its slot or in its closed upvalue.            *)
LEMMA WriteStep ==
  ASSUME Inv, Inv', NEW v \in Var, NEW x \in Value, Abstract!Exists(v),
         UNCHANGED <<loc, captured, nupvalues, upvalues>>, Len(stack') = Len(stack),
         \A i \in 1..Len(stack) : /\ stack'[i].var = stack[i].var
                                  /\ stack[i].var = v => stack'[i].val = x
                                  /\ stack[i].var # v => stack'[i].val = stack[i].val,
         \A u \in Upvalue : u <= nupvalues /\ loc[u] = Closed =>
           /\ captured[u] = v => closed'[u] = x
           /\ captured[u] # v => closed'[u] = closed[u],
         access' = Access("write", v, x)
  PROVE  Abstract!Next
<1>1. ValuesFollow /\ ValuesFollow'
  BY ValueFacts, ValueFactsNext
<1>2. ASSUME NEW w \in Var PROVE Values'[w] = IF w = v THEN x ELSE Values[w]
  <2>1. CASE \E i \in 1..Len(stack) : stack[i].var = w
    <3>1. PICK i \in 1..Len(stack) : stack[i].var = w
      BY <2>1
    <3>2. Values[w] = stack[i].val /\ Values'[w] = stack'[i].val
      BY <1>1, <3>1 DEF ValuesFollow
    <3>. QED
      BY <3>1, <3>2
  <2>2. CASE \E u \in Upvalue : u <= nupvalues /\ captured[u] = w /\ loc[u] = Closed
    <3>1. PICK u \in Upvalue : u <= nupvalues /\ captured[u] = w /\ loc[u] = Closed
      BY <2>2
    <3>2. Values[w] = closed[u] /\ Values'[w] = closed'[u]
      BY <1>1, <3>1 DEF ValuesFollow
    <3>. QED
      BY <3>1, <3>2
  <2>3. CASE /\ ~\E i \in 1..Len(stack) : stack[i].var = w
             /\ ~\E u \in Upvalue : u <= nupvalues /\ captured[u] = w /\ loc[u] = Closed
    <3>1. Values[w] = NoValue /\ w # v
      BY <1>1, <2>3 DEF ValuesFollow, Abstract!Exists
    <3>2. Values'[w] = NoValue
      BY <1>1, <2>3 DEF ValuesFollow
    <3>. QED
      BY <3>1, <3>2
  <2>. QED
    BY <2>1, <2>2, <2>3
<1>3. Values = [w \in Var |-> Values[w]] /\ Values' = [w \in Var |-> Values'[w]]
  BY <1>1 DEF ValuesFollow
<1>4. Values' = [Values EXCEPT ![v] = x]
  BY <1>2, <1>3
<1>5. Envs' = Envs
  BY EnvsKept
<1>6. Abstract!Write(v, x)
  BY <1>4, <1>5 DEF Abstract!Write, Access, Abstract!Access
<1>. QED
  BY <1>6 DEF Abstract!Next

(* A closure gets one more upvalue, which makes it refer to a variable.    *)
LEMMA CaptureStep ==
  ASSUME Inv, NEW c \in Closure, NEW v \in Var, NEW u, Abstract!Exists(v),
         Values' = Values,
         upvalues' = [upvalues EXCEPT ![c] = Append(upvalues[c], u)], captured'[u] = v,
         \A w \in Upvalue : w <= nupvalues => captured'[w] = captured[w],
         access' = NoAccess
  PROVE  Abstract!Next
<1>1. EnvsFollow /\ EnvsFollow'
  BY EnvFacts, EnvFactsNext
<1>2. ASSUME NEW d \in Closure, NEW j \in 1..Len(upvalues[d])
      PROVE  captured'[upvalues[d][j]] = captured[upvalues[d][j]]
  BY UpvalueFacts DEF Inv, ClosuresOK
<1>3. upvalues \in [Closure -> Seq(Upvalue)]
  BY DEF Inv, TypeOK
<1>4. PICK s \in Seq(Upvalue) : s = upvalues[c]
  BY <1>3
<1>5. /\ upvalues'[c] = Append(s, u)
      /\ \A d \in Closure : d # c => upvalues'[d] = upvalues[d]
  BY <1>3, <1>4
<1>6. /\ Len(s) \in Nat /\ Len(Append(s, u)) = Len(s) + 1 /\ Append(s, u)[Len(s) + 1] = u
      /\ \A j \in 1..Len(s) : Append(s, u)[j] = s[j]
  OBVIOUS
<1>7. ASSUME NEW w PROVE w \in Envs'[c] <=> w \in Envs[c] \/ w = v
  <2>1. w \in Envs'[c] <=> \E j \in 1..Len(s) + 1 : captured'[Append(s, u)[j]] = w
    BY <1>1, <1>5, <1>6 DEF EnvsFollow
  <2>2. w \in Envs[c] <=> \E j \in 1..Len(s) : captured[s[j]] = w
    BY <1>1, <1>4 DEF EnvsFollow
  <2>3. \A j \in 1..Len(s) : captured'[Append(s, u)[j]] = captured[s[j]]
    BY <1>2, <1>4, <1>6
  <2>4. captured'[Append(s, u)[Len(s) + 1]] = v
    BY <1>6
  <2>5. Len(s) + 1 \in 1..Len(s) + 1 /\ \A j \in 1..Len(s) : j \in 1..Len(s) + 1
    BY <1>6
  <2>6. \A j \in 1..Len(s) + 1 : j \in 1..Len(s) \/ j = Len(s) + 1
    BY <1>6
  <2>. QED
    BY <2>1, <2>2, <2>3, <2>4, <2>5, <2>6
<1>8. ASSUME NEW d \in Closure, d # c, NEW w PROVE w \in Envs'[d] <=> w \in Envs[d]
  <2>1. PICK t \in Seq(Upvalue) : t = upvalues[d]
    BY <1>3
  <2>2. t = upvalues'[d]
    BY <1>5, <1>8, <2>1
  <2>3. w \in Envs'[d] <=> \E j \in 1..Len(t) : captured'[t[j]] = w
    BY <1>1, <2>2 DEF EnvsFollow
  <2>4. w \in Envs[d] <=> \E j \in 1..Len(t) : captured[t[j]] = w
    BY <1>1, <2>1 DEF EnvsFollow
  <2>5. \A j \in 1..Len(t) : captured'[t[j]] = captured[t[j]]
    BY <1>2, <2>1
  <2>. QED
    BY <2>3, <2>4, <2>5
<1>9. ASSUME NEW d \in Closure PROVE Envs'[d] = IF d = c THEN Envs[c] \cup {v} ELSE Envs[d]
  <2>1. CASE d = c
    <3>1. Envs'[c] = Envs[c] \cup {v}
      <4>1. \A w : w \in Envs[c] \cup {v} <=> w \in Envs[c] \/ w = v
        OBVIOUS
      <4>2. PICK e : e = Envs[c] \cup {v}
        OBVIOUS
      <4>3. PICK f : f = Envs'[c]
        OBVIOUS
      <4>4. \A w : w \in f <=> w \in e
        BY <1>7, <4>1, <4>2, <4>3
      <4>. QED
        BY <4>2, <4>3, <4>4
    <3>. QED
      BY <2>1, <3>1
  <2>2. CASE d # c
    <3>1. PICK e, f : e = Envs[d] /\ f = Envs'[d]
      OBVIOUS
    <3>2. \A w : w \in f <=> w \in e
      BY <1>8, <2>2, <3>1
    <3>. QED
      BY <2>2, <3>1, <3>2
  <2>. QED
    BY <2>1, <2>2
<1>10. Envs' = [Envs EXCEPT ![c] = @ \cup {v}]
  <2>1. Envs = [d \in Closure |-> Envs[d]] /\ Envs' = [d \in Closure |-> Envs'[d]]
    BY <1>1 DEF EnvsFollow
  <2>2. [Envs EXCEPT ![c] = @ \cup {v}] = [d \in Closure |-> IF d = c THEN Envs[c] \cup {v} ELSE Envs[d]]
    BY <2>1
  <2>. QED
    BY <1>9, <2>1, <2>2
<1>11. Abstract!Capture(c, v)
  BY <1>10 DEF Abstract!Capture, NoAccess, Abstract!NoAccess
<1>. QED
  BY <1>11 DEF Abstract!Next

(* New variables have slots, and no other variable has changed.            *)
LEMMA NewVariablesStep ==
  ASSUME Inv, Inv', UNCHANGED <<loc, closed, captured, upvalues, nupvalues>>,
         NEW new \in SUBSET Var, \A v \in new : v > nvars,
         \A i \in 1..Len(stack) : stack[i].var # Temp => i \in 1..Len(stack') /\ stack'[i] = stack[i],
         \A i \in 1..Len(stack') : stack'[i].var # Temp =>
           (i \in 1..Len(stack) /\ stack'[i] = stack[i]) \/ stack'[i].var \in new,
         \A v \in new : \E i \in 1..Len(stack') : stack'[i].var = v,
         access' \in {NoAccess} \cup {Access("read", v, Values'[v]) : v \in new}
  PROVE  Abstract!Next
<1>1. ValuesFollow /\ ValuesFollow'
  BY ValueFacts, ValueFactsNext
<1>2. \A i \in 1..Len(stack') : stack'[i].val \in Value
  <2>1. stack' \in Seq(Slot)
    BY DEF Inv, TypeOK
  <2>2. \A e \in Slot : e.val \in Value
    BY DEF Slot
  <2>. QED
    BY <2>1, <2>2
<1>3. ASSUME NEW v \in new PROVE Values[v] = NoValue /\ Values'[v] \in Value
  <2>1. v \in Var /\ v # Temp /\ v \in Nat /\ v > nvars /\ nvars \in Nat
    BY Bounds, StackFacts DEF Var, Temp
  <2>2. ~\E i \in 1..Len(stack) : stack[i].var = v
    BY <2>1 DEF Inv, LocalsOK
  <2>3. ~\E u \in Upvalue : u <= nupvalues /\ captured[u] = v
    BY <2>1 DEF Inv, UpvaluesOK
  <2>4. Values[v] = NoValue
    BY <1>1, <2>1, <2>2, <2>3 DEF ValuesFollow
  <2>5. Values'[v] \in Value
    BY <1>1, <1>2, <2>1 DEF ValuesFollow
  <2>. QED
    BY <2>4, <2>5
<1>4. ASSUME NEW v \in Var \ new PROVE Values'[v] = Values[v]
  <2>1. v # Temp /\ v \in Var
    BY Bounds DEF Var, Temp
  <2>2. CASE \E i \in 1..Len(stack) : stack[i].var = v
    BY <1>1, <2>1, <2>2 DEF ValuesFollow
  <2>3. CASE \E u \in Upvalue : u <= nupvalues /\ captured[u] = v /\ loc[u] = Closed
    BY <1>1, <2>1, <2>3 DEF ValuesFollow
  <2>4. CASE /\ ~\E i \in 1..Len(stack) : stack[i].var = v
             /\ ~\E u \in Upvalue : u <= nupvalues /\ captured[u] = v /\ loc[u] = Closed
    <3>1. Values[v] = NoValue
      BY <1>1, <2>1, <2>4 DEF ValuesFollow
    <3>2. ~\E i \in 1..Len(stack') : stack'[i].var = v
      BY <1>4, <2>1, <2>4
    <3>3. Values'[v] = NoValue
      BY <1>1, <2>1, <2>4, <3>2 DEF ValuesFollow
    <3>. QED
      BY <3>1, <3>3
  <2>. QED
    BY <2>2, <2>3, <2>4
<1>5. DOMAIN Values' = Var
  <2>1. PICK f : f = Values' /\ f = [v \in Var |-> f[v]]
    BY <1>1 DEF ValuesFollow
  <2>. QED
    BY <2>1
<1>6. Envs' = Envs
  BY EnvsKept
<1>7. access' \in {Abstract!NoAccess} \cup {Abstract!Access("read", v, Values'[v]) : v \in new}
  BY DEF NoAccess, Abstract!NoAccess, Access, Abstract!Access
<1>8. Abstract!Declare(new)
  BY <1>3, <1>4, <1>5, <1>6, <1>7 DEF Abstract!Declare, Abstract!Exists
<1>. QED
  BY <1>8 DEF Abstract!Next

(* A step that leaves the slots of variables and the upvalues alone.       *)
LEMMA QuietFacts ==
  ASSUME Inv, Inv', UNCHANGED <<loc, closed, captured, upvalues, nupvalues>>,
         \A i \in 1..Len(stack') : stack'[i].var # Temp => i \in 1..Len(stack) /\ stack'[i] = stack[i],
         \A i \in 1..Len(stack) : stack[i].var # Temp => i \in 1..Len(stack') /\ stack'[i] = stack[i]
  PROVE  /\ Values' = Values /\ Envs' = Envs
         /\ access' = NoAccess => Abstract!Next
<1>1. Values' = Values
  BY SameValues
<1>2. Envs' = Envs
  BY EnvsKept
<1>3. ASSUME access' = NoAccess PROVE Abstract!Next
  BY <1>1, <1>2, <1>3, LeaveStep
<1>. QED
  BY <1>1, <1>2, <1>3

LEMMA PushRefines ==
  ASSUME Inv, Inv', NEW x \in Value, HasRoom, stack' = Push(x),
         UNCHANGED <<loc, closed, captured, upvalues, nupvalues>>
  PROVE  /\ Values' = Values /\ Envs' = Envs
         /\ access' = NoAccess => Abstract!Next
BY PushFacts, QuietFacts

LEMMA DeclareRefines ==
  ASSUME Inv, Inv', Declare
  PROVE  Abstract!Next
<1>. DEFINE n == Len(stack)
<1>1. /\ n \in Nat /\ n \in 1..n /\ nvars' = nvars + 1 /\ nvars' \in Var /\ nvars \in Nat
      /\ Len(stack') = n + 1 /\ stack[n].var = Temp
      /\ stack'[n] = [val |-> stack[n].val, var |-> nvars']
      /\ stack'[n + 1].var = Temp
      /\ \A i \in 1..n - 1 : stack'[i] = stack[i]
      /\ loc' = loc /\ closed' = closed /\ captured' = captured /\ upvalues' = upvalues
      /\ nupvalues' = nupvalues
  BY DeclareFacts, StackFacts
<1>2. access' = Access("read", nvars', stack[n].val)
  BY DEF Declare, Top
<1>3. \A i \in 1..n + 1 : i \in 1..n - 1 \/ i = n \/ i = n + 1
  BY <1>1
<1>4. \A i \in 1..n - 1 : i \in 1..n /\ i \in 1..n + 1
  BY <1>1
<1>5. n \in 1..n + 1 /\ \A i \in 1..n : i \in 1..n - 1 \/ i = n
  BY <1>1
<1>6. stack'[n].var = nvars' /\ stack'[n].val = stack[n].val
  BY <1>1
<1>7. Values'[nvars'] = stack[n].val
  BY <1>1, <1>5, <1>6, ValueFactsNext DEF ValuesFollow
<1>8. PICK new \in SUBSET Var : new = {nvars'}
  BY <1>1
<1>9. \A v \in new : v > nvars
  BY <1>1, <1>8
<1>10. \A i \in 1..Len(stack) : stack[i].var # Temp => i \in 1..Len(stack') /\ stack'[i] = stack[i]
  BY <1>1, <1>4, <1>5
<1>11. \A i \in 1..Len(stack') : stack'[i].var # Temp =>
         (i \in 1..Len(stack) /\ stack'[i] = stack[i]) \/ stack'[i].var \in new
  BY <1>1, <1>3, <1>4, <1>6, <1>8
<1>12. \A v \in new : \E i \in 1..Len(stack') : stack'[i].var = v
  BY <1>1, <1>5, <1>6, <1>8
<1>13. access' \in {NoAccess} \cup {Access("read", v, Values'[v]) : v \in new}
  BY <1>2, <1>7, <1>8
<1>. QED
  BY <1>1, <1>9, <1>10, <1>11, <1>12, <1>13, NewVariablesStep

LEMMA CallRefines ==
  ASSUME Inv, Inv', NEW n \in 0..Len(stack) - 1, Call(n)
  PROVE  Abstract!Next
<1>1. PICK base \in 1..Len(stack) :
        /\ base = Len(stack) - n
        /\ \A i \in base..Len(stack) : stack[i].var = Temp
        /\ nvars' = nvars + n /\ nvars' \in 0..VarMax
        /\ Len(stack') = Len(stack)
        /\ \A i \in 1..base : stack'[i] = stack[i]
        /\ \A i \in base + 1..Len(stack) : stack'[i].var = nvars + (i - base)
        /\ UNCHANGED <<loc, closed, captured, upvalues, nupvalues>>
  BY CallFacts
<1>2. Len(stack) \in Nat /\ nvars \in Nat /\ n \in Nat /\ base \in Nat /\ VarMax \in Nat
  BY StackFacts, Bounds
<1>3. \A i \in 1..Len(stack) : i \in 1..base \/ i \in base + 1..Len(stack)
  BY <1>2
<1>4. PICK new \in SUBSET Var : \A v : v \in new <=> v \in nvars + 1..nvars + n
  <2>1. nvars + 1..nvars + n \in SUBSET Var
    BY <1>1, <1>2 DEF Var
  <2>. QED
    BY <2>1
<1>5. \A v \in new : v > nvars
  BY <1>2, <1>4
<1>6. \A i \in 1..Len(stack) : stack[i].var # Temp => i \in 1..Len(stack') /\ stack'[i] = stack[i]
  <2>1. \A i \in base + 1..Len(stack) : i \in base..Len(stack)
    BY <1>2
  <2>. QED
    BY <1>1, <1>3, <2>1
<1>7. \A i \in 1..Len(stack') : stack'[i].var # Temp =>
        (i \in 1..Len(stack) /\ stack'[i] = stack[i]) \/ stack'[i].var \in new
  <2>1. \A i \in base + 1..Len(stack) : nvars + (i - base) \in nvars + 1..nvars + n
    BY <1>1, <1>2
  <2>2. \A i \in base + 1..Len(stack) : stack'[i].var \in new
    BY <1>1, <1>4, <2>1
  <2>3. \A i \in 1..base : i \in 1..Len(stack) /\ stack'[i] = stack[i]
    BY <1>1, <1>2
  <2>4. Len(stack') = Len(stack)
    BY <1>1
  <2>. QED
    BY <1>3, <2>2, <2>3, <2>4
<1>8. ASSUME NEW v \in new PROVE \E i \in 1..Len(stack') : stack'[i].var = v
  <2>1. v \in nvars + 1..nvars + n
    BY <1>4
  <2>2. /\ base + (v - nvars) \in base + 1..Len(stack)
        /\ base + (v - nvars) \in 1..Len(stack)
        /\ nvars + ((base + (v - nvars)) - base) = v
    BY <1>1, <1>2, <2>1
  <2>. QED
    BY <1>1, <2>2
<1>9. access' \in {NoAccess} \cup {Access("read", v, Values'[v]) : v \in new}
  BY DEF Call
<1>. QED
  BY <1>1, <1>5, <1>6, <1>7, <1>8, <1>9, NewVariablesStep

(* A variable that leaves with its block is not captured.                  *)
LEMMA EndBlockRefines ==
  ASSUME Inv, Inv', Disciplined, EndBlock
  PROVE  Abstract!Next
<1>2. access' = NoAccess /\ UNCHANGED <<loc, closed, captured, upvalues, nupvalues>>
  BY DEF EndBlock, heap
<1>3. PICK first \in 1..StackMax :
        /\ first \in Nat /\ Len(stack') = first + 1
        /\ \A i \in 1..first : i \in 1..Len(stack) /\ stack'[i] = stack[i]
        /\ \A i \in 1..Len(stack') : stack'[i].var # Temp => i \in 1..Len(stack) /\ stack'[i] = stack[i]
        /\ \A u \in Upvalue : ~(loc[u] >= first + 1)
  BY EndBlockFacts
<1>4. ASSUME NEW v \in Var
      PROVE  \/ Values'[v] = Values[v]
             \/ Values'[v] = NoValue /\ \A u \in Upvalue : u <= nupvalues => captured[u] # v
  <2>1. \/ Values'[v] = Values[v]
        \/ /\ Values'[v] = NoValue
           /\ \E i \in 1..Len(stack) : /\ stack[i].var = v /\ stack[i].var # Temp
                                       /\ ~(i \in 1..Len(stack') /\ stack'[i] = stack[i])
    BY <1>2, <1>3, KeptValues
  <2>2. ASSUME NEW i \in 1..Len(stack), stack[i].var = v, stack[i].var # Temp,
               ~(i \in 1..Len(stack') /\ stack'[i] = stack[i])
        PROVE  \A u \in Upvalue : u <= nupvalues => captured[u] # v
    <3>1. i >= first + 1
      <4>1. i \notin 1..first /\ Len(stack) \in Nat
        <5>1. \A k \in 1..first : k \in 1..Len(stack')
          BY <1>3
        <5>. QED
          BY <1>3, <2>2, <5>1, StackFacts
      <4>. QED
        BY <1>3, <4>1, StackFacts
    <3>2. \A u \in Upvalue : loc[u] # i
      BY <1>3, <3>1
    <3>. QED
      BY <2>2, <3>2, Uncaptured
  <2>. QED
    BY <2>1, <2>2
<1>5. Envs' = Envs
  BY <1>2, EnvsKept
<1>. QED
  BY <1>2, <1>4, <1>5, LeaveStep

(* At the end of a script no variable with a slot is captured.             *)
LEMMA EndScriptRefines ==
  ASSUME Inv, Inv', Disciplined, EndScript
  PROVE  Abstract!Next
<1>1. /\ stack' = <<>> /\ access' = NoAccess
      /\ UNCHANGED <<loc, closed, captured, upvalues, nupvalues>>
  BY DEF EndScript, heap
<1>2. \A u \in Upvalue : loc[u] = Closed
  BY EndScriptFacts
<1>3. ASSUME NEW v \in Var
      PROVE  \/ Values'[v] = Values[v]
             \/ Values'[v] = NoValue /\ \A u \in Upvalue : u <= nupvalues => captured[u] # v
  <2>1. \/ Values'[v] = Values[v]
        \/ /\ Values'[v] = NoValue
           /\ \E i \in 1..Len(stack) : /\ stack[i].var = v /\ stack[i].var # Temp
                                       /\ ~(i \in 1..Len(stack') /\ stack'[i] = stack[i])
    BY <1>1, KeptValues
  <2>2. ASSUME NEW i \in 1..Len(stack), stack[i].var = v, stack[i].var # Temp
        PROVE  \A u \in Upvalue : u <= nupvalues => captured[u] # v
    <3>1. \A u \in Upvalue : loc[u] # i
      BY <1>2, StackFacts DEF Closed
    <3>. QED
      BY <2>2, <3>1, Uncaptured
  <2>. QED
    BY <2>1, <2>2
<1>4. Envs' = Envs
  BY <1>1, EnvsKept
<1>. QED
  BY <1>1, <1>3, <1>4, LeaveStep

(* A captured variable of the frame keeps its value in its upvalue.        *)
LEMMA ReturnRefines ==
  ASSUME Inv, Inv', Return
  PROVE  Abstract!Next
<1>1. PICK s \in 1..StackMax :
        /\ s < Len(stack) /\ UNCHANGED <<captured, upvalues, nupvalues>>
        /\ Len(stack') = s
        /\ \A i \in 1..s - 1 : i \in 1..Len(stack) /\ stack'[i] = stack[i]
        /\ \A i \in 1..Len(stack') : stack'[i].var # Temp =>
             i \in 1..s - 1 /\ i \in 1..Len(stack) /\ stack'[i].var = stack[i].var
        /\ \A u \in Upvalue :
             \/ /\ loc[u] # Closed /\ loc[u] >= s /\ loc[u] \in 1..Len(stack)
                /\ stack[loc[u]].var = captured[u] /\ u <= nupvalues
                /\ loc'[u] = Closed /\ closed'[u] = stack[loc[u]].val /\ closed'[u] \in Value
             \/ /\ loc[u] = Closed \/ loc[u] < s
                /\ loc'[u] = loc[u] /\ closed'[u] = closed[u]
  BY ReturnFacts
<1>2. ValuesFollow /\ ValuesFollow' /\ Len(stack) \in Nat /\ s \in Nat
  BY ValueFacts, ValueFactsNext, StackFacts, Bounds
<1>3. ASSUME NEW v \in Var
      PROVE  \/ Values'[v] = Values[v]
             \/ Values'[v] = NoValue /\ \A u \in Upvalue : u <= nupvalues => captured[u] # v
  <2>1. v # Temp
    BY Bounds DEF Var, Temp
  <2>2. CASE \E i \in 1..Len(stack) : stack[i].var = v
    <3>1. PICK i \in 1..Len(stack) : stack[i].var = v
      BY <2>2
    <3>2. CASE i < s
      <4>1. i \in 1..s - 1 /\ i \in 1..Len(stack')
        BY <1>1, <1>2, <3>2
      <4>. QED
        BY <1>1, <1>2, <3>1, <4>1 DEF ValuesFollow
    <3>3. CASE ~(i < s) /\ \E u \in Upvalue : u <= nupvalues /\ captured[u] = v
      <4>1. PICK u \in Upvalue : u <= nupvalues /\ captured[u] = v
        BY <3>3
      <4>2. loc[u] # Closed
        BY <3>1, <4>1 DEF Inv, UpvaluesOK
      <4>3. loc[u] = i
        <5>1. loc[u] \in 1..Len(stack) /\ stack[loc[u]].var = v
          BY <4>1, <4>2, OpenFacts
        <5>. QED
          BY <2>1, <3>1, <5>1 DEF Inv, LocalsOK
      <4>4. loc'[u] = Closed /\ closed'[u] = stack[i].val
        BY <1>1, <3>3, <4>2, <4>3
      <4>. QED
        BY <1>1, <1>2, <3>1, <4>1, <4>4 DEF ValuesFollow
    <3>4. CASE ~(i < s) /\ ~\E u \in Upvalue : u <= nupvalues /\ captured[u] = v
      <4>1. ASSUME NEW k \in 1..Len(stack'), stack'[k].var = v PROVE FALSE
        <5>1. k \in 1..s - 1 /\ k \in 1..Len(stack) /\ stack[k].var = v
          BY <1>1, <2>1, <4>1
        <5>2. k = i
          BY <2>1, <3>1, <5>1 DEF Inv, LocalsOK
        <5>. QED
          BY <1>2, <3>4, <5>1, <5>2
      <4>2. Values'[v] = NoValue
        BY <1>1, <1>2, <3>4, <4>1 DEF ValuesFollow
      <4>. QED
        BY <3>4, <4>2
    <3>. QED
      BY <3>2, <3>3, <3>4
  <2>3. CASE \E u \in Upvalue : u <= nupvalues /\ captured[u] = v /\ loc[u] = Closed
    <3>1. PICK u \in Upvalue : u <= nupvalues /\ captured[u] = v /\ loc[u] = Closed
      BY <2>3
    <3>2. loc'[u] = Closed /\ closed'[u] = closed[u]
      BY <1>1, <3>1
    <3>. QED
      BY <1>1, <1>2, <3>1, <3>2 DEF ValuesFollow
  <2>4. CASE /\ ~\E i \in 1..Len(stack) : stack[i].var = v
             /\ ~\E u \in Upvalue : u <= nupvalues /\ captured[u] = v /\ loc[u] = Closed
    <3>1. Values[v] = NoValue
      BY <1>2, <2>4 DEF ValuesFollow
    <3>2. ~\E i \in 1..Len(stack') : stack'[i].var = v
      BY <1>1, <2>1, <2>4
    <3>3. ~\E u \in Upvalue : u <= nupvalues /\ captured[u] = v /\ loc'[u] = Closed
      BY <1>1, <2>4
    <3>4. Values'[v] = NoValue
      BY <1>1, <1>2, <3>2, <3>3 DEF ValuesFollow
    <3>. QED
      BY <3>1, <3>4
  <2>. QED
    BY <2>2, <2>3, <2>4
<1>4. Envs' = Envs
  BY <1>1, EnvsKept
<1>5. access' = NoAccess
  BY DEF Return
<1>. QED
  BY <1>3, <1>4, <1>5, LeaveStep

LEMMA SetLocalRefines ==
  ASSUME Inv, Inv', NEW i \in 1..Len(stack), SetLocal(i)
  PROVE  Abstract!Next
<1>1. PICK x \in Value : x = Top(stack).val
  BY StackFacts DEF SetLocal, Top
<1>2. PICK v \in Var : v = stack[i].var /\ Abstract!Exists(v) /\ v # Temp
  BY ExistFacts DEF SetLocal, Locals
<1>3. stack' = [stack EXCEPT ![i] = [stack[i] EXCEPT !.val = x]] /\ stack[i] \in Slot
  BY <1>1, StackFacts DEF SetLocal
<1>4. PICK e \in Slot : /\ e = [stack[i] EXCEPT !.val = x]
                        /\ e.val = x /\ e.var = v
  <2>1. PICK d \in Slot : d = stack[i] /\ d.var = v
    BY <1>2, <1>3
  <2>2. [d EXCEPT !.val = x] \in Slot /\ [d EXCEPT !.val = x].val = x /\ [d EXCEPT !.val = x].var = v
    BY <2>1, SlotFacts
  <2>. QED
    BY <2>1, <2>2
<1>5. /\ Len(stack') = Len(stack) /\ stack'[i] = e
      /\ \A k \in 1..Len(stack) : k # i => stack'[k] = stack[k]
  BY <1>3, <1>4, StackFacts, ExceptSeq
<1>6. \A k \in 1..Len(stack) : stack[k].var = v => k = i
  BY <1>2 DEF Inv, LocalsOK
<1>7. \A k \in 1..Len(stack) : /\ stack'[k].var = stack[k].var
                               /\ stack[k].var = v => stack'[k].val = x
                               /\ stack[k].var # v => stack'[k].val = stack[k].val
  BY <1>2, <1>4, <1>5, <1>6
<1>8. /\ access' = Access("write", v, x)
      /\ UNCHANGED <<loc, closed, captured, nupvalues, upvalues>>
  BY <1>1, <1>2 DEF SetLocal, heap
<1>9. \A u \in Upvalue : u <= nupvalues /\ loc[u] = Closed =>
        /\ captured[u] = v => closed'[u] = x
        /\ captured[u] # v => closed'[u] = closed[u]
  BY <1>2, <1>8 DEF Inv, UpvaluesOK
<1>. QED
  BY <1>2, <1>5, <1>7, <1>8, <1>9, WriteStep

LEMMA SetUpvalueRefines ==
  ASSUME Inv, Inv', NEW u \in FrameUpvalues, SetUpvalue(u)
  PROVE  Abstract!Next
<1>1. PICK x \in Value : x = Top(stack).val
  BY StackFacts DEF SetUpvalue, Top
<1>2. u \in Upvalue /\ u <= nupvalues
  BY FrameUpvalueFacts
<1>3. PICK v \in Var : v = captured[u] /\ Abstract!Exists(v)
  BY <1>2, ExistFacts
<1>4. /\ access' = Access("write", v, x)
      /\ UNCHANGED <<loc, captured, nupvalues, upvalues>>
  BY <1>1, <1>3 DEF SetUpvalue
<1>5. \A w \in Upvalue : w <= nupvalues /\ captured[w] = v => w = u
  <2>1. \A w \in Upvalue : w <= nupvalues => w \in 1..nupvalues
    BY UpvalueFacts
  <2>. QED
    BY <1>2, <1>3, <2>1 DEF Inv, UpvaluesOK
<1>6. CASE loc[u] = Closed
  <2>1. closed' = [closed EXCEPT ![u] = x] /\ stack' = stack /\ closed \in [Upvalue -> Value \cup {NoValue}]
    BY <1>1, <1>6 DEF SetUpvalue, Inv, TypeOK
  <2>2. \A k \in 1..Len(stack) : stack[k].var # v
    BY <1>2, <1>3, <1>6 DEF Inv, UpvaluesOK
  <2>3. \A w \in Upvalue : w <= nupvalues /\ loc[w] = Closed =>
          /\ captured[w] = v => closed'[w] = x
          /\ captured[w] # v => closed'[w] = closed[w]
    BY <1>2, <1>3, <1>5, <2>1
  <2>. QED
    BY <1>3, <1>4, <2>1, <2>2, <2>3, WriteStep
<1>7. CASE loc[u] # Closed
  <2>1. /\ stack' = [k \in 1..Len(stack) |->
                      IF k = loc[u] THEN [stack[k] EXCEPT !.val = x] ELSE stack[k]]
        /\ closed' = closed
    BY <1>1, <1>7 DEF SetUpvalue
  <2>2. loc[u] \in 1..Len(stack) /\ stack[loc[u]].var = v /\ v # Temp
    BY <1>2, <1>3, <1>7, OpenFacts
  <2>3. Len(stack') = Len(stack)
    BY <2>1, StackFacts
  <2>4. \A k \in 1..Len(stack) : stack[k].var = v => k = loc[u]
    BY <2>2 DEF Inv, LocalsOK
  <2>5. ASSUME NEW k \in 1..Len(stack)
        PROVE  /\ stack'[k].var = stack[k].var
               /\ stack[k].var = v => stack'[k].val = x
               /\ stack[k].var # v => stack'[k].val = stack[k].val
    <3>1. CASE k = loc[u]
      BY <2>1, <2>2, <3>1, StackFacts, SlotFacts
    <3>2. CASE k # loc[u]
      BY <2>1, <2>4, <3>2
    <3>. QED
      BY <3>1, <3>2
  <2>6. \A w \in Upvalue : w <= nupvalues /\ loc[w] = Closed =>
          /\ captured[w] = v => closed'[w] = x
          /\ captured[w] # v => closed'[w] = closed[w]
    BY <1>5, <1>7, <2>1
  <2>. QED
    BY <1>3, <1>4, <2>3, <2>5, <2>6, WriteStep
<1>. QED
  BY <1>6, <1>7

LEMMA CaptureUpvalueRefines ==
  ASSUME Inv, Inv', NEW u \in FrameUpvalues, CaptureUpvalue(u)
  PROVE  Abstract!Next
<1>1. u \in Upvalue /\ u <= nupvalues
  BY FrameUpvalueFacts
<1>2. PICK v \in Var : v = captured[u] /\ Abstract!Exists(v)
  BY <1>1, ExistFacts
<1>3. /\ stack' = stack /\ loc' = loc /\ closed' = closed /\ captured' = captured
      /\ nupvalues' = nupvalues /\ access' = NoAccess /\ to_fill > 0
      /\ upvalues' = [upvalues EXCEPT ![nclosures] = Append(upvalues[nclosures], u)]
  BY DEF CaptureUpvalue, FillWith
<1>4. nclosures \in Closure
  BY <1>3, UpvalueFacts DEF Inv, ClosuresOK, Closure
<1>5. Values' = Values
  BY <1>3, SameValues
<1>. QED
  BY <1>2, <1>3, <1>4, <1>5, CaptureStep

LEMMA CaptureLocalRefines ==
  ASSUME Inv, Inv', NEW i \in 1..Len(stack), CaptureLocal(i)
  PROVE  Abstract!Next
<1>1. PICK v \in Var : v = stack[i].var /\ Abstract!Exists(v) /\ v # Temp
  BY ExistFacts DEF CaptureLocal, Locals
<1>2. to_fill > 0 /\ nclosures \in Closure /\ i \in Nat /\ i # Closed
  <2>1. to_fill > 0
    BY DEF CaptureLocal
  <2>. QED
    BY <2>1, UpvalueFacts, StackFacts DEF Inv, ClosuresOK, Closure, Closed
<1>3. CASE Found(i) # {}
  <2>1. PICK u \in Found(i) :
          /\ stack' = stack /\ loc' = loc /\ closed' = closed /\ captured' = captured
          /\ nupvalues' = nupvalues /\ access' = NoAccess
          /\ upvalues' = [upvalues EXCEPT ![nclosures] = Append(upvalues[nclosures], u)]
    BY <1>3 DEF CaptureLocal, FillWith
  <2>2. u \in Upvalue /\ loc[u] = i
    BY <1>2, <2>1, FoundFacts
  <2>3. captured'[u] = v
    BY <1>1, <1>2, <2>1, <2>2, OpenFacts
  <2>4. Values' = Values
    BY <2>1, SameValues
  <2>. QED
    BY <1>1, <1>2, <2>1, <2>3, <2>4, CaptureStep
<1>4. CASE Found(i) = {}
  <2>1. PICK k \in Upvalue : k = nupvalues + 1 /\ k \in Nat /\ nupvalues \in Nat
    <3>1. /\ nupvalues \in Nat /\ to_fill \in 0..CapturesMax /\ nupvalues + to_fill <= UpvalueMax
      BY UpvalueFacts DEF Inv, TypeOK, ClosuresOK
    <3>. QED
      BY <1>2, <3>1, Bounds DEF Upvalue
  <2>2. /\ nupvalues' = k /\ closed' = closed /\ stack' = stack /\ access' = NoAccess
        /\ loc' = [loc EXCEPT ![k] = i]
        /\ captured' = [captured EXCEPT ![k] = stack[i].var]
        /\ upvalues' = [upvalues EXCEPT ![nclosures] = Append(upvalues[nclosures], k)]
    BY <1>4, <2>1 DEF CaptureLocal, FillWith
  <2>3. /\ loc'[k] = i /\ captured'[k] = v
        /\ \A w \in Upvalue : w # k => loc'[w] = loc[w] /\ captured'[w] = captured[w]
    <3>1. loc \in [Upvalue -> 0..StackMax] /\ captured \in [Upvalue -> Var \cup {Temp}]
      BY DEF Inv, TypeOK
    <3>. QED
      BY <1>1, <2>2, <3>1
  <2>4. \A w \in Upvalue : w <= nupvalues => w # k /\ captured'[w] = captured[w]
    BY <2>1, <2>3
  <2>5. ASSUME NEW w \in Upvalue
        PROVE  w <= nupvalues' /\ loc'[w] = Closed <=> w <= nupvalues /\ loc[w] = Closed
    <3>1. w \in Nat
      BY UpvalueFacts
    <3>2. CASE w = k
      BY <1>2, <2>1, <2>3, <3>2
    <3>3. CASE w # k
      <4>1. w <= nupvalues' <=> w <= nupvalues
        BY <2>1, <2>2, <3>1, <3>3
      <4>. QED
        BY <2>3, <3>3, <4>1
    <3>. QED
      BY <3>2, <3>3
  <2>6. \A w \in Upvalue : w <= nupvalues /\ loc[w] = Closed =>
          captured'[w] = captured[w] /\ closed'[w] = closed[w]
    BY <2>2, <2>4
  <2>7. Values' = Values
    BY <2>2, <2>5, <2>6, SameValues
  <2>. QED
    BY <1>1, <1>2, <2>2, <2>3, <2>4, <2>7, CaptureStep
<1>. QED
  BY <1>3, <1>4

LEMMA InitRefines == Init => Abstract!Init
<1>. SUFFICES ASSUME Init PROVE Abstract!Init
  OBVIOUS
<1>1. Inv /\ ValuesFollow /\ EnvsFollow
  BY InitInv, ValueFacts, EnvFacts
<1>2. /\ Len(stack) = 0 /\ nupvalues = 0 /\ access = NoAccess
      /\ \A c \in Closure : Len(upvalues[c]) = 0
  BY DEF Init
<1>3. \A v \in Var : Values[v] = NoValue
  <2>1. \A u \in Upvalue : ~(u <= nupvalues)
    BY <1>2, Bounds DEF Upvalue
  <2>. QED
    BY <1>1, <1>2, <2>1 DEF ValuesFollow
<1>4. Values = [v \in Var |-> NoValue]
  <2>1. Values = [v \in Var |-> Values[v]]
    BY <1>1 DEF ValuesFollow
  <2>2. [v \in Var |-> Values[v]] = [v \in Var |-> NoValue]
    BY <1>3
  <2>. QED
    BY <2>1, <2>2
<1>5. Envs = [c \in Closure |-> {}]
  <2>1. ASSUME NEW c \in Closure PROVE Envs[c] = {}
    <3>1. \A v : v \notin Envs[c]
      BY <1>1, <1>2 DEF EnvsFollow
    <3>2. PICK e : e = Envs[c]
      OBVIOUS
    <3>3. \A v : v \notin e
      BY <3>1, <3>2
    <3>. QED
      BY <3>2, <3>3
  <2>2. Envs = [c \in Closure |-> Envs[c]]
    BY <1>1 DEF EnvsFollow
  <2>3. [c \in Closure |-> Envs[c]] = [c \in Closure |-> {}]
    BY <2>1
  <2>. QED
    BY <2>2, <2>3
<1>. QED
  BY <1>2, <1>4, <1>5 DEF Abstract!Init, NoAccess, Abstract!NoAccess

LEMMA NextRefines ==
  ASSUME Inv, Inv', Disciplined, [Next]_vars
  PROVE  [Abstract!Next]_<<Values, Envs, access>>
<1>1. CASE \E x \in Number \cup {global} : PushValue(x)
  <2>1. PICK x \in Value : PushValue(x)
    BY <1>1 DEF Inv, TypeOK, Value
  <2>. QED
    BY <2>1, PushRefines DEF PushValue, heap
<1>2. CASE \E n \in 0..CapturesMax : NewClosure(n)
  <2>1. PICK n \in 0..CapturesMax : NewClosure(n)
    BY <1>2
  <2>2. nclosures' \in Value
    BY <2>1, Bounds, UpvalueFacts DEF NewClosure, Value, Closure
  <2>. QED
    BY <2>1, <2>2, PushRefines DEF NewClosure
<1>3. CASE \E i \in 1..Len(stack) : GetLocal(i) \/ SetLocal(i) \/ CaptureLocal(i)
  <2>1. PICK i \in 1..Len(stack) : GetLocal(i) \/ SetLocal(i) \/ CaptureLocal(i)
    BY <1>3
  <2>2. CASE GetLocal(i)
    <3>1. Values' = Values /\ Envs' = Envs
      BY <2>2, StackFacts, PushRefines DEF GetLocal, heap
    <3>2. stack[i].var \in Var /\ Abstract!Exists(stack[i].var) /\ Values[stack[i].var] = stack[i].val
      BY <2>2, ExistFacts DEF GetLocal, Locals
    <3>3. access' = Access("read", stack[i].var, stack[i].val)
      BY <2>2 DEF GetLocal
    <3>. QED
      BY <3>1, <3>2, <3>3, ReadStep
  <2>. QED
    BY <2>1, <2>2, SetLocalRefines, CaptureLocalRefines
<1>4. CASE \E u \in FrameUpvalues : GetUpvalue(u) \/ SetUpvalue(u) \/ CaptureUpvalue(u)
  <2>1. PICK u \in FrameUpvalues : GetUpvalue(u) \/ SetUpvalue(u) \/ CaptureUpvalue(u)
    BY <1>4
  <2>2. CASE GetUpvalue(u)
    <3>1. PICK x \in Located(u) : stack' = Push(x) /\ access' = Access("read", captured[u], x)
      BY <2>2 DEF GetUpvalue
    <3>2. u \in Upvalue /\ u <= nupvalues /\ x \in Value
      BY <3>1, FrameUpvalueFacts
    <3>3. /\ captured[u] \in Var /\ Abstract!Exists(captured[u])
          /\ Values[captured[u]] = IF loc[u] = Closed THEN closed[u] ELSE stack[loc[u]].val
      BY <3>2, ExistFacts
    <3>4. x = Values[captured[u]]
      BY <3>1, <3>3, FrameUpvalueFacts
    <3>5. Values' = Values /\ Envs' = Envs
      BY <2>2, <3>1, <3>2, PushRefines DEF GetUpvalue, heap
    <3>. QED
      BY <3>1, <3>3, <3>4, <3>5, ReadStep
  <2>. QED
    BY <2>1, <2>2, SetUpvalueRefines, CaptureUpvalueRefines
<1>5. CASE BeginScript \/ SetGlobal \/ BeginBlock
  <2>1. stack' = stack /\ access' = NoAccess /\ UNCHANGED <<loc, closed, captured, upvalues, nupvalues>>
    BY <1>5 DEF BeginScript, SetGlobal, BeginBlock, heap
  <2>. QED
    BY <2>1, QuietFacts
<1>6. CASE Pop
  <2>1. /\ access' = NoAccess /\ UNCHANGED <<loc, closed, captured, upvalues, nupvalues>>
        /\ stack' = First(stack, Len(stack) - 1) /\ stack[Len(stack)].var = Temp
        /\ frames # <<>> /\ Len(stack) >= Bottom
    BY <1>6 DEF Pop, heap, Top, Running
  <2>2. Len(stack) \in Nat /\ Len(stack) - 1 \in 0..Len(stack)
    BY <2>1, StackFacts, WindowFacts
  <2>3. /\ Len(stack') = Len(stack) - 1
        /\ \A i \in 1..Len(stack') : i \in 1..Len(stack) /\ stack'[i] = stack[i]
    BY <2>1, <2>2, StackFacts, FirstFacts
  <2>4. \A i \in 1..Len(stack) : stack[i].var # Temp => i \in 1..Len(stack')
    BY <2>1, <2>2, <2>3
  <2>. QED
    BY <2>1, <2>3, <2>4, QuietFacts
<1>7. CASE \E n \in 0..Len(stack) - 1 : Call(n)
  BY <1>7, CallRefines
<1>8. CASE EndScript \/ Declare \/ Return \/ EndBlock
  BY <1>8, EndScriptRefines, DeclareRefines, ReturnRefines, EndBlockRefines
<1>9. CASE UNCHANGED vars
  <2>1. /\ stack' = stack /\ access' = access /\ loc' = loc /\ closed' = closed
        /\ captured' = captured /\ upvalues' = upvalues /\ nupvalues' = nupvalues
    BY <1>9 DEF vars, heap
  <2>2. Values' = Values /\ Envs' = Envs
    BY <2>1, QuietFacts
  <2>. QED
    BY <2>1, <2>2
<1>. QED
  BY <1>1, <1>2, <1>3, <1>4, <1>5, <1>6, <1>7, <1>8, <1>9 DEF Next

(* Stack slots, upvalues and their closing implement variables with a life *)
(* of their own, which closures share: every read gives the last value     *)
(* written to the variable that the program means.                         *)
THEOREM Refinement ==
  ASSUME Disciplined
  PROVE  Spec => ImplementsVariables
<1>1. Inv /\ [Next]_vars => Inv' /\ [Abstract!Next]_<<Values, Envs, access>>
  BY NextStep, NextRefines
<1>2. Init => Inv /\ Abstract!Init
  BY InitInv, InitRefines
<1>. QED
  BY <1>1, <1>2, PTL DEF Spec, ImplementsVariables, Abstract!Spec, Abstract!vars
===============================================================================
