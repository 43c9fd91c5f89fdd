------------------------------- MODULE PinsProofs -------------------------------
(***************************************************************************)
(* Proofs about Pins: handlers whose pins balance, used with arrays and    *)
(* maps, keep what they hold and leave the pin stack as they found it, as  *)
(* deep as they nest, as long as the pin stack has room for them.          *)
(***************************************************************************)
EXTENDS Pins, FiniteSetTheorems, SequenceTheorems, TLAPS

Balanced ==
  {"OP_CONCAT", "OP_ARRAY", "OP_MAP", "OP_MAKE", "OP_CALL", "OP_INDEX_GET", "OP_ZIP_MAP",
   "OP_OBJECT_TYPE", "OP_REDUCE_CALL", "OP_VECTORIZE_CALL"}

(* A handler that calls functions has three pins at most; the innermost one*)
(* three, or those of an object type's methods and of the type.            *)
Disciplined ==
  /\ Handlers \subseteq Balanced
  /\ Kinds \subseteq {"array", "map"}
  /\ 3 * CallsMax <= TempRootsMax
  /\ 3 * (CallsMax - 1) + 2 * MethodsMax + 1 <= TempRootsMax

Operand == {"array", "map", "method"}

Pin == Int \X Int

CallRecord ==
  [op : Handlers, args : Seq(Operand), made : SUBSET {Result}, looping : BOOLEAN, base : Nat]

(* The parts of a handler that are pinned besides its operands.            *)
ResultParts(c) ==
  CASE c.op = "OP_MAKE" -> {Result, MethodsOf}
    [] c.op \in {"OP_CALL", "OP_INDEX_GET", "OP_ZIP_MAP", "OP_REDUCE_CALL"} -> {}
    [] OTHER -> {Result}

ResultCount(c) ==
  CASE c.op = "OP_MAKE" -> 2
    [] c.op \in {"OP_CALL", "OP_INDEX_GET", "OP_ZIP_MAP", "OP_REDUCE_CALL"} -> 0
    [] OTHER -> 1

PinnedParts(c) == DOMAIN c.args \cup (IF c.looping THEN ResultParts(c) ELSE {})

Held(c) == PinCount(c.args) + (IF c.looping THEN ResultCount(c) ELSE 0)

Ceiling(c) == c.base + Held(c)

CallOK(c) ==
  /\ c.args \in Arguments(c.op)
  /\ c.looping => Accepts(c)
  /\ c.made = IF c.looping /\ c.op # "OP_REDUCE_CALL" THEN {Result} ELSE {}

TypeOK ==
  /\ calls \in Seq(CallRecord) /\ Len(calls) <= CallsMax
  /\ pins \in Seq(Pin)
  /\ failing \in BOOLEAN

(* The handlers in progress: all but the innermost are calling a function. *)
CallsOK ==
  \A d \in 1..Len(calls) :
    /\ CallOK(calls[d])
    /\ d < Len(calls) => calls[d].op \in Callers /\ calls[d].looping

(* Their pins lie above one another.                                       *)
StackedOK ==
  /\ \A d \in 1..Len(calls) :
       /\ calls[d].base <= 3 * (d - 1)
       /\ d < Len(calls) => Ceiling(calls[d]) = calls[d + 1].base
       /\ \A e \in 1..Len(calls) : d < e => Ceiling(calls[d]) <= calls[e].base
  /\ Len(pins) = IF calls = <<>> THEN 0 ELSE Ceiling(calls[Len(calls)])

(* What a handler has to pin is among its pins.                            *)
PinnedOK ==
  \A d \in 1..Len(calls) : \A part \in PinnedParts(calls[d]) :
    \E p \in calls[d].base + 1..Ceiling(calls[d]) : pins[p] = <<d, part>>

Inv == TypeOK /\ CallsOK /\ StackedOK /\ PinnedOK /\ ~lost

-------------------------------------------------------------------------------
(* Operands and their pins.                                                *)

(* The pins of values of which each takes as many, one or two.             *)
LEMMA UniformCount ==
  ASSUME NEW args \in Seq(Operand), NEW k \in {1, 2}, \A i \in 1..Len(args) : PinsOf(args[i]) = k
  PROVE  PinCount(args) = k * Len(args)
<1>. DEFINE Taken == {p \in (DOMAIN args) \X {1, 2} : p[2] <= PinsOf(args[p[1]])}
<1>1. Len(args) \in Nat /\ DOMAIN args = 1..Len(args)
  OBVIOUS
<1>2. PICK S : S = 1..Len(args) /\ IsFiniteSet(S) /\ Cardinality(S) = Len(args)
  <2>1. PICK n \in Nat : n = Len(args)
    BY <1>1
  <2>2. IsFiniteSet(1..n) /\ Cardinality(1..n) = IF 1 > n THEN 0 ELSE n - 1 + 1
    <3>1. 1 \in Int /\ n \in Int
      OBVIOUS
    <3>. QED
      BY <3>1, FS_Interval, Zenon
  <2>3. (IF 1 > n THEN 0 ELSE n - 1 + 1) = n
    OBVIOUS
  <2>. QED
    BY <2>1, <2>2, <2>3
<1>3. PICK T : T = 1..k /\ IsFiniteSet(T) /\ Cardinality(T) = k
  <2>1. k \in Int /\ 1 \in Int /\ ~(1 > k) /\ k - 1 + 1 = k
    OBVIOUS
  <2>2. IsFiniteSet(1..k) /\ Cardinality(1..k) = IF 1 > k THEN 0 ELSE k - 1 + 1
    BY <2>1, FS_Interval
  <2>. QED
    BY <2>1, <2>2
<1>4. Taken = S \X T
  <2>1. 1..k \subseteq {1, 2} /\ \A n \in {1, 2} : n \in 1..k <=> n <= k
    OBVIOUS
  <2>. QED
    BY <1>1, <1>2, <1>3, <2>1
<1>5. Cardinality(S \X T) = Cardinality(S) * Cardinality(T)
  BY <1>2, <1>3, FS_Product, Zenon
<1>6. PinCount(args) = Cardinality(Taken)
  BY DEF PinCount
<1>7. PinCount(args) = Len(args) * k
  BY <1>2, <1>3, <1>4, <1>5, <1>6, Zenon
<1>8. k = 1 \/ k = 2
  OBVIOUS
<1>. QED
  BY <1>1, <1>7, <1>8

(* Operands of k pins each take k times as many pins as there are operands.*)
LEMMA UniformPins ==
  ASSUME NEW args \in Seq(Operand), NEW k \in {1, 2}, \A i \in 1..Len(args) : PinsOf(args[i]) = k,
         NEW d \in Int
  PROVE  /\ OperandPins(d, args) \in Seq(Pin)
         /\ Len(OperandPins(d, args)) = k * Len(args)
         /\ \A i \in 1..Len(args) :
              \E j \in 1..Len(OperandPins(d, args)) : OperandPins(d, args)[j] = <<d, i>>
<1>. DEFINE Here(j, i) == /\ PinCount(SubSeq(args, 1, i - 1)) < j
                          /\ PinCount(SubSeq(args, 1, i)) >= j
            Part(j) == CHOOSE i \in DOMAIN args : Here(j, i)
<1>1. Len(args) \in Nat /\ DOMAIN args = 1..Len(args)
  OBVIOUS
<1>2. PICK n \in Nat, m \in Nat : n = Len(args) /\ m = k * n
  <2>1. PICK n \in Nat : n = Len(args)
    BY <1>1
  <2>2. k * n \in Nat
    OBVIOUS
  <2>. QED
    BY <2>1, <2>2
<1>3. ASSUME NEW i \in 0..n PROVE PinCount(SubSeq(args, 1, i)) = k * i
  <2>1. /\ SubSeq(args, 1, i) \in Seq(Operand) /\ Len(SubSeq(args, 1, i)) = i
        /\ \A x \in 1..i : x \in 1..Len(args) /\ SubSeq(args, 1, i)[x] = args[x]
    BY <1>2
  <2>2. \A x \in 1..Len(SubSeq(args, 1, i)) : PinsOf(SubSeq(args, 1, i)[x]) = k
    BY <2>1
  <2>. QED
    BY <2>1, <2>2, UniformCount
<1>4. ASSUME NEW i \in 1..n, NEW j \in Int
      PROVE  Here(j, i) <=> k * (i - 1) < j /\ j <= k * i
  <2>1. i - 1 \in 0..n /\ i \in 0..n
    BY <1>2
  <2>2. PinCount(SubSeq(args, 1, i - 1)) = k * (i - 1) /\ PinCount(SubSeq(args, 1, i)) = k * i
    BY <1>3, <2>1
  <2>. QED
    BY <2>2
<1>5. ASSUME NEW j \in 1..m PROVE \E i \in 1..n : Here(j, i)
  <2>1. CASE k = 1
    <3>1. j \in 1..n /\ k * (j - 1) < j /\ j <= k * j
      BY <1>2, <2>1
    <3>. QED
      BY <1>4, <3>1
  <2>2. CASE k = 2
    <3>1. PICK i \in Int : i = (j + 1) \div 2 /\ 2 * (i - 1) < j /\ j <= 2 * i
      BY <2>2
    <3>2. i \in 1..n /\ k * (i - 1) < j /\ j <= k * i
      BY <1>2, <2>2, <3>1
    <3>3. j \in Int
      OBVIOUS
    <3>4. Here(j, i)
      BY <1>4, <3>2, <3>3, Zenon
    <3>. QED
      BY <3>2, <3>4, Zenon
  <2>. QED
    BY <2>1, <2>2
<1>6. PinCount(args) = m
  BY <1>2, UniformCount
<1>7. OperandPins(d, args) = [j \in 1..m |-> <<d, Part(j)>>]
  BY <1>6 DEF OperandPins
<1>8. DOMAIN args = 1..n
  BY <1>1, <1>2
<1>. HIDE DEF Here
<1>9. \A j \in 1..m : Part(j) \in 1..n /\ Here(j, Part(j))
  BY <1>5, <1>8
<1>. HIDE DEF Part
<1>10. \A j \in 1..m : <<d, Part(j)>> \in Pin
  BY <1>9 DEF Pin
<1>11. OperandPins(d, args) \in Seq(Pin) /\ Len(OperandPins(d, args)) = m
  BY <1>7, <1>10
<1>12. ASSUME NEW i \in 1..n
       PROVE  \E j \in 1..m : OperandPins(d, args)[j] = <<d, i>>
  <2>1. PICK j \in 1..m : j = k * i
    BY <1>2
  <2>2. PICK c \in 1..n : c = Part(j) /\ Here(j, c)
    BY <1>9
  <2>3. k * (c - 1) < j /\ j <= k * c
    BY <1>4, <2>2
  <2>4. c = i
    BY <2>1, <2>3
  <2>. QED
    BY <1>7, <2>2, <2>4
<1>. QED
  BY <1>2, <1>11, <1>12

(* The operands of the balanced handlers.                                  *)
LEMMA ArgumentFacts ==
  ASSUME Disciplined, NEW op \in Handlers, NEW args \in Arguments(op)
  PROVE  /\ args \in Seq(Operand) /\ Len(args) \in Nat
         /\ op \in {"OP_CALL", "OP_REDUCE_CALL"} => Len(args) = 1
         /\ op \in {"OP_CONCAT", "OP_VECTORIZE_CALL", "OP_ZIP_MAP", "OP_INDEX_GET"} => Len(args) = 2
         /\ op \in OnStack => Len(args) = 0
         /\ op = "OP_OBJECT_TYPE" =>
              Len(args) <= MethodsMax /\ \A i \in 1..Len(args) : args[i] = "method"
         /\ op # "OP_OBJECT_TYPE" => \A i \in 1..Len(args) : args[i] \in {"array", "map"}
<1>1. op \in Balanced
  BY DEF Disciplined
<1>2. CASE op \in {"OP_CALL", "OP_REDUCE_CALL"}
  <2>1. op \in OneOperand /\ op \notin TwoOperands /\ op \notin OnStack /\ op # "OP_OBJECT_TYPE"
    BY <1>2 DEF OneOperand, TwoOperands, OnStack
  <2>2. Arguments(op) = {<<k>> : k \in Kinds}
    BY <2>1 DEF Arguments
  <2>3. PICK k \in {"array", "map"} : args = <<k>>
    BY <2>2 DEF Disciplined
  <2>. QED
    BY <1>2, <2>1, <2>3 DEF Operand
<1>3. CASE op \in {"OP_CONCAT", "OP_VECTORIZE_CALL", "OP_ZIP_MAP", "OP_INDEX_GET"}
  <2>1. op \notin OneOperand /\ op \in TwoOperands /\ op \notin OnStack /\ op # "OP_OBJECT_TYPE"
    BY <1>3 DEF OneOperand, TwoOperands, OnStack
  <2>2. Arguments(op) = Kinds \X Kinds
    BY <2>1 DEF Arguments
  <2>3. PICK k \in Kinds, l \in Kinds : args = <<k, l>>
    BY <2>2
  <2>4. k \in {"array", "map"} /\ l \in {"array", "map"}
    BY DEF Disciplined
  <2>. QED
    BY <1>3, <2>1, <2>3, <2>4 DEF Operand
<1>4. CASE op \in OnStack
  <2>1. op \notin OneOperand /\ op \notin TwoOperands /\ op # "OP_OBJECT_TYPE"
    BY <1>4 DEF OneOperand, TwoOperands, OnStack
  <2>2. args = <<>>
    BY <1>4, <2>1 DEF Arguments
  <2>. QED
    BY <1>4, <2>2 DEF OnStack
<1>5. CASE op = "OP_OBJECT_TYPE"
  <2>0. op \notin OneOperand /\ op \notin TwoOperands /\ op \notin OnStack
    BY <1>5 DEF OneOperand, TwoOperands, OnStack
  <2>1. Arguments(op) = {[i \in 1..n |-> "method"] : n \in 1..MethodsMax}
    BY <1>5, <2>0 DEF Arguments
  <2>2. PICK n \in 1..MethodsMax : args = [i \in 1..n |-> "method"]
    BY <2>1
  <2>3. args \in Seq(Operand) /\ Len(args) = n /\ \A i \in 1..n : args[i] = "method"
    BY <2>2, BoundAssumption DEF Operand
  <2>. QED
    BY <1>5, <2>3, BoundAssumption DEF OnStack
<1>. QED
  BY <1>1, <1>2, <1>3, <1>4, <1>5 DEF Balanced, OnStack

(* They take one pin each, but two in the methods of an object type.       *)
LEMMA OperandFacts ==
  ASSUME Disciplined, NEW op \in Handlers, NEW args \in Arguments(op), NEW d \in Int
  PROVE  /\ args \in Seq(Operand) /\ DOMAIN args = 1..Len(args)
         /\ PinCount(args) \in Nat
         /\ op \in {"OP_CALL", "OP_REDUCE_CALL"} => PinCount(args) = 1
         /\ op \in {"OP_CONCAT", "OP_VECTORIZE_CALL", "OP_ZIP_MAP", "OP_INDEX_GET"} =>
              PinCount(args) = 2
         /\ op \in OnStack => PinCount(args) = 0
         /\ op = "OP_OBJECT_TYPE" => PinCount(args) <= 2 * MethodsMax
         /\ OperandPins(d, args) \in Seq(Pin)
         /\ Len(OperandPins(d, args)) = PinCount(args)
         /\ \A i \in DOMAIN args :
              \E j \in 1..PinCount(args) : OperandPins(d, args)[j] = <<d, i>>
<1>1. PICK n \in Nat : n = Len(args) /\ args \in Seq(Operand) /\ DOMAIN args = 1..n
  BY ArgumentFacts
<1>2. \A i \in 1..n : op = "OP_OBJECT_TYPE" => args[i] = "method"
  BY <1>1, ArgumentFacts
<1>3. \A i \in 1..n : op # "OP_OBJECT_TYPE" => args[i] \in {"array", "map"}
  BY <1>1, ArgumentFacts
<1>4. PICK k \in {1, 2} : k = IF op = "OP_OBJECT_TYPE" THEN 2 ELSE 1
  OBVIOUS
<1>5. \A i \in 1..Len(args) : PinsOf(args[i]) = k
  BY <1>1, <1>2, <1>3, <1>4 DEF PinsOf
<1>6. PinCount(args) = k * Len(args)
  BY <1>1, <1>5, UniformCount
<1>7. /\ OperandPins(d, args) \in Seq(Pin)
      /\ Len(OperandPins(d, args)) = k * Len(args)
      /\ \A i \in 1..Len(args) :
           \E j \in 1..Len(OperandPins(d, args)) : OperandPins(d, args)[j] = <<d, i>>
  BY <1>1, <1>5, UniformPins
<1>8. /\ PinCount(args) \in Nat
      /\ op # "OP_OBJECT_TYPE" => PinCount(args) = n
      /\ op = "OP_OBJECT_TYPE" => PinCount(args) = 2 * n
  BY <1>1, <1>4, <1>6
<1>9. op = "OP_OBJECT_TYPE" => n <= MethodsMax
  BY <1>1, ArgumentFacts
<1>10. op = "OP_OBJECT_TYPE" => PinCount(args) <= 2 * MethodsMax
  BY <1>8, <1>9, BoundAssumption
<1>11. /\ op \in {"OP_CALL", "OP_REDUCE_CALL"} => PinCount(args) = 1
       /\ op \in {"OP_CONCAT", "OP_VECTORIZE_CALL", "OP_ZIP_MAP", "OP_INDEX_GET"} =>
            PinCount(args) = 2
       /\ op \in OnStack => PinCount(args) = 0
  <2>1. /\ op \in {"OP_CALL", "OP_REDUCE_CALL"} => n = 1
        /\ op \in {"OP_CONCAT", "OP_VECTORIZE_CALL", "OP_ZIP_MAP", "OP_INDEX_GET"} => n = 2
        /\ op \in OnStack => n = 0
    BY <1>1, ArgumentFacts
  <2>. QED
    BY <1>8, <2>1 DEF OnStack
<1>12. DOMAIN args = 1..Len(args) /\ Len(OperandPins(d, args)) = PinCount(args)
  BY <1>1, <1>6, <1>7
<1>. QED
  BY <1>1, <1>7, <1>8, <1>10, <1>11, <1>12

(* What a handler has pinned, what it gives back, and what it can need.    *)
LEMMA HeldFacts ==
  ASSUME Disciplined, NEW c \in CallRecord, CallOK(c)
  PROVE  /\ Held(c) \in Nat /\ PinCount(c.args) \in Nat
         /\ c.base \in Nat /\ Ceiling(c) = c.base + Held(c)
         /\ c.op \in Callers => Held(c) <= 3
         /\ c.looping => SuccessUnpins(c) = Held(c)
         /\ CanFail(c) => FailureUnpins(c) = Held(c)
<1>1. /\ c.op \in Handlers /\ c.args \in Arguments(c.op) /\ c.op \in Balanced
      /\ c.looping \in BOOLEAN /\ c.base \in Nat
      /\ c.looping => Accepts(c)
  BY DEF CallRecord, CallOK, Disciplined
<1>2. PICK n \in Nat :
        /\ n = PinCount(c.args)
        /\ c.op \in {"OP_CALL", "OP_REDUCE_CALL"} => n = 1
        /\ c.op \in {"OP_CONCAT", "OP_VECTORIZE_CALL", "OP_ZIP_MAP", "OP_INDEX_GET"} => n = 2
        /\ c.op \in OnStack => n = 0
  <2>1. PICK op, args : op = c.op /\ args = c.args
    OBVIOUS
  <2>2. op \in Handlers /\ args \in Arguments(op)
    BY <1>1, <2>1
  <2>3. 0 \in Int
    OBVIOUS
  <2>4. /\ PinCount(args) \in Nat
        /\ op \in {"OP_CALL", "OP_REDUCE_CALL"} => PinCount(args) = 1
        /\ op \in {"OP_CONCAT", "OP_VECTORIZE_CALL", "OP_ZIP_MAP", "OP_INDEX_GET"} =>
             PinCount(args) = 2
        /\ op \in OnStack => PinCount(args) = 0
    BY <2>2, <2>3, OperandFacts
  <2>. QED
    BY <2>1, <2>4
<1>3. ResultCount(c) \in {0, 1, 2}
  BY DEF ResultCount
<1>4. Held(c) = n + (IF c.looping THEN ResultCount(c) ELSE 0)
  BY <1>2 DEF Held
<1>5. Held(c) \in Nat
  BY <1>3, <1>4
<1>6. c.op \in Callers => Held(c) <= 3
  BY <1>2, <1>4 DEF Callers, ResultCount
<1>7. c.made # {} <=> c.looping /\ c.op # "OP_REDUCE_CALL"
  BY DEF CallOK
<1>8. CASE c.op \in Counting
  <2>0. c.op \in {"OP_CALL", "OP_INDEX_GET", "OP_OBJECT_TYPE"}
    BY <1>8 DEF Counting
  <2>1. SuccessUnpins(c) = Counted(c) /\ FailureUnpins(c) = Counted(c)
    BY <1>8, <2>0 DEF SuccessUnpins, FailureUnpins
  <2>2. Counted(c) = n + IF c.op = "OP_OBJECT_TYPE" /\ c.looping THEN 1 ELSE 0
    BY <1>2, <1>7 DEF Counted
  <2>3. c.op = "OP_OBJECT_TYPE" => ResultCount(c) = 1
    BY DEF ResultCount
  <2>4. c.op # "OP_OBJECT_TYPE" => ResultCount(c) = 0
    BY <1>8 DEF ResultCount, Counting
  <2>. QED
    BY <1>1, <1>2, <1>4, <1>5, <1>6, <2>1, <2>2, <2>3, <2>4 DEF Ceiling
<1>9. CASE c.op \in Balanced \ Counting
  <2>1. c.looping => SuccessUnpins(c) = Held(c)
    BY <1>2, <1>4, <1>9 DEF SuccessUnpins, ResultCount, Balanced, Counting, OnStack
  <2>2. CanFail(c) => FailureUnpins(c) = Held(c)
    <3>1. CASE c.op = "OP_CONCAT"
      BY <1>1, <1>2, <1>4, <3>1 DEF FailureUnpins, CanFail, Counting
    <3>2. CASE c.op = "OP_ZIP_MAP"
      BY <1>2, <1>4, <3>2 DEF FailureUnpins, Counting, ResultCount
    <3>3. CASE c.op \in {"OP_ARRAY", "OP_MAP", "OP_MAKE"}
      <4>1. Accepts(c)
        BY <3>3 DEF Accepts
      <4>. QED
        BY <1>1, <1>2, <1>4, <3>3, <4>1
        DEF FailureUnpins, CanFail, Counting, ResultCount, OnStack, OneOperand, TwoOperands
    <3>4. CASE c.op = "OP_REDUCE_CALL"
      BY <1>2, <1>4, <3>4 DEF FailureUnpins, Counting, ResultCount
    <3>5. CASE c.op = "OP_VECTORIZE_CALL"
      BY <1>1, <1>2, <1>4, <3>5 DEF FailureUnpins, Counting, ResultCount
    <3>. QED
      BY <1>9, <3>1, <3>2, <3>3, <3>4, <3>5 DEF Balanced, Counting
  <2>. QED
    BY <1>1, <1>2, <1>5, <1>6, <2>1, <2>2 DEF Ceiling
<1>. QED
  BY <1>1, <1>8, <1>9

-------------------------------------------------------------------------------
(* The pin stack.                                                          *)

(* Pins for which there is room lie above the earlier ones.                *)
LEMMA PinFacts ==
  ASSUME pins \in Seq(Pin), NEW objs \in Seq(Pin), Len(pins) + Len(objs) <= TempRootsMax,
         pins' = PinAll(objs)
  PROVE  /\ pins' \in Seq(Pin) /\ Len(pins') = Len(pins) + Len(objs)
         /\ \A i \in 1..Len(pins) : pins'[i] = pins[i]
         /\ \A i \in 1..Len(objs) : pins'[Len(pins) + i] = objs[i]
<1>1. PICK all \in Seq(Pin) : all = pins \o objs
  <2>1. pins \o objs \in Seq(Pin)
    BY ConcatProperties
  <2>. QED
    BY <2>1
<1>2. /\ Len(all) = Len(pins) + Len(objs) /\ Len(all) \in Nat
      /\ Len(pins) \in Nat /\ Len(objs) \in Nat
      /\ \A i \in 1..Len(pins) : all[i] = pins[i]
      /\ \A i \in 1..Len(objs) : all[Len(pins) + i] = objs[i]
  BY <1>1
<1>3. Min({Len(all), TempRootsMax}) = Len(all)
  BY <1>2, BoundAssumption DEF Min
<1>4. pins' = SubSeq(all, 1, Len(all))
  BY <1>1, <1>3 DEF PinAll
<1>5. /\ pins' \in Seq(Pin) /\ Len(pins') = Len(all)
      /\ \A i \in 1..Len(all) : pins'[i] = all[i]
  BY <1>2, <1>4
<1>6. /\ \A i \in 1..Len(pins) : i \in 1..Len(all)
      /\ \A i \in 1..Len(objs) : Len(pins) + i \in 1..Len(all)
  BY <1>2
<1>. QED
  BY <1>2, <1>5, <1>6

(* Taking some pins off leaves those below them.                           *)
LEMMA UnpinFacts ==
  ASSUME pins \in Seq(Pin), NEW n \in Nat, n <= Len(pins), pins' = UnpinMany(n)
  PROVE  /\ pins' \in Seq(Pin) /\ Len(pins') = Len(pins) - n
         /\ \A i \in 1..Len(pins) - n : pins'[i] = pins[i]
<1>1. PICK m \in Nat : m = Len(pins) - n /\ m <= Len(pins) /\ Len(pins) \in Nat
  OBVIOUS
<1>2. Max({0, m}) = m
  BY <1>1 DEF Max
<1>3. pins' = SubSeq(pins, 1, m)
  BY <1>1, <1>2 DEF UnpinMany
<1>. QED
  BY <1>1, <1>3

-------------------------------------------------------------------------------
(* The invariant.                                                          *)

(* What the invariant says of each handler in progress.                    *)
LEMMA CallFacts ==
  ASSUME Inv, Disciplined
  PROVE  /\ calls \in Seq(CallRecord) /\ Len(calls) \in Nat /\ Len(calls) <= CallsMax
         /\ \A d \in 1..Len(calls) :
              /\ calls[d] \in CallRecord /\ CallOK(calls[d])
              /\ calls[d].base \in Nat /\ Held(calls[d]) \in Nat
              /\ Ceiling(calls[d]) \in Nat /\ Ceiling(calls[d]) = calls[d].base + Held(calls[d])
         /\ pins \in Seq(Pin) /\ Len(pins) \in Nat
<1>1. /\ calls \in Seq(CallRecord) /\ Len(calls) \in Nat /\ Len(calls) <= CallsMax
      /\ pins \in Seq(Pin) /\ Len(pins) \in Nat
      /\ \A d \in 1..Len(calls) : calls[d] \in CallRecord /\ CallOK(calls[d])
  BY DEF Inv, TypeOK, CallsOK
<1>2. ASSUME NEW d \in 1..Len(calls)
      PROVE  /\ calls[d].base \in Nat /\ Held(calls[d]) \in Nat
             /\ Ceiling(calls[d]) \in Nat /\ Ceiling(calls[d]) = calls[d].base + Held(calls[d])
  BY <1>1, HeldFacts
<1>. QED
  BY <1>1, <1>2

(* And of the innermost.                                                   *)
LEMMA CurrentFacts ==
  ASSUME Inv, Disciplined, calls # <<>>
  PROVE  \E n \in 1..Len(calls) :
           /\ n = Len(calls) /\ n = Depth /\ Current = calls[n] /\ n \in Nat /\ n <= CallsMax
           /\ Current \in CallRecord /\ CallOK(Current)
           /\ Len(pins) = Ceiling(Current) /\ Ceiling(Current) = Current.base + Held(Current)
           /\ Current.base \in Nat /\ Held(Current) \in Nat /\ Current.base <= 3 * (n - 1)
<1>1. PICK n \in 1..Len(calls) : n = Len(calls) /\ n = Depth /\ Current = calls[n]
  BY CallFacts DEF Depth, Current
<1>2. Len(pins) = Ceiling(calls[n]) /\ calls[n].base <= 3 * (n - 1)
  BY <1>1 DEF Inv, StackedOK
<1>. QED
  BY <1>1, <1>2, CallFacts

(* A collection finds what the handlers hold pinned, unless the innermost  *)
(* one has made a result that it does not pin.                             *)
LEMMA NothingFreed ==
  ASSUME Inv, Disciplined, MayCollect,
         calls # <<>> => ~Current.looping \/ Current.op = "OP_MAKE"
  PROVE  ~lost'
<1>1. ASSUME NEW d \in 1..Len(calls), NEW o \in HeldBy(d) PROVE o \in Range(pins)
  <2>1. PICK c \in CallRecord : c = calls[d] /\ CallOK(c) /\ c.base \in Nat /\ Ceiling(c) \in Nat
    BY CallFacts
  <2>2. d \in Nat /\ Len(calls) \in Nat /\ d <= Len(calls)
    BY CallFacts
  <2>3. c.looping => c.op \in Callers \cup {"OP_MAKE"}
    <3>1. CASE d < Len(calls)
      BY <2>1, <3>1 DEF Inv, CallsOK
    <3>2. CASE d = Len(calls)
      <4>1. calls # <<>> /\ Current = c
        BY <2>1, <2>2, <3>2 DEF Current, Depth
      <4>. QED
        BY <4>1
    <3>. QED
      BY <2>2, <3>1, <3>2
  <2>4. c.made \subseteq PinnedParts(c)
    BY <2>1, <2>3 DEF CallOK, PinnedParts, ResultParts, Callers
  <2>5. PICK part \in PinnedParts(c) : o = <<d, part>>
    BY <2>1, <2>4 DEF HeldBy, PinnedParts
  <2>6. PICK p \in c.base + 1..Ceiling(c) : pins[p] = o
    BY <2>1, <2>5 DEF Inv, PinnedOK
  <2>7. Ceiling(c) <= Len(pins)
    <3>1. CASE d < Len(calls)
      <4>1. PICK n \in 1..Len(calls) : n = Len(calls) /\ Len(pins) = Ceiling(calls[n])
        BY <2>2 DEF Inv, StackedOK
      <4>2. Ceiling(c) <= calls[n].base
        BY <2>1, <3>1, <4>1 DEF Inv, StackedOK
      <4>3. calls[n].base \in Nat /\ Held(calls[n]) \in Nat
            /\ Ceiling(calls[n]) = calls[n].base + Held(calls[n])
        BY CallFacts
      <4>. QED
        BY <2>1, <4>1, <4>2, <4>3
    <3>2. CASE d = Len(calls)
      <4>1. calls # <<>>
        BY <2>2, <3>2
      <4>. QED
        BY <2>1, <3>2, <4>1 DEF Inv, StackedOK
    <3>. QED
      BY <2>2, <3>1, <3>2
  <2>8. p \in 1..Len(pins) /\ pins \in Seq(Pin)
    BY <2>1, <2>7, CallFacts
  <2>. QED
    BY <2>6, <2>8 DEF Range
<1>2. (UNION {HeldBy(d) : d \in 1..Len(calls)}) \subseteq Range(pins)
  BY <1>1
<1>. QED
  BY <1>2 DEF MayCollect, Inv, Depth

-------------------------------------------------------------------------------
(* Steps                                                                   *)

(* The invariant holds with no handler in progress.                        *)
LEMMA InitInv ==
  ASSUME Init
  PROVE  Inv
<1>1. /\ pins = <<>> /\ calls = <<>> /\ failing = FALSE /\ lost = FALSE
      /\ Len(<<>>) = 0 /\ <<>> \in Seq(CallRecord) /\ <<>> \in Seq(Pin)
  BY DEF Init
<1>2. TypeOK
  <2>1. calls \in Seq(CallRecord) /\ Len(calls) <= CallsMax /\ pins \in Seq(Pin)
    BY <1>1, BoundAssumption
  <2>2. failing \in BOOLEAN
    BY <1>1
  <2>. QED
    BY <2>1, <2>2, Zenon DEF TypeOK
<1>3. CallsOK /\ StackedOK /\ PinnedOK
  BY <1>1 DEF CallsOK, StackedOK, PinnedOK
<1>. QED
  BY <1>1, <1>2, <1>3 DEF Inv

(* A handler that ends gives back what it holds.                           *)
LEMMA PopStep ==
  ASSUME Inv, Disciplined, calls # <<>>,
         calls' = SubSeq(calls, 1, Depth - 1), pins' = UnpinMany(Held(Current)),
         failing' \in BOOLEAN, lost' = lost
  PROVE  Inv' /\ Len(pins') = Current.base
<1>1. PICK n \in 1..Len(calls) :
        /\ n = Len(calls) /\ n = Depth /\ Current = calls[n] /\ n \in Nat /\ n <= CallsMax
        /\ Len(pins) = Ceiling(Current) /\ Ceiling(Current) = Current.base + Held(Current)
        /\ Current.base \in Nat /\ Held(Current) \in Nat /\ Current.base <= 3 * (n - 1)
  BY CurrentFacts
<1>2. /\ pins' \in Seq(Pin) /\ Len(pins') = Current.base
      /\ \A i \in 1..Current.base : pins'[i] = pins[i]
  <2>1. Held(Current) <= Len(pins) /\ Len(pins) - Held(Current) = Current.base
    BY <1>1
  <2>. QED
    BY <1>1, <2>1, CallFacts, UnpinFacts
<1>3. PICK m \in Nat : m = n - 1 /\ m = Depth - 1 /\ m <= Len(calls) /\ m <= CallsMax /\ m < n
  <2>1. n - 1 \in Nat /\ n - 1 <= n /\ n - 1 < n /\ n - 1 <= CallsMax
    BY <1>1, BoundAssumption
  <2>. QED
    BY <1>1, <2>1
<1>4. /\ calls' \in Seq(CallRecord) /\ Len(calls') = m
      /\ \A d \in 1..m : d \in 1..Len(calls) /\ calls'[d] = calls[d]
  BY <1>3, CallFacts, SMTT(30)
<1>5. TypeOK'
  <2>1. calls' \in Seq(CallRecord) /\ Len(calls') <= CallsMax /\ pins' \in Seq(Pin)
    BY <1>2, <1>3, <1>4
  <2>. QED
    BY <2>1, Zenon DEF TypeOK
<1>6. CallsOK'
  <2>1. ASSUME NEW d \in 1..m
        PROVE  CallOK(calls[d]) /\ (d < m => calls[d].op \in Callers /\ calls[d].looping)
    BY <1>1, <1>3, <1>4 DEF Inv, CallsOK
  <2>. QED
    BY <1>4, <2>1 DEF CallsOK
<1>7. StackedOK'
  <2>1. ASSUME NEW d \in 1..m
        PROVE  /\ calls[d].base <= 3 * (d - 1)
               /\ d < m => d + 1 \in 1..m /\ Ceiling(calls[d]) = calls[d + 1].base
               /\ \A e \in 1..m : d < e => Ceiling(calls[d]) <= calls[e].base
    BY <1>1, <1>3, <1>4 DEF Inv, StackedOK
  <2>2. Len(pins') = IF calls' = <<>> THEN 0 ELSE Ceiling(calls'[Len(calls')])
    <3>1. CASE m = 0
      BY <1>1, <1>2, <1>3, <1>4, <3>1
    <3>2. CASE m # 0
      <4>1. m \in 1..m /\ m \in 1..Len(calls) /\ m < Len(calls) /\ m + 1 = n
        BY <1>1, <1>3, <3>2
      <4>2. Ceiling(calls[m]) = calls[n].base
        BY <4>1 DEF Inv, StackedOK
      <4>3. calls' # <<>> /\ calls'[Len(calls')] = calls[m]
        BY <1>4, <3>2, <4>1
      <4>. QED
        BY <1>1, <1>2, <4>2, <4>3
    <3>. QED
      BY <3>1, <3>2
  <2>. QED
    BY <1>4, <2>1, <2>2 DEF StackedOK
<1>8. PinnedOK'
  <2>1. ASSUME NEW d \in 1..m, NEW part \in PinnedParts(calls[d])
        PROVE  \E p \in calls[d].base + 1..Ceiling(calls[d]) : pins'[p] = <<d, part>>
    <3>1. PICK p \in calls[d].base + 1..Ceiling(calls[d]) : pins[p] = <<d, part>>
      BY <1>4, <2>1 DEF Inv, PinnedOK
    <3>2. d < n /\ Ceiling(calls[d]) <= calls[n].base
      BY <1>1, <1>3, <1>4 DEF Inv, StackedOK
    <3>3. calls[d].base \in Nat /\ Ceiling(calls[d]) \in Nat
      BY <1>4, CallFacts
    <3>4. p \in 1..Current.base
      BY <1>1, <3>2, <3>3, SMTT(30)
    <3>. QED
      BY <1>2, <3>1, <3>4
  <2>. QED
    <3>1. \A d \in 1..Len(calls') : d \in 1..m /\ calls'[d] = calls[d]
      BY <1>4
    <3>2. ASSUME NEW d \in 1..Len(calls'), NEW part \in PinnedParts(calls'[d])
          PROVE  \E p \in calls'[d].base + 1..Ceiling(calls'[d]) : pins'[p] = <<d, part>>
      BY <2>1, <3>1
    <3>. QED
      BY <3>2 DEF PinnedOK
<1>. QED
  BY <1>2, <1>5, <1>6, <1>7, <1>8 DEF Inv

(* A handler begins above a caller and pins its operands.                  *)
LEMMA BeginStep ==
  ASSUME Inv, Disciplined, NEW op \in Handlers, Begin(op)
  PROVE  Inv'
<1>1. PICK args \in Arguments(op) :
        /\ calls' = Append(calls, [op |-> op, args |-> args, made |-> {},
                                   looping |-> FALSE, base |-> Len(pins)])
        /\ pins' = PinAll(OperandPins(Depth + 1, args))
  BY DEF Begin
<1>2. /\ Depth < CallsMax /\ failing' = failing /\ lost' = lost
      /\ calls # <<>> => Current.op \in Callers /\ Current.looping
  BY DEF Begin
<1>3. PICK n \in Nat : n = Len(calls) /\ n = Depth /\ n < CallsMax
  BY <1>2, CallFacts DEF Depth
<1>3a. n # 0 => calls # <<>>
  BY <1>3
<1>4. PICK h \in Nat : h = Len(pins) /\ h <= 3 * n
  <2>1. CASE calls = <<>>
    BY <1>3, <2>1 DEF Inv, StackedOK
  <2>2. CASE calls # <<>>
    <3>1. PICK m \in 1..Len(calls) :
            /\ m = Len(calls) /\ Len(pins) = Ceiling(Current)
            /\ Ceiling(Current) = Current.base + Held(Current)
            /\ Current.base \in Nat /\ Held(Current) \in Nat /\ Current.base <= 3 * (m - 1)
            /\ Current \in CallRecord /\ CallOK(Current)
      BY <2>2, CurrentFacts
    <3>2. Held(Current) <= 3
      BY <1>2, <2>2, <3>1, HeldFacts
    <3>. QED
      BY <1>3, <3>1, <3>2
  <2>. QED
    BY <2>1, <2>2
<1>5. PICK k \in Nat, objs \in Seq(Pin) :
        /\ k = PinCount(args) /\ objs = OperandPins(n + 1, args) /\ Len(objs) = k
        /\ \A i \in DOMAIN args : \E j \in 1..k : objs[j] = <<n + 1, i>>
        /\ args \in Seq(Operand)
  <2>1. n + 1 \in Int
    OBVIOUS
  <2>. QED
    BY <2>1, OperandFacts
<1>6. h + k <= TempRootsMax
  <2>1. k <= 2 \/ k <= 2 * MethodsMax
    <3>1. op \in Balanced
      BY DEF Disciplined
    <3>. QED
      BY <1>5, <3>1, OperandFacts DEF Balanced, OnStack
  <2>2. h <= 3 * (CallsMax - 1)
    BY <1>3, <1>4, BoundAssumption
  <2>3. 3 * CallsMax <= TempRootsMax /\ 3 * (CallsMax - 1) + 2 * MethodsMax + 1 <= TempRootsMax
    BY DEF Disciplined
  <2>. QED
    BY <2>1, <2>2, <2>3, BoundAssumption
<1>7. /\ pins' \in Seq(Pin) /\ Len(pins') = h + k
      /\ \A i \in 1..h : pins'[i] = pins[i]
      /\ \A i \in 1..k : pins'[h + i] = objs[i]
  BY <1>1, <1>3, <1>4, <1>5, <1>6, CallFacts, PinFacts
<1>8. PICK c \in CallRecord :
        /\ c = [op |-> op, args |-> args, made |-> {}, looping |-> FALSE, base |-> h]
        /\ c.op = op /\ c.args = args /\ c.made = {} /\ ~c.looping /\ c.base = h
  <2>1. /\ {} \in SUBSET {Result} /\ FALSE \in BOOLEAN /\ h \in Nat /\ op \in Handlers
        /\ args \in Seq(Operand)
    BY <1>5
  <2>2. [op |-> op, args |-> args, made |-> {}, looping |-> FALSE, base |-> h] \in CallRecord
    BY <2>1 DEF CallRecord
  <2>3. PICK c \in CallRecord :
          c = [op |-> op, args |-> args, made |-> {}, looping |-> FALSE, base |-> h]
    BY <2>2
  <2>4. c.op = op /\ c.args = args /\ c.made = {} /\ ~c.looping /\ c.base = h
    BY <2>3
  <2>. QED
    BY <2>3, <2>4
<1>9. /\ CallOK(c) /\ Held(c) = k /\ Ceiling(c) = h + k /\ PinnedParts(c) = DOMAIN args
  BY <1>5, <1>8 DEF CallOK, Held, Ceiling, PinnedParts
<1>10. /\ calls' \in Seq(CallRecord) /\ Len(calls') = n + 1 /\ calls'[n + 1] = c
       /\ \A d \in 1..n : d \in 1..Len(calls) /\ calls'[d] = calls[d]
  <2>1. calls \in Seq(CallRecord) /\ calls' = Append(calls, c)
    BY <1>1, <1>4, <1>8, CallFacts
  <2>2. /\ Append(calls, c) \in Seq(CallRecord) /\ Len(Append(calls, c)) = Len(calls) + 1
        /\ \A d \in 1..Len(calls) : Append(calls, c)[d] = calls[d]
        /\ Append(calls, c)[Len(calls) + 1] = c
    BY <2>1, AppendProperties
  <2>. QED
    BY <1>3, <2>1, <2>2
<1>11. \A d \in 1..n + 1 : d \in 1..n \/ d = n + 1
  OBVIOUS
<1>12. TypeOK'
  <2>1. calls' \in Seq(CallRecord) /\ Len(calls') <= CallsMax /\ pins' \in Seq(Pin)
    BY <1>3, <1>7, <1>10, BoundAssumption
  <2>2. failing' \in BOOLEAN
    BY <1>2 DEF Inv, TypeOK
  <2>. QED
    BY <2>1, <2>2, Zenon DEF TypeOK
<1>13. CallsOK'
  <2>1. ASSUME NEW d \in 1..n
        PROVE  CallOK(calls[d]) /\ calls[d].op \in Callers /\ calls[d].looping
    <3>1. CASE d < n
      BY <1>3, <1>10, <3>1 DEF Inv, CallsOK
    <3>2. CASE d = n
      BY <1>2, <1>3, <1>10, <3>2, CallFacts DEF Current, Depth
    <3>. QED
      BY <3>1, <3>2
  <2>. QED
    BY <1>9, <1>10, <1>11, <2>1 DEF CallsOK
<1>14. StackedOK'
  <2>1. ASSUME NEW d \in 1..n
        PROVE  /\ calls[d].base <= 3 * (d - 1) /\ Ceiling(calls[d]) <= h
               /\ d = n => Ceiling(calls[d]) = h
               /\ d < n => d + 1 \in 1..n /\ Ceiling(calls[d]) = calls[d + 1].base
               /\ \A e \in 1..n : d < e => Ceiling(calls[d]) <= calls[e].base
    <3>1. /\ calls[d].base <= 3 * (d - 1)
          /\ d < n => d + 1 \in 1..n /\ Ceiling(calls[d]) = calls[d + 1].base
          /\ \A e \in 1..n : d < e => Ceiling(calls[d]) <= calls[e].base
      BY <1>3, <1>10, SMTT(30) DEF Inv, StackedOK
    <3>2. calls # <<>> /\ n \in 1..n
      BY <1>3a
    <3>3. h = Ceiling(calls[n])
      BY <1>3, <1>4, <3>2 DEF Inv, StackedOK
    <3>4. /\ calls[n].base \in Nat /\ Held(calls[n]) \in Nat
          /\ Ceiling(calls[n]) = calls[n].base + Held(calls[n]) /\ Ceiling(calls[d]) \in Nat
      BY <1>3, <3>2, CallFacts
    <3>5. Ceiling(calls[d]) <= h
      <4>1. CASE d < n
        BY <3>1, <3>2, <3>3, <3>4, <4>1
      <4>2. CASE d = n
        BY <3>3, <3>4, <4>2
      <4>. QED
        BY <4>1, <4>2
    <3>. QED
      BY <3>1, <3>3, <3>5
  <2>2. calls' # <<>> /\ Len(pins') = Ceiling(calls'[Len(calls')])
    BY <1>7, <1>9, <1>10
  <2>3. ASSUME NEW d \in 1..n + 1
        PROVE  /\ calls'[d].base <= 3 * (d - 1)
               /\ d < n + 1 => Ceiling(calls'[d]) = calls'[d + 1].base
               /\ \A e \in 1..n + 1 : d < e => Ceiling(calls'[d]) <= calls'[e].base
    <3>1. CASE d \in 1..n
      <4>1. d < n \/ d = n
        BY <3>1
      <4>2. Ceiling(calls'[d]) = calls'[d + 1].base
        BY <1>8, <1>10, <2>1, <3>1, <4>1
      <4>3. ASSUME NEW e \in 1..n + 1, d < e PROVE Ceiling(calls'[d]) <= calls'[e].base
        BY <1>8, <1>10, <1>11, <2>1, <3>1, <4>3
      <4>. QED
        BY <1>10, <2>1, <3>1, <4>2, <4>3
    <3>2. CASE d = n + 1
      BY <1>4, <1>8, <1>10, <3>2
    <3>. QED
      BY <1>11, <3>1, <3>2
  <2>. QED
    BY <1>10, <2>2, <2>3 DEF StackedOK
<1>15. PinnedOK'
  <2>1. ASSUME NEW d \in 1..n, NEW part \in PinnedParts(calls[d])
        PROVE  \E p \in calls[d].base + 1..Ceiling(calls[d]) : pins'[p] = <<d, part>>
    <3>1. PICK p \in calls[d].base + 1..Ceiling(calls[d]) : pins[p] = <<d, part>>
      BY <1>10 DEF Inv, PinnedOK
    <3>2. calls[d].base \in Nat /\ Ceiling(calls[d]) \in Nat
      BY <1>10, CallFacts
    <3>3. Ceiling(calls'[d]) <= h
      <4>1. n \in 1..Len(calls) /\ calls # <<>>
        BY <1>3, <1>3a
      <4>2. h = Ceiling(calls[n]) /\ (d < n => Ceiling(calls[d]) <= calls[n].base)
        BY <1>3, <1>4, <1>10, <4>1 DEF Inv, StackedOK
      <4>3. /\ calls[n].base \in Nat /\ Held(calls[n]) \in Nat
            /\ Ceiling(calls[n]) = calls[n].base + Held(calls[n])
        BY <4>1, CallFacts
      <4>4. d < n \/ d = n
        OBVIOUS
      <4>. QED
        BY <1>10, <3>2, <4>2, <4>3, <4>4, SMTT(30)
    <3>4. p \in 1..h
      BY <1>10, <3>2, <3>3
    <3>. QED
      BY <1>7, <3>1, <3>4
  <2>2. ASSUME NEW part \in PinnedParts(c)
        PROVE  \E p \in c.base + 1..Ceiling(c) : pins'[p] = <<n + 1, part>>
    <3>1. PICK j \in 1..k : objs[j] = <<n + 1, part>>
      BY <1>5, <1>9
    <3>2. h + j \in c.base + 1..Ceiling(c)
      BY <1>8, <1>9
    <3>. QED
      BY <1>7, <3>1, <3>2
  <2>3. ASSUME NEW d \in 1..n + 1, NEW part \in PinnedParts(calls'[d])
        PROVE  \E p \in calls'[d].base + 1..Ceiling(calls'[d]) : pins'[p] = <<d, part>>
    <3>1. CASE d \in 1..n
      <4>1. calls'[d] = calls[d]
        BY <1>10, <3>1
      <4>. QED
        BY <2>1, <2>3, <3>1, <4>1
    <3>2. CASE d = n + 1
      <4>1. calls'[d] = c
        BY <1>10, <3>2
      <4>. QED
        BY <2>2, <2>3, <3>2, <4>1
    <3>. QED
      BY <1>11, <3>1, <3>2
  <2>. QED
    BY <1>10, <2>3 DEF PinnedOK
<1>. QED
  BY <1>2, <1>12, <1>13, <1>14, <1>15 DEF Inv

(* A handler goes on to its loop: what it pins besides comes on top.       *)
LEMMA LoopStep ==
  ASSUME Inv, Disciplined, calls # <<>>, NEW e \in CallRecord,
         e.op = Current.op, e.args = Current.args, e.base = Current.base, e.looping,
         ~Current.looping, CallOK(e),
         calls' \in Seq(CallRecord), Len(calls') = Len(calls), calls'[Len(calls)] = e,
         \A d \in 1..Len(calls) : d # Len(calls) => calls'[d] = calls[d],
         pins' \in Seq(Pin), Len(pins') = Len(pins) + ResultCount(e),
         \A i \in 1..Len(pins) : pins'[i] = pins[i],
         \A part \in ResultParts(e) :
           \E i \in 1..ResultCount(e) : pins'[Len(pins) + i] = <<Len(calls), part>>,
         failing' = failing, ~lost'
  PROVE  Inv'
<1>1. PICK n \in 1..Len(calls) :
        /\ n = Len(calls) /\ n = Depth /\ Current = calls[n] /\ n \in Nat /\ n <= CallsMax
        /\ Len(pins) = Ceiling(Current) /\ Ceiling(Current) = Current.base + Held(Current)
        /\ Current.base \in Nat /\ Held(Current) \in Nat /\ Current.base <= 3 * (n - 1)
  BY CurrentFacts
<1>2. ResultCount(e) \in Nat
  BY DEF ResultCount
<1>3. PICK h \in Nat, k \in Nat, b \in Nat :
        /\ h = Len(pins) /\ k = ResultCount(e) /\ b = e.base /\ b <= h
        /\ h = Ceiling(Current) /\ b = Current.base
  BY <1>1, <1>2, CallFacts, SMTT(30)
<1>4. Ceiling(e) = h + k /\ PinnedParts(e) = PinnedParts(Current) \cup ResultParts(e)
  <2>1. Held(Current) = PinCount(Current.args) /\ Held(e) = PinCount(Current.args) + k
    BY <1>3, CallFacts, CurrentFacts, HeldFacts DEF Held
  <2>2. PinCount(Current.args) \in Nat
    BY <1>1, <2>1
  <2>3. Ceiling(e) = h + k
    BY <1>1, <1>3, <2>1, <2>2 DEF Ceiling
  <2>4. PinnedParts(e) = PinnedParts(Current) \cup ResultParts(e)
    BY DEF PinnedParts
  <2>. QED
    BY <2>3, <2>4
<1>5. \A d \in 1..Len(calls') : /\ d \in 1..n
                                /\ d # n => d < n /\ calls'[d] = calls[d]
                                /\ d = n => calls'[d] = e
  BY <1>1
<1>6. TypeOK'
  <2>1. calls' \in Seq(CallRecord) /\ Len(calls') <= CallsMax /\ pins' \in Seq(Pin)
    BY <1>1
  <2>2. failing' \in BOOLEAN
    BY DEF Inv, TypeOK
  <2>. QED
    BY <2>1, <2>2, Zenon DEF TypeOK
<1>7. CallsOK'
  <2>1. ASSUME NEW d \in 1..n, d < n
        PROVE  CallOK(calls[d]) /\ calls[d].op \in Callers /\ calls[d].looping
    BY <1>1, <2>1 DEF Inv, CallsOK
  <2>2. Len(calls') = n
    BY <1>1
  <2>. QED
    BY <1>5, <2>1, <2>2 DEF CallsOK
<1>8. StackedOK'
  <2>1. ASSUME NEW d \in 1..n, d < n
        PROVE  /\ calls[d].base <= 3 * (d - 1) /\ d + 1 \in 1..n
               /\ Ceiling(calls[d]) = calls[d + 1].base
               /\ \A x \in 1..n : d < x => Ceiling(calls[d]) <= calls[x].base
    BY <1>1, <2>1 DEF Inv, StackedOK
  <2>2. calls' # <<>> /\ Len(calls') = n
    BY <1>1
  <2>3. Len(pins') = Ceiling(calls'[Len(calls')])
    BY <1>1, <1>3, <1>4
  <2>4. \A d \in 1..n : calls'[d].base = calls[d].base
    BY <1>1, <1>3, <1>5, <2>2
  <2>5. \A d \in 1..n : d < n => Ceiling(calls'[d]) = Ceiling(calls[d])
    BY <1>5, <2>2
  <2>6. ASSUME NEW d \in 1..n
        PROVE  /\ calls'[d].base <= 3 * (d - 1)
               /\ d < n => Ceiling(calls'[d]) = calls'[d + 1].base
               /\ \A x \in 1..n : d < x => Ceiling(calls'[d]) <= calls'[x].base
    <3>1. CASE d < n
      BY <2>1, <2>4, <2>5, <3>1
    <3>2. CASE d = n
      BY <1>1, <2>4, <3>2
    <3>3. d < n \/ d = n
      BY <1>1
    <3>. QED
      BY <3>1, <3>2, <3>3
  <2>. QED
    BY <2>2, <2>3, <2>6 DEF StackedOK
<1>9. PinnedOK'
  <2>1. ASSUME NEW d \in 1..n, NEW part \in PinnedParts(calls[d])
        PROVE  \E p \in calls[d].base + 1..Ceiling(calls[d]) :
                 p \in 1..h /\ pins'[p] = <<d, part>>
    <3>1. PICK p \in calls[d].base + 1..Ceiling(calls[d]) : pins[p] = <<d, part>>
      BY <1>1 DEF Inv, PinnedOK
    <3>2. calls[d].base \in Nat /\ Ceiling(calls[d]) \in Nat
      BY <1>1, CallFacts
    <3>3. Ceiling(calls[d]) <= h
      <4>1. CASE d < n
        <5>1. Ceiling(calls[d]) <= calls[n].base
          BY <1>1, <4>1 DEF Inv, StackedOK
        <5>. QED
          BY <1>1, <1>3, <3>2, <5>1, SMTT(30)
      <4>2. CASE d = n
        BY <1>1, <1>3, <4>2
      <4>. QED
        BY <1>1, <4>1, <4>2
    <3>4. p \in 1..h
      BY <3>2, <3>3
    <3>. QED
      BY <1>3, <3>1, <3>4
  <2>2. ASSUME NEW part \in PinnedParts(e)
        PROVE  \E p \in b + 1..h + k : pins'[p] = <<n, part>>
    <3>1. CASE part \in PinnedParts(Current)
      <4>1. PICK p \in calls[n].base + 1..Ceiling(calls[n]) : pins'[p] = <<n, part>>
        BY <1>1, <2>1, <3>1
      <4>2. p \in b + 1..h + k
        BY <1>1, <1>3, <4>1
      <4>. QED
        BY <4>1, <4>2
    <3>2. CASE part \in ResultParts(e)
      <4>1. PICK i \in 1..k : pins'[h + i] = <<n, part>>
        BY <1>1, <1>3, <3>2
      <4>2. b <= h /\ i \in Int /\ 1 <= i /\ i <= k
        BY <1>3
      <4>3. h + i \in b + 1..h + k
        BY <4>2
      <4>. QED
        BY <4>1, <4>3
    <3>. QED
      BY <1>4, <3>1, <3>2
  <2>3. ASSUME NEW d \in 1..Len(calls'), NEW part \in PinnedParts(calls'[d])
        PROVE  \E p \in calls'[d].base + 1..Ceiling(calls'[d]) : pins'[p] = <<d, part>>
    <3>1. CASE d = n
      <4>1. calls'[d] = e
        BY <1>5, <3>1
      <4>. QED
        BY <1>3, <1>4, <2>2, <3>1, <4>1
    <3>2. CASE d # n
      <4>1. calls'[d] = calls[d] /\ d \in 1..n
        BY <1>5, <3>2
      <4>. QED
        BY <2>1, <4>1
    <3>. QED
      BY <3>1, <3>2
  <2>. QED
    BY <2>3 DEF PinnedOK
<1>. QED
  BY <1>6, <1>7, <1>8, <1>9 DEF Inv

(* Replacing the innermost handler leaves the outer ones.                  *)
LEMMA ReplaceLast ==
  ASSUME NEW cs \in Seq(CallRecord), NEW e \in CallRecord, cs # <<>>
  PROVE  LET new == [cs EXCEPT ![Len(cs)] = e]
         IN  /\ new \in Seq(CallRecord) /\ Len(new) = Len(cs) /\ new[Len(cs)] = e
             /\ \A d \in 1..Len(cs) : d # Len(cs) => new[d] = cs[d]
<1>1. PICK n \in 1..Len(cs) : n = Len(cs)
  BY LenProperties
<1>2. /\ [cs EXCEPT ![n] = e] \in Seq(CallRecord) /\ Len([cs EXCEPT ![n] = e]) = Len(cs)
      /\ \A d \in 1..Len(cs) : [cs EXCEPT ![n] = e][d] = IF d = n THEN e ELSE cs[d]
  BY ExceptSeq
<1>. QED
  BY <1>1, <1>2

(* A handler makes its result and pins it.                                 *)
LEMMA MakeResultStep ==
  ASSUME Inv, Disciplined, MakeResult
  PROVE  Inv'
<1>1. /\ calls # <<>> /\ ~Current.looping /\ Accepts(Current)
      /\ Current.op # "OP_REDUCE_CALL"
      /\ MayCollect /\ pins' = PinAll(ResultPins(Current))
      /\ calls' = [calls EXCEPT ![Depth].looping = TRUE, ![Depth].made = {Result}]
      /\ failing' = failing
  BY DEF MakeResult
<1>2. PICK n \in 1..Len(calls) :
        /\ n = Len(calls) /\ n = Depth /\ Current = calls[n] /\ n \in Nat /\ n <= CallsMax
        /\ Current \in CallRecord /\ CallOK(Current)
        /\ Len(pins) = Ceiling(Current) /\ Ceiling(Current) = Current.base + Held(Current)
        /\ Current.base \in Nat /\ Held(Current) \in Nat /\ Current.base <= 3 * (n - 1)
  BY <1>1, CurrentFacts
<1>3. PICK e \in CallRecord :
        /\ e = [Current EXCEPT !.looping = TRUE, !.made = {Result}]
        /\ e.op = Current.op /\ e.args = Current.args /\ e.base = Current.base
        /\ e.looping = TRUE /\ e.made = {Result}
  <2>1. TRUE \in BOOLEAN /\ {Result} \in SUBSET {Result}
    OBVIOUS
  <2>2. [Current EXCEPT !.looping = TRUE, !.made = {Result}] \in CallRecord
    BY <1>2, <2>1 DEF CallRecord
  <2>3. PICK e \in CallRecord : e = [Current EXCEPT !.looping = TRUE, !.made = {Result}]
    BY <2>2
  <2>4. /\ e.op = Current.op /\ e.args = Current.args /\ e.base = Current.base
        /\ e.looping = TRUE /\ e.made = {Result}
    BY <1>2, <2>3 DEF CallRecord
  <2>. QED
    BY <2>3, <2>4
<1>4. /\ calls' \in Seq(CallRecord) /\ Len(calls') = Len(calls) /\ calls'[Len(calls)] = e
      /\ \A d \in 1..Len(calls) : d # Len(calls) => calls'[d] = calls[d]
  <2>1. calls' = [calls EXCEPT ![Len(calls)] = e] /\ calls \in Seq(CallRecord)
    BY <1>1, <1>2, <1>3, CallFacts
  <2>2. PICK cs \in Seq(CallRecord) : cs = calls
    BY <2>1
  <2>3. PICK new : new = [cs EXCEPT ![Len(cs)] = e] /\ new = calls'
    BY <2>1, <2>2
  <2>4. /\ new \in Seq(CallRecord) /\ Len(new) = Len(cs) /\ new[Len(cs)] = e
        /\ \A d \in 1..Len(cs) : d # Len(cs) => new[d] = cs[d]
    <3>1. cs # <<>>
      BY <1>1, <2>2
    <3>. QED
      BY <2>3, <3>1, ReplaceLast
  <2>. QED
    BY <2>2, <2>3, <2>4, Zenon
<1>5. CallOK(e)
  <2>1. Accepts(e)
    BY <1>1, <1>3 DEF Accepts, HasContainer
  <2>. QED
    BY <1>1, <1>2, <1>3, <2>1 DEF CallOK
<1>6. Current.op \in Balanced
  BY <1>2 DEF CallRecord, Disciplined
<1>7. PICK objs \in Seq(Pin) :
        /\ objs = ResultPins(Current) /\ Len(objs) = ResultCount(e)
        /\ \A part \in ResultParts(e) : \E i \in 1..Len(objs) : objs[i] = <<n, part>>
  <2>1. <<n, Result>> \in Pin /\ <<n, MethodsOf>> \in Pin
    BY DEF Pin, Result, MethodsOf
  <2>2. CASE e.op = "OP_MAKE"
    <3>1. ResultPins(Current) = <<<<n, Result>>, <<n, MethodsOf>>>>
      BY <1>2, <1>3, <2>2 DEF ResultPins
    <3>2. ResultCount(e) = 2 /\ ResultParts(e) = {Result, MethodsOf}
      BY <2>2 DEF ResultCount, ResultParts
    <3>3. PICK a \in Pin, b \in Pin : a = <<n, Result>> /\ b = <<n, MethodsOf>>
      BY <2>1
    <3>4. /\ <<a, b>> \in Seq(Pin) /\ Len(<<a, b>>) = 2
          /\ <<a, b>>[1] = a /\ <<a, b>>[2] = b /\ 1 \in 1..2 /\ 2 \in 1..2
      OBVIOUS
    <3>5. PICK objs \in Seq(Pin) : /\ objs = ResultPins(Current) /\ Len(objs) = 2
                                   /\ objs[1] = a /\ objs[2] = b
      BY <3>1, <3>3, <3>4
    <3>. QED
      BY <3>2, <3>3, <3>4, <3>5
  <2>3. CASE e.op \in {"OP_CALL", "OP_INDEX_GET", "OP_ZIP_MAP", "OP_REDUCE_CALL"}
    <3>1. ResultPins(Current) = <<>>
      BY <1>3, <2>3 DEF ResultPins
    <3>2. ResultCount(e) = 0 /\ ResultParts(e) = {}
      BY <2>3 DEF ResultCount, ResultParts
    <3>3. ResultPins(Current) \in Seq(Pin) /\ Len(ResultPins(Current)) = 0
      BY <3>1
    <3>. QED
      BY <3>2, <3>3
  <2>4. CASE e.op \in {"OP_CONCAT", "OP_VECTORIZE_CALL", "OP_ARRAY", "OP_MAP", "OP_OBJECT_TYPE"}
    <3>1. ResultPins(Current) = <<<<n, Result>>>>
      BY <1>2, <1>3, <2>4 DEF ResultPins
    <3>2. ResultCount(e) = 1 /\ ResultParts(e) = {Result}
      BY <2>4 DEF ResultCount, ResultParts
    <3>3. PICK a \in Pin : a = <<n, Result>>
      BY <2>1
    <3>4. <<a>> \in Seq(Pin) /\ Len(<<a>>) = 1 /\ <<a>>[1] = a /\ 1 \in 1..1
      OBVIOUS
    <3>5. PICK objs \in Seq(Pin) : objs = ResultPins(Current) /\ Len(objs) = 1 /\ objs[1] = a
      BY <3>1, <3>3, <3>4
    <3>. QED
      BY <3>2, <3>3, <3>4, <3>5
  <2>. QED
    BY <1>3, <1>6, <2>2, <2>3, <2>4 DEF Balanced
<1>8. Len(pins) + Len(objs) <= TempRootsMax
  <2>1. PICK k \in Nat : k = PinCount(Current.args) /\ Held(Current) = k
    BY <1>1, <1>2, HeldFacts DEF Held
  <2>2. PICK r \in Nat : r = ResultCount(e)
    BY DEF ResultCount
  <2>3. k + r <= 3 \/ k + r <= 2 * MethodsMax + 1
    <3>1. Current.op \in Handlers /\ Current.args \in Arguments(Current.op) /\ 0 \in Int
      BY <1>2 DEF CallOK, CallRecord
    <3>2. /\ Current.op \in {"OP_CALL", "OP_REDUCE_CALL"} => k = 1
          /\ Current.op \in {"OP_CONCAT", "OP_VECTORIZE_CALL", "OP_ZIP_MAP", "OP_INDEX_GET"} => k = 2
          /\ Current.op \in OnStack => k = 0
          /\ Current.op = "OP_OBJECT_TYPE" => k <= 2 * MethodsMax
      BY <2>1, <3>1, OperandFacts
    <3>3. /\ r <= 2 /\ (Current.op # "OP_MAKE" => r <= 1)
      BY <1>3, <2>2 DEF ResultCount
    <3>4. Current.op = "OP_OBJECT_TYPE" => k + r <= 2 * MethodsMax + 1
      BY <3>2, <3>3, BoundAssumption
    <3>. QED
      BY <1>6, <3>2, <3>3, <3>4 DEF Balanced, OnStack
  <2>4. Len(pins) = Current.base + k /\ Current.base <= 3 * (CallsMax - 1)
    BY <1>2, <2>1, BoundAssumption
  <2>5. 3 * CallsMax <= TempRootsMax /\ 3 * (CallsMax - 1) + 2 * MethodsMax + 1 <= TempRootsMax
    BY DEF Disciplined
  <2>6. PICK x \in Nat : x = Current.base /\ Len(pins) + Len(objs) = x + k + r
    BY <1>2, <1>7, <2>1, <2>2, <2>4
  <2>7. PICK c \in Nat, t \in Nat, m \in Nat : c = CallsMax /\ t = TempRootsMax /\ m = MethodsMax
    BY BoundAssumption
  <2>8. x <= 3 * (c - 1) /\ 3 * c <= t /\ 3 * (c - 1) + 2 * m + 1 <= t
    BY <2>4, <2>5, <2>6, <2>7
  <2>9. k + r <= 3 \/ k + r <= 2 * m + 1
    BY <2>3, <2>7
  <2>10. x + k + r <= t
    BY <2>8, <2>9
  <2>. QED
    BY <2>6, <2>7, <2>10
<1>9. /\ pins' \in Seq(Pin) /\ Len(pins') = Len(pins) + ResultCount(e)
      /\ \A i \in 1..Len(pins) : pins'[i] = pins[i]
      /\ \A i \in 1..ResultCount(e) : pins'[Len(pins) + i] = objs[i]
  BY <1>1, <1>7, <1>8, CallFacts, PinFacts
<1>10. \A part \in ResultParts(e) :
         \E i \in 1..ResultCount(e) : pins'[Len(pins) + i] = <<Len(calls), part>>
  <2>1. ASSUME NEW part \in ResultParts(e)
        PROVE  \E i \in 1..ResultCount(e) : pins'[Len(pins) + i] = <<n, part>>
    <3>1. PICK i \in 1..Len(objs) : objs[i] = <<n, part>>
      BY <1>7
    <3>2. i \in 1..ResultCount(e)
      BY <1>7
    <3>. QED
      BY <1>9, <3>1, <3>2
  <2>2. n = Len(calls)
    BY <1>2
  <2>. QED
    BY <2>1, <2>2
<1>11. ~lost'
  BY <1>1, NothingFreed
<1>. QED
  BY <1>1, <1>3, <1>4, <1>5, <1>9, <1>10, <1>11, LoopStep

(* A reduction starts on its elements.                                     *)
LEMMA StartFoldStep ==
  ASSUME Inv, Disciplined, StartFold
  PROVE  Inv'
<1>1. /\ calls # <<>> /\ ~Current.looping /\ Accepts(Current)
      /\ Current.op \in {"OP_REDUCE", "OP_REDUCE_CALL"}
      /\ calls' = [calls EXCEPT ![Depth].looping = TRUE]
      /\ pins' = pins /\ failing' = failing
      /\ IF "map" \in Range(Current.args) THEN MayCollect ELSE UNCHANGED lost
  BY DEF StartFold
<1>2. PICK n \in 1..Len(calls) :
        /\ n = Len(calls) /\ n = Depth /\ Current = calls[n]
        /\ Current \in CallRecord /\ CallOK(Current)
  BY <1>1, CurrentFacts
<1>3. Current.op = "OP_REDUCE_CALL"
  BY <1>1, <1>2 DEF CallRecord, Disciplined, Balanced
<1>4. PICK e \in CallRecord :
        /\ e = [Current EXCEPT !.looping = TRUE]
        /\ e.op = Current.op /\ e.args = Current.args /\ e.base = Current.base
        /\ e.looping = TRUE /\ e.made = Current.made
  <2>1. [Current EXCEPT !.looping = TRUE] \in CallRecord
    BY <1>2 DEF CallRecord
  <2>2. PICK e \in CallRecord : e = [Current EXCEPT !.looping = TRUE]
    BY <2>1
  <2>3. /\ e.op = Current.op /\ e.args = Current.args /\ e.base = Current.base
        /\ e.looping = TRUE /\ e.made = Current.made
    BY <1>2, <2>2 DEF CallRecord
  <2>. QED
    BY <2>2, <2>3
<1>5. /\ calls' \in Seq(CallRecord) /\ Len(calls') = Len(calls) /\ calls'[Len(calls)] = e
      /\ \A d \in 1..Len(calls) : d # Len(calls) => calls'[d] = calls[d]
  <2>1. calls' = [calls EXCEPT ![Len(calls)] = e] /\ calls \in Seq(CallRecord)
    BY <1>1, <1>2, <1>4, CallFacts
  <2>2. PICK cs \in Seq(CallRecord) : cs = calls
    BY <2>1
  <2>3. PICK new : new = [cs EXCEPT ![Len(cs)] = e] /\ new = calls'
    BY <2>1, <2>2
  <2>4. /\ new \in Seq(CallRecord) /\ Len(new) = Len(cs) /\ new[Len(cs)] = e
        /\ \A d \in 1..Len(cs) : d # Len(cs) => new[d] = cs[d]
    <3>1. cs # <<>>
      BY <1>1, <2>2
    <3>. QED
      BY <2>3, <3>1, ReplaceLast
  <2>. QED
    BY <2>2, <2>3, <2>4, Zenon
<1>6. CallOK(e)
  <2>1. Accepts(e)
    BY <1>1, <1>4 DEF Accepts, HasContainer
  <2>. QED
    BY <1>1, <1>2, <1>3, <1>4, <2>1 DEF CallOK
<1>7. ~lost'
  <2>1. Range(Current.args) = {"array"}
    BY <1>1, <1>3 DEF Accepts
  <2>. QED
    BY <1>1, <2>1 DEF Inv
<1>8. ResultCount(e) = 0 /\ ResultParts(e) = {}
  BY <1>3, <1>4 DEF ResultCount, ResultParts
<1>9. pins' \in Seq(Pin) /\ Len(pins') = Len(pins) + ResultCount(e)
  BY <1>1, <1>8, CallFacts
<1>. QED
  BY <1>1, <1>4, <1>5, <1>6, <1>7, <1>8, <1>9, LoopStep

(* A handler allocates for one more element.                               *)
LEMMA ElementStep ==
  ASSUME Inv, Disciplined, Element
  PROVE  Inv'
<1>1. /\ calls # <<>> /\ Current.op \in {"OP_REDUCE", "OP_VECTORIZE", "OP_MAKE"}
      /\ MayCollect /\ pins' = pins /\ failing' = failing
      /\ calls' = IF Current.op = "OP_REDUCE"
                  THEN [calls EXCEPT ![Depth].made = {Accumulator}] ELSE calls
  BY DEF Element
<1>2. Current \in CallRecord
  BY <1>1, CurrentFacts
<1>3. Current.op = "OP_MAKE"
  BY <1>1, <1>2 DEF CallRecord, Disciplined, Balanced
<1>4. ~lost'
  BY <1>1, <1>3, NothingFreed
<1>5. calls' = calls
  BY <1>1, <1>3
<1>6. TypeOK' /\ CallsOK' /\ StackedOK'
  BY <1>1, <1>5 DEF Inv, TypeOK, CallsOK, StackedOK
<1>7. PinnedOK'
  BY <1>1, <1>5 DEF Inv, PinnedOK
<1>. QED
  BY <1>4, <1>6, <1>7 DEF Inv

(* A handler ends in success.                                              *)
LEMMA FinishStep ==
  ASSUME Inv, Disciplined, Finish
  PROVE  Inv' /\ Len(pins') = Current.base
<1>1. /\ calls # <<>> /\ Current.looping /\ pins' = UnpinMany(SuccessUnpins(Current))
      /\ calls' = SubSeq(calls, 1, Depth - 1) /\ failing' = failing /\ lost' = lost
  BY DEF Finish
<1>2. SuccessUnpins(Current) = Held(Current)
  BY <1>1, CurrentFacts, HeldFacts
<1>3. failing' \in BOOLEAN
  BY <1>1 DEF Inv, TypeOK
<1>. QED
  BY <1>1, <1>2, <1>3, PopStep

(* A handler ends in a runtime error.                                      *)
LEMMA FailStep ==
  ASSUME Inv, Disciplined, Fail
  PROVE  Inv' /\ Len(pins') = Current.base
<1>1. /\ calls # <<>> /\ CanFail(Current) /\ pins' = UnpinMany(FailureUnpins(Current))
      /\ calls' = SubSeq(calls, 1, Depth - 1) /\ failing' = (Depth > 1) /\ lost' = lost
  BY DEF Fail
<1>2. FailureUnpins(Current) = Held(Current)
  BY <1>1, CurrentFacts, HeldFacts
<1>3. failing' \in BOOLEAN
  BY <1>1
<1>. QED
  BY <1>1, <1>2, <1>3, PopStep

(* Every step of the machine keeps the invariant.                          *)
LEMMA NextStep ==
  ASSUME Inv, Disciplined, [Next]_vars
  PROVE  Inv'
<1>1. CASE UNCHANGED vars
  <2>1. pins' = pins /\ calls' = calls /\ failing' = failing /\ lost' = lost
    BY <1>1 DEF vars
  <2>2. TypeOK' /\ CallsOK'
    BY <2>1 DEF Inv, TypeOK, CallsOK
  <2>3. StackedOK'
    BY <2>1 DEF Inv, StackedOK
  <2>4. PinnedOK'
    BY <2>1 DEF Inv, PinnedOK
  <2>. QED
    BY <2>1, <2>2, <2>3, <2>4 DEF Inv
<1>2. CASE \E op \in Handlers : Begin(op)
  BY <1>2, BeginStep
<1>3. CASE MakeResult
  BY <1>3, MakeResultStep
<1>4. CASE StartFold
  BY <1>4, StartFoldStep
<1>5. CASE Element
  BY <1>5, ElementStep
<1>6. CASE Finish
  BY <1>6, FinishStep
<1>7. CASE Fail
  BY <1>7, FailStep
<1>. QED
  BY <1>1, <1>2, <1>3, <1>4, <1>5, <1>6, <1>7 DEF Next

(* Only a handler that ends takes one away.                                *)
LEMMA EndStep ==
  ASSUME Inv, Disciplined, Next, Depth' < Depth
  PROVE  Len(pins') = Current.base
<1>1. Len(calls) \in Nat /\ calls \in Seq(CallRecord)
  BY CallFacts
<1>2. ASSUME Len(calls') >= Len(calls) PROVE FALSE
  BY <1>1, <1>2 DEF Depth
<1>3. CASE \E op \in Handlers : Begin(op)
  <2>1. PICK c : calls' = Append(calls, c)
    BY <1>3 DEF Begin
  <2>2. Len(calls') = Len(calls) + 1
    BY <1>1, <2>1
  <2>. QED
    BY <1>1, <1>2, <2>2
<1>4. CASE MakeResult \/ StartFold \/ Element
  <2>1. Len(calls') = Len(calls)
    BY <1>1, <1>4 DEF MakeResult, StartFold, Element
  <2>. QED
    BY <1>1, <1>2, <2>1
<1>5. CASE Finish
  BY <1>5, FinishStep
<1>6. CASE Fail
  BY <1>6, FailStep
<1>. QED
  BY <1>3, <1>4, <1>5, <1>6 DEF Next

-------------------------------------------------------------------------------
(* In every state of every run of handlers that balance, on arrays and     *)
(* maps, the handlers' pins lie above one another, and what a handler      *)
(* holds, while it may still allocate, is among its pins.                  *)
THEOREM Invariance ==
  ASSUME Disciplined
  PROVE  Spec => []Inv
<1>1. Init => Inv
  BY InitInv
<1>2. Inv /\ [Next]_vars => Inv'
  BY NextStep
<1>. QED
  BY <1>1, <1>2, PTL DEF Spec

(* A collection inside an opcode handler frees nothing that this or an     *)
(* outer handler uses (the pins of vm.c, gc_pin and gc_unpin).             *)
THEOREM PinsProtect ==
  ASSUME Disciplined
  PROVE  Spec => []NothingLost
<1>1. Inv => NothingLost
  BY DEF Inv, NothingLost
<1>. QED
  BY <1>1, Invariance, PTL

(* A handler that ends leaves the pin stack as it found it, whether it     *)
(* succeeds or fails (gc.h: the number of gc_unpin is that of gc_pin).     *)
THEOREM Paired ==
  ASSUME Disciplined
  PROVE  Spec => PinsPaired
<1>1. Inv /\ [Next]_vars => [Depth' < Depth => Len(pins') = Current.base]_vars
  BY EndStep
<1>. QED
  BY <1>1, Invariance, PTL DEF Spec, PinsPaired
===============================================================================
