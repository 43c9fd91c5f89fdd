----------------------------- MODULE ProbingProofs -----------------------------
(***************************************************************************)
(* Facts about the walks of Probing, for tables of any capacity and any    *)
(* hashes: a walk visits every slot, so it finds an empty one if there is  *)
(* one, and what a walk has found it finds again when slots are filled.    *)
(***************************************************************************)
EXTENDS Probing, FiniteSetTheorems, WellFoundedInduction, TLAPS

-------------------------------------------------------------------------------
(* Arithmetic.                                                             *)

LEMMA Multiples ==
  ASSUME NEW c \in Nat \ {0}, NEW k \in Int, -c < c * k, c * k < c
  PROVE  k = 0
<1>1. CASE k >= 1
  <2>1. c * (k - 1) >= 0
    BY <1>1
  <2>. QED
    BY <2>1
<1>2. CASE k <= -1
  <2>1. c * (-1 - k) >= 0
    BY <1>2
  <2>. QED
    BY <2>1
<1>. QED
  BY <1>1, <1>2

LEMMA Division ==
  ASSUME NEW c \in Nat \ {0}, NEW h \in Nat
  PROVE  h % c \in 0..c - 1 /\ \E q \in Int : h = c * q + (h % c)
<1>1. h % c \in 0..c - 1
  OBVIOUS
<1>2. h = c * (h \div c) + (h % c) /\ h \div c \in Int
  OBVIOUS
<1>. QED
  BY <1>1, <1>2

LEMMA Remainder ==
  ASSUME NEW c \in Nat \ {0}, NEW h \in Nat, NEW q \in Int, NEW i \in 0..c - 1, h = c * q + i
  PROVE  h % c = i
<1>1. PICK p \in Int : h = c * p + (h % c)
  BY Division
<1>2. h % c \in 0..c - 1
  BY Division
<1>3. c * (q - p) = (h % c) - i
  BY <1>1, <1>2
<1>4. -c < (h % c) - i /\ (h % c) - i < c
  BY <1>2
<1>5. q - p = 0
  BY <1>3, <1>4, Multiples
<1>6. c * (q - p) = 0
  BY <1>5
<1>. QED
  BY <1>2, <1>3, <1>6

(* A nonempty set of numbers has a smallest one.                           *)
LEMMA SmallestFacts ==
  ASSUME NEW S \in SUBSET Nat, S # {}
  PROVE  Smallest(S) \in S /\ \A m \in S : Smallest(S) <= m
<1>1. PICK n \in S : \A m \in S : <<m, n>> \notin OpToRel(<, Nat)
  BY NatLessThanWellFounded, WFMin
<1>2. \A m \in S : ~(m < n)
  BY <1>1 DEF OpToRel
<1>3. \A m \in S : n <= m
  BY <1>2
<1>. QED
  BY <1>3 DEF Smallest

-------------------------------------------------------------------------------
(* Walks.                                                                  *)

LEMMA SlotInRange ==
  ASSUME NEW k, Hash[k] \in Nat, NEW c \in Nat \ {0}, NEW n \in Nat
  PROVE  Slot(k, n, c) \in 0..c - 1
<1>1. Hash[k] + n \in Nat
  OBVIOUS
<1>. QED
  BY <1>1, Division DEF Slot

(* A walk of c steps visits every slot.                                    *)
LEMMA SlotOnto ==
  ASSUME NEW k, Hash[k] \in Nat, NEW c \in Nat \ {0}, NEW i \in 0..c - 1
  PROVE  \E n \in 0..c - 1 : Slot(k, n, c) = i
<1>. DEFINE h == Hash[k]
            r == h % c
<1>. HIDE DEF r
<1>1. PICK q \in Int : h = c * q + r
  BY Division DEF r
<1>2. r \in 0..c - 1
  BY Division DEF r
<1>3. CASE i >= r
  <2>1. i - r \in 0..c - 1 /\ h + (i - r) \in Nat
    BY <1>2, <1>3
  <2>2. h + (i - r) = c * q + i
    BY <1>1, <1>2
  <2>3. (h + (i - r)) % c = i
    BY <2>1, <2>2, Remainder
  <2>. QED
    BY <2>1, <2>3 DEF Slot
<1>4. CASE i < r
  <2>1. i - r + c \in 0..c - 1 /\ h + (i - r + c) \in Nat
    BY <1>2, <1>4
  <2>2. h + (i - r + c) = c * (q + 1) + i /\ q + 1 \in Int
    BY <1>1, <1>2
  <2>3. (h + (i - r + c)) % c = i
    BY <2>1, <2>2, Remainder
  <2>. QED
    BY <2>1, <2>3 DEF Slot
<1>. QED
  BY <1>2, <1>3, <1>4

(* The walk for key k comes to slot i before it comes to an empty one.     *)
Reached(k, i, tab, c) ==
  \E n \in 0..c - 1 :
    Slot(k, n, c) = i /\ \A m \in 0..n - 1 : tab[Slot(k, m, c)] # NULL

(* Filling slots takes nothing out of reach.                               *)
LEMMA ReachedKept ==
  ASSUME NEW k, Hash[k] \in Nat, NEW c \in Nat \ {0}, NEW i, NEW tab, NEW filled,
         \A j \in 0..c - 1 : tab[j] # NULL => filled[j] # NULL,
         Reached(k, i, tab, c)
  PROVE  Reached(k, i, filled, c)
<1>1. PICK n \in 0..c - 1 : Slot(k, n, c) = i /\ \A m \in 0..n - 1 : tab[Slot(k, m, c)] # NULL
  BY DEF Reached
<1>2. \A m \in 0..n - 1 : Slot(k, m, c) \in 0..c - 1
  BY SlotInRange
<1>. QED
  BY <1>1, <1>2 DEF Reached

(* The walk to the first slot that satisfies a condition, E the steps at   *)
(* which it may end.                                                       *)
LEMMA FirstStep ==
  ASSUME NEW c \in Nat, NEW E \in SUBSET (0..c - 1), E # {}
  PROVE  Smallest(E) \in E /\ \A m \in 0..Smallest(E) - 1 : m \notin E
<1>1. E \in SUBSET Nat
  OBVIOUS
<1>2. PICK n \in E : n = Smallest(E) /\ \A m \in E : n <= m
  BY <1>1, SmallestFacts
<1>3. \A m \in 0..n - 1 : m \notin E
  BY <1>1, <1>2
<1>. QED
  BY <1>2, <1>3

LEMMA CapacityFacts ==
  ASSUME NEW c \in Nat, NEW tab, DOMAIN tab = 0..c - 1
  PROVE  Capacity(tab) = c
BY FS_Interval DEF Capacity

(* A walk that stops at empty slots, among others, ends if there is one.    *)
LEMMA WalkEnds ==
  ASSUME NEW k, Hash[k] \in Nat, NEW c \in Nat \ {0}, NEW tab,
         NEW E \in SUBSET (0..c - 1), \A n \in 0..c - 1 : tab[Slot(k, n, c)] = NULL => n \in E,
         NEW e \in 0..c - 1, tab[e] = NULL
  PROVE  E # {}
<1>1. PICK n \in 0..c - 1 : Slot(k, n, c) = e
  BY SlotOnto
<1>. QED
  BY <1>1

(* It ends in a slot that it reaches, and no later than at a slot to be    *)
(* found: in an empty one only if what it looks for is not to be reached.  *)
LEMMA WalkFacts ==
  ASSUME NEW k, Hash[k] \in Nat, NEW c \in Nat \ {0}, NEW tab,
         NEW E \in SUBSET (0..c - 1), E # {},
         \A n \in 0..c - 1 : tab[Slot(k, n, c)] = NULL => n \in E
  PROVE  LET i == Slot(k, Smallest(E), c)
         IN  /\ Smallest(E) \in E
             /\ i \in 0..c - 1 /\ Reached(k, i, tab, c)
             /\ \A j \in 0..c - 1 :
                  /\ Reached(k, j, tab, c)
                  /\ \A n \in 0..c - 1 : Slot(k, n, c) = j => n \in E
                  => tab[i] # NULL \/ tab[j] = NULL
<1>1. PICK first \in 0..c - 1 :
        first = Smallest(E) /\ first \in E /\ \A m \in 0..first - 1 : m \notin E
  BY FirstStep
<1>2. Slot(k, first, c) \in 0..c - 1
  BY SlotInRange
<1>3. Reached(k, Slot(k, first, c), tab, c)
  BY <1>1 DEF Reached
<1>4. ASSUME NEW j \in 0..c - 1, Reached(k, j, tab, c), tab[j] # NULL,
             \A n \in 0..c - 1 : Slot(k, n, c) = j => n \in E
      PROVE  tab[Slot(k, first, c)] # NULL
  <2>1. PICK n \in 0..c - 1 : Slot(k, n, c) = j /\ \A m \in 0..n - 1 : tab[Slot(k, m, c)] # NULL
    BY <1>4 DEF Reached
  <2>2. n \in E
    BY <1>4, <2>1
  <2>3. ~(n < first)
    BY <1>1, <2>2
  <2>4. CASE n = first
    BY <1>4, <2>1, <2>4
  <2>5. CASE first < n
    BY <2>1, <2>5
  <2>. QED
    BY <2>3, <2>4, <2>5
<1>. QED
  BY <1>1, <1>2, <1>3, <1>4

(* Rehashing takes an empty slot that the walk for the key reaches.        *)
LEMMA SlotForFacts ==
  ASSUME NEW k, Hash[k] \in Nat, NEW c \in Nat \ {0}, NEW tab, DOMAIN tab = 0..c - 1,
         NEW e \in 0..c - 1, tab[e] = NULL
  PROVE  /\ SlotFor(k, tab) \in 0..c - 1 /\ tab[SlotFor(k, tab)] = NULL
         /\ Reached(k, SlotFor(k, tab), tab, c)
<1>. DEFINE E == {n \in 0..c - 1 : tab[Slot(k, n, c)] = NULL}
<1>1. SlotFor(k, tab) = Slot(k, Smallest(E), c)
  BY CapacityFacts DEF SlotFor
<1>2. \A n \in E : tab[Slot(k, n, c)] = NULL
  OBVIOUS
<1>3. E \in SUBSET (0..c - 1) /\ \A n \in 0..c - 1 : tab[Slot(k, n, c)] = NULL => n \in E
  OBVIOUS
<1>. HIDE DEF E
<1>4. E # {}
  BY <1>3, WalkEnds
<1>5. /\ Smallest(E) \in E /\ Slot(k, Smallest(E), c) \in 0..c - 1
      /\ Reached(k, Slot(k, Smallest(E), c), tab, c)
  BY <1>3, <1>4, WalkFacts
<1>. QED
  BY <1>1, <1>2, <1>5

-------------------------------------------------------------------------------
(* How many slots of a table are taken.                                    *)
Taken(tab, c) == {i \in 0..c - 1 : tab[i] # NULL}

LEMMA TakenFinite ==
  ASSUME NEW c \in Nat, NEW tab
  PROVE  /\ IsFiniteSet(Taken(tab, c)) /\ Cardinality(Taken(tab, c)) \in Nat
         /\ Cardinality(Taken(tab, c)) <= c
<1>1. IsFiniteSet(0..c - 1) /\ Cardinality(0..c - 1) = c
  BY FS_Interval
<1>2. IsFiniteSet(Taken(tab, c)) /\ Cardinality(Taken(tab, c)) <= c
  BY <1>1, FS_Subset DEF Taken
<1>. QED
  BY <1>2, FS_CardinalityType

LEMMA EmptyTableTaken ==
  ASSUME NEW c \in Nat
  PROVE  /\ DOMAIN EmptyTable(c) = 0..c - 1
         /\ \A i \in 0..c - 1 : EmptyTable(c)[i] = NULL
         /\ Taken(EmptyTable(c), c) = {} /\ Cardinality(Taken(EmptyTable(c), c)) = 0
<1>1. Taken(EmptyTable(c), c) = {}
  BY DEF EmptyTable, Taken
<1>. QED
  BY <1>1, FS_EmptySet DEF EmptyTable

(* While fewer are taken than there are, one is empty.                     *)
LEMMA RoomLeft ==
  ASSUME NEW c \in Nat, NEW tab, Cardinality(Taken(tab, c)) < c
  PROVE  \E e \in 0..c - 1 : tab[e] = NULL
<1>. SUFFICES ASSUME \A e \in 0..c - 1 : tab[e] # NULL PROVE FALSE
  OBVIOUS
<1>1. Taken(tab, c) = 0..c - 1
  BY DEF Taken
<1>2. Cardinality(0..c - 1) = c
  BY FS_Interval
<1>. QED
  BY <1>1, <1>2

(* Taking an empty slot takes one more, writing a taken one none.          *)
LEMMA TakeOne ==
  ASSUME NEW c \in Nat, NEW tab, DOMAIN tab = 0..c - 1, NEW i \in 0..c - 1, NEW e, e # NULL
  PROVE  /\ DOMAIN [tab EXCEPT ![i] = e] = 0..c - 1
         /\ Cardinality(Taken([tab EXCEPT ![i] = e], c)) =
              IF tab[i] = NULL THEN Cardinality(Taken(tab, c)) + 1 ELSE Cardinality(Taken(tab, c))
<1>. DEFINE after == [tab EXCEPT ![i] = e]
<1>1. DOMAIN after = 0..c - 1
  OBVIOUS
<1>2. \A j \in 0..c - 1 : after[j] = IF j = i THEN e ELSE tab[j]
  OBVIOUS
<1>3. Taken(after, c) = Taken(tab, c) \cup {i}
  BY <1>2 DEF Taken
<1>4. i \in Taken(tab, c) <=> tab[i] # NULL
  BY DEF Taken
<1>. QED
  BY <1>1, <1>3, <1>4, TakenFinite, FS_AddElement, ZenonT(30)
===============================================================================
