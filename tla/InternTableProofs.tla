--------------------------- MODULE InternTableProofs ---------------------------
(***************************************************************************)
(* Proofs about InternTable: for any strings, texts, hashes, capacities    *)
(* and failures of memory the table holds exactly the allocated strings,   *)
(* one of a text, and a walk for a text comes to its string.               *)
(***************************************************************************)
EXTENDS InternTable, ProbingProofs

(* The slots that hold a string.                                           *)
Held(tab, c) == {i \in 0..c - 1 : tab[i] \in String}

(* A text has one string, and the walk for the text comes to it before it   *)
(* comes to an empty slot; it may pass tombstones.                          *)
WellPlaced(tab, c) ==
  /\ tab \in [0..c - 1 -> String \cup {NULL, Tombstone}]
  /\ \A i, j \in Held(tab, c) : Chars[tab[i]] = Chars[tab[j]] => i = j
  /\ \A i \in Held(tab, c) : Reached(Chars[tab[i]], i, tab, c)

Strings(tab, c) == {tab[i] : i \in Held(tab, c)}

(* What the counts count. The load factor holds until growth fails.         *)
LoadOK ==
  /\ IsFiniteSet(live) /\ count = Cardinality(live) /\ count = Cardinality(Held(table, cap))
  /\ used = Cardinality(Taken(table, cap))
  /\ cap # 1
  /\ ~starved => /\ 4 * used <= 3 * cap
                 /\ pc = "insert" => cap # 0 /\ 4 * (used + 1) <= 3 * cap

(* What is being made has no string yet.                                    *)
StrOK ==
  pc # "idle" => str \in String /\ \A s \in live : Chars[s] # Chars[str]

GrownCap == IF cap = 0 THEN InitCap ELSE 2 * cap

(* The new table holds what has been rehashed, and no tombstone.            *)
GrowOK ==
  IF pc = "grow"
  THEN /\ WellPlaced(new, GrownCap)
       /\ \A i \in 0..GrownCap - 1 : new[i] # Tombstone
       /\ Strings(new, GrownCap) = Strings(table, next)
       /\ Cardinality(Held(new, GrownCap)) = Cardinality(Held(table, next))
  ELSE next = 0

Inv ==
  /\ TypeOK /\ WellPlaced(table, cap) /\ Strings(table, cap) = live
  /\ LoadOK /\ StrOK /\ GrowOK

-------------------------------------------------------------------------------
(* Tables.                                                                 *)

LEMMA StringFacts ==
  /\ NULL \notin String /\ Tombstone \notin String /\ NULL # Tombstone
  /\ \A s \in String : Chars[s] \in Text /\ Hash[Chars[s]] \in Nat
  /\ \A t \in Text : Hash[t] \in Nat
BY StringAssumption

LEMMA HeldFacts ==
  ASSUME NEW c \in Nat, NEW tab
  PROVE  /\ IsFiniteSet(Held(tab, c)) /\ Cardinality(Held(tab, c)) \in Nat
         /\ Cardinality(Held(tab, c)) <= Cardinality(Taken(tab, c))
         /\ Cardinality(Taken(tab, c)) \in Nat /\ Cardinality(Taken(tab, c)) <= c
<1>1. Held(tab, c) \subseteq Taken(tab, c)
  BY StringFacts DEF Held, Taken
<1>2. IsFiniteSet(Taken(tab, c)) /\ Cardinality(Taken(tab, c)) \in Nat /\ Cardinality(Taken(tab, c)) <= c
  BY TakenFinite
<1>3. IsFiniteSet(Held(tab, c)) /\ Cardinality(Held(tab, c)) <= Cardinality(Taken(tab, c))
  BY <1>1, <1>2, FS_Subset
<1>. QED
  BY <1>2, <1>3, FS_CardinalityType

LEMMA EmptyTablePlaced ==
  ASSUME NEW c \in Nat
  PROVE  /\ WellPlaced(EmptyTable(c), c) /\ Held(EmptyTable(c), c) = {}
         /\ Strings(EmptyTable(c), c) = {} /\ Cardinality(Held(EmptyTable(c), c)) = 0
         /\ \A i \in 0..c - 1 : EmptyTable(c)[i] # Tombstone
<1>1. EmptyTable(c) \in [0..c - 1 -> String \cup {NULL, Tombstone}]
  BY DEF EmptyTable
<1>2. Held(EmptyTable(c), c) = {}
  BY StringFacts DEF EmptyTable, Held
<1>3. \A i \in 0..c - 1 : EmptyTable(c)[i] # Tombstone
  BY StringFacts DEF EmptyTable
<1>. QED
  BY <1>1, <1>2, <1>3, FS_EmptySet DEF WellPlaced, Strings

(* A string in an empty slot, or in the place of a tombstone, that its walk *)
(* reaches.                                                                *)
LEMMA Placed ==
  ASSUME NEW c \in Nat \ {0}, NEW tab, WellPlaced(tab, c), NEW s \in String,
         \A j \in Held(tab, c) : Chars[tab[j]] # Chars[s],
         NEW i \in 0..c - 1, tab[i] \notin String, Reached(Chars[s], i, tab, c),
         NEW after, after = [tab EXCEPT ![i] = s]
  PROVE  /\ WellPlaced(after, c)
         /\ Cardinality(Held(after, c)) = Cardinality(Held(tab, c)) + 1
<1>1. /\ after \in [0..c - 1 -> String \cup {NULL, Tombstone}]
      /\ tab \in [0..c - 1 -> String \cup {NULL, Tombstone}]
  BY DEF WellPlaced
<1>2. \A j \in 0..c - 1 : after[j] = IF j = i THEN s ELSE tab[j]
  BY <1>1
<1>3. i \notin Held(tab, c) /\ Held(after, c) = Held(tab, c) \cup {i} /\ s # NULL
  BY <1>2, StringFacts DEF Held
<1>4. Cardinality(Held(after, c)) = Cardinality(Held(tab, c)) + 1
  BY <1>3, HeldFacts, FS_AddElement
<1>5. \A j \in Held(tab, c) : j \in 0..c - 1 /\ j # i /\ after[j] = tab[j] /\ tab[j] \in String
  BY <1>2, <1>3 DEF Held
<1>6. after[i] = s
  BY <1>2
<1>7. \A j \in 0..c - 1 : tab[j] # NULL => after[j] # NULL
  BY <1>2, <1>3
<1>8. ASSUME NEW j \in Held(after, c) PROVE Reached(Chars[after[j]], j, after, c)
  <2>1. after[j] \in String /\ Reached(Chars[after[j]], j, tab, c)
    BY <1>1, <1>3, <1>5, <1>6, ZenonT(30) DEF WellPlaced
  <2>2. Hash[Chars[after[j]]] \in Nat
    BY <2>1, StringFacts
  <2>. QED
    BY <2>1, <2>2, <1>7, ReachedKept
<1>9. \A j, k \in Held(after, c) : Chars[after[j]] = Chars[after[k]] => j = k
  BY <1>3, <1>5, <1>6 DEF WellPlaced
<1>. QED
  BY <1>1, <1>4, <1>8, <1>9 DEF WellPlaced

(* A tombstone in place of a string.                                        *)
LEMMA Buried ==
  ASSUME NEW c \in Nat \ {0}, NEW tab, WellPlaced(tab, c), NEW i \in Held(tab, c),
         NEW after, after = [tab EXCEPT ![i] = Tombstone]
  PROVE  /\ WellPlaced(after, c)
         /\ Cardinality(Held(after, c)) = Cardinality(Held(tab, c)) - 1
         /\ Cardinality(Taken(after, c)) = Cardinality(Taken(tab, c))
<1>1. /\ after \in [0..c - 1 -> String \cup {NULL, Tombstone}]
      /\ tab \in [0..c - 1 -> String \cup {NULL, Tombstone}]
      /\ i \in 0..c - 1 /\ tab[i] \in String /\ tab[i] # NULL
  BY StringFacts DEF WellPlaced, Held
<1>2. \A j \in 0..c - 1 : after[j] = IF j = i THEN Tombstone ELSE tab[j]
  BY <1>1
<1>3. Held(after, c) = Held(tab, c) \ {i}
  BY <1>2, StringFacts DEF Held
<1>4. Cardinality(Held(after, c)) = Cardinality(Held(tab, c)) - 1
  BY <1>3, HeldFacts, FS_RemoveElement
<1>5. Cardinality(Taken(after, c)) = Cardinality(Taken(tab, c))
  BY <1>1, StringFacts, TakeOne
<1>6. \A j \in Held(after, c) : j \in Held(tab, c) /\ after[j] = tab[j] /\ tab[j] \in String
  BY <1>2, <1>3 DEF Held
<1>7. \A j \in 0..c - 1 : tab[j] # NULL => after[j] # NULL
  BY <1>2, StringFacts
<1>8. ASSUME NEW j \in Held(after, c) PROVE Reached(Chars[after[j]], j, after, c)
  <2>1. Reached(Chars[after[j]], j, tab, c) /\ Hash[Chars[after[j]]] \in Nat
    BY <1>6, StringFacts DEF WellPlaced
  <2>. QED
    BY <2>1, <1>7, ReachedKept
<1>9. \A j, k \in Held(after, c) : Chars[after[j]] = Chars[after[k]] => j = k
  BY <1>6 DEF WellPlaced
<1>. QED
  BY <1>1, <1>4, <1>5, <1>8, <1>9 DEF WellPlaced

-------------------------------------------------------------------------------
(* Walks.                                                                  *)

LEMMA InvFacts ==
  ASSUME Inv
  PROVE  /\ cap \in Nat /\ count \in Nat /\ used \in Nat /\ live \subseteq String /\ next \in Nat
         /\ table \in [0..cap - 1 -> String \cup {NULL, Tombstone}] /\ WellPlaced(table, cap)
         /\ \A s \in live : \E j \in Held(table, cap) : table[j] = s
         /\ \A j \in Held(table, cap) : j \in 0..cap - 1 /\ table[j] \in live
BY DEF Inv, TypeOK, WellPlaced, Strings, Held

(* What obj_string_new finds: the string of the text, if one is allocated.  *)
LEMMA FindFacts ==
  ASSUME Inv, NEW t \in Text, cap = 0 \/ FindEnds(t) # {}
  PROVE  IF InternFind(t) = NULL THEN \A s \in live : Chars[s] # t
         ELSE InternFind(t) \in live /\ Chars[InternFind(t)] = t
<1>1. CASE cap = 0
  BY <1>1, InvFacts DEF InternFind
<1>2. CASE cap # 0
  <2>. DEFINE E == FindEnds(t)
  <2>1. PICK i : i = Slot(t, Smallest(E), cap)
    OBVIOUS
  <2>2. InternFind(t) = table[i]
    BY <1>2, <2>1 DEF InternFind
  <2>3. /\ E \in SUBSET (0..cap - 1) /\ E # {}
        /\ \A n \in 0..cap - 1 : table[Slot(t, n, cap)] = NULL => n \in E
        /\ \A n \in E : \/ table[Slot(t, n, cap)] = NULL
                        \/ table[Slot(t, n, cap)] # Tombstone /\ Chars[table[Slot(t, n, cap)]] = t
    BY <1>2 DEF FindEnds
  <2>4. \A j \in Held(table, cap) : Chars[table[j]] = t =>
           /\ Reached(t, j, table, cap)
           /\ \A n \in 0..cap - 1 : Slot(t, n, cap) = j => n \in E
    BY InvFacts, StringFacts DEF FindEnds, WellPlaced
  <2>. HIDE DEF E
  <2>5. cap \in Nat \ {0} /\ Hash[t] \in Nat
    BY <1>2, InvFacts, StringFacts
  <2>6. /\ Smallest(E) \in E /\ i \in 0..cap - 1
        /\ \A j \in 0..cap - 1 :
             /\ Reached(t, j, table, cap)
             /\ \A n \in 0..cap - 1 : Slot(t, n, cap) = j => n \in E
             => table[i] # NULL \/ table[j] = NULL
    BY <2>1, <2>3, <2>5, WalkFacts
  <2>7. CASE table[i] = NULL
    <3>1. \A j \in Held(table, cap) : Chars[table[j]] # t
      BY <2>4, <2>6, <2>7, InvFacts, StringFacts
    <3>. QED
      BY <2>2, <2>7, <3>1, InvFacts
  <2>8. CASE table[i] # NULL
    <3>1. table[i] \in String /\ Chars[table[i]] = t
      BY <2>1, <2>3, <2>6, <2>8, InvFacts
    <3>2. i \in Held(table, cap)
      BY <2>6, <3>1 DEF Held
    <3>. QED
      BY <2>2, <2>8, <3>1, <3>2, InvFacts
  <2>. QED
    BY <2>7, <2>8
<1>. QED
  BY <1>1, <1>2

(* intern_remove comes to the string that is freed.                         *)
LEMMA RemoveFacts ==
  ASSUME Inv, NEW s \in live, RemoveEnds(s) # {}
  PROVE  LET i == Slot(Chars[s], Smallest(RemoveEnds(s)), cap)
         IN  cap \in Nat \ {0} /\ i \in Held(table, cap) /\ table[i] = s
<1>. DEFINE E == RemoveEnds(s)
<1>1. PICK i : i = Slot(Chars[s], Smallest(E), cap)
  OBVIOUS
<1>2. PICK j \in Held(table, cap) : table[j] = s
  BY InvFacts
<1>3. /\ s \in String /\ s # NULL /\ Hash[Chars[s]] \in Nat
      /\ j \in 0..cap - 1 /\ cap \in Nat \ {0} /\ Reached(Chars[s], j, table, cap)
  BY <1>2, InvFacts, StringFacts DEF WellPlaced
<1>4. /\ E \in SUBSET (0..cap - 1) /\ E # {}
      /\ \A n \in 0..cap - 1 : table[Slot(Chars[s], n, cap)] = NULL => n \in E
      /\ \A n \in E : table[Slot(Chars[s], n, cap)] \in {s, NULL}
      /\ \A n \in 0..cap - 1 : Slot(Chars[s], n, cap) = j => n \in E
  BY <1>2 DEF RemoveEnds
<1>. HIDE DEF E
<1>5. Smallest(E) \in E /\ i \in 0..cap - 1 /\ (table[i] # NULL \/ table[j] = NULL)
  BY <1>1, <1>3, <1>4, WalkFacts
<1>6. table[i] = s /\ i \in Held(table, cap)
  BY <1>1, <1>2, <1>3, <1>4, <1>5 DEF Held
<1>. QED
  BY <1>1, <1>3, <1>6 DEF E

-------------------------------------------------------------------------------
(* The steps.                                                              *)

LEMMA QuietStep ==
  ASSUME Inv, UNCHANGED <<table, counts, live, pc, str, new, next, starved>>,
         made' \in String \cup {NULL}
  PROVE  Inv'
<1>1. TypeOK' /\ WellPlaced(table, cap)' /\ (Strings(table, cap) = live)'
  BY DEF Inv, TypeOK, Table, counts
<1>2. LoadOK' /\ StrOK'
  BY DEF Inv, LoadOK, StrOK, counts
<1>3. GrownCap' = GrownCap
  BY DEF GrownCap, counts
<1>4. GrowOK'
  BY <1>3 DEF Inv, GrowOK
<1>. QED
  BY <1>1, <1>2, <1>4 DEF Inv

LEMMA InitFacts == Init => Inv /\ Abstract!Init
<1>. SUFFICES ASSUME Init PROVE Inv /\ Abstract!Init
  OBVIOUS
<1>1. /\ table = EmptyTable(0) /\ new = EmptyTable(0) /\ cap = 0 /\ count = 0 /\ used = 0
      /\ live = {} /\ made = NULL /\ pc = "idle" /\ str = NULL /\ next = 0 /\ starved = FALSE
  BY DEF Init
<1>2. TypeOK
  <2>1. Table(EmptyTable(0)) /\ DOMAIN EmptyTable(0) = 0..0 - 1
    BY EmptyTablePlaced DEF WellPlaced, Table
  <2>2. Table(table) /\ DOMAIN table = 0..cap - 1 /\ Table(new) /\ next \in 0..cap
    BY <1>1, <2>1
  <2>3. starved \in BOOLEAN
    BY <1>1
  <2>4. cap \in Nat /\ count \in Nat /\ used \in Nat /\ live \subseteq String
    BY <1>1
  <2>. QED
    BY <1>1, <2>2, <2>3, <2>4 DEF TypeOK
<1>3. WellPlaced(table, cap) /\ Strings(table, cap) = live
  BY <1>1, EmptyTablePlaced
<1>4. LoadOK /\ StrOK /\ GrowOK
  BY <1>1, EmptyTablePlaced, EmptyTableTaken, FS_EmptySet DEF LoadOK, StrOK, GrowOK
<1>. QED
  BY <1>1, <1>2, <1>3, <1>4 DEF Inv, Abstract!Init

LEMMA FindStep ==
  ASSUME Inv, NEW t \in Text, Find(t)
  PROVE  Inv' /\ \E s \in String : Abstract!Make(s)
<1>1. PICK s : s = InternFind(t) /\ s \in live /\ s \in String /\ made' = s
  BY FindFacts, InvFacts DEF Find
<1>2. Inv' /\ live' = live
  BY <1>1, QuietStep DEF Find
<1>. QED
  BY <1>1, <1>2 DEF Abstract!Make

LEMMA MissStep ==
  ASSUME Inv, NEW s \in String, Miss(s)
  PROVE  Inv' /\ UNCHANGED <<live, made>>
<1>1. /\ table' = table /\ cap' = cap /\ count' = count /\ used' = used /\ live' = live
      /\ made' = made /\ pc' = "alloc" /\ str' = s /\ new' = new /\ next' = next
      /\ starved' = starved /\ pc = "idle"
  BY DEF Miss, counts
<1>2. \A r \in live : Chars[r] # Chars[s]
  BY FindFacts, StringFacts DEF Miss
<1>3. TypeOK' /\ WellPlaced(table, cap)' /\ (Strings(table, cap) = live)'
  BY <1>1 DEF Inv, TypeOK, Table
<1>4. LoadOK' /\ StrOK' /\ GrowOK'
  BY <1>1, <1>2 DEF Inv, LoadOK, StrOK, GrowOK
<1>. QED
  BY <1>1, <1>3, <1>4 DEF Inv

LEMMA AddStep ==
  ASSUME Inv, Add
  PROVE  Inv' /\ UNCHANGED <<live, made>>
<1>1. /\ table' = table /\ cap' = cap /\ count' = count /\ used' = used /\ live' = live
      /\ made' = made /\ str' = str /\ pc = "alloc" /\ next = 0
  BY DEF Add, counts, Inv, GrowOK
<1>2. TypeOK /\ LoadOK /\ cap \in Nat /\ used \in Nat
  BY DEF Inv, TypeOK
<1>3. StrOK' /\ WellPlaced(table, cap)' /\ (Strings(table, cap) = live)'
  BY <1>1 DEF Inv, StrOK
<1>4. ASSUME Overloaded, pc' = "grow", new' = EmptyTable(GrownCap), next' = 0, starved' = starved
      PROVE  TypeOK' /\ LoadOK' /\ GrowOK'
  <2>1. GrownCap' = GrownCap /\ GrownCap \in Nat
    BY <1>1, <1>2, CapAssumption DEF GrownCap
  <2>2. Held(table, 0) = {}
    BY DEF Held
  <2>3. Strings(table, 0) = {} /\ Cardinality(Held(table, 0)) = 0
    BY <2>2, FS_EmptySet DEF Strings
  <2>4. GrowOK'
    BY <1>1, <1>4, <2>1, <2>3, EmptyTablePlaced DEF GrowOK
  <2>5. TypeOK'
    BY <1>1, <1>2, <1>4, <2>1 DEF TypeOK, Table, EmptyTable
  <2>6. LoadOK'
    BY <1>1, <1>2, <1>4 DEF LoadOK
  <2>. QED
    BY <2>4, <2>5, <2>6
<1>5. ASSUME pc' = "insert", new' = new, next' = next,
             starved' = TRUE \/ (~Overloaded /\ starved' = starved)
      PROVE  TypeOK' /\ LoadOK' /\ GrowOK'
  <2>1. TypeOK'
    BY <1>1, <1>2, <1>5 DEF TypeOK, Table
  <2>2. LoadOK' /\ GrowOK'
    BY <1>1, <1>2, <1>5 DEF LoadOK, GrowOK, Overloaded
  <2>. QED
    BY <2>1, <2>2
<1>6. TypeOK' /\ LoadOK' /\ GrowOK'
  BY <1>4, <1>5 DEF Add, GrownCap
<1>. QED
  BY <1>1, <1>3, <1>6 DEF Inv

LEMMA GrownFacts ==
  ASSUME Inv
  PROVE  GrownCap \in Nat \ {0} /\ cap < GrownCap /\ GrownCap # 1 /\ 4 * (count + 1) <= 3 * GrownCap
<1>1. cap \in Nat /\ cap # 1
  BY DEF Inv, TypeOK, LoadOK
<1>2. count \in Nat /\ count <= cap
  BY <1>1, HeldFacts DEF Inv, LoadOK
<1>. QED
  BY <1>1, <1>2, CapAssumption DEF GrownCap

(* A string moves to the new table, which is not full; a tombstone does not. *)
LEMMA RehashStep ==
  ASSUME Inv, Rehash
  PROVE  Inv' /\ UNCHANGED <<live, made>>
<1>. DEFINE c == GrownCap
<1>1. /\ table' = table /\ cap' = cap /\ count' = count /\ used' = used /\ live' = live
      /\ made' = made /\ pc' = pc /\ str' = str /\ starved' = starved /\ next' = next + 1
      /\ pc = "grow" /\ next < cap
  BY DEF Rehash, counts
<1>2. /\ cap \in Nat /\ next \in Nat /\ TypeOK /\ LoadOK
      /\ table \in [0..cap - 1 -> String \cup {NULL, Tombstone}] /\ WellPlaced(table, cap)
      /\ WellPlaced(new, c) /\ \A j \in 0..c - 1 : new[j] # Tombstone
      /\ Strings(new, c) = Strings(table, next)
      /\ Cardinality(Held(new, c)) = Cardinality(Held(table, next))
  BY <1>1 DEF Inv, TypeOK, GrowOK, WellPlaced
<1>3. c \in Nat \ {0} /\ cap < c /\ c' = c
  BY <1>1, GrownFacts DEF GrownCap
<1>4. new \in [0..c - 1 -> String \cup {NULL, Tombstone}] /\ DOMAIN new = 0..c - 1
  BY <1>2 DEF WellPlaced
<1>5. /\ WellPlaced(new', c) /\ \A j \in 0..c - 1 : new'[j] # Tombstone
      /\ Strings(new', c) = Strings(table, next + 1)
      /\ Cardinality(Held(new', c)) = Cardinality(Held(table, next + 1))
  <2>1. CASE table[next] \in {NULL, Tombstone}
    <3>1. Held(table, next + 1) = Held(table, next)
      BY <1>2, <2>1, StringFacts DEF Held
    <3>2. new' = new
      BY <2>1 DEF Rehash
    <3>. QED
      BY <1>2, <3>1, <3>2 DEF Strings
  <2>2. CASE table[next] \notin {NULL, Tombstone}
    <3>1. PICK s \in String : s = table[next] /\ s # NULL /\ s # Tombstone /\ Hash[Chars[s]] \in Nat
      BY <1>1, <1>2, <2>2, StringFacts
    <3>2. new' = [new EXCEPT ![SlotFor(Chars[s], new)] = s]
      BY <2>2, <3>1 DEF Rehash
    <3>3. next \notin Held(table, next) /\ Held(table, next + 1) = Held(table, next) \cup {next}
      BY <1>2, <3>1 DEF Held
    <3>4. \A j \in Held(table, next) : j # next /\ {j, next} \subseteq Held(table, cap)
      BY <1>1, <1>2, <3>1 DEF Held
    <3>5. \A j \in Held(table, next) : Chars[table[j]] # Chars[s]
      BY <1>2, <3>1, <3>4 DEF WellPlaced
    <3>6. ASSUME NEW j \in Held(new, c) PROVE Chars[new[j]] # Chars[s]
      <4>1. PICK k \in Held(table, next) : new[j] = table[k]
        BY <1>2 DEF Strings
      <4>. QED
        BY <3>5, <4>1
    <3>7. PICK room \in 0..c - 1 : new[room] = NULL
      <4>1. Cardinality(Held(table, next)) <= next
        BY <1>2, HeldFacts
      <4>2. Taken(new, c) = Held(new, c)
        BY <1>2, <1>4, StringFacts DEF Taken, Held
      <4>3. Cardinality(Taken(new, c)) < c
        BY <1>1, <1>2, <1>3, <4>1, <4>2, HeldFacts
      <4>. QED
        BY <1>3, <4>3, RoomLeft
    <3>8. PICK i \in 0..c - 1 :
            i = SlotFor(Chars[s], new) /\ new[i] = NULL /\ Reached(Chars[s], i, new, c)
      BY <1>3, <1>4, <3>1, <3>7, SlotForFacts
    <3>. HIDE DEF c
    <3>9. /\ WellPlaced(new', c)
          /\ Cardinality(Held(new', c)) = Cardinality(Held(new, c)) + 1
      BY <1>2, <1>3, <3>1, <3>2, <3>6, <3>8, StringFacts, Placed
    <3>10. \A j \in 0..c - 1 : new'[j] = IF j = i THEN s ELSE new[j]
      BY <1>4, <3>2, <3>8
    <3>11. /\ i \in Held(new', c) /\ i \notin Held(new, c)
           /\ \A j \in Held(new', c) : j = i \/ (j \in Held(new, c) /\ new'[j] = new[j])
           /\ \A j \in Held(new, c) : j \in Held(new', c) /\ new'[j] = new[j]
      BY <1>3, <3>8, <3>1, <3>10, StringFacts DEF Held
    <3>12. Cardinality(Held(table, next + 1)) = Cardinality(Held(table, next)) + 1
      BY <1>2, <3>3, HeldFacts, FS_AddElement
    <3>13. \A x : x \in Strings(new', c) <=> x \in Strings(new, c) \/ x = s
      BY <3>8, <3>10, <3>11 DEF Strings
    <3>14. \A x : x \in Strings(table, next + 1) <=> x \in Strings(table, next) \/ x = s
      BY <3>1, <3>3 DEF Strings
    <3>15. Strings(new', c) = Strings(table, next + 1)
      BY <1>2, <3>13, <3>14
    <3>16. \A j \in 0..c - 1 : new'[j] # Tombstone
      BY <1>2, <3>1, <3>10
    <3>. QED
      BY <1>2, <3>9, <3>12, <3>15, <3>16
  <2>. QED
    BY <2>1, <2>2
<1>6. TypeOK'
  BY <1>1, <1>2, <1>5 DEF TypeOK, Table, WellPlaced
<1>7. LoadOK' /\ StrOK' /\ WellPlaced(table, cap)' /\ (Strings(table, cap) = live)'
  BY <1>1 DEF Inv, LoadOK, StrOK
<1>8. GrowOK'
  BY <1>1, <1>3, <1>5 DEF GrowOK
<1>. QED
  BY <1>1, <1>6, <1>7, <1>8 DEF Inv

(* The new table has every string, no tombstone, and room.                  *)
LEMMA FinishGrowStep ==
  ASSUME Inv, FinishGrow
  PROVE  Inv' /\ UNCHANGED <<live, made>>
<1>1. /\ table' = new /\ cap' = Capacity(new) /\ count' = count /\ used' = count /\ live' = live
      /\ made' = made /\ pc' = "insert" /\ str' = str /\ new' = EmptyTable(0) /\ next' = 0
      /\ starved' = starved /\ pc = "grow" /\ next = cap
  BY DEF FinishGrow, CapAfterGrow
<1>2. /\ cap \in Nat /\ count \in Nat /\ TypeOK /\ LoadOK /\ StrOK
      /\ WellPlaced(new, GrownCap) /\ \A j \in 0..GrownCap - 1 : new[j] # Tombstone
      /\ Strings(new, GrownCap) = live
      /\ Cardinality(Held(new, GrownCap)) = count
  BY <1>1 DEF Inv, TypeOK, GrowOK, LoadOK
<1>3. GrownCap \in Nat \ {0} /\ GrownCap # 1 /\ 4 * (count + 1) <= 3 * GrownCap
  BY GrownFacts
<1>4. new \in [0..GrownCap - 1 -> String \cup {NULL, Tombstone}] /\ DOMAIN new = 0..GrownCap - 1
  BY <1>2 DEF WellPlaced
<1>5. cap' = GrownCap
  BY <1>1, <1>3, <1>4, CapacityFacts
<1>6. Taken(new, GrownCap) = Held(new, GrownCap)
  BY <1>2, <1>4, StringFacts DEF Taken, Held
<1>7. TypeOK'
  BY <1>1, <1>2, <1>3, <1>4, <1>5 DEF TypeOK, Table, EmptyTable
<1>8. LoadOK' /\ GrowOK' /\ StrOK'
  BY <1>1, <1>2, <1>3, <1>5, <1>6 DEF LoadOK, GrowOK, StrOK
<1>. QED
  BY <1>1, <1>2, <1>5, <1>7, <1>8 DEF Inv

(* The string is stored at the first slot without one that its walk reaches. *)
LEMMA InsertStep ==
  ASSUME Inv, Insert
  PROVE  Inv' /\ \E s \in String : Abstract!Make(s)
<1>. DEFINE E == InsertEnds
<1>1. PICK i : i = Slot(Chars[str], Smallest(E), cap)
  OBVIOUS
<1>2. /\ pc = "insert" /\ cap # 0 /\ E # {}
      /\ table' = [table EXCEPT ![i] = str] /\ count' = count + 1
      /\ used' = IF table[i] = NULL THEN used + 1 ELSE used
      /\ live' = live \cup {str} /\ made' = str /\ pc' = "idle" /\ str' = NULL
      /\ cap' = cap /\ new' = new /\ next' = next /\ starved' = starved
  BY <1>1 DEF Insert, UsedAfterInsert
<1>3. /\ cap \in Nat \ {0} /\ count \in Nat /\ used \in Nat /\ next = 0 /\ TypeOK /\ LoadOK
      /\ table \in [0..cap - 1 -> String \cup {NULL, Tombstone}] /\ WellPlaced(table, cap)
      /\ str \in String /\ Hash[Chars[str]] \in Nat /\ str # NULL
      /\ \A s \in live : Chars[s] # Chars[str]
  BY <1>2, InvFacts, StringFacts DEF Inv, StrOK, GrowOK
<1>4. /\ E \in SUBSET (0..cap - 1)
      /\ \A n \in 0..cap - 1 : table[Slot(Chars[str], n, cap)] = NULL => n \in E
      /\ \A n \in E : table[Slot(Chars[str], n, cap)] \in {NULL, Tombstone}
  BY DEF InsertEnds
<1>. HIDE DEF E
<1>5. Smallest(E) \in E /\ i \in 0..cap - 1 /\ Reached(Chars[str], i, table, cap)
  BY <1>1, <1>2, <1>3, <1>4, WalkFacts
<1>6. table[i] \in {NULL, Tombstone}
  BY <1>1, <1>4, <1>5
<1>7. \A j \in Held(table, cap) : Chars[table[j]] # Chars[str]
  BY <1>3, InvFacts
<1>8. /\ WellPlaced(table', cap)
      /\ Cardinality(Held(table', cap)) = Cardinality(Held(table, cap)) + 1
      /\ used' = Cardinality(Taken(table', cap))
  <2>1. table[i] \notin String
    BY <1>6, StringFacts
  <2>2. Cardinality(Taken(table', cap)) =
          IF table[i] = NULL THEN Cardinality(Taken(table, cap)) + 1 ELSE Cardinality(Taken(table, cap))
    BY <1>2, <1>3, <1>5, TakeOne, ZenonT(30)
  <2>3. used' = Cardinality(Taken(table', cap))
    BY <1>2, <1>3, <2>2 DEF LoadOK
  <2>. QED
    BY <1>2, <1>3, <1>5, <1>7, <2>1, <2>3, Placed
<1>9. Strings(table', cap) = live'
  <2>1. \A j \in 0..cap - 1 : table'[j] = IF j = i THEN str ELSE table[j]
    BY <1>2, <1>3, <1>5
  <2>2. /\ i \in Held(table', cap) /\ table'[i] = str
        /\ \A j \in Held(table', cap) : j = i \/ (j \in Held(table, cap) /\ table'[j] = table[j])
        /\ \A j \in Held(table, cap) : j \in Held(table', cap) /\ table'[j] = table[j]
    BY <1>3, <1>5, <1>6, <2>1, StringFacts DEF Held
  <2>3. \A x : x \in Strings(table', cap) <=> x \in live \/ x = str
    BY <2>2, InvFacts DEF Strings
  <2>. QED
    BY <1>2, <2>3
<1>10. IsFiniteSet(live') /\ Cardinality(live') = Cardinality(live) + 1
  <2>1. str \notin live
    BY <1>3
  <2>. QED
    BY <1>2, <1>3, <2>1, FS_AddElement DEF LoadOK
<1>11. TypeOK'
  BY <1>2, <1>3, <1>8 DEF TypeOK, Table, WellPlaced
<1>12. LoadOK' /\ StrOK' /\ GrowOK'
  BY <1>2, <1>3, <1>8, <1>10 DEF LoadOK, StrOK, GrowOK
<1>13. Inv'
  BY <1>2, <1>8, <1>9, <1>11, <1>12 DEF Inv
<1>. QED
  BY <1>2, <1>3, <1>13 DEF Abstract!Make, Abstract!WithText

(* The slot of the string that is freed becomes a tombstone.                *)
LEMMA FreeStep ==
  ASSUME Inv, NEW s \in String, Free(s)
  PROVE  Inv' /\ s \in live /\ Abstract!Free(s)
<1>1. PICK i : i = Slot(Chars[s], Smallest(RemoveEnds(s)), cap)
  OBVIOUS
<1>2. /\ s \in live /\ live' = live \ {s} /\ RemoveEnds(s) # {} /\ pc \in {"idle", "alloc"}
      /\ cap' = cap /\ used' = used /\ made' = made /\ pc' = pc /\ str' = str
      /\ new' = new /\ next' = next /\ starved' = starved
      /\ table[i] = s => table' = [table EXCEPT ![i] = Tombstone] /\ count' = count - 1
  BY <1>1 DEF Free, TableWithout
<1>3. cap \in Nat \ {0} /\ i \in Held(table, cap) /\ table[i] = s
  BY <1>1, <1>2, RemoveFacts
<1>4. /\ count \in Nat /\ next = 0 /\ TypeOK /\ LoadOK /\ StrOK
      /\ table \in [0..cap - 1 -> String \cup {NULL, Tombstone}] /\ WellPlaced(table, cap)
      /\ i \in 0..cap - 1
  BY <1>2, <1>3, InvFacts DEF Inv, GrowOK
<1>5. table' = [table EXCEPT ![i] = Tombstone] /\ count' = count - 1
  BY <1>2, <1>3
<1>6. /\ WellPlaced(table', cap)
      /\ Cardinality(Held(table', cap)) = Cardinality(Held(table, cap)) - 1
      /\ Cardinality(Taken(table', cap)) = Cardinality(Taken(table, cap))
  BY <1>3, <1>4, <1>5, Buried
<1>7. Strings(table', cap) = live'
  <2>1. \A j \in 0..cap - 1 : table'[j] = IF j = i THEN Tombstone ELSE table[j]
    BY <1>4, <1>5
  <2>2. /\ \A j \in Held(table', cap) : j # i /\ j \in Held(table, cap) /\ table'[j] = table[j]
        /\ \A j \in Held(table, cap) : j # i => j \in Held(table', cap) /\ table'[j] = table[j]
    BY <1>4, <2>1, StringFacts DEF Held
  <2>3. \A j \in Held(table, cap) : table[j] = s => j = i
    BY <1>3, <1>4 DEF WellPlaced
  <2>4. \A x : x \in Strings(table', cap) <=> x \in live /\ x # s
    BY <1>3, <2>2, <2>3, InvFacts DEF Strings
  <2>. QED
    BY <1>2, <2>4
<1>8. /\ IsFiniteSet(live') /\ Cardinality(live') = Cardinality(live) - 1
      /\ Cardinality(live) \in Nat /\ Cardinality(live) # 0
  BY <1>2, <1>4, FS_RemoveElement, FS_CardinalityType, FS_EmptySet DEF LoadOK
<1>9. TypeOK'
  BY <1>2, <1>4, <1>5, <1>6, <1>8 DEF TypeOK, Table, WellPlaced, LoadOK
<1>10. LoadOK' /\ StrOK' /\ GrowOK'
  BY <1>2, <1>4, <1>5, <1>6, <1>8 DEF LoadOK, StrOK, GrowOK
<1>11. Inv'
  BY <1>2, <1>6, <1>7, <1>9, <1>10 DEF Inv
<1>. QED
  BY <1>2, <1>11 DEF Abstract!Free

(* Every step keeps the invariant, and is a step of the set or none.        *)
LEMMA NextStep ==
  ASSUME Inv, [Next]_vars
  PROVE  Inv' /\ [Abstract!Next]_<<live, made>>
<1>1. ASSUME NEW t \in Text, Find(t)
      PROVE  Inv' /\ [Abstract!Next]_<<live, made>>
  BY <1>1, FindStep DEF Abstract!Next
<1>2. ASSUME NEW s \in String, Miss(s)
      PROVE  Inv' /\ [Abstract!Next]_<<live, made>>
  BY <1>2, MissStep
<1>3. ASSUME NEW s \in String, Free(s)
      PROVE  Inv' /\ [Abstract!Next]_<<live, made>>
  BY <1>3, FreeStep DEF Abstract!Next
<1>4. CASE Add
  BY <1>4, AddStep
<1>5. CASE Rehash
  BY <1>5, RehashStep
<1>6. CASE FinishGrow
  BY <1>6, FinishGrowStep
<1>7. CASE Insert
  BY <1>7, InsertStep DEF Abstract!Next
<1>8. CASE UNCHANGED vars
  BY <1>8, QuietStep DEF vars, Inv, TypeOK
<1>. QED
  BY <1>1, <1>2, <1>3, <1>4, <1>5, <1>6, <1>7, <1>8 DEF Next

-------------------------------------------------------------------------------
(* The invariant holds in every reachable state.                            *)
THEOREM Invariance == Spec => []Inv
<1>1. Init => Inv
  BY InitFacts
<1>2. Inv /\ [Next]_vars => Inv'
  BY NextStep
<1>. QED
  BY <1>1, <1>2, PTL DEF Spec

(* The variables of the intern table have the shapes the code relies on.    *)
THEOREM TypeCorrect == Spec => []TypeOK
<1>1. Inv => TypeOK
  BY DEF Inv
<1>. QED
  BY <1>1, Invariance, PTL

(* The table holds every allocated string once and no freed one, in         *)
(* whatever order strings are made, swept and rehashed.                     *)
THEOREM HoldsTheLive == Spec => []TableIsLive
<1>1. Inv => TableIsLive
  <2>. SUFFICES ASSUME Inv PROVE TableIsLive
    OBVIOUS
  <2>1. Slots(String) = Held(table, cap)
    BY DEF Slots, Held
  <2>2. \A i, j \in Held(table, cap) : table[i] = table[j] => i = j
    BY InvFacts DEF WellPlaced
  <2>3. {table[i] : i \in Held(table, cap)} = live
    BY DEF Inv, Strings
  <2>. QED
    BY <2>1, <2>2, <2>3 DEF TableIsLive
<1>. QED
  BY <1>1, Invariance, PTL

(* intern_count counts the strings and intern_used the slots that are not   *)
(* empty, through reuse of tombstones and growth.                           *)
THEOREM CountsAreRight == Spec => []CountsMatch
<1>1. Inv => CountsMatch
  <2>. SUFFICES ASSUME Inv PROVE CountsMatch
    OBVIOUS
  <2>1. \A i \in 0..cap - 1 : table[i] \in String \cup {Tombstone} <=> table[i] # NULL
    BY InvFacts, StringFacts
  <2>2. Slots(String \cup {Tombstone}) = Taken(table, cap)
    BY <2>1 DEF Slots, Taken
  <2>. QED
    BY <2>2 DEF Inv, LoadOK, CountsMatch
<1>. QED
  BY <1>1, Invariance, PTL

(* As long as growth has not failed a slot is empty, and every walk ends.   *)
THEOREM WalksEnd == Spec => []ProbesEnd
<1>1. Inv => ProbesEnd
  <2>. SUFFICES ASSUME Inv, cap # 0, ~starved PROVE Slots({NULL}) # {}
    BY DEF ProbesEnd
  <2>1. cap \in Nat /\ used \in Nat /\ Cardinality(Taken(table, cap)) < cap
    BY InvFacts DEF Inv, LoadOK
  <2>2. \E e \in 0..cap - 1 : table[e] = NULL
    BY <2>1, RoomLeft
  <2>. QED
    BY <2>2 DEF Slots
<1>. QED
  BY <1>1, Invariance, PTL

(* The table implements the weak set of canonical strings: obj_string_new   *)
(* never makes a second string of a text that has one, although a sweep may *)
(* run between its look-up and its insertion.                               *)
THEOREM Refinement == Spec => ImplementsStringSet
<1>1. Init => Inv /\ Abstract!Init
  BY InitFacts
<1>2. Inv /\ [Next]_vars => Inv' /\ [Abstract!Next]_<<live, made>>
  BY NextStep
<1>. QED
  BY <1>1, <1>2, PTL DEF Spec, ImplementsStringSet, Abstract!Spec
===============================================================================
