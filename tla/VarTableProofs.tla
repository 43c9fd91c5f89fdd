----------------------------- MODULE VarTableProofs -----------------------------
(***************************************************************************)
(* Proofs about VarTable: for any names, values, hashes and capacities the *)
(* table of runtime.c is never full and implements a partial function.     *)
(***************************************************************************)
EXTENDS VarTable, ProbingProofs

(* A name has one entry, and the walk for the name comes to it before it    *)
(* comes to an empty slot.                                                 *)
WellPlaced(tab, c) ==
  /\ tab \in [0..c - 1 -> Entry \cup {NULL}]
  /\ \A i, j \in Taken(tab, c) : tab[i].name = tab[j].name => i = j
  /\ \A i \in Taken(tab, c) : Reached(tab[i].name, i, tab, c)

Entries(tab, c) == {tab[i] : i \in Taken(tab, c)}

(* The load factor, between calls and while there is one.                   *)
LoadOK ==
  /\ count = Cardinality(Taken(table, cap)) /\ 4 * count <= 3 * cap /\ cap # 1
  /\ pc = "insert" => cap # 0 /\ 4 * (count + 1) <= 3 * cap

(* What is being defined is not in the table.                               *)
EntryOK ==
  pc # "idle" => entry \in Entry /\ \A i \in Taken(table, cap) : table[i].name # entry.name

GrownCap == IF cap = 0 THEN InitCap ELSE 2 * cap

(* The new table holds what has been moved.                                 *)
ResizeOK ==
  IF pc = "resize"
  THEN /\ WellPlaced(new, GrownCap)
       /\ Entries(new, GrownCap) = Entries(table, next)
       /\ Cardinality(Taken(new, GrownCap)) = Cardinality(Taken(table, next))
  ELSE next = 0

Inv == TypeOK /\ WellPlaced(table, cap) /\ LoadOK /\ EntryOK /\ ResizeOK

-------------------------------------------------------------------------------
(* Tables.                                                                 *)

LEMMA EntryFacts ==
  /\ NULL \notin Entry
  /\ \A e \in Entry : e.name \in Name /\ e.value \in Value /\ Hash[e.name] \in Nat
  /\ \A n \in Name, v \in Value : [name |-> n, value |-> v] \in Entry
BY NameAssumption DEF Entry

LEMMA EmptyTablePlaced ==
  ASSUME NEW c \in Nat
  PROVE  /\ WellPlaced(EmptyTable(c), c) /\ Entries(EmptyTable(c), c) = {}
         /\ Cardinality(Taken(EmptyTable(c), c)) = 0
<1>1. EmptyTable(c) \in [0..c - 1 -> Entry \cup {NULL}]
  BY DEF EmptyTable
<1>. QED
  BY <1>1, EmptyTableTaken DEF WellPlaced, Entries

(* An entry in an empty slot that its walk reaches.                         *)
LEMMA Placed ==
  ASSUME NEW c \in Nat \ {0}, NEW tab, WellPlaced(tab, c), NEW e \in Entry,
         \A j \in Taken(tab, c) : tab[j].name # e.name,
         NEW i \in 0..c - 1, tab[i] = NULL, Reached(e.name, i, tab, c),
         NEW after, after = [tab EXCEPT ![i] = e]
  PROVE  /\ WellPlaced(after, c)
         /\ Cardinality(Taken(after, c)) = Cardinality(Taken(tab, c)) + 1
<1>1. after \in [0..c - 1 -> Entry \cup {NULL}] /\ tab \in [0..c - 1 -> Entry \cup {NULL}]
  BY DEF WellPlaced
<1>2. \A j \in 0..c - 1 : after[j] = IF j = i THEN e ELSE tab[j]
  BY <1>1
<1>3. i \notin Taken(tab, c) /\ Taken(after, c) = Taken(tab, c) \cup {i} /\ e # NULL
  BY <1>2, EntryFacts DEF Taken
<1>4. Cardinality(Taken(after, c)) = Cardinality(Taken(tab, c)) + 1
  BY <1>1, <1>3, TakeOne
<1>5. \A j \in Taken(tab, c) : j \in 0..c - 1 /\ j # i /\ after[j] = tab[j]
  BY <1>2, <1>3 DEF Taken
<1>6. after[i] = e
  BY <1>2
<1>8. \A j \in 0..c - 1 : tab[j] # NULL => after[j] # NULL
  BY <1>2, <1>3
<1>9. ASSUME NEW j \in Taken(after, c) PROVE Reached(after[j].name, j, after, c)
  <2>1. after[j] \in Entry /\ Reached(after[j].name, j, tab, c)
    BY <1>1, <1>3, <1>5, <1>6 DEF WellPlaced, Taken
  <2>2. Hash[after[j].name] \in Nat
    BY <2>1, EntryFacts
  <2>. QED
    BY <2>1, <2>2, <1>8, ReachedKept
<1>10. \A j, k \in Taken(after, c) : after[j].name = after[k].name => j = k
  BY <1>3, <1>5, <1>6 DEF WellPlaced
<1>. QED
  BY <1>1, <1>4, <1>9, <1>10 DEF WellPlaced

(* An entry in place of the one of the same name.                           *)
LEMMA Replaced ==
  ASSUME NEW c \in Nat \ {0}, NEW tab, WellPlaced(tab, c), NEW e \in Entry,
         NEW i \in Taken(tab, c), tab[i].name = e.name,
         NEW after, after = [tab EXCEPT ![i] = e]
  PROVE  WellPlaced(after, c) /\ Taken(after, c) = Taken(tab, c)
<1>1. /\ after \in [0..c - 1 -> Entry \cup {NULL}] /\ tab \in [0..c - 1 -> Entry \cup {NULL}]
      /\ i \in 0..c - 1
  BY DEF WellPlaced, Taken
<1>2. \A j \in 0..c - 1 : after[j] = IF j = i THEN e ELSE tab[j]
  BY <1>1
<1>3. Taken(after, c) = Taken(tab, c)
  BY <1>2, EntryFacts DEF Taken
<1>4. \A j \in Taken(tab, c) : j \in 0..c - 1 /\ after[j].name = tab[j].name /\ after[j] \in Entry
  BY <1>1, <1>2, <1>3 DEF Taken
<1>5. \A j \in 0..c - 1 : tab[j] # NULL => after[j] # NULL
  BY <1>3 DEF Taken
<1>6. ASSUME NEW j \in Taken(after, c) PROVE Reached(after[j].name, j, after, c)
  <2>1. Reached(after[j].name, j, tab, c) /\ Hash[after[j].name] \in Nat
    BY <1>3, <1>4, EntryFacts DEF WellPlaced
  <2>. QED
    BY <2>1, <1>5, ReachedKept
<1>7. \A j, k \in Taken(after, c) : after[j].name = after[k].name => j = k
  BY <1>3, <1>4 DEF WellPlaced
<1>. QED
  BY <1>1, <1>3, <1>6, <1>7 DEF WellPlaced

-------------------------------------------------------------------------------
(* The walk for a name ends, at its entry if it has one, else at an empty   *)
(* slot where the entry belongs.                                           *)
LEMMA SearchFacts ==
  ASSUME Inv, NEW n \in Name, cap # 0
  PROVE  /\ FindEnds(n) # {} /\ FindSlot(n) \in 0..cap - 1
         /\ Reached(n, FindSlot(n), table, cap)
         /\ IF table[FindSlot(n)] = NULL THEN \A j \in Taken(table, cap) : table[j].name # n
            ELSE FindSlot(n) \in Taken(table, cap) /\ table[FindSlot(n)].name = n
<1>1. /\ cap \in Nat \ {0} /\ count \in Nat /\ count < cap
      /\ Hash[n] \in Nat
      /\ table \in [0..cap - 1 -> Entry \cup {NULL}]
  BY NameAssumption DEF Inv, TypeOK, LoadOK, WellPlaced
<1>2. PICK e \in 0..cap - 1 : table[e] = NULL
  BY <1>1, RoomLeft DEF Inv, LoadOK
<1>. DEFINE E == FindEnds(n)
            i == FindSlot(n)
<1>3. E \in SUBSET (0..cap - 1) /\ \A k \in 0..cap - 1 : table[Slot(n, k, cap)] = NULL => k \in E
  BY DEF FindEnds
<1>4. i = Slot(n, Smallest(E), cap)
  BY DEF FindSlot
<1>5. \A j \in Taken(table, cap) : table[j].name = n =>
         /\ Reached(n, j, table, cap)
         /\ \A k \in 0..cap - 1 : Slot(n, k, cap) = j => k \in E
  BY DEF FindEnds, Inv, WellPlaced
<1>6. \A k \in E : table[Slot(n, k, cap)] = NULL \/ table[Slot(n, k, cap)].name = n
  BY DEF FindEnds
<1>. HIDE DEF E, i
<1>7. E # {}
  BY <1>1, <1>2, <1>3, WalkEnds
<1>8. /\ Smallest(E) \in E
      /\ i \in 0..cap - 1 /\ Reached(n, i, table, cap)
      /\ \A j \in 0..cap - 1 :
           /\ Reached(n, j, table, cap)
           /\ \A k \in 0..cap - 1 : Slot(n, k, cap) = j => k \in E
           => table[i] # NULL \/ table[j] = NULL
  BY <1>1, <1>3, <1>4, <1>7, WalkFacts
<1>9. \A j \in Taken(table, cap) : j \in 0..cap - 1 /\ table[j] # NULL
  BY DEF Taken
<1>10. table[i] = NULL => \A j \in Taken(table, cap) : table[j].name # n
  BY <1>5, <1>8, <1>9
<1>11. table[i] # NULL => i \in Taken(table, cap) /\ table[i].name = n
  BY <1>4, <1>6, <1>8 DEF Taken
<1>. QED
  BY <1>7, <1>8, <1>10, <1>11 DEF E, i

(* What Found says.                                                         *)
LEMMA FoundFacts ==
  ASSUME Inv, NEW n \in Name
  PROVE  /\ Found(n) => /\ cap \in Nat \ {0} /\ FindSlot(n) \in Taken(table, cap)
                        /\ table[FindSlot(n)].name = n
         /\ ~Found(n) => \A j \in Taken(table, cap) : table[j].name # n
<1>1. cap \in Nat /\ count \in Nat /\ 4 * count <= 3 * cap /\ count = Cardinality(Taken(table, cap))
  BY DEF Inv, TypeOK, LoadOK
<1>2. CASE count = 0
  <2>1. Taken(table, cap) = {}
    BY <1>1, <1>2, TakenFinite, FS_EmptySet
  <2>. QED
    BY <1>2, <2>1 DEF Found
<1>3. CASE count # 0
  <2>1. cap # 0
    BY <1>1, <1>3
  <2>. QED
    BY <1>1, <1>3, <2>1, SearchFacts DEF Found
<1>. QED
  BY <1>2, <1>3

-------------------------------------------------------------------------------
(* The environment a table stands for.                                      *)
EnvOf(tab, c) ==
  [n \in Name |->
     LET slots == {i \in Taken(tab, c) : tab[i].name = n}
     IN IF slots = {} THEN Undefined ELSE tab[CHOOSE i \in slots : TRUE].value]

LEMMA EnvIsEnvOf == Env = EnvOf(table, cap) /\ Env' = EnvOf(table', cap')
BY DEF Env, EnvOf, Occupied, Taken

LEMMA EnvFacts ==
  ASSUME NEW c \in Nat, NEW tab, WellPlaced(tab, c), NEW n \in Name
  PROVE  /\ \A i \in Taken(tab, c) : tab[i].name = n =>
              EnvOf(tab, c)[n] = tab[i].value /\ EnvOf(tab, c)[n] # Undefined
         /\ (\A i \in Taken(tab, c) : tab[i].name # n) => EnvOf(tab, c)[n] = Undefined
<1>. DEFINE slots == {i \in Taken(tab, c) : tab[i].name = n}
<1>1. EnvOf(tab, c)[n] = IF slots = {} THEN Undefined ELSE tab[CHOOSE i \in slots : TRUE].value
  BY DEF EnvOf
<1>2. ASSUME NEW i \in slots PROVE slots = {i} /\ tab[i].value \in Value
  <2>1. slots = {i}
    BY DEF WellPlaced
  <2>2. tab[i] \in Entry
    BY DEF WellPlaced, Taken
  <2>. QED
    BY <2>1, <2>2, EntryFacts
<1>3. ASSUME NEW i \in slots PROVE EnvOf(tab, c)[n] = tab[i].value /\ tab[i].value # Undefined
  <2>1. (CHOOSE j \in slots : TRUE) = i
    BY <1>2
  <2>. QED
    BY <1>1, <1>2, <2>1, NameAssumption
<1>. QED
  BY <1>1, <1>3

(* It depends on the entries only, not on where they are.                   *)
LEMMA SameEntries ==
  ASSUME NEW c \in Nat, NEW tab, WellPlaced(tab, c), NEW d \in Nat, NEW other, WellPlaced(other, d),
         Entries(tab, c) = Entries(other, d)
  PROVE  EnvOf(tab, c) = EnvOf(other, d)
<1>1. ASSUME NEW n \in Name PROVE EnvOf(tab, c)[n] = EnvOf(other, d)[n]
  <2>1. CASE \E i \in Taken(tab, c) : tab[i].name = n
    <3>1. PICK i \in Taken(tab, c), j \in Taken(other, d) : tab[i].name = n /\ other[j] = tab[i]
      BY <2>1 DEF Entries
    <3>. QED
      BY <3>1, EnvFacts
  <2>2. CASE \A i \in Taken(tab, c) : tab[i].name # n
    <3>1. \A j \in Taken(other, d) : other[j].name # n
      BY <2>2 DEF Entries
    <3>. QED
      BY <2>2, <3>1, EnvFacts
  <2>. QED
    BY <2>1, <2>2
<1>. QED
  BY <1>1 DEF EnvOf

-------------------------------------------------------------------------------
(* The steps.                                                               *)

LEMMA QuietStep ==
  ASSUME Inv, UNCHANGED <<table, cap, count, pc, entry, new, next>>
  PROVE  Inv' /\ UNCHANGED Env
<1>1. TypeOK' /\ WellPlaced(table, cap)'
  BY DEF Inv, TypeOK, Table
<1>2. LoadOK' /\ EntryOK'
  BY DEF Inv, LoadOK, EntryOK
<1>3. GrownCap' = GrownCap
  BY DEF GrownCap
<1>4. ResizeOK'
  BY <1>3 DEF Inv, ResizeOK
<1>. QED
  BY <1>1, <1>2, <1>4, EnvIsEnvOf DEF Inv

LEMMA WriteStep ==
  ASSUME Inv, NEW n \in Name, NEW v \in Value, pc = "idle", Found(n),
         Write(FindSlot(n), [name |-> n, value |-> v]),
         UNCHANGED <<cap, count, pc, entry, new, next>>
  PROVE  Inv' /\ Env' = [Env EXCEPT ![n] = v] /\ status' = <<"ok", v>>
<1>. DEFINE e == [name |-> n, value |-> v]
            i == FindSlot(n)
<1>1. e \in Entry /\ e.name = n /\ e.value = v
  BY EntryFacts
<1>2. /\ cap \in Nat \ {0} /\ i \in Taken(table, cap) /\ table[i].name = n
      /\ WellPlaced(table, cap)
  BY FoundFacts DEF Inv
<1>3. table' = [table EXCEPT ![i] = e] /\ status' = <<"ok", v>>
  BY DEF Write
<1>. HIDE DEF e, i
<1>4. WellPlaced(table', cap) /\ Taken(table', cap) = Taken(table, cap)
  BY <1>1, <1>2, <1>3, Replaced
<1>5. cap' = cap /\ count' = count /\ pc' = pc /\ entry' = entry /\ new' = new /\ next' = next
  OBVIOUS
<1>6. Inv'
  <2>1. TypeOK'
    BY <1>4, <1>5 DEF Inv, TypeOK, Table, WellPlaced
  <2>2. LoadOK'
    BY <1>4, <1>5 DEF Inv, LoadOK
  <2>3. EntryOK' /\ ResizeOK'
    BY <1>5 DEF EntryOK, ResizeOK, Inv
  <2>. QED
    BY <1>4, <1>5, <2>1, <2>2, <2>3 DEF Inv
<1>7. ASSUME NEW m \in Name
      PROVE  EnvOf(table', cap)[m] = IF m = n THEN v ELSE EnvOf(table, cap)[m]
  <2>1. \A j \in Taken(table, cap) : /\ table'[j].name = table[j].name
                                     /\ table'[j] = IF j = i THEN e ELSE table[j]
    BY <1>1, <1>2, <1>3 DEF WellPlaced, Taken
  <2>2. CASE m = n
    BY <1>1, <1>2, <1>4, <2>1, <2>2, EnvFacts
  <2>3. CASE m # n
    <3>1. CASE \A j \in Taken(table, cap) : table[j].name # m
      BY <1>2, <1>4, <2>1, <2>3, <3>1, EnvFacts
    <3>2. CASE \E j \in Taken(table, cap) : table[j].name = m
      <4>1. PICK j \in Taken(table, cap) : table[j].name = m
        BY <3>2
      <4>2. table'[j] = table[j]
        BY <1>2, <2>1, <2>3, <4>1
      <4>3. EnvOf(table, cap)[m] = table[j].value
        BY <1>2, <4>1, EnvFacts
      <4>4. EnvOf(table', cap)[m] = table'[j].value
        BY <1>2, <1>4, <4>1, <4>2, EnvFacts
      <4>. QED
        BY <2>3, <4>2, <4>3, <4>4
    <3>. QED
      BY <3>1, <3>2
  <2>. QED
    BY <2>2, <2>3
<1>8. Env' = [Env EXCEPT ![n] = v]
  <2>1. Env = EnvOf(table, cap) /\ Env' = EnvOf(table', cap)
    BY <1>5, EnvIsEnvOf
  <2>. QED
    BY <1>7, <2>1, ZenonT(30) DEF EnvOf
<1>. QED
  BY <1>3, <1>6, <1>8

LEMMA NoTable ==
  ASSUME table = EmptyTable(0), cap = 0, count = 0, pc = "idle", entry = NULL,
         Table(new), next = 0
  PROVE  Inv /\ Env = [n \in Name |-> Undefined]
<1>1. /\ WellPlaced(table, cap) /\ Taken(table, cap) = {} /\ Cardinality(Taken(table, cap)) = 0
      /\ DOMAIN table = 0..cap - 1
  BY EmptyTablePlaced, EmptyTableTaken
<1>2. TypeOK
  BY <1>1 DEF TypeOK, Table, WellPlaced
<1>3. LoadOK /\ EntryOK /\ ResizeOK
  BY <1>1 DEF LoadOK, EntryOK, ResizeOK
<1>4. \A n \in Name : Env[n] = Undefined
  BY <1>1, EnvFacts, EnvIsEnvOf
<1>. QED
  BY <1>1, <1>2, <1>3, <1>4 DEF Inv, Env

LEMMA InitFacts == Init => Inv /\ Abstract!Init
<1>. SUFFICES ASSUME Init PROVE Inv /\ Abstract!Init
  OBVIOUS
<1>1. Table(new)
  BY DEF Init, Table, EmptyTable
<1>. QED
  BY <1>1, NoTable DEF Init, Abstract!Init

LEMMA GetStep ==
  ASSUME Inv, NEW n \in Name, Get(n)
  PROVE  Inv' /\ Abstract!Get(n)
<1>1. Inv' /\ UNCHANGED Env
  BY QuietStep DEF Get
<1>2. status' = IF Env[n] = Undefined THEN <<"not found">> ELSE <<"ok", Env[n]>>
  <2>1. CASE Found(n)
    <3>1. PICK i \in Taken(table, cap) : i = FindSlot(n) /\ table[i].name = n /\ cap \in Nat
      BY <2>1, FoundFacts
    <3>2. EnvOf(table, cap)[n] = table[i].value /\ EnvOf(table, cap)[n] # Undefined
      BY <3>1, EnvFacts DEF Inv
    <3>. QED
      BY <2>1, <3>1, <3>2, EnvIsEnvOf DEF Get
  <2>2. CASE ~Found(n)
    <3>1. cap \in Nat
      BY DEF Inv, TypeOK
    <3>. QED
      BY <2>2, <3>1, FoundFacts, EnvFacts, EnvIsEnvOf DEF Get, Inv
  <2>. QED
    BY <2>1, <2>2
<1>. QED
  BY <1>1, <1>2 DEF Abstract!Get

(* A name is defined exactly if it is found.                                *)
LEMMA FoundIsDefined ==
  ASSUME Inv, NEW n \in Name
  PROVE  Found(n) <=> Env[n] # Undefined
<1>1. cap \in Nat
  BY DEF Inv, TypeOK
<1>. QED
  BY <1>1, FoundFacts, EnvFacts, EnvIsEnvOf DEF Inv

LEMMA AssignStep ==
  ASSUME Inv, NEW n \in Name, NEW v \in Value, Assign(n, v)
  PROVE  Inv' /\ Abstract!Assign(n, v)
<1>1. CASE Found(n)
  <2>1. Inv' /\ Env' = [Env EXCEPT ![n] = v] /\ status' = <<"ok", v>>
    BY <1>1, WriteStep DEF Assign
  <2>. QED
    BY <1>1, <2>1, FoundIsDefined DEF Abstract!Assign
<1>2. CASE ~Found(n)
  <2>1. Inv' /\ UNCHANGED Env
    BY <1>2, QuietStep DEF Assign
  <2>. QED
    BY <1>2, <2>1, FoundIsDefined DEF Assign, Abstract!Assign
<1>. QED
  BY <1>1, <1>2

LEMMA RedefineStep ==
  ASSUME Inv, NEW n \in Name, NEW v \in Value, Redefine(n, v)
  PROVE  Inv' /\ Abstract!Define(n, v)
<1>1. Inv' /\ Env' = [Env EXCEPT ![n] = v] /\ status' = <<"ok", v>>
  BY WriteStep DEF Redefine
<1>. QED
  BY <1>1 DEF Abstract!Define

LEMMA DefineStep ==
  ASSUME Inv, NEW n \in Name, NEW v \in Value, Define(n, v)
  PROVE  Inv' /\ UNCHANGED <<Env, status>>
<1>. DEFINE c == IF cap = 0 THEN InitCap ELSE 2 * cap
<1>1. /\ table' = table /\ cap' = cap /\ count' = count /\ status' = status
      /\ entry' = [name |-> n, value |-> v] /\ pc = "idle" /\ ~Found(n)
  BY DEF Define
<1>2. /\ cap \in Nat /\ count \in Nat /\ next = 0 /\ Table(new) /\ TypeOK
  BY <1>1 DEF Inv, TypeOK, ResizeOK
<1>3. entry' \in Entry /\ \A i \in Taken(table, cap) : table[i].name # entry'.name
  BY <1>1, EntryFacts, FoundFacts
<1>4. WellPlaced(table', cap') /\ EntryOK'
  BY <1>1, <1>3 DEF Inv, EntryOK
<1>5. CASE Overloaded
  <2>1. pc' = "resize" /\ new' = EmptyTable(c) /\ next' = 0 /\ c \in Nat
    BY <1>2, <1>5, CapAssumption DEF Define
  <2>2. TypeOK'
    BY <1>1, <1>2, <1>3, <2>1 DEF TypeOK, Table, EmptyTable
  <2>3. LoadOK'
    BY <1>1, <2>1 DEF LoadOK, Inv
  <2>4. ResizeOK'
    <3>1. GrownCap' = c
      BY <1>1 DEF GrownCap
    <3>2. Taken(table', 0) = {}
      BY DEF Taken
    <3>3. Entries(table', 0) = {} /\ Cardinality(Taken(table', 0)) = 0
      BY <3>2, FS_EmptySet DEF Entries
    <3>. QED
      BY <2>1, <3>1, <3>3, EmptyTablePlaced DEF ResizeOK
  <2>. QED
    BY <1>1, <1>4, <2>2, <2>3, <2>4, EnvIsEnvOf DEF Inv
<1>6. CASE ~Overloaded
  <2>1. pc' = "insert" /\ new' = new /\ next' = 0
    BY <1>2, <1>6 DEF Define
  <2>2. TypeOK'
    BY <1>1, <1>2, <1>3, <2>1 DEF TypeOK, Table
  <2>3. LoadOK' /\ ResizeOK'
    BY <1>1, <1>2, <1>6, <2>1 DEF LoadOK, ResizeOK, Inv, Overloaded
  <2>. QED
    BY <1>1, <1>4, <2>2, <2>3, EnvIsEnvOf DEF Inv
<1>. QED
  BY <1>5, <1>6

LEMMA GrownFacts ==
  ASSUME Inv
  PROVE  GrownCap \in Nat \ {0} /\ cap < GrownCap /\ 4 * (count + 1) <= 3 * GrownCap
<1>1. cap \in Nat /\ count \in Nat /\ 4 * count <= 3 * cap /\ cap # 1
  BY DEF Inv, TypeOK, LoadOK
<1>. QED
  BY <1>1, CapAssumption DEF GrownCap

(* An entry moves to the new table, which is not full.                      *)
LEMMA MoveStep ==
  ASSUME Inv, Move
  PROVE  Inv' /\ UNCHANGED <<Env, status>>
<1>. DEFINE c == GrownCap
<1>1. /\ table' = table /\ cap' = cap /\ count' = count /\ status' = status
      /\ pc' = pc /\ entry' = entry /\ next' = next + 1
      /\ pc = "resize" /\ next < cap
  BY DEF Move
<1>2. /\ cap \in Nat /\ count \in Nat /\ next \in Nat /\ TypeOK
      /\ table \in [0..cap - 1 -> Entry \cup {NULL}] /\ WellPlaced(table, cap)
      /\ WellPlaced(new, c) /\ Entries(new, c) = Entries(table, next)
      /\ Cardinality(Taken(new, c)) = Cardinality(Taken(table, next))
  BY <1>1 DEF Inv, TypeOK, ResizeOK, WellPlaced
<1>3. c \in Nat \ {0} /\ cap < c /\ c' = c
  BY <1>1, GrownFacts DEF GrownCap
<1>4. DOMAIN new = 0..c - 1
  BY <1>2 DEF WellPlaced
<1>5. /\ WellPlaced(new', c) /\ Entries(new', c) = Entries(table, next + 1)
      /\ Cardinality(Taken(new', c)) = Cardinality(Taken(table, next + 1))
  <2>1. CASE table[next] = NULL
    <3>1. Taken(table, next + 1) = Taken(table, next)
      BY <1>2, <2>1 DEF Taken
    <3>. QED
      BY <1>2, <2>1, <3>1 DEF Move, Entries
  <2>2. CASE table[next] # NULL
    <3>1. PICK e \in Entry : e = table[next] /\ Hash[e.name] \in Nat
      BY <1>1, <1>2, <2>2, EntryFacts
    <3>2. new' = [new EXCEPT ![SlotFor(e.name, new)] = e]
      BY <2>2, <3>1 DEF Move
    <3>3. next \notin Taken(table, next) /\ Taken(table, next + 1) = Taken(table, next) \cup {next}
      BY <1>2, <2>2 DEF Taken
    <3>4. \A j \in Taken(table, next) : j # next /\ {j, next} \subseteq Taken(table, cap)
      BY <1>1, <1>2, <2>2 DEF Taken
    <3>5. \A j \in Taken(table, next) : table[j].name # e.name
      BY <1>2, <3>1, <3>4 DEF WellPlaced
    <3>6. \A j \in Taken(new, c) : new[j].name # e.name
      <4>. SUFFICES ASSUME NEW j \in Taken(new, c) PROVE new[j].name # e.name
        OBVIOUS
      <4>1. PICK k \in Taken(table, next) : new[j] = table[k]
        BY <1>2 DEF Entries
      <4>. QED
        BY <3>5, <4>1
    <3>7. PICK room \in 0..c - 1 : new[room] = NULL
      <4>1. Cardinality(Taken(table, next)) <= next
        BY <1>2, TakenFinite
      <4>2. Cardinality(Taken(new, c)) < c
        BY <1>1, <1>2, <1>3, <4>1, TakenFinite
      <4>. QED
        BY <1>3, <4>2, RoomLeft
    <3>8. PICK i \in 0..c - 1 :
            i = SlotFor(e.name, new) /\ new[i] = NULL /\ Reached(e.name, i, new, c)
      BY <1>3, <1>4, <3>1, <3>7, SlotForFacts
    <3>9. /\ WellPlaced(new', c)
          /\ Cardinality(Taken(new', c)) = Cardinality(Taken(new, c)) + 1
      BY <1>2, <1>3, <3>1, <3>2, <3>6, <3>8, Placed
    <3>10. \A j \in 0..c - 1 : new'[j] = IF j = i THEN e ELSE new[j]
      BY <1>2, <3>2, <3>8 DEF WellPlaced
    <3>11. /\ i \in Taken(new', c) /\ i \notin Taken(new, c)
           /\ \A j \in Taken(new', c) : j = i \/ (j \in Taken(new, c) /\ new'[j] = new[j])
           /\ \A j \in Taken(new, c) : j \in Taken(new', c) /\ new'[j] = new[j]
      BY <1>3, <3>8, <3>1, <3>10, EntryFacts DEF Taken
    <3>12. Cardinality(Taken(table, next + 1)) = Cardinality(Taken(table, next)) + 1
      BY <1>2, <3>3, TakenFinite, FS_AddElement
    <3>13. \A x : x \in Entries(new', c) <=> x \in Entries(new, c) \/ x = e
      BY <3>8, <3>10, <3>11 DEF Entries
    <3>14. \A x : x \in Entries(table, next + 1) <=> x \in Entries(table, next) \/ x = e
      BY <3>1, <3>3 DEF Entries
    <3>15. Entries(new', c) = Entries(table, next + 1)
      BY <1>2, <3>13, <3>14
    <3>. QED
      BY <1>2, <3>9, <3>12, <3>15
  <2>. QED
    BY <2>1, <2>2
<1>6. TypeOK'
  BY <1>1, <1>2, <1>5 DEF TypeOK, Table, WellPlaced
<1>7. LoadOK' /\ EntryOK' /\ WellPlaced(table', cap')
  BY <1>1 DEF Inv, LoadOK, EntryOK
<1>8. ResizeOK'
  BY <1>1, <1>3, <1>5 DEF ResizeOK
<1>. QED
  BY <1>1, <1>6, <1>7, <1>8, EnvIsEnvOf DEF Inv

(* The new table has every entry, and so stands for the same variables.     *)
LEMMA FinishResizeStep ==
  ASSUME Inv, FinishResize
  PROVE  Inv' /\ UNCHANGED <<Env, status>>
<1>1. /\ table' = new /\ cap' = Capacity(new) /\ count' = count /\ status' = status
      /\ pc' = "insert" /\ entry' = entry /\ new' = EmptyTable(0) /\ next' = 0
      /\ pc = "resize" /\ next = cap
  BY DEF FinishResize, CapAfterResize
<1>2. /\ cap \in Nat /\ count \in Nat /\ WellPlaced(table, cap) /\ TypeOK /\ EntryOK
      /\ WellPlaced(new, GrownCap) /\ Entries(new, GrownCap) = Entries(table, cap)
      /\ Cardinality(Taken(new, GrownCap)) = count
  BY <1>1 DEF Inv, TypeOK, ResizeOK, LoadOK
<1>3. GrownCap \in Nat \ {0} /\ 4 * (count + 1) <= 3 * GrownCap /\ GrownCap # 1
  BY <1>2, GrownFacts, CapAssumption DEF GrownCap
<1>4. DOMAIN new = 0..GrownCap - 1
  BY <1>2 DEF WellPlaced
<1>5. cap' = GrownCap
  BY <1>1, <1>3, <1>4, CapacityFacts
<1>6. EnvOf(table', cap') = EnvOf(table, cap)
  BY <1>1, <1>2, <1>3, <1>5, SameEntries
<1>7. EntryOK'
  <2>1. ASSUME NEW i \in Taken(new, GrownCap) PROVE new[i].name # entry.name
    <3>1. PICK j \in Taken(table, cap) : new[i] = table[j]
      BY <1>2 DEF Entries
    <3>. QED
      BY <1>1, <1>2, <3>1 DEF EntryOK
  <2>. QED
    BY <1>1, <1>2, <1>5, <2>1 DEF EntryOK
<1>8. TypeOK'
  BY <1>1, <1>2, <1>3, <1>4, <1>5 DEF TypeOK, Table, EmptyTable, WellPlaced
<1>9. LoadOK' /\ ResizeOK'
  BY <1>1, <1>2, <1>3, <1>5 DEF LoadOK, ResizeOK
<1>. QED
  BY <1>1, <1>2, <1>5, <1>6, <1>7, <1>8, <1>9, EnvIsEnvOf DEF Inv

(* The entry is stored, at the empty slot its walk ends at.                 *)
LEMMA InsertStep ==
  ASSUME Inv, Insert
  PROVE  Inv' /\ Abstract!Define(entry.name, entry.value)
<1>. DEFINE n == entry.name
            i == FindSlot(entry.name)
<1>1. /\ pc = "insert" /\ table' = [table EXCEPT ![i] = entry] /\ status' = <<"ok", entry.value>>
      /\ cap' = cap /\ count' = count + 1 /\ pc' = "idle" /\ entry' = NULL
      /\ new' = new /\ next' = next
  BY DEF Insert, Write
<1>2. /\ cap \in Nat \ {0} /\ count \in Nat /\ WellPlaced(table, cap) /\ TypeOK
      /\ entry \in Entry /\ n \in Name /\ next = 0
      /\ \A j \in Taken(table, cap) : table[j].name # n
      /\ count = Cardinality(Taken(table, cap)) /\ 4 * (count + 1) <= 3 * cap /\ cap # 1
  BY <1>1, EntryFacts DEF Inv, TypeOK, LoadOK, EntryOK, ResizeOK
<1>3. i \in 0..cap - 1 /\ Reached(n, i, table, cap) /\ table[i] = NULL
  BY <1>2, SearchFacts
<1>. HIDE DEF i
<1>4. WellPlaced(table', cap) /\ Cardinality(Taken(table', cap)) = count + 1
  BY <1>1, <1>2, <1>3, Placed
<1>5. Inv'
  <2>1. TypeOK'
    BY <1>1, <1>2, <1>4 DEF TypeOK, Table, WellPlaced
  <2>2. LoadOK' /\ EntryOK' /\ ResizeOK'
    BY <1>1, <1>2, <1>4 DEF LoadOK, EntryOK, ResizeOK
  <2>. QED
    BY <1>1, <1>4, <2>1, <2>2 DEF Inv
<1>6. /\ table'[i] = entry /\ i \in Taken(table', cap)
      /\ \A j \in Taken(table', cap) : j = i \/ (j \in Taken(table, cap) /\ table'[j] = table[j])
      /\ \A j \in Taken(table, cap) : j \in Taken(table', cap) /\ table'[j] = table[j]
  <2>1. \A j \in 0..cap - 1 : table'[j] = IF j = i THEN entry ELSE table[j]
    BY <1>1, <1>2 DEF WellPlaced
  <2>. QED
    BY <1>2, <1>3, <2>1, EntryFacts DEF Taken
<1>7. ASSUME NEW m \in Name
      PROVE  EnvOf(table', cap)[m] = IF m = n THEN entry.value ELSE EnvOf(table, cap)[m]
  <2>1. CASE m = n
    BY <1>2, <1>4, <1>6, <2>1, EnvFacts
  <2>2. CASE m # n
    <3>1. CASE \A j \in Taken(table, cap) : table[j].name # m
      BY <1>2, <1>4, <1>6, <2>2, <3>1, EnvFacts
    <3>2. CASE \E j \in Taken(table, cap) : table[j].name = m
      <4>1. PICK j \in Taken(table, cap) : table[j].name = m
        BY <3>2
      <4>2. EnvOf(table, cap)[m] = table[j].value
        BY <1>2, <4>1, EnvFacts
      <4>3. EnvOf(table', cap)[m] = table[j].value
        BY <1>2, <1>4, <1>6, <4>1, EnvFacts
      <4>. QED
        BY <2>2, <4>2, <4>3
    <3>. QED
      BY <3>1, <3>2
  <2>. QED
    BY <2>1, <2>2
<1>8. Env' = [Env EXCEPT ![n] = entry.value]
  <2>1. Env = EnvOf(table, cap) /\ Env' = EnvOf(table', cap)
    BY <1>1, EnvIsEnvOf
  <2>. QED
    BY <1>7, <2>1, ZenonT(30) DEF EnvOf
<1>. QED
  BY <1>1, <1>5, <1>8 DEF Abstract!Define

(* A definition that fails leaves no trace.                                 *)
LEMMA OutOfMemoryStep ==
  ASSUME Inv, OutOfMemory
  PROVE  Inv' /\ Abstract!Define(entry.name, entry.value)
<1>1. /\ table' = table /\ cap' = cap /\ count' = count /\ status' = <<"oom">>
      /\ pc' = "idle" /\ entry' = NULL /\ new' = EmptyTable(0) /\ next' = 0
      /\ pc # "idle"
  BY DEF OutOfMemory
<1>2. /\ cap \in Nat /\ WellPlaced(table, cap) /\ TypeOK /\ LoadOK
      /\ entry.name \in Name /\ \A j \in Taken(table, cap) : table[j].name # entry.name
  BY <1>1, EntryFacts DEF Inv, TypeOK, EntryOK
<1>3. Env' = Env /\ Env[entry.name] = Undefined
  BY <1>1, <1>2, EnvFacts, EnvIsEnvOf
<1>4. TypeOK'
  BY <1>1, <1>2 DEF TypeOK, Table, EmptyTable
<1>5. LoadOK' /\ EntryOK' /\ ResizeOK'
  BY <1>1, <1>2 DEF LoadOK, EntryOK, ResizeOK
<1>. QED
  BY <1>1, <1>2, <1>3, <1>4, <1>5 DEF Inv, Abstract!Define

LEMMA DestroyStep ==
  ASSUME Inv, Destroy
  PROVE  Inv' /\ Abstract!Destroy
<1>1. /\ table' = EmptyTable(0) /\ cap' = 0 /\ count' = 0 /\ status' = <<"none">>
      /\ pc' = "idle" /\ entry' = entry /\ new' = new /\ next' = 0
  BY DEF Destroy, Inv, ResizeOK
<1>2. TypeOK'
  BY <1>1, EmptyTablePlaced DEF Inv, TypeOK, Table, WellPlaced
<1>3. WellPlaced(table', cap') /\ LoadOK' /\ EntryOK' /\ ResizeOK'
  BY <1>1, EmptyTablePlaced DEF LoadOK, EntryOK, ResizeOK
<1>4. Env' = [n \in Name |-> Undefined]
  <2>1. \A n \in Name : EnvOf(EmptyTable(0), 0)[n] = Undefined
    BY EmptyTablePlaced, EmptyTableTaken, EnvFacts
  <2>. QED
    BY <1>1, <2>1, EnvIsEnvOf DEF EnvOf
<1>. QED
  BY <1>1, <1>2, <1>3, <1>4 DEF Inv, Abstract!Destroy

(* Every step keeps the invariant, and is a step of the environment or none. *)
LEMMA NextStep ==
  ASSUME Inv, [Next]_vars
  PROVE  Inv' /\ [Abstract!Next]_<<Env, status>>
<1>1. ASSUME NEW n \in Name, Get(n)
      PROVE  Inv' /\ [Abstract!Next]_<<Env, status>>
  BY <1>1, GetStep DEF Abstract!Next
<1>2. ASSUME NEW n \in Name, NEW v \in Value, Assign(n, v)
      PROVE  Inv' /\ [Abstract!Next]_<<Env, status>>
  BY <1>2, AssignStep DEF Abstract!Next
<1>3. ASSUME NEW n \in Name, NEW v \in Value, Redefine(n, v)
      PROVE  Inv' /\ [Abstract!Next]_<<Env, status>>
  BY <1>3, RedefineStep DEF Abstract!Next
<1>4. ASSUME NEW n \in Name, NEW v \in Value, Define(n, v)
      PROVE  Inv' /\ [Abstract!Next]_<<Env, status>>
  BY <1>4, DefineStep
<1>5. CASE Move
  BY <1>5, MoveStep
<1>6. CASE FinishResize
  BY <1>6, FinishResizeStep
<1>7. ASSUME Insert \/ OutOfMemory
      PROVE  Inv' /\ [Abstract!Next]_<<Env, status>>
  <2>1. entry.name \in Name /\ entry.value \in Value
    BY <1>7, EntryFacts DEF Inv, EntryOK, ResizeOK, Insert, OutOfMemory
  <2>. QED
    BY <1>7, <2>1, InsertStep, OutOfMemoryStep DEF Abstract!Next
<1>8. CASE Destroy
  BY <1>8, DestroyStep DEF Abstract!Next
<1>9. CASE UNCHANGED vars
  BY <1>9, QuietStep DEF vars
<1>. QED
  BY <1>1, <1>2, <1>3, <1>4, <1>5, <1>6, <1>7, <1>8, <1>9 DEF Next

-------------------------------------------------------------------------------
(* The invariant holds in every reachable state.                            *)
THEOREM Invariance == Spec => []Inv
<1>1. Init => Inv
  BY InitFacts
<1>2. Inv /\ [Next]_vars => Inv'
  BY NextStep
<1>. QED
  BY <1>1, <1>2, PTL DEF Spec

(* The variables of runtime.c have the shapes the code relies on.           *)
THEOREM TypeCorrect == Spec => []TypeOK
<1>1. Inv => TypeOK
  BY DEF Inv
<1>. QED
  BY <1>1, Invariance, PTL

(* Whatever the hashes are and however often memory runs out, the count is  *)
(* the number of the entries and a slot is free: var_table_find_slot ends.  *)
THEOREM NotFull == Spec => []NeverFull
<1>1. Inv => NeverFull
  <2>. SUFFICES ASSUME Inv PROVE NeverFull
    OBVIOUS
  <2>1. Occupied = Taken(table, cap)
    BY DEF Occupied, Taken
  <2>2. cap \in Nat /\ count \in Nat
    BY DEF Inv, TypeOK
  <2>. QED
    BY <2>1, <2>2 DEF Inv, LoadOK, NeverFull
<1>. QED
  BY <1>1, Invariance, PTL

(* The table of runtime.c implements the environment: a name keeps its one  *)
(* value through collisions and growth, and a failed call changes nothing.  *)
THEOREM Refinement == Spec => ImplementsGlobals
<1>1. Init => Inv /\ Abstract!Init
  BY InitFacts
<1>2. Inv /\ [Next]_vars => Inv' /\ [Abstract!Next]_<<Env, status>>
  BY NextStep
<1>. QED
  BY <1>1, <1>2, PTL DEF Spec, ImplementsGlobals, Abstract!Spec
===============================================================================
