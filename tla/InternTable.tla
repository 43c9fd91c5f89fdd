------------------------------ MODULE InternTable ------------------------------
(***************************************************************************)
(* The intern table of gc.c: open addressing with linear probing and       *)
(* tombstones, under obj_string_new of value.c, which looks a text up,     *)
(* allocates, and only then adds the string; the allocation may sweep      *)
(* strings out of the table in between.                                    *)
(*                                                                         *)
(* intern_grow rehashes one slot at a time here, as its loop does; nothing *)
(* else runs meanwhile.                                                    *)
(***************************************************************************)
EXTENDS Probing

CONSTANTS
  String,      \* the addresses of ObjStrings
  Chars,       \* the text of the string at an address
  Tombstone,   \* INTERN_TOMBSTONE
  InitCap,     \* INTERN_INIT_CAP
  CapMax       \* bound: the capacity the table grows to

Text == {Chars[s] : s \in String}

ASSUME StringAssumption ==
  /\ NULL \notin String /\ Tombstone \notin String /\ NULL # Tombstone
  /\ Chars \in [String -> Text]
  /\ Hash \in [Text -> Nat]
ASSUME CapAssumption == InitCap \in Nat /\ InitCap >= 2 /\ CapMax \in Nat

VARIABLES
  table,   \* intern_table
  cap,     \* intern_cap
  count,   \* intern_count
  used,    \* intern_used
  live,    \* the strings that are allocated
  made,    \* the string the last call returned
  pc,      \* where obj_string_new is
  str,     \* the string it is making
  new,     \* intern_grow's new_table
  next,    \* the slot intern_grow rehashes next
  starved  \* whether intern_grow has ever run out of memory (auxiliary)

counts == <<cap, count, used>>
vars == <<table, counts, live, made, pc, str, new, next, starved>>

Init ==
  /\ table = EmptyTable(0) /\ cap = 0 /\ count = 0 /\ used = 0
  /\ live = {} /\ made = NULL
  /\ pc = "idle" /\ str = NULL
  /\ new = EmptyTable(0) /\ next = 0
  /\ starved = FALSE

-------------------------------------------------------------------------------
(* intern_find: the walk ends at the text or at an empty slot.             *)
FindEnds(t) ==
  {n \in 0..cap - 1 :
     LET e == table[Slot(t, n, cap)]
     IN e = NULL \/ (e # Tombstone /\ Chars[e] = t)}

InternFind(t) ==
  IF cap = 0 THEN NULL ELSE table[Slot(t, Smallest(FindEnds(t)), cap)]

(* obj_string_new finds the text in the table ...                          *)
Find(t) ==
  /\ pc = "idle"
  /\ cap = 0 \/ FindEnds(t) # {}
  /\ InternFind(t) # NULL
  /\ made' = InternFind(t)
  /\ UNCHANGED <<table, counts, live, pc, str, new, next, starved>>

(* ... or does not and goes on to allocate.                                *)
Miss(s) ==
  /\ pc = "idle"
  /\ s \notin live
  /\ cap = 0 \/ FindEnds(Chars[s]) # {}
  /\ InternFind(Chars[s]) = NULL
  /\ pc' = "alloc" /\ str' = s
  /\ UNCHANGED <<table, counts, live, made, new, next, starved>>

\* Mutant: the load counts live entries only.
LoadOfLive == 4 * (count + 1) > 3 * cap

(* (used + 1) / cap > INTERN_MAX_LOAD                                      *)
Overloaded == cap = 0 \/ 4 * (used + 1) > 3 * cap

(* gc_alloc has returned a fresh object: intern_add. When the calloc of    *)
(* intern_grow fails, the table is kept "and hope for the best".           *)
Add ==
  /\ pc = "alloc"
  /\ \/ ~Overloaded /\ pc' = "insert" /\ UNCHANGED <<new, next, starved>>
     \/ LET n == IF cap = 0 THEN InitCap ELSE 2 * cap IN
        /\ Overloaded /\ n <= CapMax
        /\ pc' = "grow" /\ new' = EmptyTable(n) /\ next' = 0
        /\ UNCHANGED starved
     \/ Overloaded /\ pc' = "insert" /\ starved' = TRUE /\ UNCHANGED <<new, next>>
  /\ UNCHANGED <<table, counts, live, made, str>>

-------------------------------------------------------------------------------
(* intern_grow                                                             *)

Rehash ==
  /\ pc = "grow" /\ next < cap
  /\ new' = IF table[next] \in {NULL, Tombstone} THEN new
            ELSE [new EXCEPT ![SlotFor(Chars[table[next]], new)] = table[next]]
  /\ next' = next + 1
  /\ UNCHANGED <<table, counts, live, made, pc, str, starved>>

\* Mutant: intern_cap is not updated.
CapKept == cap

CapAfterGrow == Capacity(new)

FinishGrow ==
  /\ pc = "grow" /\ next = cap
  /\ table' = new /\ cap' = CapAfterGrow
  /\ used' = count
  /\ pc' = "insert"
  /\ new' = EmptyTable(0) /\ next' = 0
  /\ UNCHANGED <<count, live, made, str, starved>>

-------------------------------------------------------------------------------
(* intern_add takes the first slot that is empty or a tombstone.           *)
InsertEnds == {n \in 0..cap - 1 : table[Slot(Chars[str], n, cap)] \in {NULL, Tombstone}}

\* Mutant: a reused tombstone is counted as used once more.
UsedAlways(entry) == used + 1

UsedAfterInsert(entry) == IF entry = NULL THEN used + 1 ELSE used

Insert ==
  LET i == Slot(Chars[str], Smallest(InsertEnds), cap) IN
  /\ pc = "insert"
  /\ cap # 0 /\ InsertEnds # {}
  /\ table' = [table EXCEPT ![i] = str]
  /\ count' = count + 1
  /\ used' = UsedAfterInsert(table[i])
  /\ live' = live \cup {str}
  /\ made' = str
  /\ pc' = "idle" /\ str' = NULL
  /\ UNCHANGED <<cap, new, next, starved>>

(* intern_remove: the walk ends at the string or at an empty slot.         *)
RemoveEnds(s) ==
  {n \in 0..cap - 1 : table[Slot(Chars[s], n, cap)] \in {s, NULL}}

\* Mutant: the slot of a removed string becomes empty.
EmptySlot(i) == [table EXCEPT ![i] = NULL]

TableWithout(i) == [table EXCEPT ![i] = Tombstone]

(* gc_sweep removes a string and frees it, in this allocation or another.  *)
Free(s) ==
  LET i == Slot(Chars[s], Smallest(RemoveEnds(s)), cap) IN
  /\ pc \in {"idle", "alloc"}
  /\ s \in live
  /\ RemoveEnds(s) # {}
  /\ live' = live \ {s}
  /\ IF table[i] = s
     THEN table' = TableWithout(i) /\ count' = count - 1
     ELSE UNCHANGED <<table, count>>
  /\ UNCHANGED <<cap, used, made, pc, str, new, next, starved>>

-------------------------------------------------------------------------------
Next ==
  \/ \E t \in Text : Find(t)
  \/ \E s \in String : Miss(s) \/ Free(s)
  \/ Add \/ Rehash \/ FinishGrow \/ Insert

Spec == Init /\ [][Next]_vars

-------------------------------------------------------------------------------
Table(tab) == tab \in [DOMAIN tab -> String \cup {NULL, Tombstone}]

TypeOK ==
  /\ Table(table) /\ DOMAIN table = 0..cap - 1
  /\ cap \in Nat /\ count \in Nat /\ used \in Nat
  /\ live \subseteq String /\ made \in String \cup {NULL}
  /\ pc \in {"idle", "alloc", "grow", "insert"}
  /\ str \in String \cup {NULL}
  /\ Table(new) /\ next \in 0..cap
  /\ starved \in BOOLEAN

Slots(P) == {i \in 0..cap - 1 : table[i] \in P}

(* The table holds every allocated string once and nothing else: a sweep   *)
(* leaves no pointer to a freed string for a later probe to read.          *)
TableIsLive ==
  /\ \A i, j \in Slots(String) : table[i] = table[j] => i = j
  /\ {table[i] : i \in Slots(String)} = live

(* intern_count and intern_used, which decide when the table grows, are    *)
(* what they say through reuse of tombstones and growth.                   *)
CountsMatch ==
  /\ count = Cardinality(live)
  /\ used = Cardinality(Slots(String \cup {Tombstone}))

(* Every walk along the table ends, whatever has been added and removed,   *)
(* unless growth has failed: the load factor leaves an empty slot.         *)
ProbesEnd == cap # 0 /\ ~starved => Slots({NULL}) # {}

Abstract == INSTANCE StringSet WITH strings <- live

(* The table is the set of canonical strings it stands for: probing past   *)
(* tombstones, through growth, finds exactly the strings that exist.       *)
ImplementsStringSet == Abstract!Spec
===============================================================================
