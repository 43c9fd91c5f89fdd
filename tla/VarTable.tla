------------------------------- MODULE VarTable --------------------------------
(***************************************************************************)
(* The global variables of runtime.c: a hash table that grows at 75% load  *)
(* and never shrinks, and the calls OP_DEFINE_GLOBAL, OP_GET_GLOBAL and    *)
(* OP_SET_GLOBAL make on it under the eval lock.  var_table_resize         *)
(* rehashes one slot at a time here, as its loop does.                     *)
(***************************************************************************)
EXTENDS Probing

CONSTANTS
  Name,       \* the names of variables
  Value,      \* their values
  Undefined,  \* not a value
  InitCap,    \* VAR_TABLE_INIT_CAP
  CapMax      \* bound: the capacity the table grows to

ASSUME NameAssumption ==
  Hash \in [Name -> Nat] /\ Undefined \notin Value /\ NULL \notin [name : Name, value : Value]
ASSUME CapAssumption == InitCap \in Nat /\ InitCap >= 2 /\ CapMax \in Nat

VARIABLES
  table,   \* var_table: in each slot NULL or an entry with its name and value
  cap,     \* var_table_cap
  count,   \* var_table_count
  status,  \* what the last call returned
  pc,      \* where runtime_var_define is
  entry,   \* the entry it defines
  new,     \* var_table_resize's new_table
  next     \* the slot var_table_resize moves next

vars == <<table, cap, count, status, pc, entry, new, next>>

Entry == [name : Name, value : Value]

Init ==
  /\ table = EmptyTable(0) /\ cap = 0 /\ count = 0
  /\ status = <<"none">>
  /\ pc = "idle" /\ entry = NULL
  /\ new = EmptyTable(0) /\ next = 0

(* var_table_find_slot: the walk ends at the name or at an empty slot.     *)
FindEnds(n) ==
  {k \in 0..cap - 1 : LET e == table[Slot(n, k, cap)] IN e = NULL \/ e.name = n}

FindSlot(n) == Slot(n, Smallest(FindEnds(n)), cap)

(* var_table_find                                                          *)
Found(n) == count # 0 /\ table[FindSlot(n)] # NULL

(* A walk that would not end is no call that returns.                      *)
Walks(n) == count = 0 \/ FindEnds(n) # {}

Get(n) ==
  /\ pc = "idle" /\ Walks(n)
  /\ status' = IF Found(n) THEN <<"ok", table[FindSlot(n)].value>> ELSE <<"not found">>
  /\ UNCHANGED <<table, cap, count, pc, entry, new, next>>

Write(i, e) ==
  /\ table' = [table EXCEPT ![i] = e]
  /\ status' = <<"ok", e.value>>

(* runtime_var_assign                                                      *)
Assign(n, v) ==
  /\ pc = "idle" /\ Walks(n)
  /\ IF Found(n) THEN Write(FindSlot(n), [name |-> n, value |-> v])
     ELSE status' = <<"not found">> /\ UNCHANGED table
  /\ UNCHANGED <<cap, count, pc, entry, new, next>>

-------------------------------------------------------------------------------
(* runtime_var_define                                                      *)

(* A variable that exists gets a new value ...                             *)
Redefine(n, v) ==
  /\ pc = "idle" /\ Walks(n)
  /\ Found(n)
  /\ Write(FindSlot(n), [name |-> n, value |-> v])
  /\ UNCHANGED <<cap, count, pc, entry, new, next>>

\* Mutant: the table grows only when it is full.
FullLoad == cap = 0 \/ count + 1 > cap

(* No table yet, or (count + 1) > cap * VAR_TABLE_MAX_LOAD                 *)
Overloaded == cap = 0 \/ 4 * (count + 1) > 3 * cap

(* ... and one that does not makes sure of room for it first: a calloc for *)
(* a first table or for one of twice the size.                             *)
Define(n, v) ==
  LET c == IF cap = 0 THEN InitCap ELSE 2 * cap IN
  /\ pc = "idle" /\ Walks(n)
  /\ ~Found(n)
  /\ entry' = [name |-> n, value |-> v]
  /\ IF Overloaded
     THEN c <= CapMax /\ pc' = "resize" /\ new' = EmptyTable(c) /\ next' = 0
     ELSE pc' = "insert" /\ UNCHANGED <<new, next>>
  /\ UNCHANGED <<table, cap, count, status>>

Move ==
  /\ pc = "resize" /\ next < cap
  /\ new' = IF table[next] = NULL THEN new
            ELSE [new EXCEPT ![SlotFor(table[next].name, new)] = table[next]]
  /\ next' = next + 1
  /\ UNCHANGED <<table, cap, count, status, pc, entry>>

\* Mutant: var_table_cap is not updated.
CapKept == cap

CapAfterResize == Capacity(new)

FinishResize ==
  /\ pc = "resize" /\ next = cap
  /\ table' = new /\ cap' = CapAfterResize
  /\ pc' = "insert"
  /\ new' = EmptyTable(0) /\ next' = 0
  /\ UNCHANGED <<count, status, entry>>

Insert ==
  /\ pc = "insert"
  /\ FindEnds(entry.name) # {}
  /\ Write(FindSlot(entry.name), entry)
  /\ count' = count + 1
  /\ pc' = "idle" /\ entry' = NULL
  /\ UNCHANGED <<cap, new, next>>

(* calloc fails before anything is stored, or strdup after the table may   *)
(* have grown.                                                             *)
OutOfMemory ==
  /\ pc = "insert" \/ (pc = "resize" /\ next = 0)
  /\ pc' = "idle" /\ entry' = NULL
  /\ new' = EmptyTable(0) /\ next' = 0
  /\ status' = <<"oom">>
  /\ UNCHANGED <<table, cap, count>>

-------------------------------------------------------------------------------
(* runtime_destroy: var_table_clear                                        *)
Destroy ==
  /\ pc = "idle"
  /\ table' = EmptyTable(0) /\ cap' = 0 /\ count' = 0
  /\ status' = <<"none">>
  /\ UNCHANGED <<pc, entry, new, next>>

Next ==
  \/ \E n \in Name : Get(n) \/ \E v \in Value : Assign(n, v) \/ Redefine(n, v) \/ Define(n, v)
  \/ Move \/ FinishResize \/ Insert \/ OutOfMemory \/ Destroy

Spec == Init /\ [][Next]_vars

-------------------------------------------------------------------------------
Table(tab) == tab \in [DOMAIN tab -> Entry \cup {NULL}]

TypeOK ==
  /\ Table(table) /\ DOMAIN table = 0..cap - 1
  /\ cap \in Nat /\ count \in Nat
  /\ pc \in {"idle", "resize", "insert"}
  /\ entry \in Entry \cup {NULL}
  /\ Table(new) /\ next \in 0..cap

Occupied == {i \in 0..cap - 1 : table[i] # NULL}

(* The comment on var_table_find_slot, "Table must not be full (ensured by *)
(* load factor)": every walk along the table ends, and the count the load  *)
(* factor is computed from is right, through failed definitions as well.   *)
NeverFull ==
  /\ count = Cardinality(Occupied)
  /\ cap # 0 => count < cap

(* The variables the table stands for.                                     *)
Env ==
  [n \in Name |->
     LET slots == {i \in Occupied : table[i].name = n}
     IN IF slots = {} THEN Undefined ELSE table[CHOOSE i \in slots : TRUE].value]

Abstract == INSTANCE Globals WITH env <- Env

(* The table is the environment: a name has one entry, which probing finds *)
(* after any growth, and a call that fails leaves every variable as it was. *)
ImplementsGlobals == Abstract!Spec
===============================================================================
