-------------------------------- MODULE Probing --------------------------------
(***************************************************************************)
(* Open addressing with linear probing, as the intern table of gc.c and    *)
(* the variable table of runtime.c do it.                                  *)
(***************************************************************************)
EXTENDS Integers, FiniteSets

CONSTANTS
  Hash,  \* the FNV-1a hash of a key
  NULL   \* an empty slot, no object

(* A table is a function on its slots 0, 1, ...                            *)
EmptyTable(n) == [i \in 0..n - 1 |-> NULL]
Capacity(tab) == Cardinality(DOMAIN tab)

(* The n-th slot of the probe sequence of key k in a table of capacity c;  *)
(* the code's mask is a remainder because capacities are powers of two.    *)
Slot(k, n, c) == (Hash[k] + n) % c

Smallest(S) == CHOOSE n \in S : \A m \in S : n <= m

\* Mutant: the home slot is taken without looking for an empty one.
HomeSlot(k, tab) == Slot(k, 0, Capacity(tab))

(* The slot that rehashing a key into a table takes.                       *)
SlotFor(k, tab) ==
  LET c == Capacity(tab)
  IN Slot(k, Smallest({n \in 0..c - 1 : tab[Slot(k, n, c)] = NULL}), c)
===============================================================================
