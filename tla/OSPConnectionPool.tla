------------------------- MODULE OSPConnectionPool -------------------------
(***************************************************************************)
(* class OSPConnectionPool: an array of poolSize slots, each NULL or an    *)
(* OSPConnection that no MySQL handle is using.  Both operations scan the  *)
(* array from slot 0 under one global mutex, so each is a single step.     *)
(* The module only has operators on the array; the modules that own pools  *)
(* keep the arrays in a variable of theirs.                                *)
(***************************************************************************)
EXTENDS Integers

CONSTANTS poolSize,  \* number of slots of every pool (200 in the code)
          Nil        \* the NULL pointer

ASSUME PoolSizeAssumption == poolSize \in Nat \ {0}

Slots == 1..poolSize

EmptyPool == [i \in Slots |-> Nil]

Occupied(slots) == {i \in Slots : slots[i] # Nil}
Vacant(slots)   == {i \in Slots : slots[i] = Nil}

\* The scan of either operation stops at the first slot of S that it meets:
\* a set of one slot, empty when S is.
First(S) == {i \in S : \A j \in S : i <= j}

\* borrowConnection takes what it finds there; it returns NULL otherwise.
borrowSlot(slots)     == First(Occupied(slots))
borrowKeeps(slots, i) == slots   \* mutant: forgets pool[i] = NULL
borrow(slots, i)      == [slots EXCEPT ![i] = Nil]

\* returnConnection; a connection that finds no vacant slot is deleted.
returnSlot(slots)        == First(Vacant(slots))
giveBack(slots, i, conn) == [slots EXCEPT ![i] = conn]
=============================================================================
