----------------------------- MODULE OrderQueue -----------------------------
(***************************************************************************)
(* What New Order and Delivery promise together: the orders of a district  *)
(* that have not been delivered are a queue.  New Order puts the next      *)
(* order number at its end; Delivery takes the oldest order of some of the *)
(* districts of one warehouse, all of them at once.                        *)
(***************************************************************************)
EXTENDS Naturals, Sequences

CONSTANTS Warehouses, Districts,
          FirstNumber   \* the first order number to be given out

VARIABLES next,   \* <<warehouse, district>> -> the next order number
          queue   \* <<warehouse, district>> -> numbers of undelivered orders

queueVars == <<next, queue>>

Init ==
    /\ next = [wd \in Warehouses \X Districts |-> FirstNumber]
    /\ queue \in [Warehouses \X Districts -> Seq(1..FirstNumber - 1)]

Place(wd) ==
    /\ next' = [next EXCEPT ![wd] = @ + 1]
    /\ queue' = [queue EXCEPT ![wd] = Append(@, next[wd])]

Deliver(w, ds) ==
    LET old == queue
    IN  /\ UNCHANGED next
        /\ \A d \in ds : old[<<w, d>>] # <<>>
        /\ queue' = [wd \in Warehouses \X Districts |->
                        IF wd[1] = w /\ wd[2] \in ds THEN Tail(old[wd]) ELSE old[wd]]

Next ==
    \/ \E wd \in Warehouses \X Districts : Place(wd)
    \/ \E w \in Warehouses : \E ds \in SUBSET Districts : Deliver(w, ds)

Spec == Init /\ [][Next]_queueVars
=============================================================================
