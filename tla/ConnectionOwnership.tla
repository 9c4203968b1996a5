------------------------ MODULE ConnectionOwnership ------------------------
(***************************************************************************)
(* What the driver promises about its network connections: a ledger with   *)
(* one entry per connection.  A connection is absent, in use by one handle *)
(* for one schema, idle in the pool of that schema, or lost.  It changes   *)
(* hands only through the pool of the schema it was opened for, a handle   *)
(* uses one at a time, and a lost connection is never used again.          *)
(***************************************************************************)
CONSTANTS Handles, Schemas, Nets

VARIABLE place

Absent     == [at |-> "absent"]
Lost       == [at |-> "lost"]
Pooled(s)  == [at |-> "pooled", schema |-> s]
Used(h, s) == [at |-> "used", schema |-> s, by |-> h]

Init == place = [n \in Nets |-> Absent]

Uses(h, n) == place[n].at = "used" /\ place[n].by = h
Free(h)    == \A n \in Nets : ~Uses(h, n)

Move(n, from, to) == place[n] = from /\ place' = [place EXCEPT ![n] = to]

Open(n, h, s)     == Free(h) /\ Move(n, Absent, Used(h, s))
Take(n, h, s)     == Free(h) /\ Move(n, Pooled(s), Used(h, s))
GiveBack(n, h, s) == Move(n, Used(h, s), Pooled(s))
Discard(n, h, s)  == Move(n, Used(h, s), Absent)
Lose(n, h, s)     == Move(n, Used(h, s), Lost)

Next == \E n \in Nets, h \in Handles, s \in Schemas :
            \/ Open(n, h, s) \/ Take(n, h, s) \/ GiveBack(n, h, s)
            \/ Discard(n, h, s) \/ Lose(n, h, s)

Spec == Init /\ [][Next]_place
=============================================================================
