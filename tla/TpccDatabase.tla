---------------------------- MODULE TpccDatabase ----------------------------
(***************************************************************************)
(* The database that the TPC-C transactions run on, as TpccThread sets a   *)
(* connection up: REPEATABLE READ and no autocommit.  It is not part of    *)
(* the repository and is modelled as far as the transactions rely on it:   *)
(* rows with shared and exclusive locks that are held to the end of the    *)
(* transaction, plain SELECTs that read the snapshot of the first of them, *)
(* and SELECT ... FOR UPDATE, UPDATE and DELETE that read and lock the     *)
(* latest committed row.  Gap locks are left out.  What a transaction      *)
(* writes is kept apart from the committed rows until it commits.          *)
(***************************************************************************)
EXTENDS Integers, Sequences, FiniteSetsExt

CONSTANTS Terminals,  \* TpccThreads, each with a connection of its own
          Nil

VARIABLES
    db,      \* committed rows: key -> value
    work,    \* per terminal: rows written, Nil for a deleted one
    snap,    \* per terminal: the snapshot, or no rows before it is taken
    held     \* per terminal: set of locks <<key, "S" or "X">>

databaseVars == <<db, work, snap, held>>

NoRows == [r \in {} |-> 0]

Row(key, value) == [k \in {key} |-> value]

\* The rows of f and, where f has none, those of g.
f ++ g == [k \in DOMAIN f \cup DOMAIN g |-> IF k \in DOMAIN f THEN f[k] ELSE g[k]]

\* The rows of f after the writes w.
Apply(f, w) ==
    [k \in (DOMAIN f \cup DOMAIN w) \ {r \in DOMAIN w : w[r] = Nil} |->
        IF k \in DOMAIN w THEN w[k] ELSE f[k]]

\* Mutant: READ COMMITTED.
View_committed(t) == Apply(db, work[t])

\* What a locking statement of t sees, and what a plain SELECT of t sees.
Latest(t) == Apply(db, work[t])
View(t)   == Apply(IF snap[t] = NoRows THEN db ELSE snap[t], work[t])

Conflict(k, l) == k[1] = l[1] /\ (k[2] = "X" \/ l[2] = "X")

\* u holds a lock that keeps t from getting the locks ks.
Blocks(u, t, ks) == u # t /\ \E k \in ks, l \in held[u] : Conflict(k, l)

Acquire(t, ks) ==
    /\ \A u \in Terminals : ~Blocks(u, t, ks)
    /\ held' = [held EXCEPT ![t] = @ \cup ks]

Write(t, rows) == work' = [work EXCEPT ![t] = rows ++ @]

TakeSnapshot(t) == snap' = [snap EXCEPT ![t] = IF @ = NoRows THEN db ELSE @]

Release(t) ==
    /\ work' = [work EXCEPT ![t] = NoRows]
    /\ snap' = [snap EXCEPT ![t] = NoRows]
    /\ held' = [held EXCEPT ![t] = {}]

\* commit and rollback of TpccStatements.  Both only log an SQLException; the
\* database has then rolled back, or has committed before the answer was lost.
commit(t)   == db' = Apply(db, work[t]) /\ Release(t)
rollback(t) == UNCHANGED db /\ Release(t)

DatabaseInit(rows) ==
    /\ db = rows
    /\ work = [t \in Terminals |-> NoRows]
    /\ snap = [t \in Terminals |-> NoRows]
    /\ held = [t \in Terminals |-> {}]
=============================================================================
