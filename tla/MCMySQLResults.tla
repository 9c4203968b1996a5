--------------------------- MODULE MCMySQLResults ---------------------------
(* Instances of MySQLResults for TLC: addresses are interchangeable. *)
EXTENDS MySQLResults, TLC

CONSTANTS h1, h2, c1, c2, c3, r1, r2, r3, w1, w2, w3

Symmetry == Permutations(Handles) \cup Permutations(Conns)
                \cup Permutations(Results) \cup Permutations(Wrappers)
=============================================================================
