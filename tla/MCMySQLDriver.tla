--------------------------- MODULE MCMySQLDriver ---------------------------
(* The instances of MySQLDriver that TLC checks. *)
EXTENDS MySQLDriver, TLC

CONSTANTS h1, h2, n1, n2, n3, p1, p2, p3, osp1, osp2, bad, local, s1, s2

UrlSchemaOf == [v \in OspHosts |-> s1]

Symmetry == Permutations(Handles) \cup Permutations(Nets) \cup Permutations(Pools)
=============================================================================
