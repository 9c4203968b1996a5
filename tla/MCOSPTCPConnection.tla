------------------------- MODULE MCOSPTCPConnection -------------------------
(* Instances of OSPTCPConnection with one object, where only its own       *)
(* history can disturb it, and with two, where descriptors are reused.     *)
EXTENDS OSPTCPConnection, TLC

CONSTANTS c1, c2

Symmetry == Permutations(Conns)
=============================================================================
