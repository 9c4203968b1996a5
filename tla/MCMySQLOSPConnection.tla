------------------------ MODULE MCMySQLOSPConnection ------------------------
(* A server that keeps to the protocol, with request IDs that start again    *)
(* within a run, and one that does not.                                      *)
EXTENDS MySQLOSPConnection

WellFormedServer == [MaxRequestID |-> 3, malformed |-> FALSE, empty |-> FALSE]
MalformedServer  == [MaxRequestID |-> 20, malformed |-> TRUE, empty |-> TRUE]
BothSettings     == {WellFormedServer, MalformedServer}
=============================================================================
