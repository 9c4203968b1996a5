---------------------------- MODULE MCTpccDriver ----------------------------
(* Two threads.  Both mixes have three cards, so that the deck is shuffled   *)
(* again after three draws.                                                  *)
EXTENDS TpccDriver

SomeMixes == {<<2, 1, 0, 0, 0>>, <<0, 0, 1, 1, 1>>}
TwoMixes  == {[k \in Kinds |-> m[k + 1]] : m \in SomeMixes}
Numbers   == {-4}
Times     == {-1, 20, 6000}
=============================================================================
