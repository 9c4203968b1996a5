----------------------------- MODULE MCTpccLoad -----------------------------
(* Two warehouses, unsharded, in one shard, and one of two shards.           *)
EXTENDS TpccLoad

Conf(mode, count, id) == [mode |-> mode, shardCount |-> count, shardId |-> id]
AllConfigs == {Conf("JDBC", 0, 0), Conf("JDBC", 1, 1), Conf("JDBC", 2, 1), Conf("FILE", 1, 1),
               Conf("FILE", 2, 2)}
Shard      == {Conf("JDBC", 2, 1)}
Random     == 0 :> 2 @@ 1 :> 2
=============================================================================
