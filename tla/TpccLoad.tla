------------------------------ MODULE TpccLoad ------------------------------
(***************************************************************************)
(* The TPC-C data loader: TpccLoad.runLoad, the loops of Load over the     *)
(* tables, and the two RecordLoaders it uses, JdbcStatementLoader (rows    *)
(* are collected and inserted a batch at a time, all loaders share one     *)
(* connection) and FileLoader (a buffered file per table, opened to        *)
(* append).  What Load does in a run is a sequence of calls of loaders,    *)
(* fixed by the configuration, as the random numbers are by the seed.  A   *)
(* call may fail, the process may be killed, and the load be run again.    *)
(* A row is its table and primary key; history has no key.                 *)
(***************************************************************************)
EXTENDS Integers, Sequences, SequencesExt, FiniteSets, TLC

CONSTANTS
    MAXITEMS, DIST_PER_WARE, CUST_PER_DIST, ORD_PER_DIST,
    LastDelivered,   \* 2100
    OrderLines,      \* 5 to 15 in the code, the same for all orders here
    randomNumber,    \* what Util.randomNumber(i + 1, ...) returns for each i
    num_ware,
    BatchSize,       \* jdbcBatchSize, 100
    Configs,         \* [mode, shardCount, shardId]: what tpcc.properties may say
    MaxRuns,         \* bounds the runs
    MaxFailures      \* bounds the exceptions

ASSUME LoadAssumption ==
    /\ {MAXITEMS, DIST_PER_WARE, CUST_PER_DIST, num_ware, BatchSize} \subseteq Nat \ {0}
    /\ {ORD_PER_DIST, LastDelivered, OrderLines, MaxRuns, MaxFailures} \subseteq Nat
    /\ ORD_PER_DIST = CUST_PER_DIST
    /\ \A i \in 0..ORD_PER_DIST - 2 : randomNumber[i] \in i + 1..ORD_PER_DIST - 1
    /\ \A c \in Configs : c.mode \in {"JDBC", "FILE"} /\ {c.shardCount, c.shardId} \subseteq Nat

Tables == {"item", "warehouse", "stock", "district", "customer", "history", "orders", "new_orders",
           "order_line"}

VARIABLES
    config,
    run,        \* "idle", "running", or how the last run ended
    runs,       \* number of runs
    failures,   \* number of exceptions thrown by the database or the files
    todo,       \* the calls of loaders that are left
    buffer,     \* per table: rows the current loader has taken and not passed on
    executed,   \* per table: the current JdbcStatementLoader has a statement
    open,       \* loaders created and not closed
    sent,       \* rows inserted in the transaction of the connection
    stored,     \* rows committed, or in the files: row -> how many times
    files       \* tables that a .txt file exists for

vars == <<config, run, runs, failures, todo, buffer, executed, open, sent, stored, files>>

Jdbc == config.mode = "JDBC"

-----------------------------------------------------------------------------
(* The calls that Load makes.                                              *)

create(table) == <<[call |-> "create", table |-> table]>>
load(row)     == <<[call |-> "load", table |-> row[1], row |-> row]>>
commit(table) == <<[call |-> "commit", table |-> table]>>
close(table)  == <<[call |-> "close", table |-> table]>>

for(n, body(_)) == FlattenSeq([i \in 1..n |-> body(i)])

\* The shard of a warehouse, and whether this run loads it.
currentShard(w, shardCount) ==
    IF shardCount = 0 THEN 0
    ELSE IF w % shardCount = 0 THEN shardCount ELSE w % shardCount
isOurs(c, w) == c.shardId \in {0, currentShard(w, c.shardCount)}

\* nums: each number is written over one drawn from the places behind its own;
\* the last one written stays.
initPermutation ==
    LET writers(place) == {i \in 1..ORD_PER_DIST - 1 : randomNumber[i - 1] + 1 = place}
    IN  [place \in 1..ORD_PER_DIST |-> IF writers(place) = {} THEN place ELSE Max(writers(place))]

loadItems ==
    create("item") \o for(MAXITEMS, LAMBDA i : load(<<"item", i>>)) \o close("item")

stock(w) ==
    create("stock") \o for(MAXITEMS, LAMBDA i : load(<<"stock", w, i>>)) \o close("stock")

district(w) ==
    create("district") \o for(DIST_PER_WARE, LAMBDA d : load(<<"district", w, d>>)) \o close("district")

loadWare(c) ==
    LET one(w) == load(<<"warehouse", w>>) \o commit("warehouse") \o stock(w) \o district(w)
    IN  create("warehouse")
        \o for(num_ware, LAMBDA w : IF isOurs(c, w) THEN one(w) ELSE <<>>)
        \o close("warehouse")

loadCustomer(c, w, d) ==
    LET one(n) == load(<<"customer", w, d, n>>) \o load(<<"history", w, d, n>>)
    IN  create("customer") \o create("history")
        \o (IF isOurs(c, w) THEN for(CUST_PER_DIST, one) ELSE <<>>)
        \o close("customer") \o close("history")

\* The loaders are closed only for a warehouse that is loaded.
loadOrders(c, w, d) ==
    LET one(o) == load(<<"orders", w, d, o, initPermutation[o]>>)
                  \o (IF o > LastDelivered THEN load(<<"new_orders", w, d, o>>) ELSE <<>>)
                  \o for(OrderLines, LAMBDA n : load(<<"order_line", w, d, o, n>>))
    IN  create("orders") \o create("new_orders") \o create("order_line")
        \o (IF isOurs(c, w)
            THEN for(ORD_PER_DIST, one) \o close("orders") \o close("order_line") \o close("new_orders")
            ELSE <<>>)

loadCust(c) == for(num_ware, LAMBDA w : for(DIST_PER_WARE, LAMBDA d : loadCustomer(c, w, d)))
loadOrd(c)  == for(num_ware, LAMBDA w : for(DIST_PER_WARE, LAMBDA d : loadOrders(c, w, d)))

\* Mutant of Plans: orders are loaded before the customers they name.
Plans_ordersFirst == [c \in Configs |-> loadItems \o loadWare(c) \o loadOrd(c) \o loadCust(c)]

Plans == [c \in Configs |-> loadItems \o loadWare(c) \o loadCust(c) \o loadOrd(c)]

-----------------------------------------------------------------------------
(* Rows in the tables and files.                                           *)

HasKey(row) == row[1] # "history"

times(bag, row)        == IF row \in DOMAIN bag THEN bag[row] ELSE 0
occurrences(rows, row) == Cardinality({i \in DOMAIN rows : rows[i] = row})

\* The rows of the sequence added; INSERT IGNORE skips a key that is there.
Added(bag, rows, ignore) ==
    [r \in DOMAIN bag \cup Range(rows) |->
        IF ~ignore \/ ~HasKey(r) THEN times(bag, r) + occurrences(rows, r)
        ELSE IF r \in DOMAIN bag THEN bag[r] ELSE 1]
NoRows == [r \in {} |-> 0]

-----------------------------------------------------------------------------
(* A run.                                                                  *)

Running      == run = "running"
Next_(call)  == Running /\ todo # <<>> /\ Head(todo).call = call
table        == Head(todo).table
done         == todo' = Tail(todo)

NoLoaders ==
    /\ buffer' = [t \in Tables |-> <<>>]
    /\ executed' = [t \in Tables |-> FALSE]
    /\ open' = 0

\* Mutant of Start: text files in the directory are not looked for.
Start_appends ==
    /\ ~Running /\ runs < MaxRuns
    /\ runs' = runs + 1
    /\ NoLoaders /\ sent' = <<>>
    /\ run' = "running" /\ todo' = Plans[config]
    /\ UNCHANGED <<config, failures, stored, files>>

\* runLoad, also of a load that is complete.  In FILE mode it refuses to start
\* while there are text files.
Start ==
    /\ ~Running /\ runs < MaxRuns
    /\ runs' = runs + 1
    /\ NoLoaders /\ sent' = <<>>
    /\ IF ~Jdbc /\ files # {}
       THEN run' = "refused" /\ todo' = <<>>
       ELSE run' = "running" /\ todo' = Plans[config]
    /\ UNCHANGED <<config, failures, stored, files>>

\* The user deletes the files, as the message asks.
DeleteFiles ==
    /\ run = "refused" /\ files # {}
    /\ files' = {} /\ stored' = NoRows
    /\ UNCHANGED <<config, run, runs, failures, todo, buffer, executed, open, sent>>

Create ==
    /\ Next_("create") /\ done
    /\ buffer' = [buffer EXCEPT ![table] = <<>>]
    /\ executed' = [executed EXCEPT ![table] = FALSE]
    /\ open' = open + 1
    /\ files' = IF Jdbc THEN files ELSE files \cup {table}
    /\ UNCHANGED <<config, run, runs, failures, sent, stored>>

\* JdbcStatementLoader.executeBulkInsert.
executeBulkInsert(rows) ==
    /\ sent' = sent \o rows
    /\ executed' = [executed EXCEPT ![table] = TRUE]
    /\ buffer' = [buffer EXCEPT ![table] = <<>>]

\* Mutant of LoadJdbc: the size of the batch is compared before it is counted.
LoadJdbc_late ==
    LET rows == Append(buffer[table], Head(todo).row)
    IN  /\ Next_("load") /\ Jdbc /\ done
        /\ IF Len(buffer[table]) = BatchSize
           THEN executeBulkInsert(rows)
           ELSE buffer' = [buffer EXCEPT ![table] = rows] /\ UNCHANGED <<sent, executed>>
        /\ UNCHANGED <<config, run, runs, failures, open, stored, files>>

LoadJdbc ==
    LET rows == Append(buffer[table], Head(todo).row)
    IN  /\ Next_("load") /\ Jdbc /\ done
        /\ IF Len(rows) = BatchSize
           THEN executeBulkInsert(rows)
           ELSE buffer' = [buffer EXCEPT ![table] = rows] /\ UNCHANGED <<sent, executed>>
        /\ UNCHANGED <<config, run, runs, failures, open, stored, files>>

\* The buffer of the stream is written to the file whenever it is full.
LoadFile ==
    LET rows == Append(buffer[table], Head(todo).row)
    IN  /\ Next_("load") /\ ~Jdbc /\ done
        /\ \/ buffer' = [buffer EXCEPT ![table] = rows] /\ UNCHANGED stored
           \/ buffer' = [buffer EXCEPT ![table] = <<>>] /\ stored' = Added(stored, rows, FALSE)
        /\ UNCHANGED <<config, run, runs, failures, executed, open, sent, files>>

Commit ==
    /\ Next_("commit") /\ done
    /\ IF Jdbc THEN stored' = Added(stored, sent, TRUE) /\ sent' = <<>> ELSE UNCHANGED <<stored, sent>>
    /\ UNCHANGED <<config, run, runs, failures, buffer, executed, open, files>>

\* The statement is made by the first batch: there is none to close when the
\* loader has not got a row, and NullPointerException ends the load.
HasStatement == executed[table] \/ buffer[table] # <<>>

\* Mutant of CloseJdbc: the last batch, which is not full, is dropped.
CloseJdbc_drops ==
    /\ Next_("close") /\ Jdbc /\ HasStatement /\ done
    /\ stored' = Added(stored, sent, TRUE) /\ sent' = <<>>
    /\ buffer' = [buffer EXCEPT ![table] = <<>>]
    /\ executed' = [executed EXCEPT ![table] = FALSE]
    /\ open' = open - 1
    /\ UNCHANGED <<config, run, runs, failures, files>>

CloseJdbc ==
    /\ Next_("close") /\ Jdbc /\ HasStatement /\ done
    /\ stored' = Added(stored, sent \o buffer[table], TRUE) /\ sent' = <<>>
    /\ buffer' = [buffer EXCEPT ![table] = <<>>]
    /\ executed' = [executed EXCEPT ![table] = FALSE]
    /\ open' = open - 1
    /\ UNCHANGED <<config, run, runs, failures, files>>

CloseFile ==
    /\ Next_("close") /\ ~Jdbc /\ done
    /\ stored' = Added(stored, buffer[table], FALSE)
    /\ buffer' = [buffer EXCEPT ![table] = <<>>]
    /\ open' = open - 1
    /\ UNCHANGED <<config, run, runs, failures, executed, sent, files>>

\* The end of the process: what is not committed is rolled back, what is not
\* written to the files is lost.  It exits with 0 after an exception, too.
Ends(how) ==
    /\ run' = how /\ todo' = <<>>
    /\ NoLoaders /\ sent' = <<>>
    /\ UNCHANGED <<config, runs, stored, files>>

CloseFails == Next_("close") /\ Jdbc /\ ~HasStatement /\ Ends("error") /\ UNCHANGED failures
CallFails  == Running /\ failures < MaxFailures /\ Ends("error") /\ failures' = failures + 1
Crash      == Running /\ Ends("crashed") /\ UNCHANGED failures
Complete   == /\ Running /\ todo = <<>>
              /\ run' = "completed"
              /\ UNCHANGED <<config, runs, failures, todo, buffer, executed, open, sent, stored, files>>

Init ==
    /\ config \in Configs
    /\ run = "idle" /\ runs = 0 /\ failures = 0 /\ todo = <<>>
    /\ buffer = [t \in Tables |-> <<>>] /\ executed = [t \in Tables |-> FALSE] /\ open = 0
    /\ sent = <<>> /\ stored = NoRows /\ files = {}

Next ==
    \/ Start \/ DeleteFiles \/ Create \/ LoadJdbc \/ LoadFile \/ Commit \/ CloseJdbc \/ CloseFile
    \/ CloseFails \/ CallFails \/ Crash \/ Complete

Spec == Init /\ [][Next]_vars

-----------------------------------------------------------------------------

Ours == {w \in 1..num_ware : isOurs(config, w)}
Dist == 1..DIST_PER_WARE

\* At most three loaders are in use at a time, but the three of every district
\* of another shard, which loadOrders creates, are not closed.
MaxOpen == 3 + 3 * DIST_PER_WARE * (num_ware - Cardinality(Ours))

\* Every variable has its type; only a running load has rows that are not
\* stored, less than a batch of each table, and a bounded number of loaders.
TypeOK ==
    /\ config \in Configs /\ runs \in 0..MaxRuns /\ failures \in 0..MaxFailures
    /\ run \in {"idle", "running", "completed", "error", "crashed", "refused"}
    /\ files \subseteq Tables /\ open \in 0..MaxOpen
    /\ ~Running => /\ sent = <<>> /\ todo = <<>>
                   /\ \A t \in Tables : buffer[t] = <<>>
    /\ \A t \in Tables : Jdbc => Len(buffer[t]) < BatchSize

\* The rows of the warehouses that the configuration selects.
Expected ==
    UNION {{<<"item", i>> : i \in 1..MAXITEMS},
           {<<"warehouse", w>> : w \in Ours},
           {<<"stock", w, i>> : w \in Ours, i \in 1..MAXITEMS},
           {<<"district", w, d>> : w \in Ours, d \in Dist},
           {<<t, w, d, n>> : t \in {"customer", "history"}, w \in Ours, d \in Dist, n \in 1..CUST_PER_DIST},
           {<<"orders", w, d, o, initPermutation[o]>> : w \in Ours, d \in Dist, o \in 1..ORD_PER_DIST},
           {<<"new_orders", w, d, o>> : w \in Ours, d \in Dist, o \in LastDelivered + 1..ORD_PER_DIST},
           {<<"order_line", w, d, o, n>> :
               w \in Ours, d \in Dist, o \in 1..ORD_PER_DIST, n \in 1..OrderLines}}

\* "DATA LOADING COMPLETED SUCCESSFULLY" is printed only when all rows are
\* stored, also those of the last batches and what runs before had left out.
CompletedIsComplete == run = "completed" => DOMAIN stored = Expected

\* A row is never stored twice, however often the load is run: by the keys in
\* the database, by the check for old files in FILE mode.  Only history, which
\* has no key, can get the rows of every run that the database has seen.
NoDuplicates ==
    \A row \in DOMAIN stored : stored[row] <= (IF Jdbc /\ ~HasKey(row) THEN runs ELSE 1)

\* What is committed at any time, whatever the moment of a crash, has the rows
\* it refers to, with one exception: the warehouse of stock and districts.
Parents(row) ==
    CASE row[1] = "stock"      -> {<<"item", row[3]>>}
      [] row[1] = "customer"   -> {<<"district", row[2], row[3]>>}
      [] row[1] = "history"    -> {<<"district", row[2], row[3]>>}
      [] row[1] = "orders"     -> {<<"customer", row[2], row[3], row[5]>>}
      [] row[1] \in {"new_orders", "order_line"} ->
             {<<"orders", row[2], row[3], row[4], initPermutation[row[4]]>>}
      [] OTHER                 -> {}
ParentsStored == Jdbc => \A row \in DOMAIN stored : Parents(row) \subseteq DOMAIN stored

\* README.txt:31: "It is possible to load data into shards where the warehouse
\* ID is used as a shard key."  Without an exception from outside it succeeds.
ShardsCanBeLoaded == run = "error" => failures > 0
=============================================================================
