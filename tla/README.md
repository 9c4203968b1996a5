# OpenSharding: a TLA+ model

OpenSharding has two programs: the *client library* (`legacy/`), which lets a
program written for MySQL talk to a sharding server over the Open Sharding
Protocol (OSP), and a *TPC-C benchmark* (`tpcc/`) in Java, with the loader of its
data. This directory models both: of the client library the threads, pools, maps
and byte streams, of the benchmark its transactions, its run and its loader.
What is left is in sections 6 and 7.

## 1. The system

    application ── MYSQL* API ──> MySQLDriver.cpp ── maps (MySQLConnMap)
                                     │   │
                   delegate mode ────┘   └──── OSP mode
                MySQLNativeConnection        MySQLOSPConnection
                (libmysqlclient, dlopen)          │ sendMessage / processMessage
                                     OSPConnectionPool (one per schema)
                                             │
               OSPNamedPipeConnection  OSPUnixSocketConnection  OSPTCPConnection
                        └── OSPFileInputStream / OutputStream ──┘     │
                        OSPByteBuffer, OSPMessageDecoder, messages ───┘

| Component | State | Operations | Interacts with |
| --- | --- | --- | --- |
| MySQL driver, `MySQLDriver.cpp`, `MySQLConnMap.cpp` | maps keyed by `MYSQL*` and `MYSQL_RES*`, pools per schema, `MySQLDriver_connpool_mutex`, `mysqlAllocMap` | `mysql_init`, `_real_connect`, `_select_db`, `_close`, `_real_query`, `_store_result`, `_free_result`, ... | called by all application threads; calls the connection objects and pools |
| Connection pool, `OSPConnectionPool.cpp` | array of slots | `borrowConnection`, `returnConnection` | shared by all threads that use a schema |
| MySQL connection object, `MySQLOSPConnection.cpp` | session, `currentRes`, `my_errno`, `fieldCount` | constructor, `mysql_real_query`, `processMessage` (callback of `sendMessage`), `mysql_store_result`, `mysql_close` | one network connection, borrowed from a pool |
| Pipe and unix socket connections | `nextRequestID`, streams | `sendMessage`, `doSendOnly`, `waitForResponse` | the server, by messages |
| TCP connection, `OSPTCPConnection.cpp` | `hSocket`, `requestID` | `getSocket`, `sendMessage`, `readResponse`, `stop` | the server; the descriptor table of the process |
| Input stream, `OSPFileInputStream.cpp` | buffer, `buf_pos`, `buf_mark` | `readBytes`, `fill_buffer` | a descriptor, `select()`, `read()` |
| Output stream, byte buffer, decoder, message classes | buffers | encode, decode, write | the connections |
| Native connection, client library, `DynLib` | functions loaded from libmysqlclient | delegation | the library |
| Configuration, `OSPConfig`, `MyOSPConfig` | hosts, URLs, flags; loaded lazily | `isOspHost`, `getConfigMap`, ... | the driver |
| Utilities, logger | - | strings, files | everything |
| `MySQLOSPConnectionPool.cpp` | - | - | nothing (unused) |
| `myospbinlog` | - | filters the output of mysqlbinlog | - |
| TPC-C transactions, `NewOrder.java`, `Payment.java`, `OrderStat.java`, `Delivery.java`, `Slev.java`, `TpccStatements.java` | the tables; locals of a call | five transactions, `commit`, `rollback` | a database, by JDBC; the transactions of other terminals, by locks |
| TPC-C run, `Tpcc.java`, `TpccThread.java`, `Driver.java`, `Util.java`, `RtHist.java` | two volatile flags, a deck of transaction kinds, shared counts, counts per thread | start, ramp up, measure, stop; draw, attempt, retry, give up, count | one thread per connection, and the main thread |
| TPC-C loader, `TpccLoad.java`, `Load.java`, `load/*` | open loaders with their batches | `create`, `load`, `commit`, `close` | one connection, or files |

What is hard: threads that share pools, maps and the allocator (an address or a
descriptor is given out again as soon as it is free); calls that stop half way
because the server failed, refused or sent something unexpected, and leave
messages, descriptors or map entries for the next call; request IDs that wrap
around; partial reads and signals; transactions that read, compute in Java and
write back while others do the same; counters shared without a lock; a load that
is killed and run again. `PROJECT.json` lists each such place under "hazards",
with the properties that cover it.

What makes the components correct: a network connection has one user, is
neither lost nor used after it was deleted, and stays with its schema; a pool
exists once; a call returns, and its outcome agrees with the maps and the error
state; a statement gets the rows of its own answer or an error; a caller gets
the bytes of the stream in order; a result set is found and freed as the one it
is. The tables satisfy the consistency conditions of the benchmark whatever the
transactions interleave and however they fail; terminals do not wait for each
other for ever; the counts tell what happened; what the loader says is loaded is
loaded, once.

## 2. The modules

| Module | Models | Composed of |
| --- | --- | --- |
| `OSPConnectionPool` | the slot array: operators only | |
| `MySQLDriver` | `mysql_init`, `mysql_real_connect`, `do_osp_connect`, `mysql_select_db`, `mysql_close` in concurrent threads | EXTENDS `OSPConnectionPool` |
| `ConnectionOwnership` | abstract: a ledger of network connections | implemented by `MySQLDriver` (`OwnershipSpec`), checked and proved |
| `MySQLDriver_proofs` | theorems: types, ownership, pools, outcome of calls, no silent loss, the driver implements the ledger | EXTENDS `MySQLDriver` |
| `OSPStreamConnection` | named pipe and unix socket connection, with the server's messages | |
| `MySQLOSPConnection` | the MySQL connection object on such a connection | EXTENDS `OSPStreamConnection` |
| `MySQLOSPConnection_proofs` | theorems: types, requests in step, stored results complete and own | EXTENDS `MySQLOSPConnection` |
| `OSPTCPConnection` | TCP connection objects that share descriptors | |
| `OSPTCPConnection_proofs` | theorems: types, no descriptor leak, own answers | EXTENDS `OSPTCPConnection` |
| `OSPFileInputStream` | the buffered byte stream | |
| `OSPFileInputStream_proofs` | theorems: types, the stream is delivered | EXTENDS `OSPFileInputStream` |
| `MySQLResults` | result sets, wrappers, connection objects and their two maps, in concurrent threads | |
| `MySQLResults_proofs` | theorems: all four invariants of `MySQLResults` | EXTENDS `MySQLResults` |
| `TpccDatabase` | external: rows, row locks, snapshots, commit and rollback, as the transactions rely on them | |
| `TpccTransactions` | the five transactions of concurrent terminals, statement by statement | EXTENDS `TpccDatabase` |
| `TpccTransactions_proofs` | theorems: types, no circle of waiting terminals, complete orders, consistent Order Status, the transactions implement the queues, the sums of payments agree | EXTENDS `TpccTransactions` |
| `OrderQueue` | abstract: the undelivered orders of a district are a queue | implemented by `TpccTransactions` (`OrderQueueSpec`), checked and proved |
| `TpccDriver` | the benchmark run: main thread, worker threads, deck, counters | the transactions by their outcome |
| `TpccDriver_proofs` | theorems: types, the deck deals the mix, exact counts of attempts, totals never ahead | EXTENDS `TpccDriver` |
| `TpccLoad` | the loader, in JDBC and FILE mode, with crashes and repeated runs | |
| `TpccLoad_proofs` | theorems: types, a completed load is complete, no duplicates, parents are stored | EXTENDS `TpccLoad` |
| `MC...` | model values and symmetry for TLC | |

### MySQLDriver

Each `MYSQL` handle has a thread of its own, as in `test/multithreadtest.cpp`.
`pc[h]` is where its call is: a step is what the thread does between two I/O
calls, or between two uses of what threads share. `mysql_real_connect` runs
through `close`/`return`/`erase` (an old connection), `setup` (`StoreInfo`),
then `native` or `lookup` (`RefuseBlank`), `find` and `create` (under
`connpool_mutex`), `borrow`, `ping`, `new`, `handshake`; `mysql_select_db` joins
it at `lookup`, after the same close. The maps keyed by `MYSQL*` are functions
of the handle (each access is under `connmap_mutex`, hence atomic).
`netHost[n]` tells whether an `OSPConnection` object exists at address `n`; an
address may serve again. `ospConn[h]` is the local variable of `do_osp_connect`
and then the member of the connection object: the network connection that h
holds. `ConnectionOwnership` is what all this amounts to: a connection is
absent, used by one handle for one schema, pooled for one schema, or lost.

### OSPStreamConnection and MySQLOSPConnection

`inbox` is the byte stream from the server, cut into messages. When a request
is written, the server's whole answer is appended (`QueryAnswers`: an error, an
execute response without columns, or one with a meta message and rows). `setting`
is chosen at the beginning and kept: the limit of request IDs, and whether the
server may send messages that do not decode and messages of length 0. It may exit
at any time, after any prefix.
*Assumption*: messages arrive whole, cut where the server cut them. The input stream
does not keep this for a message larger than its buffer of 4096 bytes that begins
with buffered bytes: it delivers too little of it (section 4), and what follows is
read from the wrong place. What is checked and proved of this module holds while no
message is read that way.
`Receive` is one turn of the loop of `sendMessage` with the effect of
`processMessage`; `DecodeThrows` is one whose message does not decode, which is found
out before the request IDs are compared, so that a message of another request can
end a query with an error. `currentRes` is a record: which request it answers, the rows
it has, those it should have, and whether the application freed it; `Wild` is
the value the constructor leaves in the uninitialised member. `pc` is "receive"
inside `sendMessage`; otherwise it says who has the connection ("fresh" and
"pooled" belong to `do_osp_connect`, "lost" means that it was not returned).

### OSPTCPConnection

`socket[fd]` is the descriptor table with, per open socket, what can be
received. `hSocket[c]` is the member of object c, which may disagree: the
module follows the code in where it closes, where it resets the member, and
where it resets only a parameter of the same name. A consumer that throws
(`Receive`) and a message that does not decode (`DecodeThrows`) end the call and leave
the socket open, with what is unread. The kernel gives out the lowest free number.

### OSPFileInputStream

Bytes are numbered, so that a lost, repeated or invented byte shows. `Write`,
`Close` are the other side; `CopyAll`, `CopyPart` the two branches of the loop of
`readBytes`; `ReadSome`, `ReadNothing`, `SelectFails`, `ReadFails` the outcomes of
one turn of `fill_buffer`. Counters are `unsigned int` (modulo `UINT`).

### MySQLResults

`liveConns`, `liveResults`, `liveWrappers` are what the heap has allocated. Each
access to a map is one step, so `mysql_free_result` is four (`Lookup`, `Unmap`,
`Free`, `DeleteWrapper`) and other threads run in between. `app` is what the
application knows: which results it holds, and whether their connection is
still open, closed or replaced by a reconnect. In delegate mode a result is
made by the native library when it is stored, and mapped in two accesses
(`NativeStore`: its wrapper; `Store`: its connection) between which other threads run;
in OSP mode the query makes and wraps it, and `Store` is all that `mysql_store_result`
adds. A query that fails leaves NULL or the result set it has begun in `currentRes`
(`QueryFails`).

### TpccDatabase and TpccTransactions

`pc[t]` is the statement that is next in the transaction of terminal t. A step is
the code from one statement that may have to wait for a lock to the next, so that
terminals interleave wherever they can meet in the database. `db` has the
committed rows; `work[t]` what t has written, with Nil for a deleted row,
`held[t]` its locks, `snap[t]` the snapshot its plain SELECTs read (TpccThread sets
REPEATABLE READ), `NoRows` before the first. `Apply` is what the rows are after a
transaction's writes; no row is Nil (`NilAssumption`). `Acquire` is
what `FOR UPDATE`, `UPDATE`, `DELETE` and the foreign key check of an `INSERT` wait
for; `Latest` is what they read, `View` what a plain SELECT reads. The order of the
lines of an order is `sortedLines` of the call, as in `NewOrder`: some arrangement of
them with ascending `rank`, the key `NewOrder` computes for its bubble sort. (Two
lines of equal rank are of one stock, hence may come in either order.) `Fail` is an
exception at any statement, with the rollback and Driver's next attempt;
`CommitFails` is one that `TpccStatements.commit` swallows. Amounts are numbers of
items, so that a sum says what was added; columns that no transaction changes
are left out. Two steps of the code are not steps of the model. The first SELECT of
New Order reads such columns only, so it is left out together with the snapshot it
takes: only other SELECTs of such columns read it, all else locks or inserts.
And Delivery's UPDATE of an order and the one of its lines are one step (`SetCarrier`)
which takes both locks: only Deliveries lock these rows, the order before the lines,
so nobody could hold the lines and wait for the order. `LoadedRows` is what the loader leaves.

### TpccDriver

`main` is where `runBenchmark` is, `pc[t]` where the Driver of thread t is: "draw"
(`Util.seqGet`, synchronized), "loop" (reads `activate_transaction`), "attempt" (one
call of a transaction, which returns 1 or 0 or throws), "giveup", and "count", "own"
for each increment: of an element of a shared array, which is a read and a write
(`ReadTotal`, `WriteTotal`), and of the thread's own. `counting_on` is read where the
code reads it. `Decks` has every deck that the shuffle can leave. `drawn` and
`attempts` are history variables.

### TpccLoad

`Plans[c]` is the sequence of calls of loaders that `Load` makes for a
configuration: a pure function of the shard and the sizes, built from one operator
per method. The actions are what `JdbcStatementLoader` or `FileLoader` does for
each call: `buffer` is a batch (or the buffer of a file), `sent` the rows in the
open transaction of the one connection, `stored` the committed rows or those in the
files, with how often. A row is its table and its key, with the customer for an
order. `Crash`, and `CallFails` for an exception, may end a run at any call; `Start`
runs it again on what is there, also after a load that is complete.

## 3. What TLC checks

Times are with two workers on a small machine. All runs finish.

| Run | Question | Bounds |
| --- | --- | --- |
| `driver` | Do two threads that connect, reconnect, select and close ever share, forget or dangle a network connection, or make two pools for a schema? Is each step one of the ledger? (`ExclusiveOwnership`, `OnePoolPerSchema`, `LosesOnlyOnFailure`, `OwnershipSpec`) | 2 handles, 2 connections, 2 pools of 1 slot, 2 schemas, 1 host |
| `driver_calls` | Do calls leave the maps as they report, with a misconfigured host and delegate mode too, and is the mutex always let go? (`CallOutcome`, `MutexReleased`) | 2 handles, one of them allocated by `mysql_init(NULL)`, 1 schema, 3 hosts |
| `select_loses_info` | violation of `ConnectedHasInfo`, see below | 1 handle |
| `osp` | With a server that keeps to the protocol: does every request meet its own answer, also when request IDs start again? (`InStep`) With any server: is a stored result complete and that of its statement, does a call return? (`StoresOwnResult`, `CallReturns`) | 6 requests, 2 rows; IDs 1..2 with the first server, no wrap with the other |
| `tcp` | Do callers get only the answer to their own request, do error paths leak no descriptor, does `sendMessage` return? (`OwnAnswer`, `NoDescriptorLeak`, `SendReturns`) | 1 object, 4 requests, answers of up to 2 messages |
| `tcp_stale_descriptor` | violation of `ForgetsClosedSocket` | 2 objects, 2 descriptors |
| `stream` | Does `readBytes` deliver the stream, and without waiting for more than was asked? (`DeliversStream`, `DeliversInTime`) | buffer of 3, stream of 7, portions 1, 3, 5 |
| `results` | Is a result found with its connection and freed once, by whoever holds it, whatever addresses are used again? (`FindsItsConnection`, `FreesOnlyItsOwn`, `CloseLeavesNoEntry`) | 2 threads, 2 connections, 3 results, 2 wrappers |
| `tpcc_tx` | Do the tables stay consistent when transactions interleave, fail and are retried? (`YtdAgrees`, `OrdersComplete`, `StockMatchesOrders`, `BalancesAgree`) Do terminals ever wait in a circle, and does every transaction end? (`NoWaitCycle`, `TransactionsEnd`) Does Order Status show one state? (`OrderStatusConsistent`) Are the new orders a queue? (`OrderQueueSpec`) | 2 terminals, any 3 of 7 calls, 1 exception; 2 warehouses, 2 districts, 2 customers, 2 items |
| `tpcc_driver` | Is the mix kept, is each attempt counted, can a total be too large, do all threads end? (`DeckMix`, `AttemptsCounted`, `TotalNeverAhead`, `WorkersStop`) | 2 threads, 2 calls, 2 retries, 2 mixes of 3 cards |
| `tpcc_load` | Is a load that says so complete, does a row get stored twice, has what is committed its parents? (`CompletedIsComplete`, `NoDuplicates`, `ParentsStored`) | 2 warehouses, 1 district, 3 items, customers and orders, batches of 2; 5 configurations, 3 runs, 1 exception |
| `tpcc_shard_load` | violation of `ShardsCanBeLoaded` | the same, one shard of two |

Why these bounds are enough to see the interesting cases:

- *Two handles* are what a race needs; every shared object (pool, mutex, map,
  descriptor) can be contended. One slot per pool and two connections make the
  pool empty, full and overfull (two handles of one schema return theirs). Two
  schemas and two pools let each schema race for its pool. Three kinds of
  hosts are checked with one schema, as hosts only choose the path through
  `StoreInfo`.
- *Request IDs up to 2* (`MaxRequestID = 3`) stand for 2 000 000 000 (pipes) and
  2 000 000 (sockets), so that six requests wrap around twice; *six requests*
  are enough for a backlog of two abandoned answers and requests after them.
  With malformed messages the IDs do not wrap: after a wrap-around with a backlog
  of unread answers an old answer would be taken for a new one, which with the
  real limit takes billions of requests on one connection.
- *Two rows* make a first, a middle and a last message of an answer.
- *A buffer of 3 and a stream of 7* give portions smaller than, equal to and
  larger than the buffer, from every position of it. For portions larger than the
  buffer `DeliversStream` claims that what is delivered comes in order from the
  right place, not that it is complete (see section 4).
- *Two terminals and three transactions* let two meet on each lock while a third
  comes after or in between. The calls of `MCTpccTransactions` are chosen to
  collide: two New Orders that want the same two stocks in different orders, one
  with an item that does not exist, a Payment by name for a customer of the
  other's district, and Order Status, Delivery and Stock Level on that district.
  A stock of 10 is used up by one line of 10, so that restocking happens.
- *Two retries* stand for 2000: a first and a last attempt. *Two calls* of two
  threads let increments of one element interleave; with *three cards* and a draw
  more than calls per thread the deck is shuffled again in the middle. The random
  number is negative, as `nextInt` may be; response times are negative (the clock
  was set back), in time for all kinds, and late for all but Stock Level.
- *Batches of 2 with 3 rows* leave a full and a partly full batch at each close.
  The numbers drawn by `initPermutation` give one that is no permutation.
- `MaxQueued` never limits what `tcp` can do with 4 requests of 2 messages.
- Handles, addresses of connections and pools, and all addresses of
  `MySQLResults` are interchangeable, so symmetry is sound for the invariants;
  schemas and hosts are not permuted. The runs with liveness use no symmetry.
- Where `CHECK_DEADLOCK FALSE` is set the system really may stop: the bound on
  requests is reached, the server has exited while a call waits (nothing times
  out on pipes), or the stream is closed.

Fairness. `MySQLDriver`: weak fairness of the steps of a call that has begun
(the scheduler runs the thread, and the peer answers or closes: `recv()` on TCP
gives up after ten minutes; pipes and unix sockets have no time-out, which is
why `CallReturns` of `MySQLOSPConnection` excludes a server that has gone).
Nothing makes the application call. `OSPTCPConnection`: weak fairness of the
steps of `sendMessage`, for the same time-out. `MySQLOSPConnection`: weak fairness
of receiving a message that is there. `OSPFileInputStream`: weak fairness of
the copying steps, and strong fairness of a read that finds data, since a
signal may interrupt any one `select()` but not every one for ever.
`TpccTransactions`: weak fairness of the statements of each terminal (the thread
runs and the database executes a statement that waits for no lock; there is no
fairness among those that wait, which three transactions do not need, and none of
`Fail`). `TpccDriver`: weak fairness of each thread, as the operating system runs it
and the database answers; none of the main thread.

## 4. Where code and comments disagree

Three are runs that must find a violation.

- `select_loses_info`: `mysql_select_db` erases the handle's connection info
  with the old connection and stores none for the new one, so that a second
  `mysql_select_db` is refused, though the comment says the info should have
  been stored by the connect.
- `tcp_stale_descriptor`: `readResponse` closes the socket and resets its
  *parameter* `hSocket`; the member keeps a number that may by now be another
  connection's.
- `tpcc_shard_load`: `JdbcStatementLoader.close` uses a statement that only a batch
  creates. `loadCustomer` creates and closes its loaders for the warehouses of other
  shards too, without a row, and ends the load with a NullPointerException; the
  README of the benchmark says that shards can be loaded (`README.txt:31`).

Seen in the models' behaviours and not stated as properties:

- `mysql_close` of a handle that never connected returns before it deletes the
  structure that `mysql_init(NULL)` allocated (`CloseUnconnected`, reached in
  `driver_calls`, where one handle is of that kind; `MySQLDriver.cpp:1245`, comment at 1299).
- A connect request that fails, and a disconnect request that fails, lose the network
  connection, still open: the first catch block of `do_osp_connect` drops its only
  pointer (`HandshakeFails`, `DisconnectFails`; `MySQLDriver.cpp:566`).
  `LosesOnlyOnFailure` allows these two and no other.
- Pools are keyed by schema, so that two hosts with the same schema mix
  (`Borrow`; `MySQLDriver.cpp:499`).
- `SET NAMES` leaves `currentRes` as it was, perhaps uninitialised (`SetNames`;
  `MySQLOSPConnection.cpp:209`).
- A message of length 0 is "perfectly OK" for `waitForResponse`, and its NULL is
  dereferenced by `sendMessage` (`EmptyMessage`; `OSPNamedPipeConnection.cpp:274`,
  392).
- At the end of a stream `readBytes` asks again and again
  (`OSPFileInputStream.cpp:138`; no step leads out of "loop" and "fill" then),
  and a `read()` that returns -1 is added to the count (`ReadFails`).
- A TCP object whose `socket()` or `connect()` failed once never tries again
  (`NoSocket`, `NewSocket`; `OSPTCPConnection.cpp:106`, 156).
- After a query whose answer could not be decoded, the next query on the
  connection may read a left-over message, end its loop and return 0 without
  having read its own answer (`Ends`, `finishQuery`; `MySQLOSPConnection.cpp:233`). It
  stores no wrong result (`StoresOwnResult`).
- For a portion larger than the buffer that starts with buffered bytes,
  `fill_buffer` reads too little by as many bytes (`ReadSome`;
  `OSPFileInputStream.cpp:187`).
- `mysql_real_connect` and `mysql_select_db` leave the results of the replaced
  connection in `mysqlResToConnMap`, which then names the deleted object; only
  `mysql_close` erases them (`Replace`; `MySQLDriver.cpp:633`, comment at 632).
- The total counts lose increments (`WriteTotal`; `Driver.java:278`), and it is those
  that the percentages and TpmC are computed from; the per-thread counts are exact.
  A count of retries may be -1 when counting begins between the last retry of a
  call and giving it up (`GiveUp`; `Driver.java:300`).
- Response times are in milliseconds and the histogram takes seconds, so that all
  above 19 ms are in its last row (`histIndex`; `RtHist.java:32`).
- When a connection fails, the main thread ends with an exception and the threads
  started before it go on for ever (`ConnectFails`; `TpccThread.java:147`).
- Two Deliveries of one warehouse can deliver and credit the same order twice: the
  oldest order is read without a lock and the count of the DELETE is ignored
  (`FindOldest`, `DeleteNewOrder`; `Delivery.java:44`).
- A commit that fails is logged, and the transaction counts as a success
  (`CommitFails`; `TpccStatements.java:118`).
- Order Status by name shows the midpoint customer with the last order of another,
  the one with the random c_id of the call (`FindOrder`; `OrderStat.java:141`). Stock
  Level sets the arguments of statement 33 and executes 32 again (`ReadLevel`;
  `Slev.java:66`).
- The numbers of customers that `initPermutation` gives to orders are no permutation
  (`initPermutation`; `Util.java:213`).
- `Load` gives a warehouse w_ytd 3,000,000 and its ten districts 30,000 each, where
  the benchmark wants the sum; `YtdAgrees` is about what came in since.
- The batch of a warehouse is not executed by `commit`, so stock and districts are
  committed before it (`Commit`; `Load.java:179`). A failed load exits with 0
  (`Ends`; `TpccLoad.java:294`). On the command line the loader lists `-w` and does not
  know it, hence always refuses (`TpccLoad.java:82`, 107).

## 5. What is proved

By TLAPS, the safety properties of the eight state machines, for all
values of their constants: finite or infinite sets of handles, addresses, hosts,
schemas, connections, messages, terminals and calls, every size of pools and
buffers, every limit of request IDs. The assumptions are those of the modules
(`DriverAssumption`, `PoolSizeAssumption`, `StreamAssumption`, `TCPAssumption`,
`ResultsAssumption`, `TpccAssumption`, `NilAssumption`, ...): Nil, NULL and the
blank name are no objects, sizes are positive, buffer and stream are shorter than
2^32. Three theorems have a hypothesis more, named with them below. Every inductive
invariant was first checked by TLC, on the instance of the run.

For `MySQLDriver`:

- `TypeCorrect`: `Spec => []TypeOK`. `TypeOK` alone is not inductive: for
  example `FindPool` looks up `ospConnMap[call[h].schema]`, which is a pool or
  Nil only for a schema that is not blank. The inductive invariant `TypeInv`
  adds `CallsReady`: what a call has checked before it got where it is. One
  lemma per group of helpers says what type they assign; `TypeCall`/`TypeStep`
  and `ReadyCall`/`ReadyStep` go through the handlers.
- `OwnershipIsExclusive`: `Spec => []ExclusiveOwnership`. It is inductive
  relative to `TypeInv`. Five lemmas state what dropping, deleting, allocating,
  borrowing and returning a connection and creating a pool do to the four
  parts of it; `OwnershipNext` finds the lemma for each handler.
- `PoolPerSchema`: `Spec => []OnePoolPerSchema`. Its inductive invariant `PoolInv`
  says who may rely on what while pools come into being: a handle between
  `find` and the end of `create` holds the mutex (hence only one can be there),
  the schema of the pool it is about to create still has none (so that the
  assignment to `ospConnMap` cannot take a pool from anyone), a handle has no
  pool before the look-up, between connections or after `mysql_close`, and
  different schemas have different pools. Without the mutex (the mutant
  `LockPoolsFreely`) two handles meet in `create`.
- `CallsReportOutcome`: `Spec => []CallOutcome`. What holds between calls needs
  what holds inside them: `HandlesOk` says at which control points a handle has
  empty hands (`HandsFree`) or a connection (`HandsFull`), that a call that
  connects, and a close, has taken the handle out of the maps before
  (`Unmapped`), and that a connection in use has a pool to go back to (`HasPool`).
- `LosesOnlyByFailure`: `Spec => LosesOnlyOnFailure`. The core is `NextMoves`: a
  step moves at most one network connection, and the one handle that moves it
  opens, takes, gives back, deletes or abandons it (`Moves`); every other
  connection is `Undisturbed`. Creating a pool is the delicate step: it
  overwrites a slot array, which loses nothing only because a pool that is in no
  entry of `ospConnMap` is empty (`PoolsMapped`, the last part of `LedgerInv`).
- `DriverImplementsLedger`: `Spec => OwnershipSpec`. `PlacesAre` evaluates the
  refinement mapping `placeOf` without its CHOOSEs (unique, as the pools are
  apart and ownership is exclusive); `UndisturbedStays` then says that the place
  of a connection that does not move stays, and `NextRefines` matches each of the
  five moves with one action of the ledger. Opening and taking also need that the
  handle uses nothing else (`EmptyHandsAreFree`).

For `MySQLResults`:

- `TypeCorrect`, `ResultsFindTheirConnection`, `ResultsAreTheirOwners` and
  `CloseErases`: `Spec => []P` for P each of `TypeOK`, `FindsItsConnection`,
  `FreesOnlyItsOwn` and `CloseLeavesNoEntry`. All follow from one inductive
  invariant, `IInv` (TLC finds no violation of it on the instance of the run
  either). None of the four is inductive, because each is about what the application
  holds, and the harm is done before and after that: in OSP mode the query makes
  a result set that is the application's only once it is stored, and
  `mysql_free_result` touches maps and heap in four steps after the application
  has let go. So `Kept` takes in the result sets that a handle `Awaits`, and
  `HoldsInv` and `WrapperInv` say that what a thread is still freeing is neither
  kept nor freed by another thread, so that a new result set cannot get the address
  before the old entry is gone. `HeldInv` needs that the objects of two handles
  are distinct (`ConnsApart`): otherwise closing one would erase the entries
  of the other. `EntryInv` says who may still have an entry. One lemma per
  action; each first says how it changes `Awaits` and `Kept`, then has one
  step for each part the action can disturb.

For `OSPTCPConnection`:

- `TypeCorrect` and `DescriptorsAreKept`: `Spec => []P` for `TypeOK` and
  `NoDescriptorLeak`, for any number of objects that share the descriptor table.
  An object may use a number that is now another's; so what is kept is not that the
  number an object remembers is its own, but that an open socket is at the number
  its *opener* remembers. Needed besides: a request that is sent has a number
  (`Numbered`).
- `AnswersAreOwn`: `Sole => (Spec => []OwnAnswer)`, where `Sole` says that there is
  one object, as in the run. With two the stale number of section 4 lets one read the
  other's answers, which are numbered alike. The invariant is about the queue of
  what can still be received: it is in the order of the requests, nothing in it is
  newer than the request, and it continues what the caller has been given or
  belongs to an earlier answer. A new request makes all that is queued an earlier
  one's; a time-out makes `stop` throw it away.

For `OSPFileInputStream`:

- `TypeCorrect` and `BytesInBytesOut`: `Spec => []P` for `TypeOK` and
  `DeliversStream`. The invariant has one part per control point: before a turn of
  the loop of `readBytes`, in `fill_buffer` to the caller's memory, and in
  `fill_buffer` to the buffer, each saying which bytes are where and that the
  counters add up. The arithmetic is modulo 2^32: `TypeOK` holds also after
  `ReadFails`, which adds -1 to unsigned counters, and after that claims no more.

For `MySQLOSPConnection` (with `OSPStreamConnection`):

- `TypeCorrect`, `RequestsInStep` and `ResultsAreComplete`: `Spec => []P` for
  `TypeOK`, `InStep` and `Complete`; the last is the part of `StoresOwnResult` that
  holds for every server and however often request IDs repeat. `Framing` says that
  behind a meta response on the streams are the rows it announces, and that a result
  set under construction lacks just the rows that come next; `Stepping`, that with a
  server that keeps to the protocol only the answer to the request is on the streams.
- `ResultsAreOwn`: `Spec => []StoresOwnResult` if the server sends neither malformed
  nor empty messages, or if request IDs do not start again (`MaxRequests <
  MaxRequestID`), for every setting. Without it the property is false: with IDs
  1..2 and a row left on the streams behind a malformed one, TLC finds a query that
  takes the rest of the answer to the request before the last. `Owning` says that a message with the ID
  that is waited for is of the request that is waited for.

For `TpccTransactions`:

- `TypeCorrect`: `Spec => []TypeOK`, by `TypeInv`: a terminal's statement fits its
  call and its locals (`Doing`).
- `NobodyWaitsInACircle`: `Spec => []NoWaitCycle` if the terminals are finitely many
  (an infinite circle need not have a highest rank). `Rank` is the order in which
  all five transactions take their locks; `LockInv` says that the locks of a
  terminal rank below those it requests next (`InOrder`), and that no two conflict
  (`Exclusive`). In New Order the next stock may be one that the terminal has
  locked already, hence only "not above". That a sorted arrangement of any lines
  exists (`sortedLines` is a CHOOSE) is proved first (`SortingExists`): otherwise the
  smallest number of lines that cannot be sorted could be, by sorting all but the
  largest line.
- `OrdersAreComplete` and `StatusIsConsistent`: `Spec => []P`
  for `OrdersComplete` and `OrderStatusConsistent`. `OrdersInv` says of three sets of
  rows what a transaction may rely on: the committed rows are complete
  (`RowsOk(db)`); so is every snapshot, which is also not ahead of them (`SnapOk`);
  and what a terminal has written (`WorkOk`) completes them when it is committed.
  The last must survive what *other* terminals commit meanwhile. For New Order
  it does since the row of the district stays locked from the number to the commit,
  so that `loc[t].o` is still `d_next_o_id`. Delivery has no such lock when it looks
  for the oldest order; there it is that an order, once it exists, keeps its lines
  and never becomes new again (`DbGrows`), so that a second Delivery of the same
  order writes what is there. `Budget` bounds order numbers by the calls made,
  hence `OrderNumbers` has them all.
- `OrdersAreQueued`: `Spec => OrderQueueSpec`. The mapping takes the committed new
  orders of a district to their numbers in ascending order (`ascending`, defined
  by the place of each number, so that one can reason about it). That a New Order
  appends follows from `OrdersInv`: its number is `d_next_o_id` and so above all
  others. That a Delivery takes the head of the queue of each district needs
  `QueueInv`. `Sees`: what is still new was new in every snapshot, or is too new
  for it, hence the oldest order of a snapshot that is still new is the oldest.
  `TakesOldest`: from the DELETE to the commit the row is locked, so that nobody
  else delivers the order, and new orders only come behind it. If another
  Delivery has taken the order before the DELETE, the commit leaves the queue of
  that district alone (`CommitDelivers` takes the districts of the rows deleted).
- `PaymentsAgree`: `Spec => []YtdAgrees`. `MoneyInv` has for each terminal what its
  commit would add: w_ytd and d_ytd as it has written them are the *committed* sums and
  its amount (`WarehouseWork`, `YtdWork`; a New Order writes the same row of the
  district, with d_ytd as it is), and a row of history is written last (`HistoryWork`).
  That the committed sums are still those when t commits is the exclusive lock
  (`OtherMoney`); that history has a row more, and overwrites none, is that calls have
  numbers of their own (`CallNumbers`). A retry starts with nothing written.
- `StocksAgree`: `Spec => []StockMatchesOrders`. `StockInv` says of each stock that the
  committed one agrees with the committed lines (`StockRow`), and that a stock a New Order
  has written is locked and is the *committed* one less what its own lines took so far
  (`StockWork`): in the middle of the loop the lines and the stocks of a terminal agree
  with each other, though its order is not complete. The stock is written before its
  line and both in one step of the model, as in one turn of the loop. Besides, a Delivery
  writes the lines again; that they still name the same item, supplier and quantity is
  `GoodsInv`, for the writes and the snapshots of every terminal.
- `CreditsAgree`: `Spec => []BalancesAgree`. `DeliveryInv` follows a Delivery through its
  districts: it delivers one order in each (`Route`), one it has read in its snapshot
  (`Reads`), and when it is about to credit somebody, it is the customer of the order it
  has just delivered (`Debt`). `BalanceInv` says that a customer's row, as a terminal has
  written it, is the committed row with its payment, or with the credit for the order it
  has delivered in that district (`CustomerWork`), and that the row of history names this
  customer (`HistoryCust`). At the commit the two sums of `BalanceRow` grow by that
  much. If another Delivery has committed the same order before, the set of
  delivered orders does not grow but `c_delivery_cnt` does, and stays ahead for good:
  this is why the property says `>=` and speaks of the balance only where they are equal.

For `TpccDriver`, for any number of threads, any weights, random numbers and response
times and every limit of retries:

- `AttemptsAreCounted`: `Spec => []AttemptsCounted`. `CountsOk` says of a thread and a
  kind also what holds in between: what is counted plus what is still to be counted
  (`pending`) are the attempts; giving up makes a failure of a retry, which is one
  retry less and one failure more. A thread that is about to give up has a count of
  retries of at least 0: its last retry was counted, or counting was off and the count
  is 0. In the second case counting may begin before `GiveUp`, and the count becomes
  -1. `InTurn` (threads are started in turn) is what makes `StartThread` start a thread
  that has not been started yet.
- `DeckDealsTheMix`: `Spec => []DeckMix`. A swap is a bijection of places
  (`SwapKeepsCards`), hence a shuffled deck has as many cards of each kind as its
  weight says (`SortedDeck`, `ShuffleKeepsCards`, `DeckIs`). `DeckInv` says that for
  some r each kind has been drawn r times its weight and once for each of its cards
  that have been dealt in this round.
- `TotalsAreNotAhead`: `Spec => []TotalNeverAhead`. `TotalsInv` adds what a thread has
  *read* of a total and not yet written back: that is not ahead either, however old
  it is, since for a counter that only grows the own counts and the increments in
  flight (`counts`) never become less. For retries they do, so the property leaves
  them out.
- `TypeCorrect`: `Spec => []TypeOK`, from these.

For `TpccLoad`, for any numbers of warehouses, districts, customers, orders, items and
lines, any permutation of the customers, any size of batches, any shards, and any number
of runs, exceptions and crashes:

- `CompletedHasAll`, `NothingTwice`, `ParentsAreStored` and `TypesAreRight`: `Spec =>
  []P` for `CompletedIsComplete`, `NoDuplicates`, `ParentsStored` and `TypeOK`. They rest
  on what the sequence of calls in `Plans` promises, for every size (`PlanBlock`): it
  loads the rows `Expected` and each once (`Distinct`); behind each row its loader is
  closed before it is made again (`Settles`); and what a row refers to is loaded before
  a close that comes before any commit behind the row (`Ordered`). `Block` says this of
  a part of the plan, with the loaders it leaves open and the rows it relies on, and
  is proved for single calls, for two parts in turn (`Join`) and for loops (`Loop`),
  then for each method of `Load`. For the order of customers it takes that no customer
  number is beyond the customers of the district (`Customers`), which is all that the
  permutation matters for. `Opens` does the same for the number of open loaders.
- The invariant (`IInv`) says it of the calls that are *left*: each row is stored, sent, in
  a buffer or in a call that is left (`Rest`), and is so once (`Counts`); a buffer that has
  rows is closed before its loader is made again, and what is sent gets committed
  (`Closing`); and the rows that a row refers to are stored, or will be no later than it
  (`Families`, by `Before`). A call moves rows along this way (`Moves`), and what holds of
  the calls holds of their tail (`SealTail`, `BeforeStep`). A run begins with rows of the
  runs before it; what it needs of them is `Kept`. In FILE mode it is that there are
  none, because rows without keys would be stored again (`Found`).

`TpccDriver`, `YtdAgrees`, `StockMatchesOrders` and `BalancesAgree` need what recursive
functions compute: sums, and a deck after i swaps. The induction theorems of the library take an operator, but induction on
a *set* of numbers needs none: `AllNumbers` proves it from the well-foundedness of `<`
on the naturals, and `SumsExist`, `SumsAreUnique` and `ShuffleKeepsCards` use it. The
sums of the other three (`SumOf`) are folds of the community modules over sets of rows,
in an order that a CHOOSE decides: `SumsWithout` proves that the order does not matter,
`SumOfSums` that the fold is this sum, and `OneMoreAmount` and `OneMoreCredit` what one
more row adds.

Only model-checked:

- The liveness properties: `MutexReleased`, `CallReturns`, `SendReturns`,
  `DeliversInTime`, `TransactionsEnd` and `WorkersStop`. Fairness and ENABLED are beyond
  the proof system's reach. Every invariant and every action property of a passing run,
  and each refinement, is stated by a theorem.
- The properties of the three runs that expect a violation, which are false.

## 6. What is abstracted or left out

- Contents of messages, rows, names and passwords; logging; the analyser's log.
- Data races on `std::map` (`mysqlAllocMap` is used without a lock): such a call
  is taken as atomic.
- Requests are written whole on pipes and sockets; a partial write on a
  non-blocking pipe throws in the code and is part of the plan.
- Creation of pipes (`makeFifos`, `openFifos`) and of unix sockets.
- Configuration is loaded; which hosts are OSP hosts is a constant.
- Prepared statements, which the driver does not implement in OSP mode.
- TPC-C: gap locks and deadlock detection of the database; a statement that waits too
  long is an exception (`Fail`). Response times, results and reports beyond the
  counters. `particle_flg = 1` and `JdbcPreparedStatementLoader`, which nothing
  selects; `DETECT_LOCK_WAIT_TIMEOUTS`, which is false; `num_node`, which is 0.
- Whatever `PROJECT.json` lists as not modelled, with the reason.

## 7. Plan

Written, in this order: pool and driver with ledger, its proofs, stream
connection and MySQL connection object, TCP connection, input stream, results and
their proofs; the TPC-C transactions on their database, the benchmark run and the
loader; the proofs about the TCP connection, the input stream, the MySQL connection
object, the TPC-C transactions, the benchmark run and the loader.

To come:

1. `OSPByteBuffer`: variable-length integers (width 32, negative numbers), growth
   of the buffer, length-prefixed messages; as functions against a reference
   definition. `OSPFileOutputStream` with partial writes.
2. The cursor functions of `MySQLOSPResultSet` (`mysql_fetch_row`,
   `mysql_data_seek`, ...) and the error state of a handle through queries.
3. `OSPConfig`: lazy loading by several threads, URL parsing; `MyOSPConfig`.
4. Creation of pipes and the named pipe handshake in `OSPNamedPipeConnection`.

Of the library these cover the least yet: `MySQLNativeConnection`, `MySQLClient`,
`OSPByteBuffer`, `Util` and `Logger`, and the delegating functions of
`MySQLDriver.cpp` and `MySQLOSPConnection.cpp`.
