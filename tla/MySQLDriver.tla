---------------------------- MODULE MySQLDriver ----------------------------
(***************************************************************************)
(* The connection life cycle of the MySQL facade driver: mysql_init,       *)
(* mysql_real_connect, mysql_select_db, do_osp_connect and mysql_close of  *)
(* MySQLDriver.cpp, on the maps of MySQLConnMap, the per-schema connection *)
(* pools and the network connections (OSPConnection objects) that move     *)
(* between the pools and the handles.                                      *)
(*                                                                         *)
(* Each MYSQL handle belongs to one application thread, as in              *)
(* multithreadtest.cpp; the threads run concurrently.  What a thread does  *)
(* between two calls of I/O or two uses of shared state is one step.       *)
(***************************************************************************)
EXTENDS OSPConnectionPool

CONSTANTS
    Handles,      \* MYSQL structures, each used by a thread of its own
    HeapHandles,  \* those that mysql_init(NULL) allocates
    OspHosts,     \* virtual hosts listed in the configuration (OSP mode)
    BadHosts,     \* the OSP hosts whose URL is missing or malformed
    NativeHosts,  \* every other host name (delegate mode)
    Schemas,      \* database names
    Blank,        \* the empty database name
    UrlSchema,    \* the schema part of the URL of an OSP host
    Nets,         \* addresses of OSPConnection objects (bounds the heap)
    Pools         \* addresses of OSPConnectionPool objects

ASSUME DriverAssumption ==
    /\ HeapHandles \subseteq Handles
    /\ BadHosts \subseteq OspHosts
    /\ OspHosts \cap NativeHosts = {}
    /\ UrlSchema \in [OspHosts -> Schemas]
    /\ Nil \notin Handles \cup Nets \cup Pools \cup Schemas \cup OspHosts
    /\ Blank \notin Schemas

VARIABLES
    \* shared by all threads
    connpool_mutex,      \* MySQLDriver_connpool_mutex: its holder or Nil
    ospConnMap,          \* schema -> its pool, or Nil
    pool,                \* the slot array of every pool
    netHost,             \* the virtual host an OSPConnection was opened to;
                         \* Nil when there is no object at that address
    \* entries of the maps keyed by MYSQL*
    mysqlToConnMap,      \* "none", or the class of the connection object
    mysqlToConnInfoMap,  \* Nil, or [host, schema]
    mysqlToErrorMap,     \* 0 when there is no MySQLErrorState
    \* local to the thread of a handle
    mysql,               \* the MYSQL structure itself
    ospConn,             \* ospNetworkConnection of do_osp_connect, then the
                         \* member ospConn of the MySQLOSPConnection, or Nil
    ospConnPool,         \* pool of do_osp_connect, then the member
    call,                \* the last call: its name, host, schema, result
    pc                   \* where that call is

shared  == <<connpool_mutex, ospConnMap, pool, netHost>>
maps    == <<mysqlToConnMap, mysqlToConnInfoMap, mysqlToErrorMap>>
thread  == <<mysql, ospConn, ospConnPool, call, pc>>
vars    == <<shared, maps, thread>>

Hosts      == OspHosts \cup NativeHosts
CR_UNKNOWN == 2000
CONNECT_FAILED == 9001
Errnos == {0, CR_UNKNOWN, CONNECT_FAILED}

ConnClasses  == {"none", "osp", "native"}
MysqlStates  == {"none", "stack", "heap", "lost"}
Results      == {"none", "ok", "fail"}

Infos == [host : Hosts, schema : Schemas \cup {Blank}]
Calls == [name : {"none", "init", "connect", "select", "close"},
          host : Hosts \cup {Nil},
          schema : Schemas \cup {Blank},
          ret : Results]
CallOf(name, v, db, ret) == [name |-> name, host |-> v, schema |-> db, ret |-> ret]

\* Locals of do_osp_connect that are live at these control points.
Dialling == {"borrow", "ping", "new", "handshake"}
Control  == Dialling \cup {"idle", "setup", "native", "close", "return",
                           "erase", "lookup", "find", "create"}

\* The maps only hold what the handlers store; in particular a database
\* name is never NULL.
SharedTypeOK ==
    /\ connpool_mutex \in Handles \cup {Nil}
    /\ ospConnMap \in [Schemas -> Pools \cup {Nil}]
    /\ pool \in [Pools -> [Slots -> Nets \cup {Nil}]]
    /\ netHost \in [Nets -> OspHosts \cup {Nil}]
MapsTypeOK ==
    /\ mysqlToConnMap \in [Handles -> ConnClasses]
    /\ mysqlToConnInfoMap \in [Handles -> Infos \cup {Nil}]
    /\ mysqlToErrorMap \in [Handles -> Errnos]
ThreadTypeOK ==
    /\ mysql \in [Handles -> MysqlStates]
    /\ ospConn \in [Handles -> Nets \cup {Nil}]
    /\ ospConnPool \in [Handles -> Pools \cup {Nil}]
    /\ call \in [Handles -> Calls]
    /\ pc \in [Handles -> Control]
TypeOK == SharedTypeOK /\ MapsTypeOK /\ ThreadTypeOK

Init ==
    /\ connpool_mutex = Nil
    /\ ospConnMap = [s \in Schemas |-> Nil]
    /\ pool = [p \in Pools |-> EmptyPool]
    /\ netHost = [n \in Nets |-> Nil]
    /\ mysqlToConnMap = [h \in Handles |-> "none"]
    /\ mysqlToConnInfoMap = [h \in Handles |-> Nil]
    /\ mysqlToErrorMap = [h \in Handles |-> 0]
    /\ mysql = [h \in Handles |-> "none"]
    /\ ospConn = [h \in Handles |-> Nil]
    /\ ospConnPool = [h \in Handles |-> Nil]
    /\ call = [h \in Handles |-> CallOf("none", Nil, Blank, "none")]
    /\ pc = [h \in Handles |-> "idle"]

-----------------------------------------------------------------------------
(* Helpers of the handlers.                                                *)

goto(h, label) == pc' = [pc EXCEPT ![h] = label]

\* The result of the call of h; most calls end with it.
result(h, ret) ==
    call' = [call EXCEPT ![h] = CallOf(call[h].name, call[h].host,
                                       call[h].schema, ret)]
returns(h, ret) == result(h, ret) /\ goto(h, "idle")

setErrorState(h, errno) ==
    mysqlToErrorMap' = [mysqlToErrorMap EXCEPT ![h] = errno]

setConnectInfo(h, v, db) ==
    mysqlToConnInfoMap' =
        [mysqlToConnInfoMap EXCEPT ![h] = [host |-> v, schema |-> db]]

\* MySQLConnMap::erase(MYSQL*) drops the connection, the error state and
\* the connection info of the handle.
eraseHandle(h) ==
    /\ mysqlToConnMap' = [mysqlToConnMap EXCEPT ![h] = "none"]
    /\ mysqlToErrorMap' = [mysqlToErrorMap EXCEPT ![h] = 0]
    /\ mysqlToConnInfoMap' = [mysqlToConnInfoMap EXCEPT ![h] = Nil]

\* Mutant of connectFails: no error state is set.
connectFailsSilently(h) ==
    /\ UNCHANGED mysqlToErrorMap
    /\ ospConnPool' = [ospConnPool EXCEPT ![h] = Nil]
    /\ returns(h, "fail")

\* do_osp_connect returns -1; mysql_real_connect then stores its own error.
connectFails(h) ==
    /\ setErrorState(h, IF call[h].name = "connect"
                        THEN CONNECT_FAILED ELSE CR_UNKNOWN)
    /\ ospConnPool' = [ospConnPool EXCEPT ![h] = Nil]
    /\ returns(h, "fail")

isOspHost(v) == v \in OspHosts

Ready(h) == pc[h] = "idle" /\ mysql[h] \in {"stack", "heap"}

-----------------------------------------------------------------------------
(* mysql_init                                                              *)

mysql_init(h) ==
    /\ pc[h] = "idle" /\ mysql[h] = "none"
    /\ mysql' = [mysql EXCEPT ![h] = IF h \in HeapHandles
                                     THEN "heap" ELSE "stack"]
    /\ call' = [call EXCEPT ![h] = CallOf("init", Nil, Blank, "none")]
    /\ UNCHANGED <<shared, maps, ospConn, ospConnPool, pc>>

(* mysql_real_connect                                                      *)

\* An "osp:" database name, or the native client library does not load.
RealConnectRefused(h) ==
    /\ Ready(h)
    /\ setErrorState(h, CR_UNKNOWN)
    /\ result(h, "fail")
    /\ UNCHANGED <<shared, mysqlToConnMap, mysqlToConnInfoMap,
                   mysql, ospConn, ospConnPool, pc>>

mysql_real_connect(h, v, db) ==
    /\ Ready(h)
    /\ isOspHost(v) \/ db = Blank    \* only the native library uses it there
    /\ call' = [call EXCEPT ![h] = CallOf("connect", v, db, "none")]
    /\ goto(h, IF mysqlToConnMap[h] = "none" THEN "setup" ELSE "close")
    /\ UNCHANGED <<shared, maps, mysql, ospConn, ospConnPool>>

\* A database argument takes precedence over the schema of the URL.
databaseName(v, db) == IF isOspHost(v) /\ db = Blank THEN UrlSchema[v] ELSE db

\* The new connection info is stored, then the mode is chosen.
StoreInfo(h) ==
    LET v  == call[h].host
        db == databaseName(v, call[h].schema)
    IN  /\ pc[h] = "setup"
        /\ \/ /\ v \in BadHosts
              /\ setConnectInfo(h, v, Blank)
              /\ setErrorState(h, CR_UNKNOWN)
              /\ returns(h, "fail")
           \/ /\ v \in OspHosts \ BadHosts
              /\ setConnectInfo(h, v, db)
              /\ call' = [call EXCEPT ![h] = CallOf("connect", v, db, "none")]
              /\ goto(h, "lookup")
              /\ UNCHANGED mysqlToErrorMap
           \/ /\ v \in NativeHosts
              /\ setConnectInfo(h, v, Blank)
              /\ goto(h, "native")
              /\ UNCHANGED <<mysqlToErrorMap, call>>
        /\ UNCHANGED <<shared, mysqlToConnMap, mysql, ospConn, ospConnPool>>

\* Delegate mode maps the connection object before it connects, and leaves
\* it mapped when the native library refuses.
NativeConnect(h, ok) ==
    /\ pc[h] = "native"
    /\ mysqlToConnMap' = [mysqlToConnMap EXCEPT ![h] = "native"]
    /\ setErrorState(h, IF ok THEN 0 ELSE CR_UNKNOWN)
    /\ returns(h, IF ok THEN "ok" ELSE "fail")
    /\ UNCHANGED <<shared, mysqlToConnInfoMap, mysql, ospConn, ospConnPool>>

(* do_osp_connect                                                          *)

\* A blank database name is refused before any pool is looked up.
RefuseBlank(h) ==
    /\ pc[h] = "lookup" /\ call[h].schema = Blank
    /\ connectFails(h)
    /\ UNCHANGED <<shared, mysqlToConnMap, mysqlToConnInfoMap, mysql, ospConn>>

\* Mutant of LockPools: the block is entered without the mutex.
LockPoolsFreely(h) ==
    /\ pc[h] = "lookup" /\ call[h].schema # Blank
    /\ connpool_mutex' = h
    /\ goto(h, "find")
    /\ UNCHANGED <<ospConnMap, pool, netHost, maps, mysql, ospConn,
                   ospConnPool, call>>

LockPools(h) ==
    /\ pc[h] = "lookup" /\ call[h].schema # Blank
    /\ connpool_mutex = Nil
    /\ connpool_mutex' = h
    /\ goto(h, "find")
    /\ UNCHANGED <<ospConnMap, pool, netHost, maps, mysql, ospConn,
                   ospConnPool, call>>

\* Mutant of FindPool: leaves the block without unlocking.
FindPoolKeepsMutex(h) ==
    LET p == ospConnMap[call[h].schema]
    IN  /\ pc[h] = "find"
        /\ \/ /\ p # Nil
              /\ ospConnPool' = [ospConnPool EXCEPT ![h] = p]
              /\ goto(h, "borrow")
           \/ /\ p = Nil
              /\ goto(h, "create")
              /\ UNCHANGED ospConnPool
        /\ UNCHANGED <<shared, maps, mysql, ospConn, call>>

\* Under the mutex: the pool of the schema, which is created when missing.
FindPool(h) ==
    LET p == ospConnMap[call[h].schema]
    IN  /\ pc[h] = "find"
        /\ \/ /\ p # Nil
              /\ connpool_mutex' = Nil
              /\ ospConnPool' = [ospConnPool EXCEPT ![h] = p]
              /\ goto(h, "borrow")
           \/ /\ p = Nil
              /\ goto(h, "create")
              /\ UNCHANGED <<connpool_mutex, ospConnPool>>
        /\ UNCHANGED <<ospConnMap, pool, netHost, maps, mysql, ospConn, call>>

UsedPools == {ospConnMap[s] : s \in Schemas} \cup {ospConnPool[k] : k \in Handles}

CreatePool(h) ==
    /\ pc[h] = "create"
    /\ \E p \in Pools \ UsedPools :
          /\ pool' = [pool EXCEPT ![p] = EmptyPool]
          /\ ospConnMap' = [ospConnMap EXCEPT ![call[h].schema] = p]
          /\ ospConnPool' = [ospConnPool EXCEPT ![h] = p]
    /\ connpool_mutex' = Nil
    /\ goto(h, "borrow")
    /\ UNCHANGED <<netHost, maps, mysql, ospConn, call>>

\* Mutant of Borrow: one pool for all schemas.
BorrowFromAnyPool(h) ==
    /\ pc[h] = "borrow"
    /\ \/ \E p \in Pools : \E i \in borrowSlot(pool[p]) :
             /\ pool' = [pool EXCEPT ![p] = borrow(pool[p], i)]
             /\ ospConn' = [ospConn EXCEPT ![h] = pool[p][i]]
             /\ goto(h, "ping")
       \/ /\ \A p \in Pools : borrowSlot(pool[p]) = {}
          /\ goto(h, "new")
          /\ UNCHANGED <<pool, ospConn>>
    /\ UNCHANGED <<connpool_mutex, ospConnMap, netHost, maps, mysql,
                   ospConnPool, call>>

Borrow(h) ==
    LET p == ospConnPool[h]
    IN  /\ pc[h] = "borrow"
        /\ \/ \E i \in borrowSlot(pool[p]) :
                 /\ pool' = [pool EXCEPT ![p] = borrow(pool[p], i)]
                 /\ ospConn' = [ospConn EXCEPT ![h] = pool[p][i]]
                 /\ goto(h, "ping")
           \/ /\ borrowSlot(pool[p]) = {}
              /\ goto(h, "new")
              /\ UNCHANGED <<pool, ospConn>>
        /\ UNCHANGED <<connpool_mutex, ospConnMap, netHost, maps, mysql,
                       ospConnPool, call>>

\* A borrowed connection is validated; one whose ping throws is deleted.
PingOk(h) ==
    /\ pc[h] = "ping"
    /\ goto(h, "handshake")
    /\ UNCHANGED <<shared, maps, mysql, ospConn, ospConnPool, call>>

PingFails(h) ==
    /\ pc[h] = "ping"
    /\ netHost' = [netHost EXCEPT ![ospConn[h]] = Nil]
    /\ ospConn' = [ospConn EXCEPT ![h] = Nil]
    /\ goto(h, "new")
    /\ UNCHANGED <<connpool_mutex, ospConnMap, pool, maps, mysql,
                   ospConnPool, call>>

\* A new TCP, pipe or socket connection to the host of this call.
NewConnection(h) ==
    /\ pc[h] = "new"
    /\ \E n \in Nets :
          /\ netHost[n] = Nil
          /\ netHost' = [netHost EXCEPT ![n] = call[h].host]
          /\ ospConn' = [ospConn EXCEPT ![h] = n]
    /\ goto(h, "handshake")
    /\ UNCHANGED <<connpool_mutex, ospConnMap, pool, maps, mysql,
                   ospConnPool, call>>

NewConnectionFails(h) ==
    /\ pc[h] = "new"
    /\ connectFails(h)
    /\ UNCHANGED <<shared, mysqlToConnMap, mysqlToConnInfoMap, mysql, ospConn>>

\* The constructor of MySQLOSPConnection opens a session (and a statement)
\* on the server; the object then owns the network connection.
HandshakeOk(h) ==
    /\ pc[h] = "handshake"
    /\ mysqlToConnMap' = [mysqlToConnMap EXCEPT ![h] = "osp"]
    /\ setErrorState(h, 0)
    /\ returns(h, "ok")
    /\ UNCHANGED <<shared, mysqlToConnInfoMap, mysql, ospConn, ospConnPool>>

\* The constructor throws: nobody deletes the network connection.
HandshakeFails(h) ==
    /\ pc[h] = "handshake"
    /\ ospConn' = [ospConn EXCEPT ![h] = Nil]
    /\ connectFails(h)
    /\ UNCHANGED <<shared, mysqlToConnMap, mysqlToConnInfoMap, mysql>>

(* conn->mysql_close of the connection objects, and what the callers do    *)
(* next.                                                                   *)

\* MySQLOSPConnection: an answer to the disconnect request (or none at all)
\* sends the connection back to its pool ...
Disconnected(h) ==
    /\ pc[h] = "close" /\ ospConn[h] # Nil
    /\ goto(h, "return")
    /\ UNCHANGED <<shared, maps, mysql, ospConn, ospConnPool, call>>

\* ... an error answer or an exception is logged and the connection lost.
DisconnectFails(h) ==
    /\ pc[h] = "close" /\ ospConn[h] # Nil
    /\ ospConn' = [ospConn EXCEPT ![h] = Nil]
    /\ goto(h, "erase")
    /\ UNCHANGED <<shared, maps, mysql, ospConnPool, call>>

\* MySQLNativeConnection delegates; there is no pool.
NativeClose(h) ==
    /\ pc[h] = "close" /\ ospConn[h] = Nil
    /\ goto(h, "erase")
    /\ UNCHANGED <<shared, maps, mysql, ospConn, ospConnPool, call>>

\* Mutant of ReturnConnection: a full pool drops the connection.
ReturnConnectionDrops(h) ==
    LET p == ospConnPool[h]
    IN  /\ pc[h] = "return"
        /\ \/ \E i \in returnSlot(pool[p]) :
                 pool' = [pool EXCEPT ![p] = giveBack(pool[p], i, ospConn[h])]
           \/ returnSlot(pool[p]) = {} /\ UNCHANGED pool
        /\ ospConn' = [ospConn EXCEPT ![h] = Nil]
        /\ goto(h, "erase")
        /\ UNCHANGED <<connpool_mutex, ospConnMap, netHost, maps, mysql,
                       ospConnPool, call>>

ReturnConnection(h) ==
    LET p == ospConnPool[h]
    IN  /\ pc[h] = "return"
        /\ \/ /\ \E i \in returnSlot(pool[p]) :
                    pool' = [pool EXCEPT ![p] = giveBack(pool[p], i, ospConn[h])]
              /\ UNCHANGED netHost
           \/ /\ returnSlot(pool[p]) = {}
              /\ netHost' = [netHost EXCEPT ![ospConn[h]] = Nil]
              /\ UNCHANGED pool
        /\ ospConn' = [ospConn EXCEPT ![h] = Nil]
        /\ goto(h, "erase")
        /\ UNCHANGED <<connpool_mutex, ospConnMap, maps, mysql, ospConnPool, call>>

\* The caller erases the handle from the maps and deletes the connection
\* object; mysql_close did the first before, and ends by deleting the MYSQL
\* structure if mysql_init made it.
AfterClose(h) ==
    /\ pc[h] = "erase"
    /\ ospConnPool' = [ospConnPool EXCEPT ![h] = Nil]
    /\ \/ /\ call[h].name = "connect"
          /\ eraseHandle(h)
          /\ goto(h, "setup")
          /\ UNCHANGED <<mysql, call>>
       \/ /\ call[h].name = "select"
          /\ eraseHandle(h)
          /\ goto(h, "lookup")
          /\ UNCHANGED <<mysql, call>>
       \/ /\ call[h].name = "close"
          /\ mysql' = [mysql EXCEPT ![h] = "none"]
          /\ call' = [call EXCEPT ![h] = CallOf("close", Nil, Blank, "ok")]
          /\ goto(h, "idle")
          /\ UNCHANGED maps
    /\ UNCHANGED <<shared, ospConn>>

(* mysql_select_db                                                         *)

\* A NULL name, no connection info, or no connection.
SelectRefused(h, db) ==
    /\ Ready(h)
    /\ db = Nil \/ mysqlToConnInfoMap[h] = Nil \/ mysqlToConnMap[h] = "none"
    /\ setErrorState(h, CR_UNKNOWN)
    /\ result(h, "fail")
    /\ UNCHANGED <<shared, mysqlToConnMap, mysqlToConnInfoMap,
                   mysql, ospConn, ospConnPool, pc>>

\* Mutant of Selects: a NULL name is not refused.
SelectsNull(h, db) ==
    /\ Ready(h)
    /\ mysqlToConnInfoMap[h] # Nil /\ mysqlToConnMap[h] # "none"

Selects(h, db) ==
    /\ Ready(h)
    /\ db # Nil /\ mysqlToConnInfoMap[h] # Nil /\ mysqlToConnMap[h] # "none"

SelectSame(h, db) ==
    /\ Selects(h, db)
    /\ mysqlToConnInfoMap[h].schema = db
    /\ result(h, "ok")
    /\ UNCHANGED <<shared, maps, mysql, ospConn, ospConnPool, pc>>

\* The schema of the stored info changes first.  OSP mode then closes the
\* connection and dials again; delegate mode ignores the library's result,
\* so only an exception makes it fail.
mysql_select_db(h, db) ==
    LET v == mysqlToConnInfoMap[h].host
    IN  /\ Selects(h, db)
        /\ mysqlToConnInfoMap[h].schema # db
        /\ setConnectInfo(h, v, db)
        /\ \/ /\ isOspHost(v)
              /\ call' = [call EXCEPT ![h] = CallOf("select", v, db, "none")]
              /\ goto(h, "close")
              /\ UNCHANGED mysqlToErrorMap
           \/ \E ok \in BOOLEAN :
              /\ ~isOspHost(v)
              /\ setErrorState(h, IF ok THEN 0 ELSE CR_UNKNOWN)
              /\ result(h, IF ok THEN "ok" ELSE "fail")
              /\ UNCHANGED pc
        /\ UNCHANGED <<shared, mysqlToConnMap, mysql, ospConn, ospConnPool>>

(* mysql_close                                                             *)

mysql_close(h) ==
    /\ Ready(h) /\ mysqlToConnMap[h] # "none"
    /\ eraseHandle(h)
    /\ call' = [call EXCEPT ![h] = CallOf("close", call[h].host,
                                               call[h].schema, "none")]
    /\ goto(h, "close")
    /\ UNCHANGED <<shared, mysql, ospConn, ospConnPool>>

\* Without a connection it returns at once.  The application drops its
\* handle all the same: nobody can free a structure that mysql_init made.
CloseUnconnected(h) ==
    /\ Ready(h) /\ mysqlToConnMap[h] = "none"
    /\ mysql' = [mysql EXCEPT ![h] = IF mysql[h] = "heap" THEN "lost" ELSE "none"]
    /\ call' = [call EXCEPT ![h] = CallOf("close", Nil, Blank, "ok")]
    /\ UNCHANGED <<shared, maps, ospConn, ospConnPool, pc>>

-----------------------------------------------------------------------------

\* What the application chooses to call ...
Call(h) ==
    \/ mysql_init(h)
    \/ RealConnectRefused(h)
    \/ \E v \in Hosts, db \in Schemas \cup {Blank} : mysql_real_connect(h, v, db)
    \/ \E db \in Schemas \cup {Blank, Nil} :
          SelectRefused(h, db) \/ SelectSame(h, db) \/ mysql_select_db(h, db)
    \/ mysql_close(h)
    \/ CloseUnconnected(h)

\* ... and the steps of a call that has begun.
Step(h) ==
    \/ StoreInfo(h)
    \/ \E ok \in BOOLEAN : NativeConnect(h, ok)
    \/ RefuseBlank(h) \/ LockPools(h) \/ FindPool(h) \/ CreatePool(h)
    \/ Borrow(h) \/ PingOk(h) \/ PingFails(h)
    \/ NewConnection(h) \/ NewConnectionFails(h)
    \/ HandshakeOk(h) \/ HandshakeFails(h)
    \/ Disconnected(h) \/ DisconnectFails(h) \/ NativeClose(h)
    \/ ReturnConnection(h) \/ AfterClose(h)

Next == \E h \in Handles : Call(h) \/ Step(h)

Spec == Init /\ [][Next]_vars

\* A call that has begun keeps moving, as long as the peer answers or closes
\* the connection (a TCP connection gives up after ten minutes, pipes and unix
\* sockets rely on the peer); nothing makes the application call.
FairSpec == Spec /\ \A h \in Handles : WF_vars(Step(h))

-----------------------------------------------------------------------------
(* Properties                                                              *)

Live(n)      == netHost[n] # Nil
InPool(n)    == \E p \in Pools : \E i \in Slots : pool[p][i] = n
Reachable(n) == InPool(n) \/ \E h \in Handles : ospConn[h] = n

\* What do_osp_connect relies on while it runs: the host of the call is an OSP
\* host, its schema has been checked, and its pool has been looked up.
Closing(h, name) == pc[h] \in {"close", "return", "erase"} /\ call[h].name = name
CallReady(h) ==
    /\ (pc[h] = "setup" \/ Closing(h, "connect")) => call[h].host \in Hosts
    /\ (pc[h] \in {"lookup", "find", "create"} \cup Dialling \/ Closing(h, "select"))
          => call[h].host \in OspHosts
    /\ pc[h] \in {"find", "create"} \cup Dialling => call[h].schema \in Schemas
    /\ pc[h] \in Dialling => ospConnPool[h] \in Pools
CallsReady == \A h \in Handles : CallReady(h)

\* A network connection is in one slot of one pool, or with one handle:
\* borrowConnection and returnConnection never let two threads have it, and
\* nothing points at a deleted connection.
PooledOnce ==
    \A p, q \in Pools : \A i, j \in Slots :
        pool[p][i] # Nil /\ pool[p][i] = pool[q][j] => p = q /\ i = j
UsedOnce ==
    \A h, k \in Handles : ospConn[h] # Nil /\ ospConn[h] = ospConn[k] => h = k
PooledOrUsed ==
    \A h \in Handles : \A p \in Pools : \A i \in Slots :
        pool[p][i] # Nil => pool[p][i] # ospConn[h]
NoDangling ==
    /\ \A h \in Handles : ospConn[h] # Nil => Live(ospConn[h])
    /\ \A p \in Pools : \A i \in Slots : pool[p][i] # Nil => Live(pool[p][i])
ExclusiveOwnership == PooledOnce /\ UsedOnce /\ PooledOrUsed /\ NoDangling

\* The lookup of a schema's pool and its creation exclude each other, so the
\* handles of one schema share one pool however their threads interleave,
\* and two schemas never share a pool.
PoolOfCall(h) ==
    ospConnPool[h] # Nil /\ (pc[h] \in {"close", "return", "erase"}
                                => call[h].name = "close")
        => ospConnMap[call[h].schema] = ospConnPool[h]
OnePoolPerSchema ==
    /\ \A h \in Handles : PoolOfCall(h)
    /\ \A s, t \in Schemas :
          ospConnMap[s] # Nil /\ ospConnMap[s] = ospConnMap[t] => s = t

\* A handle between two calls holds a network connection exactly when the map
\* gives it an OSP connection object; a connect that reported success left
\* one of the two kinds of object, and a call that failed left an error
\* for mysql_errno.
CallOutcome ==
    \A h \in Handles : pc[h] = "idle" =>
        /\ (mysqlToConnMap[h] = "osp") <=> (ospConn[h] # Nil)
        /\ call[h].name \in {"connect", "select"} /\ call[h].ret = "ok"
              => mysqlToConnMap[h] # "none"
        /\ call[h].ret = "fail" => mysqlToErrorMap[h] # 0

\* The only ways to lose a connection that is still open are a refused
\* connect request and a failed disconnect request: no pooled connection is
\* forgotten and one that finds its pool full is deleted.
LosesOnlyOnFailure ==
    [][\A n \in Nets :
          Live(n) /\ Reachable(n) /\ Live(n)' /\ ~Reachable(n)' =>
             \E h \in Handles : ospConn[h] = n /\ pc[h] \in {"handshake", "close"}
      ]_vars

\* Whoever holds MySQLDriver_connpool_mutex lets it go, so connecting threads
\* never wait for one that has gone.
MutexReleased ==
    \A h \in Handles : connpool_mutex = h ~> connpool_mutex # h

(* What comments of the source say, and the code does not do.              *)

\* mysql_select_db: the connection info "should have been stored in the
\* previous call to mysql_real_connect()" -- a connected handle has one.
ConnectedHasInfo ==
    \A h \in Handles : pc[h] = "idle" /\ mysqlToConnMap[h] # "none"
                          => mysqlToConnInfoMap[h] # Nil

-----------------------------------------------------------------------------
(* Refinement: the ledger of ConnectionOwnership.                          *)

SchemaOf(p) == CHOOSE s \in Schemas : ospConnMap[s] = p

placeOf(n) ==
    IF ~Live(n) THEN [at |-> "absent"]
    ELSE IF InPool(n)
    THEN [at |-> "pooled",
          schema |-> SchemaOf(CHOOSE p \in Pools : \E i \in Slots : pool[p][i] = n)]
    ELSE IF \E h \in Handles : ospConn[h] = n
    THEN LET h == CHOOSE k \in Handles : ospConn[k] = n
         IN  [at |-> "used", schema |-> SchemaOf(ospConnPool[h]), by |-> h]
    ELSE [at |-> "lost"]

Ownership == INSTANCE ConnectionOwnership WITH place <- [n \in Nets |-> placeOf(n)]

\* Every step of the driver is a step of the ledger or leaves it alone.
OwnershipSpec == Ownership!Spec
=============================================================================
