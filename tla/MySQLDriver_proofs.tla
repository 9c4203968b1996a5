------------------------- MODULE MySQLDriver_proofs -------------------------
(***************************************************************************)
(* Proofs about MySQLDriver, for every set of handles, hosts, schemas,     *)
(* connections and pools and every pool size: the types, then that no      *)
(* network connection is ever shared or dangling, then that each schema    *)
(* has one pool, then that every call leaves the maps as it reports.  Last *)
(* that a step moves at most one network connection, so that none is lost  *)
(* but by the two failures the code has no answer to, and that MySQLDriver *)
(* implements the ledger of connections.                                   *)
(***************************************************************************)
EXTENDS MySQLDriver, TLAPS

TypeInv == TypeOK /\ CallsReady

USE DriverAssumption, PoolSizeAssumption

-----------------------------------------------------------------------------
(* Types: what each helper of the handlers assigns.                        *)

LEMMA Constants ==
    /\ {0, CR_UNKNOWN, CONNECT_FAILED} \subseteq Errnos
    /\ Dialling \subseteq Control
    /\ {"idle", "setup", "native", "close", "return", "erase", "lookup", "find",
        "create", "borrow", "ping", "new", "handshake"} \subseteq Control
    /\ {"none", "ok", "fail"} \subseteq Results
  BY DEF Errnos, Control, Dialling, Results

LEMMA GotoType ==
    ASSUME ThreadTypeOK, NEW h \in Handles, NEW label \in Control, goto(h, label)
    PROVE  pc' \in [Handles -> Control]
  BY DEF ThreadTypeOK, goto

LEMMA ErrorType ==
    ASSUME MapsTypeOK, NEW h \in Handles, NEW errno \in Errnos,
           setErrorState(h, errno)
    PROVE  mysqlToErrorMap' \in [Handles -> Errnos]
  BY DEF MapsTypeOK, setErrorState

LEMMA InfoType ==
    ASSUME MapsTypeOK, NEW h \in Handles, NEW v \in Hosts,
           NEW db \in Schemas \cup {Blank}, setConnectInfo(h, v, db)
    PROVE  mysqlToConnInfoMap' \in [Handles -> Infos \cup {Nil}]
  BY DEF MapsTypeOK, setConnectInfo, Infos

LEMMA EraseType ==
    ASSUME MapsTypeOK, NEW h \in Handles, eraseHandle(h)
    PROVE  MapsTypeOK'
  BY DEF MapsTypeOK, eraseHandle, ConnClasses, Errnos

LEMMA CallType ==
    ASSUME ThreadTypeOK, NEW h \in Handles, NEW v \in Hosts \cup {Nil},
           NEW db \in Schemas \cup {Blank}, NEW ret \in Results,
           NEW name \in {"none", "init", "connect", "select", "close"},
           call' = [call EXCEPT ![h] = CallOf(name, v, db, ret)]
    PROVE  call' \in [Handles -> Calls]
  BY DEF ThreadTypeOK, CallOf, Calls

LEMMA ResultType ==
    ASSUME ThreadTypeOK, NEW h \in Handles, NEW ret \in Results, result(h, ret)
    PROVE  call' \in [Handles -> Calls]
  BY DEF ThreadTypeOK, result, CallOf, Calls

LEMMA ConnectFailsType ==
    ASSUME MapsTypeOK, ThreadTypeOK, NEW h \in Handles, connectFails(h)
    PROVE  /\ mysqlToErrorMap' \in [Handles -> Errnos]
           /\ ospConnPool' \in [Handles -> Pools \cup {Nil}]
           /\ call' \in [Handles -> Calls]
           /\ pc' \in [Handles -> Control]
<1>1. mysqlToErrorMap' \in [Handles -> Errnos]
  BY ErrorType, Constants DEF connectFails
<1>2. ospConnPool' \in [Handles -> Pools \cup {Nil}]
  BY DEF connectFails, ThreadTypeOK
<1>3. call' \in [Handles -> Calls] /\ pc' \in [Handles -> Control]
  BY ResultType, GotoType, Constants DEF connectFails, returns
<1> QED
  BY <1>1, <1>2, <1>3

\* Moving an entry out of or into a slot keeps the arrays well typed.
LEMMA SlotType ==
    ASSUME SharedTypeOK, ThreadTypeOK, NEW p \in Pools \cup {Nil}, NEW i \in Slots,
           NEW conn \in Nets \cup {Nil},
           pool' = [pool EXCEPT ![p] = giveBack(pool[p], i, conn)]
    PROVE  pool' \in [Pools -> [Slots -> Nets \cup {Nil}]]
<1>1. p \in Pools => giveBack(pool[p], i, conn) \in [Slots -> Nets \cup {Nil}]
  BY DEF giveBack, SharedTypeOK
<1> QED
  BY <1>1 DEF SharedTypeOK

LEMMA SlotsAreSlots ==
    ASSUME NEW slots
    PROVE  /\ \A i \in borrowSlot(slots) : i \in Slots /\ slots[i] # Nil
           /\ \A i \in returnSlot(slots) : i \in Slots /\ slots[i] = Nil
  BY DEF borrowSlot, returnSlot, First, Occupied, Vacant
-----------------------------------------------------------------------------
(* Types: one step per handler.                                            *)

LEMMA TypeInit == Init => TypeInv
  BY DEF Init, TypeInv, TypeOK, SharedTypeOK, MapsTypeOK, ThreadTypeOK,
         CallsReady, CallReady, Closing, Slots, EmptyPool, CallOf, Calls,
         Control, Dialling, Errnos, Hosts, Infos, ConnClasses, MysqlStates,
         Results

LEMMA TypeCall ==
    ASSUME TypeInv, NEW h \in Handles, Call(h)
    PROVE  TypeOK'
<1> SharedTypeOK /\ MapsTypeOK /\ ThreadTypeOK
  BY DEF TypeInv, TypeOK
<1> USE DEF Results
<1>1. CASE mysql_init(h)
  <2>1. call' \in [Handles -> Calls]
    BY <1>1, CallType DEF mysql_init
  <2> QED
    BY <1>1, <2>1 DEF mysql_init, TypeOK, SharedTypeOK, MapsTypeOK, ThreadTypeOK,
                      shared, maps, MysqlStates
<1>2. CASE RealConnectRefused(h)
  <2>1. call' \in [Handles -> Calls] /\ mysqlToErrorMap' \in [Handles -> Errnos]
    BY <1>2, ResultType, ErrorType, Constants DEF RealConnectRefused
  <2> QED
    BY <1>2, <2>1 DEF RealConnectRefused, TypeOK, SharedTypeOK, MapsTypeOK,
                      ThreadTypeOK, shared
<1>3. ASSUME NEW v \in Hosts, NEW db \in Schemas \cup {Blank},
             mysql_real_connect(h, v, db)
      PROVE  TypeOK'
  <2>1. call' \in [Handles -> Calls] /\ pc' \in [Handles -> Control]
    BY <1>3, CallType, GotoType, Constants DEF mysql_real_connect
  <2> QED
    BY <1>3, <2>1 DEF mysql_real_connect, TypeOK, SharedTypeOK, MapsTypeOK,
                      ThreadTypeOK, shared, maps
<1>4. ASSUME NEW db \in Schemas \cup {Blank, Nil},
             SelectRefused(h, db)
      PROVE  TypeOK'
  <2>1. call' \in [Handles -> Calls] /\ mysqlToErrorMap' \in [Handles -> Errnos]
    BY <1>4, ResultType, ErrorType, Constants DEF SelectRefused
  <2> QED
    BY <1>4, <2>1 DEF SelectRefused, TypeOK, SharedTypeOK, MapsTypeOK,
                      ThreadTypeOK, shared
<1>5. ASSUME NEW db \in Schemas \cup {Blank, Nil}, SelectSame(h, db)
      PROVE  TypeOK'
  <2>1. call' \in [Handles -> Calls]
    BY <1>5, ResultType DEF SelectSame
  <2> QED
    BY <1>5, <2>1 DEF SelectSame, TypeOK, SharedTypeOK, MapsTypeOK, ThreadTypeOK,
                      shared, maps
<1>6. ASSUME NEW db \in Schemas \cup {Blank, Nil}, mysql_select_db(h, db)
      PROVE  TypeOK'
  <2> DEFINE v == mysqlToConnInfoMap[h].host
  <2>1. v \in Hosts /\ db \in Schemas \cup {Blank}
    BY <1>6 DEF mysql_select_db, Selects, MapsTypeOK, Infos
  <2>2. mysqlToConnInfoMap' \in [Handles -> Infos \cup {Nil}]
    BY <1>6, <2>1, InfoType DEF mysql_select_db
  <2>3. CASE isOspHost(v)
    <3>1. call' \in [Handles -> Calls] /\ pc' \in [Handles -> Control]
      BY <1>6, <2>1, <2>3, CallType, GotoType, Constants DEF mysql_select_db
    <3> QED
      BY <1>6, <2>2, <2>3, <3>1 DEF mysql_select_db, TypeOK, SharedTypeOK,
               MapsTypeOK, ThreadTypeOK, shared
  <2>4. CASE ~isOspHost(v)
    <3>1. PICK ok \in BOOLEAN :
             /\ setErrorState(h, IF ok THEN 0 ELSE CR_UNKNOWN)
             /\ result(h, IF ok THEN "ok" ELSE "fail")
             /\ UNCHANGED pc
      BY <1>6, <2>4 DEF mysql_select_db
    <3>2. call' \in [Handles -> Calls] /\ mysqlToErrorMap' \in [Handles -> Errnos]
      BY <3>1, ResultType, ErrorType, Constants
    <3> QED
      BY <1>6, <2>2, <3>1, <3>2 DEF mysql_select_db, TypeOK, SharedTypeOK,
               MapsTypeOK, ThreadTypeOK, shared
  <2> QED
    BY <2>3, <2>4
<1>7. CASE mysql_close(h)
  <2>1. call[h].host \in Hosts \cup {Nil} /\ call[h].schema \in Schemas \cup {Blank}
    BY DEF ThreadTypeOK, Calls
  <2>2. call' \in [Handles -> Calls] /\ pc' \in [Handles -> Control] /\ MapsTypeOK'
    BY <1>7, <2>1, CallType, GotoType, EraseType, Constants DEF mysql_close
  <2> QED
    BY <1>7, <2>2 DEF mysql_close, TypeOK, SharedTypeOK, ThreadTypeOK, shared
<1>8. CASE CloseUnconnected(h)
  <2>1. call' \in [Handles -> Calls]
    BY <1>8, CallType DEF CloseUnconnected
  <2> QED
    BY <1>8, <2>1 DEF CloseUnconnected, TypeOK, SharedTypeOK, MapsTypeOK,
                      ThreadTypeOK, shared, maps, MysqlStates
<1> QED
  BY <1>1, <1>2, <1>3, <1>4, <1>5, <1>6, <1>7, <1>8 DEF Call

LEMMA TypeStep ==
    ASSUME TypeInv, NEW h \in Handles, Step(h)
    PROVE  TypeOK'
<1> SharedTypeOK /\ MapsTypeOK /\ ThreadTypeOK /\ CallReady(h)
  BY DEF TypeInv, TypeOK, CallsReady
<1>1. CASE StoreInfo(h)
  <2> DEFINE v == call[h].host
             db == databaseName(v, call[h].schema)
  <2>1. pc[h] = "setup" /\ v \in Hosts /\ db \in Schemas \cup {Blank}
    BY <1>1 DEF StoreInfo, CallReady, ThreadTypeOK, Calls, isOspHost, databaseName
  <2>2. mysqlToConnInfoMap' \in [Handles -> Infos \cup {Nil}]
    BY <1>1, <2>1, InfoType DEF StoreInfo
  <2>3. mysqlToErrorMap' \in [Handles -> Errnos]
    BY <1>1, ErrorType, Constants DEF StoreInfo, MapsTypeOK
  <2>4. call' \in [Handles -> Calls]
    BY <1>1, <2>1, ResultType, CallType DEF StoreInfo, ThreadTypeOK, returns, Results
  <2>5. pc' \in [Handles -> Control]
    BY <1>1, GotoType, Constants DEF StoreInfo, returns
  <2> QED
    BY <1>1, <2>2, <2>3, <2>4, <2>5 DEF StoreInfo, TypeOK, SharedTypeOK,
             MapsTypeOK, ThreadTypeOK, shared
<1>2. ASSUME NEW ok \in BOOLEAN, NativeConnect(h, ok)
      PROVE  TypeOK'
  <2>1. /\ mysqlToErrorMap' \in [Handles -> Errnos]
        /\ call' \in [Handles -> Calls]
        /\ pc' \in [Handles -> Control]
    BY <1>2, ErrorType, ResultType, GotoType, Constants DEF NativeConnect, returns
  <2> QED
    BY <1>2, <2>1 DEF NativeConnect, TypeOK, SharedTypeOK, MapsTypeOK,
                      ThreadTypeOK, shared, ConnClasses
<1>3. CASE RefuseBlank(h)
  BY <1>3, ConnectFailsType DEF RefuseBlank, TypeOK, SharedTypeOK, MapsTypeOK,
                                ThreadTypeOK, shared
<1>4. CASE LockPools(h)
  BY <1>4, GotoType, Constants DEF LockPools, TypeOK, SharedTypeOK, MapsTypeOK,
                                   ThreadTypeOK, maps
<1>5. CASE FindPool(h)
  <2>1. ospConnMap[call[h].schema] \in Pools \cup {Nil}
    BY <1>5 DEF FindPool, CallReady, SharedTypeOK
  <2>2. ospConnPool' \in [Handles -> Pools \cup {Nil}]
    BY <1>5, <2>1 DEF FindPool, ThreadTypeOK
  <2>3. pc' \in [Handles -> Control]
    BY <1>5, GotoType, Constants DEF FindPool
  <2> QED
    BY <1>5, <2>2, <2>3 DEF FindPool, TypeOK, SharedTypeOK, MapsTypeOK,
                            ThreadTypeOK, maps
<1>6. CASE CreatePool(h)
  <2>1. PICK p \in Pools : /\ pool' = [pool EXCEPT ![p] = EmptyPool]
                           /\ ospConnMap' = [ospConnMap EXCEPT ![call[h].schema] = p]
                           /\ ospConnPool' = [ospConnPool EXCEPT ![h] = p]
    BY <1>6 DEF CreatePool
  <2>2. EmptyPool \in [Slots -> Nets \cup {Nil}]
    BY DEF EmptyPool
  <2>3. SharedTypeOK'
    BY <1>6, <2>1, <2>2 DEF CreatePool, SharedTypeOK
  <2>4. ospConnPool' \in [Handles -> Pools \cup {Nil}] /\ pc' \in [Handles -> Control]
    BY <1>6, <2>1, GotoType, Constants DEF CreatePool, ThreadTypeOK
  <2> QED
    BY <1>6, <2>3, <2>4 DEF CreatePool, TypeOK, MapsTypeOK, ThreadTypeOK, maps
<1>7. CASE Borrow(h)
  <2> DEFINE p == ospConnPool[h]
  <2>1. p \in Pools
    BY <1>7 DEF Borrow, CallReady, Dialling
  <2>2. pc' \in [Handles -> Control]
    BY <1>7, GotoType, Constants DEF Borrow
  <2>3. ASSUME NEW i \in borrowSlot(pool[p]),
               pool' = [pool EXCEPT ![p] = borrow(pool[p], i)],
               ospConn' = [ospConn EXCEPT ![h] = pool[p][i]]
        PROVE  /\ pool' \in [Pools -> [Slots -> Nets \cup {Nil}]]
               /\ ospConn' \in [Handles -> Nets \cup {Nil}]
    <3>1. i \in Slots
      BY SlotsAreSlots
    <3>2. pool' = [pool EXCEPT ![p] = giveBack(pool[p], i, Nil)]
      BY <2>3 DEF borrow, giveBack
    <3>3. pool[p][i] \in Nets \cup {Nil}
      BY <2>1, <3>1 DEF SharedTypeOK
    <3> QED
      BY <2>1, <2>3, <3>1, <3>2, <3>3, SlotType DEF ThreadTypeOK
  <2>4. /\ pool' \in [Pools -> [Slots -> Nets \cup {Nil}]]
        /\ ospConn' \in [Handles -> Nets \cup {Nil}]
    BY <1>7, <2>3 DEF Borrow, SharedTypeOK, ThreadTypeOK
  <2> QED
    BY <1>7, <2>2, <2>4 DEF Borrow, TypeOK, SharedTypeOK, MapsTypeOK,
                            ThreadTypeOK, maps
<1>8. CASE PingOk(h) \/ PingFails(h)
  BY <1>8, GotoType, Constants DEF PingOk, PingFails, TypeOK, SharedTypeOK,
                                   MapsTypeOK, ThreadTypeOK, maps, shared
<1>9. CASE NewConnection(h)
  <2>1. call[h].host \in OspHosts
    BY <1>9 DEF NewConnection, CallReady, Dialling
  <2> QED
    BY <1>9, <2>1, GotoType, Constants DEF NewConnection, TypeOK, SharedTypeOK,
                                           MapsTypeOK, ThreadTypeOK, maps
<1>10. CASE NewConnectionFails(h) \/ HandshakeFails(h)
  BY <1>10, ConnectFailsType DEF NewConnectionFails, HandshakeFails, TypeOK,
                                 SharedTypeOK, MapsTypeOK, ThreadTypeOK, shared
<1>11. CASE HandshakeOk(h)
  <2>1. /\ mysqlToErrorMap' \in [Handles -> Errnos]
        /\ call' \in [Handles -> Calls]
        /\ pc' \in [Handles -> Control]
    BY <1>11, ErrorType, ResultType, GotoType, Constants DEF HandshakeOk, returns
  <2> QED
    BY <1>11, <2>1 DEF HandshakeOk, TypeOK, SharedTypeOK, MapsTypeOK,
                       ThreadTypeOK, shared, ConnClasses
<1>12. CASE Disconnected(h) \/ DisconnectFails(h) \/ NativeClose(h)
  BY <1>12, GotoType, Constants DEF Disconnected, DisconnectFails, NativeClose,
           TypeOK, SharedTypeOK, MapsTypeOK, ThreadTypeOK, maps, shared
<1>13. CASE ReturnConnection(h)
  <2> DEFINE p == ospConnPool[h]
  <2>1. pool' \in [Pools -> [Slots -> Nets \cup {Nil}]]
    <3>1. p \in Pools \cup {Nil} /\ ospConn[h] \in Nets \cup {Nil}
      BY DEF ThreadTypeOK
    <3> QED
      BY <1>13, <3>1, SlotType, SlotsAreSlots DEF ReturnConnection, SharedTypeOK
  <2>2. netHost' \in [Nets -> OspHosts \cup {Nil}]
    BY <1>13 DEF ReturnConnection, SharedTypeOK
  <2>3. ospConn' \in [Handles -> Nets \cup {Nil}] /\ pc' \in [Handles -> Control]
    BY <1>13, GotoType, Constants DEF ReturnConnection, ThreadTypeOK
  <2> QED
    BY <1>13, <2>1, <2>2, <2>3 DEF ReturnConnection, TypeOK, SharedTypeOK,
                                   MapsTypeOK, ThreadTypeOK, maps
<1>14. CASE AfterClose(h)
  <2>1. MapsTypeOK'
    BY <1>14, EraseType DEF AfterClose, MapsTypeOK, maps
  <2>2. pc' \in [Handles -> Control]
    BY <1>14, GotoType, Constants DEF AfterClose
  <2>3. call' \in [Handles -> Calls]
    BY <1>14, CallType DEF AfterClose, ThreadTypeOK, Results
  <2>4. mysql' \in [Handles -> MysqlStates]
    BY <1>14 DEF AfterClose, ThreadTypeOK, MysqlStates
  <2> QED
    BY <1>14, <2>1, <2>2, <2>3, <2>4 DEF AfterClose, TypeOK, SharedTypeOK,
                                         ThreadTypeOK, shared
<1> QED
  BY <1>1, <1>2, <1>3, <1>4, <1>5, <1>6, <1>7, <1>8, <1>9, <1>10, <1>11, <1>12,
     <1>13, <1>14 DEF Step
-----------------------------------------------------------------------------
(* The calls in progress have what do_osp_connect relies on.               *)

\* A step of one handle leaves the control of the others alone.
OnlyMoves(h) ==
    \A k \in Handles \ {h} : /\ pc'[k] = pc[k]
                             /\ call'[k] = call[k]
                             /\ ospConnPool'[k] = ospConnPool[k]

LEMMA OthersReady ==
    ASSUME CallsReady, NEW h \in Handles, OnlyMoves(h), CallReady(h)'
    PROVE  CallsReady'
  BY DEF OnlyMoves, CallsReady, CallReady, Closing, Hosts

LEMMA ReadyCall ==
    ASSUME TypeInv, NEW h \in Handles, Call(h)
    PROVE  CallsReady'
<1>t. /\ pc \in [Handles -> Control] /\ call \in [Handles -> Calls]
      /\ ospConnPool \in [Handles -> Pools \cup {Nil}]
      /\ CallsReady
  BY DEF TypeInv, TypeOK, ThreadTypeOK
<1>1. OnlyMoves(h)
  BY <1>t DEF OnlyMoves, Call, mysql_init, RealConnectRefused, mysql_real_connect,
         SelectRefused, SelectSame, mysql_select_db, mysql_close,
         CloseUnconnected, goto, result
<1> SUFFICES CallReady(h)'
  BY <1>t, <1>1, OthersReady
<1>2. CASE UNCHANGED pc /\ pc[h] = "idle"
  BY <1>t, <1>2 DEF CallReady, Closing, Dialling
<1>3. ASSUME NEW v \in Hosts, NEW db \in Schemas \cup {Blank},
             mysql_real_connect(h, v, db)
      PROVE  CallReady(h)'
  BY <1>t, <1>3 DEF mysql_real_connect, CallReady, Closing, Dialling, goto,
                    CallOf, Hosts
<1>4. ASSUME NEW db \in Schemas \cup {Blank, Nil}, mysql_select_db(h, db),
             ~UNCHANGED pc
      PROVE  CallReady(h)'
  BY <1>t, <1>4 DEF mysql_select_db, CallReady, Closing, Dialling, goto,
                    CallOf, isOspHost
<1>5. CASE mysql_close(h)
  BY <1>t, <1>5 DEF mysql_close, CallReady, Closing, Dialling, goto, CallOf
<1> QED
  BY <1>2, <1>3, <1>4, <1>5 DEF Call, mysql_init, RealConnectRefused, Ready,
         SelectRefused, SelectSame, mysql_select_db, Selects, CloseUnconnected

LEMMA ReadyStep ==
    ASSUME TypeInv, NEW h \in Handles, Step(h)
    PROVE  CallsReady'
<1>t. /\ pc \in [Handles -> Control] /\ call \in [Handles -> Calls]
      /\ ospConnPool \in [Handles -> Pools \cup {Nil}]
      /\ CallsReady /\ CallReady(h)
  BY DEF TypeInv, TypeOK, ThreadTypeOK, CallsReady
<1>1. OnlyMoves(h)
  BY <1>t DEF OnlyMoves, Step, StoreInfo, NativeConnect, RefuseBlank, LockPools,
         FindPool, CreatePool, Borrow, PingOk, PingFails, NewConnection,
         NewConnectionFails, HandshakeOk, HandshakeFails, Disconnected,
         DisconnectFails, NativeClose, ReturnConnection, AfterClose,
         connectFails, returns, result, goto
<1> SUFFICES CallReady(h)'
  BY <1>t, <1>1, OthersReady
<1>2. CASE pc'[h] = "idle"
  BY <1>t, <1>2 DEF CallReady, Closing, Dialling
<1>3. CASE StoreInfo(h)
  BY <1>t, <1>3 DEF StoreInfo, CallReady, Closing, Dialling, goto, returns,
         result, CallOf
<1>4. CASE LockPools(h) \/ FindPool(h) \/ CreatePool(h)
  BY <1>t, <1>4 DEF LockPools, FindPool, CreatePool, CallReady, Closing,
         Dialling, goto, TypeInv, TypeOK, SharedTypeOK, Calls
<1>5. CASE Borrow(h) \/ PingOk(h) \/ PingFails(h) \/ NewConnection(h)
  BY <1>t, <1>5 DEF Borrow, PingOk, PingFails, NewConnection, CallReady,
         Closing, Dialling, goto
<1>6. CASE Disconnected(h) \/ DisconnectFails(h) \/ NativeClose(h)
           \/ ReturnConnection(h)
  BY <1>t, <1>6 DEF Disconnected, DisconnectFails, NativeClose,
         ReturnConnection, CallReady, Closing, Dialling, goto
<1>7. CASE AfterClose(h)
  BY <1>t, <1>7 DEF AfterClose, CallReady, Closing, Dialling, goto, Hosts
<1> QED
  BY <1>t, <1>2, <1>3, <1>4, <1>5, <1>6, <1>7 DEF Step, NativeConnect, RefuseBlank,
         NewConnectionFails, HandshakeOk, HandshakeFails, connectFails, returns,
         goto

LEMMA TypeNext == TypeInv /\ [Next]_vars => TypeInv'
<1>1. CASE UNCHANGED vars
  BY <1>1 DEF TypeInv, TypeOK, SharedTypeOK, MapsTypeOK, ThreadTypeOK, CallsReady,
              CallReady, Closing, vars, shared, maps, thread
<1> QED
  BY <1>1, TypeCall, TypeStep, ReadyCall, ReadyStep DEF Next, TypeInv

\* Whatever the calls and their interleaving, the maps, the pools and the
\* locals of the calls hold what they should.
THEOREM TypeCorrect == Spec => []TypeOK
<1>1. Spec => []TypeInv
  BY TypeInit, TypeNext, PTL DEF Spec
<1> QED
  BY <1>1, PTL DEF TypeInv
-----------------------------------------------------------------------------
(* Ownership: what a step can do to the network connections.               *)

LEMMA DropKeeps ==
    ASSUME TypeOK, ExclusiveOwnership, NEW h \in Handles,
           ospConn' = [ospConn EXCEPT ![h] = Nil], UNCHANGED <<pool, netHost>>
    PROVE  ExclusiveOwnership'
  BY DEF TypeOK, ThreadTypeOK, ExclusiveOwnership, PooledOnce, UsedOnce,
         PooledOrUsed, NoDangling, Live

\* Deleting the connection that a handle holds leaves no pointer to it.
LEMMA DeleteKeeps ==
    ASSUME TypeOK, ExclusiveOwnership, NEW h \in Handles,
           ospConn' = [ospConn EXCEPT ![h] = Nil], UNCHANGED pool,
           netHost' = [netHost EXCEPT ![ospConn[h]] = Nil]
    PROVE  ExclusiveOwnership'
<1>1. PooledOnce' /\ UsedOnce' /\ PooledOrUsed'
  BY DEF TypeOK, ThreadTypeOK, ExclusiveOwnership, PooledOnce, UsedOnce,
         PooledOrUsed
<1>2. ASSUME NEW k \in Handles, ospConn'[k] # Nil
      PROVE  Live(ospConn[k])'
  BY <1>2 DEF TypeOK, ThreadTypeOK, SharedTypeOK, ExclusiveOwnership, UsedOnce,
              NoDangling, Live
<1>3. ASSUME NEW p \in Pools, NEW i \in Slots, pool[p][i] # Nil
      PROVE  Live(pool[p][i])'
  BY <1>3 DEF TypeOK, ThreadTypeOK, SharedTypeOK, ExclusiveOwnership,
              PooledOrUsed, NoDangling, Live
<1> QED
  BY <1>1, <1>2, <1>3 DEF ExclusiveOwnership, NoDangling

\* Nothing points at a connection before it is allocated.
LEMMA AllocateKeeps ==
    ASSUME TypeOK, ExclusiveOwnership, NEW h \in Handles, NEW n \in Nets,
           NEW v \in OspHosts, netHost[n] = Nil,
           netHost' = [netHost EXCEPT ![n] = v],
           ospConn' = [ospConn EXCEPT ![h] = n], UNCHANGED pool
    PROVE  ExclusiveOwnership'
<1>1. \A k \in Handles : ospConn[k] # n
  BY DEF ExclusiveOwnership, NoDangling, Live
<1>2. \A p \in Pools : \A i \in Slots : pool[p][i] # n
  BY DEF ExclusiveOwnership, NoDangling, Live
<1>3. PooledOnce' /\ UsedOnce' /\ PooledOrUsed'
  BY <1>1, <1>2 DEF TypeOK, ThreadTypeOK, ExclusiveOwnership, PooledOnce,
                    UsedOnce, PooledOrUsed
<1>4. NoDangling'
  BY <1>1, <1>2 DEF TypeOK, ThreadTypeOK, SharedTypeOK, ExclusiveOwnership,
                    NoDangling, Live
<1> QED
  BY <1>3, <1>4 DEF ExclusiveOwnership

\* borrowConnection: out of the slot as it comes into the hands of h.
LEMMA BorrowKeeps ==
    ASSUME TypeOK, ExclusiveOwnership, NEW h \in Handles, NEW p \in Pools,
           NEW i \in Slots, pool[p][i] # Nil,
           pool' = [pool EXCEPT ![p] = borrow(pool[p], i)],
           ospConn' = [ospConn EXCEPT ![h] = pool[p][i]], UNCHANGED netHost
    PROVE  ExclusiveOwnership'
<1>1. \A q \in Pools : \A j \in Slots :
         pool'[q][j] = IF q = p /\ j = i THEN Nil ELSE pool[q][j]
  BY DEF borrow, TypeOK, SharedTypeOK
<1>2. \A k \in Handles : ospConn'[k] = IF k = h THEN pool[p][i] ELSE ospConn[k]
  BY DEF TypeOK, ThreadTypeOK
<1>3. PooledOnce'
  BY <1>1 DEF ExclusiveOwnership, PooledOnce
<1>4. UsedOnce'
  BY <1>2 DEF ExclusiveOwnership, UsedOnce, PooledOrUsed
<1>5. PooledOrUsed'
  BY <1>1, <1>2 DEF ExclusiveOwnership, PooledOnce, PooledOrUsed
<1>6. NoDangling'
  BY <1>1, <1>2 DEF ExclusiveOwnership, NoDangling, Live
<1> QED
  BY <1>3, <1>4, <1>5, <1>6 DEF ExclusiveOwnership

\* returnConnection: out of the hands of h as it goes into the slot.
LEMMA ReturnKeeps ==
    ASSUME TypeOK, ExclusiveOwnership, NEW h \in Handles,
           NEW p \in Pools \cup {Nil}, NEW i \in Slots,
           pool' = [pool EXCEPT ![p] = giveBack(pool[p], i, ospConn[h])],
           ospConn' = [ospConn EXCEPT ![h] = Nil], UNCHANGED netHost
    PROVE  ExclusiveOwnership'
<1>1. \A q \in Pools : \A j \in Slots :
         pool'[q][j] = IF q = p /\ j = i THEN ospConn[h] ELSE pool[q][j]
  BY DEF giveBack, TypeOK, SharedTypeOK
<1>2. \A k \in Handles : ospConn'[k] = IF k = h THEN Nil ELSE ospConn[k]
  BY DEF TypeOK, ThreadTypeOK
<1>3. PooledOnce'
  BY <1>1 DEF ExclusiveOwnership, PooledOnce, PooledOrUsed
<1>4. UsedOnce'
  BY <1>2 DEF ExclusiveOwnership, UsedOnce
<1>5. PooledOrUsed'
  BY <1>1, <1>2 DEF ExclusiveOwnership, UsedOnce, PooledOrUsed
<1>6. NoDangling'
  BY <1>1, <1>2 DEF ExclusiveOwnership, NoDangling, Live
<1> QED
  BY <1>3, <1>4, <1>5, <1>6 DEF ExclusiveOwnership

\* A pool is created empty.
LEMMA CreateKeeps ==
    ASSUME TypeOK, ExclusiveOwnership, NEW p \in Pools,
           pool' = [pool EXCEPT ![p] = EmptyPool], UNCHANGED <<ospConn, netHost>>
    PROVE  ExclusiveOwnership'
<1>1. \A q \in Pools : \A j \in Slots :
         pool'[q][j] = IF q = p THEN Nil ELSE pool[q][j]
  BY DEF EmptyPool, TypeOK, SharedTypeOK
<1> QED
  BY <1>1 DEF ExclusiveOwnership, PooledOnce, UsedOnce, PooledOrUsed, NoDangling,
              Live

\* Most steps leave the connections where they are.
LEMMA IdleKeeps ==
    ASSUME ExclusiveOwnership, UNCHANGED <<pool, ospConn, netHost>>
    PROVE  ExclusiveOwnership'
  BY DEF ExclusiveOwnership, PooledOnce, UsedOnce, PooledOrUsed, NoDangling, Live

LEMMA OwnershipNext ==
    TypeInv /\ ExclusiveOwnership /\ [Next]_vars => ExclusiveOwnership'
<1> SUFFICES ASSUME TypeInv, ExclusiveOwnership, [Next]_vars
             PROVE  ExclusiveOwnership'
  OBVIOUS
<1>t. TypeOK /\ CallsReady
  BY DEF TypeInv
<1>1. CASE UNCHANGED vars
  BY <1>1, IdleKeeps DEF vars, shared, thread
<1>2. ASSUME NEW h \in Handles, Call(h)
      PROVE  ExclusiveOwnership'
  BY <1>2, IdleKeeps DEF Call, mysql_init, RealConnectRefused,
       mysql_real_connect, SelectRefused, SelectSame, mysql_select_db,
       mysql_close, CloseUnconnected, shared
<1>3. ASSUME NEW h \in Handles, Step(h)
      PROVE  ExclusiveOwnership'
  <2>r. CallReady(h)
    BY <1>t DEF CallsReady
  <2>1. CASE HandshakeFails(h) \/ DisconnectFails(h)
    BY <1>t, <2>1, DropKeeps DEF HandshakeFails, DisconnectFails, shared
  <2>2. CASE PingFails(h)
    BY <1>t, <2>2, DeleteKeeps DEF PingFails
  <2>3. CASE NewConnection(h)
    BY <1>t, <2>r, <2>3, AllocateKeeps DEF NewConnection, CallReady, Dialling
  <2>4. CASE Borrow(h)
    <3>1. ospConnPool[h] \in Pools
      BY <2>r, <2>4 DEF Borrow, CallReady, Dialling
    <3> QED
      BY <1>t, <2>4, <3>1, BorrowKeeps, IdleKeeps, SlotsAreSlots DEF Borrow
  <2>5. CASE ReturnConnection(h)
    <3>1. ospConnPool[h] \in Pools \cup {Nil}
      BY <1>t DEF TypeOK, ThreadTypeOK
    <3> QED
      BY <1>t, <2>5, <3>1, ReturnKeeps, DeleteKeeps, SlotsAreSlots
         DEF ReturnConnection
  <2>6. CASE CreatePool(h)
    BY <1>t, <2>6, CreateKeeps DEF CreatePool
  <2> QED
    BY <1>3, <2>1, <2>2, <2>3, <2>4, <2>5, <2>6, IdleKeeps
       DEF Step, StoreInfo, NativeConnect, RefuseBlank, LockPools, FindPool,
           PingOk, NewConnectionFails, HandshakeOk, Disconnected, NativeClose,
           AfterClose, shared
<1> QED
  BY <1>1, <1>2, <1>3 DEF Next

\* No network connection is ever in two places or deleted while something
\* points at it, for any number of threads, pools and connections.
THEOREM OwnershipIsExclusive == Spec => []ExclusiveOwnership
<1>1. Init => ExclusiveOwnership
  BY DEF Init, ExclusiveOwnership, PooledOnce, UsedOnce, PooledOrUsed,
         NoDangling, EmptyPool
<1>2. TypeInv /\ ExclusiveOwnership /\ [Next]_vars => (TypeInv /\ ExclusiveOwnership)'
  BY TypeNext, OwnershipNext
<1> QED
  BY TypeInit, <1>1, <1>2, PTL DEF Spec
-----------------------------------------------------------------------------
(* One pool per schema.                                                    *)

\* What keeps the pools apart: the mutex belongs to whoever is in the block
\* it guards, the schema of a pool about to be created has none, and a
\* handle points at a pool only between the look-up for its call and the end
\* of its connection.
Connects == {"setup", "native", "lookup", "find", "create"}
HasStructure(h) == mysql[h] \in {"stack", "heap"}
KnowsPool(h) == ospConnPool[h] # Nil /\ (pc[h] \in {"close", "return", "erase"}
                                            => call[h].name = "close")
PoolReady(h) ==
    /\ pc[h] \in Connects => ospConnPool[h] = Nil
    /\ pc[h] = "idle" /\ mysqlToConnMap[h] = "none" => ospConnPool[h] = Nil
    /\ ~HasStructure(h) => pc[h] = "idle" /\ ospConnPool[h] = Nil
    /\ pc[h] \in {"find", "create"} => connpool_mutex = h
    /\ pc[h] = "create" => ospConnMap[call[h].schema] = Nil
    /\ KnowsPool(h) => /\ call[h].schema \in Schemas
                       /\ ospConnMap[call[h].schema] = ospConnPool[h]
PoolsReady == \A h \in Handles : PoolReady(h)

PoolsApart == \A s, t \in Schemas :
                 ospConnMap[s] # Nil /\ ospConnMap[s] = ospConnMap[t] => s = t

PoolInv == TypeInv /\ PoolsReady /\ PoolsApart

OnlyTouches(h) ==
    /\ OnlyMoves(h)
    /\ \A k \in Handles \ {h} : /\ mysql'[k] = mysql[k]
                                /\ mysqlToConnMap'[k] = mysqlToConnMap[k]

\* A step of h that leaves ospConnMap alone, and the mutex unless it is free or
\* in the hands of h, does not disturb the other handles.
LEMMA OthersKeepPools ==
    ASSUME PoolsReady, PoolsApart, NEW h \in Handles, OnlyTouches(h),
           UNCHANGED ospConnMap,
           UNCHANGED connpool_mutex \/ connpool_mutex \in {h, Nil},
           PoolReady(h)'
    PROVE  PoolsReady' /\ PoolsApart'
<1>1. ASSUME NEW k \in Handles \ {h}
      PROVE  PoolReady(k)'
  <2>1. PoolReady(k) /\ k # Nil
    BY DEF PoolsReady
  <2>2. /\ pc'[k] = pc[k] /\ call'[k] = call[k] /\ ospConnPool'[k] = ospConnPool[k]
        /\ mysql'[k] = mysql[k] /\ mysqlToConnMap'[k] = mysqlToConnMap[k]
    BY DEF OnlyTouches, OnlyMoves
  <2>3. pc[k] \in {"find", "create"} => connpool_mutex' = k
    BY <2>1 DEF PoolReady
  <2> QED
    BY <2>1, <2>2, <2>3 DEF PoolReady, HasStructure, KnowsPool
<1>2. PoolsApart'
  BY DEF PoolsApart
<1> QED
  BY <1>1, <1>2 DEF PoolsReady

LEMMA CallKeepsPools ==
    ASSUME PoolInv, NEW h \in Handles, Call(h)
    PROVE  PoolsReady' /\ PoolsApart'
<1>t. /\ pc \in [Handles -> Control] /\ call \in [Handles -> Calls]
      /\ ospConnPool \in [Handles -> Pools \cup {Nil}]
      /\ mysql \in [Handles -> MysqlStates]
      /\ mysqlToConnMap \in [Handles -> ConnClasses]
      /\ PoolReady(h) /\ PoolsReady /\ PoolsApart
  BY DEF PoolInv, PoolsReady, TypeInv, TypeOK, ThreadTypeOK, MapsTypeOK
<1>1. OnlyTouches(h)
  BY <1>t DEF OnlyTouches, OnlyMoves, Call, mysql_init, RealConnectRefused,
         mysql_real_connect, SelectRefused, SelectSame, mysql_select_db,
         mysql_close, CloseUnconnected, eraseHandle, goto, result, maps
<1>2. UNCHANGED <<ospConnMap, connpool_mutex>>
  BY DEF Call, mysql_init, RealConnectRefused, mysql_real_connect,
         SelectRefused, SelectSame, mysql_select_db, mysql_close,
         CloseUnconnected, shared
<1> SUFFICES PoolReady(h)'
  BY <1>t, <1>1, <1>2, OthersKeepPools
<1>u. ospConnPool'[h] = ospConnPool[h]
  BY DEF Call, mysql_init, RealConnectRefused, mysql_real_connect,
         SelectRefused, SelectSame, mysql_select_db, mysql_close,
         CloseUnconnected
<1> USE DEF PoolReady, HasStructure, KnowsPool, Connects
<1>3. CASE mysql_init(h)
  BY <1>t, <1>2, <1>u, <1>3 DEF mysql_init, CallOf
<1>4. ASSUME call'[h].schema = call[h].schema, call'[h].name = call[h].name,
             UNCHANGED <<pc, mysql, mysqlToConnMap>>
      PROVE  PoolReady(h)'
  BY <1>t, <1>2, <1>u, <1>4
<1>5. ASSUME NEW v \in Hosts, NEW db \in Schemas \cup {Blank},
             mysql_real_connect(h, v, db)
      PROVE  PoolReady(h)'
  BY <1>t, <1>2, <1>u, <1>5 DEF mysql_real_connect, Ready, goto, CallOf, maps
<1>6. ASSUME NEW db \in Schemas \cup {Blank, Nil}, mysql_select_db(h, db)
      PROVE  PoolReady(h)'
  <2>1. CASE UNCHANGED pc
    BY <1>t, <1>4, <1>6, <2>1 DEF mysql_select_db, Selects, Ready, result, CallOf, goto
  <2>2. CASE ~UNCHANGED pc
    BY <1>t, <1>2, <1>u, <1>6, <2>2 DEF mysql_select_db, Selects, Ready, goto, CallOf
  <2> QED
    BY <2>1, <2>2
<1>7. CASE mysql_close(h)
  BY <1>t, <1>2, <1>u, <1>7 DEF mysql_close, Ready, goto, CallOf
<1>8. CASE CloseUnconnected(h)
  BY <1>t, <1>2, <1>u, <1>8 DEF CloseUnconnected, Ready, CallOf, maps
<1>9. ASSUME NEW db \in Schemas \cup {Blank, Nil},
             RealConnectRefused(h) \/ SelectRefused(h, db) \/ SelectSame(h, db)
      PROVE  PoolReady(h)'
  BY <1>t, <1>4, <1>9 DEF RealConnectRefused, SelectRefused, SelectSame, result,
                          CallOf, maps
<1> QED
  BY <1>3, <1>5, <1>6, <1>7, <1>8, <1>9 DEF Call

LEMMA StepKeepsPools ==
    ASSUME PoolInv, NEW h \in Handles, Step(h)
    PROVE  PoolsReady' /\ PoolsApart'
<1>t. /\ pc \in [Handles -> Control] /\ call \in [Handles -> Calls]
      /\ ospConnPool \in [Handles -> Pools \cup {Nil}]
      /\ ospConnMap \in [Schemas -> Pools \cup {Nil}]
      /\ mysql \in [Handles -> MysqlStates]
      /\ mysqlToConnMap \in [Handles -> ConnClasses]
      /\ PoolReady(h) /\ CallReady(h) /\ PoolsReady /\ PoolsApart
  BY DEF PoolInv, PoolsReady, TypeInv, TypeOK, ThreadTypeOK, MapsTypeOK,
         SharedTypeOK, CallsReady
<1>1. OnlyTouches(h)
  BY <1>t DEF OnlyTouches, OnlyMoves, Step, StoreInfo, NativeConnect, RefuseBlank,
         LockPools, FindPool, CreatePool, Borrow, PingOk, PingFails,
         NewConnection, NewConnectionFails, HandshakeOk, HandshakeFails,
         Disconnected, DisconnectFails, NativeClose, ReturnConnection,
         AfterClose, connectFails, eraseHandle, returns, result, goto, maps
<1>c. CASE CreatePool(h)
  <2> DEFINE s == call[h].schema
  <2>1. PICK p \in Pools \ UsedPools :
           /\ ospConnMap' = [ospConnMap EXCEPT ![s] = p]
           /\ ospConnPool' = [ospConnPool EXCEPT ![h] = p]
    BY <1>c DEF CreatePool
  <2>2. pc[h] = "create" /\ s \in Schemas /\ ospConnMap[s] = Nil
    BY <1>c, <1>t DEF CreatePool, PoolReady, CallReady
  <2>3. PoolsApart'
    BY <1>t, <2>1, <2>2 DEF PoolsApart, UsedPools
  <2>4. PoolReady(h)'
    BY <1>t, <1>c, <2>1, <2>2 DEF CreatePool, PoolReady, HasStructure, KnowsPool,
                             Connects, goto
  <2>5. ASSUME NEW k \in Handles \ {h}
        PROVE  PoolReady(k)'
    <3>1. PoolReady(k) /\ k # Nil /\ connpool_mutex = h
      BY <1>t, <2>2 DEF PoolsReady, PoolReady
    <3>2. /\ pc'[k] = pc[k] /\ call'[k] = call[k] /\ ospConnPool'[k] = ospConnPool[k]
          /\ mysql'[k] = mysql[k] /\ mysqlToConnMap'[k] = mysqlToConnMap[k]
      BY <1>1 DEF OnlyTouches, OnlyMoves
    <3>3. KnowsPool(k) => ospConnMap'[call[k].schema] = ospConnMap[call[k].schema]
      BY <1>t, <2>1, <2>2, <3>1 DEF PoolReady, KnowsPool
    <3> QED
      BY <3>1, <3>2, <3>3 DEF PoolReady, HasStructure, KnowsPool
  <2> QED
    BY <2>3, <2>4, <2>5 DEF PoolsReady
<1>2. CASE ~CreatePool(h)
  <2>1. /\ UNCHANGED ospConnMap
        /\ UNCHANGED connpool_mutex \/ connpool_mutex \in {h, Nil}
    BY <1>t, <1>2 DEF Step, StoreInfo, NativeConnect, RefuseBlank, LockPools,
         FindPool, Borrow, PingOk, PingFails, NewConnection,
         NewConnectionFails, HandshakeOk, HandshakeFails, Disconnected,
         DisconnectFails, NativeClose, ReturnConnection, AfterClose, shared,
         PoolReady
  <2> SUFFICES PoolReady(h)'
    BY <1>t, <1>1, <2>1, OthersKeepPools
  <2> USE DEF PoolReady, HasStructure, KnowsPool, Connects
  <2>2. CASE StoreInfo(h)
    BY <1>t, <2>1, <2>2 DEF StoreInfo, goto, returns, result, CallOf
  <2>3. ASSUME NEW ok \in BOOLEAN, NativeConnect(h, ok)
        PROVE  PoolReady(h)'
    BY <1>t, <2>1, <2>3 DEF NativeConnect, goto, returns, result, CallOf
  <2>4. CASE RefuseBlank(h) \/ NewConnectionFails(h) \/ HandshakeFails(h)
    BY <1>t, <2>1, <2>4 DEF RefuseBlank, NewConnectionFails, HandshakeFails,
           connectFails, goto, returns, result, CallOf
  <2>5. CASE LockPools(h)
    BY <1>t, <2>1, <2>5 DEF LockPools, goto, maps
  <2>6. CASE FindPool(h)
    BY <1>t, <2>1, <2>6 DEF FindPool, goto, maps, CallReady
  <2>7. CASE Borrow(h) \/ PingOk(h) \/ PingFails(h) \/ NewConnection(h)
    BY <1>t, <2>1, <2>7 DEF Borrow, PingOk, PingFails, NewConnection, goto, maps
  <2>8. CASE HandshakeOk(h)
    BY <1>t, <2>1, <2>8 DEF HandshakeOk, goto, returns, result, CallOf
  <2>9. CASE Disconnected(h) \/ DisconnectFails(h) \/ NativeClose(h)
             \/ ReturnConnection(h)
    BY <1>t, <2>1, <2>9 DEF Disconnected, DisconnectFails, NativeClose,
           ReturnConnection, goto, maps
  <2>10. CASE AfterClose(h)
    BY <1>t, <2>1, <2>10 DEF AfterClose, eraseHandle, goto, CallOf, maps
  <2> QED
    BY <1>2, <2>2, <2>3, <2>4, <2>5, <2>6, <2>7, <2>8, <2>9, <2>10 DEF Step
<1> QED
  BY <1>c, <1>2

LEMMA PoolInit == Init => PoolInv
<1> SUFFICES ASSUME Init PROVE PoolInv
  OBVIOUS
<1>1. PoolsApart
  BY DEF Init, PoolsApart
<1>2. PoolsReady
  BY DEF Init, PoolsReady, PoolReady, Connects, HasStructure, KnowsPool
<1> QED
  BY <1>1, <1>2, TypeInit DEF PoolInv

LEMMA PoolNext == PoolInv /\ [Next]_vars => PoolInv'
<1> SUFFICES ASSUME PoolInv, [Next]_vars PROVE PoolsReady' /\ PoolsApart'
  BY TypeNext DEF PoolInv
<1>1. CASE UNCHANGED vars
  BY <1>1 DEF PoolInv, PoolsReady, PoolsApart, PoolReady, Connects, HasStructure,
              KnowsPool, vars, shared, maps, thread
<1> QED
  BY <1>1, CallKeepsPools, StepKeepsPools DEF Next

\* However many threads connect at once, the handles of one schema share one
\* pool and no two schemas do.
THEOREM PoolPerSchema == Spec => []OnePoolPerSchema
<1>1. PoolInv => OnePoolPerSchema
  BY DEF PoolInv, PoolsReady, PoolReady, KnowsPool, PoolsApart, OnePoolPerSchema,
         PoolOfCall
<1> QED
  BY PoolInit, PoolNext, <1>1, PTL DEF Spec

-----------------------------------------------------------------------------
(* What a handle and its call agree on.                                    *)

\* Without a connection object, and until a call has a network connection,
\* the handle holds none.
HandsFree(h) ==
    pc[h] \in Connects \cup {"borrow", "new", "erase"}
        \/ (pc[h] = "idle" /\ mysqlToConnMap[h] # "osp") => ospConn[h] = Nil
HandsFull(h) ==
    pc[h] \in {"ping", "handshake", "return"}
        \/ (pc[h] = "idle" /\ mysqlToConnMap[h] = "osp") => ospConn[h] # Nil

\* A call that connects has erased the handle before.
Unmapped(h) ==
    pc[h] \in Connects \cup Dialling \/ Closing(h, "close")
        => mysqlToConnMap[h] = "none"

\* A network connection in use belongs to a pool.
HasPool(h) == ospConn[h] # Nil => ospConnPool[h] # Nil

Outcome(h) ==
    pc[h] = "idle" =>
        /\ call[h].name \in {"connect", "select"} /\ call[h].ret = "ok"
              => mysqlToConnMap[h] # "none"
        /\ call[h].ret = "fail" => mysqlToErrorMap[h] # 0

HandleOk(h) == HandsFree(h) /\ HandsFull(h) /\ Unmapped(h) /\ HasPool(h) /\ Outcome(h)
HandlesOk == \A h \in Handles : HandleOk(h)

\* A pool that some handle or some connection knows is in the map.
Mapped(p) == \E s \in Schemas : ospConnMap[s] = p
PoolsMapped ==
    /\ \A h \in Handles : ospConnPool[h] # Nil => Mapped(ospConnPool[h])
    /\ \A p \in Pools : \A i \in Slots : pool[p][i] # Nil => Mapped(p)

LedgerInv == PoolInv /\ ExclusiveOwnership /\ HandlesOk /\ PoolsMapped

\* A step of one handle leaves what the others hold alone.
Leaves(k) ==
    /\ pc'[k] = pc[k] /\ call'[k] = call[k]
    /\ ospConn'[k] = ospConn[k] /\ ospConnPool'[k] = ospConnPool[k]
    /\ mysqlToConnMap'[k] = mysqlToConnMap[k]
    /\ mysqlToErrorMap'[k] = mysqlToErrorMap[k]

LEMMA OthersOk ==
    ASSUME HandlesOk, NEW h \in Handles, \A k \in Handles \ {h} : Leaves(k),
           HandleOk(h)'
    PROVE  HandlesOk'
  BY DEF HandlesOk, HandleOk, HandsFree, HandsFull, Unmapped, HasPool, Outcome,
         Leaves, Closing

LEMMA CallHandles ==
    ASSUME PoolInv, HandlesOk, NEW h \in Handles, Call(h)
    PROVE  HandlesOk'
<1>t. /\ pc \in [Handles -> Control] /\ call \in [Handles -> Calls]
      /\ ospConn \in [Handles -> Nets \cup {Nil}]
      /\ ospConnPool \in [Handles -> Pools \cup {Nil}]
      /\ mysqlToConnMap \in [Handles -> ConnClasses]
      /\ mysqlToErrorMap \in [Handles -> Errnos]
      /\ HandleOk(h) /\ HandlesOk
  BY DEF PoolInv, TypeInv, TypeOK, ThreadTypeOK, MapsTypeOK, HandlesOk
<1>1. \A k \in Handles \ {h} : Leaves(k)
  BY <1>t DEF Leaves, Call, mysql_init, RealConnectRefused, mysql_real_connect,
         SelectRefused, SelectSame, mysql_select_db, mysql_close,
         CloseUnconnected, eraseHandle, setErrorState, goto, result, maps
<1> SUFFICES HandleOk(h)'
  BY <1>t, <1>1, OthersOk
<1>u. UNCHANGED <<ospConn, ospConnPool>>
  BY DEF Call, mysql_init, RealConnectRefused, mysql_real_connect,
         SelectRefused, SelectSame, mysql_select_db, mysql_close,
         CloseUnconnected
<1> USE DEF HandleOk, HandsFree, HandsFull, Unmapped, HasPool, Outcome, Closing,
            Connects, Dialling
<1>2. CASE mysql_init(h) \/ CloseUnconnected(h)
  BY <1>t, <1>u, <1>2 DEF mysql_init, CloseUnconnected, Ready, CallOf, maps
<1>3. ASSUME NEW v \in Hosts, NEW db \in Schemas \cup {Blank},
             mysql_real_connect(h, v, db)
      PROVE  HandleOk(h)'
  BY <1>t, <1>u, <1>3 DEF mysql_real_connect, Ready, goto, CallOf, maps
<1>4. ASSUME NEW db \in Schemas \cup {Blank, Nil},
             RealConnectRefused(h) \/ SelectRefused(h, db)
      PROVE  HandleOk(h)'
  BY <1>t, <1>u, <1>4 DEF RealConnectRefused, SelectRefused, Ready,
         setErrorState, result, CallOf, CR_UNKNOWN
<1>5. ASSUME NEW db \in Schemas \cup {Blank, Nil}, SelectSame(h, db)
      PROVE  HandleOk(h)'
  BY <1>t, <1>u, <1>5 DEF SelectSame, Selects, Ready, result, CallOf, maps
<1>6. ASSUME NEW db \in Schemas \cup {Blank, Nil}, mysql_select_db(h, db)
      PROVE  HandleOk(h)'
  <2>1. CASE UNCHANGED pc
    BY <1>t, <1>u, <1>6, <2>1 DEF mysql_select_db, Selects, Ready, result, CallOf,
           goto, setErrorState, CR_UNKNOWN
  <2>2. CASE ~UNCHANGED pc
    BY <1>t, <1>u, <1>6, <2>2 DEF mysql_select_db, Selects, Ready, goto, CallOf
  <2> QED
    BY <2>1, <2>2
<1>7. CASE mysql_close(h)
  BY <1>t, <1>u, <1>7 DEF mysql_close, Ready, goto, CallOf, eraseHandle
<1> QED
  BY <1>2, <1>3, <1>4, <1>5, <1>6, <1>7 DEF Call

LEMMA StepHandles ==
    ASSUME PoolInv, ExclusiveOwnership, HandlesOk, NEW h \in Handles, Step(h)
    PROVE  HandlesOk'
<1>t. /\ pc \in [Handles -> Control] /\ call \in [Handles -> Calls]
      /\ ospConn \in [Handles -> Nets \cup {Nil}]
      /\ ospConnPool \in [Handles -> Pools \cup {Nil}]
      /\ mysqlToConnMap \in [Handles -> ConnClasses]
      /\ mysqlToErrorMap \in [Handles -> Errnos]
      /\ HandleOk(h) /\ HandlesOk /\ PoolReady(h) /\ CallReady(h)
  BY DEF PoolInv, TypeInv, TypeOK, ThreadTypeOK, MapsTypeOK, HandlesOk,
         PoolsReady, CallsReady
<1>1. \A k \in Handles \ {h} : Leaves(k)
  BY <1>t DEF Leaves, Step, StoreInfo, NativeConnect, RefuseBlank, LockPools,
         FindPool, CreatePool, Borrow, PingOk, PingFails, NewConnection,
         NewConnectionFails, HandshakeOk, HandshakeFails, Disconnected,
         DisconnectFails, NativeClose, ReturnConnection, AfterClose,
         connectFails, eraseHandle, setErrorState, returns, result, goto, maps
<1> SUFFICES HandleOk(h)'
  BY <1>t, <1>1, OthersOk
<1> USE DEF HandleOk, HandsFree, HandsFull, Unmapped, HasPool, Outcome, Closing,
            Connects, Dialling
<1>2. CASE StoreInfo(h)
  BY <1>t, <1>2 DEF StoreInfo, setErrorState, goto, returns, result, CallOf, CR_UNKNOWN
<1>3. ASSUME NEW ok \in BOOLEAN, NativeConnect(h, ok)
      PROVE  HandleOk(h)'
  BY <1>t, <1>3 DEF NativeConnect, setErrorState, goto, returns, result, CallOf,
         CR_UNKNOWN
<1>4. CASE RefuseBlank(h) \/ NewConnectionFails(h) \/ HandshakeFails(h)
  BY <1>t, <1>4 DEF RefuseBlank, NewConnectionFails, HandshakeFails, connectFails,
         setErrorState, goto, returns, result, CallOf, CR_UNKNOWN, CONNECT_FAILED
<1>5. CASE LockPools(h) \/ FindPool(h)
  BY <1>t, <1>5 DEF LockPools, FindPool, goto, maps
<1>6. CASE CreatePool(h)
  BY <1>t, <1>6 DEF CreatePool, goto, maps
<1>7. CASE Borrow(h)
  BY <1>t, <1>7, SlotsAreSlots DEF Borrow, CallReady, goto, maps
<1>8. CASE PingOk(h) \/ PingFails(h)
  BY <1>t, <1>8 DEF PingOk, PingFails, goto, maps
<1>9. CASE NewConnection(h)
  BY <1>t, <1>9 DEF NewConnection, CallReady, goto, maps
<1>10. CASE HandshakeOk(h)
  BY <1>t, <1>10 DEF HandshakeOk, setErrorState, goto, returns, result, CallOf
<1>11. CASE Disconnected(h) \/ DisconnectFails(h) \/ NativeClose(h)
            \/ ReturnConnection(h)
  BY <1>t, <1>11 DEF Disconnected, DisconnectFails, NativeClose,
         ReturnConnection, goto, maps
<1>12. CASE AfterClose(h)
  BY <1>t, <1>12 DEF AfterClose, eraseHandle, goto, CallOf, maps
<1> QED
  BY <1>2, <1>3, <1>4, <1>5, <1>6, <1>7, <1>8, <1>9, <1>10, <1>11, <1>12 DEF Step

LEMMA HandlesNext == PoolInv /\ ExclusiveOwnership /\ HandlesOk /\ [Next]_vars => HandlesOk'
<1> SUFFICES ASSUME PoolInv, ExclusiveOwnership, HandlesOk, [Next]_vars
             PROVE  HandlesOk'
  OBVIOUS
<1>1. CASE UNCHANGED vars
  BY <1>1 DEF HandlesOk, HandleOk, HandsFree, HandsFull, Unmapped, HasPool,
              Outcome, Closing, vars, shared, maps, thread
<1> QED
  BY <1>1, CallHandles, StepHandles DEF Next

LEMMA HandlesInit == Init => HandlesOk
  BY DEF Init, HandlesOk, HandleOk, HandsFree, HandsFull, Unmapped, HasPool,
         Outcome, Closing, Connects, Dialling, CallOf

\* What the application sees: an idle handle has a network connection exactly
\* when it is mapped to an OSP connection object, a connect or select that
\* reported success left the handle mapped, one that failed left an error.
THEOREM CallsReportOutcome == Spec => []CallOutcome
<1>1. Init => PoolInv /\ ExclusiveOwnership /\ HandlesOk
  BY PoolInit, HandlesInit DEF Init, ExclusiveOwnership, PooledOnce, UsedOnce,
     PooledOrUsed, NoDangling, EmptyPool
<1>2. PoolInv /\ ExclusiveOwnership /\ HandlesOk /\ [Next]_vars
         => (PoolInv /\ ExclusiveOwnership /\ HandlesOk)'
  BY PoolNext, OwnershipNext, HandlesNext DEF PoolInv
<1>3. HandlesOk => CallOutcome
  BY DEF HandlesOk, HandleOk, HandsFree, HandsFull, Outcome, CallOutcome
<1> QED
  BY <1>1, <1>2, <1>3, PTL DEF Spec
-----------------------------------------------------------------------------
(* Pools stay in the map.                                                  *)

\* The pool map only grows.
MapGrows == \A s \in Schemas : ospConnMap[s] # Nil => ospConnMap'[s] = ospConnMap[s]

LEMMA NextMapGrows == PoolInv /\ [Next]_vars => MapGrows
<1> SUFFICES ASSUME PoolInv, [Next]_vars PROVE MapGrows
  OBVIOUS
<1>1. ASSUME NEW h \in Handles, CreatePool(h)
      PROVE  MapGrows
  <2>1. call[h].schema \in Schemas /\ ospConnMap[call[h].schema] = Nil
    BY <1>1 DEF CreatePool, PoolInv, PoolsReady, PoolReady, TypeInv, CallsReady,
                CallReady
  <2> QED
    BY <1>1, <2>1 DEF CreatePool, MapGrows, PoolInv, TypeInv, TypeOK, SharedTypeOK
<1>2. CASE UNCHANGED ospConnMap
  BY <1>2 DEF MapGrows
<1>3. ASSUME NEW h \in Handles, Call(h)
      PROVE  UNCHANGED ospConnMap
  BY <1>3 DEF Call, mysql_init, RealConnectRefused, mysql_real_connect,
         SelectRefused, SelectSame, mysql_select_db, mysql_close,
         CloseUnconnected, shared
<1>4. ASSUME NEW h \in Handles, Step(h), ~CreatePool(h)
      PROVE  UNCHANGED ospConnMap
  BY <1>4 DEF Step, StoreInfo, NativeConnect, RefuseBlank, LockPools,
         FindPool, Borrow, PingOk, PingFails, NewConnection,
         NewConnectionFails, HandshakeOk, HandshakeFails, Disconnected,
         DisconnectFails, NativeClose, ReturnConnection, AfterClose, shared
<1> QED
  BY <1>1, <1>2, <1>3, <1>4 DEF Next, vars, shared

LEMMA MappedStays ==
    ASSUME MapGrows, NEW p, p # Nil, Mapped(p)
    PROVE  Mapped(p)'
  BY DEF Mapped, MapGrows

\* A fresh pool is in no entry of the map, so it had no connections.
LEMMA FreshIsEmpty ==
    ASSUME PoolsMapped, NEW p \in Pools \ UsedPools
    PROVE  \A i \in Slots : pool[p][i] = Nil
  BY DEF PoolsMapped, Mapped, UsedPools

\* What a step does to the slots and to the pools of the handles, as far as
\* the map is concerned.
LEMMA PoolsMappedNext == LedgerInv /\ [Next]_vars => PoolsMapped'
<1> SUFFICES ASSUME LedgerInv, [Next]_vars PROVE PoolsMapped'
  OBVIOUS
<1>t. /\ ospConn \in [Handles -> Nets \cup {Nil}]
      /\ ospConnPool \in [Handles -> Pools \cup {Nil}]
      /\ ospConnMap \in [Schemas -> Pools \cup {Nil}]
      /\ pool \in [Pools -> [Slots -> Nets \cup {Nil}]]
      /\ PoolsMapped /\ CallsReady /\ HandlesOk /\ PoolsReady
  BY DEF LedgerInv, PoolInv, TypeInv, TypeOK, SharedTypeOK, ThreadTypeOK
<1>g. MapGrows
  BY NextMapGrows DEF LedgerInv
<1>1. ASSUME \A h \in Handles : ospConnPool'[h] \in {ospConnPool[h], Nil},
             \A p \in Pools : \A i \in Slots :
                pool'[p][i] # Nil => pool[p][i] # Nil \/ Mapped(p)
      PROVE  PoolsMapped'
  BY <1>t, <1>g, <1>1, MappedStays DEF PoolsMapped
<1>2. CASE UNCHANGED vars
  BY <1>1, <1>2 DEF vars, shared, thread
<1>3. ASSUME NEW h \in Handles, Call(h)
      PROVE  PoolsMapped'
  BY <1>1, <1>3 DEF Call, mysql_init, RealConnectRefused, mysql_real_connect,
         SelectRefused, SelectSame, mysql_select_db, mysql_close,
         CloseUnconnected, shared
<1>4. ASSUME NEW h \in Handles, CreatePool(h)
      PROVE  PoolsMapped'
  <2>1. PICK p \in Pools \ UsedPools :
           /\ pool' = [pool EXCEPT ![p] = EmptyPool]
           /\ ospConnMap' = [ospConnMap EXCEPT ![call[h].schema] = p]
           /\ ospConnPool' = [ospConnPool EXCEPT ![h] = p]
    BY <1>4 DEF CreatePool
  <2>2. call[h].schema \in Schemas
    BY <1>4, <1>t DEF CreatePool, CallsReady, CallReady
  <2>3. Mapped(p)'
    BY <1>t, <2>1, <2>2 DEF Mapped
  <2>4. (\A k \in Handles : ospConnPool[k] # Nil => Mapped(ospConnPool[k]))'
    BY <1>t, <1>g, <2>1, <2>3, MappedStays DEF PoolsMapped
  <2>5. \A q \in Pools : \A i \in Slots : pool'[q][i] # Nil => Mapped(q)'
    BY <1>t, <1>g, <2>1, <2>3, MappedStays DEF PoolsMapped
  <2> QED
    BY <2>4, <2>5 DEF PoolsMapped
<1>5. ASSUME NEW h \in Handles, FindPool(h)
      PROVE  PoolsMapped'
  <2>1. call[h].schema \in Schemas /\ UNCHANGED <<ospConnMap, pool>>
    BY <1>5, <1>t DEF FindPool, CallsReady, CallReady
  <2> QED
    BY <1>t, <1>5, <2>1 DEF FindPool, PoolsMapped, Mapped
<1>6. ASSUME NEW h \in Handles, Borrow(h)
      PROVE  PoolsMapped'
  <2>1. \A p \in Pools : \A i \in Slots : pool'[p][i] # Nil => pool[p][i] # Nil
    BY <1>t, <1>6 DEF Borrow, borrow
  <2> QED
    BY <1>1, <1>6, <2>1 DEF Borrow
<1>7. ASSUME NEW h \in Handles, ReturnConnection(h)
      PROVE  PoolsMapped'
  <2>1. ospConnPool[h] # Nil /\ Mapped(ospConnPool[h])
    BY <1>t, <1>7 DEF ReturnConnection, HandlesOk, HandleOk, HandsFull, HasPool,
                      PoolsMapped
  <2>2. \A p \in Pools : \A i \in Slots :
           pool'[p][i] # Nil => pool[p][i] # Nil \/ Mapped(p)
    BY <1>t, <1>7, <2>1 DEF ReturnConnection, giveBack
  <2> QED
    BY <1>1, <1>7, <2>2 DEF ReturnConnection
<1>8. ASSUME NEW h \in Handles,
             \/ StoreInfo(h) \/ \E ok \in BOOLEAN : NativeConnect(h, ok)
             \/ RefuseBlank(h) \/ LockPools(h) \/ PingOk(h) \/ PingFails(h)
             \/ NewConnection(h) \/ NewConnectionFails(h) \/ HandshakeOk(h)
             \/ HandshakeFails(h) \/ Disconnected(h) \/ DisconnectFails(h)
             \/ NativeClose(h) \/ AfterClose(h)
      PROVE  PoolsMapped'
  <2>1. UNCHANGED pool /\ \A k \in Handles : ospConnPool'[k] \in {ospConnPool[k], Nil}
    BY <1>t, <1>8 DEF StoreInfo, NativeConnect, RefuseBlank, LockPools, PingOk,
         PingFails, NewConnection, NewConnectionFails, HandshakeOk,
         HandshakeFails, Disconnected, DisconnectFails, NativeClose, AfterClose,
         connectFails, shared
  <2> QED
    BY <1>1, <2>1
<1> QED
  BY <1>2, <1>3, <1>4, <1>5, <1>6, <1>7, <1>8 DEF Next, Step

LEMMA LedgerInit == Init => LedgerInv
<1> SUFFICES ASSUME Init PROVE LedgerInv
  OBVIOUS
<1>1. ExclusiveOwnership
  BY DEF Init, ExclusiveOwnership, PooledOnce, UsedOnce, PooledOrUsed,
         NoDangling, EmptyPool
<1>2. PoolsMapped
  BY DEF Init, PoolsMapped, EmptyPool
<1> QED
  BY <1>1, <1>2, PoolInit, HandlesInit DEF LedgerInv

LEMMA LedgerNext == LedgerInv /\ [Next]_vars => LedgerInv'
  BY PoolNext, OwnershipNext, HandlesNext, PoolsMappedNext DEF LedgerInv, PoolInv
-----------------------------------------------------------------------------
(* What a step does to the network connections: at most one of them moves. *)

\* The step leaves the connection m alone.
Undisturbed(m) ==
    /\ netHost'[m] = netHost[m]
    /\ \A p \in Pools : \A i \in Slots : (pool'[p][i] = m) <=> (pool[p][i] = m)
    /\ \A h \in Handles : (ospConn'[h] = m) <=> (ospConn[h] = m)
    /\ \A h \in Handles : ospConn[h] = m => ospConnPool'[h] = ospConnPool[h]

\* The step moves n out of, or into, the hands of h.
Opens(h, n) ==
    /\ ospConn[h] = Nil /\ ospConn'[h] = n /\ ~Live(n)
    /\ UNCHANGED ospConnPool
Takes(h, n) ==
    /\ ospConn[h] = Nil /\ ospConn'[h] = n
    /\ \E i \in Slots : pool[ospConnPool[h]][i] = n
    /\ UNCHANGED ospConnPool
Gives(h, n) ==
    /\ ospConn[h] = n
    /\ \E i \in Slots : pool'[ospConnPool[h]][i] = n
Deletes(h, n)  == ospConn[h] = n /\ netHost'[n] = Nil
Abandons(h, n) ==
    /\ ospConn[h] = n /\ pc[h] \in {"handshake", "close"}
    /\ ospConn' = [ospConn EXCEPT ![h] = Nil]
    /\ UNCHANGED <<pool, netHost>>

Moves(h, n) ==
    /\ \/ Opens(h, n) \/ Takes(h, n) \/ Gives(h, n) \/ Deletes(h, n)
       \/ Abandons(h, n)
    /\ \A m \in Nets \ {n} : Undisturbed(m)

LEMMA QuietStep ==
    ASSUME UNCHANGED <<pool, ospConn, netHost>>,
           \A h \in Handles : ospConn[h] # Nil => ospConnPool'[h] = ospConnPool[h],
           Nil \notin Nets
    PROVE  \A m \in Nets : Undisturbed(m)
  BY DEF Undisturbed

LEMMA NextMoves ==
    LedgerInv /\ [Next]_vars =>
        \/ \A m \in Nets : Undisturbed(m)
        \/ \E h \in Handles, n \in Nets : Moves(h, n)
<1> DEFINE Claim == \/ \A m \in Nets : Undisturbed(m)
                    \/ \E h \in Handles, n \in Nets : Moves(h, n)
<1> SUFFICES ASSUME LedgerInv, [Next]_vars PROVE Claim
  OBVIOUS
<1>t. /\ ospConn \in [Handles -> Nets \cup {Nil}]
      /\ ospConnPool \in [Handles -> Pools \cup {Nil}]
      /\ pool \in [Pools -> [Slots -> Nets \cup {Nil}]]
      /\ netHost \in [Nets -> OspHosts \cup {Nil}]
      /\ PoolsMapped /\ HandlesOk /\ CallsReady /\ Nil \notin Nets
  BY DEF LedgerInv, PoolInv, TypeInv, TypeOK, SharedTypeOK, ThreadTypeOK
<1>1. CASE UNCHANGED vars
  BY <1>t, <1>1, QuietStep DEF vars, shared, thread
<1>2. ASSUME NEW h \in Handles, Call(h)
      PROVE  Claim
  <2>1. UNCHANGED <<pool, ospConn, netHost, ospConnPool>>
    BY <1>2 DEF Call, mysql_init, RealConnectRefused, mysql_real_connect,
         SelectRefused, SelectSame, mysql_select_db, mysql_close,
         CloseUnconnected, shared
  <2> QED
    BY <1>t, <2>1, QuietStep
<1>3. ASSUME NEW h \in Handles, Step(h)
      PROVE  Claim
  <2>t. HandleOk(h) /\ CallReady(h)
    BY <1>t DEF HandlesOk, CallsReady
  <2>1. ASSUME \/ StoreInfo(h) \/ \E ok \in BOOLEAN : NativeConnect(h, ok)
               \/ LockPools(h) \/ PingOk(h) \/ HandshakeOk(h)
               \/ Disconnected(h) \/ NativeClose(h)
        PROVE  Claim
    <3>1. UNCHANGED <<pool, ospConn, netHost, ospConnPool>>
      BY <2>1 DEF StoreInfo, NativeConnect, LockPools, PingOk, HandshakeOk,
                  Disconnected, NativeClose, shared
    <3> QED
      BY <1>t, <3>1, QuietStep
  <2>2. ASSUME RefuseBlank(h) \/ FindPool(h) \/ NewConnectionFails(h) \/ AfterClose(h)
        PROVE  Claim
    <3>1. ospConn[h] = Nil /\ UNCHANGED <<pool, ospConn, netHost>>
      BY <2>t, <2>2 DEF HandleOk, HandsFree, Connects, RefuseBlank, FindPool,
                        NewConnectionFails, AfterClose, shared
    <3>2. \A k \in Handles \ {h} : ospConnPool'[k] = ospConnPool[k]
      BY <1>t, <2>2 DEF RefuseBlank, FindPool, NewConnectionFails, AfterClose,
                        connectFails
    <3> QED
      BY <1>t, <3>1, <3>2, QuietStep
  <2>3. ASSUME CreatePool(h)
        PROVE  Claim
    <3>1. PICK p \in Pools \ UsedPools :
             /\ pool' = [pool EXCEPT ![p] = EmptyPool]
             /\ ospConnPool' = [ospConnPool EXCEPT ![h] = p]
      BY <2>3 DEF CreatePool
    <3>2. \A q \in Pools : \A i \in Slots : pool'[q][i] = pool[q][i]
      BY <1>t, <3>1, FreshIsEmpty DEF EmptyPool
    <3>3. ospConn[h] = Nil /\ UNCHANGED <<ospConn, netHost>>
      BY <2>t, <2>3 DEF HandleOk, HandsFree, Connects, CreatePool
    <3> QED
      BY <1>t, <3>1, <3>2, <3>3 DEF Undisturbed
  <2>4. ASSUME Borrow(h)
        PROVE  Claim
    <3> DEFINE p == ospConnPool[h]
    <3>1. p \in Pools /\ ospConn[h] = Nil
      BY <2>t, <2>4 DEF Borrow, CallReady, Dialling, HandleOk, HandsFree
    <3>2. CASE UNCHANGED <<pool, ospConn>>
      BY <1>t, <2>4, <3>2, QuietStep DEF Borrow
    <3>3. ASSUME NEW i \in borrowSlot(pool[p]),
                 pool' = [pool EXCEPT ![p] = borrow(pool[p], i)],
                 ospConn' = [ospConn EXCEPT ![h] = pool[p][i]]
          PROVE  Claim
      <4> DEFINE n == pool[p][i]
      <4>1. i \in Slots /\ n \in Nets
        BY <1>t, <3>1, SlotsAreSlots
      <4>2. Takes(h, n)
        BY <1>t, <2>4, <3>1, <3>3, <4>1 DEF Takes, Borrow
      <4>3. \A m \in Nets \ {n} : Undisturbed(m)
        BY <1>t, <2>4, <3>1, <3>3, <4>1 DEF Undisturbed, Borrow, borrow
      <4> QED
        BY <4>1, <4>2, <4>3 DEF Moves
    <3> QED
      BY <2>4, <3>2, <3>3 DEF Borrow
  <2>5. ASSUME NewConnection(h)
        PROVE  Claim
    <3>1. PICK n \in Nets : /\ netHost[n] = Nil
                            /\ netHost' = [netHost EXCEPT ![n] = call[h].host]
                            /\ ospConn' = [ospConn EXCEPT ![h] = n]
      BY <2>5 DEF NewConnection
    <3>2. ospConn[h] = Nil /\ UNCHANGED <<pool, ospConnPool>>
      BY <2>t, <2>5 DEF NewConnection, HandleOk, HandsFree
    <3>3. Opens(h, n)
      BY <1>t, <3>1, <3>2 DEF Opens, Live
    <3>4. \A m \in Nets \ {n} : Undisturbed(m)
      BY <1>t, <3>1, <3>2 DEF Undisturbed
    <3> QED
      BY <3>3, <3>4 DEF Moves
  <2>6. ASSUME PingFails(h)
        PROVE  Claim
    <3> DEFINE n == ospConn[h]
    <3>1. n \in Nets
      BY <1>t, <2>t, <2>6 DEF PingFails, HandleOk, HandsFull
    <3>2. Deletes(h, n)
      BY <1>t, <2>6, <3>1 DEF Deletes, PingFails
    <3>3. \A m \in Nets \ {n} : Undisturbed(m)
      BY <1>t, <2>6, <3>1 DEF Undisturbed, PingFails
    <3> QED
      BY <3>1, <3>2, <3>3 DEF Moves
  <2>7. ASSUME HandshakeFails(h) \/ DisconnectFails(h)
        PROVE  Claim
    <3> DEFINE n == ospConn[h]
    <3>1. n \in Nets
      BY <1>t, <2>t, <2>7 DEF HandshakeFails, DisconnectFails, HandleOk, HandsFull
    <3>2. /\ ospConn' = [ospConn EXCEPT ![h] = Nil]
          /\ UNCHANGED <<pool, netHost>>
          /\ \A k \in Handles \ {h} : ospConnPool'[k] = ospConnPool[k]
          /\ pc[h] \in {"handshake", "close"}
      BY <1>t, <2>7 DEF HandshakeFails, DisconnectFails, connectFails, shared
    <3>3. Abandons(h, n)
      BY <1>t, <3>1, <3>2 DEF Abandons
    <3>4. \A m \in Nets \ {n} : Undisturbed(m)
      BY <1>t, <3>1, <3>2 DEF Undisturbed
    <3> QED
      BY <3>1, <3>3, <3>4 DEF Moves
  <2>8. ASSUME ReturnConnection(h)
        PROVE  Claim
    <3> DEFINE n == ospConn[h]
               p == ospConnPool[h]
    <3>1. n \in Nets /\ p \in Pools
      BY <1>t, <2>t, <2>8 DEF ReturnConnection, HandleOk, HandsFull, HasPool
    <3>2. /\ ospConn' = [ospConn EXCEPT ![h] = Nil]
          /\ UNCHANGED ospConnPool
      BY <2>8 DEF ReturnConnection
    <3>3. ASSUME NEW i \in returnSlot(pool[p]),
                 pool' = [pool EXCEPT ![p] = giveBack(pool[p], i, n)],
                 UNCHANGED netHost
          PROVE  Claim
      <4>1. i \in Slots /\ pool[p][i] = Nil
        BY SlotsAreSlots
      <4>2. Gives(h, n)
        BY <1>t, <3>1, <3>3, <4>1 DEF Gives, giveBack
      <4>3. \A m \in Nets \ {n} : Undisturbed(m)
        BY <1>t, <3>1, <3>2, <3>3, <4>1 DEF Undisturbed, giveBack
      <4> QED
        BY <3>1, <4>2, <4>3 DEF Moves
    <3>4. ASSUME netHost' = [netHost EXCEPT ![n] = Nil], UNCHANGED pool
          PROVE  Claim
      <4>1. Deletes(h, n)
        BY <1>t, <3>1, <3>4 DEF Deletes
      <4>2. \A m \in Nets \ {n} : Undisturbed(m)
        BY <1>t, <3>1, <3>2, <3>4 DEF Undisturbed
      <4> QED
        BY <3>1, <4>1, <4>2 DEF Moves
    <3> QED
      BY <2>8, <3>3, <3>4 DEF ReturnConnection
  <2> QED
    BY <1>3, <2>1, <2>2, <2>3, <2>4, <2>5, <2>6, <2>7, <2>8 DEF Step
<1> QED
  BY <1>1, <1>2, <1>3 DEF Next

\* Only a refused connect request or a failed disconnect request loses a
\* network connection that is still open.
THEOREM LosesOnlyByFailure == Spec => LosesOnlyOnFailure
<1> DEFINE A == \A n \in Nets :
                   Live(n) /\ Reachable(n) /\ Live(n)' /\ ~Reachable(n)' =>
                      \E h \in Handles : ospConn[h] = n /\ pc[h] \in {"handshake", "close"}
<1>1. LedgerInv /\ [Next]_vars => A
  <2> SUFFICES ASSUME LedgerInv, [Next]_vars, NEW n \in Nets,
                      Live(n), Reachable(n), Live(n)', ~Reachable(n)'
               PROVE  \E h \in Handles : /\ ospConn[h] = n
                                         /\ pc[h] \in {"handshake", "close"}
    OBVIOUS
  <2>1. ~Undisturbed(n)
    BY DEF Undisturbed, Reachable, InPool
  <2>2. PICK h \in Handles : Moves(h, n)
    BY <2>1, NextMoves DEF Moves
  <2>3. ~Opens(h, n) /\ ~Takes(h, n)
    BY DEF Opens, Takes, Reachable
  <2>4. ospConn[h] = n /\ ~Deletes(h, n)
    BY <2>2, <2>3 DEF Moves, Gives, Deletes, Abandons, Live
  <2>5. ~Gives(h, n)
    BY <2>4 DEF Gives, Reachable, InPool, LedgerInv, HandlesOk, HandleOk, HasPool,
                PoolInv, TypeInv, TypeOK, ThreadTypeOK
  <2> QED
    BY <2>2, <2>3, <2>4, <2>5 DEF Moves, Abandons
<1> QED
  BY <1>1, LedgerInit, LedgerNext, PTL DEF Spec, LosesOnlyOnFailure

-----------------------------------------------------------------------------
(* MySQLDriver implements the ledger of ConnectionOwnership: a step moves  *)
(* at most one network connection, in one of five ways, and each of them   *)
(* is one action of the ledger.                                            *)

places == [n \in Nets |-> placeOf(n)]

-----------------------------------------------------------------------------
(* The place of a connection, without CHOOSE.                              *)

PlaceFacts ==
    LedgerInv => \A n \in Nets :
        /\ ~Live(n) => placeOf(n) = Ownership!Absent
        /\ \A p \in Pools, i \in Slots, s \in Schemas :
              pool[p][i] = n /\ ospConnMap[s] = p => placeOf(n) = Ownership!Pooled(s)
        /\ \A h \in Handles, s \in Schemas :
              ospConn[h] = n /\ ospConnMap[s] = ospConnPool[h]
                 => placeOf(n) = Ownership!Used(h, s)
        /\ Live(n) /\ ~Reachable(n) => placeOf(n) = Ownership!Lost

LEMMA SchemaIsUnique ==
    ASSUME PoolsApart, NEW s \in Schemas, NEW p \in Pools, ospConnMap[s] = p
    PROVE  SchemaOf(p) = s
  BY DEF PoolsApart, SchemaOf

LEMMA PlacesAre == PlaceFacts
<1> SUFFICES ASSUME LedgerInv, NEW n \in Nets
             PROVE  /\ ~Live(n) => placeOf(n) = Ownership!Absent
                    /\ \A p \in Pools, i \in Slots, s \in Schemas :
                          pool[p][i] = n /\ ospConnMap[s] = p
                             => placeOf(n) = Ownership!Pooled(s)
                    /\ \A h \in Handles, s \in Schemas :
                          ospConn[h] = n /\ ospConnMap[s] = ospConnPool[h]
                             => placeOf(n) = Ownership!Used(h, s)
                    /\ Live(n) /\ ~Reachable(n) => placeOf(n) = Ownership!Lost
  BY DEF PlaceFacts
<1>t. PoolsApart /\ ExclusiveOwnership /\ HandlesOk /\ TypeOK
  BY DEF LedgerInv, PoolInv, TypeInv
<1>1. ~Live(n) => placeOf(n) = Ownership!Absent
  BY DEF placeOf, Ownership!Absent
<1>2. ASSUME NEW p \in Pools, NEW i \in Slots, NEW s \in Schemas,
             pool[p][i] = n, ospConnMap[s] = p
      PROVE  placeOf(n) = Ownership!Pooled(s)
  <2>1. Live(n) /\ InPool(n)
    BY <1>t, <1>2 DEF ExclusiveOwnership, NoDangling, InPool
  <2>2. p = CHOOSE q \in Pools : \E j \in Slots : pool[q][j] = n
    BY <1>t, <1>2 DEF ExclusiveOwnership, PooledOnce
  <2>3. SchemaOf(p) = s
    BY <1>t, <1>2, SchemaIsUnique
  <2> QED
    BY <2>1, <2>2, <2>3 DEF placeOf, Ownership!Pooled
<1>3. ASSUME NEW h \in Handles, NEW s \in Schemas,
             ospConn[h] = n, ospConnMap[s] = ospConnPool[h]
      PROVE  placeOf(n) = Ownership!Used(h, s)
  <2>1. Live(n) /\ ~InPool(n)
    BY <1>t, <1>3 DEF ExclusiveOwnership, NoDangling, PooledOrUsed, InPool
  <2>2. h = CHOOSE k \in Handles : ospConn[k] = n
    BY <1>t, <1>3 DEF ExclusiveOwnership, UsedOnce
  <2>3. ospConnPool[h] \in Pools
    BY <1>t, <1>3 DEF HandlesOk, HandleOk, HasPool, TypeOK, ThreadTypeOK
  <2>4. SchemaOf(ospConnPool[h]) = s
    BY <1>t, <1>3, <2>3, SchemaIsUnique
  <2> QED
    BY <1>3, <2>1, <2>2, <2>4 DEF placeOf, Ownership!Used
<1>4. Live(n) /\ ~Reachable(n) => placeOf(n) = Ownership!Lost
  BY DEF placeOf, Reachable, Ownership!Lost
<1> QED
  BY <1>1, <1>2, <1>3, <1>4

LEMMA PlacesAreNext == PlaceFacts'
  BY PlacesAre, PTL

\* Every reachable connection has a schema: that of its pool, or of the pool
\* its handle will return it to.
LEMMA PooledHasSchema ==
    ASSUME LedgerInv, NEW p \in Pools, NEW i \in Slots, pool[p][i] # Nil
    PROVE  \E s \in Schemas : ospConnMap[s] = p
  BY DEF LedgerInv, PoolsMapped, Mapped

LEMMA UsedHasSchema ==
    ASSUME LedgerInv, NEW h \in Handles, ospConn[h] # Nil
    PROVE  /\ ospConnPool[h] \in Pools
           /\ \E s \in Schemas : ospConnMap[s] = ospConnPool[h]
  BY DEF LedgerInv, PoolsMapped, Mapped, HandlesOk, HandleOk, HasPool, PoolInv,
         TypeInv, TypeOK, ThreadTypeOK

\* A handle with empty hands uses nothing in the ledger.
LEMMA EmptyHandsAreFree ==
    ASSUME LedgerInv, NEW h \in Handles, ospConn[h] = Nil
    PROVE  Ownership!Free(h)
<1> SUFFICES ASSUME NEW n \in Nets PROVE ~Ownership!Uses(h, n)
  BY DEF Ownership!Free
<1>1. CASE ~Live(n)
  BY <1>1, PlacesAre DEF PlaceFacts, Ownership!Uses, Ownership!Absent
<1>2. CASE InPool(n)
  <2>1. PICK p \in Pools, i \in Slots : pool[p][i] = n
    BY <1>2 DEF InPool
  <2>2. PICK s \in Schemas : ospConnMap[s] = p
    BY <2>1, PooledHasSchema
  <2>3. placeOf(n) = Ownership!Pooled(s)
    BY <2>1, <2>2, PlacesAre DEF PlaceFacts
  <2> QED
    BY <2>3 DEF Ownership!Uses, Ownership!Pooled
<1>3. ASSUME NEW k \in Handles, ospConn[k] = n
      PROVE  ~Ownership!Uses(h, n)
  <2>1. PICK s \in Schemas : ospConnMap[s] = ospConnPool[k]
    BY <1>3, UsedHasSchema
  <2>2. placeOf(n) = Ownership!Used(k, s) /\ k # h
    BY <1>3, <2>1, PlacesAre DEF PlaceFacts
  <2> QED
    BY <2>2 DEF Ownership!Uses, Ownership!Used
<1>4. CASE Live(n) /\ ~Reachable(n)
  BY <1>4, PlacesAre DEF PlaceFacts, Ownership!Uses, Ownership!Lost
<1> QED
  BY <1>1, <1>2, <1>3, <1>4 DEF Reachable

-----------------------------------------------------------------------------
(* Every step is a step of the ledger.                                     *)

LEMMA UndisturbedStays ==
    ASSUME LedgerInv, LedgerInv', MapGrows, NEW m \in Nets, Undisturbed(m)
    PROVE  placeOf(m)' = placeOf(m)
<1>1. CASE ~Live(m)
  BY <1>1, PlacesAre, PlacesAreNext DEF PlaceFacts, Undisturbed, Live,
     Ownership!Absent
<1>2. CASE InPool(m)
  <2>1. PICK p \in Pools, i \in Slots : pool[p][i] = m
    BY <1>2 DEF InPool
  <2>2. PICK s \in Schemas : ospConnMap[s] = p
    BY <2>1, PooledHasSchema
  <2>3. pool'[p][i] = m /\ ospConnMap'[s] = p
    BY <2>1, <2>2 DEF Undisturbed, MapGrows
  <2> QED
    BY <2>1, <2>2, <2>3, PlacesAre, PlacesAreNext DEF PlaceFacts, Ownership!Pooled
<1>3. ASSUME NEW h \in Handles, ospConn[h] = m
      PROVE  placeOf(m)' = placeOf(m)
  <2>1. PICK s \in Schemas : ospConnMap[s] = ospConnPool[h] /\ ospConnPool[h] \in Pools
    BY <1>3, UsedHasSchema
  <2>2. ospConn'[h] = m /\ ospConnMap'[s] = ospConnPool'[h]
    BY <1>3, <2>1 DEF Undisturbed, MapGrows
  <2> QED
    BY <1>3, <2>1, <2>2, PlacesAre, PlacesAreNext DEF PlaceFacts, Ownership!Used
<1>4. CASE Live(m) /\ ~Reachable(m)
  <2>1. (Live(m) /\ ~Reachable(m))'
    BY <1>4 DEF Undisturbed, Live, Reachable, InPool
  <2> QED
    BY <1>4, <2>1, PlacesAre, PlacesAreNext DEF PlaceFacts, Ownership!Lost
<1> QED
  BY <1>1, <1>2, <1>3, <1>4 DEF Reachable

\* One connection moves and the others stay: a move of the ledger.
LEMMA MoveOfLedger ==
    ASSUME LedgerInv, LedgerInv', MapGrows, NEW n \in Nets, NEW to,
           \A m \in Nets \ {n} : Undisturbed(m), placeOf(n)' = to
    PROVE  Ownership!Move(n, placeOf(n), to)
<1>1. \A m \in Nets \ {n} : placeOf(m)' = placeOf(m)
  BY UndisturbedStays
<1>2. places' = [places EXCEPT ![n] = to]
  BY <1>1 DEF places
<1> QED
  BY <1>2 DEF Ownership!Move, places

LEMMA NextRefines ==
    LedgerInv /\ LedgerInv' /\ [Next]_vars => [Ownership!Next]_places
<1> SUFFICES ASSUME LedgerInv, LedgerInv', [Next]_vars
             PROVE  Ownership!Next \/ UNCHANGED places
  OBVIOUS
<1>g. MapGrows /\ Nil \notin Nets
  BY NextMapGrows DEF LedgerInv
<1>1. CASE \A m \in Nets : Undisturbed(m)
  <2>1. \A m \in Nets : placeOf(m)' = placeOf(m)
    BY <1>1, <1>g, UndisturbedStays
  <2> QED
    BY <2>1 DEF places
<1>2. ASSUME NEW h \in Handles, NEW n \in Nets, Moves(h, n)
      PROVE  Ownership!Next
  <2>o. \A m \in Nets \ {n} : Undisturbed(m)
    BY <1>2 DEF Moves
  <2>1. CASE Opens(h, n)
    <3>1. PICK s \in Schemas : ospConnMap'[s] = ospConnPool'[h]
      BY <2>1, <1>g DEF Opens, LedgerInv, PoolsMapped, Mapped, HandlesOk,
                        HandleOk, HasPool
    <3>2. placeOf(n) = Ownership!Absent /\ placeOf(n)' = Ownership!Used(h, s)
      BY <2>1, <3>1, PlacesAre, PlacesAreNext DEF Opens, PlaceFacts
    <3>3. Ownership!Open(n, h, s)
      BY <1>g, <2>o, <2>1, <3>2, MoveOfLedger, EmptyHandsAreFree
         DEF Ownership!Open, Opens
    <3> QED
      BY <3>3 DEF Ownership!Next
  <2>2. CASE Takes(h, n)
    <3>1. ospConnPool[h] \in Pools
      BY <2>2, <1>g DEF Takes, LedgerInv, HandlesOk, HandleOk, HasPool, PoolInv,
                        TypeInv, TypeOK, ThreadTypeOK
    <3>2. PICK i \in Slots : pool[ospConnPool[h]][i] = n
      BY <2>2 DEF Takes
    <3>3. PICK s \in Schemas : ospConnMap[s] = ospConnPool[h]
      BY <1>g, <3>1, <3>2, PooledHasSchema
    <3>4. ospConnMap'[s] = ospConnPool'[h]
      BY <1>g, <2>2, <3>1, <3>3 DEF Takes, MapGrows
    <3>5. placeOf(n) = Ownership!Pooled(s) /\ placeOf(n)' = Ownership!Used(h, s)
      BY <2>2, <3>1, <3>2, <3>3, <3>4, PlacesAre, PlacesAreNext DEF Takes, PlaceFacts
    <3>6. Ownership!Take(n, h, s)
      BY <1>g, <2>o, <2>2, <3>5, MoveOfLedger, EmptyHandsAreFree
         DEF Ownership!Take, Takes
    <3> QED
      BY <3>6 DEF Ownership!Next
  <2>3. ASSUME ospConn[h] = n
        PROVE  \E s \in Schemas : /\ ospConnPool[h] \in Pools
                                  /\ ospConnMap[s] = ospConnPool[h]
                                  /\ ospConnMap'[s] = ospConnPool[h]
                                  /\ placeOf(n) = Ownership!Used(h, s)
    BY <1>g, <2>3, UsedHasSchema, PlacesAre DEF PlaceFacts, MapGrows
  <2>4. CASE Gives(h, n)
    <3>1. PICK s \in Schemas : /\ ospConnPool[h] \in Pools
                               /\ ospConnMap'[s] = ospConnPool[h]
                               /\ placeOf(n) = Ownership!Used(h, s)
      BY <2>3, <2>4 DEF Gives
    <3>2. placeOf(n)' = Ownership!Pooled(s)
      BY <2>4, <3>1, PlacesAreNext DEF Gives, PlaceFacts
    <3>3. Ownership!GiveBack(n, h, s)
      BY <1>g, <2>o, <3>1, <3>2, MoveOfLedger DEF Ownership!GiveBack
    <3> QED
      BY <3>3 DEF Ownership!Next
  <2>5. CASE Deletes(h, n)
    <3>1. PICK s \in Schemas : placeOf(n) = Ownership!Used(h, s)
      BY <2>3, <2>5 DEF Deletes
    <3>2. placeOf(n)' = Ownership!Absent
      BY <2>5, PlacesAreNext DEF Deletes, PlaceFacts, Live
    <3>3. Ownership!Discard(n, h, s)
      BY <1>g, <2>o, <3>1, <3>2, MoveOfLedger DEF Ownership!Discard
    <3> QED
      BY <3>3 DEF Ownership!Next
  <2>6. CASE Abandons(h, n)
    <3>1. PICK s \in Schemas : placeOf(n) = Ownership!Used(h, s)
      BY <2>3, <2>6 DEF Abandons
    <3>2. Live(n) /\ ~InPool(n) /\ \A k \in Handles \ {h} : ospConn[k] # n
      BY <1>g, <2>6 DEF Abandons, LedgerInv, ExclusiveOwnership, NoDangling,
                        PooledOrUsed, UsedOnce, InPool
    <3>3. (Live(n) /\ ~Reachable(n))'
      BY <1>g, <2>6, <3>2 DEF Abandons, Live, Reachable, InPool, LedgerInv, PoolInv,
                        TypeInv, TypeOK, ThreadTypeOK
    <3>4. placeOf(n)' = Ownership!Lost
      BY <3>3, PlacesAreNext DEF PlaceFacts
    <3>5. Ownership!Lose(n, h, s)
      BY <1>g, <2>o, <3>1, <3>4, MoveOfLedger DEF Ownership!Lose
    <3> QED
      BY <3>5 DEF Ownership!Next
  <2> QED
    BY <1>2, <2>1, <2>2, <2>4, <2>5, <2>6 DEF Moves
<1> QED
  BY <1>1, <1>2, NextMoves

\* The driver implements the ledger: a connection changes hands only through
\* the pool of the schema it was opened for, a handle uses one at a time, and
\* one that is lost is never used again.
THEOREM DriverImplementsLedger == Spec => OwnershipSpec
<1>1. Init => Ownership!Init
  <2> SUFFICES ASSUME Init PROVE \A n \in Nets : placeOf(n) = Ownership!Absent
    BY DEF Ownership!Init
  <2> QED
    BY DEF Init, placeOf, Live, Ownership!Absent
<1> QED
  BY <1>1, LedgerInit, LedgerNext, NextRefines, PTL
     DEF Spec, OwnershipSpec, Ownership!Spec, places
=============================================================================
