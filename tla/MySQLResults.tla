---------------------------- MODULE MySQLResults ----------------------------
(***************************************************************************)
(* The result sets of the facade: which MYSQL_RES structures, result set   *)
(* wrappers and connection objects are alive, and what the two maps keyed  *)
(* by MYSQL_RES* say of them, while several application threads query,     *)
(* store, free, close and reconnect.  The maps are shared and the heap     *)
(* gives addresses out again, so a thread that touches an entry too late   *)
(* touches another thread's.                                               *)
(*                                                                         *)
(* Each access to a map is atomic (connmap_mutex); a call that makes       *)
(* several has a step for each.                                            *)
(***************************************************************************)
EXTENDS Naturals

CONSTANTS
    Handles,   \* MYSQL handles, each used by a thread of its own
    Conns,     \* addresses of connection objects
    Results,   \* addresses of MYSQL_RES structures
    Wrappers,  \* addresses of MySQLAbstractResultSet objects
    NULL

ASSUME ResultsAssumption == NULL \notin Handles \cup Conns \cup Results \cup Wrappers

VARIABLES
    \* shared
    liveConns, liveResults, liveWrappers,  \* what the heap has allocated
    mysqlResMap,        \* MYSQL_RES* -> wrapper
    mysqlResToConnMap,  \* MYSQL_RES* (also NULL) -> connection object
    \* of a connection object
    class,       \* "osp" or "native"
    currentRes,  \* what its mysql_store_result returns
    \* of a handle and its thread
    conn,        \* its connection object
    pending,     \* the last statement succeeded and has not been stored
    pc, rs, res, \* where its call is, and the variables of mysql_free_result
    \* what the application does with a result set it has been given
    app

heap == <<liveConns, liveResults, liveWrappers>>
maps == <<mysqlResMap, mysqlResToConnMap>>
call == <<pc, rs, res>>
vars == <<heap, maps, class, currentRes, conn, pending, call, app>>

\* A result set is the application's from the call that stores it to the one
\* that frees it.  Meanwhile its connection may have been closed or replaced.
Uses == {"no", "held", "closed", "replaced"}
Unused == [by |-> NULL, state |-> "no"]

TypeOK ==
    /\ liveConns \subseteq Conns /\ liveResults \subseteq Results
    /\ liveWrappers \subseteq Wrappers
    /\ mysqlResMap \in [Results -> Wrappers \cup {NULL}]
    /\ mysqlResToConnMap \in [Results \cup {NULL} -> Conns \cup {NULL}]
    /\ class \in [Conns -> {"osp", "native"}]
    /\ currentRes \in [Conns -> Results \cup {NULL}]
    /\ conn \in [Handles -> Conns \cup {NULL}]
    /\ \A h \in Handles : conn[h] # NULL => conn[h] \in liveConns
    /\ pending \in [Handles -> BOOLEAN]
    /\ pc \in [Handles -> {"idle", "store", "unmap", "free", "delete", "close",
                          "replace"}]
    /\ rs \in [Handles -> Wrappers \cup {NULL}]
    /\ res \in [Handles -> Results \cup {NULL}]
    /\ app \in [Results -> [by : Handles \cup {NULL}, state : Uses]]

Init ==
    /\ liveConns = {} /\ liveResults = {} /\ liveWrappers = {}
    /\ mysqlResMap = [r \in Results |-> NULL]
    /\ mysqlResToConnMap = [r \in Results \cup {NULL} |-> NULL]
    /\ class = [c \in Conns |-> "osp"]
    /\ currentRes = [c \in Conns |-> NULL]
    /\ conn = [h \in Handles |-> NULL]
    /\ pending = [h \in Handles |-> FALSE]
    /\ pc = [h \in Handles |-> "idle"]
    /\ rs = [h \in Handles |-> NULL] /\ res = [h \in Handles |-> NULL]
    /\ app = [r \in Results |-> Unused]

-----------------------------------------------------------------------------

goto(h, label) == pc' = [pc EXCEPT ![h] = label]
Connected(h)   == pc[h] = "idle" /\ conn[h] # NULL

\* The results that h holds become ones of a connection that is gone.
outlive(h, state) ==
    app' = [r \in Results |-> IF app[r].by = h /\ app[r].state = "held"
                              THEN [by |-> h, state |-> state] ELSE app[r]]

\* Mutant of setResultSet: map::insert, which keeps an entry that is there.
insertResultSet(r) ==
    \E w \in Wrappers \ liveWrappers :
        /\ liveWrappers' = liveWrappers \cup {w}
        /\ mysqlResMap' = IF mysqlResMap[r] # NULL THEN mysqlResMap
                          ELSE [mysqlResMap EXCEPT ![r] = w]

\* MySQLConnMap::setResultSet with a new wrapper
setResultSet(r) ==
    \E w \in Wrappers \ liveWrappers :
        /\ liveWrappers' = liveWrappers \cup {w}
        /\ mysqlResMap' = [mysqlResMap EXCEPT ![r] = w]

\* MySQLConnMap::setConnection, ::erase, ::eraseResults and ::getConnection
setConnection(r, c) == mysqlResToConnMap' = [mysqlResToConnMap EXCEPT ![r] = c]
erase(r)            == setConnection(r, NULL)
getConnection(r)    == mysqlResToConnMap[r]

\* Mutant of eraseResults: the loop ends with the first entry it finds.
eraseFirstResult(c) ==
    LET mine == {r \in Results \cup {NULL} : getConnection(r) = c}
    IN  \/ mine = {} /\ UNCHANGED mysqlResToConnMap
        \/ \E r \in mine : erase(r)

\* Mutant of eraseResults: the entries of every connection go.
eraseAllResults(c) ==
    mysqlResToConnMap' = [r \in Results \cup {NULL} |-> NULL]

eraseResults(c) ==
    mysqlResToConnMap' = [r \in Results \cup {NULL} |->
                             IF getConnection(r) = c THEN NULL ELSE getConnection(r)]

-----------------------------------------------------------------------------
(* mysql_real_connect makes the connection object.                         *)

Connect(h, c) ==
    /\ pc[h] = "idle" /\ conn[h] = NULL
    /\ c \notin liveConns
    /\ liveConns' = liveConns \cup {c}
    /\ \E k \in {"osp", "native"} : class' = [class EXCEPT ![c] = k]
    /\ currentRes' = [currentRes EXCEPT ![c] = NULL]
    /\ conn' = [conn EXCEPT ![h] = c]
    /\ pending' = [pending EXCEPT ![h] = FALSE]
    /\ UNCHANGED <<liveResults, liveWrappers, maps, call, app>>

\* mysql_real_query.  The application stores a result before it asks for the
\* next.  In OSP mode the query makes the result set and its wrapper.
Query(h) ==
    /\ Connected(h) /\ ~pending[h]
    /\ pending' = [pending EXCEPT ![h] = TRUE]
    /\ \/ /\ class[conn[h]] = "osp"
          /\ \E r \in Results \ liveResults :
                /\ liveResults' = liveResults \cup {r}
                /\ setResultSet(r)
                /\ currentRes' = [currentRes EXCEPT ![conn[h]] = r]
       \/ /\ currentRes' = [currentRes EXCEPT ![conn[h]] = NULL]
          /\ UNCHANGED <<liveResults, liveWrappers, mysqlResMap>>
    /\ UNCHANGED <<liveConns, mysqlResToConnMap, class, conn, call, app>>

\* A query that fails before or while it receives rows.  What it made of its
\* result set is nobody's, but when an exception ended it currentRes still
\* points there.
QueryFails(h) ==
    /\ Connected(h) /\ ~pending[h] /\ class[conn[h]] = "osp"
    /\ \/ /\ currentRes' = [currentRes EXCEPT ![conn[h]] = NULL]
          /\ UNCHANGED liveResults
       \/ \E r \in Results \ liveResults :
             /\ liveResults' = liveResults \cup {r}
             /\ \E left \in {r, NULL} :
                   currentRes' = [currentRes EXCEPT ![conn[h]] = left]
    /\ UNCHANGED <<liveConns, liveWrappers, maps, class, conn, pending, call, app>>

-----------------------------------------------------------------------------
(* mysql_store_result of the facade: the call on the connection object,    *)
(* then the entry in mysqlResToConnMap.                                    *)

\* A native connection makes the result set and its wrapper now.  For a
\* statement without one it enters a wrapper for NULL in mysqlResMap, which
\* nothing looks up and the model leaves out.
NativeStore(h) ==
    /\ Connected(h) /\ pending[h] /\ class[conn[h]] = "native"
    /\ \/ \E r \in Results \ liveResults :
             /\ liveResults' = liveResults \cup {r}
             /\ setResultSet(r)
             /\ currentRes' = [currentRes EXCEPT ![conn[h]] = r]
       \/ UNCHANGED <<liveResults, liveWrappers, mysqlResMap, currentRes>>
    /\ goto(h, "store")
    /\ UNCHANGED <<liveConns, mysqlResToConnMap, class, conn, pending, rs, res, app>>

\* An OSP connection only returns currentRes.
Stored(h) ==
    /\ conn[h] # NULL /\ pending[h]
    /\ pc[h] = IF class[conn[h]] = "osp" THEN "idle" ELSE "store"

Store(h, r) ==
    /\ Stored(h) /\ r = currentRes[conn[h]]
    /\ setConnection(r, conn[h])
    /\ app' = [app EXCEPT ![r] = [by |-> h, state |-> "held"]]
    /\ pending' = [pending EXCEPT ![h] = FALSE]
    /\ goto(h, "idle")
    /\ UNCHANGED <<heap, mysqlResMap, class, currentRes, conn, rs, res>>

\* ... and for a statement without a result set: the key of the entry is NULL.
StoreNull(h) ==
    /\ Stored(h) /\ currentRes[conn[h]] = NULL
    /\ setConnection(NULL, conn[h])
    /\ pending' = [pending EXCEPT ![h] = FALSE]
    /\ goto(h, "idle")
    /\ UNCHANGED <<heap, mysqlResMap, class, currentRes, conn, rs, res, app>>

-----------------------------------------------------------------------------
(* mysql_free_result: look up the wrapper, remove from the map, delete the *)
(* result set, delete the wrapper.                                         *)

Lookup(h, r) ==
    /\ pc[h] = "idle" /\ app[r].by = h
    /\ app' = [app EXCEPT ![r] = Unused]
    /\ rs' = [rs EXCEPT ![h] = mysqlResMap[r]]
    /\ res' = [res EXCEPT ![h] = r]
    /\ goto(h, "unmap")
    /\ UNCHANGED <<heap, maps, class, currentRes, conn, pending>>

Unmap(h) ==
    /\ pc[h] = "unmap"
    /\ erase(res[h])
    /\ goto(h, "free")
    /\ UNCHANGED <<heap, mysqlResMap, class, currentRes, conn, pending, rs, res, app>>

Free(h) ==
    /\ pc[h] = "free"
    /\ liveResults' = liveResults \ {res[h]}
    /\ goto(h, "delete")
    /\ UNCHANGED <<liveConns, liveWrappers, maps, class, currentRes, conn,
                   pending, rs, res, app>>

\* The entry of mysqlResMap stays behind.
DeleteWrapper(h) ==
    /\ pc[h] = "delete"
    /\ liveWrappers' = liveWrappers \ {rs[h]}
    /\ rs' = [rs EXCEPT ![h] = NULL] /\ res' = [res EXCEPT ![h] = NULL]
    /\ goto(h, "idle")
    /\ UNCHANGED <<liveConns, liveResults, maps, class, currentRes, conn,
                   pending, app>>

-----------------------------------------------------------------------------
(* mysql_close erases the results of the connection object, then deletes   *)
(* it; mysql_real_connect and mysql_select_db only delete it.              *)

mysql_close(h) ==
    /\ Connected(h)
    /\ eraseResults(conn[h])
    /\ outlive(h, "closed")
    /\ goto(h, "close")
    /\ UNCHANGED <<heap, mysqlResMap, class, currentRes, conn, pending, rs, res>>

Replace(h) ==
    /\ Connected(h)
    /\ outlive(h, "replaced")
    /\ goto(h, "replace")
    /\ UNCHANGED <<heap, maps, class, currentRes, conn, pending, rs, res>>

\* Mutant of DeleteConnection: the reference is not reset.
DeleteKeepsReference(h) ==
    /\ pc[h] \in {"close", "replace"}
    /\ liveConns' = liveConns \ {conn[h]}
    /\ pending' = [pending EXCEPT ![h] = FALSE]
    /\ goto(h, "idle")
    /\ UNCHANGED <<liveResults, liveWrappers, maps, class, currentRes, conn, rs, res, app>>

DeleteConnection(h) ==
    /\ pc[h] \in {"close", "replace"}
    /\ liveConns' = liveConns \ {conn[h]}
    /\ conn' = [conn EXCEPT ![h] = NULL]
    /\ pending' = [pending EXCEPT ![h] = FALSE]
    /\ goto(h, "idle")
    /\ UNCHANGED <<liveResults, liveWrappers, maps, class, currentRes, rs, res, app>>

Next ==
    \E h \in Handles :
        \/ \E c \in Conns : Connect(h, c)
        \/ Query(h) \/ QueryFails(h) \/ NativeStore(h)
        \/ \E r \in Results : Store(h, r) \/ Lookup(h, r)
        \/ StoreNull(h)
        \/ Unmap(h) \/ Free(h) \/ DeleteWrapper(h)
        \/ mysql_close(h) \/ Replace(h) \/ DeleteConnection(h)

Spec == Init /\ [][Next]_vars

-----------------------------------------------------------------------------
(* Properties                                                              *)

\* The functions on result sets (mysql_fetch_row, mysql_num_rows, ...) find
\* the connection of a result by its address.  While the connection that made
\* a result is open, that is what they find, whatever other threads store,
\* free and close at addresses that were used before.
FindsItsConnection ==
    \A r \in Results : app[r].state = "held" =>
        getConnection(r) = conn[app[r].by]

\* A result set the application has not freed is allocated, and its wrapper
\* is its own: nobody else frees the one or deletes the other.
FreesOnlyItsOwn ==
    \A r \in Results : app[r].state # "no" =>
        /\ r \in liveResults /\ mysqlResMap[r] \in liveWrappers
        /\ \A h \in Handles : res[h] = r => pc[h] = "delete"
        /\ \A h \in Handles : rs[h] # mysqlResMap[r]
        /\ \A s \in Results \ {r} :
              app[s].state # "no" => mysqlResMap[s] # mysqlResMap[r]

\* mysql_close leaves no entry that refers to the connection object it
\* deletes; such entries come from replaced connections only.
CloseLeavesNoEntry ==
    \A r \in Results : getConnection(r) \notin liveConns \cup {NULL} =>
        \/ app[r].state = "replaced"
        \/ \E h \in Handles : res[h] = r /\ pc[h] = "unmap"
=============================================================================
