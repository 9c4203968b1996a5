------------------------ MODULE MySQLResults_proofs -------------------------
(***************************************************************************)
(* The invariants of MySQLResults, for any number of threads, connection   *)
(* objects, result sets and wrappers.                                      *)
(***************************************************************************)
EXTENDS MySQLResults, TLAPS

\* h is inside mysql_free_result.
Frees(h) == pc[h] \in {"unmap", "free", "delete"}

\* ... and has not yet deleted the MYSQL_RES structure.
Holds(h) == pc[h] \in {"unmap", "free"}

\* r was made for the last statement of h, by the query (OSP) or by the call on
\* the connection object (native), and is not yet stored.
Awaits(h, r) == pending[h] /\ conn[h] # NULL /\ currentRes[conn[h]] = r

\* r is the application's, or will be.
Kept(r) == app[r].state # "no" \/ \E h \in Handles : Awaits(h, r)

ConnsApart ==
    \A g, h \in Handles : conn[g] = conn[h] /\ conn[g] # NULL => g = h

AppInv ==
    \A r \in Results : app[r].state = "no" <=> app[r].by = NULL

FreesInv ==
    \A h \in Handles :
        IF Frees(h) THEN res[h] \in Results /\ rs[h] \in liveWrappers
        ELSE res[h] = NULL /\ rs[h] = NULL

AwaitsInv ==
    \A h \in Handles, r \in Results : Awaits(h, r) =>
        /\ app[r].state = "no"
        /\ \A g \in Handles : Awaits(g, r) => g = h

\* A result set that is kept is allocated, and has a wrapper of its own.
KeptInv ==
    \A r \in Results : Kept(r) =>
        /\ r \in liveResults /\ mysqlResMap[r] \in liveWrappers
        /\ \A s \in Results : Kept(s) /\ mysqlResMap[s] = mysqlResMap[r] => s = r

\* One that is being freed is not kept, and is freed by one thread only; so
\* with its wrapper.
HoldsInv ==
    \A h \in Handles : Holds(h) =>
        /\ res[h] \in liveResults /\ ~Kept(res[h])
        /\ \A g \in Handles : Holds(g) /\ res[g] = res[h] => g = h

WrapperInv ==
    \A h \in Handles : Frees(h) =>
        /\ \A r \in Results : Kept(r) => mysqlResMap[r] # rs[h]
        /\ \A g \in Handles : Frees(g) /\ rs[g] = rs[h] => g = h

HeldInv ==
    \A r \in Results : app[r].state = "held" =>
        /\ conn[app[r].by] # NULL
        /\ getConnection(r) = conn[app[r].by]
        /\ pc[app[r].by] \notin {"close", "replace"}

\* mysql_close has erased the entry, and only Store could bring it back.
ClosedInv ==
    \A r \in Results : app[r].state = "closed" => getConnection(r) = NULL

EntryInv ==
    \A r \in Results : getConnection(r) # NULL =>
        \/ app[r].state # "no"
        \/ \E h \in Handles : pc[h] = "unmap" /\ res[h] = r

\* The inductive invariant.
IInv == /\ TypeOK /\ ConnsApart /\ AppInv /\ FreesInv /\ AwaitsInv /\ KeptInv
        /\ HoldsInv /\ WrapperInv /\ HeldInv /\ ClosedInv /\ EntryInv

\* One lemma per action: it keeps IInv.  A new connection object is nobody's, so
\* connecting makes no handle wait for a result set.
LEMMA ConnectKeeps ==
    ASSUME IInv, NEW h \in Handles, NEW c \in Conns, Connect(h, c)
    PROVE  IInv'
<1>0. /\ TypeOK /\ ConnsApart /\ AppInv /\ FreesInv /\ AwaitsInv /\ KeptInv
      /\ HoldsInv /\ WrapperInv /\ HeldInv /\ ClosedInv /\ EntryInv
  BY DEF IInv
<1>1. \A g \in Handles, s \in Results : Awaits(g, s)' <=> Awaits(g, s)
  BY <1>0 DEF Connect, Awaits, TypeOK
<1>2. \A s \in Results : Kept(s)' <=> Kept(s)
  BY <1>1 DEF Connect, Kept
<1>3. TypeOK'
  BY <1>0 DEF TypeOK, Connect, maps, call
<1>4. ConnsApart'
  BY <1>0 DEF TypeOK, ConnsApart, Connect
<1>5. HeldInv'
  BY <1>0 DEF HeldInv, Connect, maps, call, getConnection
<1>6. /\ AppInv' /\ FreesInv' /\ AwaitsInv' /\ KeptInv' /\ HoldsInv'
      /\ WrapperInv' /\ ClosedInv' /\ EntryInv'
  BY <1>0, <1>1, <1>2
     DEF AppInv, FreesInv, Frees, Holds, AwaitsInv, KeptInv, HoldsInv,
         WrapperInv, ClosedInv, getConnection, EntryInv, Connect, maps, call
<1> QED
  BY <1>3, <1>4, <1>5, <1>6 DEF IInv

\* A query of an OSP connection takes a result set and a wrapper that were not
\* allocated; any other only sets currentRes.
LEMMA QueryKeeps ==
    ASSUME IInv, NEW h \in Handles, Query(h)
    PROVE  IInv'
<1>0. /\ TypeOK /\ ConnsApart /\ AppInv /\ FreesInv /\ AwaitsInv /\ KeptInv
      /\ HoldsInv /\ WrapperInv /\ HeldInv /\ ClosedInv /\ EntryInv
  BY DEF IInv
<1>1. ASSUME NEW r \in Results,
             /\ class[conn[h]] = "osp" /\ r \notin liveResults
             /\ liveResults' = liveResults \cup {r}
             /\ setResultSet(r)
             /\ currentRes' = [currentRes EXCEPT ![conn[h]] = r]
      PROVE  IInv'
  <2>1. \A g \in Handles, s \in Results :
            Awaits(g, s)' <=> Awaits(g, s) \/ (g = h /\ s = r)
    BY <1>0, <1>1 DEF Query, Connected, Awaits, TypeOK, ConnsApart
  <2>2. \A s \in Results : Kept(s)' <=> Kept(s) \/ s = r
    BY <2>1 DEF Query, Kept
  <2>3. TypeOK'
    BY <1>0, <1>1 DEF TypeOK, Query, Connected, call, setResultSet
  <2>4. FreesInv'
    BY <1>0 DEF FreesInv, Query, call, setResultSet, Frees
  <2>5. AwaitsInv'
    BY <1>0, <1>1, <2>1 DEF AwaitsInv, KeptInv, Query, Kept
  <2>6. KeptInv'
    BY <1>0, <1>1, <2>2 DEF TypeOK, KeptInv, setResultSet
  <2>7. HoldsInv'
    BY <1>0, <1>1, <2>2 DEF TypeOK, HoldsInv, Query, call, Holds
  <2>8. WrapperInv'
    BY <1>0, <1>1, <2>2
       DEF TypeOK, WrapperInv, FreesInv, Query, call, setResultSet, Frees
  <2>9. ConnsApart' /\ AppInv' /\ HeldInv' /\ ClosedInv' /\ EntryInv'
    BY <1>0
       DEF ConnsApart, AppInv, HeldInv, getConnection, ClosedInv, EntryInv,
           Query, call
  <2> QED
    BY <2>3, <2>4, <2>5, <2>6, <2>7, <2>8, <2>9 DEF IInv
<1>2. ASSUME /\ currentRes' = [currentRes EXCEPT ![conn[h]] = NULL]
             /\ UNCHANGED <<liveResults, liveWrappers, mysqlResMap>>
      PROVE  IInv'
  <2>1. \A g \in Handles, s \in Results : Awaits(g, s)' <=> Awaits(g, s)
    BY <1>0, <1>2, ResultsAssumption DEF Query, Awaits, TypeOK, ConnsApart
  <2>2. \A s \in Results : Kept(s)' <=> Kept(s)
    BY <2>1 DEF Query, Kept
  <2>3. TypeOK'
    BY <1>0, <1>2 DEF TypeOK, Query, call
  <2>4. /\ ConnsApart' /\ AppInv' /\ FreesInv' /\ AwaitsInv' /\ KeptInv'
        /\ HoldsInv' /\ WrapperInv' /\ HeldInv' /\ ClosedInv' /\ EntryInv'
    BY <1>0, <1>2, <2>1, <2>2
       DEF ConnsApart, AppInv, FreesInv, Frees, Holds, AwaitsInv, KeptInv,
           HoldsInv, WrapperInv, HeldInv, getConnection, ClosedInv, EntryInv,
           Query, call
  <2> QED
    BY <2>3, <2>4 DEF IInv
<1> QED
  BY <1>1, <1>2 DEF Query

\* A native connection takes a result set and a wrapper that were not allocated,
\* in the call that stores it.
LEMMA NativeStoreKeeps ==
    ASSUME IInv, NEW h \in Handles, NativeStore(h)
    PROVE  IInv'
<1>0. /\ TypeOK /\ ConnsApart /\ AppInv /\ FreesInv /\ AwaitsInv /\ KeptInv
      /\ HoldsInv /\ WrapperInv /\ HeldInv /\ ClosedInv /\ EntryInv
  BY DEF IInv
<1>1. /\ pc[h] = "idle" /\ pc' = [pc EXCEPT ![h] = "store"]
      /\ UNCHANGED <<liveConns, mysqlResToConnMap, class, conn, pending, rs, res, app>>
  BY DEF NativeStore, Connected, goto
<1>2. \A g \in Handles : (Frees(g)' <=> Frees(g)) /\ (Holds(g)' <=> Holds(g))
  BY <1>0, <1>1 DEF TypeOK, Frees, Holds
<1>3. /\ ConnsApart' /\ AppInv' /\ HeldInv' /\ ClosedInv' /\ EntryInv'
  BY <1>0, <1>1
     DEF TypeOK, ConnsApart, AppInv, HeldInv, getConnection, ClosedInv, EntryInv
<1>4. ASSUME NEW r \in Results, r \notin liveResults,
             liveResults' = liveResults \cup {r},
             setResultSet(r),
             currentRes' = [currentRes EXCEPT ![conn[h]] = r]
      PROVE  IInv'
  <2>1. \A g \in Handles, s \in Results :
            Awaits(g, s)' => Awaits(g, s) \/ (g = h /\ s = r)
    BY <1>0, <1>1, <1>4 DEF Awaits, TypeOK, ConnsApart
  <2>2. \A s \in Results : Kept(s)' => Kept(s) \/ s = r
    BY <1>1, <2>1 DEF Kept
  <2>3. TypeOK'
    BY <1>0, <1>1, <1>4 DEF TypeOK, setResultSet
  <2>4. FreesInv'
    BY <1>0, <1>1, <1>2, <1>4 DEF FreesInv, setResultSet
  <2>5. AwaitsInv'
    BY <1>0, <1>1, <1>4, <2>1 DEF AwaitsInv, KeptInv, Kept
  <2>6. KeptInv'
    BY <1>0, <1>4, <2>2 DEF TypeOK, KeptInv, setResultSet
  <2>7. HoldsInv'
    BY <1>0, <1>1, <1>2, <1>4, <2>2 DEF TypeOK, HoldsInv
  <2>8. WrapperInv'
    BY <1>0, <1>1, <1>2, <1>4, <2>2 DEF TypeOK, WrapperInv, FreesInv, setResultSet
  <2> QED
    BY <1>3, <2>3, <2>4, <2>5, <2>6, <2>7, <2>8 DEF IInv
<1>5. ASSUME UNCHANGED <<liveResults, liveWrappers, mysqlResMap, currentRes>>
      PROVE  IInv'
  <2>1. \A g \in Handles, s \in Results : Awaits(g, s)' <=> Awaits(g, s)
    BY <1>1, <1>5 DEF Awaits
  <2>2. \A s \in Results : Kept(s)' <=> Kept(s)
    BY <1>1, <2>1 DEF Kept
  <2>3. TypeOK'
    BY <1>0, <1>1, <1>5 DEF TypeOK
  <2>4. FreesInv' /\ AwaitsInv' /\ KeptInv'
    BY <1>0, <1>1, <1>2, <1>5, <2>1, <2>2 DEF FreesInv, AwaitsInv, KeptInv
  <2>5. HoldsInv'
    BY <1>0, <1>1, <1>2, <1>5, <2>2 DEF FreesInv, Frees, Holds, HoldsInv
  <2>6. WrapperInv'
    BY <1>0, <1>1, <1>2, <1>5, <2>2 DEF WrapperInv
  <2> QED
    BY <1>3, <2>3, <2>4, <2>5, <2>6 DEF IInv
<1> QED
  BY <1>4, <1>5 DEF NativeStore

\* A query that fails loses its result set: allocated, and nobody's.
LEMMA QueryFailsKeeps ==
    ASSUME IInv, NEW h \in Handles, QueryFails(h)
    PROVE  IInv'
<1>0. /\ TypeOK /\ ConnsApart /\ AppInv /\ FreesInv /\ AwaitsInv /\ KeptInv
      /\ HoldsInv /\ WrapperInv /\ HeldInv /\ ClosedInv /\ EntryInv
  BY DEF IInv
<1>1. \A g \in Handles, s \in Results : Awaits(g, s)' <=> Awaits(g, s)
  BY <1>0 DEF QueryFails, Connected, Awaits, ConnsApart, TypeOK
<1>2. \A s \in Results : Kept(s)' <=> Kept(s)
  BY <1>1 DEF QueryFails, Kept
<1>3. TypeOK'
  BY <1>0 DEF TypeOK, QueryFails, maps, call
<1>4. KeptInv'
  BY <1>0, <1>2 DEF KeptInv, QueryFails, maps
<1>5. HoldsInv'
  BY <1>0, <1>2 DEF TypeOK, HoldsInv, QueryFails, call, Holds
<1>6. /\ ConnsApart' /\ AppInv' /\ FreesInv' /\ AwaitsInv' /\ WrapperInv'
      /\ HeldInv' /\ ClosedInv' /\ EntryInv'
  BY <1>0, <1>1, <1>2
     DEF ConnsApart, AppInv, FreesInv, Frees, AwaitsInv, WrapperInv, HeldInv,
         getConnection, ClosedInv, EntryInv, QueryFails, maps, call
<1> QED
  BY <1>3, <1>4, <1>5, <1>6 DEF IInv

\* Storing hands the awaited result set to the application, with an entry for
\* it in mysqlResToConnMap.
LEMMA StoreKeeps ==
    ASSUME IInv, NEW h \in Handles, NEW r \in Results, Store(h, r)
    PROVE  IInv'
<1>0. /\ TypeOK /\ ConnsApart /\ AppInv /\ FreesInv /\ AwaitsInv /\ KeptInv
      /\ HoldsInv /\ WrapperInv /\ HeldInv /\ ClosedInv /\ EntryInv
  BY DEF IInv
<1>1. /\ pc[h] \in {"idle", "store"} /\ pc' = [pc EXCEPT ![h] = "idle"]
      /\ pending' = [pending EXCEPT ![h] = FALSE]
      /\ app' = [app EXCEPT ![r] = [by |-> h, state |-> "held"]]
      /\ mysqlResToConnMap' = [mysqlResToConnMap EXCEPT ![r] = conn[h]]
      /\ UNCHANGED <<liveConns, liveResults, liveWrappers, mysqlResMap, class,
                     currentRes, conn, rs, res>>
      /\ conn[h] # NULL /\ Awaits(h, r)
  BY DEF Store, Stored, setConnection, goto, heap, Awaits
<1>2. \A g \in Handles, s \in Results : Awaits(g, s)' <=> Awaits(g, s) /\ g # h
  BY <1>0, <1>1 DEF Awaits, TypeOK
<1>3. \A s \in Results : Kept(s)' <=> Kept(s)
  BY <1>0, <1>1 DEF Kept, TypeOK, Awaits
<1>4. \A g \in Handles : (Frees(g)' <=> Frees(g)) /\ (Holds(g)' <=> Holds(g))
  BY <1>0, <1>1 DEF TypeOK, Frees, Holds
<1>5. TypeOK'
  BY <1>0, <1>1 DEF TypeOK, Uses
<1>6. AppInv'
  BY <1>0, <1>1, ResultsAssumption DEF AppInv
<1>7. FreesInv' /\ KeptInv' /\ ConnsApart' /\ HoldsInv' /\ WrapperInv'
  <2>1. FreesInv' /\ KeptInv' /\ ConnsApart'
    BY <1>0, <1>1, <1>3, <1>4 DEF FreesInv, KeptInv, ConnsApart
  <2>2. HoldsInv'
    BY <1>0, <1>1, <1>3, <1>4 DEF FreesInv, Frees, Holds, HoldsInv
  <2>3. WrapperInv'
    BY <1>0, <1>1, <1>3, <1>4 DEF WrapperInv
  <2> QED
    BY <2>1, <2>2, <2>3
<1>8. AwaitsInv'
  BY <1>0, <1>1, <1>2 DEF AwaitsInv
<1>9. HeldInv'
  BY <1>0, <1>1 DEF TypeOK, HeldInv, getConnection
<1>10. ClosedInv' /\ EntryInv'
  BY <1>0, <1>1 DEF TypeOK, ClosedInv, EntryInv, getConnection
<1> QED
  BY <1>5, <1>6, <1>7, <1>8, <1>9, <1>10 DEF IInv

\* Storing for a statement without a result set writes the entry of NULL only.
LEMMA StoreNullKeeps ==
    ASSUME IInv, NEW h \in Handles, StoreNull(h)
    PROVE  IInv'
<1>0. /\ TypeOK /\ ConnsApart /\ AppInv /\ FreesInv /\ AwaitsInv /\ KeptInv
      /\ HoldsInv /\ WrapperInv /\ HeldInv /\ ClosedInv /\ EntryInv
  BY DEF IInv
<1>1. /\ pc[h] \in {"idle", "store"} /\ pc' = [pc EXCEPT ![h] = "idle"]
      /\ pending' = [pending EXCEPT ![h] = FALSE]
      /\ mysqlResToConnMap' = [mysqlResToConnMap EXCEPT ![NULL] = conn[h]]
      /\ UNCHANGED <<liveConns, liveResults, liveWrappers, mysqlResMap, class,
                     currentRes, conn, rs, res, app>>
      /\ currentRes[conn[h]] = NULL
  BY DEF StoreNull, Stored, setConnection, goto, heap
<1>2. \A g \in Handles, s \in Results : Awaits(g, s)' <=> Awaits(g, s)
  BY <1>0, <1>1, ResultsAssumption DEF Awaits, TypeOK
<1>3. \A s \in Results : Kept(s)' <=> Kept(s)
  BY <1>1, <1>2 DEF Kept
<1>4. \A g \in Handles : (Frees(g)' <=> Frees(g)) /\ (Holds(g)' <=> Holds(g))
  BY <1>0, <1>1 DEF TypeOK, Frees, Holds
<1>5. \A r \in Results : getConnection(r)' = getConnection(r)
  BY <1>0, <1>1, ResultsAssumption DEF TypeOK, getConnection
<1>6. TypeOK'
  BY <1>0, <1>1 DEF TypeOK
<1>7. HeldInv' /\ ClosedInv' /\ EntryInv'
  BY <1>0, <1>1, <1>5 DEF TypeOK, HeldInv, ClosedInv, EntryInv
<1>8. ConnsApart' /\ AppInv' /\ FreesInv' /\ AwaitsInv' /\ KeptInv'
  BY <1>0, <1>1, <1>2, <1>3, <1>4 DEF ConnsApart, AppInv, FreesInv, AwaitsInv, KeptInv
<1>9. HoldsInv'
  BY <1>0, <1>1, <1>3, <1>4 DEF FreesInv, Frees, Holds, HoldsInv
<1>10. WrapperInv'
  BY <1>0, <1>1, <1>3, <1>4 DEF WrapperInv
<1> QED
  BY <1>6, <1>7, <1>8, <1>9, <1>10 DEF IInv

\* mysql_free_result takes the result set from the application; from here to
\* Free it is held by the thread of h.
LEMMA LookupKeeps ==
    ASSUME IInv, NEW h \in Handles, NEW r \in Results, Lookup(h, r)
    PROVE  IInv'
<1>0. /\ TypeOK /\ ConnsApart /\ AppInv /\ FreesInv /\ AwaitsInv /\ KeptInv
      /\ HoldsInv /\ WrapperInv /\ HeldInv /\ ClosedInv /\ EntryInv
  BY DEF IInv
<1>1. \A g \in Handles, s \in Results : Awaits(g, s)' <=> Awaits(g, s)
  BY DEF Lookup, Awaits
<1>2. \A s \in Results : Kept(s)' <=> Kept(s) /\ s # r
  BY <1>0, <1>1, ResultsAssumption
     DEF Lookup, Unused, Kept, TypeOK, AppInv, AwaitsInv
<1>3. TypeOK'
  BY <1>0 DEF TypeOK, Lookup, goto, Unused, heap, maps, Uses
<1>4. AppInv'
  BY <1>0 DEF AppInv, Lookup, Unused
<1>5. FreesInv'
  BY <1>0, ResultsAssumption
     DEF TypeOK, FreesInv, KeptInv, Lookup, goto, heap, Frees, Kept, AppInv
<1>6. AwaitsInv'
  BY <1>0, <1>1 DEF AwaitsInv, Lookup, Unused
<1>7. KeptInv'
  BY <1>0, <1>2 DEF KeptInv, Lookup, heap, maps
<1>8. HoldsInv'
  BY <1>0, <1>2, ResultsAssumption
     DEF TypeOK, HoldsInv, KeptInv, Lookup, goto, heap, Holds, Kept, AppInv
<1>9. WrapperInv'
  BY <1>0, <1>2, ResultsAssumption
     DEF TypeOK, WrapperInv, KeptInv, Lookup, goto, maps, Frees, Kept, AppInv
<1>10. HeldInv'
  BY <1>0 DEF HeldInv, Lookup, goto, Unused, maps, getConnection
<1>11. ClosedInv'
  BY <1>0 DEF ClosedInv, Lookup, Unused, maps, getConnection
<1>12. EntryInv'
  BY <1>0 DEF TypeOK, EntryInv, Lookup, goto, maps, getConnection
<1>13. ConnsApart'
  BY <1>0 DEF ConnsApart, Lookup
<1> QED
  BY <1>3, <1>4, <1>5, <1>6, <1>7, <1>8, <1>9, <1>10, <1>11, <1>12, <1>13
     DEF IInv

\* The entry that is removed is that of no result set that is kept.
LEMMA UnmapKeeps ==
    ASSUME IInv, NEW h \in Handles, Unmap(h)
    PROVE  IInv'
<1>0. /\ TypeOK /\ ConnsApart /\ AppInv /\ FreesInv /\ AwaitsInv /\ KeptInv
      /\ HoldsInv /\ WrapperInv /\ HeldInv /\ ClosedInv /\ EntryInv
  BY DEF IInv
<1>1. \A g \in Handles, s \in Results : Awaits(g, s)' <=> Awaits(g, s)
  BY DEF Unmap, Awaits
<1>2. \A s \in Results : Kept(s)' <=> Kept(s)
  BY <1>1 DEF Unmap, Kept
<1>3. TypeOK'
  BY <1>0 DEF TypeOK, Unmap, goto, erase, setConnection, heap
<1>4. FreesInv'
  BY <1>0 DEF FreesInv, Unmap, goto, heap, Frees
<1>5. HoldsInv'
  BY <1>0, <1>2 DEF TypeOK, HoldsInv, Unmap, goto, heap, Holds
<1>6. WrapperInv'
  BY <1>0, <1>2 DEF WrapperInv, Unmap, goto, Frees
<1>7. HeldInv'
  BY <1>0
     DEF HeldInv, HoldsInv, Unmap, goto, erase, setConnection, getConnection,
         Holds, Kept
<1>8. ClosedInv'
  BY <1>0 DEF ClosedInv, Unmap, erase, setConnection, getConnection
<1>9. EntryInv'
  BY <1>0
     DEF TypeOK, EntryInv, Unmap, goto, erase, setConnection, getConnection
<1>10. ConnsApart' /\ AppInv' /\ AwaitsInv' /\ KeptInv'
  BY <1>0, <1>1, <1>2 DEF ConnsApart, AppInv, AwaitsInv, KeptInv, Unmap, heap
<1> QED
  BY <1>3, <1>4, <1>5, <1>6, <1>7, <1>8, <1>9, <1>10 DEF IInv

\* What is freed is kept by nobody and held by no other thread.
LEMMA FreeKeeps ==
    ASSUME IInv, NEW h \in Handles, Free(h)
    PROVE  IInv'
<1>0. /\ TypeOK /\ ConnsApart /\ AppInv /\ FreesInv /\ AwaitsInv /\ KeptInv
      /\ HoldsInv /\ WrapperInv /\ HeldInv /\ ClosedInv /\ EntryInv
  BY DEF IInv
<1>1. \A g \in Handles, s \in Results : Awaits(g, s)' <=> Awaits(g, s)
  BY DEF Free, Awaits
<1>2. \A s \in Results : Kept(s)' <=> Kept(s)
  BY <1>1 DEF Free, Kept
<1>3. TypeOK'
  BY <1>0 DEF TypeOK, Free, goto, maps
<1>4. FreesInv'
  BY <1>0 DEF FreesInv, Free, goto, Frees
<1>5. KeptInv'
  BY <1>0, <1>2 DEF KeptInv, HoldsInv, Free, maps, Holds
<1>6. HoldsInv'
  BY <1>0, <1>2 DEF TypeOK, HoldsInv, Free, goto, Holds
<1>7. WrapperInv'
  BY <1>0, <1>2 DEF WrapperInv, Free, goto, maps, Frees
<1>8. HeldInv'
  BY <1>0 DEF HeldInv, Free, goto, maps, getConnection
<1>9. EntryInv'
  BY <1>0 DEF EntryInv, Free, goto, maps, getConnection
<1>10. ConnsApart' /\ AppInv' /\ AwaitsInv' /\ ClosedInv'
  BY <1>0, <1>1
     DEF ConnsApart, AppInv, AwaitsInv, ClosedInv, getConnection, Free, maps
<1> QED
  BY <1>3, <1>4, <1>5, <1>6, <1>7, <1>8, <1>9, <1>10 DEF IInv

\* The wrapper that is deleted is that of no result set that is kept.
LEMMA DeleteWrapperKeeps ==
    ASSUME IInv, NEW h \in Handles, DeleteWrapper(h)
    PROVE  IInv'
<1>0. /\ TypeOK /\ ConnsApart /\ AppInv /\ FreesInv /\ AwaitsInv /\ KeptInv
      /\ HoldsInv /\ WrapperInv /\ HeldInv /\ ClosedInv /\ EntryInv
  BY DEF IInv
<1>1. \A g \in Handles, s \in Results : Awaits(g, s)' <=> Awaits(g, s)
  BY DEF DeleteWrapper, Awaits
<1>2. \A s \in Results : Kept(s)' <=> Kept(s)
  BY <1>1 DEF DeleteWrapper, Kept
<1>3. TypeOK'
  BY <1>0 DEF TypeOK, DeleteWrapper, goto, maps
<1>4. FreesInv'
  BY <1>0 DEF TypeOK, FreesInv, WrapperInv, DeleteWrapper, goto, Frees
<1>5. KeptInv'
  BY <1>0, <1>2 DEF KeptInv, WrapperInv, DeleteWrapper, maps, Frees
<1>6. HoldsInv'
  BY <1>0, <1>2 DEF TypeOK, HoldsInv, DeleteWrapper, goto, Holds
<1>7. WrapperInv'
  BY <1>0, <1>2 DEF TypeOK, WrapperInv, DeleteWrapper, goto, maps, Frees
<1>8. HeldInv'
  BY <1>0 DEF HeldInv, DeleteWrapper, goto, maps, getConnection
<1>9. EntryInv'
  BY <1>0 DEF EntryInv, DeleteWrapper, goto, maps, getConnection
<1>10. ConnsApart' /\ AppInv' /\ AwaitsInv' /\ ClosedInv'
  BY <1>0, <1>1
     DEF ConnsApart, AppInv, AwaitsInv, ClosedInv, getConnection,
         DeleteWrapper, maps
<1> QED
  BY <1>3, <1>4, <1>5, <1>6, <1>7, <1>8, <1>9, <1>10 DEF IInv

\* mysql_close erases every entry of its connection object, and no other: the
\* objects of two handles are distinct.
LEMMA mysql_closeKeeps ==
    ASSUME IInv, NEW h \in Handles, mysql_close(h)
    PROVE  IInv'
<1>0. /\ TypeOK /\ ConnsApart /\ AppInv /\ FreesInv /\ AwaitsInv /\ KeptInv
      /\ HoldsInv /\ WrapperInv /\ HeldInv /\ ClosedInv /\ EntryInv
  BY DEF IInv
<1>1. \A g \in Handles, s \in Results : Awaits(g, s)' <=> Awaits(g, s)
  BY DEF mysql_close, Awaits
<1>2. \A s \in Results : Kept(s)' <=> Kept(s)
  BY <1>1 DEF mysql_close, outlive, Kept
<1>3. TypeOK'
  BY <1>0
     DEF TypeOK, mysql_close, goto, eraseResults, outlive, heap, getConnection,
         Uses
<1>4. AppInv'
  BY <1>0 DEF AppInv, mysql_close, outlive
<1>5. FreesInv'
  BY <1>0 DEF FreesInv, mysql_close, Connected, goto, heap, Frees
<1>6. AwaitsInv'
  BY <1>0, <1>1 DEF AwaitsInv, mysql_close, outlive
<1>7. HoldsInv'
  BY <1>0, <1>2 DEF TypeOK, HoldsInv, mysql_close, goto, heap, Holds
<1>8. WrapperInv'
  BY <1>0, <1>2 DEF WrapperInv, mysql_close, goto, Frees
<1>9. HeldInv'
  BY <1>0
     DEF TypeOK, HeldInv, AppInv, ConnsApart, mysql_close, goto, eraseResults,
         outlive, getConnection
<1>10. ClosedInv'
  BY <1>0
     DEF ClosedInv, HeldInv, mysql_close, eraseResults, outlive, getConnection
<1>11. EntryInv'
  BY <1>0
     DEF EntryInv, mysql_close, Connected, goto, eraseResults, outlive,
         getConnection
<1>12. ConnsApart' /\ KeptInv'
  BY <1>0, <1>2 DEF ConnsApart, KeptInv, mysql_close, heap
<1> QED
  BY <1>3, <1>4, <1>5, <1>6, <1>7, <1>8, <1>9, <1>10, <1>11, <1>12 DEF IInv

\* Replacing a connection leaves the entries as they are.
LEMMA ReplaceKeeps ==
    ASSUME IInv, NEW h \in Handles, Replace(h)
    PROVE  IInv'
<1>0. /\ TypeOK /\ ConnsApart /\ AppInv /\ FreesInv /\ AwaitsInv /\ KeptInv
      /\ HoldsInv /\ WrapperInv /\ HeldInv /\ ClosedInv /\ EntryInv
  BY DEF IInv
<1>1. \A g \in Handles, s \in Results : Awaits(g, s)' <=> Awaits(g, s)
  BY DEF Replace, Awaits
<1>2. \A s \in Results : Kept(s)' <=> Kept(s)
  BY <1>1 DEF Replace, outlive, Kept
<1>3. TypeOK'
  BY <1>0 DEF TypeOK, Replace, goto, outlive, heap, maps, Uses
<1>4. AppInv'
  BY <1>0 DEF AppInv, Replace, outlive
<1>5. FreesInv'
  BY <1>0 DEF FreesInv, Replace, Connected, goto, heap, Frees
<1>6. AwaitsInv'
  BY <1>0, <1>1 DEF AwaitsInv, Replace, outlive
<1>7. HoldsInv'
  BY <1>0, <1>2 DEF TypeOK, HoldsInv, Replace, goto, heap, Holds
<1>8. WrapperInv'
  BY <1>0, <1>2 DEF WrapperInv, Replace, goto, maps, Frees
<1>9. HeldInv'
  BY <1>0 DEF HeldInv, Replace, goto, outlive, maps, getConnection
<1>10. ClosedInv'
  BY <1>0 DEF ClosedInv, Replace, outlive, maps, getConnection
<1>11. EntryInv'
  BY <1>0 DEF EntryInv, Replace, Connected, goto, outlive, maps, getConnection
<1>12. ConnsApart' /\ KeptInv'
  BY <1>0, <1>2 DEF ConnsApart, KeptInv, Replace, heap, maps
<1> QED
  BY <1>3, <1>4, <1>5, <1>6, <1>7, <1>8, <1>9, <1>10, <1>11, <1>12 DEF IInv

\* The result sets of the connection object that is deleted are held no more.
LEMMA DeleteConnectionKeeps ==
    ASSUME IInv, NEW h \in Handles, DeleteConnection(h)
    PROVE  IInv'
<1>0. /\ TypeOK /\ ConnsApart /\ AppInv /\ FreesInv /\ AwaitsInv /\ KeptInv
      /\ HoldsInv /\ WrapperInv /\ HeldInv /\ ClosedInv /\ EntryInv
  BY DEF IInv
<1>1. \A g \in Handles, s \in Results : Awaits(g, s)' <=> Awaits(g, s) /\ g # h
  BY <1>0 DEF DeleteConnection, Awaits, TypeOK
<1>2. \A s \in Results : Kept(s)' => Kept(s)
  BY <1>1 DEF DeleteConnection, Kept
<1>3. TypeOK'
  BY <1>0 DEF TypeOK, ConnsApart, DeleteConnection, goto, maps
<1>4. ConnsApart'
  BY <1>0 DEF ConnsApart, DeleteConnection
<1>5. FreesInv'
  BY <1>0 DEF FreesInv, DeleteConnection, goto, Frees
<1>6. AwaitsInv'
  BY <1>0, <1>1 DEF AwaitsInv, DeleteConnection
<1>7. KeptInv'
  BY <1>0, <1>2 DEF KeptInv, DeleteConnection, maps
<1>8. HoldsInv'
  BY <1>0, <1>2 DEF TypeOK, HoldsInv, DeleteConnection, goto, Holds
<1>9. WrapperInv'
  BY <1>0, <1>2 DEF WrapperInv, DeleteConnection, goto, maps, Frees
<1>10. HeldInv'
  BY <1>0 DEF HeldInv, DeleteConnection, goto, maps, getConnection
<1>11. EntryInv'
  BY <1>0 DEF EntryInv, DeleteConnection, goto, maps, getConnection
<1>12. AppInv' /\ ClosedInv'
  BY <1>0 DEF AppInv, ClosedInv, getConnection, DeleteConnection, maps
<1> QED
  BY <1>3, <1>4, <1>5, <1>6, <1>7, <1>8, <1>9, <1>10, <1>11, <1>12 DEF IInv

-----------------------------------------------------------------------------
\* IInv holds initially: nothing is allocated.
LEMMA InitIInv == Init => IInv
BY DEF Init, IInv, TypeOK, ConnsApart, AppInv, FreesInv, AwaitsInv, KeptInv,
       HoldsInv, WrapperInv, HeldInv, ClosedInv, EntryInv, Awaits, Kept, Frees,
       Holds, getConnection, Unused, Uses

\* Every step keeps IInv.
LEMMA StepIInv == IInv /\ [Next]_vars => IInv'
<1> SUFFICES ASSUME IInv, [Next]_vars
             PROVE  IInv'
  OBVIOUS
<1>1. ASSUME NEW h \in Handles,
             \/ \E c \in Conns : Connect(h, c)
             \/ Query(h) \/ QueryFails(h) \/ NativeStore(h)
             \/ \E r \in Results : Store(h, r) \/ Lookup(h, r)
             \/ StoreNull(h)
             \/ Unmap(h) \/ Free(h) \/ DeleteWrapper(h)
             \/ mysql_close(h) \/ Replace(h) \/ DeleteConnection(h)
      PROVE  IInv'
  BY <1>1, ConnectKeeps, QueryKeeps, QueryFailsKeeps, NativeStoreKeeps, StoreKeeps,
     LookupKeeps, StoreNullKeeps, UnmapKeeps, FreeKeeps, DeleteWrapperKeeps,
     mysql_closeKeeps, ReplaceKeeps, DeleteConnectionKeeps
<1>2. CASE UNCHANGED vars
  BY <1>2
     DEF vars, heap, maps, call, IInv, TypeOK, ConnsApart, AppInv, FreesInv,
         AwaitsInv, KeptInv, HoldsInv, WrapperInv, HeldInv, ClosedInv,
         EntryInv, Awaits, Kept, Frees, Holds, getConnection
<1> QED
  BY <1>1, <1>2 DEF Next

\* The strengthened invariant, from which the four below follow.
THEOREM Invariance == Spec => []IInv
BY InitIInv, StepIInv, PTL DEF Spec

\* Every variable keeps its type, and the connection object of a handle is
\* allocated.
THEOREM TypeCorrect == Spec => []TypeOK
<1>1. IInv => TypeOK
  BY DEF IInv
<1> QED
  BY Invariance, <1>1, PTL

\* While the connection of a result set is open, the functions on result sets
\* find it, for any number of threads and however addresses are used again.
THEOREM ResultsFindTheirConnection == Spec => []FindsItsConnection
<1>1. IInv => FindsItsConnection
  BY DEF IInv, HeldInv, FindsItsConnection
<1> QED
  BY Invariance, <1>1, PTL

\* No thread frees the structure of a result set that another has not freed, or
\* deletes its wrapper.
THEOREM ResultsAreTheirOwners == Spec => []FreesOnlyItsOwn
<1>1. IInv => FreesOnlyItsOwn
  <2> SUFFICES ASSUME IInv, NEW r \in Results, app[r].state # "no"
               PROVE  /\ r \in liveResults /\ mysqlResMap[r] \in liveWrappers
                      /\ \A h \in Handles : res[h] = r => pc[h] = "delete"
                      /\ \A h \in Handles : rs[h] # mysqlResMap[r]
                      /\ \A s \in Results \ {r} :
                            app[s].state # "no" => mysqlResMap[s] # mysqlResMap[r]
    BY DEF FreesOnlyItsOwn
  <2>1. \A s \in Results : app[s].state # "no" => Kept(s)
    BY DEF Kept
  <2>2. r \in liveResults /\ mysqlResMap[r] \in liveWrappers
    BY <2>1 DEF IInv, KeptInv
  <2>3. \A h \in Handles : res[h] = r => pc[h] = "delete"
    BY <2>1, ResultsAssumption DEF IInv, FreesInv, HoldsInv, Frees, Holds
  <2>4. \A h \in Handles : rs[h] # mysqlResMap[r]
    BY <2>1, <2>2, ResultsAssumption DEF IInv, TypeOK, FreesInv, WrapperInv
  <2>5. \A s \in Results \ {r} :
            app[s].state # "no" => mysqlResMap[s] # mysqlResMap[r]
    BY <2>1 DEF IInv, KeptInv
  <2> QED
    BY <2>2, <2>3, <2>4, <2>5
<1> QED
  BY Invariance, <1>1, PTL

\* mysql_close leaves no entry of its connection object in mysqlResToConnMap.
THEOREM CloseErases == Spec => []CloseLeavesNoEntry
<1>1. IInv => CloseLeavesNoEntry
  <2> SUFFICES ASSUME IInv, NEW r \in Results,
                      getConnection(r) \notin liveConns \cup {NULL},
                      app[r].state # "replaced"
               PROVE  \E h \in Handles : res[h] = r /\ pc[h] = "unmap"
    BY DEF CloseLeavesNoEntry
  <2>1. app[r].state # "closed"
    BY DEF IInv, ClosedInv
  <2>2. app[r].state # "held"
    BY DEF IInv, TypeOK, AppInv, HeldInv
  <2>3. app[r].state = "no"
    BY <2>1, <2>2 DEF IInv, TypeOK, Uses
  <2> QED
    BY <2>3 DEF IInv, EntryInv
<1> QED
  BY Invariance, <1>1, PTL
=============================================================================
