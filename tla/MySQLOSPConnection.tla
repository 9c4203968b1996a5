------------------------- MODULE MySQLOSPConnection -------------------------
(***************************************************************************)
(* class MySQLOSPConnection on a pooled OSPStreamConnection: its           *)
(* constructor, mysql_real_query with processMessage, mysql_store_result   *)
(* and mysql_close, and the ping with which do_osp_connect validates a     *)
(* connection it takes from the pool.  One thread uses the connection at a *)
(* time (see ExclusiveOwnership of MySQLDriver); the other party is the    *)
(* server.                                                                 *)
(***************************************************************************)
EXTENDS OSPStreamConnection

CONSTANTS
    Nil,
    Statements,     \* kinds of SQL the application runs: "query", "setnames"
    MaxRows,        \* rows of a result set
    MaxRequests     \* bounds the number of requests

ASSUME QueryAssumption ==
    /\ Statements \subseteq {"query", "setnames"}
    /\ MaxRows \in Nat /\ MaxRequests \in Nat

VARIABLES
    requestID,   \* of the request that waits for its answer
    sent,        \* number of requests sent; the last one is request sent
    call,        \* the call in progress, or the last one
    ret,         \* what it returned: 0 or -1
    pc,          \* "receive" inside sendMessage, else who has the connection
    currentRes,  \* the MYSQL_RES that mysql_store_result returns, or Nil
    fieldCount, my_errno,
    taken        \* the application stored the result of its last statement

object == <<currentRes, fieldCount, my_errno, taken>>
vars   == <<channel, requestID, sent, call, ret, pc, object>>

CR_UNKNOWN  == 2000
SERVER_ERROR == 1064

\* A result set answers request "of", which has "total" rows.  Until the end
\* of mysql_real_query it is partial: not at eof and not mapped.
MYSQL_RES == [of : 0..MaxRequests, rows : 0..MaxRows, total : 0..MaxRows,
              state : {"partial", "ready", "freed"}]

ASSUME NilAssumption == Nil \notin MYSQL_RES

\* An uninitialised pointer: no result set of this connection.
Wild == [of |-> 0, rows |-> 0, total |-> 0, state |-> "freed"]

Owners == {"fresh", "idle", "pooled", "lost"}

\* What a message can hold: "n" is the number of columns in an execute response
\* (0 or 1 is enough), and the number of rows that will follow in a meta
\* response.  A "bad" message does not decode, or is a row that processMessage
\* throws on.
Bodies ==
    [kind : {"ack", "error", "noStatement", "execError", "row", "bad", "empty"}, n : {0}]
        \cup [kind : {"exec"}, n : {0, 1}] \cup [kind : {"meta"}, n : 0..MaxRows]

Messages == [id : RequestIDs, of : 1..MaxRequests, body : Bodies, final : BOOLEAN]

TypeOK ==
    /\ setting \in Settings
    /\ nextRequestID \in 1..MaxRequestID
    /\ peerUp \in BOOLEAN
    /\ inbox \in Seq(Messages)
    /\ requestID \in RequestIDs
    /\ sent \in 0..MaxRequests
    /\ call \in {"none", "ping", "open", "create", "close"} \cup Statements
    /\ ret \in {0, -1}
    /\ pc \in Owners \cup {"receive", "crashed"}
    /\ currentRes \in MYSQL_RES \cup {Nil}
    /\ fieldCount \in {0, 1}
    /\ my_errno \in {0, CR_UNKNOWN, SERVER_ERROR}
    /\ taken \in BOOLEAN

Init ==
    /\ ChannelInit
    /\ requestID = 1 /\ sent = 0 /\ call = "none" /\ ret = 0
    /\ pc = "fresh"
    /\ currentRes = Nil /\ fieldCount = 0 /\ my_errno = 0 /\ taken = FALSE

-----------------------------------------------------------------------------
(* What the server may answer.                                             *)

Body(kind)   == [kind |-> kind, n |-> 0]
Select(rows) == <<[kind |-> "exec", n |-> 1],
                  [kind |-> "meta", n |-> Len(rows)]>> \o rows
RowKinds     == {"row"} \cup (IF setting.malformed THEN {"bad"} ELSE {})
RowSeqs      == UNION {[1..n -> {Body(k) : k \in RowKinds}] : n \in 0..MaxRows}

Broken == (IF setting.empty THEN {<<Body("empty")>>} ELSE {})
             \cup (IF setting.malformed THEN {<<Body("bad")>>} ELSE {})
Simple == {<<Body("ack")>>, <<Body("error")>>} \cup Broken
\* A server of an older version of the protocol opens no statement.
OpenAnswers  == Simple \cup {<<Body("noStatement")>>}
QueryAnswers == {<<Body("error")>>, <<Body("execError")>>, <<Body("exec")>>}
                   \cup {Select(rows) : rows \in RowSeqs} \cup Broken

-----------------------------------------------------------------------------
(* Sending: every call is a sendMessage of one request.                    *)

Sends(name, answers) ==
    /\ sent < MaxRequests
    /\ sent' = sent + 1
    /\ call' = name
    /\ requestID' = allocatedID
    /\ \E bodies \in answers : doSendOnly(sent', bodies)
    /\ pc' = "receive"
    /\ UNCHANGED ret

SendThrows(name) ==
    /\ call' = name
    /\ doSendOnlyThrows
    /\ UNCHANGED <<requestID, sent>>

Ping ==
    /\ pc = "pooled"
    /\ \/ Sends("ping", Simple)
       \/ SendThrows("ping") /\ pc' = "lost" /\ UNCHANGED ret
    /\ UNCHANGED object

\* The constructor asks for a session and a statement.  currentRes keeps the
\* value the memory happens to have.
Open ==
    /\ pc = "fresh"
    /\ sent + 1 < MaxRequests   \* the bound leaves room for both requests
    /\ \/ Sends("open", OpenAnswers)
       \/ SendThrows("open") /\ pc' = "lost" /\ UNCHANGED ret
    /\ currentRes' \in {Nil, Wild}
    /\ fieldCount' = 0 /\ my_errno' = 0 /\ taken' = FALSE

\* mysql_real_query up to sendMessage.
mysql_real_query ==
    /\ pc = "idle" /\ "query" \in Statements
    /\ currentRes' = Nil
    /\ taken' = FALSE
    /\ \/ /\ Sends("query", QueryAnswers)
          /\ my_errno' = 0
          /\ UNCHANGED fieldCount
       \/ /\ SendThrows("query")
          /\ my_errno' = CR_UNKNOWN
          /\ fieldCount' = 0
          /\ ret' = -1
          /\ UNCHANGED pc

\* "SET NAMES" is not sent; the call returns 0 at once.
SetNames ==
    /\ pc = "idle" /\ "setnames" \in Statements
    /\ call' = "setnames"
    /\ ret' = 0
    /\ taken' = FALSE
    /\ UNCHANGED <<channel, requestID, sent, pc, currentRes, fieldCount, my_errno>>

mysql_close ==
    /\ pc = "idle"
    /\ \/ Sends("close", Simple)
       \/ SendThrows("close") /\ pc' = "lost" /\ UNCHANGED ret
    /\ UNCHANGED object

-----------------------------------------------------------------------------
(* Receiving: one turn of the loop of sendMessage.                         *)

MineAlways(m) == TRUE  \* mutant of Mine: no comparison of request IDs
Mine(m) == m.id = requestID

EndsAlways(m) == TRUE  \* mutant of Ends: only one message is read
EndsNever(m) == FALSE  \* mutant of Ends: the final flag is not honoured
Ends(m) == m.final

\* mysql_real_query after sendMessage: an error drops the result set, success
\* completes and maps it.
finishQuery(res, errno) ==
    /\ currentRes' = IF errno # 0 \/ res = Nil THEN Nil
                     ELSE [res EXCEPT !.state = "ready"]
    /\ ret' = IF errno # 0 THEN -1 ELSE 0
    /\ pc' = "idle"

\* processMessage throws: the query fails and currentRes stays as it is.
queryThrows ==
    /\ my_errno' = CR_UNKNOWN
    /\ fieldCount' = 0
    /\ ret' = -1
    /\ pc' = "idle"
    /\ UNCHANGED <<currentRes, taken>>

Continues(m, res, errno) ==
    IF Ends(m) THEN finishQuery(res, errno)
               ELSE currentRes' = res /\ UNCHANGED <<ret, pc>>

processMessage(m) ==
    \/ /\ m.body.kind = "exec"
       /\ fieldCount' = m.body.n
       /\ Continues(m, currentRes, my_errno)
       /\ UNCHANGED <<my_errno, taken>>
    \/ /\ m.body.kind \in {"execError", "error"}
       /\ fieldCount' = 0
       /\ my_errno' = SERVER_ERROR
       /\ Continues(m, currentRes, SERVER_ERROR)
       /\ UNCHANGED taken
    \/ /\ m.body.kind = "meta"
       /\ Continues(m, [of |-> m.of, rows |-> 0, total |-> m.body.n,
                        state |-> "partial"], my_errno)
       /\ UNCHANGED <<fieldCount, my_errno, taken>>
    \/ /\ m.body.kind = "row" /\ currentRes # Nil
       /\ Continues(m, [currentRes EXCEPT !.rows = @ + 1], my_errno)
       /\ UNCHANGED <<fieldCount, my_errno, taken>>
    \/ /\ m.body.kind = "bad" \/ (m.body.kind = "row" /\ currentRes = Nil)
       /\ queryThrows

\* The answer to a query.  A message with another request ID ends the loop,
\* and sendMessage returns NULL as it does after a complete answer.
QueryAnswer(m) ==
    /\ call = "query"
    /\ \/ Mine(m) /\ m.body.kind # "empty" /\ processMessage(m)
       \/ /\ ~Mine(m) /\ m.body.kind # "empty"
          /\ finishQuery(currentRes, my_errno)
          /\ UNCHANGED <<fieldCount, my_errno, taken>>

\* The answers without a consumer.  The ping does not look at what it gets.
PingAnswer(m) == call = "ping" /\ m.body.kind # "empty" /\ pc' = "fresh"

\* mysql_close takes a missing answer for a good one.
CloseAnswer(m) ==
    /\ call = "close" /\ m.body.kind # "empty"
    /\ \/ Mine(m) /\ m.body.kind = "error" /\ pc' = "lost"
       \/ (~Mine(m) \/ m.body.kind # "error") /\ pc' = "pooled"

\* The constructor does not test for NULL.
OpenAnswer(m) ==
    /\ call \in {"open", "create"}
    /\ \/ Mine(m) /\ m.body.kind = "ack" /\ pc' = "idle"
       \/ Mine(m) /\ m.body.kind = "error" /\ pc' = "lost"
       \/ ~Mine(m) /\ m.body.kind # "empty" /\ pc' = "crashed"

Receive ==
    LET m == Head(inbox)
    IN  /\ pc = "receive" /\ waitForResponse
        /\ \/ QueryAnswer(m)
           \/ /\ PingAnswer(m) \/ CloseAnswer(m) \/ OpenAnswer(m)
              /\ UNCHANGED <<object, ret>>
        /\ UNCHANGED <<call, requestID, sent>>

\* The session has no statement yet: the constructor sends a second request.
CreateStatement ==
    LET m == Head(inbox)
    IN  /\ pc = "receive" /\ call = "open" /\ inbox # <<>>
        /\ Mine(m) /\ m.body.kind = "noStatement"
        /\ call' = "create"
        /\ nextRequestID' = allocatedID + 1
        /\ \/ /\ peerUp
              /\ sent' = sent + 1
              /\ requestID' = allocatedID
              /\ \E bodies \in Simple :
                    inbox' = Tail(inbox) \o answerTo(allocatedID, sent', bodies)
              /\ UNCHANGED pc
           \/ /\ ~peerUp
              /\ inbox' = Tail(inbox)
              /\ pc' = "lost"
              /\ UNCHANGED <<sent, requestID>>
        /\ UNCHANGED <<setting, peerUp, ret, object>>

\* waitForResponse makes no response object of a message without data, and
\* sendMessage uses the NULL.
EmptyMessage ==
    /\ pc = "receive" /\ waitForResponse
    /\ Head(inbox).body.kind = "empty"
    /\ pc' = "crashed"
    /\ UNCHANGED <<requestID, sent, call, ret, object>>

\* decoder.decode throws out of waitForResponse, before sendMessage compares
\* the request IDs: mysql_real_query fails, and the other callers give the
\* connection up as they do when a request cannot be written.
DecodeThrows ==
    /\ pc = "receive" /\ waitForResponse
    /\ Head(inbox).body.kind = "bad"
    /\ \/ call = "query" /\ queryThrows
       \/ call # "query" /\ pc' = "lost" /\ UNCHANGED <<object, ret>>
    /\ UNCHANGED <<call, requestID, sent>>

-----------------------------------------------------------------------------
(* The application and the surroundings.                                   *)

\* The application stores the result of its last statement, reads it and
\* frees it; currentRes keeps the address.
StoreAndFree ==
    /\ pc = "idle" /\ call \in Statements /\ ret = 0 /\ ~taken
    /\ taken' = TRUE
    /\ currentRes' = IF currentRes # Nil /\ currentRes.state = "ready"
                     THEN [currentRes EXCEPT !.state = "freed"] ELSE currentRes
    /\ UNCHANGED <<channel, requestID, sent, call, ret, pc, fieldCount, my_errno>>

\* do_osp_connect opens a new connection when it has none that works.
Redial ==
    /\ pc = "lost" /\ Reconnected
    /\ pc' = "fresh"
    /\ UNCHANGED <<requestID, sent, call, ret, object>>

Exits == ServerExits /\ UNCHANGED <<requestID, sent, call, ret, pc, object>>

Next ==
    \/ Ping \/ Open \/ mysql_real_query \/ SetNames \/ mysql_close
    \/ Receive \/ CreateStatement \/ EmptyMessage \/ DecodeThrows
    \/ StoreAndFree \/ Redial \/ Exits

Spec == Init /\ [][Next]_vars

\* A thread inside sendMessage takes the next message when there is one.
FairSpec == Spec /\ WF_vars(Receive \/ CreateStatement \/ EmptyMessage \/ DecodeThrows)

-----------------------------------------------------------------------------
(* Properties                                                              *)

\* After a query that returned 0, mysql_store_result returns NULL or the
\* complete result set of that very query: every row the server sent for
\* it and none of another request, and never a result set that was freed.
StoresOwnResult ==
    pc = "idle" /\ call = "query" /\ ret = 0 /\ ~taken /\ currentRes # Nil =>
        /\ currentRes.of = sent
        /\ currentRes.rows = currentRes.total
        /\ currentRes.state = "ready"

\* With a server that sends well-formed answers, whoever gets the connection
\* next finds no message of an earlier request in it, so that each request
\* meets its own answer, also when the request IDs start again, and nobody
\* dereferences the NULL that stands for a missing answer, or for a message
\* without data.
WellFormed == ~setting.malformed /\ ~setting.empty
InStep     == WellFormed => /\ pc \in Owners => inbox = <<>>
                            /\ pc # "crashed"

\* A call ends unless the server exits while it waits.
CallReturns == pc = "receive" ~> (pc # "receive" \/ ~peerUp)
=============================================================================
