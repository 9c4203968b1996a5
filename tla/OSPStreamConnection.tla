------------------------ MODULE OSPStreamConnection ------------------------
(***************************************************************************)
(* OSPNamedPipeConnection and OSPUnixSocketConnection: one request at a    *)
(* time on a pair of byte streams, answered by a server that sends one or  *)
(* more messages for each request, in order, the last of them marked       *)
(* final.  The two classes share sendMessage, doSendOnly and               *)
(* waitForResponse up to the way they encode a request.                    *)
(*                                                                         *)
(* The module has the state of the connection and the pieces of            *)
(* sendMessage; the modules that call it put the pieces together with what *)
(* the caller does.  Nothing times out on these streams.                   *)
(*                                                                         *)
(* Assumed: the bytes of the stream are cut into messages where the server *)
(* cut them.  OSPFileInputStream breaks this for a message larger than its *)
(* buffer that begins with buffered bytes (DeliversStream says only what   *)
(* is delivered); no step here is such a read.                             *)
(***************************************************************************)
EXTENDS Integers, Sequences

\* The limit of request IDs (OSPNP_MAX_REQUEST_ID, or 2000000 for a unix
\* socket), and what the server may send: messages that do not decode, messages
\* of length 0.
CONSTANT Settings

ASSUME SettingsAssumption ==
    Settings \subseteq [MaxRequestID : Nat \ {0, 1}, malformed : BOOLEAN, empty : BOOLEAN]

VARIABLES
    setting,       \* the one that holds in this behaviour
    nextRequestID,
    peerUp,        \* the server still has its end of the streams open
    inbox          \* the messages that waitForResponse has not read yet

channel == <<setting, nextRequestID, peerUp, inbox>>

MaxRequestID == setting.MaxRequestID
RequestIDs == 1 .. MaxRequestID - 1

ChannelInit == setting \in Settings /\ nextRequestID = 1 /\ peerUp = TRUE /\ inbox = <<>>

\* Mutant of allocatedID: starts again one request late.
allocatedLate == IF nextRequestID > MaxRequestID THEN 1 ELSE nextRequestID

\* doSendOnly numbers the request and starts again from 1 at the limit.
allocatedID == IF nextRequestID >= MaxRequestID THEN 1 ELSE nextRequestID

\* The server's answer to request number "of": the bodies it sends, each with
\* the request ID it read from the request.
answerTo(id, of, bodies) ==
    [i \in 1..Len(bodies) |-> [id |-> id, of |-> of, body |-> bodies[i],
                               final |-> i = Len(bodies)]]

\* A request that is written will be answered.  Once the server has gone the
\* write fails and throws; the ID is used up all the same.
doSendOnly(of, bodies) ==
    /\ peerUp
    /\ nextRequestID' = allocatedID + 1
    /\ inbox' = inbox \o answerTo(allocatedID, of, bodies)
    /\ UNCHANGED <<setting, peerUp>>

doSendOnlyThrows ==
    /\ ~peerUp
    /\ nextRequestID' = allocatedID + 1
    /\ UNCHANGED <<setting, peerUp, inbox>>

\* waitForResponse: the next message.  At the end of the stream it never
\* returns (OSPFileInputStream retries for ever), so there is no step.
waitForResponse ==
    /\ inbox # <<>>
    /\ inbox' = Tail(inbox)
    /\ UNCHANGED <<setting, nextRequestID, peerUp>>

\* The server process exits, perhaps in the middle of an answer; what it has
\* written can still be read.
ServerExits ==
    /\ peerUp /\ peerUp' = FALSE
    /\ \E written \in 0..Len(inbox) : inbox' = SubSeq(inbox, 1, written)
    /\ UNCHANGED <<setting, nextRequestID>>

\* A new connection object on new streams.
Reconnected ==
    nextRequestID' = 1 /\ peerUp' = TRUE /\ inbox' = <<>> /\ UNCHANGED setting
=============================================================================
