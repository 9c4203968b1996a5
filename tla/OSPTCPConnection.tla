-------------------------- MODULE OSPTCPConnection --------------------------
(***************************************************************************)
(* class OSPTCPConnection: connection objects, each used by one thread at  *)
(* a time, that share the descriptor table of the process.  sendMessage    *)
(* opens the socket when the object has none, sends one request and, if    *)
(* expectACK is set, reads the answer: one message for a caller that waits *)
(* for the return value, every message up to the final one for a consumer. *)
(* A descriptor number that has been closed is given out again by the next *)
(* socket(), here as in the kernel the lowest free one.                    *)
(***************************************************************************)
EXTENDS Integers, Sequences

CONSTANTS
    Conns,       \* OSPTCPConnection objects
    MaxFd,       \* descriptors 1..MaxFd
    MaxParts,    \* messages in an answer
    MaxRequests, \* bounds the requests of one object
    MaxQueued,   \* bounds what waits in a socket to be received
    Nil

ASSUME TCPAssumption ==
    /\ MaxFd \in Nat \ {0} /\ MaxParts \in Nat \ {0}
    /\ MaxRequests \in Nat /\ MaxQueued \in Nat
    /\ Nil \notin Conns

VARIABLES
    socket,     \* descriptor -> Nil, or the socket that is open there: who
                \* opened it, whether it is connected, what can be received
    hSocket,    \* 0, -1 after socket() failed, or a descriptor
    requestID,
    pc,         \* "idle", or where sendMessage is
    mode,       \* "none" (expectACK is false), "single" or "consumer"
    outcome,    \* of the last sendMessage: "none", "returned", "null", "threw"
    answer      \* what the caller or consumer got for the last request

vars == <<socket, hSocket, requestID, pc, mode, outcome, answer>>

Fds      == 1..MaxFd
Messages == [to : Conns, id : 1..MaxRequests, part : 1..MaxParts, final : BOOLEAN]
Sockets  == [owner : Conns, connected : BOOLEAN, inbox : Seq(Messages)]

ASSUME NilAssumption == Nil \notin Sockets

TypeOK ==
    /\ socket \in [Fds -> {Nil} \cup Sockets]
    /\ hSocket \in [Conns -> Fds \cup {0, -1}]
    /\ requestID \in [Conns -> 0..MaxRequests]
    /\ pc \in [Conns -> {"idle", "socket", "send", "receive"}]
    /\ mode \in [Conns -> {"none", "single", "consumer"}]
    /\ outcome \in [Conns -> {"none", "returned", "null", "threw"}]
    /\ answer \in [Conns -> Seq(Messages)]

Init ==
    /\ socket = [fd \in Fds |-> Nil]
    /\ hSocket = [c \in Conns |-> 0]
    /\ requestID = [c \in Conns |-> 0]
    /\ pc = [c \in Conns |-> "idle"]
    /\ mode = [c \in Conns |-> "none"]
    /\ outcome = [c \in Conns |-> "none"]
    /\ answer = [c \in Conns |-> <<>>]

-----------------------------------------------------------------------------
(* Helpers.                                                                *)

goto(c, label) == pc' = [pc EXCEPT ![c] = label]
leave(c, how)  == goto(c, "idle") /\ outcome' = [outcome EXCEPT ![c] = how]

IsOpen(fd)  == fd \in Fds /\ socket[fd] # Nil
freeFds     == {fd \in Fds : socket[fd] = Nil}
lowestFree  == {fd \in freeFds : \A f \in freeFds : fd <= f}

\* close(fd) frees the number, whoever opened what is there now.
closed(fd) == IF IsOpen(fd) THEN [socket EXCEPT ![fd] = Nil] ELSE socket

receivedOn(fd, inbox) ==
    [socket EXCEPT ![fd] = [owner |-> socket[fd].owner,
                            connected |-> socket[fd].connected,
                            inbox |-> inbox]]

answerOf(c, parts) ==
    [i \in 1..parts |-> [to |-> c, id |-> requestID[c], part |-> i, final |-> i = parts]]

-----------------------------------------------------------------------------
(* sendMessage                                                             *)

sendMessage(c, m) ==
    /\ pc[c] = "idle" /\ requestID[c] < MaxRequests
    /\ requestID' = [requestID EXCEPT ![c] = @ + 1]
    /\ mode' = [mode EXCEPT ![c] = m]
    /\ answer' = [answer EXCEPT ![c] = <<>>]
    /\ outcome' = [outcome EXCEPT ![c] = "none"]
    /\ goto(c, "socket")
    /\ UNCHANGED <<socket, hSocket>>

\* getSocket.  Every failure throws; hSocket keeps -1 when socket() fails,
\* and the descriptor when any later step fails.
AlreadyConnected(c) ==
    /\ pc[c] = "socket" /\ hSocket[c] # 0
    /\ goto(c, "send")
    /\ UNCHANGED <<socket, hSocket, requestID, mode, outcome, answer>>

NoSocket(c) ==
    /\ pc[c] = "socket" /\ hSocket[c] = 0
    /\ hSocket' = [hSocket EXCEPT ![c] = -1]
    /\ leave(c, "threw")
    /\ UNCHANGED <<socket, requestID, mode, answer>>

NewSocket(c, connected) ==
    /\ pc[c] = "socket" /\ hSocket[c] = 0
    /\ \E fd \in lowestFree :
          /\ hSocket' = [hSocket EXCEPT ![c] = fd]
          /\ socket' = [socket EXCEPT ![fd] = [owner |-> c, connected |-> connected,
                                              inbox |-> <<>>]]
    /\ \/ connected /\ goto(c, "send") /\ UNCHANGED outcome
       \/ ~connected /\ leave(c, "threw")
    /\ UNCHANGED <<requestID, mode, answer>>

\* The whole request is sent to whatever is at the descriptor; the server
\* answers it there.  With expectACK false that is all.
Send(c) ==
    /\ pc[c] = "send"
    /\ IsOpen(hSocket[c]) /\ socket[hSocket[c]].connected
    /\ \E parts \in 1..MaxParts :
          /\ Len(socket[hSocket[c]].inbox) + parts <= MaxQueued
          /\ socket' = receivedOn(hSocket[c],
                                  socket[hSocket[c]].inbox \o answerOf(c, parts))
    /\ \/ mode[c] = "none" /\ leave(c, "null")
       \/ mode[c] # "none" /\ goto(c, "receive") /\ UNCHANGED outcome
    /\ UNCHANGED <<hSocket, requestID, mode, answer>>

\* send() returns -1, or hSocket is -1: the descriptor is not closed.
SendFails(c) ==
    /\ pc[c] = "send"
    /\ leave(c, "threw")
    /\ UNCHANGED <<socket, hSocket, requestID, mode, answer>>

\* Mutant of SendShort: the descriptor is not closed.
SendShortLeaks(c) ==
    /\ pc[c] = "send"
    /\ IsOpen(hSocket[c]) /\ socket[hSocket[c]].connected
    /\ hSocket' = [hSocket EXCEPT ![c] = 0]
    /\ leave(c, "threw")
    /\ UNCHANGED <<socket, requestID, mode, answer>>

\* Mutant of SendShort: reconnects and sends again, without a limit.
SendShortRetries(c) ==
    /\ pc[c] = "send"
    /\ IsOpen(hSocket[c]) /\ socket[hSocket[c]].connected
    /\ socket' = closed(hSocket[c])
    /\ hSocket' = [hSocket EXCEPT ![c] = 0]
    /\ goto(c, "socket")
    /\ UNCHANGED <<requestID, mode, outcome, answer>>

\* Not all bytes are sent: the socket is closed and forgotten.
SendShort(c) ==
    /\ pc[c] = "send"
    /\ IsOpen(hSocket[c]) /\ socket[hSocket[c]].connected
    /\ socket' = closed(hSocket[c])
    /\ hSocket' = [hSocket EXCEPT ![c] = 0]
    /\ leave(c, "threw")
    /\ UNCHANGED <<requestID, mode, answer>>

MineAlways(c, m) == TRUE  \* mutant of Mine: no comparison of request IDs
Mine(c, m) == m.id = requestID[c]

\* One message.  A consumer is not given the answer to another request, but
\* the final flag of that answer ends its loop as well; a single caller gets
\* NULL for it.  The consumer may throw on a message of its own: the socket
\* stays open, with the rest of the answer in it.
Receive(c) ==
    LET fd == hSocket[c]
        m  == Head(socket[fd].inbox)
    IN  /\ pc[c] = "receive" /\ IsOpen(fd) /\ socket[fd].inbox # <<>>
        /\ socket' = receivedOn(fd, Tail(socket[fd].inbox))
        /\ answer' = [answer EXCEPT ![c] = IF Mine(c, m) THEN Append(@, m) ELSE @]
        /\ \/ mode[c] = "consumer" /\ m.final /\ leave(c, "returned")
           \/ mode[c] = "consumer" /\ ~m.final /\ UNCHANGED <<outcome, pc>>
           \/ mode[c] = "consumer" /\ Mine(c, m) /\ leave(c, "threw")
           \/ mode[c] = "single" /\ leave(c, IF Mine(c, m) THEN "returned" ELSE "null")
        /\ UNCHANGED <<hSocket, requestID, mode>>

\* A message that is there but cannot be decoded: decoder.decode throws through
\* readResponse, before the request IDs are compared, and no socket is closed.
DecodeThrows(c) ==
    LET fd == hSocket[c]
    IN  /\ pc[c] = "receive" /\ IsOpen(fd) /\ socket[fd].inbox # <<>>
        /\ socket' = receivedOn(fd, Tail(socket[fd].inbox))
        /\ leave(c, "threw")
        /\ UNCHANGED <<hSocket, requestID, mode, answer>>

\* Mutant of ReceiveFails: shutdown() instead of close().
ReceiveFailsHalfway(c) ==
    /\ pc[c] = "receive" /\ IsOpen(hSocket[c])
    /\ socket' = [socket EXCEPT ![hSocket[c]] = [owner |-> Nil, connected |-> FALSE,
                                                inbox |-> <<>>]]
    /\ leave(c, "threw")
    /\ UNCHANGED <<hSocket, requestID, mode, answer>>

\* The end of the stream, ten minutes without data, or a length out of range:
\* readResponseMessage returns NULL and readResponse closes the descriptor, but
\* the hSocket it sets to 0 is its own parameter.
ReceiveFails(c) ==
    /\ pc[c] = "receive"
    /\ socket' = closed(hSocket[c])
    /\ leave(c, "threw")
    /\ UNCHANGED <<hSocket, requestID, mode, answer>>

\* The destructor; the address may serve for a new object.
stop(c) ==
    /\ pc[c] = "idle"
    /\ socket' = closed(hSocket[c])
    /\ hSocket' = [hSocket EXCEPT ![c] = 0]
    /\ requestID' = [requestID EXCEPT ![c] = 0]
    /\ outcome' = [outcome EXCEPT ![c] = "none"]
    /\ answer' = [answer EXCEPT ![c] = <<>>]
    /\ UNCHANGED <<pc, mode>>

Step(c) ==
    \/ AlreadyConnected(c) \/ NoSocket(c)
    \/ \E connected \in BOOLEAN : NewSocket(c, connected)
    \/ Send(c) \/ SendFails(c) \/ SendShort(c)
    \/ Receive(c) \/ DecodeThrows(c) \/ ReceiveFails(c)

Next == \E c \in Conns :
            \/ \E m \in {"none", "single", "consumer"} : sendMessage(c, m)
            \/ Step(c) \/ stop(c)

Spec == Init /\ [][Next]_vars

\* send() returns, and recv() returns after ten minutes at the latest.
FairSpec == Spec /\ \A c \in Conns : WF_vars(Step(c))

-----------------------------------------------------------------------------
(* Properties                                                              *)

\* Whatever happened on the connection before, a caller is only handed
\* messages of the answer to its own request, in the order in which the
\* server sent them and without a gap (for the only connection of a process).
OwnAnswer ==
    \A c \in Conns : \A i \in 1..Len(answer[c]) :
        LET m == answer[c][i]
        IN  m.to = c /\ m.id = requestID[c] /\ m.part = i

\* A socket that is open can be reached by the object that opened it: no
\* error path forgets a descriptor without closing it.
NoDescriptorLeak ==
    \A fd \in Fds : socket[fd] # Nil => hSocket[socket[fd].owner] = fd

\* sendMessage returns or throws, whatever the server does.
SendReturns == \A c \in Conns : pc[c] # "idle" ~> pc[c] = "idle"

(* What comments of the source say, and the code does not do.              *)

\* readResponse, after a protocol error: "close the socket and remove from
\* map" -- no object keeps a descriptor that is closed or another object's.
ForgetsClosedSocket ==
    \A c \in Conns : pc[c] = "idle" /\ hSocket[c] \in Fds =>
        socket[hSocket[c]] # Nil /\ socket[hSocket[c]].owner = c
=============================================================================
