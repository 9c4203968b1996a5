----------------------- MODULE OSPTCPConnection_proofs ----------------------
(***************************************************************************)
(* The invariants of OSPTCPConnection: no descriptor leaks, however many   *)
(* objects share the descriptor table, and the only object of a process    *)
(* hands out the answers to its own requests.                              *)
(***************************************************************************)
EXTENDS OSPTCPConnection, SequenceTheorems, TLAPS

\* A request is numbered before it is sent.
Numbered == \A c \in Conns : pc[c] # "idle" => requestID[c] # 0

TypeInv == TypeOK /\ Numbered

-----------------------------------------------------------------------------
(* What can be received on the connection of c, with what c was given.     *)

\* Messages arrive in the order of the requests, each answer from part 1.
InOrder(s) ==
    \A i \in 1 .. Len(s) - 1 :
        \/ s[i + 1].id = s[i].id /\ s[i + 1].part = s[i].part + 1
        \/ s[i + 1].id > s[i].id /\ s[i + 1].part = 1

\* None is the answer to a request that has not been sent.
Asked(c, s) ==
    \A i \in 1 .. Len(s) : /\ s[i].to = c
                           /\ s[i].id <= requestID[c]
                           /\ pc[c] \in {"socket", "send"} => s[i].id < requestID[c]

\* While c waits, the next message continues what c was given, or is left of an
\* earlier answer.
Continued(c, s) ==
    pc[c] = "receive" /\ Len(s) > 0 => IF s[1].id = requestID[c] THEN s[1].part = Len(answer[c]) + 1
                                            ELSE answer[c] = <<>>

\* Before the request is sent there is no answer.
Unanswered == \A c \in Conns : pc[c] \in {"socket", "send"} => answer[c] = <<>>

QueueInv ==
    \A fd \in Fds : \A c \in Conns : socket[fd] # Nil =>
        /\ InOrder(socket[fd].inbox)
        /\ Asked(c, socket[fd].inbox)
        /\ Continued(c, socket[fd].inbox)

\* The inductive invariant for a process with one object.
Queued == Unanswered /\ QueueInv /\ OwnAnswer
IInv   == TypeInv /\ NoDescriptorLeak /\ Queued

-----------------------------------------------------------------------------
(* Operators.                                                              *)

\* The server's answer is a sequence of messages to c.
LEMMA AnswerType ==
    ASSUME TypeOK, NEW c \in Conns, requestID[c] # 0, NEW parts \in 1..MaxParts
    PROVE  /\ answerOf(c, parts) \in Seq(Messages)
           /\ Len(answerOf(c, parts)) = parts
           /\ \A i \in 1..parts : answerOf(c, parts)[i] =
                  [to |-> c, id |-> requestID[c], part |-> i, final |-> i = parts]
<1>1. \A i \in 1..parts : [to |-> c, id |-> requestID[c], part |-> i, final |-> i = parts]
                              \in Messages
  BY TCPAssumption DEF Messages, TypeOK
<1>2. answerOf(c, parts) \in [1..parts -> Messages]
  BY <1>1 DEF answerOf
<1>3. parts \in Nat
  BY TCPAssumption
<1> QED
  BY <1>2, <1>3, SeqDef DEF answerOf

\* What is open in the table is a socket with a queue of messages.
LEMMA SocketType ==
    ASSUME TypeOK, NEW fd \in Fds, socket[fd] # Nil
    PROVE  /\ socket[fd] \in Sockets
           /\ socket[fd].owner \in Conns
           /\ socket[fd].inbox \in Seq(Messages)
BY DEF TypeOK, Sockets

\* Closing keeps the type of the table and opens nothing.
LEMMA ClosedTable ==
    ASSUME TypeOK, NEW fd
    PROVE  /\ closed(fd) \in [Fds -> {Nil} \cup Sockets]
           /\ \A f \in Fds : closed(fd)[f] = IF f = fd THEN Nil ELSE socket[f]
BY DEF TypeOK, closed, IsOpen

\* Receiving replaces the queue of one socket.
LEMMA ReceivedTable ==
    ASSUME TypeOK, NEW fd \in Fds, socket[fd] # Nil, NEW s \in Seq(Messages)
    PROVE  /\ receivedOn(fd, s) \in [Fds -> {Nil} \cup Sockets]
           /\ receivedOn(fd, s)[fd] # Nil
           /\ receivedOn(fd, s)[fd].owner = socket[fd].owner
           /\ receivedOn(fd, s)[fd].inbox = s
           /\ \A f \in Fds \ {fd} : receivedOn(fd, s)[f] = socket[f]
<1>1. [owner |-> socket[fd].owner, connected |-> socket[fd].connected, inbox |-> s]
        \in Sockets
  BY SocketType DEF Sockets
<1> QED
  BY <1>1, NilAssumption DEF TypeOK, receivedOn

-----------------------------------------------------------------------------
(* Types and descriptors, for any number of objects.                       *)

Safe == TypeInv /\ NoDescriptorLeak

\* Initially no socket is open. Then one lemma per action: it keeps the types,
\* and every open socket where its opener remembers it.
LEMMA SafeInit == Init => Safe
BY TCPAssumption, EmptySeq
   DEF Init, Safe, TypeInv, TypeOK, Numbered, NoDescriptorLeak

\* A request is numbered within the bound.
LEMMA SafeSendMessage ==
    ASSUME Safe, NEW c \in Conns, NEW m \in {"none", "single", "consumer"},
           sendMessage(c, m)
    PROVE  Safe'
BY TCPAssumption, EmptySeq
   DEF Safe, TypeInv, TypeOK, Numbered, NoDescriptorLeak, sendMessage, goto

\* Going on to send changes no socket.
LEMMA SafeAlreadyConnected ==
    ASSUME Safe, NEW c \in Conns, AlreadyConnected(c)
    PROVE  Safe'
BY DEF Safe, TypeInv, TypeOK, Numbered, NoDescriptorLeak, AlreadyConnected, goto

\* An object without a descriptor has opened nothing that could be lost.
LEMMA SafeNoSocket ==
    ASSUME Safe, NEW c \in Conns, NoSocket(c)
    PROVE  Safe'
BY TCPAssumption
   DEF Safe, TypeInv, TypeOK, Sockets, Numbered, NoDescriptorLeak, NoSocket,
       leave, goto, Fds

\* The new socket is remembered; its opener had none before.
LEMMA SafeNewSocket ==
    ASSUME Safe, NEW c \in Conns, NEW connected \in BOOLEAN, NewSocket(c, connected)
    PROVE  Safe'
<1>1. PICK fd \in Fds : /\ hSocket' = [hSocket EXCEPT ![c] = fd]
                        /\ socket' = [socket EXCEPT ![fd] =
                              [owner |-> c, connected |-> connected, inbox |-> <<>>]]
  BY DEF NewSocket, lowestFree, freeFds
<1>2. [owner |-> c, connected |-> connected, inbox |-> <<>>] \in Sockets
  BY EmptySeq DEF Sockets
<1>3. TypeInv'
  BY <1>1, <1>2 DEF Safe, TypeInv, TypeOK, Numbered, NewSocket, leave, goto
<1>4. NoDescriptorLeak'
  BY <1>1, TCPAssumption
     DEF Safe, TypeInv, TypeOK, Sockets, NoDescriptorLeak, NewSocket, Fds
<1> QED
  BY <1>3, <1>4 DEF Safe

\* The answer goes to the queue of the socket, whoever opened it.
LEMMA SafeSend ==
    ASSUME Safe, NEW c \in Conns, Send(c)
    PROVE  Safe'
<1>1. TypeOK /\ requestID[c] # 0
  BY DEF Safe, TypeInv, Numbered, Send
<1> DEFINE fd == hSocket[c]
<1>2. fd \in Fds /\ socket[fd] # Nil
  BY DEF Send, IsOpen
<1>3. PICK parts \in 1..MaxParts :
          socket' = receivedOn(fd, socket[fd].inbox \o answerOf(c, parts))
  BY DEF Send
<1> DEFINE s == socket[fd].inbox \o answerOf(c, parts)
<1>4. s \in Seq(Messages) /\ socket' = receivedOn(fd, s)
  BY <1>1, <1>2, <1>3, SocketType, AnswerType, ConcatProperties
<1> HIDE DEF fd, s
<1>5. /\ socket' \in [Fds -> {Nil} \cup Sockets]
      /\ socket'[fd] # Nil /\ socket'[fd].owner = socket[fd].owner
      /\ \A f \in Fds \ {fd} : socket'[f] = socket[f]
  BY <1>1, <1>2, <1>4, ReceivedTable
<1>6. TypeInv'
  BY <1>5 DEF Safe, TypeInv, TypeOK, Numbered, Send, leave, goto
<1>7. NoDescriptorLeak'
  BY <1>2, <1>5 DEF Safe, NoDescriptorLeak, Send, fd
<1> QED
  BY <1>6, <1>7 DEF Safe

\* A failed send leaves the socket open and remembered.
LEMMA SafeSendFails ==
    ASSUME Safe, NEW c \in Conns, SendFails(c)
    PROVE  Safe'
BY DEF Safe, TypeInv, TypeOK, Numbered, NoDescriptorLeak, SendFails, leave, goto

\* The socket is closed before it is forgotten.
LEMMA SafeSendShort ==
    ASSUME Safe, NEW c \in Conns, SendShort(c)
    PROVE  Safe'
<1>1. /\ socket' \in [Fds -> {Nil} \cup Sockets]
      /\ \A f \in Fds : socket'[f] = IF f = hSocket[c] THEN Nil ELSE socket[f]
  BY ClosedTable DEF Safe, TypeInv, SendShort
<1>2. TypeInv'
  BY <1>1 DEF Safe, TypeInv, TypeOK, Numbered, SendShort, leave, goto
<1>3. NoDescriptorLeak'
  BY <1>1 DEF Safe, TypeInv, TypeOK, Sockets, NoDescriptorLeak, SendShort
<1> QED
  BY <1>2, <1>3 DEF Safe

\* Receiving takes a message from the queue and opens nothing.
LEMMA SafeReceive ==
    ASSUME Safe, NEW c \in Conns, Receive(c)
    PROVE  Safe'
<1> DEFINE fd == hSocket[c]
           m  == Head(socket[fd].inbox)
<1>1. fd \in Fds /\ socket[fd] # Nil /\ socket[fd].inbox # <<>>
  BY DEF Receive, IsOpen
<1>2. TypeOK
  BY DEF Safe, TypeInv
<1> DEFINE s == Tail(socket[fd].inbox)
<1>3. m \in Messages /\ s \in Seq(Messages)
  BY <1>1, <1>2, SocketType, HeadTailProperties
<1>4. socket' = receivedOn(fd, s)
  BY DEF Receive
<1> HIDE DEF fd, m, s
<1>5. /\ socket' \in [Fds -> {Nil} \cup Sockets]
      /\ socket'[fd] # Nil /\ socket'[fd].owner = socket[fd].owner
      /\ \A f \in Fds \ {fd} : socket'[f] = socket[f]
  BY <1>1, <1>2, <1>3, <1>4, ReceivedTable
<1>6. answer' \in [Conns -> Seq(Messages)]
  <2>1. Append(answer[c], m) \in Seq(Messages)
    BY <1>2, <1>3, AppendProperties DEF TypeOK
  <2> QED
    BY <1>2, <2>1 DEF TypeOK, Receive, fd, m
<1>7. TypeInv'
  BY <1>5, <1>6 DEF Safe, TypeInv, TypeOK, Numbered, Receive, leave, goto
<1>8. NoDescriptorLeak'
  BY <1>1, <1>5 DEF Safe, NoDescriptorLeak, Receive, fd
<1> QED
  BY <1>7, <1>8 DEF Safe

\* Nor does a message that cannot be decoded.
LEMMA SafeDecodeThrows ==
    ASSUME Safe, NEW c \in Conns, DecodeThrows(c)
    PROVE  Safe'
<1> DEFINE fd == hSocket[c]
           s  == Tail(socket[fd].inbox)
<1>1. fd \in Fds /\ socket[fd] # Nil /\ socket[fd].inbox # <<>>
  BY DEF DecodeThrows, IsOpen
<1>2. TypeOK
  BY DEF Safe, TypeInv
<1>3. s \in Seq(Messages)
  BY <1>1, <1>2, SocketType, HeadTailProperties
<1>4. socket' = receivedOn(fd, s)
  BY DEF DecodeThrows
<1> HIDE DEF fd, s
<1>5. /\ socket' \in [Fds -> {Nil} \cup Sockets]
      /\ socket'[fd] # Nil /\ socket'[fd].owner = socket[fd].owner
      /\ \A f \in Fds \ {fd} : socket'[f] = socket[f]
  BY <1>1, <1>2, <1>3, <1>4, ReceivedTable
<1>6. TypeInv'
  BY <1>5 DEF Safe, TypeInv, TypeOK, Numbered, DecodeThrows, leave, goto
<1>7. NoDescriptorLeak'
  BY <1>1, <1>5 DEF Safe, NoDescriptorLeak, DecodeThrows, fd
<1> QED
  BY <1>6, <1>7 DEF Safe

\* The descriptor is closed, and still remembered.
LEMMA SafeReceiveFails ==
    ASSUME Safe, NEW c \in Conns, ReceiveFails(c)
    PROVE  Safe'
<1>1. /\ socket' \in [Fds -> {Nil} \cup Sockets]
      /\ \A f \in Fds : socket'[f] = IF f = hSocket[c] THEN Nil ELSE socket[f]
  BY ClosedTable DEF Safe, TypeInv, ReceiveFails
<1>2. TypeInv'
  BY <1>1 DEF Safe, TypeInv, TypeOK, Numbered, ReceiveFails, leave, goto
<1>3. NoDescriptorLeak'
  BY <1>1 DEF Safe, NoDescriptorLeak, ReceiveFails
<1> QED
  BY <1>2, <1>3 DEF Safe

\* The destructor closes the socket before it forgets it.
LEMMA SafeStop ==
    ASSUME Safe, NEW c \in Conns, stop(c)
    PROVE  Safe'
<1>1. /\ socket' \in [Fds -> {Nil} \cup Sockets]
      /\ \A f \in Fds : socket'[f] = IF f = hSocket[c] THEN Nil ELSE socket[f]
  BY ClosedTable DEF Safe, TypeInv, stop
<1>2. TypeInv'
  BY <1>1, TCPAssumption, EmptySeq DEF Safe, TypeInv, TypeOK, Numbered, stop
<1>3. NoDescriptorLeak'
  BY <1>1 DEF Safe, TypeInv, TypeOK, Sockets, NoDescriptorLeak, stop
<1> QED
  BY <1>2, <1>3 DEF Safe

\* Every step keeps Safe.
LEMMA SafeNext == Safe /\ [Next]_vars => Safe'
<1> SUFFICES ASSUME Safe, [Next]_vars
             PROVE  Safe'
  OBVIOUS
<1>1. ASSUME NEW c \in Conns, NEW m \in {"none", "single", "consumer"},
             sendMessage(c, m)
      PROVE  Safe'
  BY <1>1, SafeSendMessage
<1>2. ASSUME NEW c \in Conns, Step(c)
      PROVE  Safe'
  BY <1>2, SafeAlreadyConnected, SafeNoSocket, SafeNewSocket, SafeSend,
     SafeSendFails, SafeSendShort, SafeReceive, SafeDecodeThrows, SafeReceiveFails
     DEF Step
<1>3. ASSUME NEW c \in Conns, stop(c)
      PROVE  Safe'
  BY <1>3, SafeStop
<1>4. CASE UNCHANGED vars
  BY <1>4 DEF vars, Safe, TypeInv, TypeOK, Numbered, NoDescriptorLeak
<1> QED
  BY <1>1, <1>2, <1>3, <1>4 DEF Next

\* Every variable keeps its type.
THEOREM TypeCorrect == Spec => []TypeOK
<1>1. Safe => TypeOK
  BY DEF Safe, TypeInv
<1> QED
  BY SafeInit, SafeNext, <1>1, PTL DEF Spec

\* However many objects share the descriptor table and take over each other's
\* numbers, an open socket is always at the number its opener remembers.
THEOREM DescriptorsAreKept == Spec => []NoDescriptorLeak
<1>1. Safe => NoDescriptorLeak
  BY DEF Safe
<1> QED
  BY SafeInit, SafeNext, <1>1, PTL DEF Spec

-----------------------------------------------------------------------------
(* The answers that the only object of a process hands out.                *)

\* The process has one object.
Sole == \A c, d \in Conns : c = d

\* The fields of a message that has arrived.
LEMMA MessageType ==
    ASSUME NEW s \in Seq(Messages), NEW i \in 1..Len(s)
    PROVE  /\ s[i].to \in Conns /\ s[i].final \in BOOLEAN
           /\ s[i].id \in Nat /\ s[i].part \in Nat
<1>1. s[i] \in Messages
  BY ElementOfSeq
<1> QED
  BY <1>1 DEF Messages

\* What is left after the first message is in order.
LEMMA TailQueue ==
    ASSUME NEW s \in Seq(Messages), s # <<>>, InOrder(s)
    PROVE  InOrder(Tail(s))
<1>1. /\ Len(Tail(s)) = Len(s) - 1 /\ Len(s) \in Nat
      /\ \A i \in 1 .. Len(Tail(s)) : Tail(s)[i] = s[i + 1]
  BY HeadTailProperties, LenProperties
<1> SUFFICES ASSUME NEW i \in 1 .. Len(Tail(s)) - 1
             PROVE  \/ /\ Tail(s)[i + 1].id = Tail(s)[i].id
                       /\ Tail(s)[i + 1].part = Tail(s)[i].part + 1
                    \/ Tail(s)[i + 1].id > Tail(s)[i].id /\ Tail(s)[i + 1].part = 1
  BY DEF InOrder
<1>2. i + 1 \in 1 .. Len(s) - 1 /\ i \in 1 .. Len(Tail(s)) /\ i + 1 \in 1 .. Len(Tail(s))
  BY <1>1
<1> QED
  BY <1>1, <1>2 DEF InOrder

\* A new answer goes to the end of what is left of earlier ones.
LEMMA SendQueue ==
    ASSUME TypeOK, NEW c \in Conns, requestID[c] # 0, NEW s \in Seq(Messages),
           InOrder(s), NEW parts \in 1..MaxParts,
           \A i \in 1..Len(s) : s[i].to = c /\ s[i].id < requestID[c]
    PROVE  LET t == s \o answerOf(c, parts)
           IN  /\ t \in Seq(Messages) /\ Len(t) > 0 /\ InOrder(t)
               /\ \A i \in 1..Len(t) : t[i].to = c /\ t[i].id <= requestID[c]
               /\ t[1].id < requestID[c] \/ t[1].part = 1
<1> DEFINE a == answerOf(c, parts)
           t == s \o a
<1>0. /\ a \in Seq(Messages) /\ Len(a) = parts
      /\ \A i \in 1..parts : a[i] =
            [to |-> c, id |-> requestID[c], part |-> i, final |-> i = parts]
  BY AnswerType
<1> HIDE DEF a
<1>1. /\ a \in Seq(Messages) /\ Len(a) = parts
      /\ \A i \in 1..parts : a[i].to = c /\ a[i].id = requestID[c] /\ a[i].part = i
  BY <1>0
<1>2. parts \in Nat /\ parts > 0 /\ Len(s) \in Nat /\ requestID[c] \in Nat
  BY TCPAssumption, LenProperties DEF TypeOK
<1>3. /\ t \in Seq(Messages) /\ Len(t) = Len(s) + parts
      /\ \A i \in 1 .. Len(s) + parts : t[i] = IF i <= Len(s) THEN s[i] ELSE a[i - Len(s)]
  BY <1>1, ConcatProperties
<1> HIDE DEF t
<1>4. \A i \in 1 .. Len(t) : t[i].to = c /\ t[i].id <= requestID[c]
  <2> SUFFICES ASSUME NEW i \in 1 .. Len(t)
               PROVE  t[i].to = c /\ t[i].id <= requestID[c]
    OBVIOUS
  <2>1. CASE i <= Len(s)
    <3>1. i \in 1..Len(s) /\ t[i] = s[i] /\ s[i] \in Messages
      BY <1>2, <1>3, <2>1, ElementOfSeq
    <3> QED
      BY <1>2, <3>1 DEF Messages
  <2>2. CASE i > Len(s)
    <3>1. i - Len(s) \in 1..parts /\ t[i] = a[i - Len(s)]
      BY <1>2, <1>3, <2>2
    <3> QED
      BY <1>1, <1>2, <3>1
  <2> QED
    BY <1>2, <2>1, <2>2
<1>5. t[1].id < requestID[c] \/ t[1].part = 1
  <2>1. CASE Len(s) = 0
    <3>1. 1 \in 1..parts /\ t[1] = a[1]
      BY <1>2, <1>3, <2>1
    <3> QED
      BY <1>1, <3>1
  <2>2. CASE Len(s) # 0
    <3>1. 1 \in 1..Len(s) /\ t[1] = s[1]
      BY <1>2, <1>3, <2>2
    <3> QED
      BY <3>1
  <2> QED
    BY <2>1, <2>2
<1>6. InOrder(t)
  <2> SUFFICES ASSUME NEW i \in 1 .. Len(t) - 1
               PROVE  \/ t[i + 1].id = t[i].id /\ t[i + 1].part = t[i].part + 1
                      \/ t[i + 1].id > t[i].id /\ t[i + 1].part = 1
    BY DEF InOrder
  <2>1. CASE i < Len(s)
    BY <1>2, <1>3, <2>1 DEF InOrder
  <2>2. CASE i = Len(s)
    <3>1. i \in 1..Len(s) /\ i + 1 \in 1 .. Len(s) + parts /\ 1 \in 1..parts
      BY <1>2, <1>3, <2>2
    <3>2. t[i] = s[i] /\ t[i + 1] = a[1]
      BY <1>2, <1>3, <2>2, <3>1
    <3>3. s[i].id \in Nat
      BY <3>1, MessageType
    <3> QED
      BY <1>1, <1>2, <3>1, <3>2, <3>3
  <2>3. CASE i > Len(s)
    <3>1. /\ i \in 1 .. Len(s) + parts /\ i + 1 \in 1 .. Len(s) + parts
          /\ i - Len(s) \in 1..parts /\ i + 1 - Len(s) \in 1..parts
      BY <1>2, <1>3, <2>3
    <3>2. t[i] = a[i - Len(s)] /\ t[i + 1] = a[i + 1 - Len(s)]
      BY <1>2, <1>3, <2>3, <3>1
    <3> QED
      BY <1>1, <1>2, <3>1, <3>2
  <2> QED
    BY <1>2, <2>1, <2>2, <2>3
<1> QED
  BY <1>2, <1>3, <1>4, <1>5, <1>6 DEF t, a

\* The socket of the only object is where it remembers it.
LEMMA OnlySocket ==
    ASSUME IInv, Sole, NEW c \in Conns, NEW fd \in Fds, socket[fd] # Nil
    PROVE  fd = hSocket[c]
BY SocketType DEF IInv, TypeInv, Sole, NoDescriptorLeak

\* One lemma per kind of step: it keeps the queue in order. A new request
\* makes everything that is queued an answer to an earlier one.
LEMMA QueuedSendMessage ==
    ASSUME IInv, Sole, NEW c \in Conns, NEW m \in {"none", "single", "consumer"},
           sendMessage(c, m)
    PROVE  Queued'
<1>1. /\ requestID[c] \in Nat /\ requestID'[c] = requestID[c] + 1
      /\ answer'[c] = <<>> /\ UNCHANGED socket
  BY DEF IInv, TypeInv, TypeOK, sendMessage
<1>2. \A d \in Conns : d = c
  BY DEF Sole
<1>3. Unanswered'
  BY <1>1, <1>2 DEF Unanswered
<1>4. OwnAnswer'
  BY <1>1, <1>2, EmptySeq DEF OwnAnswer
<1>5. QueueInv'
  <2> SUFFICES ASSUME NEW fd \in Fds, socket[fd] # Nil
               PROVE  /\ InOrder(socket[fd].inbox)
                      /\ Asked(c, socket[fd].inbox)'
                      /\ Continued(c, socket[fd].inbox)'
    BY <1>1, <1>2 DEF QueueInv
  <2> DEFINE s == socket[fd].inbox
  <2>1. InOrder(s) /\ Asked(c, s) /\ s \in Seq(Messages)
    BY SocketType DEF IInv, TypeInv, Queued, QueueInv
  <2>2. \A i \in 1..Len(s) : s[i].id \in Nat
    BY <2>1, MessageType
  <2>3. \A i \in 1..Len(s) : s[i].id < requestID'[c]
    BY <1>1, <2>1, <2>2 DEF Asked
  <2>4. Asked(c, s)'
    BY <1>1, <2>1, <2>2, <2>3 DEF Asked
  <2>5. Continued(c, s)'
    BY <1>1, <2>1, <2>2, <2>3, LenProperties DEF Continued
  <2> QED
    BY <1>1, <2>1, <2>4, <2>5
<1> QED
  BY <1>3, <1>4, <1>5 DEF Queued

\* Steps that leave the sockets, the numbers and the answers alone, and do not
\* go back to a point before the request is sent or begin to wait.
LEMMA QueuedSame ==
    ASSUME IInv, UNCHANGED <<socket, requestID, answer>>,
           \A c \in Conns :
               /\ pc'[c] \in {"socket", "send"} => pc[c] \in {"socket", "send"}
               /\ pc'[c] = "receive" => pc[c] = "receive"
    PROVE  Queued'
BY DEF IInv, Queued, Unanswered, QueueInv, Asked, Continued, OwnAnswer

\* When the only socket is closed nothing is queued.
LEMMA QueuedClosing ==
    ASSUME IInv, Sole, NEW c \in Conns, socket' = closed(hSocket[c]),
           UNCHANGED <<requestID, answer>>, goto(c, "idle")
    PROVE  Queued'
<1>1. \A fd \in Fds : socket'[fd] = Nil
  BY OnlySocket, ClosedTable DEF IInv, TypeInv
<1>2. \A d \in Conns : pc'[d] = "idle"
  BY DEF Sole, goto, IInv, TypeInv, TypeOK
<1> QED
  BY <1>1, <1>2 DEF IInv, Queued, Unanswered, QueueInv, OwnAnswer

\* Nor after the destructor, which starts the numbers again.
LEMMA QueuedStop ==
    ASSUME IInv, Sole, NEW c \in Conns, stop(c)
    PROVE  Queued'
<1>1. \A fd \in Fds : socket'[fd] = Nil
  BY OnlySocket, ClosedTable DEF IInv, TypeInv, stop
<1>2. \A d \in Conns : pc'[d] = "idle" /\ answer'[d] = <<>>
  BY DEF Sole, stop, IInv, TypeInv, TypeOK
<1> QED
  BY <1>1, <1>2, EmptySeq DEF Queued, Unanswered, QueueInv, OwnAnswer

\* Nothing is queued on a new socket, and there is no other.
LEMMA QueuedNewSocket ==
    ASSUME IInv, Sole, NEW c \in Conns, NEW connected \in BOOLEAN,
           NewSocket(c, connected)
    PROVE  Queued'
<1>1. PICK fd \in Fds : socket' = [socket EXCEPT ![fd] =
                              [owner |-> c, connected |-> connected, inbox |-> <<>>]]
  BY DEF NewSocket, lowestFree, freeFds
<1>2. \A f \in Fds : socket'[f] # Nil => socket'[f].inbox = <<>>
  <2>1. \A f \in Fds : socket[f] = Nil
    BY OnlySocket, TCPAssumption DEF NewSocket, Fds
  <2> QED
    BY <1>1, <2>1 DEF IInv, TypeInv, TypeOK
<1>3. QueueInv'
  BY <1>2, EmptySeq DEF QueueInv, InOrder, Asked, Continued
<1>4. Unanswered' /\ OwnAnswer'
  BY DEF IInv, TypeInv, TypeOK, Queued, Unanswered, OwnAnswer, NewSocket, leave, goto
<1> QED
  BY <1>3, <1>4 DEF Queued

\* The answer is queued behind what is left of earlier ones.
LEMMA QueuedSend ==
    ASSUME IInv, Sole, NEW c \in Conns, Send(c)
    PROVE  Queued'
<1>1. TypeOK /\ requestID[c] # 0 /\ answer[c] = <<>>
  BY DEF IInv, TypeInv, Numbered, Queued, Unanswered, Send
<1> DEFINE fd == hSocket[c]
<1>2. fd \in Fds /\ socket[fd] # Nil
  BY DEF Send, IsOpen
<1>3. PICK parts \in 1..MaxParts :
          socket' = receivedOn(fd, socket[fd].inbox \o answerOf(c, parts))
  BY DEF Send
<1> DEFINE s == socket[fd].inbox
<1>0. PICK t : t = s \o answerOf(c, parts)
  OBVIOUS
<1>4. s \in Seq(Messages) /\ InOrder(s) /\ Asked(c, s)
  BY <1>1, <1>2, SocketType DEF IInv, Queued, QueueInv
<1>5. \A i \in 1..Len(s) : s[i].to = c /\ s[i].id < requestID[c]
  BY <1>4 DEF Asked, Send
<1>6. /\ t \in Seq(Messages) /\ Len(t) > 0 /\ InOrder(t)
      /\ \A i \in 1..Len(t) : t[i].to = c /\ t[i].id <= requestID[c]
      /\ t[1].id < requestID[c] \/ t[1].part = 1
  BY <1>1, <1>4, <1>5, <1>0, SendQueue
<1>7. socket' = receivedOn(fd, t)
  BY <1>3, <1>0
<1> HIDE DEF s
<1>8. /\ socket'[fd] # Nil /\ socket'[fd].inbox = t
      /\ \A f \in Fds \ {fd} : socket'[f] = Nil
  BY <1>1, <1>2, <1>6, <1>7, ReceivedTable, OnlySocket
<1>9. /\ \A d \in Conns : d = c
      /\ pc'[c] \in {"idle", "receive"} /\ UNCHANGED <<answer, requestID>>
  BY <1>1 DEF Sole, Send, leave, goto, TypeOK
<1>10. QueueInv'
  <2>1. Asked(c, t)'
    BY <1>6, <1>9 DEF Asked
  <2>2. Continued(c, t)'
    <3>1. answer'[c] = <<>> /\ Len(answer'[c]) = 0 /\ requestID[c] \in Nat
      BY <1>1, <1>9 DEF TypeOK
    <3> QED
      BY <1>6, <1>9, <3>1 DEF Continued
  <2> QED
    BY <1>6, <1>8, <1>9, <2>1, <2>2 DEF QueueInv
<1>11. Unanswered' /\ OwnAnswer'
  BY <1>1, <1>9, EmptySeq DEF Unanswered, OwnAnswer
<1> QED
  BY <1>10, <1>11 DEF Queued

\* A message of the own answer continues what the caller was given, and any
\* other leaves it empty.
LEMMA QueuedReceive ==
    ASSUME IInv, Sole, NEW c \in Conns, Receive(c)
    PROVE  Queued'
<1>1. TypeOK /\ answer[c] \in Seq(Messages)
  BY DEF IInv, TypeInv, TypeOK
<1> DEFINE fd == hSocket[c]
           s  == socket[fd].inbox
           m  == Head(s)
<1>0. PICK t : t = Tail(s)
  OBVIOUS
<1>2. fd \in Fds /\ socket[fd] # Nil /\ s # <<>>
  BY DEF Receive, IsOpen
<1>3. /\ s \in Seq(Messages) /\ InOrder(s) /\ Asked(c, s) /\ Continued(c, s)
      /\ pc[c] = "receive"
  BY <1>1, <1>2, SocketType DEF IInv, Queued, QueueInv, Receive
<1>4. /\ m \in Messages /\ m = s[1] /\ Len(s) \in Nat \ {0}
      /\ t \in Seq(Messages) /\ Len(t) = Len(s) - 1
      /\ \A i \in 1..Len(t) : t[i] = s[i + 1]
  BY <1>2, <1>3, <1>0, HeadTailProperties, EmptySeq
<1>5. InOrder(t)
  BY <1>2, <1>3, <1>0, TailQueue
<1>6. /\ socket' = receivedOn(fd, t)
      /\ answer' = [answer EXCEPT ![c] = IF Mine(c, m) THEN Append(@, m) ELSE @]
      /\ UNCHANGED requestID
      /\ pc'[c] \in {"idle", "receive"}
  BY <1>1, <1>0 DEF Receive, leave, goto, TypeOK
<1> HIDE DEF s, m
<1>7. /\ socket'[fd] # Nil /\ socket'[fd].inbox = t
      /\ \A f \in Fds \ {fd} : socket'[f] = Nil
  BY <1>1, <1>2, <1>4, <1>6, ReceivedTable, OnlySocket
<1>8. \A d \in Conns : d = c
  BY DEF Sole
<1>9. \A i \in 1..Len(t) : i + 1 \in 1..Len(s) /\ t[i].id \in Nat /\ t[i].part \in Nat
  BY <1>4, MessageType
<1>10. Asked(c, t)'
  BY <1>3, <1>4, <1>6, <1>9 DEF Asked
<1>11. CASE Mine(c, m)
  <2>1. /\ m.id = requestID[c] /\ m.part = Len(answer[c]) + 1 /\ m.to = c
    BY <1>3, <1>4, <1>11 DEF Mine, Continued, Asked
  <2>2. /\ answer'[c] = Append(answer[c], m) /\ Len(answer'[c]) = Len(answer[c]) + 1
        /\ \A i \in 1..Len(answer[c]) : answer'[c][i] = answer[c][i]
        /\ answer'[c][Len(answer[c]) + 1] = m
    BY <1>1, <1>4, <1>6, <1>11, AppendProperties DEF TypeOK
  <2>3. OwnAnswer'
    BY <1>1, <1>6, <1>8, <2>1, <2>2, LenProperties DEF IInv, Queued, OwnAnswer
  <2>4. Continued(c, t)'
    <3> SUFFICES ASSUME Len(t) > 0
                 PROVE  t[1].id = requestID[c] /\ t[1].part = Len(answer'[c]) + 1
      BY <1>6 DEF Continued
    <3>1. 1 \in 1 .. Len(s) - 1 /\ 1 \in 1..Len(t) /\ t[1] = s[2] /\ 2 \in 1..Len(s)
      BY <1>4
    <3>2. \/ t[1].id = m.id /\ t[1].part = m.part + 1
          \/ t[1].id > m.id
      BY <1>3, <1>4, <3>1 DEF InOrder
    <3>3. t[1].id <= requestID[c] /\ t[1].id \in Nat /\ requestID[c] \in Nat
      BY <1>1, <1>3, <1>9, <3>1 DEF Asked, TypeOK
    <3> QED
      BY <2>1, <2>2, <3>2, <3>3
  <2>5. Unanswered'
    BY <1>6, <1>8 DEF Unanswered
  <2> QED
    BY <1>5, <1>7, <1>8, <1>10, <2>3, <2>4, <2>5 DEF Queued, QueueInv
<1>12. CASE ~Mine(c, m)
  <2>1. answer[c] = <<>> /\ UNCHANGED answer
    BY <1>1, <1>3, <1>4, <1>6, <1>12 DEF Mine, Continued, TypeOK
  <2>2. OwnAnswer'
    BY <1>8, <2>1, EmptySeq DEF OwnAnswer
  <2>3. Continued(c, t)'
    <3>0. answer'[c] = <<>> /\ Len(answer'[c]) = 0
      BY <2>1
    <3> SUFFICES ASSUME Len(t) > 0, t[1].id = requestID[c]
                 PROVE  t[1].part = 1
      BY <1>6, <3>0 DEF Continued
    <3>1. 1 \in 1 .. Len(s) - 1 /\ t[1] = s[2]
      BY <1>4
    <3>2. \/ t[1].id = m.id
          \/ t[1].part = 1
      BY <1>3, <1>4, <3>1 DEF InOrder
    <3> QED
      BY <1>12, <3>2 DEF Mine
  <2>4. Unanswered'
    BY <1>6, <1>8 DEF Unanswered
  <2> QED
    BY <1>5, <1>7, <1>8, <1>10, <2>2, <2>3, <2>4 DEF Queued, QueueInv
<1> QED
  BY <1>11, <1>12

\* A message that cannot be decoded is gone, and the call with it: what is left
\* of its answer will be told from the next by the request ID.
LEMMA QueuedDecodeThrows ==
    ASSUME IInv, Sole, NEW c \in Conns, DecodeThrows(c)
    PROVE  Queued'
<1>1. TypeOK
  BY DEF IInv, TypeInv
<1> DEFINE fd == hSocket[c]
           s  == socket[fd].inbox
<1>0. PICK t : t = Tail(s)
  OBVIOUS
<1>2. fd \in Fds /\ socket[fd] # Nil /\ s # <<>>
  BY DEF DecodeThrows, IsOpen
<1>3. s \in Seq(Messages) /\ InOrder(s) /\ Asked(c, s)
  BY <1>1, <1>2, SocketType DEF IInv, Queued, QueueInv
<1>4. /\ t \in Seq(Messages) /\ Len(s) \in Nat /\ Len(t) = Len(s) - 1
      /\ \A i \in 1..Len(t) : t[i] = s[i + 1]
  BY <1>2, <1>3, <1>0, HeadTailProperties, LenProperties
<1>5. InOrder(t)
  BY <1>2, <1>3, <1>0, TailQueue
<1>6. /\ socket' = receivedOn(fd, t)
      /\ pc'[c] = "idle" /\ UNCHANGED <<requestID, answer>>
  BY <1>1, <1>0 DEF DecodeThrows, leave, goto, TypeOK
<1> HIDE DEF s
<1>7. /\ socket'[fd] # Nil /\ socket'[fd].inbox = t
      /\ \A f \in Fds \ {fd} : socket'[f] = Nil
  BY <1>1, <1>2, <1>4, <1>6, ReceivedTable, OnlySocket
<1>8. \A d \in Conns : d = c
  BY DEF Sole
<1>9. Asked(c, t)' /\ Continued(c, t)'
  <2>1. \A i \in 1..Len(t) : i + 1 \in 1..Len(s)
    BY <1>4
  <2> QED
    BY <1>3, <1>4, <1>6, <2>1 DEF Asked, Continued
<1>10. Unanswered' /\ OwnAnswer'
  BY <1>6, <1>8 DEF IInv, Queued, Unanswered, OwnAnswer
<1> QED
  BY <1>5, <1>7, <1>8, <1>9, <1>10 DEF Queued, QueueInv

\* Initially nothing is queued.
LEMMA IInvInit == Init => IInv
<1>1. Init => Queued
  BY EmptySeq DEF Init, Queued, Unanswered, QueueInv, OwnAnswer
<1> QED
  BY <1>1, SafeInit DEF Safe, IInv

\* Every step of a process with one object keeps IInv.
LEMMA IInvNext == Sole /\ IInv /\ [Next]_vars => IInv'
<1> SUFFICES ASSUME Sole, IInv, [Next]_vars
             PROVE  Queued'
  BY SafeNext DEF Safe, IInv
<1>1. ASSUME NEW c \in Conns, NEW m \in {"none", "single", "consumer"},
             sendMessage(c, m)
      PROVE  Queued'
  BY <1>1, QueuedSendMessage
<1>2. ASSUME NEW c \in Conns, AlreadyConnected(c) \/ NoSocket(c) \/ SendFails(c)
      PROVE  Queued'
  BY <1>2, QueuedSame
     DEF AlreadyConnected, NoSocket, SendFails, leave, goto, IInv, TypeInv, TypeOK
<1>3. ASSUME NEW c \in Conns, NEW connected \in BOOLEAN, NewSocket(c, connected)
      PROVE  Queued'
  BY <1>3, QueuedNewSocket
<1>4. ASSUME NEW c \in Conns, Send(c)
      PROVE  Queued'
  BY <1>4, QueuedSend
<1>5. ASSUME NEW c \in Conns, SendShort(c) \/ ReceiveFails(c)
      PROVE  Queued'
  BY <1>5, QueuedClosing DEF SendShort, ReceiveFails, leave
<1>6. ASSUME NEW c \in Conns, Receive(c)
      PROVE  Queued'
  BY <1>6, QueuedReceive
<1>7. ASSUME NEW c \in Conns, DecodeThrows(c)
      PROVE  Queued'
  BY <1>7, QueuedDecodeThrows
<1>8. ASSUME NEW c \in Conns, stop(c)
      PROVE  Queued'
  BY <1>8, QueuedStop
<1>9. CASE UNCHANGED vars
  BY <1>9, QueuedSame DEF vars
<1> QED
  BY <1>1, <1>2, <1>3, <1>4, <1>5, <1>6, <1>7, <1>8, <1>9 DEF Next, Step

\* When there is only one object, so that nobody else gets at its descriptor, a
\* caller is handed messages of its own answer only, in order and without a gap.
THEOREM AnswersAreOwn ==
    ASSUME Sole
    PROVE  Spec => []OwnAnswer
<1>1. IInv /\ [Next]_vars => IInv'
  BY IInvNext
<1>2. IInv => OwnAnswer
  BY DEF IInv, Queued
<1> QED
  BY IInvInit, <1>1, <1>2, PTL DEF Spec
=============================================================================
