---------------------- MODULE MySQLOSPConnection_proofs ---------------------
(***************************************************************************)
(* The invariants of MySQLOSPConnection: a stored result set is complete   *)
(* and the statement's own, and with a server that keeps to the protocol   *)
(* every request finds its own answer on the streams.                      *)
(***************************************************************************)
EXTENDS MySQLOSPConnection, SequenceTheorems, TLAPS

RowKind == {"row", "bad"}

\* Behind the j-th message in s are the n rows of answer id, the last of them
\* final; they may be cut off only when the server has gone.
RowsFollow(s, up, j, n, id) ==
    /\ up => j + n <= Len(s)
    /\ \A i \in 1 .. Len(s) : j < i /\ i <= j + n =>
          /\ s[i].id = id /\ s[i].body.kind \in RowKind
          /\ s[i].final <=> i = j + n

\* A meta response is followed by the rows it announces.
Framed(s, up) ==
    \A j \in 1 .. Len(s) : s[j].body.kind = "meta" =>
        /\ s[j].final <=> s[j].body.n = 0
        /\ RowsFollow(s, up, j, s[j].body.n, s[j].id)

\* A result set under construction lacks the rows that come next.
Partial ==
    pc = "receive" /\ call = "query" /\ currentRes # Nil =>
        /\ currentRes.state = "partial" /\ currentRes.rows < currentRes.total
        /\ RowsFollow(inbox, peerUp, 0, currentRes.total - currentRes.rows, requestID)

\* StoresOwnResult without the number of the request.
Complete ==
    pc = "idle" /\ call = "query" /\ ret = 0 /\ ~taken /\ currentRes # Nil =>
        currentRes.rows = currentRes.total /\ currentRes.state = "ready"

\* CreateStatement sends the second request of the constructor.
Room == pc = "receive" /\ call = "open" => sent < MaxRequests

\* With a server that keeps to the protocol only the answer to the request is
\* on the streams: one message, or for a query a result set that has its meta
\* response before its rows.
Kinds(name) ==
    CASE name = "query" -> {"error", "execError", "exec", "meta", "row"}
      [] name = "open"  -> {"ack", "error", "noStatement"}
      [] OTHER          -> {"ack", "error"}

Awaited ==
    WellFormed /\ pc = "receive" =>
        /\ call \in {"ping", "open", "create", "close", "query"}
        /\ \A i \in 1 .. Len(inbox) :
              /\ inbox[i].id = requestID /\ inbox[i].of = sent
              /\ inbox[i].body.kind \in Kinds(call)
              /\ inbox[i].final => i = Len(inbox)
        /\ call # "query" => Len(inbox) <= 1
        /\ call = "query" => \A i \in 1 .. Len(inbox) : inbox[i].body.kind = "row" =>
              currentRes # Nil \/ \E j \in 1 .. i - 1 : inbox[j].body.kind = "meta"

\* A request ID is not used again as long as messages with it may arrive.
UniqueIDs == WellFormed \/ MaxRequests < MaxRequestID

Numbered ==
    peerUp /\ MaxRequests < MaxRequestID =>
        /\ nextRequestID <= sent + 1
        /\ \A i \in 1 .. Len(inbox) : inbox[i].id < nextRequestID

Own ==
    UniqueIDs /\ pc = "receive" =>
        /\ \A i \in 1 .. Len(inbox) : inbox[i].id = requestID => inbox[i].of = sent
        /\ call = "query" /\ currentRes # Nil => currentRes.of = sent

TypeInv == TypeOK /\ Room
Framing == Framed(inbox, peerUp) /\ Partial /\ Complete
Stepping == InStep /\ Awaited
Owning  == Numbered /\ Own /\ (UniqueIDs => StoresOwnResult)

IInv == TypeInv /\ Framing /\ Stepping /\ Owning

-----------------------------------------------------------------------------
(* Sequences of messages.                                                  *)

\* What is left when the first message has been read.
LEMMA TailIs ==
    ASSUME NEW S, NEW s \in Seq(S), s # <<>>
    PROVE  /\ Tail(s) \in Seq(S) /\ Len(s) \in Nat /\ Len(s) > 0
           /\ Len(Tail(s)) = Len(s) - 1
           /\ \A i \in 1 .. Len(Tail(s)) : Tail(s)[i] = s[i + 1]
           /\ Head(s) = s[1] /\ Head(s) \in S /\ 1 \in 1 .. Len(s)
           /\ Len(s) = 1 => Tail(s) = <<>>
<1>1. /\ Tail(s) \in Seq(S) /\ Head(s) \in S /\ Len(Tail(s)) = Len(s) - 1
      /\ \A i \in 1 .. Len(Tail(s)) : Tail(s)[i] = s[i + 1]
      /\ Len(s) \in Nat \ {0}
  BY HeadTailProperties, EmptySeq
<1>2. Tail(s) # <<>> => Len(Tail(s)) \in Nat \ {0}
  BY <1>1, EmptySeq
<1>3. Head(s) = s[1]
  OBVIOUS
<1>4. QED
  BY <1>1, <1>2, <1>3

\* What can still be read when the server exits.
LEMMA PrefixIs ==
    ASSUME NEW S, NEW s \in Seq(S), NEW n \in 0 .. Len(s)
    PROVE  /\ SubSeq(s, 1, n) \in Seq(S) /\ Len(SubSeq(s, 1, n)) = n
           /\ \A i \in 1 .. n : SubSeq(s, 1, n)[i] = s[i]
           /\ s = <<>> => SubSeq(s, 1, n) = <<>>
<1>1. Len(s) \in Nat /\ n \in Nat
  BY LenProperties
<1>2. \A i \in 1 .. n : s[i] \in S
  BY <1>1, ElementOfSeq
<1>3. /\ SubSeq(s, 1, n) \in Seq(S)
      /\ Len(SubSeq(s, 1, n)) = IF 1 <= n THEN n - 1 + 1 ELSE 0
      /\ \A i \in 1 .. n - 1 + 1 : SubSeq(s, 1, n)[i] = s[1 + i - 1]
  BY <1>1, <1>2, SubSeqProperties
<1>4. Len(SubSeq(s, 1, n)) = n /\ \A i \in 1 .. n : SubSeq(s, 1, n)[i] = s[i]
  BY <1>1, <1>3
<1>5. ASSUME s = <<>> PROVE SubSeq(s, 1, n) = <<>>
  <2>1. n < 1
    BY <1>5, EmptySeq
  <2>2. QED
    BY <1>1, <2>1, SubSeqEmpty
<1>6. QED
  BY <1>3, <1>4, <1>5

\* Reading a message moves the rows to the front.
LEMMA RowsShift ==
    ASSUME NEW S, NEW s \in Seq(S), s # <<>>, NEW up, NEW j \in Nat, NEW n \in Nat, NEW id,
           RowsFollow(s, up, j, n, id)
    PROVE  /\ j > 0 => RowsFollow(Tail(s), up, j - 1, n, id)
           /\ j = 0 /\ n > 0 => RowsFollow(Tail(s), up, 0, n - 1, id)
<1>1. /\ Len(s) \in Nat /\ Len(Tail(s)) = Len(s) - 1
      /\ \A i \in 1 .. Len(Tail(s)) : Tail(s)[i] = s[i + 1]
  BY TailIs
<1>2. \A i \in 1 .. Len(Tail(s)) : i + 1 \in 1 .. Len(s)
  BY <1>1
<1>3. ASSUME j > 0 PROVE RowsFollow(Tail(s), up, j - 1, n, id)
  BY <1>1, <1>2, <1>3 DEF RowsFollow
<1>4. ASSUME j = 0, n > 0 PROVE RowsFollow(Tail(s), up, 0, n - 1, id)
  BY <1>1, <1>2, <1>4 DEF RowsFollow
<1>5. QED
  BY <1>3, <1>4

\* Reading a message leaves the later result sets whole.
LEMMA FramedTail ==
    ASSUME NEW S, NEW s \in Seq(S), s # <<>>, NEW up, Framed(s, up),
           \A i \in 1 .. Len(s) : s[i].body.kind = "meta" => s[i].body.n \in Nat
    PROVE  Framed(Tail(s), up)
<1>1. /\ Len(s) \in Nat /\ Len(Tail(s)) = Len(s) - 1
      /\ \A i \in 1 .. Len(Tail(s)) : Tail(s)[i] = s[i + 1]
  BY TailIs
<1> SUFFICES ASSUME NEW j \in 1 .. Len(Tail(s)), Tail(s)[j].body.kind = "meta"
             PROVE  /\ Tail(s)[j].final <=> Tail(s)[j].body.n = 0
                    /\ RowsFollow(Tail(s), up, j, Tail(s)[j].body.n, Tail(s)[j].id)
  BY DEF Framed
<1>2. j + 1 \in 1 .. Len(s) /\ Tail(s)[j] = s[j + 1] /\ j + 1 \in Nat /\ (j + 1) - 1 = j
  BY <1>1
<1>3. /\ s[j + 1].final <=> s[j + 1].body.n = 0
      /\ RowsFollow(s, up, j + 1, s[j + 1].body.n, s[j + 1].id)
      /\ s[j + 1].body.n \in Nat
  BY <1>2 DEF Framed
<1>4. RowsFollow(Tail(s), up, (j + 1) - 1, s[j + 1].body.n, s[j + 1].id)
  BY <1>2, <1>3, RowsShift
<1>5. QED
  BY <1>2, <1>3, <1>4

\* Rows that are cut off stay the rows of their answer.
LEMMA RowsPrefix ==
    ASSUME NEW S, NEW s \in Seq(S), NEW n \in 0 .. Len(s),
           NEW up, NEW j, NEW k, NEW id, RowsFollow(s, up, j, k, id)
    PROVE  RowsFollow(SubSeq(s, 1, n), FALSE, j, k, id)
<1>1. /\ Len(s) \in Nat /\ Len(SubSeq(s, 1, n)) = n
      /\ \A i \in 1 .. n : SubSeq(s, 1, n)[i] = s[i] /\ i \in 1 .. Len(s)
  BY LenProperties, PrefixIs
<1>2. QED
  BY <1>1 DEF RowsFollow

\* Result sets that are cut off stay in their order.
LEMMA FramedPrefix ==
    ASSUME NEW S, NEW s \in Seq(S), NEW n \in 0 .. Len(s), NEW up, Framed(s, up)
    PROVE  Framed(SubSeq(s, 1, n), FALSE)
<1>1. /\ Len(s) \in Nat /\ Len(SubSeq(s, 1, n)) = n
      /\ \A i \in 1 .. n : SubSeq(s, 1, n)[i] = s[i] /\ i \in 1 .. Len(s)
  BY LenProperties, PrefixIs
<1>2. QED
  BY <1>1, RowsPrefix DEF Framed

\* A new answer does not mix with those before it, as they are complete while
\* the server is up.
LEMMA FramedConcat ==
    ASSUME NEW S, NEW s \in Seq(S), NEW a \in Seq(S),
           Framed(s, TRUE), Framed(a, TRUE),
           \A i \in 1 .. Len(s) : s[i].body.kind = "meta" => s[i].body.n \in Nat,
           \A i \in 1 .. Len(a) : a[i].body.kind = "meta" => a[i].body.n \in Nat
    PROVE  Framed(s \o a, TRUE)
<1>1. PICK t : t = s \o a
  OBVIOUS
<1>2. /\ Len(s) \in Nat /\ Len(a) \in Nat /\ Len(t) = Len(s) + Len(a)
      /\ \A i \in 1 .. Len(s) + Len(a) : t[i] = IF i <= Len(s) THEN s[i] ELSE a[i - Len(s)]
  BY <1>1, LenProperties, ConcatProperties
<1>3. /\ \A i \in 1 .. Len(s) : t[i] = s[i]
      /\ \A i \in 1 .. Len(t) : i > Len(s) => t[i] = a[i - Len(s)] /\ i - Len(s) \in 1 .. Len(a)
  BY <1>2
<1> SUFFICES ASSUME NEW j \in 1 .. Len(t), t[j].body.kind = "meta"
             PROVE  /\ t[j].final <=> t[j].body.n = 0
                    /\ RowsFollow(t, TRUE, j, t[j].body.n, t[j].id)
  BY <1>1 DEF Framed
<1>4. CASE j <= Len(s)
  <2>1. j \in 1 .. Len(s) /\ t[j] = s[j]
    BY <1>2, <1>3, <1>4
  <2>2. PICK n \in Nat : n = s[j].body.n
    BY <2>1
  <2>3. /\ s[j].final <=> n = 0
        /\ RowsFollow(s, TRUE, j, n, s[j].id)
    BY <2>1, <2>2 DEF Framed
  <2>4. j + n <= Len(s)
    BY <2>3 DEF RowsFollow
  <2>5. RowsFollow(t, TRUE, j, n, s[j].id)
    <3>1. j + n <= Len(t)
      BY <1>2, <2>4
    <3>2. ASSUME NEW i \in 1 .. Len(t), j < i, i <= j + n
          PROVE  /\ t[i].id = s[j].id /\ t[i].body.kind \in RowKind
                 /\ t[i].final <=> i = j + n
      <4>1. i \in 1 .. Len(s)
        BY <1>2, <2>4, <3>2
      <4>2. QED
        BY <1>3, <2>3, <3>2, <4>1 DEF RowsFollow
    <3>3. QED
      BY <3>1, <3>2 DEF RowsFollow
  <2>6. QED
    BY <2>1, <2>2, <2>3, <2>5
<1>5. CASE j > Len(s)
  <2>1. PICK h \in 1 .. Len(a) : h = j - Len(s)
    BY <1>3, <1>5
  <2>2. t[j] = a[h]
    BY <1>3, <1>5, <2>1
  <2>3. PICK n \in Nat : n = a[h].body.n
    BY <2>1, <2>2
  <2>4. /\ a[h].final <=> n = 0
        /\ RowsFollow(a, TRUE, h, n, a[h].id)
    BY <2>2, <2>3 DEF Framed
  <2>5. RowsFollow(t, TRUE, j, n, a[h].id)
    <3>1. j + n <= Len(t)
      BY <1>2, <2>1, <2>4 DEF RowsFollow
    <3>2. ASSUME NEW i \in 1 .. Len(t), j < i, i <= j + n
          PROVE  /\ t[i].id = a[h].id /\ t[i].body.kind \in RowKind
                 /\ t[i].final <=> i = j + n
      <4>1. PICK l \in 1 .. Len(a) : l = i - Len(s) /\ t[i] = a[l]
        <5>1. i > Len(s)
          BY <1>2, <1>5, <3>2
        <5>2. QED
          BY <1>3, <5>1
      <4>2. h < l /\ l <= h + n /\ (l = h + n <=> i = j + n)
        BY <1>2, <2>1, <3>2, <4>1
      <4>3. QED
        BY <2>4, <4>1, <4>2 DEF RowsFollow
    <3>3. QED
      BY <3>1, <3>2 DEF RowsFollow
  <2>6. QED
    BY <2>2, <2>3, <2>4, <2>5
<1>6. j <= Len(s) \/ j > Len(s)
  BY <1>2
<1>7. QED
  BY <1>4, <1>5, <1>6

\* There is nothing on new streams.
LEMMA EmptyFramed == ASSUME NEW up PROVE Framed(<<>>, up)
  BY DEF Framed

-----------------------------------------------------------------------------
(* What the server answers.                                                *)

AnswersTo(name) ==
    CASE name = "query" -> QueryAnswers [] name = "open" -> OpenAnswers [] OTHER -> Simple

Calls == {"ping", "open", "create", "close", "query"}

\* The bodies of an answer, before they are numbered.
Shape(b, name) ==
    /\ b \in Seq(Bodies) /\ Len(b) \in Nat /\ Len(b) > 0
    /\ name # "query" => Len(b) = 1
    /\ \A i \in 1 .. Len(b) : b[i].kind = "meta" =>
          /\ i + b[i].n = Len(b)
          /\ \A k \in 1 .. Len(b) : k > i => b[k].kind \in RowKind
    /\ \A i \in 1 .. Len(b) : b[i].kind = "row" => \E j \in 1 .. i - 1 : b[j].kind = "meta"
    /\ WellFormed => \A i \in 1 .. Len(b) : b[i].kind \in Kinds(name)

\* An answer of one message.
LEMMA SingleShape ==
    ASSUME NEW name \in Calls, NEW x \in Bodies, x.kind \notin {"meta", "row"},
           WellFormed => x.kind \in Kinds(name)
    PROVE  Shape(<<x>>, name)
<1>1. <<x>> \in Seq(Bodies) /\ Len(<<x>>) = 1 /\ <<x>>[1] = x
  OBVIOUS
<1>2. \A i \in 1 .. Len(<<x>>) : <<x>>[i] = x
  BY <1>1
<1>3. QED
  BY <1>1, <1>2 DEF Shape

\* A result set: execute response, meta response, as many rows as it
\* announces.
LEMMA SelectShape ==
    ASSUME TypeOK, NEW rows \in RowSeqs PROVE Shape(Select(rows), "query")
<1>1. PICK n \in 0..MaxRows : rows \in [1..n -> {Body(k) : k \in RowKinds}]
  BY DEF RowSeqs
<1>2. n \in Nat /\ MaxRows \in Nat
  BY QueryAssumption
<1>3. \A k \in RowKinds : Body(k) \in Bodies /\ Body(k).kind = k /\ k \in RowKind
  BY DEF RowKinds, RowKind, Body, Bodies
<1>4. \A i \in 1..n : rows[i] \in Bodies /\ rows[i].kind \in RowKinds /\ rows[i].kind \in RowKind
  BY <1>1, <1>3
<1>5. rows \in [1..n -> Bodies]
  BY <1>1, <1>4
<1>6. rows \in Seq(Bodies) /\ Len(rows) = n
  BY <1>2, <1>5
<1>7. PICK h : h = <<[kind |-> "exec", n |-> 1], [kind |-> "meta", n |-> n]>>
  OBVIOUS
<1>8. [kind |-> "exec", n |-> 1] \in Bodies /\ [kind |-> "meta", n |-> n] \in Bodies
  BY <1>1 DEF Bodies
<1>9. /\ h \in Seq(Bodies) /\ Len(h) = 2
      /\ h[1] = [kind |-> "exec", n |-> 1] /\ h[2] = [kind |-> "meta", n |-> n]
  BY <1>7, <1>8
<1>10. PICK b : b = h \o rows
  OBVIOUS
<1>11. /\ b \in Seq(Bodies) /\ Len(b) = 2 + n
       /\ \A i \in 1 .. 2 + n : b[i] = IF i <= 2 THEN h[i] ELSE rows[i - 2]
  <2>1. /\ h \o rows \in Seq(Bodies) /\ Len(h \o rows) = Len(h) + Len(rows)
        /\ \A i \in 1 .. Len(h) + Len(rows) : (h \o rows)[i] =
              IF i <= Len(h) THEN h[i] ELSE rows[i - Len(h)]
    BY <1>6, <1>9, ConcatProperties
  <2>2. QED
    BY <1>6, <1>9, <1>10, <2>1
<1>12. /\ b[1].kind = "exec" /\ b[2].kind = "meta" /\ b[2].n = n
       /\ \A i \in 1 .. 2 + n : i > 2 => b[i].kind \in RowKind /\ b[i].kind \in RowKinds
  <2>1. b[1] = h[1] /\ b[2] = h[2]
    BY <1>2, <1>11
  <2>2. \A i \in 1 .. 2 + n : i > 2 => b[i] = rows[i - 2] /\ i - 2 \in 1..n
    BY <1>2, <1>11
  <2>3. QED
    BY <1>4, <1>9, <2>1, <2>2
<1>13. \A i \in 1 .. 2 + n : i = 1 \/ i = 2 \/ i > 2
  BY <1>2
<1>14. Len(b) \in Nat /\ Len(b) > 0
  BY <1>2, <1>11
<1>15. \A i \in 1 .. 2 + n : b[i].kind = "meta" => i = 2
  BY <1>12, <1>13 DEF RowKind
<1>16. \A i \in 1 .. 2 + n : b[i].kind = "row" => \E j \in 1 .. i - 1 : b[j].kind = "meta"
  <2>1. \A i \in 1 .. 2 + n : i > 2 => 2 \in 1 .. i - 1
    BY <1>2
  <2>2. QED
    BY <1>12, <1>13, <2>1
<1>17. WellFormed => \A i \in 1 .. 2 + n : b[i].kind \in Kinds("query")
  BY <1>12, <1>13 DEF WellFormed, RowKinds, Kinds
<1>18. Shape(b, "query")
  BY <1>11, <1>12, <1>14, <1>15, <1>16, <1>17 DEF Shape
<1>19. QED
  BY <1>6, <1>7, <1>10, <1>18 DEF Select

\* Every answer of the server has the shape that its request calls for.
LEMMA AnswerShape ==
    ASSUME TypeOK, NEW name \in Calls, NEW b \in AnswersTo(name) PROVE Shape(b, name)
<1>1. \A k \in {"ack", "error", "noStatement", "execError", "exec", "empty", "bad"} :
          Body(k) \in Bodies /\ Body(k).kind = k
  BY DEF Body, Bodies
<1>2. ASSUME NEW k \in {"ack", "error", "noStatement", "execError", "exec", "empty", "bad"},
             WellFormed => k \in Kinds(name)
      PROVE  Shape(<<Body(k)>>, name)
  BY <1>1, <1>2, SingleShape
<1>3. CASE name = "query"
  <2>1. b \in QueryAnswers
    BY <1>3 DEF AnswersTo
  <2>2. \/ \E k \in {"error", "execError", "exec"} : b = <<Body(k)>>
        \/ \E rows \in RowSeqs : b = Select(rows)
        \/ \E k \in {"empty", "bad"} : ~WellFormed /\ b = <<Body(k)>>
    BY <2>1 DEF QueryAnswers, Broken, WellFormed
  <2>3. {"error", "execError", "exec"} \subseteq Kinds(name)
    BY <1>3 DEF Kinds
  <2>4. QED
    BY <1>2, <1>3, <2>2, <2>3, SelectShape
<1>4. CASE name # "query"
  <2>1. \/ \E k \in {"ack", "error"} : b = <<Body(k)>>
        \/ name = "open" /\ b = <<Body("noStatement")>>
        \/ \E k \in {"empty", "bad"} : ~WellFormed /\ b = <<Body(k)>>
    BY <1>4 DEF AnswersTo, Simple, OpenAnswers, Broken, WellFormed
  <2>2. {"ack", "error"} \subseteq Kinds(name) /\ (name = "open" => "noStatement" \in Kinds(name))
    BY <1>4 DEF Kinds, Calls
  <2>3. QED
    BY <1>2, <2>1, <2>2
<1>5. QED
  BY <1>3, <1>4

\* The messages of the answer to request "of".
Answer(a, id, of, name) ==
    /\ a \in Seq(Messages) /\ Len(a) \in Nat /\ Len(a) > 0
    /\ Framed(a, TRUE)
    /\ \A i \in 1 .. Len(a) : a[i].id = id /\ a[i].of = of /\ (a[i].final <=> i = Len(a))
    /\ name # "query" => Len(a) = 1
    /\ \A i \in 1 .. Len(a) : a[i].body.kind = "row" =>
          \E j \in 1 .. i - 1 : a[j].body.kind = "meta"
    /\ WellFormed => \A i \in 1 .. Len(a) : a[i].body.kind \in Kinds(name)

\* So have its messages, which carry the ID of the request.
LEMMA AnswerIs ==
    ASSUME TypeOK, NEW name \in Calls, NEW b \in AnswersTo(name),
           NEW id \in RequestIDs, NEW of \in 1..MaxRequests
    PROVE  Answer(answerTo(id, of, b), id, of, name)
<1>1. Shape(b, name)
  BY AnswerShape
<1>2. PICK n \in Nat : n = Len(b) /\ n > 0
  BY <1>1 DEF Shape
<1>3. \A i \in 1..n : b[i] \in Bodies
  BY <1>1, <1>2, ElementOfSeq DEF Shape
<1>4. PICK a : a = answerTo(id, of, b)
  OBVIOUS
<1>5. \A i \in 1..n : [id |-> id, of |-> of, body |-> b[i], final |-> i = n] \in Messages
  BY <1>3 DEF Messages
<1>6. a = [i \in 1..n |-> [id |-> id, of |-> of, body |-> b[i], final |-> i = n]]
  BY <1>2, <1>4 DEF answerTo
<1>7. a \in [1..n -> Messages]
  BY <1>5, <1>6
<1>8. a \in Seq(Messages) /\ Len(a) = n
  BY <1>2, <1>7
<1>9. \A i \in 1..n : /\ a[i].id = id /\ a[i].of = of /\ a[i].body = b[i]
                      /\ a[i].final <=> i = n
  BY <1>6
<1>10. Framed(a, TRUE)
  <2> SUFFICES ASSUME NEW j \in 1..n, a[j].body.kind = "meta"
               PROVE  /\ a[j].final <=> a[j].body.n = 0
                      /\ RowsFollow(a, TRUE, j, a[j].body.n, a[j].id)
    BY <1>8 DEF Framed
  <2>1. a[j].body = b[j] /\ j + b[j].n = n /\ \A k \in 1..n : k > j => b[k].kind \in RowKind
    BY <1>1, <1>2, <1>9 DEF Shape
  <2>2. b[j].n \in Nat
    BY <1>3, QueryAssumption DEF Bodies
  <2>3. a[j].final <=> a[j].body.n = 0
    BY <1>2, <1>9, <2>1, <2>2
  <2>4. RowsFollow(a, TRUE, j, a[j].body.n, a[j].id)
    <3>1. j + a[j].body.n = n /\ a[j].id = id
      BY <1>9, <2>1
    <3>2. ASSUME NEW i \in 1..n, j < i
          PROVE  a[i].id = id /\ a[i].body.kind \in RowKind /\ (a[i].final <=> i = n)
      BY <1>9, <2>1, <3>2
    <3>3. QED
      BY <1>2, <1>8, <3>1, <3>2 DEF RowsFollow
  <2>5. QED
    BY <2>3, <2>4
<1>11. \A i \in 1..n : a[i].body.kind = "row" => \E j \in 1 .. i - 1 : a[j].body.kind = "meta"
  <2> SUFFICES ASSUME NEW i \in 1..n, a[i].body.kind = "row"
               PROVE  \E j \in 1 .. i - 1 : a[j].body.kind = "meta"
    OBVIOUS
  <2>1. PICK j \in 1 .. i - 1 : b[j].kind = "meta"
    BY <1>1, <1>2, <1>9 DEF Shape
  <2>2. j \in 1..n
    BY <1>2
  <2>3. QED
    BY <1>9, <2>1, <2>2
<1>12. (name # "query" => n = 1) /\ (WellFormed => \A i \in 1..n : a[i].body.kind \in Kinds(name))
  BY <1>1, <1>2, <1>9 DEF Shape
<1>13. QED
  BY <1>2, <1>4, <1>8, <1>9, <1>10, <1>11, <1>12 DEF Answer

-----------------------------------------------------------------------------
(* Sending.                                                                *)

\* A request ID is below the limit, and the next number until the limit is
\* reached.
LEMMA Allocated ==
    ASSUME TypeOK
    PROVE  /\ allocatedID \in RequestIDs /\ allocatedID \in Nat
           /\ allocatedID + 1 \in 1..MaxRequestID
           /\ nextRequestID \in Nat /\ MaxRequestID \in Nat
           /\ nextRequestID < MaxRequestID => allocatedID = nextRequestID
<1>1. MaxRequestID \in Nat \ {0, 1}
  BY SettingsAssumption DEF TypeOK, MaxRequestID
<1>2. nextRequestID \in 1..MaxRequestID
  BY DEF TypeOK
<1>3. QED
  BY <1>1, <1>2 DEF allocatedID, RequestIDs

\* The parts of a message.
LEMMA MessageType ==
    ASSUME TypeOK, NEW m \in Messages
    PROVE  /\ m.id \in Nat /\ m.of \in 1..MaxRequests /\ m.body \in Bodies
           /\ m.body.kind = "meta" => m.body.n \in 0..MaxRows
           /\ m.body.kind = "exec" => m.body.n \in {0, 1}
<1>1. m.id \in RequestIDs /\ m.of \in 1..MaxRequests /\ m.body \in Bodies
  BY DEF Messages
<1>2. MaxRequestID \in Nat
  BY Allocated
<1>3. QED
  BY <1>1, <1>2 DEF RequestIDs, Bodies

\* What depends on the setting never changes.
LEMMA SameMessages ==
    ASSUME setting' = setting
    PROVE  Messages' = Messages /\ RequestIDs' = RequestIDs /\ MaxRequestID' = MaxRequestID
           /\ (WellFormed' <=> WellFormed) /\ (UniqueIDs' <=> UniqueIDs)
  BY DEF Messages, RequestIDs, MaxRequestID, WellFormed, UniqueIDs

\* A meta response announces a number of rows.
LEMMA InboxMeta ==
    ASSUME TypeOK
    PROVE  \A i \in 1 .. Len(inbox) : inbox[i].body.kind = "meta" => inbox[i].body.n \in Nat
<1>1. \A i \in 1 .. Len(inbox) : inbox[i] \in Messages
  BY ElementOfSeq DEF TypeOK
<1>2. QED
  BY <1>1, MessageType, QueryAssumption

\* A request is sent; what is left of earlier answers, s, stays before its own.
LEMMA RequestSent ==
    ASSUME IInv, peerUp, sent < MaxRequests,
           NEW name \in Calls, name = "query" => "query" \in Statements,
           NEW b \in AnswersTo(name),
           NEW s \in Seq(Messages), Framed(s, TRUE),
           \A i \in 1 .. Len(s) : s[i].body.kind = "meta" => s[i].body.n \in Nat,
           MaxRequests < MaxRequestID => \A i \in 1 .. Len(s) : s[i].id < nextRequestID,
           WellFormed => s = <<>>,
           UNCHANGED <<setting, peerUp>>,
           sent' = sent + 1, requestID' = allocatedID, nextRequestID' = allocatedID + 1,
           call' = name, pc' = "receive",
           inbox' = s \o answerTo(allocatedID, sent', b),
           name = "open" => sent + 1 < MaxRequests,
           ret' = ret, fieldCount' \in {0, 1}, my_errno' \in {0, CR_UNKNOWN, SERVER_ERROR},
           taken' \in BOOLEAN, currentRes' \in MYSQL_RES \cup {Nil},
           name = "query" => currentRes' = Nil
    PROVE  IInv'
<1>0. TypeOK
  BY DEF IInv, TypeInv
<1>1. PICK id \in RequestIDs : id = allocatedID
  BY <1>0, Allocated
<1>2. PICK of \in 1..MaxRequests : of = sent + 1
  BY <1>0, QueryAssumption DEF TypeOK
<1>3. PICK a : a = answerTo(id, of, b)
  OBVIOUS
<1>4. Answer(a, id, of, name)
  BY <1>0, <1>3, AnswerIs
<1>5. /\ a \in Seq(Messages) /\ Len(a) \in Nat /\ Len(a) > 0 /\ Framed(a, TRUE)
      /\ \A i \in 1 .. Len(a) : a[i].id = id /\ a[i].of = of /\ (a[i].final <=> i = Len(a))
      /\ name # "query" => Len(a) = 1
      /\ \A i \in 1 .. Len(a) : a[i].body.kind = "row" =>
            \E j \in 1 .. i - 1 : a[j].body.kind = "meta"
      /\ WellFormed => \A i \in 1 .. Len(a) : a[i].body.kind \in Kinds(name)
  BY <1>4 DEF Answer
<1>6. inbox' = s \o a /\ sent' = of /\ requestID' = id
  BY <1>1, <1>2, <1>3
<1>7. /\ inbox' \in Seq(Messages) /\ Len(inbox') = Len(s) + Len(a) /\ Len(s) \in Nat
      /\ \A i \in 1 .. Len(inbox') : inbox'[i] = IF i <= Len(s) THEN s[i] ELSE a[i - Len(s)]
  <2>1. PICK t : t = s \o a
    OBVIOUS
  <2>2. /\ t \in Seq(Messages) /\ Len(t) = Len(s) + Len(a) /\ Len(s) \in Nat
        /\ \A i \in 1 .. Len(s) + Len(a) : t[i] = IF i <= Len(s) THEN s[i] ELSE a[i - Len(s)]
    BY <1>5, <2>1, ConcatProperties, LenProperties
  <2>3. QED
    BY <1>6, <2>1, <2>2
<1>8. /\ \A i \in 1 .. Len(inbox') : \/ i \in 1 .. Len(s) /\ inbox'[i] = s[i]
                                     \/ i - Len(s) \in 1 .. Len(a) /\ inbox'[i] = a[i - Len(s)]
  BY <1>5, <1>7
<1>9. Framed(inbox', peerUp')
  <2>1. \A i \in 1 .. Len(a) : a[i].body.kind = "meta" => a[i].body.n \in Nat
    <3>1. \A i \in 1 .. Len(a) : a[i] \in Messages
      BY <1>5, ElementOfSeq
    <3>2. QED
      BY <1>0, <3>1, MessageType, QueryAssumption
  <2>2. Framed(s \o a, TRUE)
    BY <1>5, <2>1, FramedConcat
  <2>3. peerUp' = TRUE
    BY <1>0 DEF TypeOK
  <2>4. QED
    BY <1>6, <2>2, <2>3
<1>10. TypeOK' /\ Room'
  <2>1. nextRequestID' \in 1..MaxRequestID /\ requestID' \in RequestIDs
    BY <1>0, Allocated
  <2>2. sent' \in 0..MaxRequests
    BY <1>2, <1>6, QueryAssumption
  <2>5. name \in {"none", "ping", "open", "create", "close"} \cup Statements
    BY DEF Calls
  <2>3. TypeOK'
    <3>1. Messages' = Messages /\ RequestIDs' = RequestIDs /\ MaxRequestID' = MaxRequestID
      BY SameMessages
    <3>2. setting' \in Settings /\ peerUp' \in BOOLEAN /\ ret' \in {0, -1}
      BY <1>0 DEF TypeOK
    <3>3. /\ call' \in {"none", "ping", "open", "create", "close"} \cup Statements
          /\ pc' \in Owners \cup {"receive", "crashed"}
      BY <2>5 DEF Calls
    <3>4. QED
      BY <1>7, <2>1, <2>2, <3>1, <3>2, <3>3 DEF TypeOK
  <2>4. QED
    BY <2>3, <1>2, <1>6 DEF Room
<1>11. Partial' /\ Complete' /\ InStep'
  BY DEF Partial, Complete, InStep, Owners
<1>12. Awaited'
  <2> SUFFICES ASSUME WellFormed PROVE Awaited'
    BY SameMessages DEF Awaited
  <2>1. inbox' = a
    BY <1>5, <1>6, ConcatEmptySeq
  <2>2. call' = name /\ requestID' = id /\ sent' = of
    BY <1>6
  <2>3. \A i \in 1 .. Len(a) : /\ a[i].id = id /\ a[i].of = of /\ a[i].body.kind \in Kinds(name)
                               /\ a[i].final => i = Len(a)
    BY <1>5
  <2>4. QED
    BY <1>5, <2>1, <2>2, <2>3 DEF Awaited, Calls
<1>13. Numbered'
  <2> SUFFICES ASSUME MaxRequests < MaxRequestID
               PROVE  /\ nextRequestID' <= sent' + 1
                      /\ \A i \in 1 .. Len(inbox') : inbox'[i].id < nextRequestID'
    BY SameMessages DEF Numbered
  <2>1. nextRequestID <= sent + 1 /\ sent \in Nat /\ MaxRequests \in Nat
    BY <1>0, QueryAssumption DEF IInv, Owning, Numbered, TypeOK
  <2>2. allocatedID = nextRequestID /\ nextRequestID \in Nat
    BY <1>0, <2>1, Allocated
  <2>3. nextRequestID' <= sent' + 1
    BY <2>1, <2>2
  <2>4. \A i \in 1 .. Len(s) : s[i].id < nextRequestID /\ s[i].id \in Nat
    BY <1>0, ElementOfSeq, MessageType
  <2>5. \A i \in 1 .. Len(inbox') : inbox'[i].id < nextRequestID'
    <3>1. \A i \in 1 .. Len(s) : s[i].id < nextRequestID'
      BY <2>2, <2>4
    <3>2. \A i \in 1 .. Len(a) : a[i].id < nextRequestID'
      BY <1>1, <1>5, <2>2
    <3>3. QED
      BY <1>8, <3>1, <3>2
  <2>6. QED
    BY <2>3, <2>5
<1>14. Own'
  <2> SUFFICES ASSUME UniqueIDs, NEW i \in 1 .. Len(inbox'), inbox'[i].id = id
               PROVE  inbox'[i].of = of
    BY <1>6, SameMessages DEF Own
  <2>1. CASE i - Len(s) \in 1 .. Len(a) /\ inbox'[i] = a[i - Len(s)]
    BY <1>5, <2>1
  <2>2. CASE i \in 1 .. Len(s) /\ inbox'[i] = s[i]
    <3>1. ~WellFormed
      BY <2>2, EmptySeq
    <3>2. MaxRequests < MaxRequestID /\ s[i].id < nextRequestID
      BY <2>2, <3>1 DEF UniqueIDs
    <3>3. nextRequestID <= sent + 1 /\ sent \in Nat /\ MaxRequests \in Nat
      BY <1>0, <3>2, QueryAssumption DEF IInv, Owning, Numbered, TypeOK
    <3>4. id = nextRequestID /\ nextRequestID \in Nat
      BY <1>0, <1>1, <3>2, <3>3, Allocated
    <3>5. QED
      BY <2>2, <3>2, <3>4
  <2>3. QED
    BY <1>8, <2>1, <2>2
<1>15. StoresOwnResult'
  BY DEF StoresOwnResult
<1>16. QED
  BY <1>9, <1>10, <1>11, <1>12, <1>13, <1>14, <1>15
  DEF IInv, TypeInv, Framing, Stepping, Owning

\* Nothing is left of earlier answers, or they come first.
LEMMA SendStep ==
    ASSUME IInv, pc \in Owners,
           NEW name \in {"ping", "open", "close", "query"},
           name = "query" => "query" \in Statements,
           Sends(name, AnswersTo(name)),
           name = "open" => sent + 1 < MaxRequests,
           fieldCount' \in {0, 1}, my_errno' \in {0, CR_UNKNOWN, SERVER_ERROR},
           taken' \in BOOLEAN, currentRes' \in MYSQL_RES \cup {Nil},
           name = "query" => currentRes' = Nil
    PROVE  IInv'
<1>0. TypeOK
  BY DEF IInv, TypeInv
<1>1. PICK b \in AnswersTo(name) : doSendOnly(sent', b)
  BY DEF Sends
<1>2. peerUp /\ inbox \in Seq(Messages) /\ Framed(inbox, TRUE)
  <2>1. peerUp = TRUE
    BY <1>0, <1>1 DEF doSendOnly, TypeOK
  <2>2. QED
    BY <1>0, <2>1 DEF IInv, Framing, TypeOK
<1>3. MaxRequests < MaxRequestID => \A i \in 1 .. Len(inbox) : inbox[i].id < nextRequestID
  BY <1>2 DEF IInv, Owning, Numbered
<1>4. WellFormed => inbox = <<>>
  BY DEF IInv, Stepping, InStep
<1>5. /\ sent < MaxRequests /\ UNCHANGED <<setting, peerUp, ret>>
      /\ sent' = sent + 1 /\ requestID' = allocatedID /\ nextRequestID' = allocatedID + 1
      /\ call' = name /\ pc' = "receive"
      /\ inbox' = inbox \o answerTo(allocatedID, sent', b)
  BY <1>1 DEF Sends, doSendOnly
<1>6. name \in Calls
  BY DEF Calls
<1>7. QED
  BY <1>0, <1>2, <1>3, <1>4, <1>5, <1>6, InboxMeta, RequestSent

\* The write fails as the server has gone.
LEMMA ThrowStep ==
    ASSUME IInv, pc \in Owners,
           NEW name \in {"ping", "open", "close", "query"},
           name = "query" => "query" \in Statements,
           SendThrows(name),
           pc' \in Owners, ret' \in {0, -1}, pc' = "idle" => ret' = -1,
           fieldCount' \in {0, 1}, my_errno' \in {0, CR_UNKNOWN, SERVER_ERROR},
           taken' \in BOOLEAN, currentRes' \in MYSQL_RES \cup {Nil}
    PROVE  IInv'
<1>0. TypeOK
  BY DEF IInv, TypeInv
<1>1. /\ ~peerUp /\ UNCHANGED <<setting, peerUp, inbox, requestID, sent>>
      /\ nextRequestID' = allocatedID + 1 /\ call' = name
  BY DEF SendThrows, doSendOnlyThrows
<1>2. TypeOK'
  <2>1. Messages' = Messages /\ RequestIDs' = RequestIDs /\ MaxRequestID' = MaxRequestID
    BY <1>1, SameMessages
  <2>2. nextRequestID' \in 1..MaxRequestID'
    BY <1>0, <1>1, <2>1, Allocated
  <2>3. name \in {"none", "ping", "open", "create", "close"} \cup Statements
    OBVIOUS
  <2>4. pc' \in Owners \cup {"receive", "crashed"}
    OBVIOUS
  <2>5. QED
    BY <1>0, <1>1, <2>1, <2>2, <2>3, <2>4 DEF TypeOK
<1>3. pc' # "receive" /\ pc' # "crashed"
  BY DEF Owners
<1>4. Room' /\ Framing'
  BY <1>1, <1>3 DEF IInv, Room, Framing, Partial, Complete
<1>5. Stepping'
  BY <1>1, <1>3, SameMessages DEF IInv, Stepping, InStep, Awaited
<1>6. Owning'
  BY <1>1, <1>3 DEF IInv, Owning, Numbered, Own, StoresOwnResult
<1>7. QED
  BY <1>2, <1>4, <1>5, <1>6 DEF IInv, TypeInv

-----------------------------------------------------------------------------
(* The calls.                                                              *)

\* The calls that send a request, whether the write succeeds or throws.
LEMMA CallStep ==
    ASSUME IInv, Ping \/ Open \/ mysql_real_query \/ mysql_close PROVE IInv'
<1>0. TypeOK
  BY DEF IInv, TypeInv
<1>1. /\ AnswersTo("ping") = Simple /\ AnswersTo("close") = Simple
      /\ AnswersTo("open") = OpenAnswers /\ AnswersTo("query") = QueryAnswers
  BY DEF AnswersTo
<1>2. /\ fieldCount \in {0, 1} /\ my_errno \in {0, CR_UNKNOWN, SERVER_ERROR}
      /\ taken \in BOOLEAN /\ currentRes \in MYSQL_RES \cup {Nil} /\ ret \in {0, -1}
  BY <1>0 DEF TypeOK
<1>3. Wild \in MYSQL_RES
  BY QueryAssumption DEF Wild, MYSQL_RES
<1>4. ASSUME NEW name \in {"ping", "close"}, pc \in Owners, UNCHANGED object,
             \/ Sends(name, Simple)
             \/ SendThrows(name) /\ pc' = "lost" /\ UNCHANGED ret
      PROVE  IInv'
  <2>1. /\ fieldCount' \in {0, 1} /\ my_errno' \in {0, CR_UNKNOWN, SERVER_ERROR}
        /\ taken' \in BOOLEAN /\ currentRes' \in MYSQL_RES \cup {Nil}
    BY <1>2, <1>4 DEF object
  <2>2. CASE Sends(name, Simple)
    <3>1. Sends(name, AnswersTo(name))
      BY <1>1, <2>2
    <3>2. QED
      BY <1>4, <2>1, <3>1, SendStep
  <2>3. CASE SendThrows(name) /\ pc' = "lost" /\ UNCHANGED ret
    <3>1. pc' \in Owners /\ ret' \in {0, -1} /\ pc' # "idle"
      BY <1>2, <2>3 DEF Owners
    <3>2. QED
      BY <1>4, <2>1, <2>3, <3>1, ThrowStep
  <2>4. QED
    BY <1>4, <2>2, <2>3
<1>5. CASE Ping
  BY <1>4, <1>5 DEF Ping, Owners
<1>6. CASE mysql_close
  BY <1>4, <1>6 DEF mysql_close, Owners
<1>7. CASE Open
  <2>1. /\ fieldCount' \in {0, 1} /\ my_errno' \in {0, CR_UNKNOWN, SERVER_ERROR}
        /\ taken' \in BOOLEAN /\ currentRes' \in MYSQL_RES \cup {Nil}
        /\ pc \in Owners /\ sent + 1 < MaxRequests
    BY <1>3, <1>7 DEF Open, Owners
  <2>2. CASE Sends("open", OpenAnswers)
    BY <1>1, <2>1, <2>2, SendStep
  <2>3. CASE SendThrows("open") /\ pc' = "lost" /\ UNCHANGED ret
    <3>1. pc' \in Owners /\ ret' \in {0, -1} /\ pc' # "idle"
      BY <1>2, <2>3 DEF Owners
    <3>2. QED
      BY <2>1, <2>3, <3>1, ThrowStep
  <2>4. QED
    BY <1>7, <2>2, <2>3 DEF Open
<1>8. CASE mysql_real_query
  <2>1. /\ fieldCount' \in {0, 1} /\ my_errno' \in {0, CR_UNKNOWN, SERVER_ERROR}
        /\ taken' \in BOOLEAN /\ currentRes' = Nil
        /\ pc \in Owners /\ "query" \in Statements
    BY <1>2, <1>8 DEF mysql_real_query, Owners
  <2>2. CASE Sends("query", QueryAnswers)
    BY <1>1, <2>1, <2>2, SendStep
  <2>3. CASE SendThrows("query") /\ ret' = -1 /\ UNCHANGED pc
    <3>1. pc' \in Owners /\ ret' \in {0, -1}
      BY <2>1, <2>3
    <3>2. QED
      BY <2>1, <2>3, <3>1, ThrowStep
  <2>4. QED
    BY <1>8, <2>2, <2>3 DEF mysql_real_query
<1>9. QED
  BY <1>5, <1>6, <1>7, <1>8

\* SET NAMES is no query, so that the result set it leaves is nobody's.
LEMMA SetNamesStep == ASSUME IInv, SetNames PROVE IInv'
<1>0. TypeOK
  BY DEF IInv, TypeInv
<1>1. /\ UNCHANGED <<setting, peerUp, inbox, nextRequestID, requestID, sent, pc,
                      currentRes, fieldCount, my_errno>>
      /\ call' = "setnames" /\ ret' = 0 /\ pc = "idle" /\ "setnames" \in Statements
      /\ pc' = "idle"
  BY DEF SetNames, channel
<1>2. TypeOK'
  <2>1. Messages' = Messages /\ RequestIDs' = RequestIDs /\ MaxRequestID' = MaxRequestID
    BY <1>1, SameMessages
  <2>2. taken' \in BOOLEAN /\ ret' \in {0, -1}
    BY DEF SetNames
  <2>3. "setnames" \in {"none", "ping", "open", "create", "close"} \cup Statements
    BY <1>1
  <2>4. QED
    BY <1>0, <2>1, <2>2, <2>3 DEF TypeOK, SetNames, channel
<1>3. Room' /\ Framing'
  BY <1>1 DEF IInv, Room, Framing, Partial, Complete
<1>4. Stepping'
  BY <1>1, SameMessages DEF IInv, Stepping, InStep, Awaited, Owners
<1>5. Owning'
  BY <1>1 DEF IInv, Owning, Numbered, Own, StoresOwnResult, MaxRequestID
<1>6. QED
  BY <1>2, <1>3, <1>4, <1>5 DEF IInv, TypeInv

-----------------------------------------------------------------------------
(* Receiving.                                                              *)

\* A message is taken from the stream.
Taken ==
    /\ pc = "receive" /\ waitForResponse
    /\ UNCHANGED <<call, requestID, sent>>

\* What is on the streams after a message was read: nothing, when that was the
\* end of the answer of a server that keeps to the protocol.
LEMMA TakenQueue ==
    ASSUME IInv, Taken
    PROVE  /\ TypeOK
           /\ UNCHANGED <<setting, peerUp, nextRequestID, call, requestID, sent>>
           /\ Len(inbox) \in Nat /\ Len(inbox) > 0 /\ 1 \in 1 .. Len(inbox)
           /\ Head(inbox) = inbox[1] /\ Head(inbox) \in Messages
           /\ inbox' \in Seq(Messages) /\ Len(inbox') = Len(inbox) - 1
           /\ \A i \in 1 .. Len(inbox') : /\ inbox'[i] = inbox[i + 1]
                                          /\ i + 1 \in 1 .. Len(inbox)
           /\ Framed(inbox', peerUp) /\ Numbered'
           /\ WellFormed /\ Head(inbox).final => inbox' = <<>>
           /\ WellFormed /\ call # "query" => inbox' = <<>>
<1>0. TypeOK
  BY DEF IInv, TypeInv
<1>1. /\ inbox \in Seq(Messages) /\ inbox # <<>> /\ inbox' = Tail(inbox)
      /\ UNCHANGED <<setting, peerUp, nextRequestID, call, requestID, sent>>
  BY <1>0 DEF TypeOK, Taken, waitForResponse
<1>2. /\ Len(inbox) \in Nat /\ Len(inbox) > 0 /\ 1 \in 1 .. Len(inbox)
      /\ Head(inbox) = inbox[1] /\ Head(inbox) \in Messages
      /\ inbox' \in Seq(Messages) /\ Len(inbox') = Len(inbox) - 1
      /\ \A i \in 1 .. Len(inbox') : inbox'[i] = inbox[i + 1]
      /\ Len(inbox) = 1 => inbox' = <<>>
  BY <1>1, TailIs
<1>3. \A i \in 1 .. Len(inbox') : i + 1 \in 1 .. Len(inbox)
  BY <1>2
<1>4. Framed(inbox', peerUp)
  BY <1>0, <1>1, InboxMeta, FramedTail DEF IInv, Framing
<1>5. Numbered'
  BY <1>1, <1>2, <1>3 DEF IInv, Owning, Numbered, MaxRequestID
<1>6. WellFormed /\ Head(inbox).final => inbox' = <<>>
  BY <1>2 DEF IInv, Stepping, Awaited, Taken
<1>7. WellFormed /\ call # "query" => inbox' = <<>>
  BY <1>2 DEF IInv, Stepping, Awaited, Taken
<1>8. QED
  BY <1>0, <1>1, <1>2, <1>3, <1>4, <1>5, <1>6, <1>7

\* The call ends, or the process.
LEMMA CallEnds ==
    ASSUME IInv, Taken, pc' \in Owners \cup {"crashed"},
           fieldCount' \in {0, 1}, my_errno' \in {0, CR_UNKNOWN, SERVER_ERROR},
           taken' \in BOOLEAN, ret' \in {0, -1}, currentRes' \in MYSQL_RES \cup {Nil},
           WellFormed => inbox' = <<>> /\ pc' # "crashed",
           pc' = "idle" /\ call = "query" /\ ret' = 0 /\ currentRes' # Nil =>
               /\ currentRes'.rows = currentRes'.total /\ currentRes'.state = "ready"
               /\ UniqueIDs => currentRes'.of = sent
    PROVE  IInv'
<1>0. /\ TypeOK /\ UNCHANGED <<setting, peerUp, nextRequestID, call, requestID, sent>>
      /\ inbox' \in Seq(Messages) /\ Framed(inbox', peerUp) /\ Numbered'
  BY TakenQueue
<1>1. /\ Messages' = Messages /\ RequestIDs' = RequestIDs /\ MaxRequestID' = MaxRequestID
      /\ (WellFormed' <=> WellFormed) /\ (UniqueIDs' <=> UniqueIDs)
  BY <1>0, SameMessages
<1>2. pc' # "receive"
  BY DEF Owners
<1>3. TypeOK'
  <2>1. pc' \in Owners \cup {"receive", "crashed"}
    OBVIOUS
  <2>2. QED
    BY <1>0, <1>1, <2>1 DEF TypeOK
<1>4. Room' /\ Framing'
  BY <1>0, <1>2 DEF Room, Framing, Partial, Complete
<1>5. Stepping'
  BY <1>1, <1>2 DEF Stepping, InStep, Awaited
<1>6. Owning'
  BY <1>0, <1>1, <1>2 DEF Owning, Own, StoresOwnResult
<1>7. QED
  BY <1>3, <1>4, <1>5, <1>6 DEF IInv, TypeInv

\* The query reads on.
LEMMA QueryReadsOn ==
    ASSUME IInv, Taken, call = "query", pc' = "receive", ret' = ret, ~Head(inbox).final,
           fieldCount' \in {0, 1}, my_errno' \in {0, CR_UNKNOWN, SERVER_ERROR},
           taken' \in BOOLEAN, currentRes' \in MYSQL_RES \cup {Nil},
           currentRes # Nil \/ Head(inbox).body.kind = "meta" => currentRes' # Nil,
           currentRes' # Nil =>
               /\ currentRes'.state = "partial" /\ currentRes'.rows < currentRes'.total
               /\ RowsFollow(inbox', peerUp, 0, currentRes'.total - currentRes'.rows, requestID)
               /\ UniqueIDs => currentRes'.of = sent
    PROVE  IInv'
<1>0. /\ TypeOK /\ UNCHANGED <<setting, peerUp, nextRequestID, call, requestID, sent>>
      /\ Len(inbox) \in Nat /\ Len(inbox) > 0 /\ Head(inbox) = inbox[1]
      /\ inbox' \in Seq(Messages) /\ Len(inbox') = Len(inbox) - 1
      /\ \A i \in 1 .. Len(inbox') : inbox'[i] = inbox[i + 1] /\ i + 1 \in 1 .. Len(inbox)
      /\ Framed(inbox', peerUp) /\ Numbered'
  BY TakenQueue
<1>1. /\ Messages' = Messages /\ RequestIDs' = RequestIDs /\ MaxRequestID' = MaxRequestID
      /\ (WellFormed' <=> WellFormed) /\ (UniqueIDs' <=> UniqueIDs)
  BY <1>0, SameMessages
<1>2. TypeOK'
  <2>1. pc' \in Owners \cup {"receive", "crashed"}
    OBVIOUS
  <2>2. ret' \in {0, -1}
    BY <1>0 DEF TypeOK
  <2>3. QED
    BY <1>0, <1>1, <2>1, <2>2 DEF TypeOK
<1>3. Room' /\ Framing'
  BY <1>0 DEF Room, Framing, Partial, Complete
<1>4. InStep'
  BY DEF InStep, Owners
<1>5. Awaited'
  <2> SUFFICES ASSUME WellFormed PROVE Awaited'
    BY <1>1 DEF Awaited
  <2>1. /\ \A i \in 1 .. Len(inbox) :
              /\ inbox[i].id = requestID /\ inbox[i].of = sent
              /\ inbox[i].body.kind \in Kinds(call)
              /\ inbox[i].final => i = Len(inbox)
        /\ \A i \in 1 .. Len(inbox) : inbox[i].body.kind = "row" =>
              currentRes # Nil \/ \E j \in 1 .. i - 1 : inbox[j].body.kind = "meta"
    BY DEF IInv, Stepping, Awaited, Taken
  <2>2. \A i \in 1 .. Len(inbox') :
              /\ inbox'[i].id = requestID /\ inbox'[i].of = sent
              /\ inbox'[i].body.kind \in Kinds(call)
              /\ inbox'[i].final => i = Len(inbox')
    BY <1>0, <2>1
  <2>3. ASSUME NEW i \in 1 .. Len(inbox'), inbox'[i].body.kind = "row", currentRes' = Nil
        PROVE  \E j \in 1 .. i - 1 : inbox'[j].body.kind = "meta"
    <3>1. PICK j \in 1 .. (i + 1) - 1 : inbox[j].body.kind = "meta"
      BY <1>0, <2>1, <2>3
    <3>2. j # 1
      BY <1>0, <2>3, <3>1
    <3>3. j - 1 \in 1 .. i - 1 /\ j - 1 \in 1 .. Len(inbox') /\ (j - 1) + 1 = j
      BY <1>0, <3>2
    <3>4. inbox'[j - 1].body.kind = "meta"
      BY <1>0, <3>1, <3>3
    <3>5. QED
      BY <3>3, <3>4
  <2>4. QED
    BY <1>0, <2>2, <2>3 DEF Awaited
<1>6. Own'
  BY <1>0, <1>1 DEF IInv, Owning, Own, Taken
<1>7. StoresOwnResult'
  BY DEF StoresOwnResult
<1>8. QED
  BY <1>0, <1>2, <1>3, <1>4, <1>5, <1>6, <1>7 DEF IInv, TypeInv, Stepping, Owning

\* While a result set is under construction the next message is one of its rows.
LEMMA RowNext ==
    ASSUME IInv, Taken, call = "query", currentRes # Nil
    PROVE  /\ currentRes \in MYSQL_RES /\ currentRes.state = "partial"
           /\ currentRes.rows \in Nat /\ currentRes.total \in 0..MaxRows
           /\ currentRes.rows < currentRes.total
           /\ Mine(Head(inbox)) /\ Head(inbox).body.kind \in RowKind
           /\ Head(inbox).final <=> currentRes.rows + 1 = currentRes.total
           /\ RowsFollow(inbox', peerUp, 0, currentRes.total - currentRes.rows - 1, requestID)
           /\ UniqueIDs => currentRes.of = sent
<1>0. /\ TypeOK /\ Len(inbox) \in Nat /\ 1 \in 1 .. Len(inbox) /\ Head(inbox) = inbox[1]
  BY TakenQueue
<1>1. /\ currentRes \in MYSQL_RES /\ currentRes.state = "partial"
      /\ currentRes.rows \in Nat /\ currentRes.total \in 0..MaxRows /\ currentRes.total \in Nat
      /\ currentRes.rows < currentRes.total
      /\ RowsFollow(inbox, peerUp, 0, currentRes.total - currentRes.rows, requestID)
  BY <1>0, QueryAssumption DEF IInv, Framing, Partial, TypeOK, MYSQL_RES, Taken
<1>2. PICK k \in Nat : k = currentRes.total - currentRes.rows /\ k > 0
  BY <1>1
<1>3. inbox[1].id = requestID /\ inbox[1].body.kind \in RowKind /\ (inbox[1].final <=> 1 = k)
  BY <1>0, <1>1, <1>2 DEF RowsFollow
<1>4. RowsFollow(inbox', peerUp, 0, k - 1, requestID)
  BY <1>0, <1>1, <1>2, RowsShift DEF TypeOK, Taken, waitForResponse
<1>5. UniqueIDs => currentRes.of = sent
  BY DEF IInv, Owning, Own, Taken
<1>6. QED
  BY <1>0, <1>1, <1>2, <1>3, <1>4, <1>5 DEF Mine

\* processMessage: the row that completes the result set is the final message.
LEMMA ProcessStep ==
    ASSUME IInv, Taken, call = "query", Mine(Head(inbox)), Head(inbox).body.kind # "empty",
           processMessage(Head(inbox))
    PROVE  IInv'
<1> DEFINE m == Head(inbox)
<1>0. /\ TypeOK /\ Len(inbox) \in Nat /\ 1 \in 1 .. Len(inbox) /\ m = inbox[1] /\ m \in Messages
      /\ WellFormed /\ m.final => inbox' = <<>>
  BY TakenQueue
<1>1. /\ fieldCount \in {0, 1} /\ my_errno \in {0, CR_UNKNOWN, SERVER_ERROR}
      /\ taken \in BOOLEAN /\ currentRes \in MYSQL_RES \cup {Nil} /\ ret \in {0, -1}
      /\ peerUp \in BOOLEAN
  BY <1>0 DEF TypeOK
<1>2. /\ m.body.kind = "meta" => m.body.n \in 0..MaxRows
      /\ m.body.kind = "exec" => m.body.n \in {0, 1}
      /\ m.of \in 1..MaxRequests /\ MaxRequests \in Nat /\ MaxRows \in Nat
  BY <1>0, MessageType, QueryAssumption
<1>3. currentRes # Nil => m.body.kind \in RowKind
  BY RowNext
<1>4. UniqueIDs => m.of = sent
  BY <1>0 DEF IInv, Owning, Own, Mine, Taken
<1>5. "idle" \in Owners \cup {"crashed"} /\ pc = "receive" /\ SERVER_ERROR # 0
  BY DEF Owners, Taken, SERVER_ERROR
<1>6. CASE m.body.kind \in {"exec", "execError", "error"}
  <2>1. currentRes = Nil /\ m.body.kind # "meta"
    BY <1>3, <1>6 DEF RowKind
  <2>2. /\ fieldCount' \in {0, 1} /\ my_errno' \in {0, CR_UNKNOWN, SERVER_ERROR}
        /\ taken' \in BOOLEAN /\ \E errno \in {0, CR_UNKNOWN, SERVER_ERROR} : Continues(m, Nil, errno)
    BY <1>1, <1>2, <1>6, <2>1 DEF processMessage
  <2>3. CASE m.final
    <3>1. currentRes' = Nil /\ ret' \in {0, -1} /\ pc' = "idle"
      BY <2>2, <2>3 DEF Continues, Ends, finishQuery
    <3>2. QED
      BY <1>0, <1>5, <2>2, <2>3, <3>1, CallEnds
  <2>4. CASE ~m.final
    <3>1. currentRes' = Nil /\ ret' = ret /\ pc' = "receive"
      BY <1>5, <2>2, <2>4 DEF Continues, Ends
    <3>2. QED
      BY <2>1, <2>2, <2>4, <3>1, QueryReadsOn
  <2>5. QED
    BY <2>3, <2>4
<1>7. CASE m.body.kind = "meta"
  <2> DEFINE res == [of |-> m.of, rows |-> 0, total |-> m.body.n, state |-> "partial"]
  <2>1. res \in MYSQL_RES /\ [res EXCEPT !.state = "ready"] \in MYSQL_RES
    BY <1>2, <1>7 DEF MYSQL_RES
  <2>2. /\ Continues(m, res, my_errno) /\ UNCHANGED <<fieldCount, my_errno, taken>>
    BY <1>7 DEF processMessage
  <2>3. /\ m.final <=> m.body.n = 0
        /\ RowsFollow(inbox, peerUp, 1, m.body.n, m.id)
    BY <1>0, <1>7 DEF IInv, Framing, Framed
  <2>4. CASE m.final
    <3>1. currentRes' \in {Nil, [res EXCEPT !.state = "ready"]} /\ ret' \in {0, -1} /\ pc' = "idle"
      BY <2>2, <2>4 DEF Continues, Ends, finishQuery
    <3>2. currentRes' # Nil => /\ currentRes'.rows = currentRes'.total
                               /\ currentRes'.state = "ready"
                               /\ UniqueIDs => currentRes'.of = sent
      BY <1>4, <2>3, <2>4, <3>1
    <3>3. currentRes' \in MYSQL_RES \cup {Nil}
      BY <2>1, <3>1
    <3>4. QED
      BY <1>0, <1>1, <1>5, <2>2, <2>4, <3>1, <3>2, <3>3, CallEnds
  <2>5. CASE ~m.final
    <3>1. currentRes' = res /\ ret' = ret /\ pc' = "receive"
      BY <1>5, <2>2, <2>5 DEF Continues, Ends
    <3>2. /\ currentRes'.state = "partial" /\ currentRes'.rows < currentRes'.total
          /\ currentRes'.total - currentRes'.rows = m.body.n
          /\ UniqueIDs => currentRes'.of = sent
      BY <1>2, <1>4, <1>7, <2>3, <2>5, <3>1
    <3>3. RowsFollow(inbox', peerUp, 0, m.body.n, requestID)
      <4>1. m.body.n \in Nat /\ inbox # <<>> /\ inbox \in Seq(Messages) /\ inbox' = Tail(inbox)
        BY <1>0, <1>2, <1>7 DEF TypeOK, Taken, waitForResponse
      <4>2. RowsFollow(Tail(inbox), peerUp, 1 - 1, m.body.n, m.id)
        BY <2>3, <4>1, RowsShift
      <4>3. m.id = requestID
        BY DEF Mine
      <4>4. QED
        BY <4>1, <4>2, <4>3
    <3>4. currentRes' \in MYSQL_RES \cup {Nil} /\ currentRes' # Nil
      BY <2>1, <3>1, NilAssumption
    <3>5. QED
      BY <1>1, <2>2, <2>5, <3>1, <3>2, <3>3, <3>4, QueryReadsOn
  <2>6. QED
    BY <2>4, <2>5
<1>8. CASE m.body.kind = "row" /\ currentRes # Nil
  <2> DEFINE res == [currentRes EXCEPT !.rows = @ + 1]
  <2>1. /\ currentRes \in MYSQL_RES /\ currentRes.state = "partial"
        /\ currentRes.rows \in Nat /\ currentRes.total \in 0..MaxRows
        /\ currentRes.rows < currentRes.total
        /\ m.final <=> currentRes.rows + 1 = currentRes.total
        /\ RowsFollow(inbox', peerUp, 0, currentRes.total - currentRes.rows - 1, requestID)
        /\ UniqueIDs => currentRes.of = sent
    BY <1>8, RowNext
  <2>2. /\ res \in MYSQL_RES /\ [res EXCEPT !.state = "ready"] \in MYSQL_RES
        /\ res.rows = currentRes.rows + 1 /\ res.total = currentRes.total
        /\ res.of = currentRes.of /\ res.state = "partial"
    <3>1. currentRes.rows + 1 \in 0..MaxRows
      BY <1>2, <2>1
    <3>2. res \in MYSQL_RES
      BY <2>1, <3>1 DEF MYSQL_RES
    <3>3. [res EXCEPT !.state = "ready"] \in MYSQL_RES
      BY <3>2 DEF MYSQL_RES
    <3>4. /\ res.rows = currentRes.rows + 1 /\ res.total = currentRes.total
          /\ res.of = currentRes.of /\ res.state = "partial"
      BY <2>1 DEF MYSQL_RES
    <3>5. QED
      BY <3>2, <3>3, <3>4
  <2>3. /\ Continues(m, res, my_errno) /\ UNCHANGED <<fieldCount, my_errno, taken>>
    BY <1>8 DEF processMessage
  <2> HIDE DEF res
  <2>4. CASE m.final
    <3>1. currentRes' \in {Nil, [res EXCEPT !.state = "ready"]} /\ ret' \in {0, -1} /\ pc' = "idle"
      BY <2>3, <2>4 DEF Continues, Ends, finishQuery
    <3>2. currentRes' # Nil => /\ currentRes'.rows = currentRes'.total
                               /\ currentRes'.state = "ready"
                               /\ UniqueIDs => currentRes'.of = sent
      BY <2>1, <2>2, <2>4, <3>1 DEF MYSQL_RES
    <3>3. currentRes' \in MYSQL_RES \cup {Nil}
      BY <2>2, <3>1
    <3>4. QED
      BY <1>0, <1>1, <1>5, <2>3, <2>4, <3>1, <3>2, <3>3, CallEnds
  <2>5. CASE ~m.final
    <3>1. currentRes' = res /\ ret' = ret /\ pc' = "receive"
      BY <1>5, <2>3, <2>5 DEF Continues, Ends
    <3>2. /\ currentRes'.state = "partial" /\ currentRes'.rows < currentRes'.total
          /\ currentRes'.total - currentRes'.rows = currentRes.total - currentRes.rows - 1
          /\ UniqueIDs => currentRes'.of = sent
      BY <1>2, <2>1, <2>2, <2>5, <3>1
    <3>3. currentRes' \in MYSQL_RES \cup {Nil} /\ currentRes' # Nil
      BY <2>2, <3>1, NilAssumption
    <3>4. QED
      BY <1>1, <2>1, <2>3, <2>5, <3>1, <3>2, <3>3, QueryReadsOn
  <2>6. QED
    BY <2>4, <2>5
<1>9. CASE queryThrows /\ (m.body.kind = "bad" \/ (m.body.kind = "row" /\ currentRes = Nil))
  <2>1. /\ my_errno' = CR_UNKNOWN /\ fieldCount' = 0 /\ ret' = -1 /\ pc' = "idle"
        /\ UNCHANGED <<currentRes, taken>>
    BY <1>9 DEF queryThrows
  <2>2. ~WellFormed
    <3> SUFFICES ASSUME WellFormed PROVE FALSE
      OBVIOUS
    <3>1. /\ m.body.kind \in Kinds("query")
          /\ m.body.kind = "row" => currentRes # Nil \/ \E j \in 1 .. 1 - 1 : inbox[j].body.kind = "meta"
      BY <1>0 DEF IInv, Stepping, Awaited, Taken
    <3>2. QED
      BY <1>9, <3>1 DEF Kinds
  <2>3. QED
    BY <1>1, <1>5, <2>1, <2>2, CallEnds
<1>10. QED
  BY <1>6, <1>7, <1>8, <1>9 DEF processMessage

\* A message with another request ID ends the query before it has a result
\* set.
LEMMA QueryStep == ASSUME IInv, Taken, QueryAnswer(Head(inbox)) PROVE IInv'
<1> DEFINE m == Head(inbox)
<1>1. CASE Mine(m) /\ m.body.kind # "empty" /\ processMessage(m)
  BY <1>1, ProcessStep DEF QueryAnswer
<1>2. CASE ~Mine(m)
  <2>1. /\ call = "query" /\ finishQuery(currentRes, my_errno)
        /\ UNCHANGED <<fieldCount, my_errno, taken>>
    BY <1>2 DEF QueryAnswer
  <2>2. currentRes = Nil
    BY <1>2, <2>1, RowNext
  <2>3. currentRes' = Nil /\ ret' \in {0, -1} /\ pc' = "idle"
    BY <2>1, <2>2 DEF finishQuery
  <2>4. /\ TypeOK /\ 1 \in 1 .. Len(inbox) /\ m = inbox[1]
    BY TakenQueue
  <2>5. ~WellFormed
    BY <1>2, <2>4 DEF IInv, Stepping, Awaited, Taken, Mine
  <2>6. /\ fieldCount' \in {0, 1} /\ my_errno' \in {0, CR_UNKNOWN, SERVER_ERROR}
        /\ taken' \in BOOLEAN
    BY <2>1, <2>4 DEF TypeOK
  <2>7. "idle" \in Owners \cup {"crashed"}
    BY DEF Owners
  <2>8. QED
    BY <2>3, <2>5, <2>6, <2>7, CallEnds
<1>3. QED
  BY <1>1, <1>2 DEF QueryAnswer

\* The calls without a consumer get the one message of their answer.
LEMMA ReceiveStep == ASSUME IInv, Receive PROVE IInv'
<1>1. Taken
  BY DEF Receive, Taken
<1>2. CASE QueryAnswer(Head(inbox))
  BY <1>1, <1>2, QueryStep
<1>3. CASE /\ PingAnswer(Head(inbox)) \/ CloseAnswer(Head(inbox)) \/ OpenAnswer(Head(inbox))
           /\ UNCHANGED <<object, ret>>
  <2>1. /\ TypeOK /\ 1 \in 1 .. Len(inbox) /\ Head(inbox) = inbox[1]
        /\ WellFormed /\ call # "query" => inbox' = <<>>
    BY <1>1, TakenQueue
  <2>2. /\ call # "query"
        /\ pc' \in {"fresh", "lost", "pooled", "idle", "crashed"}
        /\ pc' = "crashed" => ~Mine(Head(inbox))
    BY <1>3 DEF PingAnswer, CloseAnswer, OpenAnswer
  <2>3. WellFormed => Mine(Head(inbox))
    BY <1>1, <2>1 DEF IInv, Stepping, Awaited, Taken, Mine
  <2>4. /\ fieldCount' \in {0, 1} /\ my_errno' \in {0, CR_UNKNOWN, SERVER_ERROR}
        /\ taken' \in BOOLEAN /\ ret' \in {0, -1} /\ currentRes' \in MYSQL_RES \cup {Nil}
    BY <1>3, <2>1 DEF TypeOK, object
  <2>5. pc' \in Owners \cup {"crashed"}
    BY <2>2 DEF Owners
  <2>6. QED
    BY <1>1, <2>1, <2>2, <2>3, <2>4, <2>5, CallEnds
<1>4. QED
  BY <1>2, <1>3 DEF Receive

\* Only a server that sends empty messages makes the client use a NULL
\* response.
LEMMA EmptyMessageStep == ASSUME IInv, EmptyMessage PROVE IInv'
<1>1. Taken /\ Head(inbox).body.kind = "empty" /\ pc' = "crashed" /\ UNCHANGED <<ret, object>>
  BY DEF EmptyMessage, Taken
<1>2. /\ TypeOK /\ 1 \in 1 .. Len(inbox) /\ Head(inbox) = inbox[1]
  BY <1>1, TakenQueue
<1>3. ~WellFormed
  <2> SUFFICES ASSUME WellFormed PROVE FALSE
    OBVIOUS
  <2>1. Head(inbox).body.kind \in Kinds(call)
    BY <1>1, <1>2 DEF IInv, Stepping, Awaited, Taken
  <2>2. QED
    BY <1>1, <2>1 DEF Kinds
<1>4. /\ fieldCount' \in {0, 1} /\ my_errno' \in {0, CR_UNKNOWN, SERVER_ERROR}
      /\ taken' \in BOOLEAN /\ ret' \in {0, -1} /\ currentRes' \in MYSQL_RES \cup {Nil}
  BY <1>1, <1>2 DEF TypeOK, object
<1>5. pc' \in Owners \cup {"crashed"} /\ pc' # "idle"
  BY <1>1
<1>6. QED
  BY <1>1, <1>3, <1>4, <1>5, CallEnds

\* Nor does a message of a server that keeps to the protocol fail to decode, and
\* the call it ends for another server leaves nothing to be stored.
LEMMA DecodeThrowsStep == ASSUME IInv, DecodeThrows PROVE IInv'
<1>1. /\ Taken /\ Head(inbox).body.kind = "bad"
      /\ \/ call = "query" /\ queryThrows
         \/ call # "query" /\ pc' = "lost" /\ UNCHANGED <<object, ret>>
  BY DEF DecodeThrows, Taken
<1>2. /\ TypeOK /\ 1 \in 1 .. Len(inbox) /\ Head(inbox) = inbox[1]
  BY <1>1, TakenQueue
<1>3. ~WellFormed
  <2> SUFFICES ASSUME WellFormed PROVE FALSE
    OBVIOUS
  <2>1. Head(inbox).body.kind \in Kinds(call)
    BY <1>1, <1>2 DEF IInv, Stepping, Awaited, Taken
  <2>2. QED
    BY <1>1, <2>1 DEF Kinds
<1>4. /\ fieldCount' \in {0, 1} /\ my_errno' \in {0, CR_UNKNOWN, SERVER_ERROR}
      /\ taken' \in BOOLEAN /\ ret' \in {0, -1} /\ currentRes' \in MYSQL_RES \cup {Nil}
      /\ pc' \in {"idle", "lost"} /\ (pc' = "idle" => ret' = -1)
  BY <1>1, <1>2 DEF TypeOK, object, queryThrows
<1>5. pc' \in Owners \cup {"crashed"} /\ pc' # "crashed"
  BY <1>4 DEF Owners
<1>6. QED
  BY <1>1, <1>3, <1>4, <1>5, CallEnds

\* The constructor's second request goes out when the answer to the first has
\* been read.
LEMMA CreateStatementStep == ASSUME IInv, CreateStatement PROVE IInv'
<1>0. TypeOK /\ Room
  BY DEF IInv, TypeInv
<1>1. /\ pc = "receive" /\ call = "open" /\ inbox # <<>> /\ call' = "create"
      /\ nextRequestID' = allocatedID + 1 /\ UNCHANGED <<setting, peerUp, ret, object>>
      /\ inbox \in Seq(Messages) /\ sent < MaxRequests
  BY <1>0 DEF CreateStatement, TypeOK, Room
<1>2. PICK t \in Seq(Messages) : t = Tail(inbox)
  BY <1>1, TailIs
<1>3. /\ Len(t) = Len(inbox) - 1 /\ Len(inbox) \in Nat
      /\ \A i \in 1 .. Len(t) : t[i] = inbox[i + 1] /\ i + 1 \in 1 .. Len(inbox)
      /\ Len(inbox) = 1 => t = <<>>
  <2>1. /\ Len(inbox) \in Nat /\ Len(Tail(inbox)) = Len(inbox) - 1
        /\ \A i \in 1 .. Len(Tail(inbox)) : Tail(inbox)[i] = inbox[i + 1]
        /\ Len(inbox) = 1 => Tail(inbox) = <<>>
    BY <1>1, TailIs
  <2>2. QED
    BY <1>2, <2>1
<1>4. Framed(t, peerUp)
  BY <1>0, <1>1, <1>2, InboxMeta, FramedTail DEF IInv, Framing
<1>5. WellFormed => t = <<>>
  <2>1. WellFormed => Len(inbox) <= 1
    BY <1>1 DEF IInv, Stepping, Awaited
  <2>2. Len(inbox) > 0
    BY <1>1, EmptySeq
  <2>3. QED
    BY <1>3, <2>1, <2>2
<1>6. /\ fieldCount' \in {0, 1} /\ my_errno' \in {0, CR_UNKNOWN, SERVER_ERROR}
      /\ taken' \in BOOLEAN /\ currentRes' \in MYSQL_RES \cup {Nil} /\ ret' \in {0, -1}
  BY <1>0, <1>1 DEF TypeOK, object
<1>7. CASE peerUp
  <2>1. PICK b \in Simple : inbox' = t \o answerTo(allocatedID, sent', b)
    BY <1>2, <1>7 DEF CreateStatement
  <2>2. sent' = sent + 1 /\ requestID' = allocatedID /\ pc' = "receive"
    BY <1>1, <1>7 DEF CreateStatement
  <2>3. b \in AnswersTo("create") /\ "create" \in Calls
    BY DEF AnswersTo, Calls
  <2>4. Framed(t, TRUE)
    BY <1>0, <1>4, <1>7 DEF TypeOK
  <2>5. \A i \in 1 .. Len(t) : t[i].body.kind = "meta" => t[i].body.n \in Nat
    BY <1>0, <1>3, InboxMeta
  <2>6. MaxRequests < MaxRequestID => \A i \in 1 .. Len(t) : t[i].id < nextRequestID
    BY <1>3, <1>7 DEF IInv, Owning, Numbered
  <2>7. QED
    BY <1>1, <1>5, <1>6, <1>7, <2>1, <2>2, <2>3, <2>4, <2>5, <2>6, RequestSent
<1>8. CASE ~peerUp
  <2>1. inbox' = t /\ pc' = "lost" /\ UNCHANGED <<sent, requestID>>
    BY <1>2, <1>8 DEF CreateStatement
  <2>2. /\ Messages' = Messages /\ RequestIDs' = RequestIDs /\ MaxRequestID' = MaxRequestID
        /\ (WellFormed' <=> WellFormed)
    BY <1>1, SameMessages
  <2>3. TypeOK'
    <3>1. nextRequestID' \in 1..MaxRequestID'
      BY <1>0, <1>1, <2>2, Allocated
    <3>2. pc' \in Owners \cup {"receive", "crashed"}
      BY <2>1 DEF Owners
    <3>3. QED
      BY <1>0, <1>1, <1>2, <1>6, <2>1, <2>2, <3>1, <3>2 DEF TypeOK
  <2>4. Room' /\ Framing'
    BY <1>1, <1>4, <2>1 DEF Room, Framing, Partial, Complete
  <2>5. Stepping'
    BY <1>5, <2>1, <2>2 DEF Stepping, InStep, Awaited
  <2>6. Owning'
    BY <1>1, <1>8, <2>1 DEF Owning, Numbered, Own, StoresOwnResult
  <2>7. QED
    BY <2>3, <2>4, <2>5, <2>6 DEF IInv, TypeInv
<1>9. QED
  BY <1>7, <1>8

-----------------------------------------------------------------------------
(* The application and the surroundings.                                   *)

\* A result set that was stored is not stored again.
LEMMA StoreStep == ASSUME IInv, StoreAndFree PROVE IInv'
<1>0. TypeOK
  BY DEF IInv, TypeInv
<1>1. /\ pc = "idle" /\ taken' = TRUE
      /\ UNCHANGED <<setting, nextRequestID, peerUp, inbox, requestID, sent, call, ret, pc,
                     fieldCount, my_errno>>
  BY DEF StoreAndFree, channel
<1>2. currentRes' \in MYSQL_RES \cup {Nil}
  <2>1. currentRes \in MYSQL_RES => [currentRes EXCEPT !.state = "freed"] \in MYSQL_RES
    BY DEF MYSQL_RES
  <2>2. QED
    BY <1>0, <2>1 DEF StoreAndFree, TypeOK
<1>3. TypeOK'
  <2>1. Messages' = Messages /\ RequestIDs' = RequestIDs /\ MaxRequestID' = MaxRequestID
    BY <1>1, SameMessages
  <2>2. taken' \in BOOLEAN
    BY <1>1
  <2>3. QED
    BY <1>0, <1>1, <1>2, <2>1, <2>2 DEF TypeOK
<1>4. Room' /\ Framing'
  BY <1>1 DEF IInv, Room, Framing, Partial, Complete
<1>5. Stepping'
  BY <1>1, SameMessages DEF IInv, Stepping, InStep, Awaited
<1>6. Owning'
  BY <1>1 DEF IInv, Owning, Numbered, Own, StoresOwnResult, MaxRequestID
<1>7. QED
  BY <1>3, <1>4, <1>5, <1>6 DEF IInv, TypeInv

\* A new connection has new streams and starts its request IDs again.
LEMMA RedialStep == ASSUME IInv, Redial PROVE IInv'
<1>0. TypeOK
  BY DEF IInv, TypeInv
<1>1. /\ pc' = "fresh" /\ nextRequestID' = 1 /\ peerUp' = TRUE /\ inbox' = <<>>
      /\ UNCHANGED <<setting, requestID, sent, call, ret, currentRes, fieldCount, my_errno, taken>>
  BY DEF Redial, Reconnected, object
<1>2. /\ Messages' = Messages /\ RequestIDs' = RequestIDs /\ MaxRequestID' = MaxRequestID
  BY <1>1, SameMessages
<1>3. TypeOK'
  <2>1. inbox' \in Seq(Messages) /\ nextRequestID' \in 1..MaxRequestID' /\ peerUp' \in BOOLEAN
    BY <1>0, <1>1, <1>2, Allocated
  <2>2. pc' \in Owners \cup {"receive", "crashed"}
    BY <1>1 DEF Owners
  <2>3. QED
    BY <1>0, <1>1, <1>2, <2>1, <2>2 DEF TypeOK
<1>4. Room' /\ Framing'
  BY <1>1, EmptyFramed DEF Room, Framing, Partial, Complete
<1>5. Stepping'
  BY <1>1 DEF Stepping, InStep, Awaited
<1>6. Owning'
  BY <1>0, <1>1 DEF Owning, Numbered, Own, StoresOwnResult, TypeOK
<1>7. QED
  BY <1>3, <1>4, <1>5, <1>6 DEF IInv, TypeInv

\* What the server has written before it exits can still be read.
LEMMA ExitsStep == ASSUME IInv, Exits PROVE IInv'
<1>0. TypeOK
  BY DEF IInv, TypeInv
<1>1. PICK n \in 0..Len(inbox) : inbox' = SubSeq(inbox, 1, n)
  BY DEF Exits, ServerExits
<1>2. /\ peerUp' = FALSE
      /\ UNCHANGED <<setting, nextRequestID, requestID, sent, call, ret, pc,
                     currentRes, fieldCount, my_errno, taken>>
  BY DEF Exits, ServerExits, object
<1>3. inbox \in Seq(Messages)
  BY <1>0 DEF TypeOK
<1>4. /\ inbox' \in Seq(Messages) /\ Len(inbox') = n /\ n \in Nat /\ n <= Len(inbox)
      /\ \A i \in 1 .. Len(inbox') : inbox'[i] = inbox[i] /\ i \in 1 .. Len(inbox)
      /\ inbox = <<>> => inbox' = <<>>
  BY <1>1, <1>3, PrefixIs, LenProperties
<1>5. /\ Messages' = Messages /\ RequestIDs' = RequestIDs /\ MaxRequestID' = MaxRequestID
      /\ (WellFormed' <=> WellFormed) /\ (UniqueIDs' <=> UniqueIDs)
  BY <1>2, SameMessages
<1>6. TypeOK' /\ Room'
  BY <1>0, <1>2, <1>4, <1>5 DEF IInv, TypeInv, TypeOK, Room
<1>7. Framing'
  <2>1. Framed(inbox', peerUp')
    BY <1>1, <1>2, <1>3, FramedPrefix DEF IInv, Framing
  <2>2. Partial'
    BY <1>1, <1>2, <1>3, RowsPrefix DEF IInv, Framing, Partial
  <2>3. Complete'
    BY <1>2 DEF IInv, Framing, Complete
  <2>4. QED
    BY <2>1, <2>2, <2>3 DEF Framing
<1>8. InStep'
  BY <1>2, <1>4, <1>5 DEF IInv, Stepping, InStep
<1>9. Awaited'
  <2> SUFFICES ASSUME WellFormed, pc = "receive" PROVE Awaited'
    BY <1>2, <1>5 DEF Awaited
  <2>1. /\ call \in {"ping", "open", "create", "close", "query"}
        /\ \A i \in 1 .. Len(inbox) :
              /\ inbox[i].id = requestID /\ inbox[i].of = sent
              /\ inbox[i].body.kind \in Kinds(call)
              /\ inbox[i].final => i = Len(inbox)
        /\ call # "query" => Len(inbox) <= 1
        /\ call = "query" => \A i \in 1 .. Len(inbox) : inbox[i].body.kind = "row" =>
              currentRes # Nil \/ \E j \in 1 .. i - 1 : inbox[j].body.kind = "meta"
    BY DEF IInv, Stepping, Awaited
  <2>2. \A i \in 1 .. Len(inbox') :
              /\ inbox'[i].id = requestID /\ inbox'[i].of = sent
              /\ inbox'[i].body.kind \in Kinds(call)
              /\ inbox'[i].final => i = Len(inbox')
    BY <1>4, <2>1, LenProperties
  <2>3. ASSUME call = "query", currentRes = Nil,
               NEW i \in 1 .. Len(inbox'), inbox'[i].body.kind = "row"
        PROVE  \E j \in 1 .. i - 1 : inbox'[j].body.kind = "meta"
    <3>1. PICK j \in 1 .. i - 1 : inbox[j].body.kind = "meta"
      BY <1>4, <2>1, <2>3
    <3>2. j \in 1 .. Len(inbox')
      BY <1>4
    <3>3. QED
      BY <1>4, <3>1, <3>2
  <2>4. call # "query" => Len(inbox') <= 1
    BY <1>3, <1>4, <2>1, LenProperties
  <2>5. QED
    BY <1>2, <2>1, <2>2, <2>3, <2>4 DEF Awaited
<1>10. Owning'
  BY <1>2, <1>4, <1>5 DEF IInv, Owning, Numbered, Own, StoresOwnResult
<1>11. QED
  BY <1>6, <1>7, <1>8, <1>9, <1>10 DEF IInv, TypeInv, Stepping

-----------------------------------------------------------------------------
(* Theorems.                                                               *)

\* Nothing has been sent.
LEMMA Initial == Init => IInv
<1> SUFFICES ASSUME Init PROVE IInv
  OBVIOUS
<1>1. setting \in Settings /\ nextRequestID = 1 /\ peerUp = TRUE /\ inbox = <<>>
  BY DEF Init, ChannelInit
<1>2. MaxRequestID \in Nat \ {0, 1} /\ MaxRequests \in Nat
  BY <1>1, SettingsAssumption, QueryAssumption DEF MaxRequestID
<1>3. inbox \in Seq(Messages) /\ Len(inbox) = 0
  BY <1>1
<1>4. 1 \in RequestIDs /\ 1 \in 1..MaxRequestID /\ 0 \in 0..MaxRequests
  BY <1>2 DEF RequestIDs
<1>5. TypeOK
  <2>1. pc \in Owners \cup {"receive", "crashed"}
    BY DEF Init, Owners
  <2>2. /\ peerUp \in BOOLEAN /\ taken \in BOOLEAN /\ fieldCount \in {0, 1}
        /\ my_errno \in {0, CR_UNKNOWN, SERVER_ERROR} /\ ret \in {0, -1}
    BY <1>1 DEF Init
  <2>3. QED
    BY <1>1, <1>3, <1>4, <2>1, <2>2 DEF Init, TypeOK
<1>6. Room /\ Framing
  BY <1>1, EmptyFramed DEF Init, Room, Framing, Partial, Complete
<1>7. Stepping
  BY <1>1 DEF Init, Stepping, InStep, Awaited
<1>8. Owning
  BY <1>1, <1>3 DEF Init, Owning, Numbered, Own, StoresOwnResult
<1>9. QED
  BY <1>5, <1>6, <1>7, <1>8 DEF IInv, TypeInv

\* A step of others.
LEMMA StutterStep == ASSUME IInv, UNCHANGED vars PROVE IInv'
<1>1. UNCHANGED <<setting, nextRequestID, peerUp, inbox, requestID, sent, call, ret, pc,
                  currentRes, fieldCount, my_errno, taken>>
  BY DEF vars, channel, object
<1>2. TypeOK' /\ Room'
  <2>1. Messages' = Messages /\ RequestIDs' = RequestIDs /\ MaxRequestID' = MaxRequestID
    BY <1>1, SameMessages
  <2>2. QED
    BY <1>1, <2>1 DEF IInv, TypeInv, TypeOK, Room
<1>3. Framing'
  BY <1>1 DEF IInv, Framing, Partial, Complete
<1>4. Stepping'
  BY <1>1, SameMessages DEF IInv, Stepping, InStep, Awaited
<1>5. Owning'
  BY <1>1, SameMessages DEF IInv, Owning, Numbered, Own, StoresOwnResult
<1>6. QED
  BY <1>2, <1>3, <1>4, <1>5 DEF IInv, TypeInv

\* The inductive step.
LEMMA Inductive == IInv /\ [Next]_vars => IInv'
<1> SUFFICES ASSUME IInv, [Next]_vars PROVE IInv'
  OBVIOUS
<1>1. QED
  BY CallStep, SetNamesStep, ReceiveStep, CreateStatementStep, EmptyMessageStep,
     DecodeThrowsStep, StoreStep, RedialStep, ExitsStep, StutterStep DEF Next

\* The invariant holds in every state.
LEMMA Invariance == Spec => []IInv
  BY Initial, Inductive, PTL DEF Spec

\* The connection object and its streams keep their types for every server,
\* limit of request IDs and length of a run: request IDs stay below the limit,
\* and a result set never counts more rows than its meta response announces.
THEOREM TypeCorrect == Spec => []TypeOK
<1>1. IInv => TypeOK
  BY DEF IInv, TypeInv
<1>2. QED
  BY <1>1, Invariance, PTL

\* With a server that keeps to the protocol nothing of an earlier request is
\* on the streams when the connection changes hands, although request IDs
\* start again at their limit, and no NULL response is dereferenced.
THEOREM RequestsInStep == Spec => []InStep
<1>1. IInv => InStep
  BY DEF IInv, Stepping
<1>2. QED
  BY <1>1, Invariance, PTL

\* Whatever the server sends and whatever IDs it repeats, a query that returns 0
\* leaves no result set or one that is complete: as many rows as its meta
\* response announced, and not freed.
THEOREM ResultsAreComplete == Spec => []Complete
<1>1. IInv => Complete
  BY DEF IInv, Framing
<1>2. QED
  BY <1>1, Invariance, PTL

\* It is the result set of that very query, when the server keeps to the
\* protocol, or as long as request IDs have not started again: the ID is all
\* that tells an answer that was left on the streams from the expected one.
THEOREM ResultsAreOwn ==
    ASSUME \A s \in Settings : \/ ~s.malformed /\ ~s.empty
                               \/ MaxRequests < s.MaxRequestID
    PROVE  Spec => []StoresOwnResult
<1>1. IInv => StoresOwnResult
  <2> SUFFICES ASSUME IInv PROVE StoresOwnResult
    OBVIOUS
  <2>1. setting \in Settings
    BY DEF IInv, TypeInv, TypeOK
  <2>2. UniqueIDs
    BY <2>1 DEF UniqueIDs, WellFormed, MaxRequestID
  <2>3. QED
    BY <2>2 DEF IInv, Owning
<1>2. QED
  BY <1>1, Invariance, PTL
=============================================================================
