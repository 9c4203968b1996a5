----------------------------- MODULE TpccDriver -----------------------------
(***************************************************************************)
(* The benchmark run: Tpcc.runBenchmark in the main thread, a TpccThread   *)
(* with its Driver per connection, the deck of transaction kinds that they *)
(* draw from (Util) and the counters that they share with the main thread. *)
(* What a transaction does to the database is in TpccTransactions; here it *)
(* returns 1 or 0 or throws.  An increment of an element of a shared array *)
(* is a read and a write: no lock protects the total counts.               *)
(***************************************************************************)
EXTENDS Integers, Sequences, FiniteSetsExt, SequencesExt

CONSTANTS
    numConn,        \* number of connections, each with its thread
    Mixes,          \* the arguments that seqInit may be given
    Randoms,        \* what rnd.nextInt() may return
    ResponseTimes,  \* in milliseconds; negative when the clock was set back
    MAX_RETRY,      \* 2000 in the code
    MaxCalls,       \* bounds the transactions
    Nil

Kinds    == 0..4    \* NewOrder, Payment, Order Stat, Delivery, Slev
Threads  == 0..numConn - 1
Counters == {"success", "late", "retry", "failure"}

ASSUME DriverAssumption ==
    /\ numConn \in Nat \ {0} /\ MAX_RETRY \in Nat \ {0} /\ MaxCalls \in Nat
    /\ Mixes \subseteq [Kinds -> Nat] /\ Randoms \subseteq Int /\ ResponseTimes \subseteq Int
    /\ Mixes # {} /\ \A mix \in Mixes : \E k \in Kinds : mix[k] > 0

VARIABLES
    \* the main thread
    main,                  \* what runBenchmark does
    activate_transaction, counting_on,
    \* Util
    mix, seq, nextNum,
    \* the counters: totals, and those of each thread
    total, own,
    \* per thread
    pc,
    sequence,              \* the kind it has drawn
    tries,                 \* retries of the current call
    todo,                  \* increments <<counter, amount>> still to be made
    read,                  \* the total it has read and not written back, or Nil
    \* history
    calls,                 \* transactions begun
    drawn,                 \* per kind: how often it was drawn
    attempts               \* per kind and thread: attempts ended while counting

utilVars   == <<mix, seq, nextNum, drawn>>
countVars  == <<total, own>>
threadVars == <<pc, sequence, tries, todo, read>>
vars == <<main, activate_transaction, counting_on, utilVars, countVars, threadVars, calls, attempts>>

-----------------------------------------------------------------------------
(* The deck.                                                               *)

\* The sum of an array.
Sum(f) == LET sum[n \in DOMAIN f] == f[n] + (IF n = 0 THEN 0 ELSE sum[n - 1])
          IN  sum[Cardinality(DOMAIN f) - 1]
Abs(n) == IF n < 0 THEN -n ELSE n

\* One card per unit of weight, kind by kind.
sorted(m) == FlattenSeq([k \in 1..5 |-> [i \in 1..m[k - 1] |-> k - 1]])

\* Mutant: the card that is put in place i stays where it was.
swap_copies(s, i, j) == [s EXCEPT ![i] = s[j]]

swap(s, i, j) == [s EXCEPT ![i] = s[j], ![j] = s[i]]

\* The loop of shuffle for the random numbers rnd: cards[i] is the deck after i
\* turns; places count from 1 here.
shuffled(s, rnd) ==
    LET cards[i \in 0..Len(s) - 1] ==
            IF i = 0 THEN s ELSE swap(cards[i - 1], i, i + (Abs(rnd[i]) % (Len(s) + 1 - i)))
    IN  cards[Len(s) - 1]

\* The decks that shuffle may leave, for each mix.
Decks == [m \in Mixes |-> {shuffled(sorted(m), rnd) : rnd \in [1..Len(sorted(m)) - 1 -> Randoms]}]

\* The caller gets a card of the deck, or the first of a new one.
seqGet(card) ==
    \/ /\ nextNum < Len(seq)
       /\ nextNum' = nextNum + 1
       /\ card = seq[nextNum']
       /\ UNCHANGED seq
    \/ /\ nextNum >= Len(seq)
       /\ seq' \in Decks[mix]
       /\ nextNum' = 1
       /\ card = seq'[1]

-----------------------------------------------------------------------------
(* The main thread.                                                        *)

Created(t) == pc[t] # "none"
Running    == main \notin {"exited"}

\* The constructor of TpccThread connects; then the executor starts it.
StartThread(t) ==
    /\ main = "connect"
    /\ t = Cardinality({u \in Threads : Created(u)})
    /\ pc' = [pc EXCEPT ![t] = "draw"]
    /\ main' = IF t = numConn - 1 THEN "rampup" ELSE main
    /\ UNCHANGED <<activate_transaction, counting_on, utilVars, countVars, sequence, tries, todo,
                   read, calls, attempts>>

\* The exception of the constructor ends the main thread; the threads that
\* have been started are not told.
ConnectFails ==
    /\ main = "connect"
    /\ main' = "dead"
    /\ UNCHANGED <<activate_transaction, counting_on, utilVars, countVars, threadVars, calls, attempts>>

EndRampup ==
    /\ main = "rampup"
    /\ main' = "measure"
    /\ counting_on' = TRUE
    /\ UNCHANGED <<activate_transaction, utilVars, countVars, threadVars, calls, attempts>>

\* The duration is over, the results are printed, "STOPPING THREADS".
StopThreads ==
    /\ main = "measure"
    /\ main' = "await"
    /\ activate_transaction' = 0
    /\ UNCHANGED <<counting_on, utilVars, countVars, threadVars, calls, attempts>>

\* All threads have ended or 30 seconds are over: the answer of
\* awaitTermination is ignored, and System.exit ends the process.
Exit ==
    /\ main = "await"
    /\ main' = "exited"
    /\ UNCHANGED <<activate_transaction, counting_on, utilVars, countVars, threadVars, calls, attempts>>

-----------------------------------------------------------------------------
(* A thread.                                                               *)

at(t, label) == Running /\ pc[t] = label
goto(t, label) == pc' = [pc EXCEPT ![t] = label]

DrawNext(t) ==
    /\ at(t, "draw")
    /\ \E card \in Kinds :
           /\ seqGet(card)
           /\ sequence' = [sequence EXCEPT ![t] = card]
           /\ drawn' = [drawn EXCEPT ![card] = @ + 1]
    /\ goto(t, "loop")
    /\ UNCHANGED <<main, activate_transaction, counting_on, mix, countVars, tries, todo, read, calls,
                   attempts>>

\* while (Tpcc.activate_transaction == 1)
BeginCall(t) ==
    /\ at(t, "loop") /\ activate_transaction = 1 /\ calls < MaxCalls
    /\ calls' = calls + 1
    /\ tries' = [tries EXCEPT ![t] = 0]
    /\ goto(t, "attempt")
    /\ UNCHANGED <<main, activate_transaction, counting_on, utilVars, countVars, sequence, todo, read,
                   attempts>>

\* Mutant: the flag is not volatile, and read before the first call only.
EndThread_stale(t) ==
    /\ at(t, "loop") /\ activate_transaction # 1 /\ calls = 0
    /\ goto(t, "ended")
    /\ UNCHANGED <<main, activate_transaction, counting_on, utilVars, countVars, sequence, tries, todo,
                   read, calls, attempts>>

EndThread(t) ==
    /\ at(t, "loop") /\ activate_transaction # 1
    /\ goto(t, "ended")
    /\ UNCHANGED <<main, activate_transaction, counting_on, utilVars, countVars, sequence, tries, todo,
                   read, calls, attempts>>

\* RtHist.histInc: the row of the histogram for a response time.
MAXREC == 20
REC_PER_SEC == 1000
histIndex(rt) == Min({rt * REC_PER_SEC, MAXREC * REC_PER_SEC - 1})

\* The result is counted when counting has begun by the time it is there.
counted(t, increments, next) ==
    IF counting_on
    THEN todo' = [todo EXCEPT ![t] = increments] /\ goto(t, "count")
    ELSE UNCHANGED todo /\ goto(t, next)

noteAttempt(t) ==
    attempts' = IF counting_on THEN [attempts EXCEPT ![sequence[t]][t] = @ + 1] ELSE attempts

\* The transaction returns 1, after rt milliseconds since its first attempt.
Succeeds(t, rt, rtime) ==
    /\ histIndex(rt) >= 0
    /\ counted(t, <<<<IF rt < rtime THEN "success" ELSE "late", 1>>>>, "draw")
    /\ noteAttempt(t)
    /\ UNCHANGED <<main, activate_transaction, counting_on, utilVars, countVars, sequence, tries, read,
                   calls>>

\* It returns 0: it is tried again, MAX_RETRY times in all, and then given up.
\* Mutant: i <= MAX_RETRY.
AfterRetry_oneMore(t) == IF tries[t] > MAX_RETRY THEN "giveup" ELSE "attempt"

AfterRetry(t) == IF tries[t] = MAX_RETRY THEN "giveup" ELSE "attempt"
Fails(t) ==
    /\ tries' = [tries EXCEPT ![t] = @ + 1]
    /\ counted(t, <<<<"retry", 1>>>>, AfterRetry(t)')
    /\ noteAttempt(t)
    /\ UNCHANGED <<main, activate_transaction, counting_on, utilVars, countVars, sequence, read, calls>>

\* Something throws, be it histInc for a negative index: the thread ends, and
\* makes the others end.
Throws(t) ==
    /\ activate_transaction' = 0
    /\ goto(t, "ended")
    /\ UNCHANGED <<main, counting_on, utilVars, countVars, sequence, tries, todo, read, calls, attempts>>

attempt(t, kind, rtime) ==
    /\ at(t, "attempt") /\ sequence[t] = kind
    /\ \/ \E rt \in ResponseTimes : Succeeds(t, rt, rtime)
       \/ Fails(t)
       \/ Throws(t)

doNeword(t)   == attempt(t, 0, 5000)
doPayment(t)  == attempt(t, 1, 5000)
doOrdstat(t)  == attempt(t, 2, 5000)
doDelivery(t) == attempt(t, 3, 5000)
doSlev(t)     == attempt(t, 4, 20000)

\* Mutant: the last retry stays one.
GiveUp_keepsRetry(t) ==
    /\ at(t, "giveup")
    /\ counted(t, <<<<"failure", 1>>>>, "draw")
    /\ tries' = [tries EXCEPT ![t] = 0]
    /\ UNCHANGED <<main, activate_transaction, counting_on, utilVars, countVars, sequence, read, calls,
                   attempts>>

\* The last retry becomes a failure.
GiveUp(t) ==
    /\ at(t, "giveup")
    /\ counted(t, <<<<"retry", -1>>, <<"failure", 1>>>>, "draw")
    /\ tries' = [tries EXCEPT ![t] = 0]
    /\ UNCHANGED <<main, activate_transaction, counting_on, utilVars, countVars, sequence, read, calls,
                   attempts>>

\* success[k]++ and the like, in two steps, ...
ReadTotal(t) ==
    /\ at(t, "count") /\ read[t] = Nil
    /\ read' = [read EXCEPT ![t] = total[Head(todo[t])[1]][sequence[t]]]
    /\ UNCHANGED <<main, activate_transaction, counting_on, utilVars, countVars, pc, sequence, tries,
                   todo, calls, attempts>>

WriteTotal(t) ==
    /\ at(t, "count") /\ read[t] # Nil
    /\ total' = [total EXCEPT ![Head(todo[t])[1]][sequence[t]] = read[t] + Head(todo[t])[2]]
    /\ read' = [read EXCEPT ![t] = Nil]
    /\ goto(t, "own")
    /\ UNCHANGED <<main, activate_transaction, counting_on, utilVars, own, sequence, tries, todo, calls,
                   attempts>>

\* ... and success2[k][t_num]++, which only this thread writes.
Continue(t) ==
    CASE Len(todo[t]) > 1            -> "count"
      [] Head(todo[t]) = <<"retry", 1>> -> AfterRetry(t)
      [] OTHER                       -> "draw"
\* Mutant: late2 is forgotten.
CountOwn_notLate(t) ==
    /\ at(t, "own")
    /\ own' = IF Head(todo[t])[1] = "late" THEN own
              ELSE [own EXCEPT ![Head(todo[t])[1]][sequence[t]][t] = @ + Head(todo[t])[2]]
    /\ todo' = [todo EXCEPT ![t] = Tail(@)]
    /\ goto(t, Continue(t))
    /\ UNCHANGED <<main, activate_transaction, counting_on, utilVars, total, sequence, tries, read,
                   calls, attempts>>

CountOwn(t) ==
    /\ at(t, "own")
    /\ own' = [own EXCEPT ![Head(todo[t])[1]][sequence[t]][t] = @ + Head(todo[t])[2]]
    /\ todo' = [todo EXCEPT ![t] = Tail(@)]
    /\ goto(t, Continue(t))
    /\ UNCHANGED <<main, activate_transaction, counting_on, utilVars, total, sequence, tries, read,
                   calls, attempts>>

-----------------------------------------------------------------------------

Init ==
    /\ main = "connect" /\ activate_transaction = 1 /\ counting_on = FALSE
    /\ mix \in Mixes /\ seq \in Decks[mix] /\ nextNum = 0
    /\ total = [n \in Counters |-> [k \in Kinds |-> 0]]
    /\ own = [n \in Counters |-> [k \in Kinds |-> [t \in Threads |-> 0]]]
    /\ pc = [t \in Threads |-> "none"] /\ sequence = [t \in Threads |-> 0]
    /\ tries = [t \in Threads |-> 0]
    /\ todo = [t \in Threads |-> <<>>] /\ read = [t \in Threads |-> Nil]
    /\ calls = 0 /\ drawn = [k \in Kinds |-> 0]
    /\ attempts = [k \in Kinds |-> [t \in Threads |-> 0]]

ThreadStep(t) ==
    \/ DrawNext(t) \/ BeginCall(t) \/ EndThread(t)
    \/ doNeword(t) \/ doPayment(t) \/ doOrdstat(t) \/ doDelivery(t) \/ doSlev(t)
    \/ GiveUp(t) \/ ReadTotal(t) \/ WriteTotal(t) \/ CountOwn(t)

MainStep == (\E t \in Threads : StartThread(t)) \/ EndRampup \/ StopThreads \/ Exit

Next == MainStep \/ ConnectFails \/ \E t \in Threads : ThreadStep(t)

\* The operating system runs every thread, and the database answers.
Fairness == \A t \in Threads : WF_vars(ThreadStep(t))

Spec     == Init /\ [][Next]_vars
FairSpec == Spec /\ Fairness

-----------------------------------------------------------------------------

\* Every variable has its type, and the indices of the deck and of the
\* histogram that a thread uses exist.
TypeOK ==
    /\ main \in {"connect", "dead", "rampup", "measure", "await", "exited"}
    /\ activate_transaction \in {0, 1} /\ counting_on \in BOOLEAN
    /\ mix \in Mixes /\ Len(seq) = Sum(mix) /\ nextNum \in 0..Len(seq)
    /\ pc \in [Threads -> {"none", "draw", "loop", "attempt", "giveup", "count", "own", "ended"}]
    /\ sequence \in [Threads -> Kinds] /\ tries \in [Threads -> 0..MAX_RETRY]
    /\ \A t \in Threads :
           /\ pc[t] \in {"count", "own"} <=> todo[t] # <<>>
           /\ read[t] # Nil => pc[t] = "count"
    /\ calls \in 0..MaxCalls

\* Whatever the shuffles do and whoever draws, each kind is drawn as often as
\* its weight says in every round of the deck ("Payment: >=43.0%").
DeckMix ==
    LET rounds == Sum(drawn) \div Sum(mix)
    IN  \A k \in Kinds : drawn[k] \in rounds * mix[k]..(rounds + 1) * mix[k]

\* The threads' own counts miss and repeat nothing: together they are the
\* attempts that ended while counting was on.  A call given up has one retry
\* less than attempts, so a count of retries can be -1, but not less.
AttemptsCounted ==
    \A t \in Threads, k \in Kinds :
        /\ todo[t] = <<>> => own["success"][k][t] + own["late"][k][t]
                              + own["retry"][k][t] + own["failure"][k][t] = attempts[k][t]
        /\ own["retry"][k][t] >= -1

\* A total that only grows is never ahead of what the threads have counted or
\* are about to count for themselves: lost increments only make it smaller.
InFlight(n, k) ==
    Cardinality({t \in Threads : pc[t] = "own" /\ sequence[t] = k /\ Head(todo[t])[1] = n})
TotalNeverAhead ==
    \A n \in Counters \ {"retry"}, k \in Kinds : total[n][k] <= Sum(own[n][k]) + InFlight(n, k)

\* When the duration is over or a thread has thrown, all threads end, unless
\* the end of the process is earlier; the retries of a call do not prevent it.
WorkersStop ==
    activate_transaction = 0 ~> (main = "exited" \/ \A t \in Threads : pc[t] \in {"none", "ended"})
=============================================================================
