----------------------- MODULE TpccTransactions_proofs ----------------------
(***************************************************************************)
(* The five transactions of TPC-C.                                         *)
(*                                                                         *)
(* The terminals never wait for each other in a circle, whatever calls they*)
(* make: the transactions take their locks in one order, the ranks of the  *)
(* rows, and New Order takes those of the stocks in the order of its sorted*)
(* lines.  That a sorted order of any lines exists is proved here first.   *)
(*                                                                         *)
(* The orders in the tables are complete, whatever transactions overlap or *)
(* fail, and the transactions implement the queues of new orders.  The     *)
(* first invariant is about three sets of rows: the committed ones, every  *)
(* snapshot of them, and those that a terminal has written, which must be  *)
(* complete only together with the committed rows, when they are           *)
(* committed.  What keeps the other terminals from spoiling them is the    *)
(* exclusive lock of the district.  The second one says that a Delivery    *)
(* takes the oldest order: what it sees in its snapshot is no newer than   *)
(* the committed rows, and the lock of the row keeps the others from       *)
(* taking the order before it commits.  The third one is about the money of*)
(* Payments: the warehouse, its districts and the history agree in the     *)
(* committed rows, and each terminal has written, for each of them, the    *)
(* committed sum and the amount of the Payment that it is running.         *)
(* The stocks agree with the order lines, because New Order writes both    *)
(* under the lock of the stock row; and a customer's balance agrees with   *)
(* the orders delivered to him and the Payments he made, unless a second   *)
(* Delivery credited him for one order: each terminal has credited what its*)
(* snapshot held, which is what the committed rows hold of it, and the lock*)
(* of the customer's row keeps what the others add apart.                  *)
(***************************************************************************)
EXTENDS TpccTransactions, FiniteSetTheorems, SequenceTheorems, WellFoundedInduction, TLAPS

-----------------------------------------------------------------------------
(* Numbers and sorting.                                                    *)

\* A set of numbers that is not empty has a smallest one.
LEMMA NatMin ==
    ASSUME NEW T, T \subseteq Nat, T # {}
    PROVE  \E x \in T : \A y \in T : x <= y
<1> DEFINE R == OpToRel(<, Nat)
<1>1. IsWellFoundedOn(R, Nat)
  BY NatLessThanWellFounded, Zenon
<1>2. \A x, y \in Nat : <<x, y>> \in R <=> x < y
  BY DEF OpToRel
<1>3. \E x \in T : \A y \in T : ~ (<<y, x>> \in R)
  <2> HIDE DEF R
  <2> QED BY ONLY <1>1, T \subseteq Nat, T # {}, WFMin
<1>4. \E x \in T : \A y \in T : ~ (y < x)
  <2> HIDE DEF R
  <2> QED BY <1>3, <1>2
<1> QED BY <1>4

\* One of n numbers is the largest.
LEMMA LargestPlace ==
    ASSUME NEW n \in Nat \ {0}, NEW w \in [1..n -> Int]
    PROVE  \E j \in 1..n : \A i \in 1..n : w[i] <= w[j]
<1> DEFINE Largest(m) == \E j \in 1..m : \A i \in 1..m : w[i] <= w[j]
           Bad == {m \in 1..n : ~Largest(m)}
<1>1. ASSUME NEW m \in 1..n, m # 1, Largest(m - 1)
      PROVE  Largest(m)
  <2>1. PICK j \in 1..m - 1 : \A i \in 1..m - 1 : w[i] <= w[j]
    BY <1>1
  <2>2. w[m] \in Int /\ w[j] \in Int /\ j \in 1..m /\ m \in 1..m /\ \A i \in 1..m - 1 : w[i] \in Int
    BY <2>1
  <2>3. CASE w[m] <= w[j]
    BY <2>1, <2>2, <2>3
  <2>4. CASE w[j] < w[m]
    <3>1. \A i \in 1..m : w[i] <= w[m]
      BY <2>1, <2>2, <2>4
    <3> QED BY <3>1, <2>2
  <2> QED BY <2>2, <2>3, <2>4
<1>2. Largest(1)
  OBVIOUS
<1> HIDE DEF Largest
<1>3. Bad = {}
  <2> SUFFICES ASSUME Bad # {} PROVE FALSE
    OBVIOUS
  <2>1. Bad \subseteq Nat
    OBVIOUS
  <2>2. PICK m \in Bad : \A k \in Bad : m <= k
    BY <2>1, NatMin
  <2>3. m \in 1..n /\ m # 1
    BY <2>2, <1>2
  <2>4. m - 1 \in 1..n /\ m - 1 \notin Bad
    BY <2>2, <2>3
  <2> QED BY <2>2, <2>3, <2>4, <1>1
<1>4. Largest(n)
  BY <1>3
<1> QED BY <1>4 DEF Largest

\* A function on a finite set takes its largest value somewhere.
LEMMA FiniteMax ==
    ASSUME NEW T, IsFiniteSet(T), T # {}, NEW v \in [T -> Int]
    PROVE  \E x \in T : \A y \in T : v[y] <= v[x]
<1>1. PICK n \in Nat : \E f : f \in Surjection(1..n, T)
  BY FS_NatSurjection DEF ExistsSurjection
<1>2. PICK f \in [1..n -> T] : \A y \in T : \E i \in 1..n : f[i] = y
  BY <1>1 DEF Surjection
<1>3. n \in Nat \ {0}
  BY <1>1, <1>2
<1> DEFINE w == [i \in 1..n |-> v[f[i]]]
<1>4. w \in [1..n -> Int]
  BY <1>2
<1>5. PICK j \in 1..n : \A i \in 1..n : w[i] <= w[j]
  <2> HIDE DEF w
  <2> QED BY <1>3, <1>4, LargestPlace
<1> QED BY <1>2, <1>5

\* The places of any n numbers can be put in the order of the numbers: the
\* largest is inserted last, by the smallest n for which it would fail.
LEMMA SortingExists ==
    ASSUME NEW n \in Nat, NEW v \in [1..n -> Int]
    PROVE  \E p \in Bijection(1..n, 1..n) : \A i, j \in 1..n : i < j => v[p[i]] <= v[p[j]]
<1> DEFINE Sorts(p, m) == /\ p \in [1..m -> 1..m]
                          /\ \A i, j \in 1..m : i < j => p[i] # p[j] /\ v[p[i]] <= v[p[j]]
                          /\ \A k \in 1..m : \E i \in 1..m : p[i] = k
           Bad == {m \in 1..n : ~\E p : Sorts(p, m)}
<1>1. ASSUME NEW m \in 1..n, m # 1, NEW p, Sorts(p, m - 1)
      PROVE  \E q : Sorts(q, m)
  <2>a. /\ p \in [1..m - 1 -> 1..m - 1]
        /\ \A i, j \in 1..m - 1 : i < j => p[i] # p[j] /\ v[p[i]] <= v[p[j]]
        /\ \A k \in 1..m - 1 : \E i \in 1..m - 1 : p[i] = k
    BY <1>1
  <2> HIDE DEF Sorts
  <2>b. \A i \in 1..m - 1 : p[i] \in 1..m - 1 /\ p[i] \in 1..n /\ p[i] # m /\ p[i] \in 1..m
    <3> TAKE i \in 1..m - 1
    <3>1. p[i] \in 1..m - 1
      BY <2>a
    <3> QED BY <3>1, <1>1
  <2>c. \A i \in 1..m - 1 : v[p[i]] \in Int
    BY <2>b
  <2>d. m \in 1..n /\ v[m] \in Int
    BY <1>1
  <2>0. /\ \A i \in 1..m - 1 : p[i] # m /\ p[i] \in 1..m /\ v[p[i]] \in Int
        /\ \A i, j \in 1..m - 1 : i < j => p[i] # p[j] /\ v[p[i]] <= v[p[j]]
        /\ \A k \in 1..m - 1 : \E i \in 1..m - 1 : p[i] = k
        /\ m \in 1..n /\ v[m] \in Int
    BY <2>a, <2>b, <2>c, <2>d
  <2> DEFINE K == {i \in 1..m : i # m => v[m] < v[p[i]]}
  <2>1. K \subseteq Nat /\ m \in K
    OBVIOUS
  <2>2. PICK k \in K : \A i \in K : k <= i
    BY <2>1, NatMin
  <2>3. k \in 1..m /\ \A i \in 1..k - 1 : v[p[i]] <= v[m]
    <3>1. \A i \in 1..k - 1 : i \in 1..m - 1 /\ i \notin K
      BY <2>2
    <3>2. \A i \in 1..m - 1 : v[p[i]] \in Int /\ v[m] \in Int
      BY <2>0
    <3> QED BY <3>1, <3>2, <2>2
  <2>4. \A i \in k..m - 1 : v[m] <= v[p[i]]
    <3>1. \A i \in 1..m - 1 : v[p[i]] \in Int /\ v[m] \in Int
      BY <2>0
    <3> TAKE i \in k..m - 1
    <3>2. k \in 1..m - 1 /\ v[m] < v[p[k]]
      BY <2>2
    <3>4. i \in 1..m - 1 /\ (k = i \/ k < i)
      BY <3>2
    <3>3. k = i \/ v[p[k]] <= v[p[i]]
      BY <3>2, <3>4, <2>0
    <3> QED BY <3>1, <3>2, <3>3, <3>4
  <2> DEFINE q == [i \in 1..m |-> IF i < k THEN p[i] ELSE IF i = k THEN m ELSE p[i - 1]]
  <2>5. q \in [1..m -> 1..m]
    <3> SUFFICES ASSUME NEW i \in 1..m PROVE q[i] \in 1..m
      OBVIOUS
    <3>1. CASE i < k
      <4>1. i \in 1..m - 1
        BY <3>1, <2>3
      <4> QED BY <4>1, <3>1, <2>0
    <3>2. CASE i = k
      BY <3>2
    <3>3. CASE i > k
      <4>1. i - 1 \in 1..m - 1
        BY <3>3, <2>3
      <4>2. q[i] = p[i - 1]
        BY <3>3, <2>3
      <4> QED BY <4>1, <4>2, <2>0
    <3> QED BY <3>1, <3>2, <3>3, <2>3
  <2>6. ASSUME NEW i \in 1..m, NEW j \in 1..m, i < j
        PROVE  q[i] # q[j] /\ v[q[i]] <= v[q[j]]
    <3>1. CASE j < k
      <4>1. q[i] = p[i] /\ q[j] = p[j] /\ i \in 1..m - 1 /\ j \in 1..m - 1
        BY <3>1, <2>3, <2>6
      <4> QED BY <4>1, <2>0, <2>6
    <3>2. CASE j = k
      <4>1. q[i] = p[i] /\ q[j] = m /\ i \in 1..k - 1 /\ i \in 1..m - 1
        BY <3>2, <2>3, <2>6
      <4>2. p[i] # m /\ v[p[i]] <= v[m]
        BY <4>1, <2>0, <2>3
      <4> QED BY <4>1, <4>2
    <3>3. CASE i = k
      <4>1. q[i] = m /\ q[j] = p[j - 1] /\ j - 1 \in k..m - 1 /\ j - 1 \in 1..m - 1
        BY <3>3, <2>3, <2>6
      <4>2. p[j - 1] # m /\ v[m] <= v[p[j - 1]]
        BY <4>1, <2>0, <2>4
      <4> QED BY <4>1, <4>2
    <3>4. CASE i < k /\ k < j
      <4>1. q[i] = p[i] /\ q[j] = p[j - 1] /\ i \in 1..m - 1 /\ j - 1 \in 1..m - 1 /\ i < j - 1
        BY <3>4, <2>3, <2>6
      <4> QED BY <4>1, <2>0
    <3>5. CASE k < i
      <4>1. q[i] = p[i - 1] /\ q[j] = p[j - 1] /\ i - 1 \in 1..m - 1 /\ j - 1 \in 1..m - 1 /\ i - 1 < j - 1
        BY <3>5, <2>3, <2>6
      <4>2. p[i - 1] # p[j - 1] /\ v[p[i - 1]] <= v[p[j - 1]]
        BY <4>1, <2>0
      <4> QED BY <4>1, <4>2
    <3> QED BY <3>1, <3>2, <3>3, <3>4, <3>5, <2>3, <2>6
  <2>7. ASSUME NEW x \in 1..m
        PROVE  \E i \in 1..m : q[i] = x
    <3>1. CASE x = m
      BY <3>1, <2>3
    <3>2. CASE x # m
      <4>0. x \in 1..m - 1
        BY <3>2
      <4>1. PICK i \in 1..m - 1 : p[i] = x
        BY <4>0, <2>0
      <4>2. CASE i < k
        BY <4>1, <4>2
      <4>3. CASE i >= k
        <5>1. i + 1 \in 1..m /\ q[i + 1] = p[i]
          BY <4>1, <4>3, <2>3
        <5> QED BY <5>1, <4>1
      <4> QED BY <4>1, <4>2, <4>3, <2>3
    <3> QED BY <3>1, <3>2
  <2> HIDE DEF q
  <2>8. Sorts(q, m)
    BY <2>5, <2>6, <2>7 DEF Sorts
  <2> QED BY <2>8
<1>2. Bad = {}
  <2>2. Sorts([i \in 1..1 |-> 1], 1)
    OBVIOUS
  <2> HIDE DEF Sorts
  <2> SUFFICES ASSUME Bad # {} PROVE FALSE
    OBVIOUS
  <2>0. Bad \subseteq Nat
    OBVIOUS
  <2>1. PICK m \in Bad : \A k \in Bad : m <= k
    BY <2>0, NatMin
  <2>3. m \in 1..n /\ m # 1
    BY <2>1, <2>2
  <2>4. m - 1 \in 1..n /\ m - 1 \notin Bad
    BY <2>1, <2>3
  <2> QED BY <2>1, <2>3, <2>4, <1>1
<1>3. \E p : Sorts(p, n)
  <2>1. CASE n = 0
    <3>1. Sorts([i \in 1..0 |-> 0], 0)
      OBVIOUS
    <3> QED BY <3>1, <2>1
  <2>2. CASE n # 0
    <3>1. n \in 1..n
      BY <2>2
    <3> QED BY <3>1, <1>2
  <2> QED BY <2>1, <2>2
<1>4. PICK p : Sorts(p, n)
  BY <1>3
<1>5. p \in Bijection(1..n, 1..n)
  <2>1. \A i, j \in 1..n : p[i] = p[j] => i = j
    BY <1>4
  <2> QED BY <1>4, <2>1 DEF Bijection, Injection, Surjection, IsInjective
<1> QED BY <1>4, <1>5

-----------------------------------------------------------------------------
(* The ranks of order lines.                                               *)

Line == [item : Int, supply : Warehouses, qty : 1..10]

\* What the assumption says of the constants that locks depend on.
LEMMA Constants ==
    /\ Warehouses \subseteq Nat \ {0} /\ Items \subseteq 1..MAXITEMS
    /\ MAXITEMS \in Nat /\ DIST_PER_WARE \in Nat \ {0}
    /\ MaxTransactions \in Nat /\ MaxFailures \in Nat
    BY TpccAssumption

\* The fields of an order line have their types, the item of a line also when
\* it does not exist.
LEMMA LineFields ==
    ASSUME NEW l \in Line
    PROVE  l.supply \in Warehouses /\ l.supply \in Nat /\ l.item \in Int
<1>1. l.supply \in Warehouses /\ l.item \in Int
  BY DEF Line
<1>2. \A w \in Warehouses : w \in Nat
  BY Constants
<1> QED BY <1>1, <1>2

\* The rank of a line is a number.
LEMMA RankType == ASSUME NEW l \in Line PROVE rank(l) \in Int
<1>1. l.supply \in Nat /\ l.item \in Int /\ MAXITEMS + 1 \in Nat
  BY Constants, LineFields
<1>2. (MAXITEMS + 1) * l.supply \in Nat
  BY <1>1
<1> QED BY <1>1, <1>2 DEF rank

\* sortedLines returns as many lines as it is given, in the order of their
\* ranks.
LEMMA SortedLines ==
    ASSUME NEW lines \in Seq(Line) \ {<<>>}
    PROVE  /\ sortedLines(lines) \in Seq(Line)
           /\ Len(sortedLines(lines)) = Len(lines)
           /\ Len(lines) \in Nat \ {0}
           /\ \A i, j \in 1..Len(lines) : i < j => rank(sortedLines(lines)[i]) <= rank(sortedLines(lines)[j])
<1> DEFINE n == Len(lines)
           v == [i \in 1..n |-> rank(lines[i])]
           A == {[i \in DOMAIN lines |-> lines[p[i]]] : p \in Bijection(DOMAIN lines, DOMAIN lines)}
           Sorted(s) == \A i, j \in DOMAIN lines : i < j => rank(s[i]) <= rank(s[j])
<1>1. n \in Nat \ {0} /\ DOMAIN lines = 1..n /\ \A i \in 1..n : lines[i] \in Line
  OBVIOUS
<1>2. v \in [1..n -> Int]
  BY <1>1, RankType
<1>3. PICK p \in Bijection(1..n, 1..n) : \A i, j \in 1..n : i < j => v[p[i]] <= v[p[j]]
  <2> HIDE DEF v, n
  <2> QED BY <1>1, <1>2, SortingExists
<1>4. p \in [1..n -> 1..n]
  BY DEF Bijection, Injection
<1>5. \E s \in A : Sorted(s)
  <2> DEFINE s == [i \in DOMAIN lines |-> lines[p[i]]]
  <2>1. s \in A
    BY <1>1
  <2>2. \A i \in 1..n : p[i] \in 1..n /\ s[i] = lines[p[i]]
    BY <1>1, <1>4
  <2>3. \A i \in 1..n : v[p[i]] = rank(lines[p[i]])
    BY <2>2
  <2>5. \A i \in 1..n : rank(s[i]) = v[p[i]]
    BY <2>2, <2>3
  <2> HIDE DEF A, s, v, n
  <2>4. Sorted(s)
    BY <1>1, <1>3, <2>5
  <2> QED BY <2>1, <2>4
<1>6. sortedLines(lines) = CHOOSE s \in A : Sorted(s)
  BY DEF sortedLines
<1>7. sortedLines(lines) \in A /\ Sorted(sortedLines(lines))
  <2> HIDE DEF A, Sorted
  <2> QED BY <1>5, <1>6
<1>8. PICK q \in Bijection(1..n, 1..n) : sortedLines(lines) = [i \in 1..n |-> lines[q[i]]]
  BY <1>1, <1>7
<1>9. q \in [1..n -> 1..n]
  BY DEF Bijection, Injection
<1>10. sortedLines(lines) \in [1..n -> Line]
  BY <1>1, <1>8, <1>9
<1> HIDE DEF n
<1>11. sortedLines(lines) \in Seq(Line) /\ Len(sortedLines(lines)) = n
  BY <1>1, <1>10
<1> QED BY <1>1, <1>7, <1>11 DEF n

\* Multiples of m are at least m apart.
LEMMA Multiples ==
    ASSUME NEW m \in Nat, NEW a \in Nat, NEW b \in Nat, a < b
    PROVE  m * a + m <= m * b
<1>1. PICK d \in Nat : b = a + 1 + d
  <2>1. b - a - 1 \in Nat /\ b = a + 1 + (b - a - 1)
    OBVIOUS
  <2> QED BY <2>1
<1>2. m * (a + 1 + d) = m * a + m + m * d /\ m * a \in Nat /\ m * d \in Nat
  OBVIOUS
<1> QED BY <1>1, <1>2

\* Existing lines of one rank are of the same warehouse and the same item, so
\* that their stock is the same row.
LEMMA RankIsUnique ==
    ASSUME NEW k \in Line, NEW l \in Line, k.item \in Items, l.item \in Items, rank(k) = rank(l)
    PROVE  k.supply = l.supply /\ k.item = l.item
<1> DEFINE m == MAXITEMS + 1
<1>1. /\ m \in Nat /\ k.supply \in Nat /\ l.supply \in Nat
      /\ k.item \in 1..m - 1 /\ l.item \in 1..m - 1
  <2>1. \A i \in Items : i \in 1..MAXITEMS
    BY Constants
  <2> QED BY <2>1, Constants, LineFields
<1>2. m * k.supply + k.item = m * l.supply + l.item
  BY DEF rank
<1> HIDE DEF m
<1>3. m * k.supply \in Nat /\ m * l.supply \in Nat
  BY <1>1
<1>4. ~ (k.supply < l.supply)
  <2>1. k.supply < l.supply => m * k.supply + m <= m * l.supply
    BY <1>1, Multiples
  <2> QED BY <2>1, <1>1, <1>2, <1>3
<1>5. ~ (l.supply < k.supply)
  <2>1. l.supply < k.supply => m * l.supply + m <= m * k.supply
    BY <1>1, Multiples
  <2> QED BY <2>1, <1>1, <1>2, <1>3
<1>6. k.supply = l.supply
  BY <1>1, <1>4, <1>5
<1> QED BY <1>1, <1>2, <1>3, <1>6

-----------------------------------------------------------------------------
(* The inductive invariant.                                                *)

IsFcn(f) == f = [t \in Terminals |-> f[t]]

\* What a terminal does fits its call and its local variables.
Doing(t) ==
    /\ pc[t] \in Labels /\ tx[t] \in Calls \cup {NoCall}
    /\ pc[t] # "idle" => tx[t] \in Calls
    /\ pc[t] \in {"district", "order", "line"}        => tx[t] \in NewOrderCall
    /\ pc[t] \in {"warehouse", "payment", "customer"} => tx[t] \in PaymentCall
    /\ pc[t] \in {"oldest", "delete", "carrier", "credit"} =>
           tx[t] \in DeliveryCall /\ loc[t].d \in Districts
    /\ pc[t] \in {"status", "lines"} => tx[t] \in OrderStatCall
    /\ pc[t] \in {"level", "count"}  => tx[t] \in SlevCall
    /\ pc[t] \in {"district", "order"} => loc[t].n = 1
    /\ pc[t] = "line" => loc[t].lines = sortedLines(tx[t].lines) /\ loc[t].n \in 1..Len(loc[t].lines)
    /\ DOMAIN loc[t] = DOMAIN NoLocals

TypeInv ==
    /\ IsFcn(pc) /\ IsFcn(tx) /\ IsFcn(loc) /\ IsFcn(work) /\ IsFcn(snap) /\ IsFcn(held)
    /\ started \in 0..MaxTransactions /\ failures \in 0..MaxFailures
    /\ \A t \in Terminals :
           /\ Doing(t)
           /\ \A k \in held[t] : k = <<k[1], k[2]>> /\ k[2] \in {"S", "X"}
           /\ pc[t] = "idle" => work[t] = NoRows /\ held[t] = {} /\ snap[t] = NoRows

FirstStock == 3 * DIST_PER_WARE + 3

\* The order in which all five transactions take their locks: warehouse,
\* district, then district by district new order, order and customer, then
\* the stocks as sortedLines has them.
Rank(key) ==
    CASE key[1] = "warehouse"  -> 0
      [] key[1] = "district"   -> 1
      [] key[1] = "new_orders" -> 3 * key[3]
      [] key[1] = "orders"     -> 3 * key[3] + 1
      [] key[1] = "order_line" -> 3 * key[3] + 1
      [] key[1] = "customer"   -> 3 * key[3] + 2
      [] key[1] = "stock"      -> FirstStock + rank([item |-> key[3], supply |-> key[2]])
      [] OTHER                 -> 0

\* The locks of t have ranks below r.
Below(t, r) == \A k \in held[t] : Rank(k[1]) \in Int /\ Rank(k[1]) < r

StockOf(ol) == Stock(ol.supply, ol.item)

InOrder(t) ==
    /\ pc[t] \in {"idle", "district", "warehouse", "status", "lines", "level", "count"} => held[t] = {}
    /\ pc[t] = "payment" => Below(t, 1)
    /\ pc[t] \in {"order", "customer"} => Below(t, 2)
    /\ pc[t] \in {"oldest", "delete"} => Below(t, 3 * loc[t].d)
    /\ pc[t] = "carrier" => Below(t, 3 * loc[t].d + 1)
    /\ pc[t] = "credit" => Below(t, 3 * loc[t].d + 2)
    /\ pc[t] = "line" =>
           \A k \in held[t] :
               \/ Rank(k[1]) \in Int /\ Rank(k[1]) < FirstStock
               \/ \E i \in 1..loc[t].n - 1 : k = X(StockOf(loc[t].lines[i]))

ItemsExist(t) == \A k \in held[t] : k[1][1] = "stock" => k[1][3] \in Items

Exclusive ==
    \A t, u \in Terminals : t # u => \A k \in held[t], l \in held[u] : ~Conflict(k, l)

LockInv == Exclusive /\ \A t \in Terminals : InOrder(t) /\ ItemsExist(t)

IInv == TypeInv /\ LockInv

-----------------------------------------------------------------------------
(* What all steps have in common.                                          *)

Step(t) ==
    \/ \E call \in Calls : Begin(t, call)
    \/ Statement(t) \/ CommitFails(t) \/ Fail(t)

\* A step of t leaves alone what belongs to the other terminals.
Apart(t) ==
    /\ IsFcn(pc)' /\ IsFcn(tx)' /\ IsFcn(loc)' /\ IsFcn(work)' /\ IsFcn(snap)' /\ IsFcn(held)'
    /\ \A u \in Terminals : u # t =>
           /\ pc'[u] = pc[u] /\ tx'[u] = tx[u] /\ loc'[u] = loc[u]
           /\ work'[u] = work[u] /\ snap'[u] = snap[u] /\ held'[u] = held[u]

\* A step of t touches no variable of another terminal.
LEMMA StepIsApart ==
    ASSUME TypeInv, NEW t \in Terminals, Step(t)
    PROVE  Apart(t)
<1> USE DEF IsFcn
<1>0. IsFcn(pc) /\ IsFcn(tx) /\ IsFcn(loc) /\ IsFcn(work) /\ IsFcn(snap) /\ IsFcn(held)
  BY DEF TypeInv
<1>1. ASSUME NEW call \in Calls, Begin(t, call)
      PROVE  Apart(t)
  BY <1>0, <1>1 DEF Begin, Apart, goto, set
<1>2. CASE TakeOrderNumber(t)
  BY <1>0, <1>2
     DEF TakeOrderNumber, Apart, goto, set, Update, Acquire, Write,
         bookkeeping
<1>3. CASE InsertOrder(t)
  BY <1>0, <1>3 DEF InsertOrder, Apart, goto, set, Update, Acquire, Write, bookkeeping
<1>4. CASE OrderLine(t)
  BY <1>0, <1>4 DEF OrderLine, Apart, goto, set, Update, Acquire, Write, bookkeeping
<1>5. CASE NoItem(t)
  BY <1>0, <1>5 DEF NoItem, Apart, goto, rollback, Release, bookkeeping
<1>6. CASE PayWarehouse(t)
  BY <1>0, <1>6
     DEF PayWarehouse, Apart, goto, set, Update, Acquire, Write, bookkeeping
<1>7. CASE PayDistrict(t)
  BY <1>0, <1>7 DEF PayDistrict, Apart, goto, set, Update, Acquire, Write, bookkeeping
<1>8. CASE PayCustomer(t)
  BY <1>0, <1>8 DEF PayCustomer, Apart, goto, set, Update, Acquire, Write, bookkeeping
<1>9. CASE FindOldest(t)
  BY <1>0, <1>9
     DEF FindOldest, nextDistrict, Apart, goto, set, Select, TakeSnapshot,
         bookkeeping
<1>10. CASE DeleteNewOrder(t)
  BY <1>0, <1>10
     DEF DeleteNewOrder, Apart, goto, set, Update, Acquire, Write, bookkeeping
<1>11. CASE SetCarrier(t)
  BY <1>0, <1>11 DEF SetCarrier, Apart, goto, set, Update, Acquire, Write, bookkeeping
<1>12. CASE CreditCustomer(t)
  BY <1>0, <1>12
     DEF CreditCustomer, nextDistrict, Apart, goto, set, Update, Acquire,
         Write, bookkeeping
<1>13. CASE FindOrder(t)
  BY <1>0, <1>13 DEF FindOrder, Apart, goto, set, Select, TakeSnapshot, bookkeeping
<1>14. CASE ReadLines(t)
  BY <1>0, <1>14 DEF ReadLines, Apart, goto, set, Select, TakeSnapshot, bookkeeping
<1>15. CASE ReadLevel(t)
  BY <1>0, <1>15 DEF ReadLevel, Apart, goto, set, Select, TakeSnapshot, bookkeeping
<1>16. CASE CountStock(t)
  BY <1>0, <1>16 DEF CountStock, Apart, goto, set, Select, TakeSnapshot, bookkeeping
<1>17. CASE Commit(t)
  BY <1>0, <1>17 DEF Commit, Apart, goto, commit, Release, bookkeeping
<1>18. CASE CommitFails(t)
  BY <1>0, <1>18 DEF CommitFails, Apart, goto, commit, rollback, Release
<1>19. CASE Fail(t)
  BY <1>0, <1>19 DEF Fail, Apart, goto, set, rollback, Release
<1> QED BY <1>1, <1>2, <1>3, <1>4, <1>5, <1>6, <1>7, <1>8, <1>9, <1>10, <1>11, <1>12, <1>13, <1>14,
           <1>15, <1>16, <1>17, <1>18, <1>19 DEF Step, Statement

-----------------------------------------------------------------------------
(* Statements and locks.                                                   *)

\* A call begins with the first statement of its kind.
LEMMA FirstStatement ==
    ASSUME NEW call \in Calls
    PROVE  \/ call \in NewOrderCall /\ firstStatement(call) = "district"
           \/ call \in PaymentCall /\ firstStatement(call) = "warehouse"
           \/ call \in OrderStatCall /\ firstStatement(call) = "status"
           \/ call \in DeliveryCall /\ firstStatement(call) = "oldest"
           \/ call \in SlevCall /\ firstStatement(call) = "level"
<1>1. \/ call \in NewOrderCall \/ call \in PaymentCall \/ call \in OrderStatCall
      \/ call \in DeliveryCall \/ call \in SlevCall
  BY TpccAssumption
<1>2. CASE call \in NewOrderCall
  BY <1>2 DEF NewOrderCall, firstStatement
<1>3. CASE call \in PaymentCall
  BY <1>3 DEF PaymentCall, firstStatement
<1>4. CASE call \in OrderStatCall
  BY <1>4 DEF OrderStatCall, firstStatement
<1>5. CASE call \in DeliveryCall
  BY <1>5 DEF DeliveryCall, firstStatement
<1>6. CASE call \in SlevCall
  BY <1>6 DEF SlevCall, firstStatement
<1> QED BY <1>1, <1>2, <1>3, <1>4, <1>5, <1>6

\* What each statement locks.
LEMMA Requests ==
    ASSUME NEW t \in Terminals
    PROVE  /\ pc[t] = "district"  => requests(t) = {X(District(tx[t].w, tx[t].d))}
           /\ pc[t] = "order"     => requests(t) = {S(Customer(tx[t].w, tx[t].d, tx[t].c))}
           /\ pc[t] = "line"      => requests(t) = {X(StockOf(loc[t].lines[loc[t].n]))}
           /\ pc[t] = "warehouse" => requests(t) = {X(Warehouse(tx[t].w))}
           /\ pc[t] = "payment"   => requests(t) = {X(District(tx[t].w, tx[t].d))}
           /\ pc[t] = "customer"  => requests(t) = {X(Customer(tx[t].c_w, tx[t].c_d, loc[t].c))}
           /\ pc[t] = "delete"    => requests(t) \subseteq {X(NewOrderRow(tx[t].w, loc[t].d, loc[t].o))}
           /\ pc[t] = "carrier"   => requests(t) = {X(Order(tx[t].w, loc[t].d, loc[t].o)),
                                                    X(OrderLines(tx[t].w, loc[t].d, loc[t].o))}
           /\ pc[t] = "credit"    => requests(t) = {X(Customer(tx[t].w, loc[t].d, loc[t].c))}
           /\ pc[t] \notin {"district", "order", "line", "warehouse", "payment", "customer", "delete",
                            "carrier", "credit"} => requests(t) = {}
    BY DEF requests, at, StockOf

IsLock(k) == k = <<k[1], k[2]>> /\ k[2] \in {"S", "X"}

\* What a statement requests are shared or exclusive locks.
LEMMA RequestsAreLocks ==
    ASSUME NEW t \in Terminals, NEW r \in requests(t)
    PROVE  IsLock(r)
    BY DEF requests, at, X, S, IsLock

\* The ranks of the rows.
LEMMA Ranks ==
    /\ \A w : Rank(Warehouse(w)) = 0
    /\ \A w, d : Rank(District(w, d)) = 1
    /\ \A w, d, o : Rank(NewOrderRow(w, d, o)) = 3 * d
    /\ \A w, d, o : Rank(Order(w, d, o)) = 3 * d + 1
    /\ \A w, d, o : Rank(OrderLines(w, d, o)) = 3 * d + 1
    /\ \A w, d, c : Rank(Customer(w, d, c)) = 3 * d + 2
    /\ \A w, i : Rank(Stock(w, i)) = FirstStock + rank([item |-> i, supply |-> w])
<1>1. \A w : Rank(Warehouse(w)) = 0
  BY DEF Rank, Warehouse
<1>2. \A w, d : Rank(District(w, d)) = 1
  BY DEF Rank, District
<1>3. \A w, d, o : Rank(NewOrderRow(w, d, o)) = 3 * d
  BY DEF Rank, NewOrderRow
<1>4. \A w, d, o : Rank(Order(w, d, o)) = 3 * d + 1
  BY DEF Rank, Order
<1>5. \A w, d, o : Rank(OrderLines(w, d, o)) = 3 * d + 1
  BY DEF Rank, OrderLines
<1>6. \A w, d, c : Rank(Customer(w, d, c)) = 3 * d + 2
  BY DEF Rank, Customer
<1>7. \A w, i : Rank(Stock(w, i)) = FirstStock + rank([item |-> i, supply |-> w])
  BY DEF Rank, Stock
<1> QED BY <1>1, <1>2, <1>3, <1>4, <1>5, <1>6, <1>7

\* A step gets the locks it waits for, keeps those it has, or ends the transaction.
Released(t) == held'[t] = {} /\ work'[t] = NoRows /\ snap'[t] = NoRows
Acquired(t) ==
    /\ \A u \in Terminals : ~Blocks(u, t, requests(t))
    /\ held'[t] = held[t] \cup requests(t)

\* A step gets the locks it waits for, keeps those it has, or ends the
\* transaction and gives all of them back.
LEMMA HeldStep ==
    ASSUME TypeInv, NEW t \in Terminals, Step(t)
    PROVE  /\ Acquired(t) \/ Released(t) \/ held'[t] = held[t]
           /\ pc'[t] = "idle" => Released(t)
<1> USE DEF IsFcn
<1>0. IsFcn(pc) /\ IsFcn(work) /\ IsFcn(snap) /\ IsFcn(held)
  BY DEF TypeInv
<1>1. ASSUME NEW call \in Calls, Begin(t, call)
      PROVE  held'[t] = held[t] /\ pc'[t] # "idle"
  BY <1>0, <1>1, FirstStatement DEF Begin, goto
<1>2. ASSUME NEW label, Update(t, label)
      PROVE  Acquired(t)
  BY <1>0, <1>2 DEF Update, Acquire, Acquired
<1>3. ASSUME NEW label, Select(t, label)
      PROVE  held'[t] = held[t]
  BY <1>0, <1>3 DEF Select
<1>4. ASSUME rollback(t) \/ commit(t)
      PROVE  Released(t)
  BY <1>0, <1>4 DEF rollback, commit, Release, Released
<1>5. CASE TakeOrderNumber(t)
  BY <1>0, <1>2, <1>5 DEF TakeOrderNumber, goto
<1>6. CASE InsertOrder(t)
  BY <1>0, <1>2, <1>6 DEF InsertOrder, goto
<1>7. CASE OrderLine(t)
  BY <1>0, <1>2, <1>7 DEF OrderLine, goto
<1>8. CASE NoItem(t)
  BY <1>0, <1>4, <1>8 DEF NoItem
<1>9. CASE PayWarehouse(t)
  BY <1>0, <1>2, <1>9 DEF PayWarehouse, goto
<1>10. CASE PayDistrict(t)
  BY <1>0, <1>2, <1>10 DEF PayDistrict, goto
<1>11. CASE PayCustomer(t)
  BY <1>0, <1>2, <1>11 DEF PayCustomer, goto
<1>12. CASE FindOldest(t)
  BY <1>0, <1>3, <1>12 DEF FindOldest, nextDistrict, goto
<1>13. CASE DeleteNewOrder(t)
  BY <1>0, <1>2, <1>13 DEF DeleteNewOrder, goto
<1>14. CASE SetCarrier(t)
  BY <1>0, <1>2, <1>14 DEF SetCarrier, goto
<1>15. CASE CreditCustomer(t)
  BY <1>0, <1>2, <1>15 DEF CreditCustomer, nextDistrict, goto
<1>16. CASE FindOrder(t)
  BY <1>0, <1>3, <1>16 DEF FindOrder, goto
<1>17. CASE ReadLines(t)
  BY <1>0, <1>3, <1>17 DEF ReadLines, goto
<1>18. CASE ReadLevel(t)
  BY <1>0, <1>3, <1>18 DEF ReadLevel, goto
<1>19. CASE CountStock(t)
  BY <1>0, <1>3, <1>19 DEF CountStock, goto
<1>20. CASE Commit(t)
  BY <1>4, <1>20 DEF Commit
<1>21. CASE CommitFails(t)
  BY <1>4, <1>21 DEF CommitFails
<1>22. CASE Fail(t)
  BY <1>4, <1>22 DEF Fail
<1> QED BY <1>1, <1>5, <1>6, <1>7, <1>8, <1>9, <1>10, <1>11, <1>12, <1>13, <1>14, <1>15, <1>16, <1>17,
           <1>18, <1>19, <1>20, <1>21, <1>22 DEF Step, Statement

Fields == {"no", "o", "d", "c", "n", "lines", "order"}

\* After its step t is at a statement of its call, with the locals that the
\* statement needs.
LEMMA DoingStep ==
    ASSUME TypeInv, NEW t \in Terminals, Step(t)
    PROVE  Doing(t)'
<1> USE DEF IsFcn, at, goto, set, bookkeeping, Labels, Districts
<1>0. IsFcn(pc) /\ IsFcn(tx) /\ IsFcn(loc) /\ Doing(t)
  BY DEF TypeInv
<1>a. DOMAIN NoLocals = Fields /\ NoLocals.d = 1 /\ NoLocals.n = 1
  BY DEF NoLocals, Fields
<1>b. DIST_PER_WARE \in Nat \ {0}
  BY Constants
<1>1. ASSUME NEW call \in Calls, Begin(t, call)
      PROVE  Doing(t)'
  BY <1>0, <1>a, <1>b, <1>1, FirstStatement DEF Begin, Doing, Fields
<1>5. CASE TakeOrderNumber(t)
  BY <1>0, <1>a, <1>5 DEF TakeOrderNumber, Update, Doing, Fields
<1>6. CASE InsertOrder(t)
  <2>1. tx[t] \in NewOrderCall /\ tx'[t] = tx[t] /\ pc'[t] = "line"
    BY <1>0, <1>6 DEF InsertOrder, Update, Doing
  <2>2. Len(sortedLines(tx[t].lines)) \in Nat \ {0}
    BY <2>1, SortedLines DEF NewOrderCall, Line
  <2>3. loc'[t].lines = sortedLines(tx[t].lines) /\ DOMAIN loc'[t] = Fields /\ loc'[t].n = 1
    BY <1>0, <1>a, <1>6 DEF InsertOrder, Update, Doing, Fields
  <2>4. 1 \in 1..Len(sortedLines(tx[t].lines))
    BY <2>2
  <2>5. tx[t] \in Calls
    BY <1>0, <1>6 DEF InsertOrder, Update, Doing
  <2> QED BY <1>a, <2>1, <2>3, <2>4, <2>5 DEF Doing
<1>7. CASE OrderLine(t)
  BY <1>0, <1>a, <1>7 DEF OrderLine, Update, Doing, Fields
<1>8. CASE NoItem(t)
  BY <1>0, <1>a, <1>8 DEF NoItem, Doing, Fields
<1>9. CASE PayWarehouse(t)
  BY <1>0, <1>a, <1>9 DEF PayWarehouse, Update, Doing, Fields
<1>10. CASE PayDistrict(t)
  BY <1>0, <1>a, <1>10 DEF PayDistrict, Update, Doing, Fields
<1>11. CASE PayCustomer(t)
  BY <1>0, <1>a, <1>11 DEF PayCustomer, Update, Doing, Fields
<1>c. ASSUME nextDistrict(t), UNCHANGED tx, pc[t] \in {"oldest", "credit"}
      PROVE  Doing(t)'
  BY <1>0, <1>a, <1>b, <1>c DEF nextDistrict, Doing, Fields
<1>12. CASE FindOldest(t)
  <2>1. CASE nextDistrict(t)
    BY <1>12, <1>c, <2>1 DEF FindOldest, Select
  <2>2. CASE ~nextDistrict(t)
    BY <1>0, <1>a, <1>b, <1>12, <2>2 DEF FindOldest, Select, Doing, Fields
  <2> QED BY <2>1, <2>2
<1>13. CASE DeleteNewOrder(t)
  BY <1>0, <1>a, <1>13 DEF DeleteNewOrder, Update, Doing, Fields
<1>14. CASE SetCarrier(t)
  BY <1>0, <1>a, <1>14 DEF SetCarrier, Update, Doing, Fields
<1>15. CASE CreditCustomer(t)
  BY <1>15, <1>c DEF CreditCustomer, Update
<1>16. CASE FindOrder(t)
  BY <1>0, <1>a, <1>16 DEF FindOrder, Select, Doing, Fields
<1>17. CASE ReadLines(t)
  BY <1>0, <1>a, <1>17 DEF ReadLines, Select, Doing, Fields
<1>18. CASE ReadLevel(t)
  BY <1>0, <1>a, <1>18 DEF ReadLevel, Select, Doing, Fields
<1>19. CASE CountStock(t)
  BY <1>0, <1>a, <1>19 DEF CountStock, Select, Doing, Fields
<1>20. CASE Commit(t)
  BY <1>0, <1>20 DEF Commit, Doing
<1>21. CASE CommitFails(t)
  BY <1>0, <1>21 DEF CommitFails, Doing
<1>22. CASE Fail(t)
  <2>1. tx[t] \in Calls /\ tx'[t] = tx[t] /\ pc'[t] = firstStatement(tx[t])
    BY <1>0, <1>22 DEF Fail, Doing
  <2>2. loc'[t].d = 1 /\ loc'[t].n = 1 /\ DOMAIN loc'[t] = Fields
    BY <1>0, <1>a, <1>22 DEF Fail, Fields
  <2> QED BY <1>a, <1>b, <2>1, <2>2, FirstStatement DEF Doing
<1> QED BY <1>1, <1>5, <1>6, <1>7, <1>8, <1>9, <1>10, <1>11, <1>12, <1>13, <1>14, <1>15, <1>16, <1>17,
           <1>18, <1>19, <1>20, <1>21, <1>22 DEF Step, Statement

\* A step keeps the types.
LEMMA TypeStep ==
    ASSUME TypeInv, NEW t \in Terminals, Step(t)
    PROVE  TypeInv'
<1>1. Apart(t)
  BY StepIsApart
<1>2. started' \in 0..MaxTransactions /\ failures' \in 0..MaxFailures
  <2>0. /\ started \in 0..MaxTransactions /\ failures \in 0..MaxFailures
        /\ MaxTransactions \in Nat /\ MaxFailures \in Nat
    BY Constants DEF TypeInv
  <2>1. \/ UNCHANGED <<started, failures>>
        \/ started < MaxTransactions /\ started' = started + 1 /\ UNCHANGED failures
        \/ failures < MaxFailures /\ failures' = failures + 1 /\ UNCHANGED started
    BY DEF Step, Statement, Begin, TakeOrderNumber, InsertOrder, OrderLine,
           NoItem, PayWarehouse,
           PayDistrict, PayCustomer, FindOldest, DeleteNewOrder, SetCarrier, CreditCustomer,
           FindOrder, ReadLines, ReadLevel, CountStock, Commit, CommitFails, Fail, Update, Select,
           bookkeeping
  <2> QED BY <2>0, <2>1
<1>3. Doing(t)' /\ (pc'[t] = "idle" => Released(t))
  BY DoingStep, HeldStep
<1>4. \A k \in held'[t] : IsLock(k)
  <2>1. \A k \in held[t] : IsLock(k)
    BY DEF TypeInv, IsLock
  <2>2. CASE Acquired(t)
    BY <2>1, <2>2, RequestsAreLocks DEF Acquired
  <2>3. CASE Released(t)
    BY <2>3 DEF Released
  <2>4. CASE held'[t] = held[t]
    BY <2>1, <2>4
  <2> QED BY <2>2, <2>3, <2>4, HeldStep
<1>5. ASSUME NEW u \in Terminals, u # t
      PROVE  /\ Doing(u)'
             /\ \A k \in held'[u] : IsLock(k)
             /\ pc'[u] = "idle" => work'[u] = NoRows /\ held'[u] = {} /\ snap'[u] = NoRows
  <2>1. /\ pc'[u] = pc[u] /\ tx'[u] = tx[u] /\ loc'[u] = loc[u]
        /\ work'[u] = work[u] /\ snap'[u] = snap[u] /\ held'[u] = held[u]
    BY <1>1, <1>5 DEF Apart
  <2>2. Doing(u)'
    BY <2>1 DEF TypeInv, Doing
  <2> QED BY <2>1, <2>2 DEF TypeInv, IsLock
<1> QED BY <1>1, <1>2, <1>3, <1>4, <1>5 DEF TypeInv, Apart, Released, IsLock

\* A terminal without locks has them in order.
LEMMA NothingHeld ==
    ASSUME NEW t \in Terminals, held'[t] = {}
    PROVE  InOrder(t)' /\ ItemsExist(t)'
    BY DEF InOrder, ItemsExist, Below

\* Only stocks of existing items are locked: a line with another item ends the
\* transaction.
LEMMA ItemsStep ==
    ASSUME TypeInv, NEW t \in Terminals, ItemsExist(t), Step(t)
    PROVE  ItemsExist(t)'
<1>1. ASSUME NEW r \in requests(t), r[1][1] = "stock"
      PROVE  at(t, "line") /\ r[1][3] = loc[t].lines[loc[t].n].item
  BY <1>1
     DEF requests, at, X, S, District, Customer, Stock, Warehouse,
         NewOrderRow, Order, OrderLines
<1>2. CASE OrderLine(t)
  BY <1>1, <1>2, HeldStep DEF OrderLine, ItemsExist, Acquired, Released
<1>3. CASE at(t, "line") /\ ~OrderLine(t)
  <2>1. NoItem(t) \/ Fail(t)
    BY <1>3 DEF Step, Statement, Begin, TakeOrderNumber, InsertOrder, PayWarehouse,
           PayDistrict, PayCustomer, FindOldest, DeleteNewOrder, SetCarrier, CreditCustomer,
           FindOrder, ReadLines, ReadLevel, CountStock, Commit, CommitFails, Update, Select, at
  <2>2. held'[t] = {}
    BY <2>1 DEF NoItem, Fail, rollback, Release, TypeInv, IsFcn
  <2> QED BY <2>2, NothingHeld
<1>4. CASE ~at(t, "line")
  <2>1. \A r \in requests(t) : r[1][1] # "stock"
    BY <1>1, <1>4
  <2> QED BY <2>1, HeldStep DEF ItemsExist, Acquired, Released
<1> QED BY <1>2, <1>3, <1>4

\* A step leaves t with locks that come before those it will ask for.
LEMMA OrderStep ==
    ASSUME TypeInv, NEW t \in Terminals, InOrder(t), Step(t)
    PROVE  InOrder(t)'
<1> USE DEF at, goto, set, bookkeeping
<1>0. /\ pc[t] \in Labels /\ Doing(t) /\ IsFcn(pc) /\ IsFcn(loc) /\ IsFcn(held)
      /\ DOMAIN loc[t] = Fields
  <2>1. DOMAIN NoLocals = Fields
    BY DEF NoLocals, Fields
  <2> QED BY <2>1 DEF TypeInv, Doing
<1>a. ASSUME pc'[t] = "commit"
      PROVE  InOrder(t)'
  BY <1>a DEF InOrder
<1>b. ASSUME NEW label, Update(t, label)
      PROVE  pc[t] = label /\ held'[t] = held[t] \cup requests(t)
  BY <1>0, <1>b DEF Update, Acquire, IsFcn
<1>c. ASSUME NEW label, Select(t, label)
      PROVE  pc[t] = label /\ held'[t] = held[t]
  BY <1>0, <1>c DEF Select
<1>d. ASSUME rollback(t) \/ commit(t)
      PROVE  InOrder(t)'
  <2>1. held'[t] = {}
    BY <1>0, <1>d DEF rollback, commit, Release, IsFcn
  <2> QED BY <2>1, NothingHeld
<1>e. DIST_PER_WARE \in Nat \ {0} /\ FirstStock \in Nat
  BY Constants DEF FirstStock
<1>1. ASSUME NEW call \in Calls, Begin(t, call)
      PROVE  InOrder(t)'
  <2>1. held'[t] = {}
    BY <1>0, <1>1 DEF Begin, InOrder
  <2> QED BY <2>1, NothingHeld
<1>5. CASE TakeOrderNumber(t)
  <2>1. pc[t] = "district" /\ held[t] = {} /\ held'[t] = {X(District(tx[t].w, tx[t].d))}
    BY <1>5, <1>b, Requests DEF TakeOrderNumber, InOrder
  <2>2. Below(t, 2)'
    BY <2>1, Ranks DEF X, Below
  <2>3. pc'[t] = "order"
    BY <1>0, <1>5 DEF TakeOrderNumber, IsFcn
  <2> QED BY <2>2, <2>3 DEF InOrder
<1>6. CASE InsertOrder(t)
  <2>1. /\ pc[t] = "order" /\ Below(t, 2)
        /\ held'[t] = held[t] \cup {S(Customer(tx[t].w, tx[t].d, tx[t].c))}
    BY <1>6, <1>b, Requests DEF InsertOrder, InOrder
  <2>2. tx[t].d \in 1..DIST_PER_WARE
    BY <1>0, <2>1 DEF Doing, NewOrderCall, Districts
  <2>3. 3 * tx[t].d + 2 \in Int /\ 3 * tx[t].d + 2 < FirstStock /\ 2 < FirstStock
    BY <1>e, <2>2 DEF FirstStock
  <2>4. \A k \in held'[t] : Rank(k[1]) \in Int /\ Rank(k[1]) < FirstStock
    BY <1>e, <2>1, <2>3, Ranks DEF Below, S
  <2>5. pc'[t] = "line"
    BY <1>0, <1>6 DEF InsertOrder, IsFcn
  <2> QED BY <2>4, <2>5 DEF InOrder
<1>7. CASE OrderLine(t)
  <2>1. /\ pc[t] = "line" /\ held'[t] = held[t] \cup {X(StockOf(loc[t].lines[loc[t].n]))}
    BY <1>7, <1>b, Requests DEF OrderLine
  <2>2. loc'[t].lines = loc[t].lines /\ loc'[t].n = loc[t].n + 1 /\ pc'[t] \in {"line", "commit"}
    BY <1>0, <1>7 DEF OrderLine, IsFcn, Fields
  <2>3. loc[t].n \in Nat /\ loc[t].n \in 1..loc'[t].n - 1 /\ 1..loc[t].n - 1 \subseteq 1..loc'[t].n - 1
    BY <1>0, <2>1, <2>2 DEF Doing
  <2> QED BY <2>1, <2>2, <2>3 DEF InOrder
<1>8. CASE NoItem(t)
  BY <1>8, <1>d DEF NoItem
<1>9. CASE PayWarehouse(t)
  <2>1. pc[t] = "warehouse" /\ held[t] = {} /\ held'[t] = {X(Warehouse(tx[t].w))}
    BY <1>9, <1>b, Requests DEF PayWarehouse, InOrder
  <2>2. Below(t, 1)'
    BY <2>1, Ranks DEF X, Below
  <2>3. pc'[t] = "payment"
    BY <1>0, <1>9 DEF PayWarehouse, IsFcn
  <2> QED BY <2>2, <2>3 DEF InOrder
<1>10. CASE PayDistrict(t)
  <2>1. /\ pc[t] = "payment" /\ Below(t, 1)
        /\ held'[t] = held[t] \cup {X(District(tx[t].w, tx[t].d))}
    BY <1>10, <1>b, Requests DEF PayDistrict, InOrder
  <2>2. Below(t, 2)'
    BY <2>1, Ranks DEF X, Below
  <2>3. pc'[t] = "customer"
    BY <1>0, <1>10 DEF PayDistrict, IsFcn
  <2> QED BY <2>2, <2>3 DEF InOrder
<1>11. CASE PayCustomer(t)
  BY <1>0, <1>11, <1>a DEF PayCustomer, IsFcn
<1>g. ASSUME nextDistrict(t), pc[t] \in {"oldest", "credit"},
             \A k \in held'[t] : Rank(k[1]) \in Int /\ Rank(k[1]) < 3 * (loc[t].d + 1)
      PROVE  InOrder(t)'
  <2>1. loc[t].d \in 1..DIST_PER_WARE
    BY <1>0, <1>g DEF Doing, Districts
  <2>2. loc'[t].d = loc[t].d + 1 /\ pc'[t] \in {"commit", "oldest"}
    BY <1>0, <1>g DEF nextDistrict, IsFcn, Fields
  <2>3. Below(t, 3 * loc[t].d)'
    BY <1>g, <2>2 DEF Below
  <2> QED BY <2>2, <2>3 DEF InOrder
<1>12. CASE FindOldest(t)
  <2>1. pc[t] = "oldest" /\ held'[t] = held[t]
    BY <1>12, <1>c DEF FindOldest
  <2>2. Below(t, 3 * loc[t].d) /\ loc[t].d \in 1..DIST_PER_WARE
    BY <1>0, <2>1 DEF InOrder, Doing, Districts
  <2>3. CASE nextDistrict(t)
    <3>1. \A k \in held'[t] : Rank(k[1]) \in Int /\ Rank(k[1]) < 3 * (loc[t].d + 1)
      BY <2>1, <2>2 DEF Below
    <3> QED BY <1>g, <2>1, <2>3, <3>1
  <2>4. CASE ~nextDistrict(t)
    <3>1. pc'[t] = "delete" /\ loc'[t].d = loc[t].d
      BY <1>0, <1>12, <2>4 DEF FindOldest, IsFcn, Fields
    <3> QED BY <2>1, <2>2, <3>1 DEF InOrder, Below
  <2> QED BY <2>3, <2>4
<1>13. CASE DeleteNewOrder(t)
  <2>1. /\ pc[t] = "delete" /\ held'[t] \subseteq held[t] \cup {X(NewOrderRow(tx[t].w, loc[t].d, loc[t].o))}
    BY <1>13, <1>b, Requests DEF DeleteNewOrder
  <2>2. Below(t, 3 * loc[t].d) /\ loc[t].d \in 1..DIST_PER_WARE
    BY <1>0, <2>1 DEF InOrder, Doing, Districts
  <2>3. pc'[t] = "carrier" /\ loc'[t].d = loc[t].d
    BY <1>0, <1>13 DEF DeleteNewOrder, IsFcn
  <2>4. Below(t, 3 * loc[t].d + 1)'
    BY <2>1, <2>2, <2>3, Ranks DEF X, Below
  <2> QED BY <2>3, <2>4 DEF InOrder
<1>14. CASE SetCarrier(t)
  <2>1. /\ pc[t] = "carrier"
        /\ held'[t] = held[t] \cup {X(Order(tx[t].w, loc[t].d, loc[t].o)),
                                    X(OrderLines(tx[t].w, loc[t].d, loc[t].o))}
    BY <1>14, <1>b, Requests DEF SetCarrier
  <2>2. Below(t, 3 * loc[t].d + 1) /\ loc[t].d \in 1..DIST_PER_WARE
    BY <1>0, <2>1 DEF InOrder, Doing, Districts
  <2>3. pc'[t] = "credit" /\ loc'[t].d = loc[t].d
    BY <1>0, <1>14 DEF SetCarrier, IsFcn, Fields
  <2>4. Below(t, 3 * loc[t].d + 2)'
    BY <2>1, <2>2, <2>3, Ranks DEF X, Below
  <2> QED BY <2>3, <2>4 DEF InOrder
<1>15. CASE CreditCustomer(t)
  <2>1. /\ pc[t] = "credit"
        /\ held'[t] = held[t] \cup {X(Customer(tx[t].w, loc[t].d, loc[t].c))}
    BY <1>15, <1>b, Requests DEF CreditCustomer
  <2>2. Below(t, 3 * loc[t].d + 2) /\ loc[t].d \in 1..DIST_PER_WARE
    BY <1>0, <2>1 DEF InOrder, Doing, Districts
  <2>3. nextDistrict(t)
    BY <1>15 DEF CreditCustomer
  <2>4. \A k \in held'[t] : Rank(k[1]) \in Int /\ Rank(k[1]) < 3 * (loc[t].d + 1)
    BY <2>1, <2>2, Ranks DEF X, Below
  <2> QED BY <1>g, <2>1, <2>3, <2>4
<1>16. CASE FindOrder(t)
  <2>1. held'[t] = {}
    BY <1>16, <1>c DEF FindOrder, InOrder
  <2> QED BY <2>1, NothingHeld
<1>17. CASE ReadLines(t)
  BY <1>0, <1>17, <1>a DEF ReadLines, IsFcn
<1>18. CASE ReadLevel(t)
  <2>1. held'[t] = {}
    BY <1>18, <1>c DEF ReadLevel, InOrder
  <2> QED BY <2>1, NothingHeld
<1>19. CASE CountStock(t)
  BY <1>0, <1>19, <1>a DEF CountStock, IsFcn
<1>20. CASE Commit(t)
  BY <1>20, <1>d DEF Commit
<1>21. CASE CommitFails(t)
  BY <1>21, <1>d DEF CommitFails
<1>22. CASE Fail(t)
  BY <1>22, <1>d DEF Fail
<1> QED BY <1>1, <1>5, <1>6, <1>7, <1>8, <1>9, <1>10, <1>11, <1>12, <1>13, <1>14, <1>15, <1>16, <1>17,
           <1>18, <1>19, <1>20, <1>21, <1>22 DEF Step, Statement

\* No two terminals hold conflicting locks.
LEMMA ExclusiveStep ==
    ASSUME TypeInv, Exclusive, NEW t \in Terminals, Step(t)
    PROVE  Exclusive'
<1>1. \A u \in Terminals : u # t => held'[u] = held[u]
  BY StepIsApart DEF Apart
<1>2. ASSUME NEW u \in Terminals, u # t, NEW k \in held'[t], NEW l \in held[u]
      PROVE  ~Conflict(k, l) /\ ~Conflict(l, k)
  <2>1. ~Conflict(k, l)
    <3>1. CASE k \in held[t]
      BY <1>2, <3>1 DEF Exclusive
    <3>2. CASE k \notin held[t]
      <4>1. Acquired(t) /\ k \in requests(t)
        BY <1>2, <3>2, HeldStep DEF Acquired, Released
      <4> QED BY <1>2, <4>1 DEF Acquired, Blocks
    <3> QED BY <3>1, <3>2
  <2> QED BY <2>1 DEF Conflict
<1> QED BY <1>1, <1>2 DEF Exclusive

\* A step of t changes nothing for another terminal u.
LEMMA LocalStep ==
    ASSUME TypeInv, NEW t \in Terminals, Step(t), NEW u \in Terminals, u # t, InOrder(u), ItemsExist(u)
    PROVE  InOrder(u)' /\ ItemsExist(u)'
<1>1. pc'[u] = pc[u] /\ loc'[u] = loc[u] /\ held'[u] = held[u]
  BY StepIsApart DEF Apart
<1> QED BY <1>1 DEF InOrder, ItemsExist, Below

\* The invariant holds at first ...
LEMMA InvInit == Init => IInv
<1> SUFFICES ASSUME Init PROVE IInv
  OBVIOUS
<1>1. TypeInv
  BY Constants DEF Init, TypeInv, DatabaseInit, IsFcn, Doing, Labels, NoRows
<1>2. \A t \in Terminals : held[t] = {}
  BY DEF Init, DatabaseInit
<1>3. LockInv
  BY <1>2 DEF LockInv, Exclusive, InOrder, ItemsExist, Below
<1> QED BY <1>1, <1>3 DEF IInv

\* ... and every step keeps it.
LEMMA InvNext == IInv /\ [Next]_vars => IInv'
<1> SUFFICES ASSUME IInv, [Next]_vars PROVE IInv'
  OBVIOUS
<1>1. ASSUME NEW t \in Terminals, Step(t)
      PROVE  IInv'
  <2>1. TypeInv'
    BY <1>1, TypeStep DEF IInv
  <2>2. Exclusive'
    BY <1>1, ExclusiveStep DEF IInv, LockInv
  <2>3. InOrder(t)' /\ ItemsExist(t)'
    BY <1>1, OrderStep, ItemsStep DEF IInv, LockInv
  <2>4. \A u \in Terminals : u # t => InOrder(u)' /\ ItemsExist(u)'
    BY <1>1, LocalStep DEF IInv, LockInv
  <2> QED BY <2>1, <2>2, <2>3, <2>4 DEF IInv, LockInv
<1>2. CASE UNCHANGED vars
  <2> USE <1>2 DEF vars, IInv
  <2>1. TypeInv'
    BY DEF TypeInv, IsFcn, Doing
  <2>2. LockInv'
    BY DEF LockInv, Exclusive, InOrder, ItemsExist, Below
  <2> QED BY <2>1, <2>2
<1> QED BY <1>1, <1>2 DEF Next, Step

\* Every terminal is at a statement of its call, and has written nothing,
\* locked nothing and seen no snapshot while it is idle (the transaction
\* methods and TpccStatements.commit and rollback).
THEOREM TypeCorrect == Spec => []TypeOK
<1>1. IInv => TypeOK
  BY DEF IInv, TypeInv, TypeOK, Doing, IsFcn, at
<1> QED BY <1>1, InvInit, InvNext, PTL DEF Spec

\* What a terminal waits for comes after all locks that it has; a lock that it
\* asks for again it has already.
LEMMA WaitsForLater ==
    ASSUME IInv, NEW t \in Terminals, NEW r \in requests(t),
           r[1][1] = "stock" => r[1][3] \in Items
    PROVE  /\ Rank(r[1]) \in Int
           /\ \A k \in held[t] : k = r \/ (Rank(k[1]) \in Int /\ Rank(k[1]) < Rank(r[1]))
<1>0. Doing(t) /\ InOrder(t) /\ DIST_PER_WARE \in Nat
  BY Constants DEF IInv, TypeInv, LockInv
<1>1. CASE pc[t] \in {"district", "warehouse"}
  <2>1. held[t] = {}
    BY <1>0, <1>1 DEF InOrder
  <2>2. Rank(r[1]) \in Int
    BY <1>1, Requests, Ranks DEF X
  <2> QED BY <2>1, <2>2
<1>2. CASE pc[t] = "order"
  <2>1. r = S(Customer(tx[t].w, tx[t].d, tx[t].c)) /\ Below(t, 2)
    BY <1>0, <1>2, Requests DEF InOrder
  <2>2. tx[t].d \in 1..DIST_PER_WARE
    BY <1>0, <1>2 DEF Doing, NewOrderCall, Districts
  <2>3. Rank(r[1]) = 3 * tx[t].d + 2
    BY <2>1, Ranks DEF S
  <2> QED BY <1>0, <2>1, <2>2, <2>3 DEF Below
<1>3. CASE pc[t] = "line"
  <2> DEFINE lines == loc[t].lines
             n     == loc[t].n
             rankOf(l) == rank([item |-> l.item, supply |-> l.supply])
  <2>1. r = X(StockOf(lines[n]))
    BY <1>3, Requests
  <2>2. /\ lines \in Seq(Line) /\ n \in 1..Len(lines)
        /\ \A i, j \in 1..Len(lines) : i < j => rank(lines[i]) <= rank(lines[j])
    BY <1>0, <1>3, SortedLines DEF Doing, NewOrderCall, Line
  <2>3. \A i \in 1..Len(lines) : lines[i] \in Line /\ rank(lines[i]) \in Int
    BY <2>2, RankType
  <2>4. \A i \in 1..Len(lines) : Rank(StockOf(lines[i])) = FirstStock + rank(lines[i])
    BY Ranks DEF StockOf, rank
  <2>5. lines[n].item \in Items
    BY <2>1 DEF X, StockOf, Stock
  <2>6. FirstStock \in Int /\ rank(lines[n]) \in Nat
    <3>1. \A i \in Items : i \in Nat
      BY Constants
    <3>2. lines[n].item \in Nat /\ lines[n].supply \in Nat /\ MAXITEMS + 1 \in Nat
      BY <2>2, <2>3, <2>5, <3>1, LineFields, Constants
    <3>3. (MAXITEMS + 1) * lines[n].supply \in Nat
      BY <3>2
    <3> QED BY <1>0, <3>2, <3>3 DEF rank, FirstStock
  <2>7. Rank(r[1]) = FirstStock + rank(lines[n])
    BY <2>1, <2>4, <2>2 DEF X
  <2>8. ASSUME NEW k \in held[t]
        PROVE  k = r \/ (Rank(k[1]) \in Int /\ Rank(k[1]) < Rank(r[1]))
    <3>1. CASE Rank(k[1]) \in Int /\ Rank(k[1]) < FirstStock
      BY <3>1, <2>6, <2>7
    <3>2. ASSUME NEW i \in 1..n - 1, k = X(StockOf(lines[i]))
          PROVE  k = r \/ (Rank(k[1]) \in Int /\ Rank(k[1]) < Rank(r[1]))
      <4>1. i \in 1..Len(lines) /\ n \in 1..Len(lines) /\ i < n
        BY <2>2
      <4>2. rank(lines[i]) <= rank(lines[n]) /\ rank(lines[i]) \in Int
        BY <4>1, <2>2, <2>3
      <4>3. lines[i].item \in Items
        BY <2>8, <3>2 DEF IInv, LockInv, ItemsExist, X, StockOf, Stock
      <4>4. Rank(k[1]) = FirstStock + rank(lines[i])
        BY <3>2, <4>1, <2>4 DEF X
      <4>5. CASE rank(lines[i]) = rank(lines[n])
        <5>1. lines[i].supply = lines[n].supply /\ lines[i].item = lines[n].item
          BY <4>1, <4>3, <4>5, <2>3, <2>5, RankIsUnique
        <5> QED BY <5>1, <3>2, <2>1 DEF StockOf
      <4>6. CASE rank(lines[i]) < rank(lines[n])
        BY <4>2, <4>4, <4>6, <2>6, <2>7
      <4> QED BY <4>2, <4>5, <4>6, <2>6
    <3> QED BY <1>0, <1>3, <3>1, <3>2 DEF InOrder
  <2> QED BY <2>6, <2>7, <2>8
<1>4. CASE pc[t] = "payment"
  BY <1>0, <1>4, Requests, Ranks DEF InOrder, Below, X
<1>5. CASE pc[t] = "customer"
  <2>1. r = X(Customer(tx[t].c_w, tx[t].c_d, loc[t].c)) /\ Below(t, 2)
    BY <1>0, <1>5, Requests DEF InOrder
  <2>2. tx[t].c_d \in 1..DIST_PER_WARE
    BY <1>0, <1>5 DEF Doing, PaymentCall, Districts
  <2>3. Rank(r[1]) = 3 * tx[t].c_d + 2
    BY <2>1, Ranks DEF X
  <2> QED BY <1>0, <2>1, <2>2, <2>3 DEF Below
<1>6. CASE pc[t] = "delete"
  BY <1>0, <1>6, Requests, Ranks DEF InOrder, Below, X, Doing, Districts
<1>7. CASE pc[t] = "carrier"
  BY <1>0, <1>7, Requests, Ranks DEF InOrder, Below, X, Doing, Districts
<1>8. CASE pc[t] = "credit"
  BY <1>0, <1>8, Requests, Ranks DEF InOrder, Below, X, Doing, Districts
<1>9. CASE pc[t] \notin {"district", "order", "line", "warehouse", "payment", "customer", "delete",
                         "carrier", "credit"}
  BY <1>9, Requests
<1> QED BY <1>1, <1>2, <1>3, <1>4, <1>5, <1>6, <1>7, <1>8, <1>9

\* Finitely many terminals never wait for each other in a circle, for any
\* calls and any data: of those in a circle the one whose request has the
\* highest rank would wait for a terminal that holds a lock of that rank and
\* still requests one, which comes later (NewOrder.neword, "sort orders to
\* avoid DeadLock").
THEOREM NobodyWaitsInACircle ==
    ASSUME IsFiniteSet(Terminals)
    PROVE  Spec => []NoWaitCycle
<1>1. ASSUME IInv PROVE NoWaitCycle
  <2> SUFFICES ASSUME NEW circle \in SUBSET Terminals, circle # {},
                      \A t \in circle : \E u \in circle : Blocks(u, t, requests(t))
               PROVE  FALSE
    BY DEF NoWaitCycle
  <2> DEFINE Waits(t, r) == r \in requests(t)
                            /\ \E u \in circle : u # t /\ \E l \in held[u] : Conflict(r, l)
             request == [t \in circle |-> CHOOSE r : Waits(t, r)]
             rankOf  == [t \in circle |-> Rank(request[t][1])]
  <2>1. \A t \in circle : Waits(t, request[t])
    BY DEF Blocks
  <2>2. \A t \in circle : request[t][1][1] = "stock" => request[t][1][3] \in Items
    BY <2>1, <1>1 DEF IInv, LockInv, ItemsExist, Conflict
  <2>3. rankOf \in [circle -> Int]
    BY <2>1, <2>2, <1>1, WaitsForLater
  <2>4. IsFiniteSet(circle)
    BY FS_Subset
  <2>5. PICK t \in circle : \A u \in circle : rankOf[u] <= rankOf[t]
    <3> HIDE DEF rankOf
    <3> QED BY <2>3, <2>4, FiniteMax
  <2>6. PICK u \in circle : u # t /\ \E l \in held[u] : Conflict(request[t], l)
    BY <2>1
  <2>7. PICK l \in held[u] : Conflict(request[t], l)
    BY <2>6
  <2>8. Rank(l[1]) = rankOf[t] /\ l[1] = request[t][1]
    BY <2>7 DEF Conflict
  <2>9. l = request[u] \/ Rank(l[1]) < rankOf[u]
    BY <2>1, <2>2, <2>7, <1>1, WaitsForLater
  <2>10. l # request[u]
    <3>1. PICK x \in circle : x # u /\ \E k \in held[x] : Conflict(request[u], k)
      BY <2>1
    <3>2. x \in Terminals /\ u \in Terminals /\ Exclusive
      BY <1>1 DEF IInv, LockInv
    <3> QED BY <2>7, <3>1, <3>2 DEF Exclusive
  <2> QED BY <2>3, <2>5, <2>8, <2>9, <2>10
<1> QED BY <1>1, InvInit, InvNext, PTL DEF Spec

-----------------------------------------------------------------------------
(* Rows and keys.                                                          *)

\* f ++ g has the rows of both, and f's where both have one.
LEMMA MergeRows ==
    ASSUME NEW f, NEW g
    PROVE  /\ DOMAIN (f ++ g) = DOMAIN f \cup DOMAIN g
           /\ \A k \in DOMAIN f : (f ++ g)[k] = f[k]
           /\ \A k \in DOMAIN g \ DOMAIN f : (f ++ g)[k] = g[k]
    BY DEF ++

\* Row(k, v) is the one row v under the key k.
LEMMA OneRow ==
    ASSUME NEW k, NEW v
    PROVE  DOMAIN Row(k, v) = {k} /\ Row(k, v)[k] = v
    BY DEF Row

\* Apply(f, w) has what w wrote, without what w deleted, and else the rows of
\* f.
LEMMA ApplyRows ==
    ASSUME NEW f, NEW w, NEW k
    PROVE  /\ k \in DOMAIN w => /\ k \in DOMAIN Apply(f, w) <=> w[k] # Nil
                                /\ w[k] # Nil => Apply(f, w)[k] = w[k]
           /\ k \notin DOMAIN w => /\ k \in DOMAIN Apply(f, w) <=> k \in DOMAIN f
                                   /\ k \in DOMAIN f => Apply(f, w)[k] = f[k]
    BY DEF Apply

\* The keys of the tables: which are the same, and that those of different
\* tables are not.
LEMMA Keys ==
    ASSUME NEW w, NEW d, NEW o, NEW w1, NEW d1, NEW o1
    PROVE  /\ Order(w, d, o) = Order(w1, d1, o1) <=> w = w1 /\ d = d1 /\ o = o1
           /\ OrderLines(w, d, o) = OrderLines(w1, d1, o1) <=> w = w1 /\ d = d1 /\ o = o1
           /\ NewOrderRow(w, d, o) = NewOrderRow(w1, d1, o1) <=> w = w1 /\ d = d1 /\ o = o1
           /\ District(w, d) = District(w1, d1) <=> w = w1 /\ d = d1
           /\ Order(w, d, o) # OrderLines(w1, d1, o1)
           /\ Order(w, d, o) # NewOrderRow(w1, d1, o1)
           /\ OrderLines(w, d, o) # NewOrderRow(w1, d1, o1)
           /\ Order(w, d, o)[1] = "orders" /\ OrderLines(w, d, o)[1] = "order_line"
           /\ NewOrderRow(w, d, o)[1] = "new_orders" /\ District(w, d)[1] = "district"
           /\ Warehouse(w)[1] = "warehouse" /\ Customer(w, d, o)[1] = "customer"
           /\ Stock(w, d)[1] = "stock" /\ History(w)[1] = "history"
    BY DEF Order, OrderLines, NewOrderRow, District, Warehouse, Customer, Stock, History

\* No row is Nil, which stands for a deleted one.
LEMMA ValuesAreNotNil ==
    ASSUME NEW v
    PROVE  /\ v \in DistrictRow => v # Nil
           /\ v \in OrderRow => v # Nil
           /\ v \in Seq(LineRow) => v # Nil
           /\ TRUE # Nil
    BY NilAssumption

\* Min of numbers is the smallest of them.
LEMMA MinOf ==
    ASSUME NEW ids, ids \subseteq Nat, ids # {}
    PROVE  Min(ids) \in ids /\ \A x \in ids : Min(ids) <= x
<1>1. \E x \in ids : \A y \in ids : x <= y
  BY NatMin
<1> QED BY <1>1 DEF Min

\* Max of numbers that have a bound is one of them.
LEMMA MaxOf ==
    ASSUME NEW ids, ids \subseteq Nat, ids # {}, NEW n \in Nat, \A x \in ids : x <= n
    PROVE  Max(ids) \in ids
<1> DEFINE T == {n - x : x \in ids}
<1>1. T \subseteq Nat /\ T # {}
  OBVIOUS
<1>2. PICK m \in T : \A y \in T : m <= y
  BY <1>1, NatMin
<1>3. PICK x \in ids : m = n - x
  BY <1>2
<1>4. ASSUME NEW y \in ids PROVE y <= x
  <2>1. n - y \in T
    OBVIOUS
  <2>2. n - x <= n - y
    BY <2>1, <1>2, <1>3
  <2>3. x \in Nat /\ y \in Nat
    OBVIOUS
  <2> HIDE DEF T
  <2> QED BY <2>2, <2>3
<1>5. \E z \in ids : \A y \in ids : z >= y
  BY <1>4
<1> QED BY <1>5 DEF Max

-----------------------------------------------------------------------------
(* The orders in the tables.                                               *)

\* Order o of a district in the given rows is complete.
OrderOk(rows, w, d, o) ==
    LET order == rows[Order(w, d, o)]
        lines == rows[OrderLines(w, d, o)]
    IN  /\ Order(w, d, o) \in DOMAIN rows /\ order \in OrderRow
        /\ OrderLines(w, d, o) \in DOMAIN rows /\ lines \in Seq(LineRow)
        /\ Len(lines) = order.ol_cnt
        /\ order.carrier = (NewOrderRow(w, d, o) \notin DOMAIN rows)
        /\ \A i \in DOMAIN lines : lines[i].delivered = order.carrier

\* No row of order o.
NoOrder(rows, w, d, o) ==
    {Order(w, d, o), OrderLines(w, d, o), NewOrderRow(w, d, o)} \cap DOMAIN rows = {}

\* d_next_o_id.
nextOf(rows, w, d) == rows[District(w, d)].next

\* A district has the orders up to its next number, no more.
DistrictOk(rows, w, d) ==
    /\ District(w, d) \in DOMAIN rows /\ rows[District(w, d)] \in DistrictRow
    /\ nextOf(rows, w, d) >= 1
    /\ \A o \in Nat : IF o \in 1..nextOf(rows, w, d) - 1
                      THEN OrderOk(rows, w, d, o) ELSE NoOrder(rows, w, d, o)

\* So has every district.
RowsOk(rows) == \A w \in Warehouses, d \in Districts : DistrictOk(rows, w, d)

\* What Load leaves in one of the tables.
LoadedKeys == {Order(v, e, o) : v \in Warehouses, e \in Districts, o \in 1..ORD_PER_DIST}
LoadedTable(table) ==
    CASE table = "warehouse"  -> [k \in {Warehouse(v) : v \in Warehouses} |-> W_YTD]
      [] table = "district"   -> [k \in {District(v, e) : v \in Warehouses, e \in Districts} |->
                                     [ytd |-> D_YTD, next |-> ORD_PER_DIST + 1]]
      [] table = "customer"   -> [k \in {Customer(v, e, c) : v \in Warehouses, e \in Districts, c \in Customers} |->
                                     [balance |-> -10, deliveries |-> 0]]
      [] table = "stock"      -> [k \in {Stock(v, i) : v \in Warehouses, i \in Items} |-> InitialStock]
      [] table = "orders"     -> [k \in LoadedKeys |->
                                     [cust |-> AnyCustomer, carrier |-> IsDelivered(k[4]), ol_cnt |-> 1]]
      [] table = "order_line" -> [k \in {OrderLines(k[2], k[3], k[4]) : k \in LoadedKeys} |->
                                     <<LoadedLine(k[2], k[4])>>]
      [] table = "new_orders" -> [k \in {NewOrderRow(k[2], k[3], k[4]) :
                                             k \in {o \in LoadedKeys : ~IsDelivered(o[4])}} |-> TRUE]
      [] OTHER                -> NoRows

\* A row that Load leaves is in the table that its key names.
LEMMA LoadedTables ==
    ASSUME NEW k
    PROVE  /\ k \in DOMAIN LoadedRows <=> k \in DOMAIN LoadedTable(k[1])
           /\ k \in DOMAIN LoadedTable(k[1]) => LoadedRows[k] = LoadedTable(k[1])[k]
<1> DEFINE A1 == LoadedTable("warehouse")
           A2 == LoadedTable("district")
           A3 == LoadedTable("customer")
           A4 == LoadedTable("stock")
           A5 == LoadedTable("orders")
           A6 == LoadedTable("order_line")
           A7 == LoadedTable("new_orders")
           B2 == A1 ++ A2
           B3 == B2 ++ A3
           B4 == B3 ++ A4
           B5 == B4 ++ A5
           B6 == B5 ++ A6
           Of(table, x) == x \in DOMAIN LoadedTable(table) => x[1] = table
<1>1. LoadedRows = B6 ++ A7
  BY DEF LoadedRows, RowsOf, LoadedTable, LoadedKeys
<1>2. /\ Of("warehouse", k) /\ Of("district", k) /\ Of("customer", k) /\ Of("stock", k)
      /\ Of("orders", k) /\ Of("order_line", k) /\ Of("new_orders", k)
  <2>1. Of("warehouse", k)
    BY Keys DEF LoadedTable
  <2>2. Of("district", k)
    BY Keys DEF LoadedTable
  <2>3. Of("customer", k)
    BY Keys DEF LoadedTable
  <2>4. Of("stock", k)
    BY Keys DEF LoadedTable
  <2>5. Of("orders", k)
    BY Keys DEF LoadedTable, LoadedKeys
  <2>6. Of("order_line", k) /\ Of("new_orders", k)
    BY Keys DEF LoadedTable
  <2> QED BY <2>1, <2>2, <2>3, <2>4, <2>5, <2>6
<1>3. k[1] \notin {"warehouse", "district", "customer", "stock", "orders", "order_line", "new_orders"} =>
          DOMAIN LoadedTable(k[1]) = {}
  BY DEF LoadedTable, NoRows
<1>4. ASSUME NEW f, NEW g
      PROVE  /\ k \in DOMAIN (f ++ g) <=> k \in DOMAIN f \/ k \in DOMAIN g
             /\ k \in DOMAIN f => (f ++ g)[k] = f[k]
             /\ k \in DOMAIN g /\ k \notin DOMAIN f => (f ++ g)[k] = g[k]
  <2>1. /\ DOMAIN (f ++ g) = DOMAIN f \cup DOMAIN g
        /\ \A x \in DOMAIN f : (f ++ g)[x] = f[x]
        /\ \A x \in DOMAIN g \ DOMAIN f : (f ++ g)[x] = g[x]
    BY MergeRows, Zenon
  <2> QED BY <2>1
<1> DEFINE Has(f) == IF k \in DOMAIN f THEN <<f[k]>> ELSE <<>>
           Or(a, b) == IF a = <<>> THEN b ELSE a
<1>5. ASSUME NEW f, NEW g PROVE Has(f ++ g) = Or(Has(f), Has(g))
  BY <1>4
<1>6. Has(LoadedRows) = Or(Or(Or(Or(Or(Or(Has(A1), Has(A2)), Has(A3)), Has(A4)), Has(A5)), Has(A6)), Has(A7))
  <2> HIDE DEF A1, A2, A3, A4, A5, A6, A7, Has, Or
  <2> QED BY <1>1, <1>5
<1>7. Has(LoadedRows) = Has(LoadedTable(k[1]))
  <2>1. \A f : k \notin DOMAIN f => Has(f) = <<>>
    OBVIOUS
  <2>2. \A a : Or(a, <<>>) = a /\ Or(<<>>, a) = a
    OBVIOUS
  <2> HIDE DEF Has, Or
  <2> QED BY <1>2, <1>3, <1>6, <2>1, <2>2
<1>8. \A f : (k \in DOMAIN f <=> Has(f) # <<>>) /\ (k \in DOMAIN f => Has(f)[1] = f[k])
  OBVIOUS
<1> HIDE DEF Has
<1> QED BY <1>7, <1>8

\* The rows of orders and districts that Load leaves in the tables.
LEMMA LoadedOrders ==
    ASSUME NEW w \in Warehouses, NEW d \in Districts
    PROVE  /\ District(w, d) \in DOMAIN LoadedRows
           /\ LoadedRows[District(w, d)] = [ytd |-> D_YTD, next |-> ORD_PER_DIST + 1]
           /\ \A o \in Nat :
                  /\ Order(w, d, o) \in DOMAIN LoadedRows <=> o \in 1..ORD_PER_DIST
                  /\ OrderLines(w, d, o) \in DOMAIN LoadedRows <=> o \in 1..ORD_PER_DIST
                  /\ NewOrderRow(w, d, o) \in DOMAIN LoadedRows <=>
                         o \in 1..ORD_PER_DIST /\ ~IsDelivered(o)
           /\ \A o \in 1..ORD_PER_DIST :
                  /\ LoadedRows[Order(w, d, o)] =
                         [cust |-> AnyCustomer, carrier |-> IsDelivered(o), ol_cnt |-> 1]
                  /\ LoadedRows[OrderLines(w, d, o)] = <<LoadedLine(w, o)>>
<1>1. /\ District(w, d) \in DOMAIN LoadedTable("district")
      /\ LoadedTable("district")[District(w, d)] = [ytd |-> D_YTD, next |-> ORD_PER_DIST + 1]
  BY DEF LoadedTable
<1>2. \A k \in LoadedKeys : k = Order(k[2], k[3], k[4])
  BY DEF Order, LoadedKeys
<1>3. ASSUME NEW o \in Nat
      PROVE  /\ Order(w, d, o) \in LoadedKeys <=> o \in 1..ORD_PER_DIST
             /\ Order(w, d, o)[2] = w /\ Order(w, d, o)[3] = d /\ Order(w, d, o)[4] = o
  <2>1. Order(w, d, o) \in LoadedKeys <=> o \in 1..ORD_PER_DIST
    BY Keys DEF LoadedKeys
  <2> QED BY <2>1 DEF Order
<1>4. ASSUME NEW o \in Nat
      PROVE  /\ Order(w, d, o) \in DOMAIN LoadedTable("orders") <=> o \in 1..ORD_PER_DIST
             /\ o \in 1..ORD_PER_DIST => LoadedTable("orders")[Order(w, d, o)] =
                    [cust |-> AnyCustomer, carrier |-> IsDelivered(o), ol_cnt |-> 1]
  BY <1>3 DEF LoadedTable
<1>5. ASSUME NEW o \in Nat
      PROVE  /\ OrderLines(w, d, o) \in DOMAIN LoadedTable("order_line") <=> o \in 1..ORD_PER_DIST
             /\ o \in 1..ORD_PER_DIST => LoadedTable("order_line")[OrderLines(w, d, o)] = <<LoadedLine(w, o)>>
  <2>1. OrderLines(w, d, o)[2] = w /\ OrderLines(w, d, o)[4] = o
    BY DEF OrderLines
  <2>2. OrderLines(w, d, o) \in {OrderLines(k[2], k[3], k[4]) : k \in LoadedKeys} <=> o \in 1..ORD_PER_DIST
    <3>1. ASSUME NEW k \in LoadedKeys, OrderLines(w, d, o) = OrderLines(k[2], k[3], k[4])
          PROVE  k = Order(w, d, o)
      BY <1>2, <3>1, Keys
    <3> QED BY <1>3, <3>1
  <2> QED BY <2>1, <2>2 DEF LoadedTable
<1>6. ASSUME NEW o \in Nat
      PROVE  NewOrderRow(w, d, o) \in DOMAIN LoadedTable("new_orders") <=> o \in 1..ORD_PER_DIST /\ ~IsDelivered(o)
  <2>1. ASSUME NEW k \in LoadedKeys, NewOrderRow(w, d, o) = NewOrderRow(k[2], k[3], k[4])
        PROVE  k = Order(w, d, o)
    BY <1>2, <2>1, Keys
  <2>2. NewOrderRow(w, d, o) \in {NewOrderRow(k[2], k[3], k[4]) : k \in {x \in LoadedKeys : ~IsDelivered(x[4])}}
            <=> o \in 1..ORD_PER_DIST /\ ~IsDelivered(o)
    BY <1>3, <2>1
  <2> QED BY <2>2 DEF LoadedTable
<1>7. \A o \in Nat : /\ Order(w, d, o)[1] = "orders" /\ OrderLines(w, d, o)[1] = "order_line"
                     /\ NewOrderRow(w, d, o)[1] = "new_orders" /\ District(w, d)[1] = "district"
  BY Keys
<1>8. /\ District(w, d) \in DOMAIN LoadedRows
      /\ LoadedRows[District(w, d)] = [ytd |-> D_YTD, next |-> ORD_PER_DIST + 1]
  BY <1>1, <1>7, LoadedTables
<1>9. ASSUME NEW o \in Nat
      PROVE  /\ Order(w, d, o) \in DOMAIN LoadedRows <=> o \in 1..ORD_PER_DIST
             /\ OrderLines(w, d, o) \in DOMAIN LoadedRows <=> o \in 1..ORD_PER_DIST
             /\ NewOrderRow(w, d, o) \in DOMAIN LoadedRows <=> o \in 1..ORD_PER_DIST /\ ~IsDelivered(o)
             /\ o \in 1..ORD_PER_DIST =>
                    /\ LoadedRows[Order(w, d, o)] = [cust |-> AnyCustomer, carrier |-> IsDelivered(o), ol_cnt |-> 1]
                    /\ LoadedRows[OrderLines(w, d, o)] = <<LoadedLine(w, o)>>
  BY <1>4, <1>5, <1>6, <1>7, LoadedTables
<1>10. \A o \in 1..ORD_PER_DIST : o \in Nat
  OBVIOUS
<1> QED BY <1>8, <1>9, <1>10

\* Every district is loaded with complete orders (Load.loadOrd).
LEMMA LoadedOk == RowsOk(LoadedRows)
<1> SUFFICES ASSUME NEW w \in Warehouses, NEW d \in Districts
             PROVE  DistrictOk(LoadedRows, w, d)
  BY DEF RowsOk
<1>0. ORD_PER_DIST \in Nat /\ AnyCustomer \in Customers /\ (CHOOSE i \in Items : TRUE) \in Items
  <2>1. ORD_PER_DIST \in Nat /\ Customers # {} /\ Items # {}
    BY TpccAssumption
  <2> QED BY <2>1 DEF AnyCustomer
<1> DEFINE next == nextOf(LoadedRows, w, d)
<1>1. District(w, d) \in DOMAIN LoadedRows
  BY LoadedOrders
<1>2. LoadedRows[District(w, d)] = [ytd |-> D_YTD, next |-> ORD_PER_DIST + 1]
  BY LoadedOrders
<1>3. LoadedRows[District(w, d)] \in DistrictRow /\ next = ORD_PER_DIST + 1
  BY <1>0, <1>2 DEF DistrictRow, nextOf, D_YTD
<1>4. ASSUME NEW o \in 1..ORD_PER_DIST
      PROVE  OrderOk(LoadedRows, w, d, o)
  <2> DEFINE order == LoadedRows[Order(w, d, o)]
             lines == LoadedRows[OrderLines(w, d, o)]
  <2>1. IsDelivered(o) \in BOOLEAN /\ o \in Nat
    BY <1>0 DEF IsDelivered
  <2>2. LoadedLine(w, o) \in LineRow /\ LoadedLine(w, o).delivered = IsDelivered(o)
    BY <1>0, <2>1 DEF LoadedLine, LineRow
  <2>3. order = [cust |-> AnyCustomer, carrier |-> IsDelivered(o), ol_cnt |-> 1]
    BY LoadedOrders
  <2>4. order \in OrderRow /\ order.carrier = IsDelivered(o) /\ order.ol_cnt = 1
    BY <1>0, <2>1, <2>3 DEF OrderRow
  <2>5. lines = <<LoadedLine(w, o)>>
    BY LoadedOrders
  <2>6. lines \in Seq(LineRow) /\ Len(lines) = 1 /\ lines[1].delivered = IsDelivered(o)
    BY <2>2, <2>5
  <2>7. /\ Order(w, d, o) \in DOMAIN LoadedRows /\ OrderLines(w, d, o) \in DOMAIN LoadedRows
        /\ NewOrderRow(w, d, o) \in DOMAIN LoadedRows <=> ~IsDelivered(o)
    BY <2>1, LoadedOrders
  <2> HIDE DEF order, lines
  <2>8. \A i \in DOMAIN lines : lines[i].delivered = order.carrier
    BY <2>4, <2>6
  <2>9. order.carrier = (NewOrderRow(w, d, o) \notin DOMAIN LoadedRows)
    BY <2>1, <2>4, <2>7
  <2> QED BY <2>4, <2>6, <2>7, <2>8, <2>9 DEF OrderOk, order, lines
<1>5. ASSUME NEW o \in Nat, o \notin 1..ORD_PER_DIST
      PROVE  NoOrder(LoadedRows, w, d, o)
  BY <1>5, LoadedOrders DEF NoOrder
<1>6. next >= 1 /\ next - 1 = ORD_PER_DIST
  BY <1>0, <1>3
<1> HIDE DEF next
<1> QED BY <1>1, <1>3, <1>4, <1>5, <1>6 DEF DistrictOk, next

\* A snapshot is of complete orders, and not ahead of the tables.
SnapOk(t) == snap[t] # NoRows =>
    /\ RowsOk(snap[t])
    /\ \A w \in Warehouses, d \in Districts : nextOf(snap[t], w, d) <= nextOf(db, w, d)

-----------------------------------------------------------------------------
(* The orders that transactions are working on.                            *)

\* t is between the SELECT of the order number and its commit.
Ordering(t) == pc[t] \in {"order", "line"} \/ (pc[t] = "commit" /\ tx[t].kind = "NewOrder")

\* t has given out the next number of a district.
Numbers(t, w, d) == Ordering(t) /\ w = tx[t].w /\ d = tx[t].d

\* What t has written of a district is locked, and one ahead of the committed
\* row exactly when t has given out a number.
DistrictWork(t, w, d) ==
    LET key == District(w, d)
    IN  /\ Numbers(t, w, d) => key \in DOMAIN work[t] /\ loc[t].o = nextOf(db, w, d)
        /\ key \in DOMAIN work[t] =>
               /\ X(key) \in held[t] /\ work[t][key] \in DistrictRow
               /\ work[t][key].next = nextOf(db, w, d) + (IF Numbers(t, w, d) THEN 1 ELSE 0)

\* t has inserted order o.
Inserts(t, w, d, o) == Numbers(t, w, d) /\ pc[t] # "order" /\ o = loc[t].o

\* The rows that t has inserted of order o.
InsertedWork(t, w, d, o) ==
    LET order == work[t][Order(w, d, o)]
        lines == work[t][OrderLines(w, d, o)]
    IN  /\ {Order(w, d, o), OrderLines(w, d, o), NewOrderRow(w, d, o)} \subseteq DOMAIN work[t]
        /\ order \in OrderRow /\ order.carrier = FALSE /\ order.ol_cnt = Len(tx[t].lines)
        /\ work[t][NewOrderRow(w, d, o)] = TRUE
        /\ lines \in Seq(LineRow) /\ \A i \in DOMAIN lines : lines[i].delivered = FALSE
        /\ Len(lines) = IF pc[t] = "line" THEN loc[t].n - 1 ELSE order.ol_cnt

\* t is a Delivery, at its statements or at its commit.
Delivers(t) ==
    pc[t] \in {"oldest", "delete", "carrier", "credit"} \/ (pc[t] = "commit" /\ tx[t].kind = "Delivery")

\* t is about to deliver order o.
Delivering(t, w, d, o) ==
    pc[t] \in {"delete", "carrier"} /\ w = tx[t].w /\ d = loc[t].d /\ o = loc[t].o

\* What a Delivery has done to order o.
DeliveredWork(t, w, d, o) ==
    LET order == work[t][Order(w, d, o)]
        lines == work[t][OrderLines(w, d, o)]
        new   == NewOrderRow(w, d, o)
    IN  /\ new \in DOMAIN work[t] =>
               /\ Delivers(t) /\ work[t][new] = Nil
               /\ \/ Order(w, d, o) \in DOMAIN work[t]
                  \/ pc[t] = "carrier" /\ Delivering(t, w, d, o)
        /\ Order(w, d, o) \in DOMAIN work[t] <=> OrderLines(w, d, o) \in DOMAIN work[t]
        /\ Order(w, d, o) \in DOMAIN work[t] =>
               /\ Delivers(t) /\ o \in 1..nextOf(db, w, d) - 1
               /\ new \in DOMAIN db => new \in DOMAIN work[t]
               /\ order \in OrderRow /\ order.carrier = TRUE
               /\ order.ol_cnt = db[Order(w, d, o)].ol_cnt
               /\ lines \in Seq(LineRow) /\ Len(lines) = order.ol_cnt
               /\ \A i \in DOMAIN lines : lines[i].delivered = TRUE
        /\ Delivering(t, w, d, o) =>
               /\ o \in 1..nextOf(db, w, d) - 1
               /\ pc[t] = "carrier" /\ new \in DOMAIN db => new \in DOMAIN work[t]

\* What t has written of order o is what New Order inserts, or what a Delivery
\* changes, or nothing.
OrderWork(t, w, d, o) ==
    IF Inserts(t, w, d, o) THEN InsertedWork(t, w, d, o) ELSE DeliveredWork(t, w, d, o)

\* What t has written can be committed.
WorkOk(t) ==
    /\ \A w \in Warehouses, d \in Districts :
           DistrictWork(t, w, d) /\ \A o \in Nat : OrderWork(t, w, d, o)
    /\ pc[t] \in {"status", "lines", "level", "count"} => work[t] = NoRows

\* What Order Status has read.
StatusOk(t) ==
    LET w == tx[t].w
        d == tx[t].d
        o == loc[t].o
    IN  loc[t].order # Nil =>
            /\ pc[t] = "lines" =>
                   /\ snap[t] # NoRows /\ o \in 1..nextOf(snap[t], w, d) - 1
                   /\ loc[t].order = snap[t][Order(w, d, o)]
            /\ pc[t] = "commit" /\ tx[t].kind = "OrderStat" =>
                   /\ Len(loc[t].lines) = loc[t].order.ol_cnt
                   /\ \A i \in DOMAIN loc[t].lines : loc[t].lines[i].delivered = loc[t].order.carrier

\* The inductive invariant: the committed rows are complete, so is every
\* snapshot, and so will be the rows after the commit of any terminal.
OrdersInv ==
    /\ RowsOk(db)
    /\ \A t \in Terminals : SnapOk(t) /\ WorkOk(t) /\ StatusOk(t)

-----------------------------------------------------------------------------
(* What a commit does to the tables.                                       *)

\* The calls of the five kinds, and the types of their arguments.
LEMMA Kinds ==
    /\ \A c \in NewOrderCall : c.kind = "NewOrder" /\ c.w \in Warehouses /\ c.d \in Districts
                               /\ c.c \in Customers /\ c.lines \in Seq(Line) \ {<<>>}
    /\ \A c \in PaymentCall : c.kind = "Payment" /\ c.w \in Warehouses /\ c.d \in Districts
                              /\ c.amount \in Nat
    /\ \A c \in OrderStatCall : c.kind = "OrderStat" /\ c.w \in Warehouses /\ c.d \in Districts
    /\ \A c \in DeliveryCall : c.kind = "Delivery" /\ c.w \in Warehouses
    /\ \A c \in SlevCall : c.kind = "Slev" /\ c.w \in Warehouses /\ c.d \in Districts
<1>1. \A c \in NewOrderCall : c.kind = "NewOrder" /\ c.w \in Warehouses /\ c.d \in Districts
                               /\ c.c \in Customers /\ c.lines \in Seq(Line) \ {<<>>}
  BY DEF NewOrderCall, Line
<1>2. \A c \in PaymentCall : c.kind = "Payment" /\ c.w \in Warehouses /\ c.d \in Districts
                              /\ c.amount \in Nat
  BY DEF PaymentCall
<1>3. \A c \in OrderStatCall : c.kind = "OrderStat" /\ c.w \in Warehouses /\ c.d \in Districts
  BY DEF OrderStatCall
<1>4. \A c \in DeliveryCall : c.kind = "Delivery" /\ c.w \in Warehouses
  BY DEF DeliveryCall
<1>5. \A c \in SlevCall : c.kind = "Slev" /\ c.w \in Warehouses /\ c.d \in Districts
  BY DEF SlevCall
<1> QED BY <1>1, <1>2, <1>3, <1>4, <1>5

\* A district has its row, and the next order number is a number.
LEMMA NextIsNumber ==
    ASSUME NEW rows, RowsOk(rows), NEW w \in Warehouses, NEW d \in Districts
    PROVE  /\ District(w, d) \in DOMAIN rows /\ rows[District(w, d)] \in DistrictRow
           /\ nextOf(rows, w, d) \in Nat \ {0}
<1>1. DistrictOk(rows, w, d)
  BY DEF RowsOk
<1>2. rows[District(w, d)] \in DistrictRow /\ nextOf(rows, w, d) >= 1
  BY <1>1 DEF DistrictOk
<1>3. nextOf(rows, w, d) \in Nat
  BY <1>2 DEF DistrictRow, nextOf
<1> QED BY <1>1, <1>2, <1>3 DEF DistrictOk

\* The orders up to the next number are complete, and there are no others.
LEMMA OrdersThereAre ==
    ASSUME NEW rows, RowsOk(rows), NEW w \in Warehouses, NEW d \in Districts, NEW o \in Nat
    PROVE  /\ o \in 1..nextOf(rows, w, d) - 1 => OrderOk(rows, w, d, o)
           /\ o \notin 1..nextOf(rows, w, d) - 1 => NoOrder(rows, w, d, o)
    BY DEF RowsOk, DistrictOk

\* Two sets of rows agree in what they have of an order.
SameOrder(rows, rows2, w, d, o) ==
    \A k \in {Order(w, d, o), OrderLines(w, d, o), NewOrderRow(w, d, o)} :
        /\ k \in DOMAIN rows2 <=> k \in DOMAIN rows
        /\ k \in DOMAIN rows => rows2[k] = rows[k]

\* Whether an order is complete depends on its three rows only.
LEMMA SameOrderIsOk ==
    ASSUME NEW rows, NEW rows2, NEW w, NEW d, NEW o, SameOrder(rows, rows2, w, d, o)
    PROVE  /\ OrderOk(rows, w, d, o) => OrderOk(rows2, w, d, o)
           /\ NoOrder(rows, w, d, o) => NoOrder(rows2, w, d, o)
<1>1. /\ Order(w, d, o) \in DOMAIN rows2 <=> Order(w, d, o) \in DOMAIN rows
      /\ OrderLines(w, d, o) \in DOMAIN rows2 <=> OrderLines(w, d, o) \in DOMAIN rows
      /\ NewOrderRow(w, d, o) \in DOMAIN rows2 <=> NewOrderRow(w, d, o) \in DOMAIN rows
      /\ Order(w, d, o) \in DOMAIN rows => rows2[Order(w, d, o)] = rows[Order(w, d, o)]
      /\ OrderLines(w, d, o) \in DOMAIN rows => rows2[OrderLines(w, d, o)] = rows[OrderLines(w, d, o)]
  BY DEF SameOrder
<1>2. OrderOk(rows, w, d, o) => OrderOk(rows2, w, d, o)
  <2> SUFFICES ASSUME OrderOk(rows, w, d, o) PROVE OrderOk(rows2, w, d, o)
    OBVIOUS
  <2>1. rows2[Order(w, d, o)] = rows[Order(w, d, o)] /\ rows2[OrderLines(w, d, o)] = rows[OrderLines(w, d, o)]
    BY <1>1 DEF OrderOk
  <2> QED BY <1>1, <2>1, Zenon DEF OrderOk
<1>3. NoOrder(rows, w, d, o) => NoOrder(rows2, w, d, o)
  BY <1>1 DEF NoOrder
<1> QED BY <1>2, <1>3

\* The orders that there are stay, with as many lines as before; none of them
\* becomes new again.
DbGrows ==
    \A w \in Warehouses, d \in Districts :
        /\ nextOf(db', w, d) >= nextOf(db, w, d)
        /\ \A o \in 1..nextOf(db, w, d) - 1 :
               /\ NewOrderRow(w, d, o) \in DOMAIN db' => NewOrderRow(w, d, o) \in DOMAIN db
               /\ db'[Order(w, d, o)].ol_cnt = db[Order(w, d, o)].ol_cnt

\* The district after the commit, and each of its orders.
LEMMA CommittedDistrict ==
    ASSUME RowsOk(db), NEW t \in Terminals, WorkOk(t), commit(t),
           NEW w \in Warehouses, NEW d \in Districts
    PROVE  /\ District(w, d) \in DOMAIN db' /\ db'[District(w, d)] \in DistrictRow
           /\ nextOf(db', w, d) = nextOf(db, w, d) + IF Numbers(t, w, d) THEN 1 ELSE 0
           /\ nextOf(db', w, d) # nextOf(db, w, d) => District(w, d) \in DOMAIN work[t]
<1> DEFINE key == District(w, d)
<1>1. db' = Apply(db, work[t]) /\ DistrictWork(t, w, d)
  BY DEF commit, WorkOk
<1>2. key \in DOMAIN db /\ db[key] \in DistrictRow /\ nextOf(db, w, d) \in Nat
  BY NextIsNumber
<1>3. CASE key \in DOMAIN work[t]
  <2>1. work[t][key] \in DistrictRow
        /\ work[t][key].next = nextOf(db, w, d) + (IF Numbers(t, w, d) THEN 1 ELSE 0)
    BY <1>1, <1>3 DEF DistrictWork
  <2>3. work[t][key] # Nil
    BY <2>1, ValuesAreNotNil
  <2>2. key \in DOMAIN db' /\ db'[key] = work[t][key]
    BY <1>1, <1>3, <2>3, ApplyRows
  <2> QED BY <1>3, <2>1, <2>2 DEF nextOf
<1>4. CASE key \notin DOMAIN work[t]
  <2>1. key \in DOMAIN db' /\ db'[key] = db[key] /\ ~Numbers(t, w, d)
    BY <1>1, <1>2, <1>4, ApplyRows DEF DistrictWork
  <2> QED BY <1>2, <2>1 DEF nextOf
<1> QED BY <1>3, <1>4

\* A commit adds the order that the transaction has inserted, and leaves every
\* other one complete: one that it delivers is delivered in all its rows.
LEMMA CommittedOrder ==
    ASSUME RowsOk(db), NEW t \in Terminals, WorkOk(t), commit(t), pc[t] = "commit",
           NEW w \in Warehouses, NEW d \in Districts, NEW o \in Nat
    PROVE  /\ Inserts(t, w, d, o) => OrderOk(db', w, d, o) /\ o = nextOf(db, w, d)
           /\ ~Inserts(t, w, d, o) =>
                  /\ OrderOk(db, w, d, o) => OrderOk(db', w, d, o)
                  /\ NoOrder(db, w, d, o) => NoOrder(db', w, d, o)
                  /\ NewOrderRow(w, d, o) \in DOMAIN db' => NewOrderRow(w, d, o) \in DOMAIN db
                  /\ OrderOk(db, w, d, o) => db'[Order(w, d, o)].ol_cnt = db[Order(w, d, o)].ol_cnt
<1> DEFINE order == Order(w, d, o)
           lines == OrderLines(w, d, o)
           new   == NewOrderRow(w, d, o)
<1>1. db' = Apply(db, work[t]) /\ OrderWork(t, w, d, o) /\ DistrictWork(t, w, d)
  BY DEF commit, WorkOk
<1>2. CASE Inserts(t, w, d, o)
  <2>1. InsertedWork(t, w, d, o) /\ o = nextOf(db, w, d)
    BY <1>1, <1>2 DEF OrderWork, Inserts, DistrictWork
  <2>2. /\ order \in DOMAIN work[t] /\ lines \in DOMAIN work[t] /\ new \in DOMAIN work[t]
        /\ work[t][order] \in OrderRow /\ work[t][order].carrier = FALSE
        /\ work[t][new] = TRUE /\ work[t][lines] \in Seq(LineRow)
        /\ \A i \in DOMAIN work[t][lines] : work[t][lines][i].delivered = FALSE
        /\ Len(work[t][lines]) = work[t][order].ol_cnt
    BY <2>1 DEF InsertedWork
  <2>3. work[t][order] # Nil /\ work[t][lines] # Nil /\ work[t][new] # Nil
    BY <2>2, ValuesAreNotNil
  <2>4. /\ order \in DOMAIN db' /\ lines \in DOMAIN db' /\ new \in DOMAIN db'
        /\ db'[order] = work[t][order] /\ db'[lines] = work[t][lines]
    BY <1>1, <2>2, <2>3, ApplyRows
  <2> QED BY <1>2, <2>1, <2>2, <2>4 DEF OrderOk
<1>3. CASE ~Inserts(t, w, d, o) /\ order \in DOMAIN work[t]
  <2>1. DeliveredWork(t, w, d, o)
    BY <1>1, <1>3 DEF OrderWork
  <2>2. /\ lines \in DOMAIN work[t] /\ o \in 1..nextOf(db, w, d) - 1
        /\ new \in DOMAIN db => new \in DOMAIN work[t]
        /\ new \in DOMAIN work[t] => work[t][new] = Nil
        /\ work[t][order] \in OrderRow /\ work[t][order].carrier = TRUE
        /\ work[t][order].ol_cnt = db[order].ol_cnt
        /\ work[t][lines] \in Seq(LineRow) /\ Len(work[t][lines]) = work[t][order].ol_cnt
        /\ \A i \in DOMAIN work[t][lines] : work[t][lines][i].delivered = TRUE
    BY <1>3, <2>1 DEF DeliveredWork
  <2>3. work[t][order] # Nil /\ work[t][lines] # Nil
    BY <2>2, ValuesAreNotNil
  <2>4. /\ order \in DOMAIN db' /\ lines \in DOMAIN db'
        /\ db'[order] = work[t][order] /\ db'[lines] = work[t][lines]
    BY <1>1, <1>3, <2>2, <2>3, ApplyRows
  <2>5. new \notin DOMAIN db'
    BY <1>1, <2>2, ApplyRows
  <2>6. OrderOk(db', w, d, o)
    BY <2>2, <2>4, <2>5 DEF OrderOk
  <2>7. ~NoOrder(db, w, d, o)
    BY <2>2, OrdersThereAre DEF OrderOk, NoOrder
  <2> QED BY <1>3, <2>2, <2>4, <2>5, <2>6, <2>7
<1>4. CASE ~Inserts(t, w, d, o) /\ order \notin DOMAIN work[t]
  <2>1. lines \notin DOMAIN work[t] /\ new \notin DOMAIN work[t]
    BY <1>1, <1>4 DEF OrderWork, DeliveredWork
  <2>2. \A k : k \notin DOMAIN work[t] => /\ k \in DOMAIN db' <=> k \in DOMAIN db
                                          /\ k \in DOMAIN db => db'[k] = db[k]
    BY <1>1, ApplyRows
  <2>5. /\ new \in DOMAIN db' <=> new \in DOMAIN db
        /\ order \in DOMAIN db' <=> order \in DOMAIN db
        /\ lines \in DOMAIN db' <=> lines \in DOMAIN db
        /\ order \in DOMAIN db => db'[order] = db[order]
        /\ lines \in DOMAIN db => db'[lines] = db[lines]
        /\ new \in DOMAIN db => db'[new] = db[new]
    BY <1>4, <2>1, <2>2
  <2>3. SameOrder(db, db', w, d, o)
    <3> HIDE DEF order, lines, new
    <3>1. ASSUME NEW k \in {order, lines, new}
          PROVE  (k \in DOMAIN db' <=> k \in DOMAIN db) /\ (k \in DOMAIN db => db'[k] = db[k])
      <4>1. CASE k = order
        BY <2>5, <4>1
      <4>2. CASE k = lines
        BY <2>5, <4>2
      <4>3. CASE k = new
        BY <2>5, <4>3
      <4> QED BY <4>1, <4>2, <4>3
    <3> QED BY <3>1 DEF SameOrder, order, lines, new
  <2>4. OrderOk(db, w, d, o) => db'[order] = db[order]
    BY <2>5 DEF OrderOk
  <2>6. /\ OrderOk(db, w, d, o) => OrderOk(db', w, d, o)
        /\ NoOrder(db, w, d, o) => NoOrder(db', w, d, o)
    BY <2>3, SameOrderIsOk
  <2> QED BY <1>4, <2>4, <2>5, <2>6
<1> QED BY <1>2, <1>3, <1>4

\* A commit leaves all districts with complete orders, and changes the number
\* only of a district that the transaction has written.
LEMMA CommitStep ==
    ASSUME RowsOk(db), NEW t \in Terminals, WorkOk(t), commit(t), pc[t] = "commit"
    PROVE  /\ RowsOk(db') /\ DbGrows
           /\ \A w \in Warehouses, d \in Districts :
                  nextOf(db', w, d) # nextOf(db, w, d) => District(w, d) \in DOMAIN work[t]
<1>1. ASSUME NEW w \in Warehouses, NEW d \in Districts
      PROVE  /\ DistrictOk(db', w, d)
             /\ nextOf(db', w, d) >= nextOf(db, w, d)
             /\ \A o \in 1..nextOf(db, w, d) - 1 :
                    /\ NewOrderRow(w, d, o) \in DOMAIN db' => NewOrderRow(w, d, o) \in DOMAIN db
                    /\ db'[Order(w, d, o)].ol_cnt = db[Order(w, d, o)].ol_cnt
  <2>1. /\ District(w, d) \in DOMAIN db' /\ db'[District(w, d)] \in DistrictRow
        /\ nextOf(db', w, d) = nextOf(db, w, d) + IF Numbers(t, w, d) THEN 1 ELSE 0
    BY CommittedDistrict
  <2>2. nextOf(db, w, d) \in Nat \ {0}
    BY NextIsNumber
  <2>3. ASSUME NEW o \in Nat
        PROVE  /\ o \in 1..nextOf(db, w, d) - 1 => OrderOk(db, w, d, o) /\ ~Inserts(t, w, d, o)
               /\ o \notin 1..nextOf(db, w, d) - 1 => NoOrder(db, w, d, o)
    BY <2>2, OrdersThereAre, CommittedOrder
  <2>4. Numbers(t, w, d) => \A o \in Nat : Inserts(t, w, d, o) <=> o = nextOf(db, w, d)
    <3>1. DistrictWork(t, w, d)
      BY DEF WorkOk
    <3> QED BY <3>1 DEF Inserts, DistrictWork
  <2>5. ~Numbers(t, w, d) => \A o \in Nat : ~Inserts(t, w, d, o)
    BY DEF Inserts
  <2>6. ASSUME NEW o \in Nat
        PROVE  IF o \in 1..nextOf(db', w, d) - 1 THEN OrderOk(db', w, d, o) ELSE NoOrder(db', w, d, o)
    <3>1. CASE Inserts(t, w, d, o)
      <4>1. Numbers(t, w, d) /\ o = nextOf(db, w, d)
        BY <3>1, <2>4, <2>5
      <4>2. o \in 1..nextOf(db', w, d) - 1
        BY <4>1, <2>1, <2>2
      <4> QED BY <3>1, <4>2, CommittedOrder
    <3>2. CASE ~Inserts(t, w, d, o)
      <4>1. o \in 1..nextOf(db', w, d) - 1 <=> o \in 1..nextOf(db, w, d) - 1
        BY <3>2, <2>1, <2>2, <2>4
      <4>2. /\ OrderOk(db, w, d, o) => OrderOk(db', w, d, o)
            /\ NoOrder(db, w, d, o) => NoOrder(db', w, d, o)
        BY <3>2, CommittedOrder
      <4> QED BY <4>1, <4>2, <2>3
    <3> QED BY <3>1, <3>2
  <2>7. nextOf(db', w, d) >= 1 /\ nextOf(db', w, d) >= nextOf(db, w, d)
    BY <2>1, <2>2
  <2>8. DistrictOk(db', w, d)
    BY <2>1, <2>6, <2>7 DEF DistrictOk
  <2>9. ASSUME NEW o \in 1..nextOf(db, w, d) - 1
        PROVE  /\ NewOrderRow(w, d, o) \in DOMAIN db' => NewOrderRow(w, d, o) \in DOMAIN db
               /\ db'[Order(w, d, o)].ol_cnt = db[Order(w, d, o)].ol_cnt
    <3>1. o \in Nat
      BY <2>2
    <3> QED BY <3>1, <2>3, CommittedOrder
  <2> QED BY <2>7, <2>8, <2>9
<1> QED BY <1>1, CommittedDistrict DEF RowsOk, DbGrows

-----------------------------------------------------------------------------
(* What a step writes.                                                     *)

\* The rows of work before and after.
Rewritten(t, new) ==
    /\ DOMAIN work'[t] = DOMAIN new \cup DOMAIN work[t]
    /\ \A k \in DOMAIN new : work'[t][k] = new[k]
    /\ \A k \in DOMAIN work[t] \ DOMAIN new : work'[t][k] = work[t][k]

\* Write puts the new rows into work, and keeps the others.
LEMMA WriteRewrites ==
    ASSUME TypeInv, NEW t \in Terminals, NEW new, Write(t, new)
    PROVE  Rewritten(t, new)
<1>1. work'[t] = new ++ work[t]
  BY DEF TypeInv, IsFcn, Write
<1>2. /\ DOMAIN (new ++ work[t]) = DOMAIN new \cup DOMAIN work[t]
      /\ \A k \in DOMAIN new : (new ++ work[t])[k] = new[k]
      /\ \A k \in DOMAIN work[t] \ DOMAIN new : (new ++ work[t])[k] = work[t][k]
  BY MergeRows, Zenon
<1> QED BY <1>1, <1>2 DEF Rewritten

\* The tables of orders and districts.
OrderKinds == {"district", "orders", "order_line", "new_orders"}

\* t has in work what it had of the key.
Kept(t, k) ==
    /\ k \in DOMAIN work'[t] <=> k \in DOMAIN work[t]
    /\ k \in DOMAIN work[t] => work'[t][k] = work[t][k]

\* What is in work after one row is written ...
LEMMA WriteOne ==
    ASSUME TypeInv, NEW t \in Terminals, NEW key, NEW v, Write(t, Row(key, v))
    PROVE  /\ key \in DOMAIN work'[t] /\ work'[t][key] = v
           /\ \A k : k # key => Kept(t, k)
<1>1. Rewritten(t, Row(key, v))
  BY WriteRewrites
<1>2. DOMAIN Row(key, v) = {key} /\ Row(key, v)[key] = v
  BY OneRow
<1> QED BY <1>1, <1>2 DEF Rewritten, Kept

\* Two rows under different keys.
LEMMA MergeTwo ==
    ASSUME NEW f, NEW g, NEW k1, NEW v1, NEW k2, NEW v2, k1 # k2,
           DOMAIN f = {k1}, f[k1] = v1, DOMAIN g = {k2}, g[k2] = v2
    PROVE  DOMAIN (f ++ g) = {k1, k2} /\ (f ++ g)[k1] = v1 /\ (f ++ g)[k2] = v2
<1>2. /\ DOMAIN (f ++ g) = DOMAIN f \cup DOMAIN g
      /\ \A k \in DOMAIN f : (f ++ g)[k] = f[k]
      /\ \A k \in DOMAIN g \ DOMAIN f : (f ++ g)[k] = g[k]
  BY MergeRows, Zenon
<1> QED BY <1>2

\* ... after two are written ...
LEMMA WriteTwo ==
    ASSUME TypeInv, NEW t \in Terminals, NEW k1, NEW v1, NEW k2, NEW v2, k1 # k2,
           Write(t, Row(k1, v1) ++ Row(k2, v2))
    PROVE  /\ k1 \in DOMAIN work'[t] /\ work'[t][k1] = v1
           /\ k2 \in DOMAIN work'[t] /\ work'[t][k2] = v2
           /\ \A k : k \notin {k1, k2} => Kept(t, k)
<1>1. PICK f, g : f = Row(k1, v1) /\ g = Row(k2, v2)
  OBVIOUS
<1>2. Rewritten(t, f ++ g)
  BY <1>1, WriteRewrites
<1>4. DOMAIN f = {k1} /\ f[k1] = v1 /\ DOMAIN g = {k2} /\ g[k2] = v2
  BY <1>1, OneRow
<1>5. /\ DOMAIN (f ++ g) = DOMAIN f \cup DOMAIN g
      /\ \A k \in DOMAIN f : (f ++ g)[k] = f[k]
      /\ \A k \in DOMAIN g \ DOMAIN f : (f ++ g)[k] = g[k]
  BY MergeRows, Zenon
<1>3. DOMAIN (f ++ g) = {k1, k2} /\ (f ++ g)[k1] = v1 /\ (f ++ g)[k2] = v2
  BY <1>4, <1>5
<1> QED BY <1>2, <1>3 DEF Rewritten, Kept

\* ... and after three.
LEMMA WriteThree ==
    ASSUME TypeInv, NEW t \in Terminals, NEW k1, NEW v1, NEW k2, NEW v2, NEW k3, NEW v3,
           k1 # k2, k1 # k3, k2 # k3, Write(t, Row(k1, v1) ++ Row(k2, v2) ++ Row(k3, v3))
    PROVE  /\ k1 \in DOMAIN work'[t] /\ work'[t][k1] = v1
           /\ k2 \in DOMAIN work'[t] /\ work'[t][k2] = v2
           /\ k3 \in DOMAIN work'[t] /\ work'[t][k3] = v3
           /\ \A k : k \notin {k1, k2, k3} => Kept(t, k)
<1>1. PICK e, f, g, h : e = Row(k1, v1) /\ f = Row(k2, v2) /\ g = Row(k3, v3) /\ h = e ++ f
  OBVIOUS
<1>2. Rewritten(t, h ++ g)
  BY <1>1, WriteRewrites
<1>7. DOMAIN e = {k1} /\ e[k1] = v1 /\ DOMAIN f = {k2} /\ f[k2] = v2
  BY <1>1, OneRow
<1>3. DOMAIN (e ++ f) = {k1, k2} /\ (e ++ f)[k1] = v1 /\ (e ++ f)[k2] = v2
  BY <1>7, MergeTwo
<1>4. DOMAIN h = {k1, k2} /\ h[k1] = v1 /\ h[k2] = v2 /\ DOMAIN g = {k3} /\ g[k3] = v3
  BY <1>1, <1>3, OneRow
<1>5. /\ DOMAIN (h ++ g) = DOMAIN h \cup DOMAIN g
      /\ \A k \in DOMAIN h : (h ++ g)[k] = h[k]
      /\ \A k \in DOMAIN g \ DOMAIN h : (h ++ g)[k] = g[k]
  BY MergeRows, Zenon
<1>6. /\ DOMAIN (h ++ g) = {k1, k2, k3}
      /\ (h ++ g)[k1] = v1 /\ (h ++ g)[k2] = v2 /\ (h ++ g)[k3] = v3
  BY <1>4, <1>5
<1> QED BY <1>2, <1>6 DEF Rewritten, Kept

-----------------------------------------------------------------------------
(* The orders that the terminal of a step is working on.                   *)

\* A terminal that has written nothing, and is not to deliver an order.
LEMMA NothingWritten ==
    ASSUME NEW t \in Terminals, work'[t] = NoRows,
           pc'[t] \notin {"order", "line", "delete", "carrier"},
           ~(pc'[t] = "commit" /\ tx'[t].kind = "NewOrder")
    PROVE  WorkOk(t)'
<1>1. \A k : k \notin DOMAIN work'[t]
  BY DEF NoRows
<1>2. ~Ordering(t)' /\ \A w, d, o : ~Delivering(t, w, d, o)'
  BY DEF Ordering, Delivering
<1>3. \A w, d, o : DeliveredWork(t, w, d, o)' /\ ~Inserts(t, w, d, o)'
  BY <1>1, <1>2 DEF DeliveredWork, Inserts, Numbers
<1>4. \A w, d : DistrictWork(t, w, d)'
  BY <1>1, <1>2 DEF DistrictWork, Numbers
<1> QED BY <1>3, <1>4 DEF WorkOk, OrderWork

\* A step of the call that does not touch what is about orders.
Untouched(t) ==
    /\ UNCHANGED db /\ tx'[t] = tx[t] /\ held[t] \subseteq held'[t]
    /\ pc'[t] \notin {"status", "lines", "level", "count"}

\* What a transaction has written of a district stays right when the step
\* writes none.
LEMMA DistrictKept ==
    ASSUME NEW t \in Terminals, Untouched(t), NEW w, NEW d, DistrictWork(t, w, d),
           Kept(t, District(w, d)), Ordering(t)' <=> Ordering(t),
           Ordering(t) => loc'[t].o = loc[t].o
    PROVE  DistrictWork(t, w, d)'
<1>1. Numbers(t, w, d)' <=> Numbers(t, w, d)
  BY DEF Numbers, Untouched
<1>2. nextOf(db, w, d)' = nextOf(db, w, d)
  BY DEF nextOf, Untouched
<1> QED BY <1>1, <1>2 DEF DistrictWork, Kept, Untouched, Numbers
 
\* What a Delivery has written of an order stays right when the step writes
\* nothing of the order.
LEMMA DeliveredKept ==
    ASSUME NEW t \in Terminals, Untouched(t), NEW w, NEW d, NEW o, DeliveredWork(t, w, d, o),
           Kept(t, Order(w, d, o)), Kept(t, OrderLines(w, d, o)), Kept(t, NewOrderRow(w, d, o)),
           Delivers(t) => Delivers(t)', ~(pc[t] = "carrier" /\ Delivering(t, w, d, o)),
           Delivering(t, w, d, o)' => o \in 1..nextOf(db, w, d) - 1 /\ pc'[t] # "carrier"
    PROVE  DeliveredWork(t, w, d, o)'
<1> DEFINE order == Order(w, d, o)
           lines == OrderLines(w, d, o)
           new   == NewOrderRow(w, d, o)
<1>1. db' = db /\ nextOf(db, w, d)' = nextOf(db, w, d)
  BY DEF nextOf, Untouched
<1>2. new \in DOMAIN work'[t] =>
          Delivers(t)' /\ work'[t][new] = Nil /\ order \in DOMAIN work'[t]
  BY DEF DeliveredWork, Kept
<1>3. order \in DOMAIN work'[t] <=> lines \in DOMAIN work'[t]
  BY DEF DeliveredWork, Kept
<1>4. order \in DOMAIN work'[t] =>
          /\ Delivers(t)' /\ work'[t][order] = work[t][order] /\ work'[t][lines] = work[t][lines]
          /\ order \in DOMAIN work[t] /\ (new \in DOMAIN work'[t] <=> new \in DOMAIN work[t])
  BY DEF DeliveredWork, Kept
<1> QED BY <1>1, <1>2, <1>3, <1>4 DEF DeliveredWork

\* An UPDATE gets the locks that it requests; no committed row changes.
LEMMA UpdateFacts ==
    ASSUME TypeInv, NEW t \in Terminals, NEW label, Update(t, label)
    PROVE  /\ pc[t] = label /\ UNCHANGED <<db, tx>> /\ held'[t] = held[t] \cup requests(t)
    BY DEF TypeInv, IsFcn, Update, Acquire, at, bookkeeping

\* goto and set change pc and loc of their terminal.
LEMMA GotoFacts ==
    ASSUME TypeInv, NEW t \in Terminals
    PROVE  /\ \A label : goto(t, label) => pc'[t] = label
           /\ \A locals : set(t, locals) => loc'[t] = locals
           /\ DOMAIN loc[t] = Fields
<1>1. DOMAIN NoLocals = Fields
  BY DEF NoLocals, Fields
<1> QED BY <1>1 DEF TypeInv, IsFcn, goto, set, Doing

\* The three rows of an order are kept.
OrderKept(t, w, d, o) ==
    Kept(t, Order(w, d, o)) /\ Kept(t, OrderLines(w, d, o)) /\ Kept(t, NewOrderRow(w, d, o))

\* A step that writes no order and, unless t is ordering, no number of one.
LEMMA OrdersKept ==
    ASSUME NEW t \in Terminals, WorkOk(t), Untouched(t), ~Ordering(t), ~Ordering(t)' \/ pc'[t] = "order",
           \A w, d, o : OrderKept(t, w, d, o), pc[t] # "carrier", Delivers(t) => Delivers(t)',
           \A w \in Warehouses, d \in Districts, o \in Nat :
               Delivering(t, w, d, o)' => o \in 1..nextOf(db, w, d) - 1 /\ pc'[t] # "carrier"
    PROVE  \A w \in Warehouses, d \in Districts, o \in Nat : OrderWork(t, w, d, o)'
<1> SUFFICES ASSUME NEW w \in Warehouses, NEW d \in Districts, NEW o \in Nat
             PROVE  OrderWork(t, w, d, o)'
  OBVIOUS
<1>1. ~Inserts(t, w, d, o) /\ ~Inserts(t, w, d, o)'
  BY DEF Inserts, Numbers
<1>2. DeliveredWork(t, w, d, o)
  BY <1>1 DEF WorkOk, OrderWork
<1>3. DeliveredWork(t, w, d, o)'
  BY <1>2, DeliveredKept DEF OrderKept
<1> QED BY <1>1, <1>3 DEF OrderWork

\* The row of a district as a transaction that has taken no number there reads
\* it: the number is the committed one.
LEMMA LatestDistrict ==
    ASSUME RowsOk(db), NEW t \in Terminals, NEW w \in Warehouses, NEW d \in Districts,
           DistrictWork(t, w, d), ~Numbers(t, w, d)
    PROVE  /\ Latest(t)[District(w, d)] \in DistrictRow
           /\ Latest(t)[District(w, d)].next = nextOf(db, w, d)
           /\ nextOf(db, w, d) \in Nat
<1> DEFINE key == District(w, d)
<1>1. key \in DOMAIN db /\ db[key] \in DistrictRow /\ nextOf(db, w, d) \in Nat
  BY NextIsNumber
<1>2. CASE key \in DOMAIN work[t]
  <2>1. work[t][key] \in DistrictRow /\ work[t][key].next = nextOf(db, w, d)
    BY <1>1, <1>2 DEF DistrictWork
  <2>2. work[t][key] # Nil
    BY <2>1, ValuesAreNotNil
  <2>3. Latest(t)[key] = work[t][key]
    BY <1>2, <2>2, ApplyRows DEF Latest
  <2> QED BY <1>1, <2>1, <2>3
<1>3. CASE key \notin DOMAIN work[t]
  <2>1. Latest(t)[key] = db[key]
    BY <1>1, <1>3, ApplyRows DEF Latest
  <2> QED BY <1>1, <2>1 DEF nextOf
<1> QED BY <1>2, <1>3

\* SELECT d_next_o_id ... FOR UPDATE and its UPDATE: the number taken is the
\* committed one, the row written is one ahead of it.
LEMMA TakeOrderNumberWork ==
    ASSUME TypeInv, RowsOk(db), NEW t \in Terminals, WorkOk(t), TakeOrderNumber(t)
    PROVE  WorkOk(t)'
<1> DEFINE w == tx[t].w
           d == tx[t].d
           key == District(w, d)
           row == Latest(t)[key]
           new == [row EXCEPT !.next = @ + 1]
<1>1. /\ pc[t] = "district" /\ UNCHANGED <<db, tx>> /\ held'[t] = held[t] \cup requests(t)
  BY UpdateFacts DEF TakeOrderNumber
<1>2. w \in Warehouses /\ d \in Districts
  BY <1>1, Kinds DEF TypeInv, Doing
<1>3. ~Ordering(t) /\ ~Delivers(t) /\ requests(t) = {X(key)}
  BY <1>1, Requests DEF Ordering, Delivers
<1>4. row \in DistrictRow /\ row.next = nextOf(db, w, d) /\ nextOf(db, w, d) \in Nat
  BY <1>2, <1>3, LatestDistrict DEF WorkOk, Numbers
<1>5. new \in DistrictRow /\ new.next = nextOf(db, w, d) + 1
  BY <1>4 DEF DistrictRow
<1>6. /\ key \in DOMAIN work'[t] /\ work'[t][key] = new
      /\ \A k : k # key => Kept(t, k)
  <2> HIDE DEF key, new
  <2>1. Write(t, Row(key, new))
    BY DEF TakeOrderNumber, key, new
  <2> QED BY <2>1, WriteOne
<1>7. pc'[t] = "order" /\ loc'[t].o = row.next
  <2>1. goto(t, "order") /\ set(t, [loc[t] EXCEPT !.o = row.next])
    BY DEF TakeOrderNumber
  <2> QED BY <2>1, GotoFacts DEF Fields
<1>8. Untouched(t) /\ Ordering(t)'
  BY <1>1, <1>7 DEF Untouched, Ordering
<1>9. \A v, e, o : OrderKept(t, v, e, o)
  BY <1>6, Keys DEF OrderKept
<1>10. \A v \in Warehouses, e \in Districts, o \in Nat : OrderWork(t, v, e, o)'
  BY <1>1, <1>3, <1>7, <1>8, <1>9, OrdersKept DEF Delivering
<1>11. ASSUME NEW v \in Warehouses, NEW e \in Districts
       PROVE  DistrictWork(t, v, e)'
  <2>1. DistrictWork(t, v, e) /\ nextOf(db, v, e)' = nextOf(db, v, e)
    BY <1>1 DEF WorkOk, nextOf
  <2>2. CASE v = w /\ e = d
    BY <1>1, <1>3, <1>4, <1>5, <1>6, <1>7, <1>8, <2>1, <2>2 DEF DistrictWork, Numbers
  <2>3. CASE ~(v = w /\ e = d)
    <3>1. Kept(t, District(v, e)) /\ ~Numbers(t, v, e) /\ ~Numbers(t, v, e)'
      BY <1>1, <1>3, <1>6, <2>3, Keys DEF Numbers
    <3> QED BY <1>1, <2>1, <3>1 DEF DistrictWork, Kept
  <2> QED BY <2>2, <2>3
<1> QED BY <1>7, <1>10, <1>11 DEF WorkOk

\* What is ordered is in the rows of the order, and all other rows are kept.
LEMMA OrderingWork ==
    ASSUME NEW t \in Terminals, WorkOk(t), Untouched(t), Ordering(t), Ordering(t)', pc'[t] # "order",
           NEW w1, NEW d1, NEW o1, w1 = tx[t].w, d1 = tx[t].d, o1 = loc[t].o, o1 = loc'[t].o,
           \A w, d : Kept(t, District(w, d)),
           \A w, d, o : ~(w = w1 /\ d = d1 /\ o = o1) => OrderKept(t, w, d, o),
           InsertedWork(t, w1, d1, o1)'
    PROVE  WorkOk(t)'
<1>1. ASSUME NEW w \in Warehouses, NEW d \in Districts
      PROVE  DistrictWork(t, w, d)'
  BY DistrictKept DEF WorkOk
<1>2. ASSUME NEW w \in Warehouses, NEW d \in Districts, NEW o \in Nat
      PROVE  OrderWork(t, w, d, o)'
  <2>1. CASE w = w1 /\ d = d1 /\ o = o1
    <3>1. Inserts(t, w, d, o)'
      BY <2>1 DEF Inserts, Numbers, Untouched
    <3>2. InsertedWork(t, w, d, o)'
      BY <2>1
    <3> QED BY <3>1, <3>2 DEF OrderWork
  <2>2. CASE ~(w = w1 /\ d = d1 /\ o = o1)
    <3>1. ~Inserts(t, w, d, o) /\ ~Inserts(t, w, d, o)'
      BY <2>2 DEF Inserts, Numbers, Untouched
    <3>2. DeliveredWork(t, w, d, o)
      BY <3>1 DEF WorkOk, OrderWork
    <3>3. pc[t] # "carrier" /\ ~Delivers(t) /\ ~Delivering(t, w, d, o)'
      BY DEF Ordering, Delivers, Delivering
    <3>4. DeliveredWork(t, w, d, o)'
      BY <2>2, <3>2, <3>3, DeliveredKept DEF OrderKept
    <3> QED BY <3>1, <3>4 DEF OrderWork
  <2> QED BY <2>1, <2>2
<1> QED BY <1>1, <1>2 DEF WorkOk, Untouched

\* The INSERTs of an order: its three rows, with no lines yet.
LEMMA InsertOrderWork ==
    ASSUME TypeInv, RowsOk(db), NEW t \in Terminals, WorkOk(t), InsertOrder(t)
    PROVE  WorkOk(t)'
<1>0. PICK w, d, o : w = tx[t].w /\ d = tx[t].d /\ o = loc[t].o
  OBVIOUS
<1> DEFINE order == [cust |-> tx[t].c, carrier |-> FALSE, ol_cnt |-> Len(tx[t].lines)]
           k1 == Order(w, d, o)
           k2 == NewOrderRow(w, d, o)
           k3 == OrderLines(w, d, o)
<1>1. /\ pc[t] = "order" /\ UNCHANGED <<db, tx>> /\ held'[t] = held[t] \cup requests(t)
  BY UpdateFacts DEF InsertOrder
<1>2. tx[t].c \in Customers /\ tx[t].lines \in Seq(Line) \ {<<>>} /\ tx[t].kind = "NewOrder"
  BY <1>1, Kinds DEF TypeInv, Doing
<1>3. order \in OrderRow /\ order.carrier = FALSE /\ order.ol_cnt = Len(tx[t].lines)
  <2>1. Len(tx[t].lines) \in Nat
    BY <1>2
  <2> QED BY <1>2, <2>1 DEF OrderRow
<1>4. /\ k1 \in DOMAIN work'[t] /\ work'[t][k1] = order
      /\ k2 \in DOMAIN work'[t] /\ work'[t][k2] = TRUE
      /\ k3 \in DOMAIN work'[t] /\ work'[t][k3] = <<>>
      /\ \A k : k \notin {k1, k2, k3} => Kept(t, k)
  <2>1. Write(t, Row(k1, order) ++ Row(k2, TRUE) ++ Row(k3, <<>>))
    BY <1>0 DEF InsertOrder
  <2>2. k1 # k2 /\ k1 # k3 /\ k2 # k3
    BY Keys
  <2> HIDE DEF k1, k2, k3, order
  <2> QED BY <2>1, <2>2, WriteThree
<1>5. pc'[t] = "line" /\ loc'[t].o = o /\ loc'[t].n = loc[t].n
  <2>1. goto(t, "line") /\ set(t, [loc[t] EXCEPT !.lines = sortedLines(tx[t].lines)])
    BY DEF InsertOrder
  <2> QED BY <1>0, <2>1, GotoFacts DEF Fields
<1>6. loc[t].n = 1
  BY <1>1 DEF TypeInv, Doing
<1>7. Untouched(t) /\ Ordering(t) /\ Ordering(t)'
  BY <1>1, <1>5 DEF Untouched, Ordering
<1>8. \A v, e : Kept(t, District(v, e))
  <2>1. \A v, e : District(v, e) \notin {k1, k2, k3}
    BY DEF District, Order, NewOrderRow, OrderLines
  <2> HIDE DEF k1, k2, k3
  <2> QED BY <1>4, <2>1
<1>9. \A v, e, i : ~(v = w /\ e = d /\ i = o) => OrderKept(t, v, e, i)
  BY <1>4, Keys DEF OrderKept
<1>10. <<>> \in Seq(LineRow) /\ Len(<<>>) = 0 /\ DOMAIN <<>> = {}
  OBVIOUS
<1>11. InsertedWork(t, w, d, o)'
  <2> HIDE DEF order
  <2> QED BY <1>1, <1>3, <1>4, <1>5, <1>6, <1>10 DEF InsertedWork
<1> QED BY <1>0, <1>5, <1>7, <1>8, <1>9, <1>11, OrderingWork

\* The line that New Order inserts next is one of the lines of the call.
LEMMA LineOfOrder ==
    ASSUME TypeInv, NEW t \in Terminals, pc[t] = "line"
    PROVE  /\ loc[t].n \in 1..Len(loc[t].lines) /\ loc[t].lines[loc[t].n] \in Line
           /\ Len(loc[t].lines) = Len(tx[t].lines) /\ Len(tx[t].lines) \in Nat
           /\ tx[t].kind = "NewOrder" /\ tx[t].w \in Warehouses /\ tx[t].d \in Districts
<1>1. /\ tx[t] \in NewOrderCall /\ loc[t].lines = sortedLines(tx[t].lines)
      /\ loc[t].n \in 1..Len(loc[t].lines)
  BY DEF TypeInv, Doing
<1>2. /\ tx[t].lines \in Seq(Line) \ {<<>>} /\ tx[t].kind = "NewOrder"
      /\ tx[t].w \in Warehouses /\ tx[t].d \in Districts
  BY <1>1, Kinds
<1>3. /\ sortedLines(tx[t].lines) \in Seq(Line)
      /\ Len(sortedLines(tx[t].lines)) = Len(tx[t].lines) /\ Len(tx[t].lines) \in Nat
  BY <1>2, SortedLines
<1> QED BY <1>1, <1>2, <1>3

\* The INSERT of an order line: after n of them the order has n lines.
LEMMA OrderLineWork ==
    ASSUME TypeInv, RowsOk(db), NEW t \in Terminals, WorkOk(t), OrderLine(t)
    PROVE  WorkOk(t)'
<1>0. PICK w, d, o, n, line, stock, key, old, next, quantity :
          /\ w = tx[t].w /\ d = tx[t].d /\ o = loc[t].o /\ n = loc[t].n /\ line = loc[t].lines[n]
          /\ stock = Stock(line.supply, line.item) /\ key = OrderLines(w, d, o) /\ old = work[t][key]
          /\ next = [item |-> line.item, supply |-> line.supply, qty |-> line.qty,
                     amount |-> line.qty, delivered |-> FALSE]
          /\ quantity = nextQuantity(Latest(t)[stock], line.qty)
  OBVIOUS
<1>1. /\ pc[t] = "line" /\ UNCHANGED <<db, tx>> /\ held'[t] = held[t] \cup requests(t)
  BY UpdateFacts DEF OrderLine
<1>2. /\ n \in 1..Len(loc[t].lines) /\ line \in Line /\ Len(loc[t].lines) = Len(tx[t].lines)
      /\ Len(tx[t].lines) \in Nat /\ tx[t].kind = "NewOrder" /\ w \in Warehouses /\ d \in Districts
  BY <1>0, <1>1, LineOfOrder
<1>3. DistrictWork(t, w, d) /\ Numbers(t, w, d) /\ o \in Nat
  <2>1. DistrictWork(t, w, d) /\ Numbers(t, w, d)
    BY <1>0, <1>1, <1>2 DEF WorkOk, Numbers, Ordering
  <2> QED BY <1>0, <1>2, <2>1, NextIsNumber DEF DistrictWork
<1>4. InsertedWork(t, w, d, o)
  BY <1>0, <1>1, <1>2, <1>3 DEF WorkOk, OrderWork, Inserts
<1>5. /\ key \in DOMAIN work[t] /\ old \in Seq(LineRow) /\ Len(old) = n - 1
      /\ \A i \in DOMAIN old : old[i].delivered = FALSE
  BY <1>0, <1>1, <1>4 DEF InsertedWork
<1>6. Latest(t)[key] = old
  <2>1. old # Nil
    BY <1>5, ValuesAreNotNil
  <2>2. key \in DOMAIN work[t] /\ work[t][key] # Nil
    BY <1>0, <1>5, <2>1
  <2>3. Apply(db, work[t])[key] = work[t][key]
    BY <2>2, ApplyRows
  <2> QED BY <1>0, <2>3 DEF Latest
<1>7. next \in LineRow /\ next.delivered = FALSE
  <2>1. line.item \in Items
    BY <1>0 DEF OrderLine
  <2>2. line.supply \in Warehouses /\ line.qty \in 1..10
    BY <1>2 DEF Line
  <2>3. line.qty \in Nat
    BY <2>2
  <2>4. next = [item |-> line.item, supply |-> line.supply, qty |-> line.qty,
                amount |-> line.qty, delivered |-> FALSE]
    BY <1>0
  <2> QED BY <2>1, <2>2, <2>3, <2>4 DEF LineRow
<1>8. /\ Append(old, next) \in Seq(LineRow) /\ Len(Append(old, next)) = n
      /\ \A i \in DOMAIN Append(old, next) : Append(old, next)[i].delivered = FALSE
  <2> QED BY <1>2, <1>5, <1>7
<1>9. /\ key \in DOMAIN work'[t] /\ work'[t][key] = Append(old, next)
      /\ \A k : k \notin {stock, key} => Kept(t, k)
  <2>1. Write(t, Row(stock, quantity) ++ Row(key, Append(old, next)))
    BY <1>0, <1>6 DEF OrderLine
  <2>2. stock # key
    BY <1>0 DEF Stock, OrderLines
  <2>3. PICK rows : rows = Append(old, next)
    OBVIOUS
  <2>4. Write(t, Row(stock, quantity) ++ Row(key, rows))
    BY <2>1, <2>3
  <2> QED BY <2>2, <2>3, <2>4, WriteTwo
<1>10. /\ pc'[t] = IF n = Len(tx[t].lines) THEN "commit" ELSE "line"
       /\ loc'[t].o = o /\ loc'[t].n = n + 1
  <2>1. /\ goto(t, IF n = Len(loc[t].lines) THEN "commit" ELSE "line")
        /\ set(t, [loc[t] EXCEPT !.n = n + 1])
    BY <1>0 DEF OrderLine
  <2> QED BY <1>0, <1>2, <2>1, GotoFacts DEF Fields
<1>11. Untouched(t) /\ Ordering(t) /\ Ordering(t)' /\ pc'[t] # "order"
  BY <1>1, <1>2, <1>10 DEF Untouched, Ordering
<1>12. \A v, e : Kept(t, District(v, e))
  <2>1. stock[1] = "stock" /\ key[1] = "order_line"
    BY <1>0 DEF Stock, OrderLines
  <2> QED BY <1>9, <2>1 DEF District
<1>13. \A v, e, i : ~(v = w /\ e = d /\ i = o) => OrderKept(t, v, e, i)
  <2> TAKE v, e, i
  <2> HAVE ~(v = w /\ e = d /\ i = o)
  <2>1. /\ Order(v, e, i) \notin {stock, key} /\ NewOrderRow(v, e, i) \notin {stock, key}
        /\ OrderLines(v, e, i) \notin {stock, key}
    BY <1>0 DEF Stock, Order, NewOrderRow, OrderLines
  <2> QED BY <1>9, <2>1 DEF OrderKept
<1>14. Kept(t, Order(w, d, o)) /\ Kept(t, NewOrderRow(w, d, o))
  <2>1. Order(w, d, o) \notin {stock, key} /\ NewOrderRow(w, d, o) \notin {stock, key}
    BY <1>0 DEF Stock, Order, NewOrderRow, OrderLines
  <2> QED BY <1>9, <2>1
<1>15. InsertedWork(t, w, d, o)'
  <2>1. n = Len(tx[t].lines) => Len(work'[t][key]) = Len(tx[t].lines)
    BY <1>8, <1>9
  <2>2. n # Len(tx[t].lines) => Len(work'[t][key]) = loc'[t].n - 1
    BY <1>2, <1>8, <1>9, <1>10
  <2>3. /\ {Order(w, d, o), key, NewOrderRow(w, d, o)} \subseteq DOMAIN work[t]
        /\ work[t][Order(w, d, o)] \in OrderRow /\ work[t][Order(w, d, o)].carrier = FALSE
        /\ work[t][Order(w, d, o)].ol_cnt = Len(tx[t].lines) /\ work[t][NewOrderRow(w, d, o)] = TRUE
    BY <1>0, <1>4 DEF InsertedWork
  <2>4. /\ {Order(w, d, o), key, NewOrderRow(w, d, o)} \subseteq DOMAIN work'[t]
        /\ work'[t][Order(w, d, o)] = work[t][Order(w, d, o)]
        /\ work'[t][NewOrderRow(w, d, o)] = work[t][NewOrderRow(w, d, o)]
    BY <2>3, <1>9, <1>14 DEF Kept
  <2>5. tx'[t] = tx[t]
    BY <1>1
  <2>6. pc'[t] = "line" <=> n # Len(tx[t].lines)
    BY <1>10
  <2>7. /\ work'[t][key] \in Seq(LineRow)
        /\ \A i \in DOMAIN work'[t][key] : work'[t][key][i].delivered = FALSE
        /\ Len(work'[t][key]) = IF pc'[t] = "line" THEN loc'[t].n - 1 ELSE Len(tx[t].lines)
    BY <1>8, <1>9, <2>1, <2>2, <2>6
  <2>8. key = OrderLines(w, d, o)
    BY <1>0
  <2> QED BY <2>3, <2>4, <2>5, <2>7, <2>8 DEF InsertedWork
<1> QED BY <1>0, <1>10, <1>11, <1>12, <1>13, <1>15, OrderingWork

\* A step that writes no row of a district or an order, and orders nothing.
LEMMA OtherRowsWritten ==
    ASSUME NEW t \in Terminals, WorkOk(t), Untouched(t), ~Ordering(t), ~Ordering(t)',
           \A w, d : Kept(t, District(w, d)), \A w, d, o : OrderKept(t, w, d, o),
           pc[t] # "carrier", Delivers(t) => Delivers(t)',
           \A w \in Warehouses, d \in Districts, o \in Nat :
               Delivering(t, w, d, o)' => o \in 1..nextOf(db, w, d) - 1 /\ pc'[t] # "carrier"
    PROVE  WorkOk(t)'
<1>1. \A w \in Warehouses, d \in Districts, o \in Nat : OrderWork(t, w, d, o)'
  BY OrdersKept
<1>2. \A w \in Warehouses, d \in Districts : DistrictWork(t, w, d)'
  BY DistrictKept DEF WorkOk
<1> QED BY <1>1, <1>2 DEF WorkOk, Untouched

\* A key of another kind is no row of a district or an order.
LEMMA OtherKey ==
    ASSUME NEW key, key[1] \notin OrderKinds
    PROVE  /\ \A w, d : District(w, d) # key
           /\ \A w, d, o : Order(w, d, o) # key /\ OrderLines(w, d, o) # key /\ NewOrderRow(w, d, o) # key
    BY DEF OrderKinds, District, Order, OrderLines, NewOrderRow

\* Payment's UPDATE of the warehouse touches no order.
LEMMA PayWarehouseWork ==
    ASSUME TypeInv, NEW t \in Terminals, WorkOk(t), PayWarehouse(t)
    PROVE  WorkOk(t)'
<1>0. PICK key, v : key = Warehouse(tx[t].w) /\ v = Latest(t)[key] + tx[t].amount
  OBVIOUS
<1>1. /\ pc[t] = "warehouse" /\ UNCHANGED <<db, tx>> /\ held'[t] = held[t] \cup requests(t)
  BY UpdateFacts DEF PayWarehouse
<1>2. pc'[t] = "payment"
  BY GotoFacts DEF PayWarehouse
<1>3. \A k : k # key => Kept(t, k)
  <2>1. Write(t, Row(key, v))
    BY <1>0 DEF PayWarehouse
  <2> QED BY <2>1, WriteOne
<1>4. key[1] \notin OrderKinds
  BY <1>0 DEF Warehouse, OrderKinds
<1>5. Untouched(t) /\ ~Ordering(t) /\ ~Ordering(t)' /\ ~Delivers(t) /\ \A w, d, o : ~Delivering(t, w, d, o)'
  BY <1>1, <1>2 DEF Untouched, Ordering, Delivers, Delivering
<1>6. \A w, d : Kept(t, District(w, d)) /\ \A o : OrderKept(t, w, d, o)
  BY <1>3, <1>4, OtherKey DEF OrderKept
<1> QED BY <1>1, <1>5, <1>6, OtherRowsWritten

\* Payment's UPDATE of the district keeps d_next_o_id.
LEMMA PayDistrictWork ==
    ASSUME TypeInv, RowsOk(db), NEW t \in Terminals, WorkOk(t), PayDistrict(t)
    PROVE  WorkOk(t)'
<1>0. PICK w, d, key, row, new :
          /\ w = tx[t].w /\ d = tx[t].d /\ key = District(w, d) /\ row = Latest(t)[key]
          /\ new = [row EXCEPT !.ytd = @ + tx[t].amount]
  OBVIOUS
<1>1. /\ pc[t] = "payment" /\ UNCHANGED <<db, tx>> /\ held'[t] = held[t] \cup requests(t)
  BY UpdateFacts DEF PayDistrict
<1>2. w \in Warehouses /\ d \in Districts /\ tx[t].amount \in Nat
  BY <1>0, <1>1, Kinds DEF TypeInv, Doing
<1>3. ~Ordering(t) /\ ~Delivers(t) /\ requests(t) = {X(key)}
  BY <1>0, <1>1, Requests DEF Ordering, Delivers
<1>4. row \in DistrictRow /\ row.next = nextOf(db, w, d) /\ nextOf(db, w, d) \in Nat
  BY <1>0, <1>2, <1>3, LatestDistrict DEF WorkOk, Numbers
<1>5. new \in DistrictRow /\ new.next = nextOf(db, w, d)
  BY <1>0, <1>2, <1>4 DEF DistrictRow
<1>6. key \in DOMAIN work'[t] /\ work'[t][key] = new /\ \A k : k # key => Kept(t, k)
  <2>1. Write(t, Row(key, new))
    BY <1>0 DEF PayDistrict
  <2> QED BY <2>1, WriteOne
<1>7. pc'[t] = "customer"
  BY GotoFacts DEF PayDistrict
<1>8. Untouched(t) /\ ~Ordering(t)' /\ \A v, e, o : ~Delivering(t, v, e, o)'
  BY <1>1, <1>7 DEF Untouched, Ordering, Delivering
<1>9. \A v, e, o : OrderKept(t, v, e, o)
  <2>1. key[1] = "district"
    BY <1>0 DEF District
  <2> QED BY <1>6, <2>1 DEF OrderKept, Order, OrderLines, NewOrderRow
<1>10. \A v \in Warehouses, e \in Districts, o \in Nat : OrderWork(t, v, e, o)'
  BY <1>1, <1>3, <1>7, <1>8, <1>9, OrdersKept
<1>11. ASSUME NEW v \in Warehouses, NEW e \in Districts
       PROVE  DistrictWork(t, v, e)'
  <2>1. DistrictWork(t, v, e) /\ nextOf(db, v, e)' = nextOf(db, v, e) /\ ~Numbers(t, v, e)'
    BY <1>1, <1>8 DEF WorkOk, nextOf, Numbers
  <2>2. CASE v = w /\ e = d
    <3>1. District(v, e) = key /\ nextOf(db, v, e)' = nextOf(db, w, d) /\ X(key) \in held'[t]
      BY <1>0, <1>1, <1>3, <2>1, <2>2
    <3>2. work'[t][key] \in DistrictRow /\ work'[t][key].next = nextOf(db, w, d) + 0
      BY <1>4, <1>5, <1>6
    <3> QED BY <2>1, <3>1, <3>2 DEF DistrictWork
  <2>3. CASE ~(v = w /\ e = d)
    <3>1. Kept(t, District(v, e)) /\ ~Numbers(t, v, e)
      BY <1>0, <1>3, <1>6, <2>3, Keys DEF Numbers
    <3> QED BY <1>1, <2>1, <3>1 DEF DistrictWork, Kept
  <2> QED BY <2>2, <2>3
<1> QED BY <1>7, <1>10, <1>11 DEF WorkOk

\* Payment's UPDATE of the customer and the INSERT into history touch no
\* order.
LEMMA PayCustomerWork ==
    ASSUME TypeInv, NEW t \in Terminals, WorkOk(t), PayCustomer(t)
    PROVE  WorkOk(t)'
<1>0. PICK k1, v1, k2, v2 :
          /\ k1 = Customer(tx[t].c_w, tx[t].c_d, loc[t].c)
          /\ v1 = [Latest(t)[k1] EXCEPT !.balance = @ + tx[t].amount] /\ k2 = History(loc[t].no)
          /\ v2 = [w |-> tx[t].w, d |-> tx[t].d, cust |-> k1, amount |-> tx[t].amount]
  OBVIOUS
<1>1. /\ pc[t] = "customer" /\ UNCHANGED <<db, tx>> /\ held'[t] = held[t] \cup requests(t)
  BY UpdateFacts DEF PayCustomer
<1>2. pc'[t] = "commit" /\ tx[t].kind = "Payment"
  BY <1>1, GotoFacts, Kinds DEF PayCustomer, TypeInv, Doing
<1>4. k1[1] \notin OrderKinds /\ k2[1] \notin OrderKinds /\ k1 # k2
  <2>1. k1[1] = "customer" /\ k2[1] = "history"
    BY <1>0 DEF Customer, History
  <2> QED BY <2>1 DEF OrderKinds
<1>3. \A k : k \notin {k1, k2} => Kept(t, k)
  <2>1. Write(t, Row(k1, v1) ++ Row(k2, v2))
    BY <1>0 DEF PayCustomer
  <2> QED BY <2>1, <1>4, WriteTwo
<1>5. Untouched(t) /\ ~Ordering(t) /\ ~Ordering(t)' /\ ~Delivers(t) /\ \A w, d, o : ~Delivering(t, w, d, o)'
  BY <1>1, <1>2 DEF Untouched, Ordering, Delivers, Delivering
<1>6. \A w, d : Kept(t, District(w, d)) /\ \A o : OrderKept(t, w, d, o)
  BY <1>3, <1>4, OtherKey DEF OrderKept
<1> QED BY <1>1, <1>5, <1>6, OtherRowsWritten

-----------------------------------------------------------------------------
(* Deliveries.                                                             *)

\* nextDistrict goes on with the next district, or to the end.
LEMMA NextDistrictFacts ==
    ASSUME TypeInv, NEW t \in Terminals, nextDistrict(t)
    PROVE  pc'[t] \in {"commit", "oldest"}
    BY GotoFacts DEF nextDistrict

\* A new order that a transaction without orders of its own sees is an order,
\* of the rows that it reads and of the tables.
LEMMA NewOrdersSeen ==
    ASSUME TypeInv, RowsOk(db), NEW t \in Terminals, WorkOk(t), SnapOk(t), ~Ordering(t),
           NEW rows, rows = IF snap[t] = NoRows THEN db ELSE snap[t],
           NEW w \in Warehouses, NEW d \in Districts, NEW o \in NewOrderIds(View(t), w, d)
    PROVE  /\ o \in Nat /\ NewOrderRow(w, d, o) \in DOMAIN rows
           /\ o \in 1..nextOf(rows, w, d) - 1 /\ o \in 1..nextOf(db, w, d) - 1
<1>1. RowsOk(rows) /\ nextOf(rows, w, d) <= nextOf(db, w, d)
  BY NextIsNumber DEF SnapOk
<1>2. nextOf(rows, w, d) \in Nat /\ nextOf(db, w, d) \in Nat
  BY <1>1, NextIsNumber
<1>3. o \in Nat /\ NewOrderRow(w, d, o) \in DOMAIN Apply(rows, work[t])
  <2>1. ORD_PER_DIST \in Nat /\ MaxTransactions \in Nat
    BY TpccAssumption
  <2> QED BY <2>1 DEF NewOrderIds, OrderNumbers, View
<1>4. DeliveredWork(t, w, d, o)
  BY <1>3 DEF WorkOk, OrderWork, Inserts, Numbers
<1>5. NewOrderRow(w, d, o) \in DOMAIN rows
  BY <1>3, <1>4, ApplyRows DEF DeliveredWork
<1>6. o \in 1..nextOf(rows, w, d) - 1
  BY <1>1, <1>3, <1>5, OrdersThereAre DEF NoOrder
<1> QED BY <1>1, <1>2, <1>3, <1>5, <1>6

\* The SELECT of the oldest new order finds an order, in the snapshot and so
\* in the tables.
LEMMA FindOldestWork ==
    ASSUME TypeInv, RowsOk(db), NEW t \in Terminals, WorkOk(t), SnapOk(t), FindOldest(t)
    PROVE  WorkOk(t)'
<1>0. PICK w, d, ids : w = tx[t].w /\ d = loc[t].d /\ ids = NewOrderIds(View(t), w, d)
  OBVIOUS
<1>1. /\ pc[t] = "oldest" /\ UNCHANGED <<db, work, held, tx>>
      /\ IF ids = {} THEN nextDistrict(t) ELSE set(t, [loc[t] EXCEPT !.o = Min(ids)]) /\ goto(t, "delete")
  BY <1>0 DEF FindOldest, Select, at, bookkeeping
<1>2. w \in Warehouses /\ d \in Districts /\ tx[t].kind = "Delivery"
  BY <1>0, <1>1, Kinds DEF TypeInv, Doing
<1>3. pc'[t] \in {"commit", "oldest", "delete"}
  BY <1>1, NextDistrictFacts, GotoFacts
<1>4. Untouched(t) /\ ~Ordering(t) /\ ~Ordering(t)' /\ Delivers(t)'
  BY <1>1, <1>2, <1>3 DEF Untouched, Ordering, Delivers
<1>5. \A k : Kept(t, k)
  BY <1>1 DEF Kept
<1>6. ASSUME NEW v \in Warehouses, NEW e \in Districts, NEW o \in Nat, Delivering(t, v, e, o)'
      PROVE  o \in 1..nextOf(db, v, e) - 1 /\ pc'[t] # "carrier"
  <2>1. pc'[t] = "delete" /\ ids # {}
    BY <1>1, <1>3, <1>6, NextDistrictFacts DEF Delivering
  <2>2. loc'[t].o = Min(ids) /\ loc'[t].d = d
    BY <1>0, <1>1, <2>1, GotoFacts DEF Fields
  <2>3. v = w /\ e = d /\ o = Min(ids)
    BY <1>0, <1>1, <1>6, <2>2 DEF Delivering
  <2>4. ids \subseteq Nat
    <3>1. ORD_PER_DIST \in Nat /\ MaxTransactions \in Nat
      BY TpccAssumption
    <3> QED BY <1>0, <3>1 DEF NewOrderIds, OrderNumbers
  <2>5. o \in ids
    BY <2>1, <2>3, <2>4, MinOf
  <2>6. PICK rows : rows = IF snap[t] = NoRows THEN db ELSE snap[t]
    OBVIOUS
  <2> QED BY <1>0, <1>2, <1>4, <2>1, <2>3, <2>5, <2>6, NewOrdersSeen
<1> QED BY <1>1, <1>4, <1>5, <1>6, OtherRowsWritten DEF OrderKept

\* The DELETE from new_orders: if the row is still there, it goes with this
\* transaction.
LEMMA DeleteNewOrderWork ==
    ASSUME TypeInv, RowsOk(db), NEW t \in Terminals, WorkOk(t), DeleteNewOrder(t)
    PROVE  WorkOk(t)'
<1>0. PICK w, d, o, key : w = tx[t].w /\ d = loc[t].d /\ o = loc[t].o /\ key = NewOrderRow(w, d, o)
  OBVIOUS
<1>1. /\ pc[t] = "delete" /\ UNCHANGED <<db, tx>> /\ held'[t] = held[t] \cup requests(t)
  BY UpdateFacts DEF DeleteNewOrder
<1>2. w \in Warehouses /\ d \in Districts /\ tx[t].kind = "Delivery"
  BY <1>0, <1>1, Kinds DEF TypeInv, Doing
<1>3. pc'[t] = "carrier" /\ loc'[t] = loc[t]
  BY GotoFacts DEF DeleteNewOrder
<1>4. Untouched(t) /\ ~Ordering(t) /\ ~Ordering(t)' /\ Delivers(t)' /\ Delivers(t)
  BY <1>1, <1>2, <1>3 DEF Untouched, Ordering, Delivers
<1>5. IF key \in DOMAIN Latest(t) THEN Write(t, Row(key, Nil)) ELSE UNCHANGED work
  BY <1>0 DEF DeleteNewOrder
<1>6. \A k : k # key => Kept(t, k)
  BY <1>5, WriteOne DEF Kept
<1>7. /\ key \in DOMAIN Latest(t) => key \in DOMAIN work'[t] /\ work'[t][key] = Nil
      /\ key \notin DOMAIN Latest(t) => Kept(t, key)
  BY <1>5, WriteOne DEF Kept
<1>8. key[1] = "new_orders"
  BY <1>0 DEF NewOrderRow
<1>9. /\ \A v, e : Kept(t, District(v, e))
      /\ \A v, e, i : Kept(t, Order(v, e, i)) /\ Kept(t, OrderLines(v, e, i))
  BY <1>6, <1>8 DEF District, Order, OrderLines
<1>10. ASSUME NEW v \in Warehouses, NEW e \in Districts, NEW i \in Nat
       PROVE  DeliveredWork(t, v, e, i)'
  <2>1. DeliveredWork(t, v, e, i)
    BY <1>4 DEF WorkOk, OrderWork, Inserts, Numbers
  <2>2. CASE ~(v = w /\ e = d /\ i = o)
    <3>1. Kept(t, NewOrderRow(v, e, i))
      BY <1>0, <1>6, <2>2, Keys
    <3>2. ~Delivering(t, v, e, i)'
      BY <1>0, <1>1, <1>3, <2>2 DEF Delivering
    <3> QED BY <1>1, <1>4, <1>9, <2>1, <3>1, <3>2, DeliveredKept
  <2>3. CASE v = w /\ e = d /\ i = o
    <3>1. nextOf(db, v, e)' = nextOf(db, v, e) /\ NewOrderRow(v, e, i) = key
      BY <1>0, <1>1, <2>3 DEF nextOf
    <3>2. Delivering(t, v, e, i) /\ Delivering(t, v, e, i)'
      BY <1>0, <1>1, <1>3, <2>3 DEF Delivering
    <3>3. key \in DOMAIN work'[t] => work'[t][key] = Nil
      BY <1>7, <2>1, <3>1 DEF DeliveredWork, Kept
    <3>4. key \in DOMAIN db => key \in DOMAIN work'[t]
      BY <1>7, ApplyRows DEF Latest, Kept
    <3>5. /\ Kept(t, Order(v, e, i)) /\ Kept(t, OrderLines(v, e, i)) /\ db' = db
      BY <1>1, <1>9
    <3>6. Order(v, e, i) \in DOMAIN work'[t] =>
           /\ i \in 1..nextOf(db, v, e) - 1
           /\ work'[t][Order(v, e, i)] \in OrderRow /\ work'[t][Order(v, e, i)].carrier = TRUE
           /\ work'[t][Order(v, e, i)].ol_cnt = db[Order(v, e, i)].ol_cnt
           /\ work'[t][OrderLines(v, e, i)] \in Seq(LineRow)
           /\ Len(work'[t][OrderLines(v, e, i)]) = work'[t][Order(v, e, i)].ol_cnt
           /\ \A j \in DOMAIN work'[t][OrderLines(v, e, i)] :
                  work'[t][OrderLines(v, e, i)][j].delivered = TRUE
      BY <2>1, <3>5 DEF DeliveredWork, Kept
    <3>7. Order(v, e, i) \in DOMAIN work'[t] <=> OrderLines(v, e, i) \in DOMAIN work'[t]
      BY <2>1, <3>5 DEF DeliveredWork, Kept
    <3>8. i \in 1..nextOf(db, v, e) - 1
      BY <2>1, <3>2 DEF DeliveredWork
    <3> QED BY <1>3, <1>4, <3>1, <3>2, <3>3, <3>4, <3>5, <3>6, <3>7, <3>8 DEF DeliveredWork
  <2> QED BY <2>2, <2>3
<1>11. \A v \in Warehouses, e \in Districts, i \in Nat : OrderWork(t, v, e, i)'
  BY <1>4, <1>10 DEF OrderWork, Inserts, Numbers
<1>12. \A v \in Warehouses, e \in Districts : DistrictWork(t, v, e)'
  BY <1>4, <1>9, DistrictKept DEF WorkOk
<1> QED BY <1>3, <1>11, <1>12 DEF WorkOk

\* The order that a Delivery has taken off the queue, as its UPDATEs see it.
LEMMA OrderToDeliver ==
    ASSUME RowsOk(db), NEW t \in Terminals, NEW w \in Warehouses, NEW d \in Districts, NEW o,
           DeliveredWork(t, w, d, o), Delivering(t, w, d, o)
    PROVE  LET order == Order(w, d, o)
               lines == OrderLines(w, d, o)
           IN  /\ o \in 1..nextOf(db, w, d) - 1 /\ o \in Nat
               /\ Latest(t)[order] \in OrderRow /\ Latest(t)[order].ol_cnt = db[order].ol_cnt
               /\ Latest(t)[lines] \in Seq(LineRow) /\ Len(Latest(t)[lines]) = db[order].ol_cnt
<1>0. PICK order, lines : order = Order(w, d, o) /\ lines = OrderLines(w, d, o)
  OBVIOUS
<1>1. o \in 1..nextOf(db, w, d) - 1 /\ o \in Nat
  BY NextIsNumber DEF DeliveredWork
<1>2. /\ order \in DOMAIN db /\ db[order] \in OrderRow
      /\ lines \in DOMAIN db /\ db[lines] \in Seq(LineRow) /\ Len(db[lines]) = db[order].ol_cnt
  BY <1>0, <1>1, OrdersThereAre DEF OrderOk
<1>3. CASE order \in DOMAIN work[t]
  <2>1. /\ lines \in DOMAIN work[t] /\ work[t][order] \in OrderRow
        /\ work[t][order].ol_cnt = db[order].ol_cnt
        /\ work[t][lines] \in Seq(LineRow) /\ Len(work[t][lines]) = work[t][order].ol_cnt
    BY <1>0, <1>3 DEF DeliveredWork
  <2>2. work[t][order] # Nil /\ work[t][lines] # Nil
    BY <2>1, ValuesAreNotNil
  <2>3. Latest(t)[order] = work[t][order] /\ Latest(t)[lines] = work[t][lines]
    BY <1>3, <2>1, <2>2, ApplyRows DEF Latest
  <2> QED BY <1>0, <1>1, <2>1, <2>3
<1>4. CASE order \notin DOMAIN work[t]
  <2>1. lines \notin DOMAIN work[t]
    BY <1>0, <1>4 DEF DeliveredWork
  <2>2. Latest(t)[order] = db[order] /\ Latest(t)[lines] = db[lines]
    BY <1>2, <1>4, <2>1, ApplyRows DEF Latest
  <2> QED BY <1>0, <1>1, <1>2, <2>2
<1> QED BY <1>3, <1>4

\* The lines of an order after the UPDATE that delivers them.
LEMMA LinesDelivered ==
    ASSUME NEW lines \in Seq(LineRow)
    PROVE  LET new == [i \in DOMAIN lines |-> [lines[i] EXCEPT !.delivered = TRUE]]
           IN  new \in Seq(LineRow) /\ Len(new) = Len(lines) /\ \A i \in DOMAIN new : new[i].delivered = TRUE
<1> DEFINE new == [i \in DOMAIN lines |-> [lines[i] EXCEPT !.delivered = TRUE]]
<1>1. Len(lines) \in Nat /\ DOMAIN lines = 1..Len(lines)
  OBVIOUS
<1>2. \A i \in 1..Len(lines) : new[i] \in LineRow /\ new[i].delivered = TRUE
  <2> TAKE i \in 1..Len(lines)
  <2>1. lines[i] \in LineRow
    OBVIOUS
  <2>2. new[i] = [lines[i] EXCEPT !.delivered = TRUE]
    BY <1>1
  <2> QED BY <2>1, <2>2 DEF LineRow
<1>3. new \in [1..Len(lines) -> LineRow]
  BY <1>1, <1>2
<1> HIDE DEF new
<1>4. new \in Seq(LineRow) /\ Len(new) = Len(lines) /\ DOMAIN new = 1..Len(lines)
  BY <1>1, <1>3
<1> QED BY <1>2, <1>4 DEF new

\* The UPDATEs of an order and of its lines deliver both.
LEMMA SetCarrierWork ==
    ASSUME TypeInv, RowsOk(db), NEW t \in Terminals, WorkOk(t), SetCarrier(t)
    PROVE  WorkOk(t)'
<1>0. PICK w, d, o, order, lines, v1, v2 :
          /\ w = tx[t].w /\ d = loc[t].d /\ o = loc[t].o
          /\ order = Order(w, d, o) /\ lines = OrderLines(w, d, o)
          /\ v1 = [Latest(t)[order] EXCEPT !.carrier = TRUE]
          /\ v2 = [i \in DOMAIN Latest(t)[lines] |-> [Latest(t)[lines][i] EXCEPT !.delivered = TRUE]]
  OBVIOUS
<1>1. /\ pc[t] = "carrier" /\ UNCHANGED <<db, tx>> /\ held'[t] = held[t] \cup requests(t)
  BY UpdateFacts DEF SetCarrier
<1>2. w \in Warehouses /\ d \in Districts /\ tx[t].kind = "Delivery"
  BY <1>0, <1>1, Kinds DEF TypeInv, Doing
<1>3. pc'[t] = "credit"
  BY GotoFacts DEF SetCarrier
<1>4. Untouched(t) /\ ~Ordering(t) /\ ~Ordering(t)' /\ Delivers(t)' /\ Delivers(t)
  BY <1>1, <1>2, <1>3 DEF Untouched, Ordering, Delivers
<1>5. order[1] = "orders" /\ lines[1] = "order_line" /\ order # lines
  BY <1>0 DEF Order, OrderLines
<1>6. /\ order \in DOMAIN work'[t] /\ work'[t][order] = v1
      /\ lines \in DOMAIN work'[t] /\ work'[t][lines] = v2
      /\ \A k : k \notin {order, lines} => Kept(t, k)
  <2>1. Write(t, Row(order, v1) ++ Row(lines, v2))
    BY <1>0 DEF SetCarrier
  <2> QED BY <2>1, <1>5, WriteTwo
<1>7. /\ \A v, e : Kept(t, District(v, e))
      /\ \A v, e, i : Kept(t, NewOrderRow(v, e, i))
  BY <1>5, <1>6 DEF District, NewOrderRow
<1>10. ASSUME NEW v \in Warehouses, NEW e \in Districts, NEW i \in Nat
       PROVE  DeliveredWork(t, v, e, i)'
  <2>1. DeliveredWork(t, v, e, i)
    BY <1>4 DEF WorkOk, OrderWork, Inserts, Numbers
  <2>2. CASE ~(v = w /\ e = d /\ i = o)
    <3>1. Kept(t, Order(v, e, i)) /\ Kept(t, OrderLines(v, e, i))
      <4>1. Order(v, e, i) \notin {order, lines} /\ OrderLines(v, e, i) \notin {order, lines}
        BY <1>0, <2>2, Keys
      <4> QED BY <1>6, <4>1
    <3>2. ~Delivering(t, v, e, i)' /\ ~Delivering(t, v, e, i)
      BY <1>0, <1>1, <1>3, <2>2 DEF Delivering
    <3> QED BY <1>1, <1>4, <1>7, <2>1, <3>1, <3>2, DeliveredKept
  <2>3. CASE v = w /\ e = d /\ i = o
    <3>0. PICK new : new = NewOrderRow(w, d, o)
      OBVIOUS
    <3>1. Delivering(t, w, d, o) /\ DeliveredWork(t, w, d, o)
      BY <1>0, <1>1, <2>1, <2>3 DEF Delivering
    <3>2. /\ o \in 1..nextOf(db, w, d) - 1
          /\ Latest(t)[order] \in OrderRow /\ Latest(t)[order].ol_cnt = db[order].ol_cnt
          /\ Latest(t)[lines] \in Seq(LineRow) /\ Len(Latest(t)[lines]) = db[order].ol_cnt
      BY <1>0, <1>2, <3>1, OrderToDeliver
    <3>3. v1 \in OrderRow /\ v1.carrier = TRUE /\ v1.ol_cnt = db[order].ol_cnt
      BY <1>0, <3>2 DEF OrderRow
    <3>4. /\ v2 \in Seq(LineRow) /\ Len(v2) = db[order].ol_cnt
          /\ \A j \in DOMAIN v2 : v2[j].delivered = TRUE
      BY <1>0, <3>2, LinesDelivered
    <3>5. /\ new \in DOMAIN work[t] => work[t][new] = Nil
          /\ new \in DOMAIN db => new \in DOMAIN work[t]
      BY <1>1, <3>0, <3>1 DEF DeliveredWork
    <3>6. /\ new \in DOMAIN work'[t] => work'[t][new] = Nil
          /\ new \in DOMAIN db => new \in DOMAIN work'[t]
      BY <1>7, <3>0, <3>5 DEF Kept
    <3>7. nextOf(db, w, d)' = nextOf(db, w, d) /\ db' = db /\ ~Delivering(t, w, d, o)'
      BY <1>1, <1>3 DEF nextOf, Delivering
    <3>8. DeliveredWork(t, w, d, o)'
      <4>1. new \in DOMAIN work'[t] =>
                Delivers(t)' /\ work'[t][new] = Nil /\ order \in DOMAIN work'[t]
        BY <1>4, <1>6, <3>6
      <4>2. order \in DOMAIN work'[t] <=> lines \in DOMAIN work'[t]
        BY <1>6
      <4>3. /\ Delivers(t)' /\ o \in 1..nextOf(db, w, d)' - 1
            /\ new \in DOMAIN db' => new \in DOMAIN work'[t]
            /\ work'[t][order] \in OrderRow /\ work'[t][order].carrier = TRUE
            /\ work'[t][order].ol_cnt = db'[order].ol_cnt
            /\ work'[t][lines] \in Seq(LineRow) /\ Len(work'[t][lines]) = work'[t][order].ol_cnt
            /\ \A j \in DOMAIN work'[t][lines] : work'[t][lines][j].delivered = TRUE
        BY <1>4, <1>6, <3>2, <3>3, <3>4, <3>6, <3>7
      <4>4. order = Order(w, d, o) /\ lines = OrderLines(w, d, o) /\ new = NewOrderRow(w, d, o)
        BY <1>0, <3>0
      <4> QED BY <3>7, <4>1, <4>2, <4>3, <4>4 DEF DeliveredWork
    <3> QED BY <2>3, <3>8
  <2> QED BY <2>2, <2>3
<1>11. \A v \in Warehouses, e \in Districts, i \in Nat : OrderWork(t, v, e, i)'
  BY <1>4, <1>10 DEF OrderWork, Inserts, Numbers
<1>12. \A v \in Warehouses, e \in Districts : DistrictWork(t, v, e)'
  BY <1>4, <1>7, DistrictKept DEF WorkOk
<1> QED BY <1>3, <1>11, <1>12 DEF WorkOk

\* Delivery's UPDATE of the customer touches no order.
LEMMA CreditCustomerWork ==
    ASSUME TypeInv, NEW t \in Terminals, WorkOk(t), CreditCustomer(t)
    PROVE  WorkOk(t)'
<1>0. PICK key, v :
          /\ key = Customer(tx[t].w, loc[t].d, loc[t].c)
          /\ v = [Latest(t)[key] EXCEPT
                     !.balance = @ + Total(View(t)[OrderLines(tx[t].w, loc[t].d, loc[t].o)]),
                     !.deliveries = @ + 1]
  OBVIOUS
<1>1. /\ pc[t] = "credit" /\ UNCHANGED <<db, tx>> /\ held'[t] = held[t] \cup requests(t)
  BY UpdateFacts DEF CreditCustomer
<1>2. pc'[t] \in {"commit", "oldest"} /\ tx[t].kind = "Delivery"
  BY <1>1, NextDistrictFacts, Kinds DEF CreditCustomer, TypeInv, Doing
<1>3. \A k : k # key => Kept(t, k)
  <2>1. Write(t, Row(key, v))
    BY <1>0 DEF CreditCustomer
  <2> QED BY <2>1, WriteOne
<1>4. key[1] \notin OrderKinds
  BY <1>0 DEF Customer, OrderKinds
<1>5. Untouched(t) /\ ~Ordering(t) /\ ~Ordering(t)' /\ Delivers(t)' /\ \A w, d, o : ~Delivering(t, w, d, o)'
  BY <1>1, <1>2 DEF Untouched, Ordering, Delivers, Delivering
<1>6. \A w, d : Kept(t, District(w, d)) /\ \A o : OrderKept(t, w, d, o)
  BY <1>3, <1>4, OtherKey DEF OrderKept
<1> QED BY <1>1, <1>5, <1>6, OtherRowsWritten

-----------------------------------------------------------------------------
(* Every step of a terminal.                                               *)

\* Commit and rollback end what the transaction holds and has written.
LEMMA ReleaseFacts ==
    ASSUME TypeInv, NEW t \in Terminals, Release(t)
    PROVE  work'[t] = NoRows /\ snap'[t] = NoRows /\ held'[t] = {}
    BY DEF TypeInv, IsFcn, Release

\* At its end a transaction has nothing left in work.
LEMMA EndWork ==
    ASSUME TypeInv, NEW t \in Terminals, Commit(t) \/ CommitFails(t) \/ NoItem(t) \/ Fail(t)
    PROVE  WorkOk(t)'
<1>1. work'[t] = NoRows
  BY ReleaseFacts DEF Commit, CommitFails, NoItem, Fail, commit, rollback
<1>2. CASE Commit(t) \/ CommitFails(t) \/ NoItem(t)
  <2>1. pc'[t] = "idle"
    BY <1>2, GotoFacts DEF Commit, CommitFails, NoItem
  <2> QED BY <1>1, <2>1, NothingWritten
<1>3. CASE Fail(t)
  <2>1. pc'[t] = firstStatement(tx[t]) /\ tx[t] \in Calls
    BY <1>3, GotoFacts DEF Fail, at, TypeInv, Doing
  <2>2. pc'[t] \in {"district", "warehouse", "status", "oldest", "level"}
    BY <2>1, FirstStatement
  <2> QED BY <1>1, <2>2, NothingWritten
<1> QED BY <1>2, <1>3

\* At its beginning a transaction has written nothing.
LEMMA BeginWork ==
    ASSUME TypeInv, NEW t \in Terminals, NEW call \in Calls, Begin(t, call)
    PROVE  WorkOk(t)'
<1>1. work'[t] = NoRows
  BY DEF Begin, at, TypeInv
<1>2. pc'[t] = firstStatement(call)
  BY GotoFacts DEF Begin
<1>3. pc'[t] \in {"district", "warehouse", "status", "oldest", "level"}
  BY <1>2, FirstStatement
<1> QED BY <1>1, <1>3, NothingWritten

\* Order Status and Stock Level write nothing.
LEMMA ReadWork ==
    ASSUME TypeInv, NEW t \in Terminals, WorkOk(t),
           FindOrder(t) \/ ReadLines(t) \/ ReadLevel(t) \/ CountStock(t)
    PROVE  WorkOk(t)'
<1>1. pc[t] \in {"status", "lines", "level", "count"} /\ work' = work /\ tx' = tx
  BY DEF FindOrder, ReadLines, ReadLevel, CountStock, Select, at, bookkeeping
<1>2. work'[t] = NoRows
  BY <1>1 DEF WorkOk
<1>3. pc'[t] \in {"lines", "commit", "count"}
  BY GotoFacts DEF FindOrder, ReadLines, ReadLevel, CountStock
<1>4. tx'[t].kind # "NewOrder"
  BY <1>1, Kinds DEF TypeInv, Doing
<1> QED BY <1>2, <1>3, <1>4, NothingWritten

\* Every step of a terminal keeps what it has written right.
LEMMA OwnWork ==
    ASSUME TypeInv, RowsOk(db), NEW t \in Terminals, WorkOk(t), SnapOk(t), Step(t)
    PROVE  WorkOk(t)'
    BY BeginWork, EndWork, ReadWork, TakeOrderNumberWork, InsertOrderWork, OrderLineWork,
       PayWarehouseWork, PayDistrictWork, PayCustomerWork, FindOldestWork, DeleteNewOrderWork,
       SetCarrierWork, CreditCustomerWork DEF Step, Statement

-----------------------------------------------------------------------------
(* The database, the snapshots and the other terminals.                    *)

\* Only a commit changes the committed rows.
LEMMA DbChanges ==
    ASSUME NEW t \in Terminals, Step(t)
    PROVE  (commit(t) /\ pc[t] = "commit") \/ db' = db
    BY DEF Step, Statement, Begin, TakeOrderNumber, InsertOrder, OrderLine, NoItem, PayWarehouse, PayDistrict,
           PayCustomer, FindOldest, DeleteNewOrder, SetCarrier, CreditCustomer, FindOrder, ReadLines,
           ReadLevel, CountStock, Commit, CommitFails, Fail, Update, Select, rollback, at

\* Every step leaves the orders complete.
LEMMA DbStep ==
    ASSUME TypeInv, RowsOk(db), NEW t \in Terminals, WorkOk(t), Step(t)
    PROVE  /\ RowsOk(db') /\ DbGrows
           /\ \A w \in Warehouses, d \in Districts :
                  nextOf(db', w, d) # nextOf(db, w, d) => District(w, d) \in DOMAIN work[t]
<1>1. CASE commit(t) /\ pc[t] = "commit"
  BY <1>1, CommitStep
<1>2. CASE db' = db
  <2>1. \A w \in Warehouses, d \in Districts : nextOf(db', w, d) = nextOf(db, w, d) /\ nextOf(db, w, d) \in Nat
    BY <1>2, NextIsNumber
  <2> QED BY <1>2, <2>1 DEF DbGrows
<1> QED BY <1>1, <1>2, DbChanges

\* A district that another terminal has written keeps its number: the terminal
\* holds the lock of the district.
LEMMA OtherWork ==
    ASSUME TypeInv, Exclusive, RowsOk(db), NEW t \in Terminals, WorkOk(t), Step(t),
           NEW u \in Terminals, u # t, WorkOk(u)
    PROVE  WorkOk(u)'
<1>1. /\ pc'[u] = pc[u] /\ tx'[u] = tx[u] /\ loc'[u] = loc[u]
      /\ work'[u] = work[u] /\ held'[u] = held[u]
  BY StepIsApart DEF Apart
<1>2. DbGrows
  BY DbStep
<1>3. ASSUME NEW w \in Warehouses, NEW d \in Districts
      PROVE  DistrictWork(u, w, d)'
  <2>1. DistrictWork(u, w, d)
    BY DEF WorkOk
  <2>2. District(w, d) \in DOMAIN work[u] => nextOf(db', w, d) = nextOf(db, w, d)
    <3> SUFFICES ASSUME District(w, d) \in DOMAIN work[u], nextOf(db', w, d) # nextOf(db, w, d)
                 PROVE  FALSE
      OBVIOUS
    <3>1. District(w, d) \in DOMAIN work[t]
      BY DbStep
    <3>2. X(District(w, d)) \in held[u] /\ X(District(w, d)) \in held[t]
      BY <2>1, <3>1 DEF WorkOk, DistrictWork
    <3> QED BY <3>2 DEF Exclusive, Conflict, X
  <2> QED BY <1>1, <2>1, <2>2 DEF DistrictWork, Numbers, Ordering
<1>4. ASSUME NEW w \in Warehouses, NEW d \in Districts, NEW o \in Nat
      PROVE  OrderWork(u, w, d, o)'
  <2>1. OrderWork(u, w, d, o)
    BY DEF WorkOk
  <2>2. Inserts(u, w, d, o)' <=> Inserts(u, w, d, o)
    BY <1>1 DEF Inserts, Numbers, Ordering
  <2>3. CASE Inserts(u, w, d, o)
    <3>1. InsertedWork(u, w, d, o)
      BY <2>1, <2>3 DEF OrderWork
    <3>2. InsertedWork(u, w, d, o)'
      BY <1>1, <3>1 DEF InsertedWork
    <3> QED BY <2>2, <2>3, <3>2 DEF OrderWork
  <2>4. CASE ~Inserts(u, w, d, o)
    <3>1. DeliveredWork(u, w, d, o)
      BY <2>1, <2>4 DEF OrderWork
    <3>2. (Delivers(u)' <=> Delivers(u)) /\ (Delivering(u, w, d, o)' <=> Delivering(u, w, d, o))
      BY <1>1 DEF Delivers, Delivering
    <3>3. o \in 1..nextOf(db, w, d) - 1 =>
              /\ o \in 1..nextOf(db', w, d) - 1
              /\ NewOrderRow(w, d, o) \in DOMAIN db' => NewOrderRow(w, d, o) \in DOMAIN db
              /\ db'[Order(w, d, o)].ol_cnt = db[Order(w, d, o)].ol_cnt
      <4>1. nextOf(db, w, d) \in Nat /\ nextOf(db', w, d) \in Nat
        BY NextIsNumber, DbStep
      <4> QED BY <1>2, <4>1 DEF DbGrows
    <3>4. DeliveredWork(u, w, d, o)'
      BY <1>1, <3>1, <3>2, <3>3 DEF DeliveredWork
    <3> QED BY <2>2, <2>4, <3>4 DEF OrderWork
  <2> QED BY <2>3, <2>4
<1> QED BY <1>1, <1>3, <1>4 DEF WorkOk

\* A terminal takes a snapshot of the committed rows and keeps it to the end of
\* its transaction.
LEMMA SnapChanges ==
    ASSUME TypeInv, NEW t \in Terminals, Step(t), NEW u \in Terminals
    PROVE  snap'[u] \in {snap[u], db, NoRows}
<1>1. CASE u # t
  BY <1>1, StepIsApart DEF Apart
<1>2. CASE u = t
  <2>1. ASSUME Release(t) PROVE snap'[t] = NoRows
    BY <2>1, ReleaseFacts
  <2>2. ASSUME NEW label, Select(t, label) PROVE snap'[t] \in {snap[t], db}
    BY <2>2 DEF Select, TakeSnapshot, TypeInv, IsFcn
  <2>3. ASSUME NEW label, Update(t, label) PROVE snap'[t] = snap[t]
    BY <2>3 DEF Update
  <2>4. CASE Commit(t) \/ CommitFails(t) \/ NoItem(t) \/ Fail(t)
    BY <1>2, <2>1, <2>4 DEF Commit, CommitFails, NoItem, Fail, commit, rollback
  <2>5. CASE FindOldest(t) \/ FindOrder(t) \/ ReadLines(t) \/ ReadLevel(t) \/ CountStock(t)
    BY <1>2, <2>2, <2>5 DEF FindOldest, FindOrder, ReadLines, ReadLevel, CountStock
  <2>6. CASE \/ TakeOrderNumber(t) \/ InsertOrder(t) \/ OrderLine(t)
             \/ PayWarehouse(t) \/ PayDistrict(t) \/ PayCustomer(t)
             \/ DeleteNewOrder(t) \/ SetCarrier(t) \/ CreditCustomer(t)
    BY <1>2, <2>3, <2>6 DEF TakeOrderNumber, InsertOrder, OrderLine, PayWarehouse, PayDistrict,
           PayCustomer, DeleteNewOrder, SetCarrier, CreditCustomer
  <2>7. ASSUME NEW call \in Calls, Begin(t, call) PROVE snap'[t] = snap[t]
    BY <2>7 DEF Begin
  <2> QED BY <1>2, <2>4, <2>5, <2>6, <2>7 DEF Step, Statement
<1> QED BY <1>1, <1>2

\* A snapshot is of the committed rows, and stays as it is.
LEMMA SnapStep ==
    ASSUME TypeInv, RowsOk(db), NEW t \in Terminals, WorkOk(t), Step(t),
           NEW u \in Terminals, SnapOk(u)
    PROVE  SnapOk(u)'
<1>1. snap'[u] \in {snap[u], db, NoRows}
  BY SnapChanges
<1>2. ASSUME NEW rows, RowsOk(rows), NEW w \in Warehouses, NEW d \in Districts
      PROVE  nextOf(rows, w, d) <= nextOf(db, w, d) => nextOf(rows, w, d) <= nextOf(db', w, d)
  <2>1. nextOf(rows, w, d) \in Nat /\ nextOf(db, w, d) \in Nat
    BY <1>2, NextIsNumber
  <2>2. nextOf(db', w, d) \in Nat /\ nextOf(db', w, d) >= nextOf(db, w, d)
    BY DbStep, NextIsNumber DEF DbGrows
  <2> QED BY <2>1, <2>2
<1>3. \A w \in Warehouses, d \in Districts : nextOf(db, w, d) <= nextOf(db, w, d)
  BY NextIsNumber
<1>4. PICK new : new = snap'[u]
  OBVIOUS
<1>5. new # NoRows => RowsOk(new) /\ \A w \in Warehouses, d \in Districts : nextOf(new, w, d) <= nextOf(db', w, d)
  <2>1. CASE new = snap[u]
    BY <1>2, <2>1 DEF SnapOk
  <2>2. CASE new = db
    BY <1>2, <1>3, <2>2
  <2> QED BY <1>1, <1>4, <2>1, <2>2
<1> QED BY <1>4, <1>5 DEF SnapOk, RowsOk, DistrictOk, OrderOk, NoOrder, nextOf

-----------------------------------------------------------------------------
(* Order Status.                                                           *)

\* What a SELECT of t reads, when t has written nothing.
LEMMA ReaderSees ==
    ASSUME NEW t \in Terminals, work[t] = NoRows,
           NEW rows, rows = IF snap[t] = NoRows THEN db ELSE snap[t], NEW k
    PROVE  /\ k \in DOMAIN View(t) <=> k \in DOMAIN rows
           /\ k \in DOMAIN rows => View(t)[k] = rows[k]
<1>1. View(t) = Apply(rows, work[t])
  BY DEF View
<1>2. k \notin DOMAIN work[t]
  BY DEF NoRows
<1> QED BY <1>1, <1>2, ApplyRows

\* Order Status finds an order of its snapshot.
LEMMA FindOrderStatus ==
    ASSUME TypeInv, RowsOk(db), NEW t \in Terminals, WorkOk(t), SnapOk(t), FindOrder(t)
    PROVE  StatusOk(t)'
<1>0. PICK w, d, c, rows, ids, o :
          /\ w = tx[t].w /\ d = tx[t].d /\ c = tx[t].c
          /\ rows = (IF snap[t] = NoRows THEN db ELSE snap[t])
          /\ ids = OrdersOf(View(t), w, d, c) /\ o = (IF ids = {} THEN 0 ELSE Max(ids))
  OBVIOUS
<1>1. pc[t] = "status" /\ tx' = tx /\ snap'[t] = rows
  BY <1>0 DEF FindOrder, Select, TakeSnapshot, at, bookkeeping, TypeInv, IsFcn
<1>2. w \in Warehouses /\ d \in Districts /\ work[t] = NoRows
  BY <1>0, <1>1, Kinds DEF TypeInv, Doing, WorkOk
<1>3. RowsOk(rows)
  BY <1>0 DEF SnapOk
<1>4. rows # NoRows
  <2>1. District(w, d) \in DOMAIN rows
    BY <1>2, <1>3, NextIsNumber
  <2> QED BY <2>1 DEF NoRows
<1>5. /\ pc'[t] = "lines" /\ loc'[t].o = o
      /\ loc'[t].order = IF ids = {} THEN Nil ELSE View(t)[Order(w, d, o)]
  <2>1. goto(t, "lines")
    BY DEF FindOrder
  <2>2. PICK m, order : /\ order = IF ids = {} THEN Nil ELSE View(t)[Order(w, d, o)]
                        /\ m = IF tx[t].name = Nil THEN tx[t].c ELSE midpoint(tx[t].name, tx[t].c)
    OBVIOUS
  <2>3. set(t, [loc[t] EXCEPT !.o = o, !.c = m, !.order = order])
    BY <1>0, <2>2 DEF FindOrder
  <2>4. loc'[t] = [loc[t] EXCEPT !.o = o, !.c = m, !.order = order] /\ DOMAIN loc[t] = Fields
    BY <2>3, GotoFacts
  <2> QED BY <2>1, <2>2, <2>4, GotoFacts DEF Fields
<1>6. ASSUME ids # {}
      PROVE  o \in 1..nextOf(rows, w, d) - 1 /\ loc'[t].order = rows[Order(w, d, o)]
  <2>1. ORD_PER_DIST \in Nat /\ MaxTransactions \in Nat
    BY TpccAssumption
  <2>2. ids \subseteq 1..ORD_PER_DIST + MaxTransactions
    BY <1>0 DEF OrdersOf, OrderIds, OrderNumbers
  <2>3. o \in ids
    BY <1>0, <1>6, <2>1, <2>2, MaxOf
  <2>4. o \in Nat /\ Order(w, d, o) \in DOMAIN View(t)
    BY <1>0, <2>1, <2>3 DEF OrdersOf, OrderIds, OrderNumbers
  <2>5. Order(w, d, o) \in DOMAIN rows /\ View(t)[Order(w, d, o)] = rows[Order(w, d, o)]
    BY <1>0, <1>2, <2>4, ReaderSees
  <2>6. o \in 1..nextOf(rows, w, d) - 1
    BY <1>2, <1>3, <2>4, <2>5, OrdersThereAre DEF NoOrder
  <2> QED BY <1>5, <1>6, <2>5, <2>6
<1>7. nextOf(snap[t], w, d)' = nextOf(rows, w, d)
  BY <1>1 DEF nextOf
<1> QED BY <1>0, <1>1, <1>4, <1>5, <1>6, <1>7 DEF StatusOk

\* The lines that Order Status reads are of the same snapshot.
LEMMA ReadLinesStatus ==
    ASSUME TypeInv, RowsOk(db), NEW t \in Terminals, WorkOk(t), SnapOk(t), StatusOk(t), ReadLines(t)
    PROVE  StatusOk(t)'
<1>0. PICK w, d, o, rows, key :
          /\ w = tx[t].w /\ d = tx[t].d /\ o = loc[t].o /\ rows = snap[t] /\ key = OrderLines(w, d, o)
  OBVIOUS
<1>1. pc[t] = "lines"
  BY DEF ReadLines, Select, at
<1>2. w \in Warehouses /\ d \in Districts /\ work[t] = NoRows
  BY <1>0, <1>1, Kinds DEF TypeInv, Doing, WorkOk
<1>3. /\ pc'[t] = "commit" /\ loc'[t].order = loc[t].order
      /\ loc'[t].lines = IF key \in DOMAIN View(t) THEN View(t)[key] ELSE <<>>
  <2>1. /\ goto(t, "commit")
        /\ set(t, [loc[t] EXCEPT !.lines = IF key \in DOMAIN View(t) THEN View(t)[key] ELSE <<>>])
    BY <1>0 DEF ReadLines
  <2> QED BY <2>1, GotoFacts DEF Fields
<1>4. ASSUME loc[t].order # Nil
      PROVE  /\ Len(loc'[t].lines) = loc'[t].order.ol_cnt
             /\ \A i \in DOMAIN loc'[t].lines : loc'[t].lines[i].delivered = loc'[t].order.carrier
  <2>1. rows # NoRows /\ o \in 1..nextOf(rows, w, d) - 1 /\ loc[t].order = rows[Order(w, d, o)]
    BY <1>0, <1>1, <1>4 DEF StatusOk
  <2>2. RowsOk(rows) /\ o \in Nat
    BY <1>0, <1>2, <2>1, NextIsNumber DEF SnapOk
  <2>3. OrderOk(rows, w, d, o)
    BY <1>2, <2>1, <2>2, OrdersThereAre
  <2>4. /\ key \in DOMAIN rows /\ Len(rows[key]) = loc[t].order.ol_cnt
        /\ \A i \in DOMAIN rows[key] : rows[key][i].delivered = loc[t].order.carrier
    <3>1. key = OrderLines(w, d, o)
      BY <1>0
    <3>2. rows[Order(w, d, o)] = loc[t].order
      BY <2>1
    <3> QED BY <3>1, <3>2, <2>3 DEF OrderOk
  <2>5. loc'[t].lines = rows[key]
    BY <1>0, <1>2, <1>3, <2>1, <2>4, ReaderSees
  <2> QED BY <1>3, <2>4, <2>5
<1> QED BY <1>3, <1>4 DEF StatusOk

\* No other step touches what Order Status has read.
LEMMA StatusStep ==
    ASSUME TypeInv, RowsOk(db), NEW t \in Terminals, WorkOk(t), SnapOk(t), StatusOk(t), Step(t)
    PROVE  StatusOk(t)'
<1>1. CASE FindOrder(t)
  BY <1>1, FindOrderStatus
<1>2. CASE ReadLines(t)
  BY <1>2, ReadLinesStatus
<1>3. CASE ~FindOrder(t) /\ ~ReadLines(t)
  <2>1. pc'[t] # "lines" /\ ~(pc'[t] = "commit" /\ tx'[t].kind = "OrderStat")
    <3>1. ASSUME NEW call \in Calls, Begin(t, call)
          PROVE  pc'[t] \notin {"lines", "commit"}
      BY <3>1, GotoFacts, FirstStatement DEF Begin
    <3>2. CASE TakeOrderNumber(t) \/ InsertOrder(t) \/ PayWarehouse(t) \/ PayDistrict(t)
               \/ DeleteNewOrder(t) \/ SetCarrier(t) \/ ReadLevel(t)
      BY <3>2, GotoFacts DEF TakeOrderNumber, InsertOrder, PayWarehouse, PayDistrict,
             DeleteNewOrder, SetCarrier, ReadLevel
    <3>3. CASE Commit(t) \/ CommitFails(t) \/ NoItem(t)
      BY <3>3, GotoFacts DEF Commit, CommitFails, NoItem
    <3>4. CASE Fail(t)
      <4>1. pc'[t] = firstStatement(tx[t]) /\ tx[t] \in Calls
        BY <3>4, GotoFacts DEF Fail, at, TypeInv, Doing
      <4> QED BY <4>1, FirstStatement
    <3>5. CASE OrderLine(t) \/ PayCustomer(t) \/ FindOldest(t) \/ CreditCustomer(t) \/ CountStock(t)
      <4>1. /\ tx' = tx
            /\ pc[t] \in {"line", "customer", "oldest", "credit", "count"}
        BY <3>5 DEF OrderLine, PayCustomer, FindOldest, CreditCustomer, CountStock, Update, Select,
                    at, bookkeeping
      <4>2. tx'[t].kind # "OrderStat"
        BY <4>1, Kinds DEF TypeInv, Doing
      <4>3. pc'[t] # "lines"
        <5>1. CASE OrderLine(t)
          <6>1. \/ goto(t, "commit") \/ goto(t, "line")
            BY <5>1 DEF OrderLine
          <6> QED BY <6>1, GotoFacts
        <5>2. CASE FindOldest(t) \/ CreditCustomer(t)
          BY <5>2, GotoFacts, NextDistrictFacts DEF FindOldest, CreditCustomer
        <5>3. CASE PayCustomer(t) \/ CountStock(t)
          BY <5>3, GotoFacts DEF PayCustomer, CountStock
        <5> QED BY <3>5, <5>1, <5>2, <5>3
      <4> QED BY <4>2, <4>3
    <3> QED BY <1>3, <3>1, <3>2, <3>3, <3>4, <3>5 DEF Step, Statement
  <2> QED BY <2>1 DEF StatusOk
<1> QED BY <1>1, <1>2, <1>3

\* The other terminals keep what they have read.
LEMMA OtherStatus ==
    ASSUME TypeInv, NEW t \in Terminals, Step(t), NEW u \in Terminals, u # t, StatusOk(u)
    PROVE  StatusOk(u)'
<1>1. pc'[u] = pc[u] /\ tx'[u] = tx[u] /\ loc'[u] = loc[u] /\ snap'[u] = snap[u]
  BY StepIsApart DEF Apart
<1> QED BY <1>1 DEF StatusOk, nextOf

-----------------------------------------------------------------------------
(* The numbers that orders get.                                            *)

\* The terminals that have a transaction open.
Busy == {t \in Terminals : pc[t] # "idle"}

\* Every order since the load is of a call that has ended.
Budget ==
    /\ IsFiniteSet(Busy)
    /\ \A w \in Warehouses, d \in Districts :
           nextOf(db, w, d) - 1 - ORD_PER_DIST + Cardinality(Busy) <= started

\* A step uses an order number only by ending a call.
LEMMA BudgetStep ==
    ASSUME TypeInv, RowsOk(db), NEW t \in Terminals, WorkOk(t), Step(t), Budget
    PROVE  Budget'
<1>0. ORD_PER_DIST \in Nat /\ Cardinality(Busy) \in Nat /\ started \in Nat
  BY TpccAssumption, FS_CardinalityType DEF Budget, TypeInv
<1>1. \A u \in Terminals : u # t => pc'[u] = pc[u]
  BY StepIsApart DEF Apart
<1>2. \A w \in Warehouses, d \in Districts : nextOf(db, w, d) \in Nat /\ nextOf(db', w, d) \in Nat
  BY DbStep, NextIsNumber
<1>3. CASE \E call \in Calls : Begin(t, call)
  <2>1. pc[t] = "idle" /\ pc'[t] # "idle" /\ db' = db /\ started' = started + 1
    BY <1>3, GotoFacts, FirstStatement DEF Begin, at
  <2>2. Busy' = Busy \cup {t} /\ t \notin Busy
    BY <1>1, <2>1 DEF Busy
  <2>3. IsFiniteSet(Busy') /\ Cardinality(Busy') = Cardinality(Busy) + 1
    BY <2>2, FS_AddElement DEF Budget
  <2>4. ASSUME NEW w \in Warehouses, NEW d \in Districts
        PROVE  nextOf(db', w, d) - 1 - ORD_PER_DIST + Cardinality(Busy') <= started'
    <3>1. nextOf(db, w, d) - 1 - ORD_PER_DIST + Cardinality(Busy) <= started
      BY DEF Budget
    <3>2. nextOf(db', w, d) = nextOf(db, w, d)
      BY <2>1
    <3> QED BY <1>0, <1>2, <2>1, <2>3, <3>1, <3>2
  <2> QED BY <2>3, <2>4 DEF Budget, nextOf
<1>4. CASE pc[t] = "commit" /\ pc'[t] = "idle" /\ commit(t) /\ started' = started
  <2>1. Busy' = Busy \ {t} /\ t \in Busy
    BY <1>1, <1>4 DEF Busy
  <2>2. IsFiniteSet(Busy') /\ Cardinality(Busy') = Cardinality(Busy) - 1
    BY <2>1, FS_RemoveElement DEF Budget
  <2>3. ASSUME NEW w \in Warehouses, NEW d \in Districts
        PROVE  nextOf(db', w, d) - 1 - ORD_PER_DIST + Cardinality(Busy') <= started'
    <3>1. nextOf(db, w, d) - 1 - ORD_PER_DIST + Cardinality(Busy) <= started
      BY DEF Budget
    <3>2. nextOf(db', w, d) <= nextOf(db, w, d) + 1
      BY <1>2, <1>4, CommittedDistrict
    <3> QED BY <1>0, <1>2, <1>4, <2>2, <3>1, <3>2
  <2> QED BY <2>2, <2>3 DEF Budget, nextOf
<1>5. CASE db' = db /\ started' = started /\ pc[t] # "idle"
  <2>1. Busy' = Busy \/ Busy' = Busy \ {t}
    BY <1>1, <1>5 DEF Busy
  <2>2. IsFiniteSet(Busy') /\ Cardinality(Busy') \in Nat /\ Cardinality(Busy') <= Cardinality(Busy)
    <3>1. IsFiniteSet(Busy \ {t}) /\ Cardinality(Busy \ {t}) <= Cardinality(Busy)
      BY <1>0, FS_RemoveElement DEF Budget
    <3> QED BY <1>0, <2>1, <3>1, FS_CardinalityType DEF Budget
  <2>3. ASSUME NEW w \in Warehouses, NEW d \in Districts
        PROVE  nextOf(db', w, d) - 1 - ORD_PER_DIST + Cardinality(Busy') <= started'
    <3>1. nextOf(db, w, d) - 1 - ORD_PER_DIST + Cardinality(Busy) <= started
      BY DEF Budget
    <3>2. nextOf(db', w, d) = nextOf(db, w, d)
      BY <1>5
    <3> QED BY <1>0, <1>2, <1>5, <2>2, <3>1, <3>2
  <2> QED BY <2>2, <2>3 DEF Budget, nextOf
<1>6. \/ \E call \in Calls : Begin(t, call)
      \/ pc[t] = "commit" /\ pc'[t] = "idle" /\ commit(t) /\ started' = started
      \/ db' = db /\ started' = started /\ pc[t] # "idle"
  BY GotoFacts
     DEF Step, Statement, TakeOrderNumber, InsertOrder, OrderLine, NoItem, PayWarehouse,
         PayDistrict, PayCustomer, FindOldest, DeleteNewOrder, SetCarrier, CreditCustomer,
         FindOrder, ReadLines, ReadLevel, CountStock, Commit, CommitFails, Fail, Update, Select,
         rollback, at, bookkeeping
<1> QED BY <1>3, <1>4, <1>5, <1>6

-----------------------------------------------------------------------------
(* The theorems.                                                           *)

\* The invariant holds at first ...
LEMMA OrdersInit == Init => OrdersInv /\ Budget
<1> SUFFICES ASSUME Init PROVE OrdersInv /\ Budget
  OBVIOUS
<1>1. /\ db = LoadedRows /\ started = 0
      /\ \A t \in Terminals : /\ work[t] = NoRows /\ snap[t] = NoRows /\ pc[t] = "idle"
                              /\ loc[t].order = Nil
  BY DEF Init, DatabaseInit, NoLocals
<1>2. RowsOk(db)
  BY <1>1, LoadedOk
<1>3. ASSUME NEW t \in Terminals
      PROVE  SnapOk(t) /\ WorkOk(t) /\ StatusOk(t)
  <2>1. SnapOk(t) /\ StatusOk(t)
    BY <1>1 DEF SnapOk, StatusOk
  <2>2. \A k : k \notin DOMAIN work[t]
    BY <1>1 DEF NoRows
  <2>3. ~Ordering(t) /\ \A w, d, o : ~Delivering(t, w, d, o)
    BY <1>1 DEF Ordering, Delivering
  <2>4. WorkOk(t)
    BY <1>1, <2>2, <2>3 DEF WorkOk, DistrictWork, OrderWork, DeliveredWork, Inserts, Numbers
  <2> QED BY <2>1, <2>4
<1>4. Budget
  <2>1. Busy = {}
    BY <1>1 DEF Busy
  <2>2. IsFiniteSet(Busy) /\ Cardinality(Busy) = 0
    BY <2>1, FS_EmptySet
  <2>3. \A w \in Warehouses, d \in Districts : nextOf(db, w, d) = ORD_PER_DIST + 1
    BY <1>1, LoadedOrders DEF nextOf
  <2>4. ORD_PER_DIST \in Nat
    BY TpccAssumption
  <2> QED BY <1>1, <2>2, <2>3, <2>4 DEF Budget
<1> QED BY <1>2, <1>3, <1>4 DEF OrdersInv

\* ... and every step keeps it.
LEMMA OrdersNext == IInv /\ OrdersInv /\ Budget /\ [Next]_vars => OrdersInv' /\ Budget'
<1> SUFFICES ASSUME IInv, OrdersInv, Budget, [Next]_vars PROVE OrdersInv' /\ Budget'
  OBVIOUS
<1>0. TypeInv /\ Exclusive /\ RowsOk(db) /\ \A t \in Terminals : SnapOk(t) /\ WorkOk(t) /\ StatusOk(t)
  BY DEF IInv, LockInv, OrdersInv
<1>1. ASSUME NEW t \in Terminals, Step(t)
      PROVE  OrdersInv' /\ Budget'
  <2>1. RowsOk(db')
    BY <1>0, <1>1, DbStep
  <2>2. ASSUME NEW u \in Terminals
        PROVE  SnapOk(u)' /\ WorkOk(u)' /\ StatusOk(u)'
    BY <1>0, <1>1, SnapStep, OwnWork, OtherWork, StatusStep, OtherStatus
  <2>3. Budget'
    BY <1>0, <1>1, BudgetStep
  <2>4. RowsOk(db)'
    BY <2>1 DEF RowsOk, DistrictOk, OrderOk, NoOrder, nextOf
  <2> QED BY <2>2, <2>3, <2>4 DEF OrdersInv
<1>2. CASE UNCHANGED vars
  <2>1. RowsOk(db)' /\ Budget'
    BY <1>0, <1>2 DEF vars, RowsOk, DistrictOk, OrderOk, NoOrder, nextOf, Budget, Busy
  <2>2. ASSUME NEW u \in Terminals
        PROVE  SnapOk(u)' /\ WorkOk(u)' /\ StatusOk(u)'
    <3>1. SnapOk(u)' /\ StatusOk(u)'
      BY <1>0, <1>2 DEF vars, SnapOk, StatusOk, RowsOk, DistrictOk, OrderOk, NoOrder, nextOf
    <3>2. WorkOk(u)'
      BY <1>0, <1>2 DEF vars, WorkOk, DistrictWork, OrderWork, InsertedWork, DeliveredWork,
             Inserts, Numbers, Ordering, Delivers, Delivering, nextOf
    <3> QED BY <3>1, <3>2
  <2> QED BY <2>1, <2>2 DEF OrdersInv
<1> QED BY <1>1, <1>2 DEF Next, Step

\* So the bound on order numbers cuts off none.
LEMMA NumbersInRange ==
    ASSUME TypeInv, RowsOk(db), Budget, NEW w \in Warehouses, NEW d \in Districts
    PROVE  1..nextOf(db, w, d) - 1 \subseteq OrderNumbers /\ OrderNumbers \subseteq Nat
<1>0. PICK next : next = nextOf(db, w, d)
  OBVIOUS
<1>1. next \in Nat \ {0}
  BY <1>0, NextIsNumber
<1>2. next - 1 - ORD_PER_DIST + Cardinality(Busy) <= started /\ IsFiniteSet(Busy)
  BY <1>0 DEF Budget
<1>3. Cardinality(Busy) \in Nat
  BY <1>2, FS_CardinalityType
<1>4. started \in 0..MaxTransactions /\ ORD_PER_DIST \in Nat /\ MaxTransactions \in Nat
  BY TpccAssumption DEF TypeInv
<1>5. next - 1 <= ORD_PER_DIST + MaxTransactions
  BY <1>1, <1>2, <1>3, <1>4
<1> QED BY <1>0, <1>1, <1>4, <1>5 DEF OrderNumbers

\* Order numbers have no gaps, every order has as many lines as it says, and
\* it has a carrier exactly when its lines are delivered and it is no new
\* order, however New Order, Payment and Delivery overlap and wherever they
\* fail (NewOrder.neword, Delivery.delivery: FOR UPDATE on d_next_o_id, one
\* transaction for all rows of an order).
THEOREM OrdersAreComplete == Spec => []OrdersComplete
<1>1. ASSUME IInv, OrdersInv, Budget PROVE OrdersComplete
  <2> SUFFICES ASSUME NEW w \in Warehouses, NEW d \in Districts
               PROVE  LET ids == OrderIds(db, w, d)
                      IN  /\ ids = 1..db[District(w, d)].next - 1
                          /\ NewOrderIds(db, w, d) \subseteq ids
                          /\ \A o \in ids :
                                 LET order == db[Order(w, d, o)]
                                     lines == db[OrderLines(w, d, o)]
                                 IN  /\ Len(lines) = order.ol_cnt
                                     /\ order.carrier = (o \notin NewOrderIds(db, w, d))
                                     /\ \A i \in DOMAIN lines : lines[i].delivered = order.carrier
    BY DEF OrdersComplete
  <2>0. PICK next : next = nextOf(db, w, d)
    OBVIOUS
  <2>1. RowsOk(db) /\ next \in Nat /\ next >= 1 /\ next = db[District(w, d)].next
    BY <1>1, <2>0, NextIsNumber DEF OrdersInv, nextOf
  <2>3. 1..next - 1 \subseteq OrderNumbers /\ OrderNumbers \subseteq Nat
    BY <1>1, <2>0, <2>1, NumbersInRange DEF IInv
  <2>4. \A o \in Nat : /\ o \in 1..next - 1 => OrderOk(db, w, d, o)
                       /\ o \notin 1..next - 1 => NoOrder(db, w, d, o)
    BY <2>0, <2>1, OrdersThereAre
  <2>5. OrderIds(db, w, d) = 1..next - 1
    BY <2>3, <2>4 DEF OrderIds, OrderOk, NoOrder
  <2>6. NewOrderIds(db, w, d) \subseteq 1..next - 1
    BY <2>3, <2>4 DEF NewOrderIds, NoOrder
  <2>7. ASSUME NEW o \in 1..next - 1
        PROVE  LET order == db[Order(w, d, o)]
                   lines == db[OrderLines(w, d, o)]
               IN  /\ Len(lines) = order.ol_cnt
                   /\ order.carrier = (o \notin NewOrderIds(db, w, d))
                   /\ \A i \in DOMAIN lines : lines[i].delivered = order.carrier
    <3>1. OrderOk(db, w, d, o) /\ o \in OrderNumbers
      BY <2>3, <2>4
    <3>2. o \in NewOrderIds(db, w, d) <=> NewOrderRow(w, d, o) \in DOMAIN db
      BY <3>1 DEF NewOrderIds
    <3> QED BY <3>1, <3>2 DEF OrderOk
  <2> QED BY <2>1, <2>5, <2>6, <2>7
<1> QED BY <1>1, InvInit, InvNext, OrdersInit, OrdersNext, PTL DEF Spec

\* The lines that Order Status shows are those of the order that it shows,
\* also when a Delivery commits between its two SELECTs (OrderStat.ordstat:
\* both read the snapshot of the first).
THEOREM StatusIsConsistent == Spec => []OrderStatusConsistent
<1>1. OrdersInv => OrderStatusConsistent
  BY DEF OrdersInv, StatusOk, OrderStatusConsistent, at
<1> QED BY <1>1, InvInit, InvNext, OrdersInit, OrdersNext, PTL DEF Spec

-----------------------------------------------------------------------------
(* Numbers in ascending order.                                             *)

UpTo(ids, o) == {p \in ids : p <= o}

\* Where o is among the numbers.
placeOf(ids, o) == Cardinality(UpTo(ids, o))

\* Every place has one number, and the numbers are in order.
LEMMA Places ==
    ASSUME NEW ids, ids \subseteq Nat, IsFiniteSet(ids)
    PROVE  /\ Cardinality(ids) \in Nat
           /\ \A o \in ids : placeOf(ids, o) \in 1..Cardinality(ids)
           /\ \A o, p \in ids : o < p => placeOf(ids, o) < placeOf(ids, p)
           /\ \A i \in 1..Cardinality(ids) : \E o \in ids : placeOf(ids, o) = i
<1>1. PICK n : n = Cardinality(ids)
  OBVIOUS
<1>2. n \in Nat
  BY <1>1, FS_CardinalityType
<1>3. ASSUME NEW o \in ids
      PROVE  IsFiniteSet(UpTo(ids, o)) /\ placeOf(ids, o) \in 1..n
  <2>1. UpTo(ids, o) \in SUBSET ids /\ o \in UpTo(ids, o)
    BY DEF UpTo
  <2>2. IsFiniteSet(UpTo(ids, o)) /\ Cardinality(UpTo(ids, o)) <= n
    BY <1>1, <2>1, FS_Subset
  <2>3. Cardinality(UpTo(ids, o)) \in Nat /\ Cardinality(UpTo(ids, o)) # 0
    BY <2>1, <2>2, FS_CardinalityType, FS_EmptySet
  <2> QED BY <1>2, <2>2, <2>3 DEF placeOf
<1>4. ASSUME NEW o \in ids, NEW p \in ids, o < p
      PROVE  placeOf(ids, o) < placeOf(ids, p)
  <2>1. o \in Nat /\ p \in Nat
    OBVIOUS
  <2>2. UpTo(ids, o) \in SUBSET UpTo(ids, p)
    <3>1. \A q \in ids : q \in Nat /\ (q <= o => q <= p)
      BY <1>4, <2>1
    <3> QED BY <3>1 DEF UpTo
  <2>3. p \in UpTo(ids, p) /\ p \notin UpTo(ids, o)
    BY <1>4, <2>1 DEF UpTo
  <2>4. placeOf(ids, o) <= placeOf(ids, p) /\ placeOf(ids, o) # placeOf(ids, p)
    BY <1>3, <2>2, <2>3, FS_Subset DEF placeOf
  <2> QED BY <1>2, <1>3, <2>4
<1>5. ASSUME NEW i \in 1..n
      PROVE  \E o \in ids : placeOf(ids, o) = i
  <2>1. PICK f : f = [o \in ids |-> placeOf(ids, o)]
    OBVIOUS
  <2>2. f \in [ids -> 1..n]
    BY <1>3, <2>1
  <2>3. \A o, p \in ids : f[o] = f[p] => o = p
    <3> SUFFICES ASSUME NEW o \in ids, NEW p \in ids, f[o] = f[p], o # p PROVE FALSE
      OBVIOUS
    <3>1. o < p \/ p < o
      OBVIOUS
    <3>2. f[o] \in 1..n /\ f[p] \in 1..n
      BY <2>2
    <3>3. f[o] < f[p] \/ f[p] < f[o]
      BY <1>4, <2>1, <3>1
    <3> QED BY <1>2, <3>2, <3>3
  <2>4. f \in Injection(ids, 1..n)
    BY <2>2, <2>3 DEF Injection, IsInjective
  <2>5. IsFiniteSet(1..n) /\ Cardinality(1..n) = n
    BY <1>2, FS_Interval
  <2>6. f \in Surjection(ids, 1..n)
    BY <1>1, <2>4, <2>5, FS_Injection
  <2> QED BY <2>1, <2>6 DEF Surjection
<1> QED BY <1>1, <1>2, <1>3, <1>4, <1>5

\* ascending has each number at its place.
LEMMA AscendingIs ==
    ASSUME NEW ids, ids \subseteq Nat, IsFiniteSet(ids)
    PROVE  /\ ascending(ids) \in Seq(ids) /\ Len(ascending(ids)) = Cardinality(ids)
           /\ \A i \in 1..Cardinality(ids) : /\ ascending(ids)[i] \in ids
                                             /\ placeOf(ids, ascending(ids)[i]) = i
           /\ \A o \in ids : ascending(ids)[placeOf(ids, o)] = o
<1>1. PICK n, f : n = Cardinality(ids) /\ f = ascending(ids)
  OBVIOUS
<1>2. n \in Nat /\ f = [i \in 1..n |-> CHOOSE o \in ids : placeOf(ids, o) = i]
  BY <1>1, Places DEF ascending, placeOf, UpTo
<1>3. ASSUME NEW i \in 1..n PROVE f[i] \in ids /\ placeOf(ids, f[i]) = i
  <2>1. \E o \in ids : placeOf(ids, o) = i
    BY <1>1, Places
  <2>2. f[i] = CHOOSE o \in ids : placeOf(ids, o) = i
    BY <1>2
  <2> QED BY <2>1, <2>2
<1>4. f \in [1..n -> ids]
  BY <1>2, <1>3
<1>5. f \in Seq(ids) /\ Len(f) = n
  BY <1>2, <1>4, SeqDef, LenProperties
<1>6. ASSUME NEW o \in ids PROVE f[placeOf(ids, o)] = o
  <2>1. PICK i \in 1..n : i = placeOf(ids, o)
    BY <1>1, Places
  <2>2. f[i] \in ids /\ placeOf(ids, f[i]) = placeOf(ids, o)
    BY <1>3, <2>1
  <2>3. f[i] = o
    <3>1. PICK p \in ids : p = f[i]
      BY <2>2
    <3>2. ~(p < o) /\ ~(o < p)
      <4>1. placeOf(ids, p) = i /\ placeOf(ids, o) = i /\ i \in Nat
        BY <1>2, <2>1, <2>2, <3>1
      <4>2. /\ p < o => placeOf(ids, p) < placeOf(ids, o)
            /\ o < p => placeOf(ids, o) < placeOf(ids, p)
        BY Places
      <4> QED BY <4>1, <4>2
    <3>3. p \in Nat /\ o \in Nat
      OBVIOUS
    <3> QED BY <3>1, <3>2, <3>3
  <2> QED BY <2>1, <2>3
<1> QED BY <1>1, <1>3, <1>5, <1>6

\* It is the only sequence that has.
LEMMA AscendingIsOnly ==
    ASSUME NEW ids, ids \subseteq Nat, IsFiniteSet(ids), NEW q \in Seq(ids), Len(q) = Cardinality(ids),
           \A i \in 1..Len(q) : placeOf(ids, q[i]) = i
    PROVE  q = ascending(ids)
<1>1. PICK f : f = ascending(ids)
  OBVIOUS
<1>2. f \in Seq(ids) /\ Len(f) = Len(q) /\ \A i \in 1..Len(f) : f[i] \in ids /\ placeOf(ids, f[i]) = i
  BY <1>1, AscendingIs
<1>3. \A i \in 1..Len(q) : q[i] \in ids
  BY ElementOfSeq
<1>4. ASSUME NEW i \in 1..Len(q) PROVE f[i] = q[i]
  <2>1. f[i] \in ids /\ q[i] \in ids /\ placeOf(ids, f[i]) = placeOf(ids, q[i])
    BY <1>2, <1>3
  <2>2. f[placeOf(ids, f[i])] = f[i] /\ f[placeOf(ids, q[i])] = q[i]
    BY <1>1, <2>1, AscendingIs
  <2> QED BY <2>1, <2>2
<1> QED BY <1>1, <1>2, <1>4, SeqEqual

\* A larger number comes last.
LEMMA AscendingAppend ==
    ASSUME NEW ids, ids \subseteq Nat, IsFiniteSet(ids), NEW m \in Nat, \A p \in ids : p < m
    PROVE  ascending(ids \cup {m}) = Append(ascending(ids), m)
<1>1. PICK f, all, n, q : /\ f = ascending(ids) /\ all = ids \cup {m} /\ n = Cardinality(ids)
                          /\ q = Append(f, m)
  OBVIOUS
<1>2. /\ f \in Seq(ids) /\ Len(f) = n /\ n \in Nat
      /\ \A i \in 1..n : f[i] \in ids /\ placeOf(ids, f[i]) = i
  BY <1>1, AscendingIs, Places
<1>3. m \notin ids
  OBVIOUS
<1>4. all \subseteq Nat /\ IsFiniteSet(all) /\ Cardinality(all) = n + 1
  BY <1>1, <1>3, FS_AddElement
<1>5. f \in Seq(all)
  <2>1. f \in [1..n -> all]
    BY <1>1, <1>2, LenProperties
  <2> QED BY <1>2, <2>1, SeqDef
<1>6. /\ q \in Seq(all) /\ Len(q) = n + 1 /\ q[n + 1] = m
      /\ \A i \in 1..n : q[i] = f[i]
  BY <1>1, <1>2, <1>5, AppendProperties
<1>7. ASSUME NEW i \in 1..Len(q) PROVE placeOf(all, q[i]) = i
  <2>1. CASE i \in 1..n
    <3>1. PICK x \in ids : x = f[i] /\ x = q[i] /\ placeOf(ids, x) = i
      BY <1>2, <1>6, <2>1
    <3>2. UpTo(all, x) = UpTo(ids, x)
      BY <1>1 DEF UpTo
    <3> QED BY <3>1, <3>2 DEF placeOf
  <2>2. CASE i = n + 1
    <3>1. UpTo(all, m) = all
      <4>1. \A p \in all : p <= m
        <5>1. \A p \in ids : p \in Nat
          OBVIOUS
        <5> QED BY <1>1, <5>1
      <4> QED BY <4>1 DEF UpTo
    <3> QED BY <1>4, <1>6, <2>2, <3>1 DEF placeOf
  <2> QED BY <1>2, <1>6, <2>1, <2>2
<1>8. q = ascending(all)
  BY <1>4, <1>6, <1>7, AscendingIsOnly
<1> QED BY <1>1, <1>8

\* The smallest number is the first.
LEMMA AscendingTail ==
    ASSUME NEW ids, ids \subseteq Nat, IsFiniteSet(ids), NEW m \in ids, \A p \in ids : m <= p
    PROVE  ascending(ids) # <<>> /\ ascending(ids \ {m}) = Tail(ascending(ids))
<1>1. PICK f, rest, n : f = ascending(ids) /\ rest = ids \ {m} /\ n = Cardinality(ids)
  OBVIOUS
<1>2. /\ f \in Seq(ids) /\ Len(f) = n /\ n \in Nat
      /\ \A i \in 1..n : f[i] \in ids /\ placeOf(ids, f[i]) = i
      /\ \A o \in ids : f[placeOf(ids, o)] = o
  BY <1>1, AscendingIs, Places
<1>3. placeOf(ids, m) = 1
  <2>1. UpTo(ids, m) = {m}
    <3>1. \A p \in ids : p <= m <=> p = m
      OBVIOUS
    <3> QED BY <3>1 DEF UpTo
  <2> QED BY <2>1, FS_Singleton DEF placeOf
<1>4. rest \subseteq Nat /\ IsFiniteSet(rest) /\ Cardinality(rest) = n - 1 /\ n # 0
  BY <1>1, FS_RemoveElement, FS_EmptySet
<1>5. f # <<>>
  BY <1>2, <1>4, EmptySeq
<1>6. /\ Len(Tail(f)) = n - 1 /\ Tail(f) \in Seq(ids)
      /\ \A i \in 1..n - 1 : Tail(f)[i] = f[i + 1]
  BY <1>2, <1>5, HeadTailProperties
<1>7. ASSUME NEW i \in 1..n - 1 PROVE Tail(f)[i] \in rest /\ placeOf(rest, Tail(f)[i]) = i
  <2>1. i + 1 \in 1..n /\ i + 1 # 1 /\ i \in Nat
    BY <1>2
  <2>2. PICK x \in ids : x = f[i + 1] /\ x = Tail(f)[i] /\ placeOf(ids, x) = i + 1
    BY <1>2, <1>6, <2>1
  <2>3. x # m
    BY <1>3, <2>1, <2>2
  <2>4. UpTo(rest, x) = UpTo(ids, x) \ {m} /\ m \in UpTo(ids, x)
    BY <1>1, <2>2 DEF UpTo
  <2>5. IsFiniteSet(UpTo(ids, x))
    <3>1. UpTo(ids, x) \in SUBSET ids
      BY DEF UpTo
    <3> QED BY <3>1, FS_Subset
  <2>6. placeOf(rest, x) = i
    <3>1. Cardinality(UpTo(ids, x) \ {m}) = Cardinality(UpTo(ids, x)) - 1
      BY <2>4, <2>5, FS_RemoveElement
    <3>2. Cardinality(UpTo(ids, x)) = i + 1
      BY <2>2 DEF placeOf
    <3>3. placeOf(rest, x) = Cardinality(UpTo(ids, x) \ {m})
      BY <2>4 DEF placeOf
    <3> QED BY <2>1, <3>1, <3>2, <3>3
  <2> QED BY <1>1, <2>2, <2>3, <2>6
<1>8. Tail(f) \in Seq(rest)
  <2>1. PICK k, g : k = n - 1 /\ g = Tail(f)
    OBVIOUS
  <2>0. k \in Nat
    BY <1>2, <1>4, <2>1
  <2>a. Len(g) = k /\ g \in Seq(ids)
    BY <1>6, <2>1
  <2>b. \A i \in 1..k : g[i] \in rest
    BY <1>7, <2>1
  <2>2. k \in Nat /\ Len(g) = k /\ g \in Seq(ids) /\ \A i \in 1..k : g[i] \in rest
    BY <2>0, <2>a, <2>b
  <2>3. g \in [1..k -> ids]
    BY <2>2, LenProperties
  <2>4. g \in [1..k -> rest]
    BY <2>2, <2>3
  <2>5. g \in Seq(rest)
    <3>1. g \in UNION {[1..i -> rest] : i \in Nat}
      BY <2>2, <2>4
    <3> QED BY <3>1, SeqDef
  <2> QED BY <2>1, <2>5
<1>9. Tail(f) = ascending(rest)
  BY <1>4, <1>6, <1>7, <1>8, AscendingIsOnly
<1> QED BY <1>1, <1>5, <1>9

-----------------------------------------------------------------------------
(* The oldest new order of a district.                                     *)

\* No new order of the district has a number below o.
Oldest(rows, w, d, o) == \A p \in Nat : NewOrderRow(w, d, p) \in DOMAIN rows => o <= p

\* An order that is still new was new when t took its snapshot.
Sees(t) == snap[t] # NoRows =>
    \A w \in Warehouses, d \in Districts : \A o \in 1..nextOf(snap[t], w, d) - 1 :
        NewOrderRow(w, d, o) \in DOMAIN db => NewOrderRow(w, d, o) \in DOMAIN snap[t]

\* The order that a Delivery is about to take off the queue, and one that it
\* has taken off, are the oldest of their districts: the exclusive lock of the
\* row keeps every other Delivery from taking it before the commit.
Takes(t, w, d, o) ==
    LET new == NewOrderRow(w, d, o)
    IN  /\ pc[t] = "delete" /\ Delivering(t, w, d, o) => Oldest(db, w, d, o)
        /\ Delivers(t) /\ new \in DOMAIN work[t] =>
               /\ w = tx[t].w /\ X(new) \in held[t]
               /\ new \in DOMAIN db /\ Oldest(db, w, d, o)
               /\ \/ pc[t] = "commit" \/ d < loc[t].d
                  \/ d = loc[t].d /\ pc[t] \in {"carrier", "credit"}

TakesOldest(t) == \A w \in Warehouses, d \in Districts, o \in Nat : Takes(t, w, d, o)

QueueInv == \A t \in Terminals : Sees(t) /\ TakesOldest(t)

\* New orders are orders: their numbers are those that have been given out.
LEMMA NewOrderHasNumber ==
    ASSUME NEW rows, RowsOk(rows), NEW w \in Warehouses, NEW d \in Districts, NEW o \in Nat,
           NewOrderRow(w, d, o) \in DOMAIN rows
    PROVE  o \in 1..nextOf(rows, w, d) - 1
    BY OrdersThereAre DEF NoOrder

\* New orders come in behind the oldest.
LEMMA OldestStays ==
    ASSUME RowsOk(db), RowsOk(db'), DbGrows, NEW w \in Warehouses, NEW d \in Districts, NEW o \in Nat,
           o \in 1..nextOf(db, w, d) - 1, Oldest(db, w, d, o)
    PROVE  Oldest(db', w, d, o)
<1> SUFFICES ASSUME NEW p \in Nat, NewOrderRow(w, d, p) \in DOMAIN db' PROVE o <= p
  BY DEF Oldest
<1>1. nextOf(db, w, d) \in Nat /\ nextOf(db', w, d) \in Nat
  BY NextIsNumber
<1>2. p \in 1..nextOf(db', w, d) - 1
  BY NewOrderHasNumber
<1>3. CASE p \in 1..nextOf(db, w, d) - 1
  <2>1. NewOrderRow(w, d, p) \in DOMAIN db
    BY <1>3 DEF DbGrows
  <2> QED BY <2>1 DEF Oldest
<1>4. CASE p \notin 1..nextOf(db, w, d) - 1
  BY <1>1, <1>2, <1>4
<1> QED BY <1>3, <1>4

\* What a commit does to the rows of new orders: it adds the one inserted, and
\* removes those that the transaction has deleted.
LEMMA CommittedNewOrder ==
    ASSUME RowsOk(db), NEW t \in Terminals, WorkOk(t), commit(t), pc[t] = "commit",
           NEW w \in Warehouses, NEW d \in Districts, NEW o \in Nat
    PROVE  LET new == NewOrderRow(w, d, o)
           IN  /\ new \in DOMAIN db' <=> Inserts(t, w, d, o) \/ (new \in DOMAIN db /\ new \notin DOMAIN work[t])
               /\ new \in DOMAIN work[t] => Inserts(t, w, d, o) \/ Delivers(t)
<1> DEFINE new == NewOrderRow(w, d, o)
<1>1. db' = Apply(db, work[t]) /\ OrderWork(t, w, d, o)
  BY DEF commit, WorkOk
<1>2. CASE Inserts(t, w, d, o)
  <2>1. new \in DOMAIN work[t] /\ work[t][new] = TRUE
    BY <1>1, <1>2 DEF OrderWork, InsertedWork
  <2> QED BY <1>1, <1>2, <2>1, ValuesAreNotNil, ApplyRows
<1>3. CASE ~Inserts(t, w, d, o)
  <2>1. new \in DOMAIN work[t] => Delivers(t) /\ work[t][new] = Nil
    BY <1>1, <1>3 DEF OrderWork, DeliveredWork
  <2> QED BY <1>1, <1>3, <2>1, ApplyRows
<1> QED BY <1>2, <1>3

\* A new order that another terminal has deleted stays until its commit.
LEMMA NewOrderStays ==
    ASSUME TypeInv, Exclusive, RowsOk(db), NEW t \in Terminals, WorkOk(t), TakesOldest(t), Step(t),
           NEW u \in Terminals, u # t, NEW w \in Warehouses, NEW d \in Districts, NEW o \in Nat,
           NewOrderRow(w, d, o) \in DOMAIN db, X(NewOrderRow(w, d, o)) \in held[u]
    PROVE  NewOrderRow(w, d, o) \in DOMAIN db'
<1> DEFINE new == NewOrderRow(w, d, o)
<1>1. CASE commit(t) /\ pc[t] = "commit"
  <2>1. \/ new \in DOMAIN db'
        \/ new \in DOMAIN work[t] /\ Delivers(t)
    BY <1>1, CommittedNewOrder
  <2>2. ASSUME new \in DOMAIN work[t], Delivers(t) PROVE FALSE
    <3>1. X(new) \in held[t]
      BY <2>2 DEF TakesOldest, Takes
    <3> QED BY <3>1 DEF Exclusive, Conflict, X
  <2> QED BY <2>1, <2>2
<1>2. CASE db' = db
  BY <1>2
<1> QED BY <1>1, <1>2, DbChanges

\* So the other terminals still take the oldest.
LEMMA OtherTakes ==
    ASSUME TypeInv, Exclusive, RowsOk(db), NEW t \in Terminals, WorkOk(t), TakesOldest(t), Step(t),
           NEW u \in Terminals, u # t, WorkOk(u), TakesOldest(u)
    PROVE  TakesOldest(u)'
<1> SUFFICES ASSUME NEW w \in Warehouses, NEW d \in Districts, NEW o \in Nat PROVE Takes(u, w, d, o)'
  BY DEF TakesOldest
<1> DEFINE new == NewOrderRow(w, d, o)
<1>1. /\ pc'[u] = pc[u] /\ tx'[u] = tx[u] /\ loc'[u] = loc[u]
      /\ work'[u] = work[u] /\ held'[u] = held[u]
  BY StepIsApart DEF Apart
<1>2. (Delivers(u)' <=> Delivers(u)) /\ (Delivering(u, w, d, o)' <=> Delivering(u, w, d, o))
  BY <1>1 DEF Delivers, Delivering
<1>3. Takes(u, w, d, o) /\ RowsOk(db') /\ DbGrows
  BY DbStep DEF TakesOldest
<1>4. ASSUME o \in 1..nextOf(db, w, d) - 1, Oldest(db, w, d, o) PROVE Oldest(db, w, d, o)'
  <2>1. Oldest(db', w, d, o)
    BY <1>3, <1>4, OldestStays
  <2> QED BY <2>1 DEF Oldest
<1>5. ASSUME pc[u] = "delete", Delivering(u, w, d, o) PROVE Oldest(db, w, d, o)'
  <2>1. DeliveredWork(u, w, d, o)
    BY <1>5 DEF WorkOk, OrderWork, Inserts, Numbers, Ordering
  <2> QED BY <1>3, <1>4, <1>5, <2>1 DEF Takes, DeliveredWork
<1>6. ASSUME Delivers(u), new \in DOMAIN work[u] PROVE new \in DOMAIN db' /\ Oldest(db, w, d, o)'
  <2>1. X(new) \in held[u] /\ new \in DOMAIN db /\ Oldest(db, w, d, o)
    BY <1>3, <1>6 DEF Takes
  <2>2. o \in 1..nextOf(db, w, d) - 1
    BY <2>1, NewOrderHasNumber
  <2> QED BY <1>4, <2>1, <2>2, NewOrderStays
<1> QED BY <1>1, <1>2, <1>3, <1>5, <1>6 DEF Takes

\* An order that leaves the queue never comes back.
LEMMA SeesStep ==
    ASSUME TypeInv, RowsOk(db), NEW t \in Terminals, WorkOk(t), Step(t),
           NEW u \in Terminals, SnapOk(u), Sees(u)
    PROVE  Sees(u)'
<1>1. PICK new : new = snap'[u]
  OBVIOUS
<1>2. new \in {snap[u], db, NoRows} /\ DbGrows
  BY <1>1, SnapChanges, DbStep
<1>3. ASSUME NEW w \in Warehouses, NEW d \in Districts, NEW o \in 1..nextOf(new, w, d) - 1,
             NewOrderRow(w, d, o) \in DOMAIN db', new # NoRows
      PROVE  NewOrderRow(w, d, o) \in DOMAIN new
  <2>1. nextOf(new, w, d) \in Nat /\ nextOf(db, w, d) \in Nat /\ nextOf(new, w, d) <= nextOf(db, w, d)
    <3>1. nextOf(db, w, d) \in Nat
      BY NextIsNumber
    <3>2. CASE new = snap[u]
      <4>1. RowsOk(new) /\ nextOf(new, w, d) <= nextOf(db, w, d)
        BY <1>3, <3>2 DEF SnapOk
      <4> QED BY <3>1, <4>1, NextIsNumber
    <3>3. CASE new = db
      BY <3>1, <3>3
    <3> QED BY <1>2, <1>3, <3>2, <3>3
  <2>2. o \in 1..nextOf(db, w, d) - 1
    BY <2>1
  <2>3. NewOrderRow(w, d, o) \in DOMAIN db
    BY <1>2, <1>3, <2>2 DEF DbGrows
  <2>4. CASE new = snap[u]
    BY <1>3, <2>3, <2>4 DEF Sees
  <2>5. CASE new = db
    BY <2>3, <2>5
  <2> QED BY <1>2, <1>3, <2>4, <2>5
<1>4. \A w, d : nextOf(snap[u], w, d)' = nextOf(new, w, d)
  BY <1>1 DEF nextOf
<1> QED BY <1>1, <1>3, <1>4 DEF Sees

\* The SELECT of a Delivery finds the oldest new order: one that was placed
\* since the snapshot is behind it, one that left was in the snapshot too.
LEMMA OldestFound ==
    ASSUME TypeInv, RowsOk(db), Budget, NEW t \in Terminals, WorkOk(t), SnapOk(t), Sees(t), TakesOldest(t),
           pc[t] = "oldest", NEW w, NEW d, w = tx[t].w, d = loc[t].d,
           NEW ids, ids = NewOrderIds(View(t), w, d), ids # {}
    PROVE  Oldest(db, w, d, Min(ids))
<1>0. PICK rows, o : rows = (IF snap[t] = NoRows THEN db ELSE snap[t]) /\ o = Min(ids)
  OBVIOUS
<1>1. w \in Warehouses /\ d \in Districts /\ ~Ordering(t) /\ Delivers(t)
  BY Kinds DEF TypeInv, Doing, Ordering, Delivers
<1>2. 1..nextOf(db, w, d) - 1 \subseteq OrderNumbers /\ OrderNumbers \subseteq Nat
  BY <1>1, NumbersInRange
<1>3. o \in ids /\ \A p \in ids : o <= p
  <2>1. ids \subseteq Nat
    BY <1>2 DEF NewOrderIds
  <2> QED BY <1>0, <2>1, MinOf
<1>4. o \in Nat /\ o \in 1..nextOf(rows, w, d) - 1
  BY <1>0, <1>1, <1>3, NewOrdersSeen
<1>5. RowsOk(rows) /\ nextOf(rows, w, d) \in Nat /\ nextOf(db, w, d) \in Nat
  BY <1>0, <1>1, NextIsNumber DEF SnapOk
<1>6. ASSUME NEW p \in Nat, NewOrderRow(w, d, p) \in DOMAIN db
      PROVE  o <= p
  <2>1. p \in 1..nextOf(db, w, d) - 1
    BY <1>1, <1>6, NewOrderHasNumber
  <2>2. CASE p \in 1..nextOf(rows, w, d) - 1
    <3>1. NewOrderRow(w, d, p) \in DOMAIN rows
      BY <1>0, <1>1, <1>6, <2>2 DEF Sees
    <3>2. NewOrderRow(w, d, p) \notin DOMAIN work[t]
      <4>1. Takes(t, w, d, p) /\ loc[t].d \in Nat
        BY <1>1 DEF TakesOldest, Districts
      <4> QED BY <1>1, <4>1 DEF Takes
    <3>3. NewOrderRow(w, d, p) \in DOMAIN View(t)
      BY <1>0, <3>1, <3>2, ApplyRows DEF View
    <3>4. p \in ids
      BY <1>2, <2>1, <3>3 DEF NewOrderIds
    <3> QED BY <1>3, <3>4
  <2>3. CASE p \notin 1..nextOf(rows, w, d) - 1
    BY <1>4, <1>5, <2>1, <2>3
  <2> QED BY <2>2, <2>3
<1> QED BY <1>0, <1>6 DEF Oldest

\* What a Delivery has taken is kept by a step that deletes no new order, and
\* goes on with the same district or the next.
LEMMA TakesKept ==
    ASSUME TypeInv, NEW t \in Terminals, Untouched(t), Delivers(t), pc[t] # "commit",
           NEW w \in Warehouses, NEW d \in Districts, NEW o \in Nat, Takes(t, w, d, o),
           Kept(t, NewOrderRow(w, d, o)),
           \/ pc'[t] = "commit"
           \/ loc'[t].d = loc[t].d + 1
           \/ loc'[t].d = loc[t].d /\ (pc[t] = "oldest" \/ pc'[t] \in {"carrier", "credit"}),
           pc'[t] = "delete" /\ Delivering(t, w, d, o)' => Oldest(db, w, d, o)
    PROVE  Takes(t, w, d, o)'
<1> DEFINE new == NewOrderRow(w, d, o)
<1>1. Oldest(db, w, d, o) => Oldest(db, w, d, o)'
  BY DEF Oldest, Untouched
<1>2. ASSUME new \in DOMAIN work'[t]
      PROVE  /\ w = tx'[t].w /\ X(new) \in held'[t] /\ new \in DOMAIN db' /\ Oldest(db, w, d, o)'
             /\ \/ pc'[t] = "commit" \/ d < loc'[t].d
                \/ d = loc'[t].d /\ pc'[t] \in {"carrier", "credit"}
  <2>1. /\ w = tx[t].w /\ X(new) \in held[t] /\ new \in DOMAIN db /\ Oldest(db, w, d, o)
        /\ d < loc[t].d \/ (d = loc[t].d /\ pc[t] \in {"carrier", "credit"})
    BY <1>2 DEF Takes, Kept
  <2>2. d \in Nat /\ loc[t].d \in Nat
    BY Constants DEF TypeInv, Doing, Delivers, Districts
  <2>3. \/ pc'[t] = "commit" \/ d < loc'[t].d
        \/ d = loc'[t].d /\ pc'[t] \in {"carrier", "credit"}
    BY <2>1, <2>2
  <2> QED BY <1>1, <2>1, <2>3 DEF Untouched
<1> QED BY <1>1, <1>2 DEF Takes

\* nextDistrict counts the districts up.
LEMMA NextDistrictCounts ==
    ASSUME TypeInv, NEW t \in Terminals, nextDistrict(t)
    PROVE  loc'[t].d = loc[t].d + 1 /\ pc'[t] \in {"commit", "oldest"}
<1>1. set(t, [loc[t] EXCEPT !.d = @ + 1])
  BY DEF nextDistrict
<1> QED BY <1>1, GotoFacts, NextDistrictFacts DEF Fields

\* The SELECT of the oldest new order.
LEMMA FindOldestTakes ==
    ASSUME TypeInv, RowsOk(db), Budget, NEW t \in Terminals, WorkOk(t), SnapOk(t), Sees(t), TakesOldest(t),
           FindOldest(t)
    PROVE  TakesOldest(t)'
<1>0. PICK ids : ids = NewOrderIds(View(t), tx[t].w, loc[t].d)
  OBVIOUS
<1>1. /\ pc[t] = "oldest" /\ UNCHANGED <<db, work, held, tx>>
      /\ IF ids = {} THEN nextDistrict(t) ELSE set(t, [loc[t] EXCEPT !.o = Min(ids)]) /\ goto(t, "delete")
  BY <1>0 DEF FindOldest, Select, at, bookkeeping
<1>2. CASE ids = {}
  <2>1. loc'[t].d = loc[t].d + 1 /\ pc'[t] \in {"commit", "oldest"}
    BY <1>1, <1>2, NextDistrictCounts
  <2>2. Untouched(t) /\ Delivers(t) /\ \A k : Kept(t, k)
    BY <1>1, <2>1 DEF Untouched, Delivers, Kept
  <2> QED BY <1>1, <2>1, <2>2, TakesKept DEF TakesOldest
<1>3. CASE ids # {}
  <2>1. pc'[t] = "delete" /\ loc'[t].o = Min(ids) /\ loc'[t].d = loc[t].d
    BY <1>1, <1>3, GotoFacts DEF Fields
  <2>2. Untouched(t) /\ Delivers(t) /\ \A k : Kept(t, k)
    BY <1>1, <2>1 DEF Untouched, Delivers, Kept
  <2>3. Oldest(db, tx[t].w, loc[t].d, Min(ids))
    BY <1>0, <1>1, <1>3, OldestFound
  <2>4. \A w, d, o : Delivering(t, w, d, o)' => Oldest(db, w, d, o)
    BY <1>1, <2>1, <2>3 DEF Delivering
  <2> QED BY <1>1, <2>1, <2>2, <2>4, TakesKept DEF TakesOldest
<1> QED BY <1>2, <1>3

\* The DELETE: the row is there, locked, and the oldest.
LEMMA DeleteNewOrderTakes ==
    ASSUME TypeInv, RowsOk(db), NEW t \in Terminals, WorkOk(t), TakesOldest(t), DeleteNewOrder(t)
    PROVE  TakesOldest(t)'
<1>0. PICK w, d, o, key : w = tx[t].w /\ d = loc[t].d /\ o = loc[t].o /\ key = NewOrderRow(w, d, o)
  OBVIOUS
<1>1. /\ pc[t] = "delete" /\ UNCHANGED <<db, tx>> /\ held'[t] = held[t] \cup requests(t)
  BY UpdateFacts DEF DeleteNewOrder
<1>2. pc'[t] = "carrier" /\ loc'[t] = loc[t]
  BY GotoFacts DEF DeleteNewOrder
<1>3. Untouched(t) /\ Delivers(t) /\ ~Ordering(t)
  BY <1>1, <1>2 DEF Untouched, Delivers, Ordering
<1>4. IF key \in DOMAIN Latest(t) THEN Write(t, Row(key, Nil)) ELSE UNCHANGED work
  BY <1>0 DEF DeleteNewOrder
<1>5. \A k : k # key => Kept(t, k)
  BY <1>4, WriteOne DEF Kept
<1>6. ASSUME NEW v \in Warehouses, NEW e \in Districts, NEW i \in Nat
      PROVE  Takes(t, v, e, i)'
  <2>1. Takes(t, v, e, i)
    BY DEF TakesOldest
  <2>2. CASE ~(v = w /\ e = d /\ i = o) \/ key \notin DOMAIN Latest(t)
    <3>1. Kept(t, NewOrderRow(v, e, i))
      BY <1>0, <1>4, <1>5, <2>2, Keys DEF Kept
    <3> QED BY <1>1, <1>2, <1>3, <2>1, <3>1, TakesKept
  <2>3. CASE v = w /\ e = d /\ i = o /\ key \in DOMAIN Latest(t)
    <3>1. Oldest(db, v, e, i)
      BY <1>0, <1>1, <2>1, <2>3 DEF Takes, Delivering
    <3>2. NewOrderRow(v, e, i) = key
      BY <1>0, <2>3
    <3>3. key \in DOMAIN db
      <4>1. DeliveredWork(t, v, e, i)
        BY <1>3 DEF WorkOk, OrderWork, Inserts, Numbers
      <4>2. key \in DOMAIN work[t] => work[t][key] = Nil
        BY <3>2, <4>1 DEF DeliveredWork
      <4> QED BY <2>3, <4>2, ApplyRows DEF Latest
    <3>4. X(key) \in held'[t]
      <4>1. X(key) \in requests(t)
        BY <1>0, <1>1, <3>3 DEF requests, at
      <4> QED BY <1>1, <4>1
    <3>5. Oldest(db, v, e, i)'
      BY <1>1, <3>1 DEF Oldest
    <3> QED BY <1>0, <1>1, <1>2, <2>3, <3>2, <3>3, <3>4, <3>5 DEF Takes
  <2> QED BY <2>2, <2>3
<1> QED BY <1>6 DEF TakesOldest

\* The UPDATEs of a Delivery delete no new order.
LEMMA UpdatesTake ==
    ASSUME TypeInv, NEW t \in Terminals, TakesOldest(t), SetCarrier(t) \/ CreditCustomer(t)
    PROVE  TakesOldest(t)'
<1>1. CASE SetCarrier(t)
  <2>0. PICK order, lines, v1, v2, c :
            /\ order = Order(tx[t].w, loc[t].d, loc[t].o) /\ lines = OrderLines(tx[t].w, loc[t].d, loc[t].o)
            /\ v1 = [Latest(t)[order] EXCEPT !.carrier = TRUE]
            /\ v2 = [i \in DOMAIN Latest(t)[lines] |-> [Latest(t)[lines][i] EXCEPT !.delivered = TRUE]]
            /\ c = View(t)[order].cust
    OBVIOUS
  <2>1. /\ pc[t] = "carrier" /\ UNCHANGED <<db, tx>> /\ held'[t] = held[t] \cup requests(t)
    BY <1>1, UpdateFacts DEF SetCarrier
  <2>2. pc'[t] = "credit" /\ loc'[t].d = loc[t].d
    <3>1. goto(t, "credit") /\ set(t, [loc[t] EXCEPT !.c = c])
      BY <1>1, <2>0 DEF SetCarrier
    <3> QED BY <3>1, GotoFacts DEF Fields
  <2>3. Untouched(t) /\ Delivers(t)
    BY <2>1, <2>2 DEF Untouched, Delivers
  <2>4. \A w, d, o : Kept(t, NewOrderRow(w, d, o))
    <3>1. order[1] = "orders" /\ lines[1] = "order_line" /\ order # lines
      BY <2>0 DEF Order, OrderLines
    <3>2. Write(t, Row(order, v1) ++ Row(lines, v2))
      BY <1>1, <2>0 DEF SetCarrier
    <3>3. \A k : k \notin {order, lines} => Kept(t, k)
      BY <3>1, <3>2, WriteTwo
    <3> QED BY <3>1, <3>3 DEF NewOrderRow
  <2> QED BY <2>1, <2>2, <2>3, <2>4, TakesKept DEF TakesOldest
<1>2. CASE CreditCustomer(t)
  <2>0. PICK key, v :
            /\ key = Customer(tx[t].w, loc[t].d, loc[t].c)
            /\ v = [Latest(t)[key] EXCEPT
                       !.balance = @ + Total(View(t)[OrderLines(tx[t].w, loc[t].d, loc[t].o)]),
                       !.deliveries = @ + 1]
    OBVIOUS
  <2>1. /\ pc[t] = "credit" /\ UNCHANGED <<db, tx>> /\ held'[t] = held[t] \cup requests(t)
    BY <1>2, UpdateFacts DEF CreditCustomer
  <2>2. loc'[t].d = loc[t].d + 1 /\ pc'[t] \in {"commit", "oldest"}
    BY <1>2, NextDistrictCounts DEF CreditCustomer
  <2>3. Untouched(t) /\ Delivers(t)
    BY <2>1, <2>2 DEF Untouched, Delivers
  <2>4. \A w, d, o : Kept(t, NewOrderRow(w, d, o))
    <3>1. Write(t, Row(key, v))
      BY <1>2, <2>0 DEF CreditCustomer
    <3>2. \A k : k # key => Kept(t, k)
      BY <3>1, WriteOne
    <3> QED BY <2>0, <3>2 DEF NewOrderRow, Customer
  <2> QED BY <2>1, <2>2, <2>3, <2>4, TakesKept DEF TakesOldest
<1> QED BY <1>1, <1>2

\* A terminal that has written nothing, or runs no Delivery, has taken none.
LEMMA OthersTakeNone ==
    ASSUME TypeInv, NEW t \in Terminals, Step(t), ~FindOldest(t), ~DeleteNewOrder(t), ~SetCarrier(t),
           ~CreditCustomer(t)
    PROVE  TakesOldest(t)'
<1>1. ASSUME ~Delivers(t)' \/ (work'[t] = NoRows /\ pc'[t] # "delete")
      PROVE  TakesOldest(t)'
  BY <1>1 DEF TakesOldest, Takes, Delivers, Delivering, NoRows
<1>2. CASE Commit(t) \/ CommitFails(t) \/ NoItem(t)
  BY <1>1, <1>2, ReleaseFacts, GotoFacts DEF Commit, CommitFails, NoItem, commit, rollback
<1>3. CASE Fail(t)
  <2>1. work'[t] = NoRows
    BY <1>3, ReleaseFacts DEF Fail, rollback
  <2>2. pc'[t] = firstStatement(tx[t]) /\ tx[t] \in Calls
    BY <1>3, GotoFacts DEF Fail, at, TypeInv, Doing
  <2> QED BY <1>1, <2>1, <2>2, FirstStatement
<1>4. ASSUME NEW call \in Calls, Begin(t, call) PROVE TakesOldest(t)'
  <2>1. work'[t] = NoRows
    BY <1>4 DEF Begin, at, TypeInv
  <2>2. pc'[t] = firstStatement(call)
    BY <1>4, GotoFacts DEF Begin
  <2> QED BY <1>1, <2>1, <2>2, FirstStatement
<1>5. CASE \/ TakeOrderNumber(t) \/ InsertOrder(t) \/ PayWarehouse(t) \/ PayDistrict(t)
           \/ FindOrder(t) \/ ReadLevel(t)
  <2>1. pc'[t] \in {"order", "line", "payment", "customer", "lines", "count"}
    BY <1>5, GotoFacts DEF TakeOrderNumber, InsertOrder, PayWarehouse, PayDistrict, FindOrder, ReadLevel
  <2> QED BY <1>1, <2>1 DEF Delivers
<1>6. CASE OrderLine(t) \/ PayCustomer(t) \/ ReadLines(t) \/ CountStock(t)
  <2>1. tx' = tx /\ pc[t] \in {"line", "customer", "lines", "count"}
    BY <1>6 DEF OrderLine, PayCustomer, ReadLines, CountStock, Update, Select, at, bookkeeping
  <2>2. tx'[t].kind # "Delivery"
    BY <2>1, Kinds DEF TypeInv, Doing
  <2>3. pc'[t] \in {"line", "commit"}
    <3>1. CASE OrderLine(t)
      <4>1. \/ goto(t, "commit") \/ goto(t, "line")
        BY <3>1 DEF OrderLine
      <4> QED BY <4>1, GotoFacts
    <3>2. CASE PayCustomer(t) \/ ReadLines(t) \/ CountStock(t)
      BY <3>2, GotoFacts DEF PayCustomer, ReadLines, CountStock
    <3> QED BY <1>6, <3>1, <3>2
  <2> QED BY <1>1, <2>2, <2>3 DEF Delivers
<1> QED BY <1>2, <1>3, <1>4, <1>5, <1>6 DEF Step, Statement

\* The invariant of the queue holds at first ...
LEMMA QueueInit == Init => QueueInv
<1> SUFFICES ASSUME Init, NEW t \in Terminals PROVE Sees(t) /\ TakesOldest(t)
  BY DEF QueueInv
<1>1. snap[t] = NoRows /\ pc[t] = "idle"
  BY DEF Init, DatabaseInit
<1> QED BY <1>1 DEF Sees, TakesOldest, Takes, Delivers

\* ... and every step keeps it.
LEMMA QueueNext == IInv /\ OrdersInv /\ Budget /\ QueueInv /\ [Next]_vars => QueueInv'
<1> SUFFICES ASSUME IInv, OrdersInv, Budget, QueueInv, [Next]_vars, NEW u \in Terminals
             PROVE  Sees(u)' /\ TakesOldest(u)'
  BY DEF QueueInv
<1>0. /\ TypeInv /\ Exclusive /\ RowsOk(db)
      /\ \A t \in Terminals : SnapOk(t) /\ WorkOk(t) /\ Sees(t) /\ TakesOldest(t)
  BY DEF IInv, LockInv, OrdersInv, QueueInv
<1>1. ASSUME NEW t \in Terminals, Step(t) PROVE Sees(u)' /\ TakesOldest(u)'
  <2>1. Sees(u)'
    BY <1>0, <1>1, SeesStep
  <2>2. u # t => TakesOldest(u)'
    BY <1>0, <1>1, OtherTakes
  <2>3. TakesOldest(t)'
    BY <1>0, <1>1, FindOldestTakes, DeleteNewOrderTakes, UpdatesTake, OthersTakeNone
  <2> QED BY <2>1, <2>2, <2>3
<1>2. CASE UNCHANGED vars
  BY <1>0, <1>2 DEF vars, Sees, TakesOldest, Takes, Oldest, Delivers, Delivering, nextOf
<1> QED BY <1>1, <1>2 DEF Next, Step

-----------------------------------------------------------------------------
(* The queues.                                                             *)

\* The queue of a district.
queueOf(wd) == ascending(NewOrderIds(db, wd[1], wd[2]))

\* The new orders of a district are finitely many numbers that have been given
\* out.
LEMMA NewOrderNumbers ==
    ASSUME TypeInv, RowsOk(db), Budget, NEW w \in Warehouses, NEW d \in Districts
    PROVE  /\ NewOrderIds(db, w, d) \subseteq Nat /\ IsFiniteSet(NewOrderIds(db, w, d))
           /\ NewOrderIds(db, w, d) \subseteq 1..nextOf(db, w, d) - 1
           /\ \A o \in Nat : o \in NewOrderIds(db, w, d) <=> NewOrderRow(w, d, o) \in DOMAIN db
<1>1. nextOf(db, w, d) \in Nat
  BY NextIsNumber
<1>2. 1..nextOf(db, w, d) - 1 \subseteq OrderNumbers /\ OrderNumbers \subseteq Nat
  BY NumbersInRange
<1>3. \A o \in Nat : NewOrderRow(w, d, o) \in DOMAIN db => o \in 1..nextOf(db, w, d) - 1
  BY NewOrderHasNumber
<1>4. /\ NewOrderIds(db, w, d) \subseteq Nat
      /\ NewOrderIds(db, w, d) \subseteq 1..nextOf(db, w, d) - 1
      /\ \A o \in Nat : o \in NewOrderIds(db, w, d) <=> NewOrderRow(w, d, o) \in DOMAIN db
  BY <1>2, <1>3 DEF NewOrderIds
<1>5. IsFiniteSet(1..nextOf(db, w, d) - 1)
  BY <1>1, FS_Interval
<1> QED BY <1>4, <1>5, FS_Subset

\* The number that comes next is not beyond the bound either, while a
\* transaction is open.
LEMMA NextInRange ==
    ASSUME TypeInv, RowsOk(db), Budget, NEW t \in Terminals, pc[t] # "idle",
           NEW w \in Warehouses, NEW d \in Districts
    PROVE  nextOf(db, w, d) \in OrderNumbers
<1>0. PICK next : next = nextOf(db, w, d)
  OBVIOUS
<1>1. next \in Nat \ {0}
  BY <1>0, NextIsNumber
<1>2. next - 1 - ORD_PER_DIST + Cardinality(Busy) <= started /\ IsFiniteSet(Busy)
  BY <1>0 DEF Budget
<1>3. Cardinality(Busy) \in Nat /\ Cardinality(Busy) # 0
  <2>1. t \in Busy
    BY DEF Busy
  <2> QED BY <1>2, <2>1, FS_CardinalityType, FS_EmptySet
<1>4. started \in 0..MaxTransactions /\ ORD_PER_DIST \in Nat /\ MaxTransactions \in Nat
  BY TpccAssumption DEF TypeInv
<1>5. next <= ORD_PER_DIST + MaxTransactions
  BY <1>1, <1>2, <1>3, <1>4
<1> QED BY <1>0, <1>1, <1>4, <1>5 DEF OrderNumbers

\* Before the commit: what holds of the committed rows and of t.
CommitsRight(t) ==
    /\ TypeInv /\ RowsOk(db) /\ Budget /\ WorkOk(t) /\ TakesOldest(t)
    /\ commit(t) /\ pc[t] = "commit"

\* A commit that touches no new order of a district leaves its queue.
LEMMA QueueStays ==
    ASSUME NEW t \in Terminals, CommitsRight(t), NEW w \in Warehouses, NEW d \in Districts,
           \A o \in Nat : NewOrderRow(w, d, o) \notin DOMAIN work[t] /\ ~Inserts(t, w, d, o)
    PROVE  queueOf(<<w, d>>)' = queueOf(<<w, d>>)
<1>1. \A o \in Nat : NewOrderRow(w, d, o) \in DOMAIN db' <=> NewOrderRow(w, d, o) \in DOMAIN db
  BY CommittedNewOrder DEF CommitsRight
<1>2. OrderNumbers \subseteq Nat
  BY NumbersInRange DEF CommitsRight
<1>3. NewOrderIds(db, w, d)' = NewOrderIds(db, w, d)
  BY <1>1, <1>2 DEF NewOrderIds
<1> QED BY <1>3 DEF queueOf

\* The commit of a New Order places its order.
LEMMA CommitPlaces ==
    ASSUME NEW t \in Terminals, CommitsRight(t), tx[t].kind = "NewOrder"
    PROVE  \E wd \in Warehouses \X Districts : Queue!Place(wd)
<1>0. PICK w, d, n : w = tx[t].w /\ d = tx[t].d /\ n = loc[t].o
  OBVIOUS
<1>1. tx[t] \in Calls
  BY DEF CommitsRight, TypeInv, Doing
<1>2. w \in Warehouses /\ d \in Districts
  <2>1. \/ tx[t] \in NewOrderCall \/ tx[t] \in PaymentCall \/ tx[t] \in OrderStatCall
        \/ tx[t] \in DeliveryCall \/ tx[t] \in SlevCall
    BY <1>1, TpccAssumption
  <2> QED BY <1>0, <2>1, Kinds
<1>3. Numbers(t, w, d) /\ ~Delivers(t) /\ n = nextOf(db, w, d) /\ Inserts(t, w, d, n)
  <2>1. Numbers(t, w, d) /\ ~Delivers(t)
    BY <1>0 DEF CommitsRight, Numbers, Ordering, Delivers
  <2>2. DistrictWork(t, w, d)
    BY <1>2 DEF CommitsRight, WorkOk
  <2> QED BY <1>0, <2>1, <2>2 DEF DistrictWork, Inserts, CommitsRight
<1>4. \A v, e, o : Inserts(t, v, e, o) => v = w /\ e = d /\ o = n
  BY <1>0 DEF Inserts, Numbers
<1>5. \A v \in Warehouses, e \in Districts :
          nextOf(db', v, e) = nextOf(db, v, e) + IF v = w /\ e = d THEN 1 ELSE 0
  BY <1>0, <1>3, CommittedDistrict DEF CommitsRight, Numbers
<1>6. \A v \in Warehouses, e \in Districts, o \in Nat :
          NewOrderRow(v, e, o) \in DOMAIN work[t] => v = w /\ e = d /\ o = n
  BY <1>3, <1>4, CommittedNewOrder DEF CommitsRight
<1>7. ASSUME NEW v \in Warehouses, NEW e \in Districts, ~(v = w /\ e = d)
      PROVE  queueOf(<<v, e>>)' = queueOf(<<v, e>>)
  BY <1>4, <1>6, <1>7, QueueStays
<1>8. queueOf(<<w, d>>)' = Append(queueOf(<<w, d>>), n)
  <2>0. PICK ids : ids = NewOrderIds(db, w, d)
    OBVIOUS
  <2>1. /\ ids \subseteq Nat /\ IsFiniteSet(ids) /\ ids \subseteq 1..n - 1
        /\ \A o \in Nat : o \in ids <=> NewOrderRow(w, d, o) \in DOMAIN db
    BY <1>2, <1>3, <2>0, NewOrderNumbers DEF CommitsRight
  <2>2. n \in Nat /\ n \in OrderNumbers
    BY <1>2, <1>3, NextInRange, NextIsNumber DEF CommitsRight
  <2>3. \A o \in Nat : NewOrderRow(w, d, o) \in DOMAIN db' <=> o = n \/ o \in ids
    <3> TAKE o \in Nat
    <3>1. NewOrderRow(w, d, o) \in DOMAIN db' <=>
              Inserts(t, w, d, o) \/ (NewOrderRow(w, d, o) \in DOMAIN db /\ NewOrderRow(w, d, o) \notin DOMAIN work[t])
      BY <1>2, CommittedNewOrder DEF CommitsRight
    <3>2. NewOrderRow(w, d, o) \in DOMAIN work[t] => o = n
      BY <1>2, <1>6
    <3> QED BY <1>3, <1>4, <2>1, <3>1, <3>2
  <2>4. NewOrderIds(db, w, d)' = ids \cup {n}
    <3>1. OrderNumbers \subseteq Nat /\ ids \subseteq OrderNumbers
      BY <1>2, <2>0, NumbersInRange DEF CommitsRight, NewOrderIds
    <3> QED BY <2>2, <2>3, <3>1 DEF NewOrderIds
  <2>5. \A p \in ids : p < n
    BY <2>1, <2>2
  <2>6. ascending(ids \cup {n}) = Append(ascending(ids), n)
    BY <2>1, <2>2, <2>5, AscendingAppend
  <2> QED BY <2>0, <2>4, <2>6 DEF queueOf
<1>9. Queue!Place(<<w, d>>)
  <2>0. <<w, d>> \in Warehouses \X Districts
    BY <1>2
  <2>1. [wd \in Warehouses \X Districts |-> db[District(wd[1], wd[2])].next]'
            = [[wd \in Warehouses \X Districts |-> db[District(wd[1], wd[2])].next]
                  EXCEPT ![<<w, d>>] = @ + 1]
    <3>1. ASSUME NEW wd \in Warehouses \X Districts
          PROVE  db'[District(wd[1], wd[2])].next =
                     IF wd = <<w, d>> THEN db[District(wd[1], wd[2])].next + 1
                                      ELSE db[District(wd[1], wd[2])].next
      <4>1. PICK v \in Warehouses, e \in Districts : wd = <<v, e>>
        OBVIOUS
      <4>2. nextOf(db, v, e) \in Nat
        BY NextIsNumber DEF CommitsRight
      <4>3. nextOf(db', v, e) = IF v = w /\ e = d THEN nextOf(db, v, e) + 1 ELSE nextOf(db, v, e)
        BY <1>5, <4>2
      <4> QED BY <4>1, <4>3 DEF nextOf
    <3> QED BY <2>0, <3>1
  <2>2. [wd \in Warehouses \X Districts |-> queueOf(wd)]'
            = [[wd \in Warehouses \X Districts |-> queueOf(wd)] EXCEPT ![<<w, d>>] = Append(@, n)]
    <3>1. ASSUME NEW wd \in Warehouses \X Districts
          PROVE  queueOf(wd)' = IF wd = <<w, d>> THEN Append(queueOf(wd), n) ELSE queueOf(wd)
      <4>1. PICK v \in Warehouses, e \in Districts : wd = <<v, e>>
        OBVIOUS
      <4> QED BY <1>7, <1>8, <4>1
    <3> QED BY <2>0, <3>1
  <2>3. [wd \in Warehouses \X Districts |-> db[District(wd[1], wd[2])].next][<<w, d>>] = n
    BY <1>3, <2>0 DEF nextOf
  <2> QED BY <2>1, <2>2, <2>3 DEF Queue!Place, queueOf
<1> QED BY <1>2, <1>9

\* The commit of a Delivery takes the oldest order of the districts that it
\* has found one in.
LEMMA CommitDelivers ==
    ASSUME NEW t \in Terminals, CommitsRight(t), tx[t].kind = "Delivery"
    PROVE  \E w \in Warehouses : \E ds \in SUBSET Districts : Queue!Deliver(w, ds)
<1>0. PICK w, ds : /\ w = tx[t].w
                   /\ ds = {d \in Districts : \E o \in Nat : NewOrderRow(w, d, o) \in DOMAIN work[t]}
  OBVIOUS
<1>1. w \in Warehouses
  <2>1. tx[t] \in Calls
    BY DEF CommitsRight, TypeInv, Doing
  <2>2. \/ tx[t] \in NewOrderCall \/ tx[t] \in PaymentCall \/ tx[t] \in OrderStatCall
        \/ tx[t] \in DeliveryCall \/ tx[t] \in SlevCall
    BY <2>1, TpccAssumption
  <2> QED BY <1>0, <2>2, Kinds
<1>2. Delivers(t) /\ ~Ordering(t) /\ \A v, e, o : ~Numbers(t, v, e) /\ ~Inserts(t, v, e, o)
  BY DEF CommitsRight, Delivers, Ordering, Numbers, Inserts
<1>3. \A v \in Warehouses, e \in Districts : nextOf(db', v, e) = nextOf(db, v, e)
  <2> TAKE v \in Warehouses, e \in Districts
  <2>1. nextOf(db, v, e) \in Nat
    BY NextIsNumber DEF CommitsRight
  <2>2. nextOf(db', v, e) = nextOf(db, v, e) + IF Numbers(t, v, e) THEN 1 ELSE 0
    BY CommittedDistrict DEF CommitsRight
  <2>3. ~Numbers(t, v, e)
    BY <1>2
  <2> QED BY <2>1, <2>2, <2>3
<1>4. \A v \in Warehouses, e \in Districts, o \in Nat : NewOrderRow(v, e, o) \in DOMAIN work[t] =>
          v = w /\ e \in ds /\ NewOrderRow(v, e, o) \in DOMAIN db /\ Oldest(db, v, e, o)
  BY <1>0, <1>2 DEF CommitsRight, TakesOldest, Takes
<1>5. ASSUME NEW v \in Warehouses, NEW e \in Districts, ~(v = w /\ e \in ds)
      PROVE  queueOf(<<v, e>>)' = queueOf(<<v, e>>)
  BY <1>2, <1>4, <1>5, QueueStays
<1>6. ASSUME NEW d \in ds
      PROVE  queueOf(<<w, d>>) # <<>> /\ queueOf(<<w, d>>)' = Tail(queueOf(<<w, d>>))
  <2>0. PICK ids, o : /\ ids = NewOrderIds(db, w, d)
                      /\ o \in Nat /\ NewOrderRow(w, d, o) \in DOMAIN work[t]
    BY <1>0
  <2>1. d \in Districts
    BY <1>0
  <2>2. /\ ids \subseteq Nat /\ IsFiniteSet(ids)
        /\ \A p \in Nat : p \in ids <=> NewOrderRow(w, d, p) \in DOMAIN db
    BY <1>1, <2>0, <2>1, NewOrderNumbers DEF CommitsRight
  <2>3. o \in ids /\ \A p \in ids : o <= p
    BY <1>1, <1>4, <2>0, <2>1, <2>2 DEF Oldest
  <2>4. ASSUME NEW p \in Nat
        PROVE  NewOrderRow(w, d, p) \in DOMAIN db' <=> p \in ids /\ p # o
    <3>1. NewOrderRow(w, d, p) \in DOMAIN db' <=>
              NewOrderRow(w, d, p) \in DOMAIN db /\ NewOrderRow(w, d, p) \notin DOMAIN work[t]
      BY <1>1, <1>2, <2>1, CommittedNewOrder DEF CommitsRight
    <3>2. NewOrderRow(w, d, p) \in DOMAIN work[t] => p = o
      <4> SUFFICES ASSUME NewOrderRow(w, d, p) \in DOMAIN work[t] PROVE p = o
        OBVIOUS
      <4>1. p \in ids /\ p <= o
        BY <1>1, <1>4, <2>0, <2>1, <2>2, <2>3 DEF Oldest
      <4> QED BY <2>0, <2>3, <4>1
    <3> QED BY <2>0, <2>2, <3>1, <3>2
  <2>5. NewOrderIds(db, w, d)' = ids \ {o}
    <3>1. OrderNumbers \subseteq Nat /\ ids \subseteq OrderNumbers
      BY <1>1, <2>0, <2>1, NumbersInRange DEF CommitsRight, NewOrderIds
    <3> QED BY <2>4, <3>1 DEF NewOrderIds
  <2>6. ascending(ids) # <<>> /\ ascending(ids \ {o}) = Tail(ascending(ids))
    BY <2>2, <2>3, AscendingTail
  <2> QED BY <2>0, <2>5, <2>6 DEF queueOf
<1>7. Queue!Deliver(w, ds)
  <2>1. UNCHANGED [wd \in Warehouses \X Districts |-> db[District(wd[1], wd[2])].next]
    BY <1>3 DEF nextOf
  <2>2. \A d \in ds : [wd \in Warehouses \X Districts |-> queueOf(wd)][<<w, d>>] # <<>>
    BY <1>0, <1>1, <1>6
  <2>3. [wd \in Warehouses \X Districts |-> queueOf(wd)]'
            = [wd \in Warehouses \X Districts |->
                  IF wd[1] = w /\ wd[2] \in ds THEN Tail(queueOf(wd)) ELSE queueOf(wd)]
    <3>1. ASSUME NEW wd \in Warehouses \X Districts
          PROVE  queueOf(wd)' = IF wd[1] = w /\ wd[2] \in ds THEN Tail(queueOf(wd)) ELSE queueOf(wd)
      <4>1. PICK v \in Warehouses, e \in Districts : wd = <<v, e>>
        OBVIOUS
      <4> QED BY <1>5, <1>6, <4>1
    <3> QED BY <3>1
  <2> QED BY <2>1, <2>2, <2>3 DEF Queue!Deliver, queueOf
<1> QED BY <1>0, <1>1, <1>7

\* Every other commit leaves the queues.
LEMMA OtherCommit ==
    ASSUME NEW t \in Terminals, CommitsRight(t), tx[t].kind \notin {"NewOrder", "Delivery"}
    PROVE  UNCHANGED Queue!queueVars
<1>1. ~Delivers(t) /\ \A v, e, o : ~Numbers(t, v, e) /\ ~Inserts(t, v, e, o)
  BY DEF CommitsRight, Delivers, Ordering, Numbers, Inserts
<1>2. ASSUME NEW v \in Warehouses, NEW e \in Districts
      PROVE  nextOf(db', v, e) = nextOf(db, v, e) /\ queueOf(<<v, e>>)' = queueOf(<<v, e>>)
  <2>1. nextOf(db, v, e) \in Nat
    BY NextIsNumber DEF CommitsRight
  <2>2. nextOf(db', v, e) = nextOf(db, v, e)
    <3>1. nextOf(db', v, e) = nextOf(db, v, e) + IF Numbers(t, v, e) THEN 1 ELSE 0
      BY CommittedDistrict DEF CommitsRight
    <3>2. ~Numbers(t, v, e)
      BY <1>1
    <3> QED BY <2>1, <3>1, <3>2
  <2>3. \A o \in Nat : NewOrderRow(v, e, o) \notin DOMAIN work[t]
    BY <1>1, CommittedNewOrder DEF CommitsRight
  <2> QED BY <1>1, <2>2, <2>3, QueueStays
<1>3. UNCHANGED [wd \in Warehouses \X Districts |-> db[District(wd[1], wd[2])].next]
  BY <1>2 DEF nextOf
<1>4. UNCHANGED [wd \in Warehouses \X Districts |-> queueOf(wd)]
  <2>1. ASSUME NEW wd \in Warehouses \X Districts PROVE queueOf(wd)' = queueOf(wd)
    BY <1>2
  <2> QED BY <2>1
<1> QED BY <1>3, <1>4 DEF Queue!queueVars, queueOf

\* The tables are loaded with a queue in every district.
LEMMA QueueRefinesInit == Init => Queue!Init
<1> SUFFICES ASSUME Init PROVE Queue!Init
  OBVIOUS
<1>1. db = LoadedRows /\ ORD_PER_DIST \in Nat
  BY TpccAssumption DEF Init, DatabaseInit
<1>2. ASSUME NEW v \in Warehouses, NEW e \in Districts
      PROVE  nextOf(db, v, e) = ORD_PER_DIST + 1 /\ queueOf(<<v, e>>) \in Seq(1..ORD_PER_DIST)
  <2>0. PICK ids : ids = NewOrderIds(db, v, e)
    OBVIOUS
  <2>1. OrderNumbers \subseteq Nat
    BY <1>1, Constants DEF OrderNumbers
  <2>2. ids \subseteq 1..ORD_PER_DIST
    BY <1>1, <2>0, <2>1, LoadedOrders DEF NewOrderIds
  <2>3. ids \subseteq Nat /\ IsFiniteSet(ids)
    <3>1. IsFiniteSet(1..ORD_PER_DIST) /\ 1..ORD_PER_DIST \subseteq Nat
      BY <1>1, FS_Interval
    <3>2. IsFiniteSet(ids)
      BY <2>2, <3>1, FS_Subset
    <3> QED BY <2>2, <3>1, <3>2
  <2>4. ascending(ids) \in Seq(ids)
    BY <2>3, AscendingIs
  <2>5. ascending(ids) \in Seq(1..ORD_PER_DIST)
    <3>1. PICK q, n, T : q = ascending(ids) /\ n = Len(q) /\ T = 1..ORD_PER_DIST
      OBVIOUS
    <3>2. q \in [1..n -> ids] /\ n \in Nat
      BY <2>4, <3>1, LenProperties
    <3>3. q \in [1..n -> T]
      BY <2>2, <3>1, <3>2
    <3>4. q \in Seq(T)
      BY <3>2, <3>3, SeqDef
    <3> QED BY <3>1, <3>4
  <2> QED BY <1>1, <2>0, <2>5, LoadedOrders DEF nextOf, queueOf
<1>3. [wd \in Warehouses \X Districts |-> db[District(wd[1], wd[2])].next]
          = [wd \in Warehouses \X Districts |-> ORD_PER_DIST + 1]
  BY <1>2 DEF nextOf
<1>4. [wd \in Warehouses \X Districts |-> queueOf(wd)]
          \in [Warehouses \X Districts -> Seq(1..(ORD_PER_DIST + 1) - 1)]
  <2>1. (ORD_PER_DIST + 1) - 1 = ORD_PER_DIST
    BY <1>1
  <2>2. ASSUME NEW wd \in Warehouses \X Districts PROVE queueOf(wd) \in Seq(1..ORD_PER_DIST)
    BY <1>2
  <2> QED BY <2>1, <2>2
<1> QED BY <1>3, <1>4 DEF Queue!Init, queueOf

\* Every step places an order, delivers some, or leaves the queues.
LEMMA QueueRefinesNext ==
    IInv /\ OrdersInv /\ Budget /\ QueueInv /\ [Next]_vars => [Queue!Next]_Queue!queueVars
<1> SUFFICES ASSUME IInv, OrdersInv, Budget, QueueInv, [Next]_vars
             PROVE  Queue!Next \/ UNCHANGED Queue!queueVars
  OBVIOUS
<1>1. CASE db' = db
  BY <1>1 DEF Queue!queueVars, NewOrderIds
<1>2. ASSUME NEW t \in Terminals, Step(t), db' # db PROVE Queue!Next \/ UNCHANGED Queue!queueVars
  <2>1. CommitsRight(t)
    BY <1>2, DbChanges DEF CommitsRight, IInv, OrdersInv, QueueInv
  <2>2. tx[t].kind = "NewOrder" => Queue!Next
    BY <2>1, CommitPlaces DEF Queue!Next
  <2>3. tx[t].kind = "Delivery" => Queue!Next
    BY <2>1, CommitDelivers DEF Queue!Next
  <2> QED BY <2>1, <2>2, <2>3, OtherCommit
<1>3. CASE UNCHANGED vars
  BY <1>1, <1>3 DEF vars
<1> QED BY <1>1, <1>2, <1>3 DEF Next, Step

\* The transactions implement the queues: order numbers are given out in turn,
\* and an order leaves its district's queue by a Delivery, the oldest first and
\* once, also when two Deliveries find the same one or one of them fails
\* (NewOrder.neword, Delivery.delivery).
THEOREM OrdersAreQueued == Spec => OrderQueueSpec
<1> QED BY InvInit, InvNext, OrdersInit, OrdersNext, QueueInit, QueueNext, QueueRefinesInit,
           QueueRefinesNext, PTL DEF Spec, OrderQueueSpec, Queue!Spec

-----------------------------------------------------------------------------
(* Sums.                                                                   *)

\* A set that has 0 and with each number the next has them all.
LEMMA AllNumbers ==
    ASSUME NEW T, 0 \in T, \A n \in Nat : n \in T => n + 1 \in T
    PROVE  \A n \in Nat : n \in T
<1> DEFINE Missing == Nat \ T
<1> SUFFICES ASSUME Missing # {} PROVE FALSE
  OBVIOUS
<1>1. PICK x \in Missing : \A y \in Missing : x <= y
  <2>1. Missing \subseteq Nat
    OBVIOUS
  <2> HIDE DEF Missing
  <2> QED BY <2>1, NatMin
<1>2. x # 0 /\ x \in Nat
  BY <1>1
<1>3. x - 1 \in Nat /\ x - 1 \notin Missing
  BY <1>1, <1>2
<1> QED BY <1>2, <1>3

AnyOf(T) == CHOOSE x \in T : TRUE

\* it has the sums of f over the parts of a set, one element after the other.
Sums(it, f, whole) ==
    it = [part \in SUBSET whole |->
             IF part = {} THEN 0 ELSE f[AnyOf(part)] + it[part \ {AnyOf(part)}]]

\* It does not matter which element is taken out of the set.
LEMMA SumsWithout ==
    ASSUME NEW D, IsFiniteSet(D), NEW f \in [D -> Int], NEW it, Sums(it, f, D),
           NEW part \in SUBSET D
    PROVE  /\ it[part] \in Int
           /\ \A x \in part : it[part] = f[x] + it[part \ {x}]
<1> DEFINE Right(p) == it[p] \in Int /\ \A x \in p : it[p] = f[x] + it[p \ {x}]
           T == {n \in Nat : \A p \in SUBSET D : Cardinality(p) <= n => Right(p)}
<1>0. \A p \in SUBSET D : /\ IsFiniteSet(p) /\ Cardinality(p) \in Nat
                          /\ Cardinality(p) = 0 <=> p = {}
                          /\ \A x \in p : Cardinality(p \ {x}) = Cardinality(p) - 1
  BY FS_Subset, FS_CardinalityType, FS_EmptySet, FS_RemoveElement
<1>1. /\ it[{}] = 0
      /\ \A p \in SUBSET D : p # {} => /\ AnyOf(p) \in p
                                       /\ it[p] = f[AnyOf(p)] + it[p \ {AnyOf(p)}]
  BY DEF Sums, AnyOf
<1>2. 0 \in T
  <2>1. ASSUME NEW p \in SUBSET D, Cardinality(p) <= 0 PROVE Right(p)
    <3>1. p = {}
      BY <1>0, <2>1
    <3> QED BY <1>1, <3>1
  <2> QED BY <2>1
<1>3. ASSUME NEW n \in Nat, n \in T PROVE n + 1 \in T
  <2>0. Right({})
    BY <1>1
  <2> SUFFICES ASSUME NEW p \in SUBSET D, Cardinality(p) <= n + 1, p # {} PROVE Right(p)
    <3> HIDE DEF Right
    <3> QED BY <2>0
  <2> DEFINE a == AnyOf(p)
  <2>1. p # {} /\ a \in p /\ it[p] = f[a] + it[p \ {a}]
    BY <1>0, <1>1
  <2>2. ASSUME NEW x \in p PROVE Right(p \ {x})
    <3>1. Cardinality(p \ {x}) <= n /\ p \ {x} \in SUBSET D
      BY <1>0
    <3> QED BY <1>3, <3>1
  <2>3. \A x \in p : f[x] \in Int /\ it[p \ {x}] \in Int
    BY <2>2
  <2>4. ASSUME NEW x \in p PROVE it[p] = f[x] + it[p \ {x}]
    <3>1. CASE x = a
      BY <2>1, <3>1
    <3>2. CASE x # a
      <4> DEFINE r == p \ {a, x}
      <4>1. (p \ {a}) \ {x} = r /\ (p \ {x}) \ {a} = r /\ x \in p \ {a} /\ a \in p \ {x}
        BY <2>1, <3>2
      <4>2. it[p \ {a}] = f[x] + it[r] /\ it[p \ {x}] = f[a] + it[r]
        BY <2>1, <2>2, <4>1
      <4>3. it[r] \in Int
        <5>1. r \in SUBSET D /\ Cardinality(p \ {a}) <= n /\ Cardinality(r) = Cardinality(p \ {a}) - 1
          <6>1. p \ {a} \in SUBSET D /\ r = (p \ {a}) \ {x} /\ x \in p \ {a} /\ r \in SUBSET D
            BY <4>1
          <6>2. Cardinality(p \ {a}) <= n
            BY <1>0, <2>1
          <6> HIDE DEF r
          <6> QED BY <1>0, <6>1, <6>2
        <5>2. Cardinality(r) <= n
          BY <1>0, <5>1
        <5> QED BY <1>3, <5>1, <5>2
      <4> HIDE DEF r, a
      <4> QED BY <2>1, <2>3, <4>2, <4>3
    <3> QED BY <3>1, <3>2
  <2>5. it[p] \in Int
    BY <2>1, <2>3
  <2> QED BY <2>4, <2>5
<1>4. Cardinality(part) \in T
  <2> HIDE DEF T
  <2> QED BY <1>0, <1>2, <1>3, AllNumbers
<1> QED BY <1>4

\* Two ways to add up the parts of a set come to the same.
LEMMA SumsAgree ==
    ASSUME NEW D, IsFiniteSet(D), NEW E, IsFiniteSet(E), NEW f \in [D -> Int], NEW g \in [E -> Int],
           NEW it, Sums(it, f, D), NEW jt, Sums(jt, g, E),
           NEW part, part \subseteq D, part \subseteq E, \A x \in part : f[x] = g[x]
    PROVE  it[part] = jt[part]
<1> DEFINE T == {n \in Nat : \A p \in SUBSET part : Cardinality(p) = n => it[p] = jt[p]}
<1>0. \A p \in SUBSET part : /\ IsFiniteSet(p) /\ Cardinality(p) \in Nat
                             /\ Cardinality(p) = 0 <=> p = {}
                             /\ \A x \in p : Cardinality(p \ {x}) = Cardinality(p) - 1
  BY FS_Subset, FS_CardinalityType, FS_EmptySet, FS_RemoveElement
<1>1. it[{}] = 0 /\ jt[{}] = 0
  BY DEF Sums
<1>2. 0 \in T
  BY <1>0, <1>1
<1>3. ASSUME NEW n \in Nat, n \in T PROVE n + 1 \in T
  <2> SUFFICES ASSUME NEW p \in SUBSET part, Cardinality(p) = n + 1 PROVE it[p] = jt[p]
    OBVIOUS
  <2>1. PICK x \in p : TRUE
    BY <1>0
  <2>2. p \in SUBSET D /\ p \in SUBSET E
    OBVIOUS
  <2>3. it[p] = f[x] + it[p \ {x}] /\ jt[p] = g[x] + jt[p \ {x}]
    BY <2>1, <2>2, SumsWithout
  <2>4. it[p \ {x}] = jt[p \ {x}]
    BY <1>0, <1>3
  <2> QED BY <2>3, <2>4
<1>4. Cardinality(part) \in T
  <2> HIDE DEF T
  <2> QED BY <1>0, <1>2, <1>3, AllNumbers
<1> QED BY <1>4

\* Every finite set can be added up.
LEMMA SumsExist ==
    ASSUME NEW D, IsFiniteSet(D), NEW f \in [D -> Int]
    PROVE  \E it : Sums(it, f, D)
<1> DEFINE Small(n) == {p \in SUBSET D : Cardinality(p) <= n}
           Adds(it, n) == \A p \in Small(n) :
               it[p] = IF p = {} THEN 0 ELSE f[AnyOf(p)] + it[p \ {AnyOf(p)}]
           T == {n \in Nat : \E it : Adds(it, n)}
<1>0. \A p \in SUBSET D : /\ IsFiniteSet(p) /\ Cardinality(p) \in Nat
                          /\ Cardinality(p) = 0 <=> p = {}
                          /\ \A x \in p : Cardinality(p \ {x}) = Cardinality(p) - 1
                          /\ Cardinality(p) <= Cardinality(D)
  BY FS_Subset, FS_CardinalityType, FS_EmptySet, FS_RemoveElement
<1>1. \A p \in SUBSET D : p # {} => AnyOf(p) \in p
  BY DEF AnyOf
<1>2. 0 \in T
  <2>1. Adds([p \in SUBSET D |-> 0], 0)
    BY <1>0
  <2> QED BY <2>1
<1>3. ASSUME NEW n \in Nat, n \in T PROVE n + 1 \in T
  <2>1. PICK it : Adds(it, n)
    BY <1>3
  <2> DEFINE jt == [p \in SUBSET D |-> IF Cardinality(p) <= n THEN it[p]
                                       ELSE f[AnyOf(p)] + it[p \ {AnyOf(p)}]]
  <2>2. ASSUME NEW p \in Small(n + 1), p # {}
        PROVE  jt[p] = f[AnyOf(p)] + jt[p \ {AnyOf(p)}]
    <3>1. p \ {AnyOf(p)} \in SUBSET D /\ Cardinality(p \ {AnyOf(p)}) <= n
      BY <1>0, <1>1, <2>2
    <3>2. jt[p \ {AnyOf(p)}] = it[p \ {AnyOf(p)}]
      BY <3>1
    <3>3. jt[p] = f[AnyOf(p)] + it[p \ {AnyOf(p)}]
      BY <2>1, <2>2
    <3> HIDE DEF jt
    <3> QED BY <3>2, <3>3
  <2>3. jt[{}] = 0
    <3>1. {} \in Small(n)
      BY <1>0
    <3>2. it[{}] = 0
      BY <2>1, <3>1
    <3> QED BY <3>1, <3>2
  <2>4. Adds(jt, n + 1)
    <3> HIDE DEF jt
    <3> QED BY <2>2, <2>3
  <2> HIDE DEF Adds
  <2> QED BY <2>4
<1>4. PICK it : Adds(it, Cardinality(D))
  <2>1. Cardinality(D) \in Nat
    BY FS_CardinalityType
  <2>2. Cardinality(D) \in T
    <3> HIDE DEF T
    <3> QED BY <1>2, <1>3, <2>1, AllNumbers
  <2> QED BY <2>2
<1> DEFINE jt == [p \in SUBSET D |-> it[p]]
<1>5. ASSUME NEW p \in SUBSET D
      PROVE  jt[p] = IF p = {} THEN 0 ELSE f[AnyOf(p)] + jt[p \ {AnyOf(p)}]
  BY <1>0, <1>4
<1>6. jt = [p \in SUBSET D |-> jt[p]]
  OBVIOUS
<1>7. Sums(jt, f, D)
  <2> HIDE DEF jt
  <2> QED BY <1>5, <1>6 DEF Sums
<1> QED BY <1>7

\* SumOf adds up.
LEMMA SumOfSums ==
    ASSUME NEW D, IsFiniteSet(D), NEW f \in [D -> Int]
    PROVE  \E it : Sums(it, f, D) /\ SumOf(f) = it[D]
<1> DEFINE Adds(it) == it = [part \in SUBSET D |->
               IF part = {} THEN 0
               ELSE f[CHOOSE x \in part : TRUE] + it[part \ {CHOOSE x \in part : TRUE}]]
           any == CHOOSE it : Adds(it)
<1>1. D = DOMAIN f
  OBVIOUS
<1>2. SumOf(f) = any[D]
  BY <1>1 DEF SumOf, FoldFunction, FoldFunctionOnSet, MapThenFoldSet
<1>3. \A it : Adds(it) <=> Sums(it, f, D)
  BY DEF Sums, AnyOf
<1>4. \E it : Sums(it, f, D)
  BY SumsExist
<1> HIDE DEF Adds
<1>5. Sums(any, f, D)
  BY <1>3, <1>4
<1> QED BY <1>2, <1>5

\* The sum of nothing.
LEMMA SumOfNothing == ASSUME NEW f, DOMAIN f = {}, f \in [{} -> Int] PROVE SumOf(f) = 0
<1>1. PICK it : Sums(it, f, {}) /\ SumOf(f) = it[{}]
  BY FS_EmptySet, SumOfSums
<1> QED BY <1>1 DEF Sums

\* A sum is an element and the sum of the others.
LEMMA SumOfWithout ==
    ASSUME NEW D, IsFiniteSet(D), NEW f \in [D -> Int], NEW x \in D,
           NEW g, g \in [D \ {x} -> Int], \A y \in D \ {x} : g[y] = f[y]
    PROVE  SumOf(g) \in Int /\ SumOf(f) = f[x] + SumOf(g)
<1>1. PICK it : Sums(it, f, D) /\ SumOf(f) = it[D]
  BY SumOfSums
<1> DEFINE E == D \ {x}
<1>2. IsFiniteSet(E)
  BY FS_RemoveElement
<1>3. PICK jt : Sums(jt, g, E) /\ SumOf(g) = jt[E]
  <2> HIDE DEF E
  <2>1. g \in [E -> Int]
    BY DEF E
  <2> QED BY <1>2, <2>1, SumOfSums
<1>4. D \in SUBSET D
  OBVIOUS
<1>5. \A y \in D : it[D] = f[y] + it[D \ {y}]
  BY <1>1, <1>4, SumsWithout
<1>6. it[E] \in Int /\ it[E] = jt[E]
  <2>1. E \subseteq D /\ E \subseteq E /\ E \in SUBSET D
    OBVIOUS
  <2>2. g \in [E -> Int] /\ \A y \in E : f[y] = g[y]
    OBVIOUS
  <2> HIDE DEF E
  <2>3. it[E] \in Int
    BY <1>1, <2>1, SumsWithout
  <2>4. it[E] = jt[E]
    BY <1>1, <1>2, <1>3, <2>1, <2>2, SumsAgree
  <2> QED BY <2>3, <2>4
<1> QED BY <1>1, <1>3, <1>5, <1>6

-----------------------------------------------------------------------------
(* The money that transactions are moving.                                 *)

\* t is a Payment at its commit.
Pays(t) == pc[t] = "commit" /\ tx[t].kind = "Payment"

\* t is past the UPDATE of the warehouse, of the district.
Paying(t)               == pc[t] \in {"payment", "customer"} \/ Pays(t)
AddsToWarehouse(t, w)   == Paying(t) /\ w = tx[t].w
AddsToDistrict(t, w, d) == (pc[t] = "customer" \/ Pays(t)) /\ w = tx[t].w /\ d = tx[t].d

\* What t has written of a warehouse is locked, and the committed sum and the
\* amount.
WarehouseWork(t, w) ==
    LET key == Warehouse(w)
    IN  /\ key \in DOMAIN work[t] <=> AddsToWarehouse(t, w)
        /\ key \in DOMAIN work[t] => X(key) \in held[t] /\ work[t][key] = db[key] + tx[t].amount

\* What t has written of a district has the amount added exactly when t is
\* past the UPDATE of the district.
YtdWork(t, w, d) ==
    LET key == District(w, d)
    IN  /\ AddsToDistrict(t, w, d) => key \in DOMAIN work[t]
        /\ key \in DOMAIN work[t] =>
               work[t][key].ytd = db[key].ytd + IF AddsToDistrict(t, w, d) THEN tx[t].amount ELSE 0

\* A row of history is written last, with the number of the call.
HistoryWork(t) ==
    /\ \A n \in Nat : History(n) \in DOMAIN work[t] <=> Pays(t) /\ n = loc[t].no
    /\ Pays(t) => LET row == work[t][History(loc[t].no)]
                  IN  row \in HistoryRow /\ row.w = tx[t].w /\ row.d = tx[t].d /\ row.amount = tx[t].amount

MoneyWork(t) ==
    /\ \A w \in Warehouses : WarehouseWork(t, w) /\ \A d \in Districts : YtdWork(t, w, d)
    /\ HistoryWork(t)
    /\ pc[t] = "customer" => loc[t].c \in Customers

\* Calls that have begun have numbers of their own, under which there is no
\* row of history yet.
CallNumbers ==
    \A t \in Terminals : pc[t] # "idle" =>
        /\ loc[t].no \in 1..started /\ History(loc[t].no) \notin DOMAIN db
        /\ \A u \in Terminals : pc[u] # "idle" /\ t # u => loc[t].no # loc[u].no

\* The rows of warehouses and of history.
MoneyRows ==
    /\ \A w \in Warehouses : Warehouse(w) \in DOMAIN db /\ db[Warehouse(w)] \in Int
    /\ \A n \in Nat : History(n) \in DOMAIN db => n \in 1..started /\ db[History(n)] \in HistoryRow

\* The payments of a warehouse, and of a district, among the calls up to n.
HistoryOf(rows, n, w)    == {k \in {History(i) : i \in 1..n} \cap DOMAIN rows : rows[k].w = w}
HistoryIn(rows, n, w, d) == {k \in HistoryOf(rows, n, w) : rows[k].d = d}

\* The sum of them.
Amounts(rows, keys) == SumOf([k \in keys |-> rows[k].amount])

\* YtdAgrees of these rows.
Agrees(rows, n) ==
    \A w \in Warehouses :
        /\ rows[Warehouse(w)] - W_YTD = Amounts(rows, HistoryOf(rows, n, w))
        /\ \A d \in Districts :
               rows[District(w, d)].ytd - D_YTD = Amounts(rows, HistoryIn(rows, n, w, d))

\* The inductive invariant: the sums agree in the committed rows, and will in
\* the rows after the commit of any terminal.
MoneyInv ==
    /\ MoneyRows /\ CallNumbers /\ Agrees(db, started)
    /\ \A t \in Terminals : MoneyWork(t)

-----------------------------------------------------------------------------
(* Keys of money.                                                          *)

MoneyKinds == {"warehouse", "district", "history"}

\* Keys of warehouses, districts and history rows.
LEMMA MoneyKeys ==
    ASSUME NEW w, NEW d, NEW n, NEW w1, NEW n1
    PROVE  /\ Warehouse(w) = Warehouse(w1) <=> w = w1
           /\ History(n) = History(n1) <=> n = n1
           /\ Warehouse(w) # District(w1, d) /\ Warehouse(w) # History(n)
           /\ District(w1, d) # History(n)
    BY DEF Warehouse, History, District

\* The rows of warehouses that Load leaves; it leaves no payments after the
\* load.
LEMMA LoadedMoney ==
    /\ \A w \in Warehouses : Warehouse(w) \in DOMAIN LoadedRows /\ LoadedRows[Warehouse(w)] = W_YTD
    /\ \A n : History(n) \notin DOMAIN LoadedRows
<1>1. \A w \in Warehouses : /\ Warehouse(w) \in DOMAIN LoadedTable("warehouse")
                            /\ LoadedTable("warehouse")[Warehouse(w)] = W_YTD
  BY DEF LoadedTable
<1>2. \A n : Warehouse(n)[1] = "warehouse" /\ History(n)[1] = "history"
  BY Keys
<1>3. DOMAIN LoadedTable("history") = {}
  BY DEF LoadedTable, NoRows
<1> QED BY <1>1, <1>2, <1>3, LoadedTables

\* The invariant holds of the loaded tables.
LEMMA MoneyInit == Init => MoneyInv
<1> SUFFICES ASSUME Init PROVE MoneyInv
  OBVIOUS
<1>1. db = LoadedRows /\ started = 0 /\ \A t \in Terminals : pc[t] = "idle" /\ work[t] = NoRows
  BY DEF Init, DatabaseInit
<1>2. MoneyRows
  BY <1>1, LoadedMoney DEF MoneyRows, W_YTD
<1>3. CallNumbers
  BY <1>1 DEF CallNumbers
<1>4. \A t \in Terminals : MoneyWork(t)
  BY <1>1 DEF MoneyWork, WarehouseWork, YtdWork, HistoryWork, Pays, Paying, AddsToWarehouse,
              AddsToDistrict, NoRows
<1>5. Agrees(db, started)
  <2>1. ASSUME NEW keys, keys = {} PROVE Amounts(db, keys) = 0
    <3>1. PICK f : f = [k \in keys |-> db[k].amount]
      OBVIOUS
    <3>2. DOMAIN f = {} /\ f \in [{} -> Int]
      BY <2>1, <3>1
    <3> QED BY <3>1, <3>2, SumOfNothing DEF Amounts
  <2>2. \A n : History(n) \notin DOMAIN db
    BY <1>1, LoadedMoney
  <2>3. ASSUME NEW w \in Warehouses
        PROVE  db[Warehouse(w)] - W_YTD = Amounts(db, HistoryOf(db, started, w))
    <3>1. HistoryOf(db, started, w) = {}
      BY <2>2 DEF HistoryOf
    <3>2. db[Warehouse(w)] - W_YTD = 0
      BY <1>1, LoadedMoney DEF W_YTD
    <3> QED BY <2>1, <3>1, <3>2
  <2>4. ASSUME NEW w \in Warehouses, NEW d \in Districts
        PROVE  db[District(w, d)].ytd - D_YTD = Amounts(db, HistoryIn(db, started, w, d))
    <3>1. HistoryIn(db, started, w, d) = {}
      BY <2>2 DEF HistoryIn, HistoryOf
    <3>2. db[District(w, d)].ytd - D_YTD = 0
      BY <1>1, LoadedOrders DEF D_YTD
    <3> QED BY <2>1, <3>1, <3>2
  <2> QED BY <2>3, <2>4 DEF Agrees
<1> QED BY <1>2, <1>3, <1>4, <1>5 DEF MoneyInv

-----------------------------------------------------------------------------
(* What the terminal of a step writes of money.                            *)

\* A transaction that has written nothing has moved no money.
LEMMA NoMoneyWritten ==
    ASSUME NEW t \in Terminals, work'[t] = NoRows, ~Paying(t)'
    PROVE  MoneyWork(t)'
<1>1. \A k : k \notin DOMAIN work'[t]
  BY DEF NoRows
<1>2. pc'[t] # "customer" /\ ~Pays(t)' /\ \A w, d : ~AddsToWarehouse(t, w)' /\ ~AddsToDistrict(t, w, d)'
  BY DEF Paying, Pays, AddsToWarehouse, AddsToDistrict
<1> QED BY <1>1, <1>2 DEF MoneyWork, WarehouseWork, YtdWork, HistoryWork

\* A step that is none of Payment's writes at most a district, and keeps its
\* d_ytd.
LEMMA NoMoneyMoved ==
    ASSUME NEW t \in Terminals, MoneyWork(t), ~Paying(t), ~Paying(t)', UNCHANGED db,
           held[t] \subseteq held'[t],
           \A w : Kept(t, Warehouse(w)), \A n : Kept(t, History(n)),
           \A w \in Warehouses, d \in Districts :
               \/ Kept(t, District(w, d))
               \/ work'[t][District(w, d)].ytd = db[District(w, d)].ytd + 0
    PROVE  MoneyWork(t)'
<1>1. /\ pc'[t] # "customer" /\ ~Pays(t) /\ ~Pays(t)'
      /\ \A w, d : ~AddsToWarehouse(t, w)' /\ ~AddsToDistrict(t, w, d)'
      /\ \A w, d : ~AddsToWarehouse(t, w) /\ ~AddsToDistrict(t, w, d)
  BY DEF Paying, Pays, AddsToWarehouse, AddsToDistrict
<1>2. \A w \in Warehouses : WarehouseWork(t, w)'
  BY <1>1 DEF MoneyWork, WarehouseWork, Kept
<1>3. HistoryWork(t)'
  BY <1>1 DEF MoneyWork, HistoryWork, Kept
<1>4. ASSUME NEW w \in Warehouses, NEW d \in Districts
      PROVE  YtdWork(t, w, d)'
  <2>1. YtdWork(t, w, d) /\ ~AddsToDistrict(t, w, d) /\ ~AddsToDistrict(t, w, d)'
    BY <1>1 DEF MoneyWork
  <2>2. CASE Kept(t, District(w, d))
    BY <2>1, <2>2 DEF YtdWork, Kept
  <2>3. CASE work'[t][District(w, d)].ytd = db[District(w, d)].ytd + 0
    BY <2>1, <2>3 DEF YtdWork
  <2> QED BY <2>2, <2>3
<1> QED BY <1>1, <1>2, <1>3, <1>4 DEF MoneyWork

\* The same when the step writes no row of a warehouse, district or history.
LEMMA NoMoneyRow ==
    ASSUME NEW t \in Terminals, MoneyWork(t), ~Paying(t), ~Paying(t)', UNCHANGED db,
           held[t] \subseteq held'[t], \A key : key[1] \in MoneyKinds => Kept(t, key)
    PROVE  MoneyWork(t)'
<1>1. \A w : Kept(t, Warehouse(w))
  BY DEF MoneyKinds, Warehouse
<1>2. \A w, d : Kept(t, District(w, d))
  BY DEF MoneyKinds, District
<1>3. \A n : Kept(t, History(n))
  BY DEF MoneyKinds, History
<1> QED BY <1>1, <1>2, <1>3, NoMoneyMoved

\* The steps of the other four transactions, between beginning and end.
OtherStatement(t) ==
    \/ TakeOrderNumber(t) \/ InsertOrder(t) \/ OrderLine(t)
    \/ FindOldest(t) \/ DeleteNewOrder(t) \/ SetCarrier(t) \/ CreditCustomer(t)
    \/ FindOrder(t) \/ ReadLines(t) \/ ReadLevel(t) \/ CountStock(t)

\* They are not Payment's.
LEMMA OtherStatementFacts ==
    ASSUME TypeInv, NEW t \in Terminals, OtherStatement(t)
    PROVE  /\ ~Paying(t) /\ ~Paying(t)' /\ UNCHANGED db /\ held[t] \subseteq held'[t]
<1>1. /\ pc[t] \notin {"warehouse", "payment", "customer", "commit", "idle"} /\ UNCHANGED <<db, tx>>
  BY DEF OtherStatement, TakeOrderNumber, InsertOrder, OrderLine, FindOldest, DeleteNewOrder, SetCarrier,
         CreditCustomer, FindOrder, ReadLines, ReadLevel, CountStock, Update, Select, at, bookkeeping
<1>2. held[t] \subseteq held'[t]
  <2>1. ASSUME NEW label, Update(t, label) PROVE held[t] \subseteq held'[t]
    BY <2>1, UpdateFacts
  <2>2. ASSUME NEW label, Select(t, label) PROVE held[t] \subseteq held'[t]
    BY <2>2 DEF Select
  <2> QED BY <2>1, <2>2 DEF OtherStatement, TakeOrderNumber, InsertOrder, OrderLine, FindOldest,
             DeleteNewOrder, SetCarrier, CreditCustomer, FindOrder, ReadLines, ReadLevel, CountStock
<1>3. pc'[t] \notin {"payment", "customer"}
  <2>1. CASE FindOldest(t) \/ CreditCustomer(t)
    <3>1. \A label : goto(t, label) => pc'[t] = label
      BY GotoFacts
    <3> QED BY <2>1, <3>1, NextDistrictFacts DEF FindOldest, CreditCustomer
  <2>2. CASE ~(FindOldest(t) \/ CreditCustomer(t))
    <3>1. \A label : goto(t, label) => pc'[t] = label
      BY GotoFacts
    <3> QED BY <2>2, <3>1 DEF OtherStatement, TakeOrderNumber, InsertOrder, OrderLine, DeleteNewOrder,
               SetCarrier, FindOrder, ReadLines, ReadLevel, CountStock
  <2> QED BY <2>1, <2>2
<1>4. tx[t] \in Calls /\ tx[t].kind # "Payment"
  <2>1. Doing(t)
    BY DEF TypeInv
  <2>2. tx[t] \in Calls
    BY <1>1, <2>1 DEF Doing
  <2>3. \/ tx[t] \in NewOrderCall \/ tx[t] \in OrderStatCall \/ tx[t] \in DeliveryCall \/ tx[t] \in SlevCall
    BY <1>1, <2>1 DEF Doing, Labels
  <2> QED BY <2>2, <2>3, Kinds
<1> QED BY <1>1, <1>2, <1>3, <1>4 DEF Paying, Pays

\* d_ytd as t reads it before its own UPDATE is the committed one.
LEMMA LatestYtd ==
    ASSUME RowsOk(db), NEW t \in Terminals, NEW w \in Warehouses, NEW d \in Districts,
           DistrictWork(t, w, d), YtdWork(t, w, d), ~AddsToDistrict(t, w, d), ~Numbers(t, w, d)
    PROVE  /\ Latest(t)[District(w, d)] \in DistrictRow
           /\ Latest(t)[District(w, d)].ytd = db[District(w, d)].ytd
           /\ db[District(w, d)].ytd \in Int
<1> DEFINE key == District(w, d)
<1>1. key \in DOMAIN db /\ db[key] \in DistrictRow /\ db[key].ytd \in Int
  BY NextIsNumber DEF DistrictRow
<1>2. CASE key \in DOMAIN work[t]
  <2>1. work[t][key] \in DistrictRow /\ work[t][key].ytd = db[key].ytd + 0
    BY <1>2 DEF DistrictWork, YtdWork
  <2>3. work[t][key] # Nil
    BY <2>1, ValuesAreNotNil
  <2>2. Latest(t)[key] = work[t][key]
    BY <1>2, <2>3, ApplyRows DEF Latest
  <2> QED BY <1>1, <2>1, <2>2
<1>3. CASE key \notin DOMAIN work[t]
  <2>1. Latest(t)[key] = db[key]
    BY <1>1, <1>3, ApplyRows DEF Latest
  <2> QED BY <1>1, <2>1
<1> QED BY <1>2, <1>3

\* New Order's UPDATE of the district keeps d_ytd.
LEMMA TakeOrderNumberMoney ==
    ASSUME TypeInv, RowsOk(db), NEW t \in Terminals, WorkOk(t), MoneyWork(t), TakeOrderNumber(t)
    PROVE  MoneyWork(t)'
<1>0. PICK w, d, key, row, new :
          /\ w = tx[t].w /\ d = tx[t].d /\ key = District(w, d) /\ row = Latest(t)[key]
          /\ new = [row EXCEPT !.next = @ + 1]
  OBVIOUS
<1>1. ~Paying(t) /\ ~Paying(t)' /\ UNCHANGED db /\ held[t] \subseteq held'[t]
  BY OtherStatementFacts DEF OtherStatement
<1>2. pc[t] = "district" /\ w \in Warehouses /\ d \in Districts
  BY <1>0, Kinds DEF TakeOrderNumber, Update, at, TypeInv, Doing
<1>3. row \in DistrictRow /\ row.ytd = db[key].ytd /\ db[key].ytd \in Int
  <2>1. DistrictWork(t, w, d) /\ YtdWork(t, w, d) /\ ~AddsToDistrict(t, w, d) /\ ~Numbers(t, w, d)
    BY <1>2 DEF WorkOk, MoneyWork, AddsToDistrict, Pays, Numbers, Ordering
  <2> QED BY <1>0, <1>2, <2>1, LatestYtd
<1>4. new.ytd = db[key].ytd + 0
  BY <1>0, <1>3 DEF DistrictRow
<1>5. key \in DOMAIN work'[t] /\ work'[t][key] = new /\ \A k : k # key => Kept(t, k)
  <2>1. Write(t, Row(key, new))
    BY <1>0 DEF TakeOrderNumber
  <2> QED BY <2>1, WriteOne
<1>6. \A v : Kept(t, Warehouse(v)) /\ Kept(t, History(v))
  BY <1>0, <1>5, MoneyKeys
<1>7. \A v \in Warehouses, e \in Districts :
          Kept(t, District(v, e)) \/ work'[t][District(v, e)].ytd = db[District(v, e)].ytd + 0
  BY <1>4, <1>5
<1> QED BY <1>1, <1>6, <1>7, NoMoneyMoved

\* The other statements of the four write no row of warehouses, districts and
\* history.
LEMMA OtherStatementMoney ==
    ASSUME TypeInv, NEW t \in Terminals, MoneyWork(t), OtherStatement(t), ~TakeOrderNumber(t)
    PROVE  MoneyWork(t)'
<1>1. ~Paying(t) /\ ~Paying(t)' /\ UNCHANGED db /\ held[t] \subseteq held'[t]
  BY OtherStatementFacts
<1>2. ASSUME NEW key, key[1] \in MoneyKinds
      PROVE  Kept(t, key)
  <2>0. /\ \A v, e, o : key # Order(v, e, o) /\ key # NewOrderRow(v, e, o) /\ key # OrderLines(v, e, o)
        /\ \A v, e, c : key # Customer(v, e, c) /\ key # Stock(v, e)
    BY <1>2 DEF MoneyKinds, Order, NewOrderRow, OrderLines, Customer, Stock
  <2>a. ASSUME NEW k, NEW v, Write(t, Row(k, v)), key # k PROVE Kept(t, key)
    BY <2>a, WriteOne
  <2>b. ASSUME NEW k1, NEW v1, NEW k2, NEW v2, k1 # k2, Write(t, Row(k1, v1) ++ Row(k2, v2)),
               key # k1, key # k2
        PROVE  Kept(t, key)
    BY <2>b, WriteTwo
  <2>1. CASE InsertOrder(t)
    <3>1. PICK k1, v1, k2, v2, k3, v3 :
              /\ Write(t, Row(k1, v1) ++ Row(k2, v2) ++ Row(k3, v3))
              /\ k1 = Order(tx[t].w, tx[t].d, loc[t].o) /\ k2 = NewOrderRow(tx[t].w, tx[t].d, loc[t].o)
              /\ k3 = OrderLines(tx[t].w, tx[t].d, loc[t].o)
      BY <2>1 DEF InsertOrder
    <3>2. k1 # k2 /\ k1 # k3 /\ k2 # k3
      BY <3>1, Keys
    <3> QED BY <2>0, <3>1, <3>2, WriteThree
  <2>2. CASE OrderLine(t)
    <3>1. PICK k1, v1, k2, v2 :
              /\ Write(t, Row(k1, v1) ++ Row(k2, v2))
              /\ k1 = Stock(loc[t].lines[loc[t].n].supply, loc[t].lines[loc[t].n].item)
              /\ k2 = OrderLines(tx[t].w, tx[t].d, loc[t].o)
      BY <2>2 DEF OrderLine
    <3>2. k1 # k2
      BY <3>1 DEF Stock, OrderLines
    <3> QED BY <2>0, <2>b, <3>1, <3>2
  <2>3. CASE DeleteNewOrder(t)
    BY <2>0, <2>3, <2>a DEF DeleteNewOrder, Kept
  <2>4. CASE SetCarrier(t)
    <3>1. PICK k1, v1, k2, v2 :
              /\ Write(t, Row(k1, v1) ++ Row(k2, v2))
              /\ k1 = Order(tx[t].w, loc[t].d, loc[t].o)
              /\ k2 = OrderLines(tx[t].w, loc[t].d, loc[t].o)
      BY <2>4 DEF SetCarrier
    <3>2. k1 # k2
      BY <3>1, Keys
    <3> QED BY <2>0, <2>b, <3>1, <3>2
  <2>5. CASE CreditCustomer(t)
    BY <2>0, <2>5, <2>a DEF CreditCustomer
  <2>6. CASE FindOldest(t) \/ FindOrder(t) \/ ReadLines(t) \/ ReadLevel(t) \/ CountStock(t)
    BY <2>6 DEF FindOldest, FindOrder, ReadLines, ReadLevel, CountStock, Select, Kept
  <2> QED BY <2>1, <2>2, <2>3, <2>4, <2>5, <2>6 DEF OtherStatement
<1> QED BY <1>1, <1>2, NoMoneyRow

-----------------------------------------------------------------------------
(* Payment.                                                                *)

\* The UPDATE of the warehouse adds the amount to the committed sum.
LEMMA PayWarehouseMoney ==
    ASSUME TypeInv, MoneyRows, NEW t \in Terminals, MoneyWork(t), PayWarehouse(t)
    PROVE  MoneyWork(t)'
<1>0. PICK w, key, new : w = tx[t].w /\ key = Warehouse(w) /\ new = Latest(t)[key] + tx[t].amount
  OBVIOUS
<1>1. pc[t] = "warehouse" /\ UNCHANGED <<db, tx>> /\ held'[t] = held[t] \cup requests(t)
  BY UpdateFacts DEF PayWarehouse
<1>2. w \in Warehouses /\ X(key) \in held'[t] /\ pc'[t] = "payment"
  BY <1>0, <1>1, Kinds, Requests, GotoFacts DEF TypeInv, Doing, PayWarehouse
<1>3. ~Paying(t) /\ ~Pays(t) /\ ~Pays(t)' /\ \A v, d : ~AddsToWarehouse(t, v) /\ ~AddsToDistrict(t, v, d)
  BY <1>1, <1>2 DEF Paying, Pays, AddsToWarehouse, AddsToDistrict
<1>4. \A v, d : /\ AddsToWarehouse(t, v)' <=> v = w
                /\ ~AddsToDistrict(t, v, d)'
  BY <1>0, <1>1, <1>2, <1>3 DEF Paying, AddsToWarehouse, AddsToDistrict
<1>5. new = db[key] + tx[t].amount
  <2>1. key \in DOMAIN db /\ key \notin DOMAIN work[t]
    BY <1>0, <1>2, <1>3 DEF MoneyRows, MoneyWork, WarehouseWork
  <2>2. Latest(t)[key] = db[key]
    BY <2>1, ApplyRows DEF Latest
  <2> QED BY <1>0, <2>2
<1>6. key \in DOMAIN work'[t] /\ work'[t][key] = new /\ \A k : k # key => Kept(t, k)
  <2>1. Write(t, Row(key, new))
    BY <1>0 DEF PayWarehouse
  <2> QED BY <2>1, WriteOne
<1>7. ASSUME NEW v \in Warehouses PROVE WarehouseWork(t, v)'
  <2>1. CASE v = w
    BY <1>0, <1>1, <1>2, <1>4, <1>5, <1>6, <2>1 DEF WarehouseWork
  <2>2. CASE v # w
    <3>1. Kept(t, Warehouse(v)) /\ Warehouse(v) \notin DOMAIN work[t]
      BY <1>0, <1>3, <1>6, <2>2, MoneyKeys DEF MoneyWork, WarehouseWork
    <3> QED BY <1>4, <2>2, <3>1 DEF WarehouseWork, Kept
  <2> QED BY <2>1, <2>2
<1>8. ASSUME NEW v \in Warehouses, NEW d \in Districts PROVE YtdWork(t, v, d)'
  <2>1. Kept(t, District(v, d))
    BY <1>0, <1>6, MoneyKeys
  <2> QED BY <1>1, <1>3, <1>4, <2>1 DEF MoneyWork, YtdWork, Kept
<1>9. HistoryWork(t)'
  <2>1. \A n : Kept(t, History(n))
    BY <1>0, <1>6, MoneyKeys
  <2> QED BY <1>3, <2>1 DEF MoneyWork, HistoryWork, Kept
<1> QED BY <1>2, <1>7, <1>8, <1>9 DEF MoneyWork

\* A customer found by name is one of the district's customers.
LEMMA Midpoint ==
    ASSUME NEW call \in PaymentCall
    PROVE  (IF call.name = Nil THEN call.c ELSE midpoint(call.name, call.c)) \in Customers
<1>1. call.c \in Customers /\ call.name \in DOMAIN CustomersNamed \cup {Nil}
  BY DEF PaymentCall
<1>2. ASSUME call.name # Nil PROVE midpoint(call.name, call.c) \in Customers
  <2>1. PICK s, n : s = CustomersNamed[call.name] /\ n = Len(s)
    OBVIOUS
  <2>2. s \in Seq(Customers) /\ n \in Nat
    BY <1>1, <1>2, <2>1, TpccAssumption, LenProperties
  <2>3. PICK half : half = IF n % 2 = 1 THEN (n + 1) \div 2 ELSE n \div 2
    OBVIOUS
  <2>4. half = 0 \/ half \in 1..n
    BY <2>2, <2>3
  <2>5. half # 0 => s[half] \in Customers
    BY <2>1, <2>2, <2>4
  <2> QED BY <1>1, <2>1, <2>3, <2>5 DEF midpoint
<1> QED BY <1>1, <1>2

\* The UPDATE of the district adds the amount to the committed sum.
LEMMA PayDistrictMoney ==
    ASSUME TypeInv, RowsOk(db), NEW t \in Terminals, WorkOk(t), MoneyWork(t), PayDistrict(t)
    PROVE  MoneyWork(t)'
<1>0. PICK w, d, key, row, new :
          /\ w = tx[t].w /\ d = tx[t].d /\ key = District(w, d) /\ row = Latest(t)[key]
          /\ new = [row EXCEPT !.ytd = @ + tx[t].amount]
  OBVIOUS
<1>1. pc[t] = "payment" /\ UNCHANGED <<db, tx>> /\ held'[t] = held[t] \cup requests(t)
  BY UpdateFacts DEF PayDistrict
<1>2. w \in Warehouses /\ d \in Districts /\ tx[t] \in PaymentCall
  BY <1>0, <1>1, Kinds DEF TypeInv, Doing
<1>3. pc'[t] = "customer" /\ loc'[t].c \in Customers
  <2>1. PICK c : /\ set(t, [loc[t] EXCEPT !.c = c])
                 /\ c = IF tx[t].name = Nil THEN tx[t].c ELSE midpoint(tx[t].name, tx[t].c)
    BY DEF PayDistrict
  <2>2. loc'[t] = [loc[t] EXCEPT !.c = c] /\ DOMAIN loc[t] = Fields /\ pc'[t] = "customer"
    BY <2>1, GotoFacts DEF PayDistrict
  <2>3. c \in Customers
    BY <1>2, <2>1, Midpoint
  <2> QED BY <2>2, <2>3 DEF Fields
<1>4. /\ ~Pays(t) /\ ~Pays(t)'
      /\ \A v : AddsToWarehouse(t, v)' <=> AddsToWarehouse(t, v)
      /\ \A v, e : ~AddsToDistrict(t, v, e) /\ (AddsToDistrict(t, v, e)' <=> v = w /\ e = d)
  BY <1>0, <1>1, <1>3 DEF Paying, Pays, AddsToWarehouse, AddsToDistrict
<1>5. row \in DistrictRow /\ row.ytd = db[key].ytd /\ db[key].ytd \in Int
  <2>1. DistrictWork(t, w, d) /\ YtdWork(t, w, d) /\ ~Numbers(t, w, d)
    BY <1>1, <1>2 DEF WorkOk, MoneyWork, Numbers, Ordering
  <2> QED BY <1>0, <1>2, <1>4, <2>1, LatestYtd
<1>6. new.ytd = db[key].ytd + tx[t].amount
  BY <1>0, <1>5 DEF DistrictRow
<1>7. key \in DOMAIN work'[t] /\ work'[t][key] = new /\ \A k : k # key => Kept(t, k)
  <2>1. Write(t, Row(key, new))
    BY <1>0 DEF PayDistrict
  <2> QED BY <2>1, WriteOne
<1>8. ASSUME NEW v \in Warehouses PROVE WarehouseWork(t, v)'
  <2>1. Kept(t, Warehouse(v)) /\ WarehouseWork(t, v)
    BY <1>0, <1>7, MoneyKeys DEF MoneyWork
  <2> QED BY <1>1, <1>4, <2>1 DEF WarehouseWork, Kept
<1>9. ASSUME NEW v \in Warehouses, NEW e \in Districts PROVE YtdWork(t, v, e)'
  <2>1. CASE v = w /\ e = d
    BY <1>0, <1>1, <1>4, <1>6, <1>7, <2>1 DEF YtdWork
  <2>2. CASE ~(v = w /\ e = d)
    <3>1. Kept(t, District(v, e)) /\ YtdWork(t, v, e)
      BY <1>0, <1>7, <2>2, Keys DEF MoneyWork
    <3> QED BY <1>1, <1>4, <2>2, <3>1 DEF YtdWork, Kept
  <2> QED BY <2>1, <2>2
<1>10. HistoryWork(t)'
  <2>1. \A n : Kept(t, History(n))
    BY <1>0, <1>7, MoneyKeys
  <2> QED BY <1>4, <2>1 DEF MoneyWork, HistoryWork, Kept
<1> QED BY <1>3, <1>8, <1>9, <1>10 DEF MoneyWork

\* The last UPDATE comes with the row of history, which says what was added.
LEMMA PayCustomerMoney ==
    ASSUME TypeInv, NEW t \in Terminals, MoneyWork(t), PayCustomer(t), loc[t].no \in Nat
    PROVE  MoneyWork(t)'
<1>0. PICK k1, v1, k2, v2 :
          /\ k1 = Customer(tx[t].c_w, tx[t].c_d, loc[t].c)
          /\ v1 = [Latest(t)[k1] EXCEPT !.balance = @ + tx[t].amount] /\ k2 = History(loc[t].no)
          /\ v2 = [w |-> tx[t].w, d |-> tx[t].d, cust |-> k1, amount |-> tx[t].amount]
  OBVIOUS
<1>1. pc[t] = "customer" /\ UNCHANGED <<db, tx>> /\ held'[t] = held[t] \cup requests(t)
  BY UpdateFacts DEF PayCustomer
<1>2. tx[t] \in PaymentCall /\ loc'[t] = loc[t] /\ pc'[t] = "commit" /\ loc[t].c \in Customers
  BY <1>1, GotoFacts DEF PayCustomer, TypeInv, Doing, MoneyWork
<1>3. ~Pays(t) /\ Pays(t)'
  BY <1>1, <1>2, Kinds DEF Pays
<1>4. /\ \A v : AddsToWarehouse(t, v)' <=> AddsToWarehouse(t, v)
      /\ \A v, e : AddsToDistrict(t, v, e)' <=> AddsToDistrict(t, v, e)
  BY <1>1, <1>3 DEF Paying, AddsToWarehouse, AddsToDistrict
<1>5. k1 # k2 /\ \A v, e : /\ Warehouse(v) \notin {k1, k2} /\ District(v, e) \notin {k1, k2}
                           /\ History(v) # k1 /\ (v # loc[t].no => History(v) # k2)
  BY <1>0 DEF Customer, History, Warehouse, District
<1>6. /\ k2 \in DOMAIN work'[t] /\ work'[t][k2] = v2
      /\ \A k : k \notin {k1, k2} => Kept(t, k)
  <2>1. Write(t, Row(k1, v1) ++ Row(k2, v2))
    BY <1>0 DEF PayCustomer
  <2> QED BY <1>5, <2>1, WriteTwo
<1>7. ASSUME NEW v \in Warehouses PROVE WarehouseWork(t, v)'
  <2>1. Kept(t, Warehouse(v)) /\ WarehouseWork(t, v)
    BY <1>5, <1>6 DEF MoneyWork
  <2> QED BY <1>1, <1>4, <2>1 DEF WarehouseWork, Kept
<1>8. ASSUME NEW v \in Warehouses, NEW e \in Districts PROVE YtdWork(t, v, e)'
  <2>1. Kept(t, District(v, e)) /\ YtdWork(t, v, e)
    BY <1>5, <1>6 DEF MoneyWork
  <2> QED BY <1>1, <1>4, <2>1 DEF YtdWork, Kept
<1>9. HistoryWork(t)'
  <2>1. ASSUME NEW n \in Nat PROVE History(n) \in DOMAIN work'[t] <=> n = loc[t].no
    <3>1. CASE n = loc[t].no
      BY <1>0, <1>6, <3>1
    <3>2. CASE n # loc[t].no
      <4>1. Kept(t, History(n))
        BY <1>5, <1>6, <3>2
      <4>2. History(n) \notin DOMAIN work[t]
        BY <1>3 DEF MoneyWork, HistoryWork
      <4> QED BY <3>2, <4>1, <4>2 DEF Kept
    <3> QED BY <3>1, <3>2
  <2>2. v2 \in HistoryRow
    <3>1. /\ tx[t].w \in Warehouses /\ tx[t].d \in Districts /\ tx[t].amount \in Nat
          /\ tx[t].c_w \in Warehouses /\ tx[t].c_d \in Districts
      BY <1>2 DEF PaymentCall
    <3>2. k1 \in {Customer(w, d, c) : w \in Warehouses, d \in Districts, c \in Customers}
      BY <1>0, <1>2, <3>1
    <3> QED BY <1>0, <3>1, <3>2 DEF HistoryRow
  <2>3. v2.w = tx[t].w /\ v2.d = tx[t].d /\ v2.amount = tx[t].amount
    BY <1>0
  <2> QED BY <1>0, <1>1, <1>2, <1>3, <1>6, <2>1, <2>2, <2>3 DEF HistoryWork
<1> QED BY <1>2, <1>7, <1>8, <1>9 DEF MoneyWork

-----------------------------------------------------------------------------
(* Every step of a terminal.                                               *)

\* A transaction that begins, or ends, has moved no money.
LEMMA EndMoney ==
    ASSUME TypeInv, NEW t \in Terminals,
           Commit(t) \/ CommitFails(t) \/ NoItem(t) \/ Fail(t) \/ \E call \in Calls : Begin(t, call)
    PROVE  MoneyWork(t)'
<1>1. work'[t] = NoRows
  <2>1. CASE Commit(t) \/ CommitFails(t) \/ NoItem(t) \/ Fail(t)
    BY <2>1, ReleaseFacts DEF Commit, CommitFails, NoItem, Fail, commit, rollback
  <2>2. ASSUME NEW call \in Calls, Begin(t, call) PROVE work'[t] = NoRows
    BY <2>2 DEF Begin, at, TypeInv
  <2> QED BY <2>1, <2>2
<1>2. pc'[t] \in {"idle", "district", "warehouse", "status", "oldest", "level"}
  <2>1. CASE Commit(t) \/ CommitFails(t) \/ NoItem(t)
    BY <2>1, GotoFacts DEF Commit, CommitFails, NoItem
  <2>2. CASE Fail(t)
    <3>1. pc'[t] = firstStatement(tx[t]) /\ tx[t] \in Calls
      BY <2>2, GotoFacts DEF Fail, at, TypeInv, Doing
    <3> QED BY <3>1, FirstStatement
  <2>3. ASSUME NEW call \in Calls, Begin(t, call)
        PROVE  pc'[t] \in {"district", "warehouse", "status", "oldest", "level"}
    <3>1. pc'[t] = firstStatement(call)
      BY <2>3, GotoFacts DEF Begin
    <3> QED BY <3>1, FirstStatement
  <2> QED BY <2>1, <2>2, <2>3
<1> QED BY <1>1, <1>2, NoMoneyWritten DEF Paying, Pays

\* Every step of a terminal keeps what it has written right.
LEMMA OwnMoney ==
    ASSUME TypeInv, RowsOk(db), MoneyRows, NEW t \in Terminals, WorkOk(t), MoneyWork(t), Step(t),
           pc[t] # "idle" => loc[t].no \in Nat
    PROVE  MoneyWork(t)'
<1>1. PayCustomer(t) => pc[t] # "idle"
  BY DEF PayCustomer, Update, at
<1> QED BY <1>1, EndMoney, TakeOrderNumberMoney, OtherStatementMoney, PayWarehouseMoney, PayDistrictMoney,
           PayCustomerMoney DEF Step, Statement, OtherStatement

\* A step gives a number to a call that begins; otherwise numbers stay.
LEMMA NumberStep ==
    ASSUME TypeInv, NEW t \in Terminals, Step(t)
    PROVE  \/ pc[t] = "idle" /\ started' = started + 1 /\ loc'[t].no = started + 1 /\ db' = db
           \/ pc[t] # "idle" /\ started' = started /\ loc'[t].no = loc[t].no
<1>0. /\ DOMAIN loc[t] = Fields /\ DOMAIN NoLocals = Fields
      /\ \A locals : set(t, locals) => loc'[t] = locals
  BY GotoFacts DEF NoLocals, Fields
<1>1. ASSUME NEW call \in Calls, Begin(t, call)
      PROVE  pc[t] = "idle" /\ started' = started + 1 /\ loc'[t].no = started + 1 /\ db' = db
  BY <1>0, <1>1 DEF Begin, at, Fields
<1>2. ASSUME ~\E call \in Calls : Begin(t, call)
      PROVE  pc[t] # "idle" /\ started' = started
  BY <1>2 DEF Step, Statement, TakeOrderNumber, InsertOrder, OrderLine, NoItem, PayWarehouse, PayDistrict,
         PayCustomer, FindOldest, DeleteNewOrder, SetCarrier, CreditCustomer, FindOrder, ReadLines,
         ReadLevel, CountStock, Commit, CommitFails, Fail, Update, Select, at, bookkeeping
<1>3. ASSUME ~\E call \in Calls : Begin(t, call)
      PROVE  loc'[t].no = loc[t].no
  <2>1. CASE \/ TakeOrderNumber(t) \/ InsertOrder(t) \/ OrderLine(t) \/ PayDistrict(t)
    BY <1>0, <2>1 DEF TakeOrderNumber, InsertOrder, OrderLine, PayDistrict, Fields
  <2>2. CASE \/ FindOldest(t) \/ CreditCustomer(t) \/ SetCarrier(t)
    BY <1>0, <2>2 DEF FindOldest, CreditCustomer, SetCarrier, nextDistrict, Fields
  <2>3. CASE \/ FindOrder(t) \/ ReadLines(t) \/ ReadLevel(t) \/ CountStock(t)
    BY <1>0, <2>3 DEF FindOrder, ReadLines, ReadLevel, CountStock, Fields
  <2>4. CASE Fail(t)
    BY <1>0, <2>4 DEF Fail, Fields
  <2>5. CASE \/ NoItem(t) \/ PayWarehouse(t) \/ PayCustomer(t) \/ DeleteNewOrder(t)
             \/ Commit(t) \/ CommitFails(t)
    BY <2>5 DEF NoItem, PayWarehouse, PayCustomer, DeleteNewOrder, Commit, CommitFails
  <2> QED BY <1>3, <2>1, <2>2, <2>3, <2>4, <2>5 DEF Step, Statement
<1> QED BY <1>1, <1>2, <1>3

-----------------------------------------------------------------------------
(* What a commit does to the sums.                                         *)

\* Before the commit of t.
MoneyRight(t) ==
    /\ TypeInv /\ RowsOk(db) /\ MoneyRows /\ CallNumbers /\ WorkOk(t) /\ MoneyWork(t)
    /\ commit(t) /\ pc[t] = "commit"

\* The committed sum of a warehouse, a district and the rows of history.
LEMMA CommittedMoney ==
    ASSUME NEW t \in Terminals, MoneyRight(t)
    PROVE  /\ \A w \in Warehouses :
                  /\ Warehouse(w) \in DOMAIN db' /\ db'[Warehouse(w)] \in Int /\ db[Warehouse(w)] \in Int
                  /\ db'[Warehouse(w)] = IF AddsToWarehouse(t, w) THEN db[Warehouse(w)] + tx[t].amount
                                                                 ELSE db[Warehouse(w)]
           /\ \A w \in Warehouses, d \in Districts :
                  /\ db[District(w, d)].ytd \in Int
                  /\ db'[District(w, d)].ytd = IF AddsToDistrict(t, w, d)
                                               THEN db[District(w, d)].ytd + tx[t].amount
                                               ELSE db[District(w, d)].ytd
           /\ \A n \in Nat :
                  /\ Pays(t) /\ n = loc[t].no =>
                         History(n) \in DOMAIN db' /\ db'[History(n)] = work[t][History(n)]
                  /\ ~(Pays(t) /\ n = loc[t].no) =>
                         /\ History(n) \in DOMAIN db' <=> History(n) \in DOMAIN db
                         /\ History(n) \in DOMAIN db => db'[History(n)] = db[History(n)]
<1>0. db' = Apply(db, work[t])
  BY DEF MoneyRight, commit
<1>a. Paying(t) => tx[t].amount \in Nat
  <2>1. pc[t] = "commit" /\ Doing(t)
    BY DEF MoneyRight, TypeInv
  <2>2. tx[t] \in Calls
    BY <2>1 DEF Doing
  <2>3. Pays(t) => tx[t] \in PaymentCall
    <3>1. \/ tx[t] \in NewOrderCall \/ tx[t] \in PaymentCall \/ tx[t] \in OrderStatCall
          \/ tx[t] \in DeliveryCall \/ tx[t] \in SlevCall
      BY <2>2, TpccAssumption
    <3> QED BY <3>1, Kinds DEF Pays
  <2> QED BY <2>1, <2>3, Kinds DEF Paying
<1>1. ASSUME NEW w \in Warehouses
      PROVE  /\ Warehouse(w) \in DOMAIN db' /\ db'[Warehouse(w)] \in Int /\ db[Warehouse(w)] \in Int
             /\ db'[Warehouse(w)] = IF AddsToWarehouse(t, w) THEN db[Warehouse(w)] + tx[t].amount
                                                            ELSE db[Warehouse(w)]
  <2>1. Warehouse(w) \in DOMAIN db /\ db[Warehouse(w)] \in Int /\ WarehouseWork(t, w)
    BY DEF MoneyRight, MoneyRows, MoneyWork
  <2>2. CASE AddsToWarehouse(t, w)
    <3>1. /\ Warehouse(w) \in DOMAIN work[t]
          /\ work[t][Warehouse(w)] = db[Warehouse(w)] + tx[t].amount /\ tx[t].amount \in Nat
      BY <1>a, <2>1, <2>2 DEF WarehouseWork, AddsToWarehouse
    <3>2. work[t][Warehouse(w)] \in Int
      BY <2>1, <3>1
    <3>3. work[t][Warehouse(w)] # Nil
      BY <3>2, NilAssumption
    <3>4. Warehouse(w) \in DOMAIN db' /\ db'[Warehouse(w)] = work[t][Warehouse(w)]
      BY <1>0, <3>1, <3>3, ApplyRows
    <3> QED BY <2>1, <2>2, <3>1, <3>2, <3>4
  <2>3. CASE ~AddsToWarehouse(t, w)
    <3>1. Warehouse(w) \notin DOMAIN work[t]
      BY <2>1, <2>3 DEF WarehouseWork
    <3> QED BY <1>0, <2>1, <2>3, <3>1, ApplyRows
  <2> QED BY <2>2, <2>3
<1>2. ASSUME NEW w \in Warehouses, NEW d \in Districts
      PROVE  /\ db[District(w, d)].ytd \in Int
             /\ db'[District(w, d)].ytd = IF AddsToDistrict(t, w, d)
                                          THEN db[District(w, d)].ytd + tx[t].amount
                                          ELSE db[District(w, d)].ytd
  <2> DEFINE key == District(w, d)
  <2>1. key \in DOMAIN db /\ db[key] \in DistrictRow /\ db[key].ytd \in Int
    BY NextIsNumber DEF DistrictRow, MoneyRight
  <2>2. YtdWork(t, w, d) /\ DistrictWork(t, w, d)
    BY DEF MoneyRight, MoneyWork, WorkOk
  <2>3. CASE key \in DOMAIN work[t]
    <3>1. /\ work[t][key] \in DistrictRow
          /\ work[t][key].ytd = db[key].ytd + IF AddsToDistrict(t, w, d) THEN tx[t].amount ELSE 0
      BY <2>2, <2>3 DEF YtdWork, DistrictWork
    <3>2. work[t][key] # Nil
      BY <3>1, ValuesAreNotNil
    <3>3. db'[key] = work[t][key]
      BY <1>0, <2>3, <3>2, ApplyRows
    <3> QED BY <2>1, <3>1, <3>3
  <2>4. CASE key \notin DOMAIN work[t]
    <3>1. db'[key] = db[key] /\ ~AddsToDistrict(t, w, d)
      BY <1>0, <2>1, <2>2, <2>4, ApplyRows DEF YtdWork
    <3> QED BY <2>1, <3>1
  <2> QED BY <2>3, <2>4
<1>3. ASSUME NEW n \in Nat
      PROVE  /\ Pays(t) /\ n = loc[t].no =>
                    History(n) \in DOMAIN db' /\ db'[History(n)] = work[t][History(n)]
             /\ ~(Pays(t) /\ n = loc[t].no) =>
                    /\ History(n) \in DOMAIN db' <=> History(n) \in DOMAIN db
                    /\ History(n) \in DOMAIN db => db'[History(n)] = db[History(n)]
  <2>1. HistoryWork(t)
    BY DEF MoneyRight, MoneyWork
  <2>2. CASE Pays(t) /\ n = loc[t].no
    <3>1. History(n) \in DOMAIN work[t] /\ work[t][History(n)] \in HistoryRow
      BY <2>1, <2>2 DEF HistoryWork
    <3>2. work[t][History(n)] # Nil
      BY <3>1, NilAssumption
    <3> QED BY <1>0, <2>2, <3>1, <3>2, ApplyRows
  <2>3. CASE ~(Pays(t) /\ n = loc[t].no)
    <3>1. History(n) \notin DOMAIN work[t]
      BY <2>1, <2>3 DEF HistoryWork
    <3> QED BY <1>0, <2>3, <3>1, ApplyRows
  <2> QED BY <2>2, <2>3
<1> QED BY <1>1, <1>2, <1>3

\* Sums of the same rows are the same ...
LEMMA SameAmounts ==
    ASSUME NEW rows, NEW rows2, NEW keys, \A k \in keys : rows2[k] = rows[k]
    PROVE  Amounts(rows2, keys) = Amounts(rows, keys)
<1>1. [k \in keys |-> rows2[k].amount] = [k \in keys |-> rows[k].amount]
  OBVIOUS
<1> QED BY <1>1 DEF Amounts

\* ... and one more row adds its amount.
LEMMA OneMoreAmount ==
    ASSUME NEW rows, NEW rows2, NEW keys, IsFiniteSet(keys), NEW key, key \notin keys,
           \A k \in keys : rows2[k] = rows[k] /\ rows[k].amount \in Int, rows2[key].amount \in Int
    PROVE  /\ Amounts(rows, keys) \in Int
           /\ Amounts(rows2, keys \cup {key}) = Amounts(rows, keys) + rows2[key].amount
<1>1. PICK all : all = keys \cup {key}
  OBVIOUS
<1>2. PICK f, g : f = [k \in all |-> rows2[k].amount] /\ g = [k \in keys |-> rows[k].amount]
  OBVIOUS
<1>3. IsFiniteSet(all)
  BY <1>1, FS_AddElement
<1>4. f \in [all -> Int] /\ key \in all /\ all \ {key} = keys
  BY <1>1, <1>2
<1>5. g \in [all \ {key} -> Int] /\ f[key] = rows2[key].amount /\ \A k \in all \ {key} : g[k] = f[k]
  BY <1>1, <1>2, <1>4
<1>6. SumOf(g) \in Int /\ SumOf(f) = f[key] + SumOf(g)
  BY ONLY <1>3, <1>4, <1>5, SumOfWithout
<1>7. Amounts(rows, keys) = SumOf(g) /\ Amounts(rows2, keys \cup {key}) = SumOf(f)
  BY <1>1, <1>2 DEF Amounts
<1> QED BY <1>5, <1>6, <1>7

\* The payments of a warehouse are finitely many rows of history.
LEMMA HistoryRows ==
    ASSUME MoneyRows, NEW n \in Nat, NEW w, NEW d
    PROVE  /\ IsFiniteSet(HistoryOf(db, n, w)) /\ IsFiniteSet(HistoryIn(db, n, w, d))
           /\ \A k \in HistoryOf(db, n, w) : db[k] \in HistoryRow /\ db[k].amount \in Int
<1>1. PICK all : all = {History(i) : i \in 1..n}
  OBVIOUS
<1>2. IsFiniteSet(all)
  <2>1. IsFiniteSet(1..n)
    BY FS_Interval
  <2>2. [i \in 1..n |-> History(i)] \in Surjection(1..n, all)
    BY <1>1 DEF Surjection
  <2> QED BY <2>1, <2>2, FS_Surjection
<1>3. HistoryOf(db, n, w) \subseteq all /\ HistoryIn(db, n, w, d) \subseteq all
  BY <1>1 DEF HistoryOf, HistoryIn
<1>4. \A k \in HistoryOf(db, n, w) : db[k] \in HistoryRow
  BY DEF HistoryOf, MoneyRows
<1>5. \A row \in HistoryRow : row.amount \in Int
  BY DEF HistoryRow
<1> QED BY <1>2, <1>3, <1>4, <1>5, FS_Subset

\* The rows of history after the commit of t are those before it, and that of
\* t's payment.
LEMMA CommittedHistory ==
    ASSUME NEW t \in Terminals, MoneyRight(t), started \in Nat
    PROVE  /\ \A w : HistoryOf(db', started, w) =
                  HistoryOf(db, started, w)
                      \cup IF Pays(t) /\ w = tx[t].w THEN {History(loc[t].no)} ELSE {}
           /\ \A w, d : HistoryIn(db', started, w, d) =
                  HistoryIn(db, started, w, d)
                      \cup IF Pays(t) /\ w = tx[t].w /\ d = tx[t].d THEN {History(loc[t].no)} ELSE {}
           /\ \A w : History(loc[t].no) \notin HistoryOf(db, started, w)
           /\ \A w : \A k \in HistoryOf(db, started, w) : db'[k] = db[k]
           /\ Pays(t) => /\ db'[History(loc[t].no)] \in HistoryRow
                         /\ db'[History(loc[t].no)].amount = tx[t].amount
<1>0. PICK key, no : no = loc[t].no /\ key = History(no)
  OBVIOUS
<1>1. no \in 1..started /\ no \in Nat /\ key \notin DOMAIN db
  <2>1. pc[t] # "idle"
    BY DEF MoneyRight
  <2> QED BY <1>0, <2>1 DEF MoneyRight, CallNumbers
<1>2. Pays(t) => /\ key \in DOMAIN db' /\ db'[key] \in HistoryRow
                 /\ db'[key].w = tx[t].w /\ db'[key].d = tx[t].d /\ db'[key].amount = tx[t].amount
  <2>1. Pays(t) => key \in DOMAIN db' /\ db'[key] = work[t][key]
    BY <1>0, <1>1, CommittedMoney
  <2>2. HistoryWork(t)
    BY DEF MoneyRight, MoneyWork
  <2> QED BY <1>0, <2>1, <2>2 DEF HistoryWork
<1>3. ASSUME NEW i \in 1..started
      PROVE  /\ ~(Pays(t) /\ i = no) =>
                    /\ History(i) \in DOMAIN db' <=> History(i) \in DOMAIN db
                    /\ History(i) \in DOMAIN db => db'[History(i)] = db[History(i)]
             /\ History(i) = key <=> i = no
  BY <1>0, CommittedMoney, MoneyKeys
<1>4. ASSUME NEW w
      PROVE  /\ HistoryOf(db', started, w) =
                    HistoryOf(db, started, w) \cup IF Pays(t) /\ w = tx[t].w THEN {key} ELSE {}
             /\ key \notin HistoryOf(db, started, w)
             /\ \A k \in HistoryOf(db, started, w) : db'[k] = db[k]
  <2>1. key \notin HistoryOf(db, started, w)
    BY <1>1 DEF HistoryOf
  <2>2. ASSUME NEW k \in HistoryOf(db, started, w)
        PROVE  db'[k] = db[k] /\ k \in HistoryOf(db', started, w)
    <3>1. PICK i \in 1..started : k = History(i) /\ k \in DOMAIN db /\ db[k].w = w
      BY DEF HistoryOf
    <3>2. i # no
      BY <1>0, <1>1, <3>1
    <3> QED BY <1>3, <3>1, <3>2 DEF HistoryOf
  <2>3. ASSUME NEW k \in HistoryOf(db', started, w)
        PROVE  k \in HistoryOf(db, started, w) \/ (Pays(t) /\ w = tx[t].w /\ k = key)
    <3>1. PICK i \in 1..started : k = History(i) /\ k \in DOMAIN db' /\ db'[k].w = w
      BY DEF HistoryOf
    <3>2. CASE Pays(t) /\ i = no
      BY <1>0, <1>2, <3>1, <3>2
    <3>3. CASE ~(Pays(t) /\ i = no)
      BY <1>3, <3>1, <3>3 DEF HistoryOf
    <3> QED BY <3>2, <3>3
  <2>4. Pays(t) /\ w = tx[t].w => key \in HistoryOf(db', started, w)
    BY <1>0, <1>1, <1>2 DEF HistoryOf
  <2> QED BY <2>1, <2>2, <2>3, <2>4
<1>5. ASSUME NEW w, NEW d
      PROVE  HistoryIn(db', started, w, d) =
                 HistoryIn(db, started, w, d)
                     \cup IF Pays(t) /\ w = tx[t].w /\ d = tx[t].d THEN {key} ELSE {}
  BY <1>2, <1>4 DEF HistoryIn
<1> QED BY <1>0, <1>2, <1>4, <1>5

\* A commit keeps the sums in agreement.
LEMMA CommitAgrees ==
    ASSUME NEW t \in Terminals, MoneyRight(t), started \in Nat, Agrees(db, started)
    PROVE  Agrees(db', started)
<1>0. PICK key : key = History(loc[t].no)
  OBVIOUS
<1>1. pc[t] = "commit" /\ MoneyRows
  BY DEF MoneyRight
<1>2. /\ \A w : AddsToWarehouse(t, w) <=> Pays(t) /\ w = tx[t].w
      /\ \A w, d : AddsToDistrict(t, w, d) <=> Pays(t) /\ w = tx[t].w /\ d = tx[t].d
  BY <1>1 DEF AddsToWarehouse, AddsToDistrict, Paying
<1>3. Pays(t) => db'[key].amount \in Int /\ db'[key].amount = tx[t].amount
  BY <1>0, CommittedHistory DEF HistoryRow
<1>4. W_YTD \in Int /\ D_YTD \in Int
  BY DEF W_YTD, D_YTD
<1>5. ASSUME NEW w \in Warehouses
      PROVE  db'[Warehouse(w)] - W_YTD = Amounts(db', HistoryOf(db', started, w))
  <2>0. PICK keys, keys2 : keys = HistoryOf(db, started, w) /\ keys2 = HistoryOf(db', started, w)
    OBVIOUS
  <2>1. /\ db[Warehouse(w)] \in Int /\ db'[Warehouse(w)] \in Int
        /\ db'[Warehouse(w)] = IF AddsToWarehouse(t, w) THEN db[Warehouse(w)] + tx[t].amount
                                                       ELSE db[Warehouse(w)]
    BY CommittedMoney
  <2>2. db[Warehouse(w)] - W_YTD = Amounts(db, keys)
    BY <2>0 DEF Agrees
  <2>3. IsFiniteSet(keys) /\ \A k \in keys : db[k].amount \in Int
    BY <1>1, <2>0, HistoryRows
  <2>4. /\ keys2 = keys \cup IF Pays(t) /\ w = tx[t].w THEN {key} ELSE {}
        /\ key \notin keys /\ \A k \in keys : db'[k] = db[k]
    BY <1>0, <2>0, CommittedHistory
  <2>5. CASE Pays(t) /\ w = tx[t].w
    <3>1. Amounts(db, keys) \in Int /\ Amounts(db', keys \cup {key}) = Amounts(db, keys) + db'[key].amount
      BY <1>3, <2>3, <2>4, <2>5, OneMoreAmount
    <3>2. keys2 = keys \cup {key}
      BY <2>4, <2>5
    <3>3. db'[Warehouse(w)] = db[Warehouse(w)] + db'[key].amount
      BY <1>2, <1>3, <2>1, <2>5
    <3>4. Amounts(db', keys2) = Amounts(db, keys) + db'[key].amount
      BY <3>1, <3>2
    <3>5. db'[Warehouse(w)] - W_YTD = (db[Warehouse(w)] - W_YTD) + db'[key].amount
      BY <1>3, <1>4, <2>1, <2>5, <3>3
    <3> QED BY <2>0, <2>2, <3>4, <3>5
  <2>6. CASE ~(Pays(t) /\ w = tx[t].w)
    <3>1. keys2 = keys /\ db'[Warehouse(w)] = db[Warehouse(w)]
      BY <1>2, <2>1, <2>4, <2>6
    <3>2. Amounts(db', keys) = Amounts(db, keys)
      BY <2>4, SameAmounts
    <3> QED BY <2>0, <2>2, <3>1, <3>2
  <2> QED BY <2>5, <2>6
<1>6. ASSUME NEW w \in Warehouses, NEW d \in Districts
      PROVE  db'[District(w, d)].ytd - D_YTD = Amounts(db', HistoryIn(db', started, w, d))
  <2>0. PICK keys, keys2 : keys = HistoryIn(db, started, w, d) /\ keys2 = HistoryIn(db', started, w, d)
    OBVIOUS
  <2>1. /\ db[District(w, d)].ytd \in Int
        /\ db'[District(w, d)].ytd = IF AddsToDistrict(t, w, d) THEN db[District(w, d)].ytd + tx[t].amount
                                                               ELSE db[District(w, d)].ytd
    BY CommittedMoney
  <2>2. db[District(w, d)].ytd - D_YTD = Amounts(db, keys)
    BY <2>0 DEF Agrees
  <2>3. IsFiniteSet(keys) /\ keys \subseteq HistoryOf(db, started, w)
    BY <1>1, <2>0, HistoryRows DEF HistoryIn
  <2>a. \A k \in keys : db[k].amount \in Int
    BY <1>1, <2>3, HistoryRows
  <2>4. /\ keys2 = keys \cup IF Pays(t) /\ w = tx[t].w /\ d = tx[t].d THEN {key} ELSE {}
        /\ key \notin keys /\ \A k \in keys : db'[k] = db[k]
    BY <1>0, <2>0, <2>3, CommittedHistory
  <2>5. CASE Pays(t) /\ w = tx[t].w /\ d = tx[t].d
    <3>1. Amounts(db, keys) \in Int /\ Amounts(db', keys \cup {key}) = Amounts(db, keys) + db'[key].amount
      <4>1. key \notin keys /\ db'[key].amount \in Int /\ IsFiniteSet(keys)
        BY <1>3, <2>3, <2>4, <2>5
      <4>2. \A k \in keys : db'[k] = db[k] /\ db[k].amount \in Int
        BY <2>a, <2>4
      <4> QED BY ONLY <4>1, <4>2, OneMoreAmount
    <3>2. keys2 = keys \cup {key}
      BY <2>4, <2>5
    <3>3. db'[District(w, d)].ytd = db[District(w, d)].ytd + db'[key].amount
      BY <1>2, <1>3, <2>1, <2>5
    <3>4. Amounts(db', keys2) = Amounts(db, keys) + db'[key].amount
      BY <3>1, <3>2
    <3>5. db'[District(w, d)].ytd - D_YTD = (db[District(w, d)].ytd - D_YTD) + db'[key].amount
      BY <1>3, <1>4, <2>1, <2>5, <3>3
    <3> QED BY <2>0, <2>2, <3>4, <3>5
  <2>6. CASE ~(Pays(t) /\ w = tx[t].w /\ d = tx[t].d)
    <3>1. keys2 = keys /\ db'[District(w, d)].ytd = db[District(w, d)].ytd
      BY <1>2, <2>1, <2>4, <2>6
    <3>2. Amounts(db', keys) = Amounts(db, keys)
      BY <2>4, SameAmounts
    <3> QED BY <2>0, <2>2, <3>1, <3>2
  <2> QED BY <2>5, <2>6
<1> QED BY <1>5, <1>6 DEF Agrees

\* A commit leaves the rows of warehouses and of history what they should be.
LEMMA CommitMoneyRows ==
    ASSUME NEW t \in Terminals, MoneyRight(t), started \in Nat, UNCHANGED started
    PROVE  MoneyRows'
<1>1. \A w \in Warehouses : Warehouse(w) \in DOMAIN db' /\ db'[Warehouse(w)] \in Int
  BY CommittedMoney
<1>2. ASSUME NEW n \in Nat, History(n) \in DOMAIN db'
      PROVE  n \in 1..started' /\ db'[History(n)] \in HistoryRow
  <2>1. CASE Pays(t) /\ n = loc[t].no
    <3>1. loc[t].no \in 1..started
      BY DEF MoneyRight, CallNumbers
    <3>2. db'[History(n)] \in HistoryRow
      BY <2>1, CommittedHistory
    <3> QED BY <2>1, <3>1, <3>2
  <2>2. CASE ~(Pays(t) /\ n = loc[t].no)
    <3>1. History(n) \in DOMAIN db /\ db'[History(n)] = db[History(n)]
      BY <1>2, <2>2, CommittedMoney
    <3> QED BY <3>1 DEF MoneyRight, MoneyRows
  <2> QED BY <2>1, <2>2
<1> QED BY <1>1, <1>2 DEF MoneyRows

\* A call that begins has a number under which there is no payment yet, so the
\* payments are the same.
LEMMA BeginAgrees ==
    ASSUME MoneyRows, Agrees(db, started), started \in Nat, started' = started + 1, UNCHANGED db
    PROVE  Agrees(db', started') /\ MoneyRows'
<1>1. \A i \in Nat : History(i) \in DOMAIN db => i \in 1..started
  BY DEF MoneyRows
<1>2. ASSUME NEW w PROVE HistoryOf(db, started + 1, w) = HistoryOf(db, started, w)
  <2>1. ASSUME NEW i \in 1..started + 1, History(i) \in DOMAIN db PROVE i \in 1..started
    BY <1>1, <2>1
  <2>2. \A i \in 1..started : i \in 1..started + 1
    OBVIOUS
  <2> QED BY <2>1, <2>2 DEF HistoryOf
<1>3. \A w, d : HistoryIn(db, started + 1, w, d) = HistoryIn(db, started, w, d)
  BY <1>2 DEF HistoryIn
<1>4. Agrees(db, started + 1)
  BY <1>2, <1>3 DEF Agrees
<1>5. Agrees(db', started')
  BY <1>4
<1>6. MoneyRows'
  BY DEF MoneyRows
<1> QED BY <1>5, <1>6

\* Every step keeps the sums in agreement.
LEMMA StepAgrees ==
    ASSUME TypeInv, RowsOk(db), MoneyRows, CallNumbers, Agrees(db, started), started \in Nat,
           NEW t \in Terminals, WorkOk(t), MoneyWork(t), Step(t)
    PROVE  MoneyRows' /\ Agrees(db', started')
<1>1. CASE db' = db
  <2>1. CASE started' = started + 1
    BY <1>1, <2>1, BeginAgrees
  <2>2. CASE started' = started
    <3>1. MoneyRows'
      BY <1>1, <2>2 DEF MoneyRows
    <3>2. Agrees(db', started')
      BY <1>1, <2>2
    <3> QED BY <3>1, <3>2
  <2> QED BY <2>1, <2>2, NumberStep
<1>2. CASE commit(t) /\ pc[t] = "commit"
  <2>1. started' = started
    BY <1>2, NumberStep
  <2>2. MoneyRight(t)
    BY <1>2 DEF MoneyRight
  <2>3. Agrees(db', started')
    BY <2>1, <2>2, CommitAgrees
  <2> QED BY <2>1, <2>2, <2>3, CommitMoneyRows
<1> QED BY <1>1, <1>2, DbChanges

\* A warehouse or a district that another terminal has written keeps its sum:
\* the terminal holds the lock of the row.
LEMMA OtherMoney ==
    ASSUME TypeInv, Exclusive, RowsOk(db), MoneyRows, CallNumbers,
           NEW t \in Terminals, WorkOk(t), MoneyWork(t), Step(t),
           NEW u \in Terminals, u # t, WorkOk(u), MoneyWork(u)
    PROVE  MoneyWork(u)'
<1>1. /\ pc'[u] = pc[u] /\ tx'[u] = tx[u] /\ loc'[u] = loc[u]
      /\ work'[u] = work[u] /\ held'[u] = held[u]
  BY StepIsApart DEF Apart
<1>2. /\ Pays(u)' <=> Pays(u)
      /\ \A w : AddsToWarehouse(u, w)' <=> AddsToWarehouse(u, w)
      /\ \A w, d : AddsToDistrict(u, w, d)' <=> AddsToDistrict(u, w, d)
  BY <1>1 DEF Pays, Paying, AddsToWarehouse, AddsToDistrict
<1>3. \A key : ~(X(key) \in held[u] /\ X(key) \in held[t])
  BY DEF Exclusive, Conflict, X
<1>4. ASSUME NEW w \in Warehouses
      PROVE  WarehouseWork(u, w)'
  <2> DEFINE key == Warehouse(w)
  <2>1. WarehouseWork(u, w) /\ WarehouseWork(t, w)
    BY DEF MoneyWork
  <2>2. key \in DOMAIN work[u] => db'[key] = db[key]
    <3> SUFFICES ASSUME key \in DOMAIN work[u] PROVE db'[key] = db[key]
      OBVIOUS
    <3>1. key \notin DOMAIN work[t]
      BY <1>3, <2>1 DEF WarehouseWork
    <3>2. ~AddsToWarehouse(t, w)
      BY <2>1, <3>1 DEF WarehouseWork
    <3>3. commit(t) /\ pc[t] = "commit" => MoneyRight(t)
      BY DEF MoneyRight
    <3> QED BY <3>2, <3>3, CommittedMoney, DbChanges
  <2> QED BY <1>1, <1>2, <2>1, <2>2 DEF WarehouseWork
<1>5. ASSUME NEW w \in Warehouses, NEW d \in Districts
      PROVE  YtdWork(u, w, d)'
  <2> DEFINE key == District(w, d)
  <2>1. YtdWork(u, w, d) /\ YtdWork(t, w, d) /\ DistrictWork(u, w, d) /\ DistrictWork(t, w, d)
    BY DEF MoneyWork, WorkOk
  <2>2. key \in DOMAIN work[u] => db'[key].ytd = db[key].ytd
    <3> SUFFICES ASSUME key \in DOMAIN work[u] PROVE db'[key].ytd = db[key].ytd
      OBVIOUS
    <3>1. key \notin DOMAIN work[t]
      BY <1>3, <2>1 DEF DistrictWork
    <3>2. ~AddsToDistrict(t, w, d)
      BY <2>1, <3>1 DEF YtdWork
    <3>3. commit(t) /\ pc[t] = "commit" => MoneyRight(t)
      BY DEF MoneyRight
    <3> QED BY <3>2, <3>3, CommittedMoney, DbChanges
  <2> QED BY <1>1, <1>2, <2>1, <2>2 DEF YtdWork
<1>6. HistoryWork(u)'
  BY <1>1, <1>2 DEF MoneyWork, HistoryWork
<1> QED BY <1>1, <1>4, <1>5, <1>6 DEF MoneyWork

\* The commit ends the call.
LEMMA CommitEnds ==
    ASSUME TypeInv, NEW t \in Terminals, Step(t), pc[t] = "commit"
    PROVE  pc'[t] = "idle"
<1>1. Commit(t) \/ CommitFails(t)
  BY DEF Step, Statement, Begin, TakeOrderNumber, InsertOrder, OrderLine, NoItem, PayWarehouse, PayDistrict,
         PayCustomer, FindOldest, DeleteNewOrder, SetCarrier, CreditCustomer, FindOrder, ReadLines,
         ReadLevel, CountStock, Fail, Update, Select, at
<1> QED BY <1>1, GotoFacts DEF Commit, CommitFails

\* Calls keep numbers of their own.
LEMMA CallNumbersStep ==
    ASSUME TypeInv, RowsOk(db), MoneyRows, CallNumbers, started \in Nat,
           NEW t \in Terminals, WorkOk(t), MoneyWork(t), Step(t)
    PROVE  CallNumbers'
<1>1. \A u \in Terminals : u # t => pc'[u] = pc[u] /\ loc'[u] = loc[u]
  BY StepIsApart DEF Apart
<1>2. CASE pc[t] = "idle" /\ started' = started + 1 /\ loc'[t].no = started + 1 /\ db' = db
  <2>1. History(started + 1) \notin DOMAIN db
    BY DEF MoneyRows
  <2>2. ASSUME NEW u \in Terminals, pc'[u] # "idle"
        PROVE  /\ loc'[u].no \in 1..started' /\ History(loc'[u].no) \notin DOMAIN db'
               /\ u # t => loc'[u].no \in 1..started
    <3>1. CASE u = t
      BY <1>2, <2>1, <3>1
    <3>2. CASE u # t
      BY <1>1, <1>2, <2>2, <3>2 DEF CallNumbers
    <3> QED BY <3>1, <3>2
  <2>3. ASSUME NEW u \in Terminals, NEW v \in Terminals, pc'[u] # "idle", pc'[v] # "idle", u # v
        PROVE  loc'[u].no # loc'[v].no
    <3>1. CASE u # t /\ v # t
      BY <1>1, <2>3, <3>1 DEF CallNumbers
    <3>2. CASE u = t \/ v = t
      BY <1>2, <2>2, <2>3, <3>2
    <3> QED BY <3>1, <3>2
  <2> QED BY <2>2, <2>3 DEF CallNumbers
<1>3. CASE pc[t] # "idle" /\ started' = started /\ loc'[t].no = loc[t].no
  <2>1. \A u \in Terminals : /\ loc'[u].no = loc[u].no
                             /\ pc'[u] # "idle" => pc[u] # "idle"
    BY <1>1, <1>3
  <2>2. ASSUME NEW u \in Terminals, pc'[u] # "idle"
        PROVE  History(loc[u].no) \notin DOMAIN db'
    <3>1. loc[u].no \in 1..started /\ History(loc[u].no) \notin DOMAIN db
      BY <2>1, <2>2 DEF CallNumbers
    <3>2. CASE db' = db
      BY <3>1, <3>2
    <3>3. CASE commit(t) /\ pc[t] = "commit"
      <4>1. MoneyRight(t)
        BY <3>3 DEF MoneyRight
      <4>2. ~(Pays(t) /\ loc[u].no = loc[t].no)
        <5>1. CASE u # t
          BY <1>3, <2>1, <2>2, <5>1 DEF CallNumbers
        <5>2. CASE u = t
          BY <2>2, <3>3, <5>2, CommitEnds
        <5> QED BY <5>1, <5>2
      <4> QED BY <3>1, <4>1, <4>2, CommittedMoney
    <3> QED BY <3>2, <3>3, DbChanges
  <2> QED BY <1>3, <2>1, <2>2 DEF CallNumbers
<1> QED BY <1>2, <1>3, NumberStep

\* No step breaks the invariant.
LEMMA MoneyNext == IInv /\ OrdersInv /\ MoneyInv /\ [Next]_vars => MoneyInv'
<1> SUFFICES ASSUME IInv, OrdersInv, MoneyInv, [Next]_vars PROVE MoneyInv'
  OBVIOUS
<1>0. /\ TypeInv /\ Exclusive /\ RowsOk(db) /\ started \in Nat
      /\ MoneyRows /\ CallNumbers /\ Agrees(db, started)
      /\ \A t \in Terminals : WorkOk(t) /\ MoneyWork(t)
  BY TpccAssumption DEF IInv, LockInv, OrdersInv, MoneyInv, TypeInv
<1>1. ASSUME NEW t \in Terminals, Step(t) PROVE MoneyInv'
  <2>1. MoneyRows' /\ Agrees(db', started')
    BY <1>0, <1>1, StepAgrees
  <2>2. CallNumbers'
    BY <1>0, <1>1, CallNumbersStep
  <2>3. ASSUME NEW u \in Terminals PROVE MoneyWork(u)'
    <3>1. CASE u = t
      <4>1. pc[t] # "idle" => loc[t].no \in Nat
        BY <1>0 DEF CallNumbers
      <4> QED BY <1>0, <1>1, <3>1, <4>1, OwnMoney
    <3>2. CASE u # t
      BY <1>0, <1>1, <3>2, OtherMoney
    <3> QED BY <3>1, <3>2
  <2>4. Agrees(db, started)'
    BY <2>1 DEF Agrees, HistoryOf, HistoryIn, Amounts
  <2> QED BY <2>1, <2>2, <2>3, <2>4 DEF MoneyInv
<1>2. CASE UNCHANGED vars
  <2>1. MoneyRows' /\ CallNumbers'
    BY <1>0, <1>2 DEF vars, MoneyRows, CallNumbers
  <2>2. Agrees(db, started)'
    BY <1>0, <1>2 DEF vars, Agrees, HistoryOf, HistoryIn, Amounts
  <2>3. ASSUME NEW u \in Terminals PROVE MoneyWork(u)'
    BY <1>0, <1>2 DEF vars, MoneyWork, WarehouseWork, YtdWork, HistoryWork, Pays, Paying,
           AddsToWarehouse, AddsToDistrict
  <2> QED BY <2>1, <2>2, <2>3 DEF MoneyInv
<1> QED BY <1>1, <1>2 DEF Next, Step

\* The money that Payment takes in is the same in the warehouse, in its
\* districts and in the history, however Payments overlap with each other and
\* with New Orders of the same district, and wherever they fail
\* (Payment.payment: w_ytd and d_ytd are added to by the UPDATE itself, and one
\* transaction covers the three tables).
THEOREM PaymentsAgree == Spec => []YtdAgrees
<1>1. ASSUME IInv, MoneyInv PROVE YtdAgrees
  <2>0. MoneyRows /\ Agrees(db, started) /\ started \in Nat
    BY <1>1, TpccAssumption DEF IInv, MoneyInv, TypeInv
  <2>1. ASSUME NEW w \in Warehouses
        PROVE  db[Warehouse(w)] - W_YTD = Amounts(db, {k \in Payments : db[k].w = w})
    BY <2>0 DEF Agrees, HistoryOf, Payments
  <2>2. ASSUME NEW w \in Warehouses, NEW d \in Districts
        PROVE  db[District(w, d)].ytd - D_YTD =
                   Amounts(db, {k \in {h \in Payments : db[h].w = w} : db[k].d = d})
    <3>1. HistoryIn(db, started, w, d) = {k \in {h \in Payments : db[h].w = w} : db[k].d = d}
      BY DEF HistoryIn, HistoryOf, Payments
    <3> QED BY <2>0, <3>1 DEF Agrees
  <2> QED BY <2>1, <2>2 DEF YtdAgrees, Amounts
<1> QED BY <1>1, InvInit, InvNext, OrdersInit, OrdersNext, MoneyInit, MoneyNext, PTL DEF Spec

-----------------------------------------------------------------------------
(* Sums over two sets.                                                     *)

\* The sum of one element more.
LEMMA OneMore ==
    ASSUME NEW keys, IsFiniteSet(keys), NEW key, key \notin keys,
           NEW f, f \in [keys \cup {key} -> Int], NEW g, g \in [keys -> Int], \A k \in keys : g[k] = f[k]
    PROVE  SumOf(g) \in Int /\ f[key] \in Int /\ SumOf(f) = SumOf(g) + f[key]
<1>0. PICK all : all = keys \cup {key}
  OBVIOUS
<1>1. /\ IsFiniteSet(all) /\ key \in all /\ all \ {key} = keys
      /\ f \in [all -> Int] /\ keys \in SUBSET all /\ all \in SUBSET all
  BY <1>0, FS_AddElement
<1>2. PICK it : Sums(it, f, all) /\ SumOf(f) = it[all]
  BY <1>1, SumOfSums
<1>3. PICK jt : Sums(jt, g, keys) /\ SumOf(g) = jt[keys]
  BY SumOfSums
<1>4. it[all] = f[key] + it[all \ {key}]
  BY <1>1, <1>2, SumsWithout
<1>5. it[keys] \in Int
  BY <1>1, <1>2, SumsWithout
<1>6. it[keys] = jt[keys]
  <2>1. keys \subseteq all /\ keys \subseteq keys /\ \A k \in keys : f[k] = g[k]
    BY <1>1
  <2> QED BY <1>1, <1>2, <1>3, <2>1, SumsAgree
<1>7. f[key] \in Int
  BY <1>1
<1>8. SumOf(g) = it[keys] /\ SumOf(f) = f[key] + it[keys]
  BY <1>1, <1>2, <1>3, <1>4, <1>6, Zenon
<1> QED BY <1>5, <1>7, <1>8

\* A sum of numbers is one.
LEMMA SumIsNumber ==
    ASSUME NEW D, IsFiniteSet(D), NEW f, f \in [D -> Int]
    PROVE  SumOf(f) \in Int
<1>1. PICK it : Sums(it, f, D) /\ SumOf(f) = it[D]
  BY SumOfSums
<1>2. D \in SUBSET D
  OBVIOUS
<1> QED BY <1>1, <1>2, SumsWithout

\* The numbers that h gives to the members of a set.
On(h, p) == [x \in p |-> h[x]]

\* The sum over two sets that have nothing in common is that of the one and
\* that of the other.
LEMMA SumOfBoth ==
    ASSUME NEW D, IsFiniteSet(D), NEW E, IsFiniteSet(E), D \cap E = {},
           NEW h, \A x \in D \cup E : h[x] \in Int
    PROVE  /\ SumOf(On(h, D)) \in Int /\ SumOf(On(h, E)) \in Int
           /\ SumOf(On(h, D \cup E)) = SumOf(On(h, D)) + SumOf(On(h, E))
<1> DEFINE Right(p) == SumOf(On(h, p)) \in Int /\ SumOf(On(h, D \cup p)) = SumOf(On(h, D)) + SumOf(On(h, p))
           T == {n \in Nat : \A p \in SUBSET E : Cardinality(p) = n => Right(p)}
<1>0. \A p \in SUBSET E : /\ IsFiniteSet(p) /\ IsFiniteSet(D \cup p) /\ Cardinality(p) \in Nat
                          /\ Cardinality(p) = 0 <=> p = {}
                          /\ \A x \in p : Cardinality(p \ {x}) = Cardinality(p) - 1
  BY FS_Subset, FS_Union, FS_CardinalityType, FS_EmptySet, FS_RemoveElement
<1>1. SumOf(On(h, D)) \in Int
  <2>1. On(h, D) \in [D -> Int]
    BY DEF On
  <2> QED BY <2>1, SumIsNumber
<1>2. 0 \in T
  <2> SUFFICES ASSUME NEW p \in SUBSET E, Cardinality(p) = 0 PROVE Right(p)
    OBVIOUS
  <2>1. p = {} /\ D \cup p = D
    BY <1>0
  <2>2. DOMAIN On(h, p) = {} /\ On(h, p) \in [{} -> Int]
    BY <2>1 DEF On
  <2>3. SumOf(On(h, p)) = 0
    BY <2>2, SumOfNothing
  <2> QED BY <1>1, <2>1, <2>3
<1>3. ASSUME NEW n \in Nat, n \in T PROVE n + 1 \in T
  <2> SUFFICES ASSUME NEW p \in SUBSET E, Cardinality(p) = n + 1 PROVE Right(p)
    OBVIOUS
  <2>1. PICK x \in p : TRUE
    <3>1. Cardinality(p) # 0
      OBVIOUS
    <3> QED BY <1>0, <3>1
  <2>2. PICK q, both : q = p \ {x} /\ both = D \cup q
    OBVIOUS
  <2>3. /\ q \in SUBSET E /\ Cardinality(q) = n /\ IsFiniteSet(q) /\ IsFiniteSet(both)
    <3>1. q \in SUBSET E /\ Cardinality(q) = Cardinality(p) - 1
      BY <1>0, <2>1, <2>2
    <3>2. IsFiniteSet(q) /\ IsFiniteSet(D \cup q)
      BY <1>0, <3>1
    <3> QED BY <2>2, <3>1, <3>2
  <2>4. Right(q)
    BY <1>3, <2>3
  <2>5. p = q \cup {x} /\ D \cup p = both \cup {x} /\ x \notin q /\ x \notin both
    BY <2>1, <2>2
  <2>6. SumOf(On(h, p)) = SumOf(On(h, q)) + h[x] /\ h[x] \in Int
    <3>1. PICK f, g : f = On(h, p) /\ g = On(h, q)
      OBVIOUS
    <3>2. f \in [q \cup {x} -> Int] /\ g \in [q -> Int] /\ (\A y \in q : g[y] = f[y]) /\ f[x] = h[x]
      BY <2>1, <2>2, <2>5, <3>1 DEF On
    <3>3. f[x] \in Int /\ SumOf(f) = SumOf(g) + f[x]
      BY ONLY <2>3, <2>5, <3>2, OneMore
    <3> QED BY <3>1, <3>2, <3>3
  <2>7. SumOf(On(h, D \cup p)) = SumOf(On(h, both)) + h[x]
    <3>1. PICK f, g : f = On(h, D \cup p) /\ g = On(h, both)
      OBVIOUS
    <3>2. f \in [both \cup {x} -> Int] /\ g \in [both -> Int] /\ (\A y \in both : g[y] = f[y]) /\ f[x] = h[x]
      BY <2>1, <2>2, <2>5, <3>1 DEF On
    <3>3. SumOf(f) = SumOf(g) + f[x]
      <4>1. IsFiniteSet(both) /\ x \notin both
        BY <2>3, <2>5
      <4>2. f \in [both \cup {x} -> Int] /\ g \in [both -> Int]
        BY <3>2
      <4>3. \A y \in both : g[y] = f[y]
        BY <3>2
      <4> QED BY ONLY <4>1, <4>2, <4>3, OneMore
    <3> QED BY <3>1, <3>2, <3>3
  <2> QED BY <1>1, <2>2, <2>4, <2>6, <2>7
<1>4. Cardinality(E) \in T
  <2> HIDE DEF T
  <2> QED BY <1>0, <1>2, <1>3, AllNumbers
<1>6. Right(E)
  BY <1>4
<1> QED BY <1>1, <1>6

-----------------------------------------------------------------------------
(* The rows that a statement writes.                                       *)

\* A statement that does not end the transaction.
Middle(t) == OtherStatement(t) \/ PayWarehouse(t) \/ PayDistrict(t) \/ PayCustomer(t)

\* The keys of the rows that the statement of t writes.
Writes(t) ==
    LET c == tx[t]
        l == loc[t]
    IN  CASE at(t, "district")  -> {District(c.w, c.d)}
          [] at(t, "order")     -> {Order(c.w, c.d, l.o), NewOrderRow(c.w, c.d, l.o),
                                    OrderLines(c.w, c.d, l.o)}
          [] at(t, "line")      -> {Stock(l.lines[l.n].supply, l.lines[l.n].item),
                                    OrderLines(c.w, c.d, l.o)}
          [] at(t, "warehouse") -> {Warehouse(c.w)}
          [] at(t, "payment")   -> {District(c.w, c.d)}
          [] at(t, "customer")  -> {Customer(c.c_w, c.c_d, l.c), History(l.no)}
          [] at(t, "delete")    -> {NewOrderRow(c.w, l.d, l.o)}
          [] at(t, "carrier")   -> {Order(c.w, l.d, l.o), OrderLines(c.w, l.d, l.o)}
          [] at(t, "credit")    -> {Customer(c.w, l.d, l.c)}
          [] OTHER              -> {}

\* The same, label by label.
LEMMA WritesAre ==
    ASSUME NEW t
    PROVE  /\ pc[t] \in {"district", "payment"} => Writes(t) = {District(tx[t].w, tx[t].d)}
           /\ pc[t] = "order" => Writes(t) = {Order(tx[t].w, tx[t].d, loc[t].o), NewOrderRow(tx[t].w, tx[t].d, loc[t].o),
                                              OrderLines(tx[t].w, tx[t].d, loc[t].o)}
           /\ pc[t] = "line" => Writes(t) = {Stock(loc[t].lines[loc[t].n].supply, loc[t].lines[loc[t].n].item),
                                             OrderLines(tx[t].w, tx[t].d, loc[t].o)}
           /\ pc[t] = "warehouse" => Writes(t) = {Warehouse(tx[t].w)}
           /\ pc[t] = "customer" => Writes(t) = {Customer(tx[t].c_w, tx[t].c_d, loc[t].c), History(loc[t].no)}
           /\ pc[t] = "delete" => Writes(t) = {NewOrderRow(tx[t].w, loc[t].d, loc[t].o)}
           /\ pc[t] = "carrier" => Writes(t) = {Order(tx[t].w, loc[t].d, loc[t].o),
                                                OrderLines(tx[t].w, loc[t].d, loc[t].o)}
           /\ pc[t] = "credit" => Writes(t) = {Customer(tx[t].w, loc[t].d, loc[t].c)}
           /\ pc[t] \notin {"district", "payment", "order", "line", "warehouse", "customer", "delete", "carrier",
                            "credit"} => Writes(t) = {}
    BY DEF Writes, at

\* A statement locks rows and writes its own rows only; it commits nothing.
LEMMA MiddleFacts ==
    ASSUME TypeInv, NEW t \in Terminals, Middle(t)
    PROVE  /\ UNCHANGED <<db, tx>> /\ held[t] \subseteq held'[t] /\ pc[t] \notin {"idle", "commit"}
           /\ \A k : k \notin Writes(t) => Kept(t, k)
<1>1. UNCHANGED <<db, tx>> /\ pc[t] \notin {"idle", "commit"}
  BY DEF Middle, OtherStatement, TakeOrderNumber, InsertOrder, OrderLine, FindOldest, DeleteNewOrder,
         SetCarrier, CreditCustomer, FindOrder, ReadLines, ReadLevel, CountStock, PayWarehouse, PayDistrict,
         PayCustomer, Update, Select, at, bookkeeping
<1>2. held[t] \subseteq held'[t]
  <2>1. ASSUME NEW label, Update(t, label) PROVE held[t] \subseteq held'[t]
    BY <2>1, UpdateFacts
  <2> QED BY <2>1, OtherStatementFacts DEF Middle, PayWarehouse, PayDistrict, PayCustomer
<1>3. ASSUME NEW k, k \notin Writes(t) PROVE Kept(t, k)
  <2>a. ASSUME NEW k1, NEW v1, Write(t, Row(k1, v1)), k # k1 PROVE Kept(t, k)
    BY <2>a, WriteOne
  <2>b. ASSUME NEW k1, NEW v1, NEW k2, NEW v2, k1 # k2, Write(t, Row(k1, v1) ++ Row(k2, v2)),
               k # k1, k # k2
        PROVE  Kept(t, k)
    BY <2>b, WriteTwo
  <2>1. CASE InsertOrder(t)
    <3>1. PICK k1, v1, k2, v2, k3, v3 :
              /\ Write(t, Row(k1, v1) ++ Row(k2, v2) ++ Row(k3, v3))
              /\ k1 = Order(tx[t].w, tx[t].d, loc[t].o) /\ k2 = NewOrderRow(tx[t].w, tx[t].d, loc[t].o)
              /\ k3 = OrderLines(tx[t].w, tx[t].d, loc[t].o)
      BY <2>1 DEF InsertOrder
    <3>2. k1 # k2 /\ k1 # k3 /\ k2 # k3
      BY <3>1, Keys
    <3>3. k # k1 /\ k # k2 /\ k # k3
      BY <1>3, <2>1, <3>1 DEF InsertOrder, Update, Writes, at
    <3> QED BY <3>1, <3>2, <3>3, WriteThree
  <2>2. CASE OrderLine(t)
    <3>1. PICK k1, v1, k2, v2 :
              /\ Write(t, Row(k1, v1) ++ Row(k2, v2))
              /\ k1 = Stock(loc[t].lines[loc[t].n].supply, loc[t].lines[loc[t].n].item)
              /\ k2 = OrderLines(tx[t].w, tx[t].d, loc[t].o)
      BY <2>2 DEF OrderLine
    <3>2. k1 # k2
      BY <3>1 DEF Stock, OrderLines
    <3>3. k # k1 /\ k # k2
      BY <1>3, <2>2, <3>1 DEF OrderLine, Update, Writes, at
    <3> QED BY <2>b, <3>1, <3>2, <3>3
  <2>3. CASE DeleteNewOrder(t)
    BY <1>3, <2>3, <2>a DEF DeleteNewOrder, Kept, Update, Writes, at
  <2>4. CASE SetCarrier(t)
    <3>1. PICK k1, v1, k2, v2 :
              /\ Write(t, Row(k1, v1) ++ Row(k2, v2))
              /\ k1 = Order(tx[t].w, loc[t].d, loc[t].o)
              /\ k2 = OrderLines(tx[t].w, loc[t].d, loc[t].o)
      BY <2>4 DEF SetCarrier
    <3>2. k1 # k2
      BY <3>1, Keys
    <3>3. k # k1 /\ k # k2
      BY <1>3, <2>4, <3>1 DEF SetCarrier, Update, Writes, at
    <3> QED BY <2>b, <3>1, <3>2, <3>3
  <2>5. CASE CreditCustomer(t)
    BY <1>3, <2>5, <2>a DEF CreditCustomer, Update, Writes, at
  <2>6. CASE FindOldest(t) \/ FindOrder(t) \/ ReadLines(t) \/ ReadLevel(t) \/ CountStock(t)
    BY <2>6 DEF FindOldest, FindOrder, ReadLines, ReadLevel, CountStock, Select, Kept
  <2>7. CASE TakeOrderNumber(t)
    BY <1>3, <2>7, <2>a DEF TakeOrderNumber, Update, Writes, at
  <2>8. CASE PayWarehouse(t)
    BY <1>3, <2>8, <2>a DEF PayWarehouse, Update, Writes, at
  <2>9. CASE PayDistrict(t)
    BY <1>3, <2>9, <2>a DEF PayDistrict, Update, Writes, at
  <2>10. CASE PayCustomer(t)
    <3>1. PICK k1, v1, k2, v2 :
              /\ Write(t, Row(k1, v1) ++ Row(k2, v2))
              /\ k1 = Customer(tx[t].c_w, tx[t].c_d, loc[t].c) /\ k2 = History(loc[t].no)
      BY <2>10 DEF PayCustomer
    <3>2. k1 # k2
      BY <3>1 DEF Customer, History
    <3>3. k # k1 /\ k # k2
      BY <1>3, <2>10, <3>1 DEF PayCustomer, Update, Writes, at
    <3> QED BY <2>b, <3>1, <3>2, <3>3
  <2> QED BY <2>1, <2>2, <2>3, <2>4, <2>5, <2>6, <2>7, <2>8, <2>9, <2>10 DEF Middle, OtherStatement
<1> QED BY <1>1, <1>2, <1>3

\* Every other step begins a transaction or ends it.
LEMMA EndFacts ==
    ASSUME TypeInv, NEW t \in Terminals, Step(t), ~Middle(t)
    PROVE  /\ work'[t] = NoRows /\ snap'[t] = NoRows
           /\ pc'[t] \in {"idle", "district", "warehouse", "status", "oldest", "level"}
           /\ pc'[t] # "idle" => tx'[t] \in Calls
<1>0. Commit(t) \/ CommitFails(t) \/ NoItem(t) \/ Fail(t) \/ \E call \in Calls : Begin(t, call)
  BY DEF Step, Statement, Middle, OtherStatement
<1>1. work'[t] = NoRows /\ snap'[t] = NoRows
  <2>1. CASE Commit(t) \/ CommitFails(t) \/ NoItem(t) \/ Fail(t)
    BY <2>1, ReleaseFacts DEF Commit, CommitFails, NoItem, Fail, commit, rollback
  <2>2. ASSUME NEW call \in Calls, Begin(t, call) PROVE work'[t] = NoRows /\ snap'[t] = NoRows
    BY <2>2 DEF Begin, at, TypeInv
  <2> QED BY <1>0, <2>1, <2>2
<1>2. /\ pc'[t] \in {"idle", "district", "warehouse", "status", "oldest", "level"}
      /\ pc'[t] # "idle" => tx'[t] \in Calls
  <2>1. CASE Commit(t) \/ CommitFails(t) \/ NoItem(t)
    BY <2>1, GotoFacts DEF Commit, CommitFails, NoItem
  <2>2. CASE Fail(t)
    <3>1. pc'[t] = firstStatement(tx[t]) /\ tx[t] \in Calls /\ tx' = tx
      BY <2>2, GotoFacts DEF Fail, at, TypeInv, Doing
    <3> QED BY <3>1, FirstStatement
  <2>3. ASSUME NEW call \in Calls, Begin(t, call)
        PROVE  pc'[t] \in {"district", "warehouse", "status", "oldest", "level"} /\ tx'[t] \in Calls
    <3>1. pc'[t] = firstStatement(call) /\ tx'[t] = call
      BY <2>3, GotoFacts DEF Begin, TypeInv, IsFcn
    <3> QED BY <3>1, FirstStatement
  <2> QED BY <1>0, <2>1, <2>2, <2>3
<1> QED BY <1>1, <1>2

-----------------------------------------------------------------------------
(* What an order is for: it never changes.                                 *)

\* Lines that differ at most in whether they are delivered.
SameGoods(old, new) ==
    /\ DOMAIN new = DOMAIN old
    /\ \A i \in DOMAIN old : /\ new[i].item = old[i].item /\ new[i].supply = old[i].supply
                             /\ new[i].qty = old[i].qty /\ new[i].amount = old[i].amount

\* An order that is of the same customer and for the same goods.
SameOrderOf(rows, rows2, w, d, o) ==
    /\ rows2[Order(w, d, o)].cust = rows[Order(w, d, o)].cust
    /\ SameGoods(rows[OrderLines(w, d, o)], rows2[OrderLines(w, d, o)])

\* What t has written of an order that it has not inserted is for the same.
GoodsWork(t, w, d, o) ==
    Order(w, d, o) \in DOMAIN work[t] /\ ~Inserts(t, w, d, o) => SameOrderOf(db, work[t], w, d, o)

\* What a snapshot has of an order is for the same.
GoodsSnap(t, w, d, o) ==
    snap[t] # NoRows /\ o \in 1..nextOf(snap[t], w, d) - 1 => SameOrderOf(snap[t], db, w, d, o)

\* The inductive invariant: of all orders.
GoodsInv ==
    \A t \in Terminals, w \in Warehouses, d \in Districts, o \in Nat :
        GoodsWork(t, w, d, o) /\ GoodsSnap(t, w, d, o)

\* An order is for the same as what was for the same as it.
LEMMA SameOrderTransitive ==
    ASSUME NEW r1, NEW r2, NEW r3, NEW w, NEW d, NEW o,
           SameOrderOf(r1, r2, w, d, o), SameOrderOf(r2, r3, w, d, o)
    PROVE  SameOrderOf(r1, r3, w, d, o)
    BY DEF SameOrderOf, SameGoods

\* Rows that agree in both rows of the order.
LEMMA SameRowsSameOrder ==
    ASSUME NEW r1, NEW r2, NEW w, NEW d, NEW o,
           r2[Order(w, d, o)] = r1[Order(w, d, o)], r2[OrderLines(w, d, o)] = r1[OrderLines(w, d, o)]
    PROVE  SameOrderOf(r1, r2, w, d, o)
    BY DEF SameOrderOf, SameGoods

\* A commit keeps what the orders are for.
LEMMA CommittedGoods ==
    ASSUME RowsOk(db), NEW t \in Terminals, WorkOk(t), commit(t),
           NEW w \in Warehouses, NEW d \in Districts, NEW o \in 1..nextOf(db, w, d) - 1, GoodsWork(t, w, d, o)
    PROVE  SameOrderOf(db, db', w, d, o)
<1>0. PICK order, lines : order = Order(w, d, o) /\ lines = OrderLines(w, d, o)
  OBVIOUS
<1>1. nextOf(db, w, d) \in Nat /\ o \in Nat
  BY NextIsNumber
<1>2. db' = Apply(db, work[t]) /\ OrderWork(t, w, d, o) /\ DistrictWork(t, w, d)
  BY <1>1 DEF commit, WorkOk
<1>3. ~Inserts(t, w, d, o)
  BY <1>1, <1>2 DEF Inserts, DistrictWork
<1>4. DeliveredWork(t, w, d, o)
  BY <1>2, <1>3 DEF OrderWork
<1>5. order \in DOMAIN db /\ lines \in DOMAIN db
  BY <1>0, <1>1, OrdersThereAre DEF OrderOk
<1>6. CASE order \in DOMAIN work[t]
  <2>1. /\ lines \in DOMAIN work[t] /\ work[t][order] \in OrderRow /\ work[t][lines] \in Seq(LineRow)
    BY <1>0, <1>4, <1>6 DEF DeliveredWork
  <2>2. work[t][order] # Nil /\ work[t][lines] # Nil
    BY <2>1, ValuesAreNotNil
  <2>3. db'[order] = work[t][order] /\ db'[lines] = work[t][lines]
    BY <1>2, <1>6, <2>1, <2>2, ApplyRows
  <2>4. SameOrderOf(db, work[t], w, d, o)
    BY <1>0, <1>3, <1>6 DEF GoodsWork
  <2> QED BY <1>0, <2>3, <2>4 DEF SameOrderOf
<1>7. CASE order \notin DOMAIN work[t]
  <2>1. lines \notin DOMAIN work[t]
    BY <1>0, <1>4, <1>7 DEF DeliveredWork
  <2>2. db'[order] = db[order] /\ db'[lines] = db[lines]
    BY <1>2, <1>5, <1>7, <2>1, ApplyRows
  <2> QED BY <1>0, <2>2, SameRowsSameOrder
<1> QED BY <1>6, <1>7

\* So does every step.
LEMMA StepGoods ==
    ASSUME TypeInv, RowsOk(db), NEW t \in Terminals, WorkOk(t), Step(t),
           NEW w \in Warehouses, NEW d \in Districts, NEW o \in 1..nextOf(db, w, d) - 1, GoodsWork(t, w, d, o)
    PROVE  SameOrderOf(db, db', w, d, o)
<1>1. CASE commit(t) /\ pc[t] = "commit"
  BY <1>1, CommittedGoods
<1>2. CASE db' = db
  BY <1>2, SameRowsSameOrder
<1> QED BY <1>1, <1>2, DbChanges

\* The statement that delivers an order does not change what it is for.
LEMMA SetCarrierGoods ==
    ASSUME TypeInv, RowsOk(db), NEW t \in Terminals, WorkOk(t), SetCarrier(t),
           NEW w, NEW d, NEW o \in Nat, w = tx[t].w, d = loc[t].d, o = loc[t].o, GoodsWork(t, w, d, o)
    PROVE  SameOrderOf(db, work'[t], w, d, o)
<1>0. PICK order, lines, v1, v2 :
          /\ order = Order(w, d, o) /\ lines = OrderLines(w, d, o)
          /\ v1 = [Latest(t)[order] EXCEPT !.carrier = TRUE]
          /\ v2 = [i \in DOMAIN Latest(t)[lines] |-> [Latest(t)[lines][i] EXCEPT !.delivered = TRUE]]
  OBVIOUS
<1>1. /\ pc[t] = "carrier" /\ UNCHANGED <<db, tx>>
  BY UpdateFacts DEF SetCarrier
<1>2. w \in Warehouses /\ d \in Districts /\ ~Inserts(t, w, d, o)
  BY <1>1, Kinds DEF TypeInv, Doing, Inserts, Numbers, Ordering
<1>3. Delivering(t, w, d, o)
  BY <1>1 DEF Delivering
<1>4. DeliveredWork(t, w, d, o)
  BY <1>2 DEF WorkOk, OrderWork
<1>5. /\ o \in 1..nextOf(db, w, d) - 1
      /\ Latest(t)[order] \in OrderRow /\ Latest(t)[lines] \in Seq(LineRow)
  BY <1>0, <1>2, <1>3, <1>4, OrderToDeliver
<1>6. order \in DOMAIN db /\ lines \in DOMAIN db
  BY <1>0, <1>2, <1>5, OrdersThereAre DEF OrderOk
<1>7. SameOrderOf(db, Latest(t), w, d, o)
  <2>1. CASE order \in DOMAIN work[t]
    <3>1. /\ lines \in DOMAIN work[t] /\ work[t][order] \in OrderRow /\ work[t][lines] \in Seq(LineRow)
      BY <1>0, <1>4, <2>1 DEF DeliveredWork
    <3>2. work[t][order] # Nil /\ work[t][lines] # Nil
      BY <3>1, ValuesAreNotNil
    <3>3. Latest(t)[order] = work[t][order] /\ Latest(t)[lines] = work[t][lines]
      BY <2>1, <3>1, <3>2, ApplyRows DEF Latest
    <3>4. SameOrderOf(db, work[t], w, d, o)
      BY <1>0, <1>2, <2>1 DEF GoodsWork
    <3> QED BY <1>0, <3>3, <3>4 DEF SameOrderOf
  <2>2. CASE order \notin DOMAIN work[t]
    <3>1. lines \notin DOMAIN work[t]
      BY <1>0, <1>4, <2>2 DEF DeliveredWork
    <3>2. Latest(t)[order] = db[order] /\ Latest(t)[lines] = db[lines]
      BY <1>6, <2>2, <3>1, ApplyRows DEF Latest
    <3> QED BY <1>0, <3>2, SameRowsSameOrder
  <2> QED BY <2>1, <2>2
<1>8. work'[t][order] = v1 /\ work'[t][lines] = v2
  <2>1. Write(t, Row(order, v1) ++ Row(lines, v2))
    BY <1>0 DEF SetCarrier
  <2>2. order # lines
    BY <1>0, Keys
  <2> QED BY <2>1, <2>2, WriteTwo
<1>9. v1.cust = Latest(t)[order].cust
  BY <1>0, <1>5 DEF OrderRow
<1>10. SameGoods(Latest(t)[lines], v2)
  <2>1. PICK old : old = Latest(t)[lines]
    OBVIOUS
  <2>a. old \in Seq(LineRow) /\ v2 = [i \in DOMAIN old |-> [old[i] EXCEPT !.delivered = TRUE]]
    BY <1>0, <1>5, <2>1
  <2>2. DOMAIN v2 = DOMAIN old /\ \A i \in DOMAIN old : v2[i] = [old[i] EXCEPT !.delivered = TRUE] /\ old[i] \in LineRow
    BY <2>a
  <2>3. \A i \in DOMAIN old : /\ v2[i].item = old[i].item /\ v2[i].supply = old[i].supply
                              /\ v2[i].qty = old[i].qty /\ v2[i].amount = old[i].amount
    BY <2>2 DEF LineRow
  <2> QED BY <2>1, <2>2, <2>3 DEF SameGoods
<1>11. SameOrderOf(Latest(t), work'[t], w, d, o)
  BY <1>0, <1>8, <1>9, <1>10 DEF SameOrderOf
<1> QED BY <1>7, <1>11, SameOrderTransitive

\* What t writes of an order that it has not inserted is for the same.
LEMMA OwnGoods ==
    ASSUME TypeInv, RowsOk(db), NEW t \in Terminals, WorkOk(t), Step(t),
           NEW w \in Warehouses, NEW d \in Districts, NEW o \in Nat, GoodsWork(t, w, d, o)
    PROVE  GoodsWork(t, w, d, o)'
<1>0. PICK order, lines : order = Order(w, d, o) /\ lines = OrderLines(w, d, o)
  OBVIOUS
<1>1. CASE ~Middle(t)
  <2>1. order \notin DOMAIN work'[t]
    BY <1>1, EndFacts DEF NoRows
  <2> QED BY <1>0, <2>1 DEF GoodsWork
<1>2. CASE Middle(t)
  <2>1. db' = db /\ tx' = tx /\ \A k : k \notin Writes(t) => Kept(t, k)
    BY <1>2, MiddleFacts
  <2>2. CASE Kept(t, order) /\ Kept(t, lines) /\ (Inserts(t, w, d, o) => Inserts(t, w, d, o)')
    <3>1. CASE order \in DOMAIN work'[t] /\ ~Inserts(t, w, d, o)'
      <4>1. order \in DOMAIN work[t] /\ ~Inserts(t, w, d, o)
        BY <2>2, <3>1 DEF Kept
      <4>2. lines \in DOMAIN work[t]
        BY <1>0, <4>1 DEF WorkOk, OrderWork, DeliveredWork
      <4>3. SameOrderOf(db, work[t], w, d, o)
        BY <1>0, <4>1 DEF GoodsWork
      <4>4. work'[t][order] = work[t][order] /\ work'[t][lines] = work[t][lines]
        BY <2>2, <4>1, <4>2 DEF Kept
      <4>5. SameOrderOf(db, work'[t], w, d, o)
        BY <1>0, <4>3, <4>4 DEF SameOrderOf
      <4> QED BY <2>1, <4>5 DEF GoodsWork, SameOrderOf
    <3> QED BY <1>0, <3>1 DEF GoodsWork
  <2>3. CASE Inserts(t, w, d, o)'
    BY <2>3 DEF GoodsWork
  <2>4. CASE SetCarrier(t) /\ w = tx[t].w /\ d = loc[t].d /\ o = loc[t].o
    <3>1. SameOrderOf(db, work'[t], w, d, o)
      BY <2>4, SetCarrierGoods
    <3> QED BY <2>1, <3>1 DEF GoodsWork, SameOrderOf
  <2>5. CASE InsertOrder(t)
    <3>1. pc[t] = "order" /\ pc'[t] = "line" /\ loc'[t].o = loc[t].o
      <4>1. goto(t, "line") /\ set(t, [loc[t] EXCEPT !.lines = sortedLines(tx[t].lines)])
        BY <2>5 DEF InsertOrder
      <4> QED BY <2>5, <4>1, GotoFacts DEF Fields, InsertOrder, Update, at
    <3>2. ~Inserts(t, w, d, o)
      BY <3>1 DEF Inserts
    <3>3. w = tx[t].w /\ d = tx[t].d /\ o = loc[t].o => Inserts(t, w, d, o)'
      BY <2>1, <3>1 DEF Inserts, Numbers, Ordering
    <3>4. ~(w = tx[t].w /\ d = tx[t].d /\ o = loc[t].o) => order \notin Writes(t) /\ lines \notin Writes(t)
      BY <1>0, <3>1, Keys, WritesAre
    <3> QED BY <2>1, <2>2, <2>3, <3>2, <3>3, <3>4
  <2>6. CASE OrderLine(t)
    <3>1. /\ pc[t] = "line" /\ pc'[t] \in {"line", "commit"} /\ loc'[t].o = loc[t].o
      <4>1. /\ goto(t, IF loc[t].n = Len(loc[t].lines) THEN "commit" ELSE "line")
            /\ set(t, [loc[t] EXCEPT !.n = loc[t].n + 1])
        BY <2>6 DEF OrderLine
      <4> QED BY <2>6, <4>1, GotoFacts DEF Fields, OrderLine, Update, at
    <3>2. tx[t].kind = "NewOrder"
      BY <3>1, LineOfOrder
    <3>3. w = tx[t].w /\ d = tx[t].d /\ o = loc[t].o => Inserts(t, w, d, o)'
      BY <2>1, <3>1, <3>2 DEF Inserts, Numbers, Ordering
    <3>4. ~(w = tx[t].w /\ d = tx[t].d /\ o = loc[t].o) => ~Inserts(t, w, d, o)
      BY DEF Inserts, Numbers
    <3>5. ~(w = tx[t].w /\ d = tx[t].d /\ o = loc[t].o) => order \notin Writes(t) /\ lines \notin Writes(t)
      <4>1. \A v, i : order # Stock(v, i) /\ lines # Stock(v, i)
        BY <1>0 DEF Stock, Order, OrderLines
      <4> QED BY <1>0, <3>1, <4>1, Keys, WritesAre
    <3> QED BY <2>1, <2>2, <2>3, <3>3, <3>4, <3>5
  <2>7. CASE pc[t] \notin {"order", "line"} /\ ~(pc[t] = "carrier" /\ w = tx[t].w /\ d = loc[t].d /\ o = loc[t].o)
    <3>1. ~Inserts(t, w, d, o)
      BY <1>2, <2>7, MiddleFacts DEF Inserts, Numbers, Ordering
    <3>2. order \notin Writes(t) /\ lines \notin Writes(t)
      <4>0. order[1] = "orders" /\ lines[1] = "order_line"
        BY <1>0, Keys
      <4>3. ASSUME pc[t] # "carrier", NEW k \in Writes(t) PROVE k[1] \notin {"orders", "order_line"}
        <5>1. /\ \A v, e, c : /\ Customer(v, e, c)[1] = "customer" /\ NewOrderRow(v, e, c)[1] = "new_orders"
                             /\ District(v, e)[1] = "district" /\ Warehouse(v)[1] = "warehouse"
                             /\ History(v)[1] = "history"
          BY Keys
        <5> QED BY <2>7, <4>3, <5>1, WritesAre
      <4>1. CASE pc[t] # "carrier"
        BY <4>0, <4>1, <4>3
      <4>2. CASE pc[t] = "carrier"
        BY <1>0, <2>7, <4>2, Keys, WritesAre
      <4> QED BY <4>1, <4>2
    <3> QED BY <2>1, <2>2, <3>1, <3>2
  <2>8. /\ pc[t] = "order" => InsertOrder(t)
        /\ pc[t] = "line" => OrderLine(t)
        /\ pc[t] = "carrier" => SetCarrier(t)
    BY <1>2 DEF Middle, OtherStatement, TakeOrderNumber, InsertOrder, OrderLine, FindOldest, DeleteNewOrder,
           SetCarrier, CreditCustomer, FindOrder, ReadLines, ReadLevel, CountStock, PayWarehouse, PayDistrict,
           PayCustomer, Update, Select, at
  <2> QED BY <2>4, <2>5, <2>6, <2>7, <2>8
<1> QED BY <1>1, <1>2

\* Nor does another terminal's step change it, or that of a snapshot.
LEMMA OtherGoods ==
    ASSUME TypeInv, RowsOk(db), NEW t \in Terminals, WorkOk(t), Step(t), NEW u \in Terminals, WorkOk(u), SnapOk(u),
           NEW w \in Warehouses, NEW d \in Districts, NEW o \in Nat, GoodsWork(t, w, d, o),
           GoodsWork(u, w, d, o), GoodsSnap(u, w, d, o)
    PROVE  /\ u # t => GoodsWork(u, w, d, o)'
           /\ GoodsSnap(u, w, d, o)'
<1>0. PICK next : next = nextOf(db, w, d) /\ next \in Nat
  BY NextIsNumber
<1>1. o \in 1..next - 1 => SameOrderOf(db, db', w, d, o)
  BY <1>0, StepGoods
<1>2. ASSUME u # t, Order(w, d, o) \in DOMAIN work'[u], ~Inserts(u, w, d, o)' PROVE SameOrderOf(db', work'[u], w, d, o)
  <2>1. pc'[u] = pc[u] /\ tx'[u] = tx[u] /\ loc'[u] = loc[u] /\ work'[u] = work[u]
    BY <1>2, StepIsApart DEF Apart
  <2>2. Order(w, d, o) \in DOMAIN work[u] /\ ~Inserts(u, w, d, o)
    BY <1>2, <2>1 DEF Inserts, Numbers, Ordering
  <2>3. o \in 1..next - 1
    BY <1>0, <2>2 DEF WorkOk, OrderWork, DeliveredWork
  <2>4. SameOrderOf(db, work[u], w, d, o)
    BY <2>2 DEF GoodsWork
  <2> QED BY <1>1, <2>1, <2>3, <2>4 DEF SameOrderOf, SameGoods
<1>3. ASSUME snap'[u] # NoRows, o \in 1..nextOf(snap'[u], w, d) - 1 PROVE SameOrderOf(snap'[u], db', w, d, o)
  <2>1. snap'[u] \in {snap[u], db}
    BY <1>3, SnapChanges
  <2>2. CASE snap'[u] = snap[u]
    <3>1. nextOf(snap[u], w, d) <= next /\ nextOf(snap[u], w, d) \in Nat
      BY <1>0, <1>3, <2>2, NextIsNumber DEF SnapOk
    <3>2. o \in 1..next - 1
      BY <1>0, <1>3, <2>2, <3>1
    <3>3. SameOrderOf(snap[u], db, w, d, o)
      BY <1>3, <2>2 DEF GoodsSnap
    <3> QED BY <1>1, <2>2, <3>2, <3>3, SameOrderTransitive
  <2>3. CASE snap'[u] = db
    BY <1>0, <1>1, <1>3, <2>3
  <2> QED BY <2>1, <2>2, <2>3
<1>4. u # t => GoodsWork(u, w, d, o)'
  BY <1>2 DEF GoodsWork, SameOrderOf, SameGoods
<1>5. GoodsSnap(u, w, d, o)'
  BY <1>3 DEF GoodsSnap, SameOrderOf, SameGoods, nextOf
<1> QED BY <1>4, <1>5

\* The invariant holds at first ...
LEMMA GoodsInit == Init => GoodsInv
<1> SUFFICES ASSUME Init PROVE GoodsInv
  OBVIOUS
<1>1. \A t \in Terminals : work[t] = NoRows /\ snap[t] = NoRows
  BY DEF Init, DatabaseInit
<1>2. \A k : k \notin DOMAIN NoRows
  BY DEF NoRows
<1> QED BY <1>1, <1>2 DEF GoodsInv, GoodsWork, GoodsSnap

\* ... and every step keeps it.
LEMMA GoodsNext == IInv /\ OrdersInv /\ GoodsInv /\ [Next]_vars => GoodsInv'
<1> SUFFICES ASSUME IInv, OrdersInv, GoodsInv, [Next]_vars,
                    NEW u \in Terminals, NEW w \in Warehouses, NEW d \in Districts, NEW o \in Nat
             PROVE  GoodsWork(u, w, d, o)' /\ GoodsSnap(u, w, d, o)'
  BY DEF GoodsInv
<1>0. TypeInv /\ RowsOk(db) /\ \A t \in Terminals : WorkOk(t) /\ SnapOk(t)
  BY DEF IInv, OrdersInv
<1>1. \A t \in Terminals : GoodsWork(t, w, d, o) /\ GoodsSnap(t, w, d, o)
  BY DEF GoodsInv
<1>2. ASSUME NEW t \in Terminals, Step(t) PROVE GoodsWork(u, w, d, o)' /\ GoodsSnap(u, w, d, o)'
  <2>1. u # t => GoodsWork(u, w, d, o)'
    BY <1>0, <1>1, <1>2, OtherGoods
  <2>2. GoodsSnap(u, w, d, o)'
    BY <1>0, <1>1, <1>2, OtherGoods
  <2>3. GoodsWork(t, w, d, o)'
    BY <1>0, <1>1, <1>2, OwnGoods
  <2> QED BY <2>1, <2>2, <2>3
<1>3. CASE UNCHANGED vars
  BY <1>1, <1>3 DEF vars, GoodsWork, GoodsSnap, SameOrderOf, SameGoods, nextOf, Inserts, Numbers, Ordering
<1> QED BY <1>2, <1>3 DEF Next, Step

-----------------------------------------------------------------------------
(* What the new orders took from the stocks.                               *)

\* The keys of the lines of the orders since the load.
NewKeys == {OrderLines(w, d, o) : w \in Warehouses, d \in Districts, o \in OrderNumbers \ 1..ORD_PER_DIST}

\* The lines <<key, n>>, of the orders under the given keys, that took from a
\* stock.
Taking(rows, keys, w, i) ==
    {l \in UNION {{k} \X DOMAIN rows[k] : k \in keys \cap DOMAIN rows} :
        rows[l[1]][l[2]].item = i /\ rows[l[1]][l[2]].supply = w}

\* How much they took.
Quantity(rows, lines) == SumOf([l \in lines |-> rows[l[1]][l[2]].qty])

\* The stock, as it was and as it is now, and the lines agree.
StockAgrees(was, now, quantity) == (was - now - quantity) % 91 = 0

\* The order that t is inserting, and the lines of it.
OwnKeys(t) == IF Ordering(t) /\ pc[t] # "order" THEN {OrderLines(tx[t].w, tx[t].d, loc[t].o)} ELSE {}
Own(t, w, i) == Taking(work[t], OwnKeys(t), w, i)

\* A stock that t has written is locked, and less by what t's lines took; from
\* any other they took nothing.
StockWork(t, w, i) ==
    LET key == Stock(w, i)
    IN  IF key \in DOMAIN work[t]
        THEN /\ X(key) \in held[t] /\ work[t][key] \in 1..100
             /\ StockAgrees(db[key], work[t][key], Quantity(work[t], Own(t, w, i)))
        ELSE Own(t, w, i) = {}

\* The committed stocks agree with the committed lines.
StockRow(rows, w, i) ==
    LET key   == Stock(w, i)
        lines == Taking(rows, NewKeys, w, i)
    IN  /\ key \in DOMAIN rows /\ rows[key] \in 1..100 /\ IsFiniteSet(lines)
        /\ StockAgrees(InitialStock, rows[key], Quantity(rows, lines))

\* The orders since the load have the numbers after those of the load.
LoadedFirst == \A w \in Warehouses, d \in Districts : nextOf(db, w, d) > ORD_PER_DIST

\* The inductive invariant: the stocks agree in the committed rows, and will in
\* the rows after the commit of any terminal.
StockInv ==
    /\ LoadedFirst
    /\ \A w \in Warehouses, i \in Items :
           StockRow(db, w, i) /\ \A t \in Terminals : StockWork(t, w, i)

\* Which lines took from a stock.
LEMMA TakingIs ==
    ASSUME NEW rows, NEW keys, NEW w, NEW i, NEW k, NEW n
    PROVE  <<k, n>> \in Taking(rows, keys, w, i) <=>
               /\ k \in keys /\ k \in DOMAIN rows /\ n \in DOMAIN rows[k]
               /\ rows[k][n].item = i /\ rows[k][n].supply = w
    BY DEF Taking

\* They are pairs of a key and a number.
LEMMA TakingPairs ==
    ASSUME NEW rows, NEW keys, NEW w, NEW i, NEW l \in Taking(rows, keys, w, i)
    PROVE  l = <<l[1], l[2]>> /\ l[1] \in keys /\ l[1] \in DOMAIN rows /\ l[2] \in DOMAIN rows[l[1]]
    BY DEF Taking

\* What they took are numbers.
LEMMA TakingNumbers ==
    ASSUME NEW rows, NEW keys, \A k \in keys \cap DOMAIN rows : rows[k] \in Seq(LineRow),
           NEW w, NEW i
    PROVE  \A l \in Taking(rows, keys, w, i) : rows[l[1]][l[2]].qty \in Int
<1> SUFFICES ASSUME NEW l \in Taking(rows, keys, w, i) PROVE rows[l[1]][l[2]].qty \in Int
  OBVIOUS
<1>1. PICK lines, n : lines = rows[l[1]] /\ n = l[2]
  OBVIOUS
<1>2. lines \in Seq(LineRow) /\ n \in DOMAIN lines
  BY <1>1, TakingPairs
<1>3. lines[n] \in LineRow
  BY <1>2
<1>4. lines[n].qty \in 1..10
  BY <1>3 DEF LineRow
<1> QED BY <1>1, <1>4

\* One order has finitely many lines.
LEMMA OneOrderTaking ==
    ASSUME NEW rows, NEW key, rows[key] \in Seq(LineRow), NEW w, NEW i
    PROVE  IsFiniteSet(Taking(rows, {key}, w, i))
<1>1. PICK n, all : n = Len(rows[key]) /\ all = {<<key, m>> : m \in 1..n}
  OBVIOUS
<1>2. IsFiniteSet(all)
  <2>1. IsFiniteSet(1..n)
    BY <1>1, FS_Interval
  <2>2. [m \in 1..n |-> <<key, m>>] \in Surjection(1..n, all)
    BY <1>1 DEF Surjection
  <2> QED BY <2>1, <2>2, FS_Surjection
<1>3. DOMAIN rows[key] = 1..n
  BY <1>1
<1>4. Taking(rows, {key}, w, i) \subseteq all
  BY <1>1, <1>3, TakingPairs
<1> QED BY <1>2, <1>4, FS_Subset

\* Nothing is the sum of no lines.
LEMMA QuantityOfNone == ASSUME NEW rows PROVE Quantity(rows, {}) = 0
<1>1. PICK f : f = [l \in {} |-> rows[l[1]][l[2]].qty]
  OBVIOUS
<1>2. DOMAIN f = {} /\ f \in [{} -> Int]
  BY <1>1
<1> QED BY <1>1, <1>2, SumOfNothing DEF Quantity

\* The same lines took the same.
LEMMA SameQuantity ==
    ASSUME NEW rows, NEW rows2, NEW lines, \A l \in lines : rows2[l[1]][l[2]].qty = rows[l[1]][l[2]].qty
    PROVE  Quantity(rows2, lines) = Quantity(rows, lines)
<1>1. [l \in lines |-> rows2[l[1]][l[2]].qty] = [l \in lines |-> rows[l[1]][l[2]].qty]
  OBVIOUS
<1> QED BY <1>1 DEF Quantity

\* Two sets of lines together took the sum of both.
LEMMA QuantityOfBoth ==
    ASSUME NEW rows, NEW D, IsFiniteSet(D), NEW E, IsFiniteSet(E), D \cap E = {},
           \A l \in D \cup E : rows[l[1]][l[2]].qty \in Int
    PROVE  /\ Quantity(rows, D) \in Int /\ Quantity(rows, E) \in Int
           /\ Quantity(rows, D \cup E) = Quantity(rows, D) + Quantity(rows, E)
<1>1. PICK h : h = [l \in D \cup E |-> rows[l[1]][l[2]].qty]
  OBVIOUS
<1>2. \A l \in D \cup E : h[l] \in Int
  BY <1>1
<1>4. /\ SumOf(On(h, D)) \in Int /\ SumOf(On(h, E)) \in Int
      /\ SumOf(On(h, D \cup E)) = SumOf(On(h, D)) + SumOf(On(h, E))
  BY <1>2, SumOfBoth
<1>5. /\ On(h, D) = [l \in D |-> rows[l[1]][l[2]].qty]
      /\ On(h, E) = [l \in E |-> rows[l[1]][l[2]].qty]
      /\ On(h, D \cup E) = [l \in D \cup E |-> rows[l[1]][l[2]].qty]
  BY <1>1 DEF On
<1> QED BY <1>4, <1>5 DEF Quantity

\* A commit that keeps what the orders are for, and adds those in mine.
LEMMA MoreTaking ==
    ASSUME NEW rows, NEW rows2, NEW own, NEW keys, NEW mine, mine \subseteq keys, mine \cap DOMAIN rows = {},
           mine \subseteq DOMAIN own, \A k \in keys : k \in DOMAIN rows2 <=> k \in DOMAIN rows \/ k \in mine,
           \A k \in keys \cap DOMAIN rows : SameGoods(rows[k], rows2[k]),
           \A k \in mine : rows2[k] = own[k],
           \A k \in keys \cap DOMAIN rows : rows[k] \in Seq(LineRow), \A k \in mine : own[k] \in Seq(LineRow),
           NEW w, NEW i, IsFiniteSet(Taking(rows, keys, w, i)), IsFiniteSet(Taking(own, mine, w, i))
    PROVE  /\ IsFiniteSet(Taking(rows2, keys, w, i))
           /\ Quantity(rows, Taking(rows, keys, w, i)) \in Int /\ Quantity(own, Taking(own, mine, w, i)) \in Int
           /\ Quantity(rows2, Taking(rows2, keys, w, i)) =
                  Quantity(rows, Taking(rows, keys, w, i)) + Quantity(own, Taking(own, mine, w, i))
<1>0. PICK A, B, C : /\ A = Taking(rows, keys, w, i) /\ B = Taking(own, mine, w, i)
                     /\ C = Taking(rows2, keys, w, i)
  OBVIOUS
<1>1. ASSUME NEW l \in A
      PROVE  l \in C /\ l \notin B /\ rows2[l[1]][l[2]].qty = rows[l[1]][l[2]].qty
  <2>1. PICK k, n : l = <<k, n>> /\ k = l[1] /\ n = l[2]
    BY <1>0, TakingPairs
  <2>2. /\ k \in keys /\ k \in DOMAIN rows /\ n \in DOMAIN rows[k]
        /\ rows[k][n].item = i /\ rows[k][n].supply = w
    BY <1>0, <2>1, TakingIs
  <2>3. /\ k \in DOMAIN rows2 /\ n \in DOMAIN rows2[k] /\ rows2[k][n].item = i /\ rows2[k][n].supply = w
        /\ rows2[k][n].qty = rows[k][n].qty
    BY <2>2 DEF SameGoods
  <2>4. k \notin mine
    BY <2>2
  <2> QED BY <1>0, <2>1, <2>2, <2>3, <2>4, TakingIs
<1>2. ASSUME NEW l \in B
      PROVE  l \in C /\ rows2[l[1]][l[2]].qty = own[l[1]][l[2]].qty
  <2>1. PICK k, n : l = <<k, n>> /\ k = l[1] /\ n = l[2]
    BY <1>0, TakingPairs
  <2>2. /\ k \in mine /\ k \in DOMAIN own /\ n \in DOMAIN own[k]
        /\ own[k][n].item = i /\ own[k][n].supply = w
    BY <1>0, <2>1, TakingIs
  <2>3. k \in keys /\ k \in DOMAIN rows2 /\ rows2[k] = own[k]
    BY <2>2
  <2> QED BY <1>0, <2>1, <2>2, <2>3, TakingIs
<1>3. ASSUME NEW l \in C PROVE l \in A \cup B
  <2>1. PICK k, n : l = <<k, n>> /\ k = l[1] /\ n = l[2]
    BY <1>0, TakingPairs
  <2>2. /\ k \in keys /\ k \in DOMAIN rows2 /\ n \in DOMAIN rows2[k]
        /\ rows2[k][n].item = i /\ rows2[k][n].supply = w
    BY <1>0, <2>1, TakingIs
  <2>3. CASE k \in mine
    <3>1. k \in DOMAIN own /\ rows2[k] = own[k]
      BY <2>3
    <3> QED BY <1>0, <2>1, <2>2, <2>3, <3>1, TakingIs
  <2>4. CASE k \notin mine
    <3>1. k \in DOMAIN rows /\ SameGoods(rows[k], rows2[k])
      BY <2>2, <2>4
    <3>2. n \in DOMAIN rows[k] /\ rows[k][n].item = i /\ rows[k][n].supply = w
      BY <2>2, <3>1 DEF SameGoods
    <3> QED BY <1>0, <2>1, <2>2, <3>1, <3>2, TakingIs
  <2> QED BY <2>3, <2>4
<1>4. C = A \cup B /\ A \cap B = {}
  BY <1>1, <1>2, <1>3
<1>5. IsFiniteSet(A) /\ IsFiniteSet(B) /\ IsFiniteSet(C)
  <2>1. IsFiniteSet(A) /\ IsFiniteSet(B)
    BY <1>0, Zenon
  <2>2. IsFiniteSet(A \cup B)
    BY <2>1, FS_Union, Zenon
  <2> QED BY <1>4, <2>1, <2>2
<1>6. (\A l \in A : rows[l[1]][l[2]].qty \in Int) /\ (\A l \in B : own[l[1]][l[2]].qty \in Int)
  <2>1. \A k \in mine \cap DOMAIN own : own[k] \in Seq(LineRow)
    OBVIOUS
  <2> QED BY <1>0, <2>1, TakingNumbers
<1>7. \A l \in A \cup B : rows2[l[1]][l[2]].qty \in Int
  BY <1>1, <1>2, <1>6
<1>8. /\ Quantity(rows2, A) \in Int /\ Quantity(rows2, B) \in Int
      /\ Quantity(rows2, C) = Quantity(rows2, A) + Quantity(rows2, B)
  BY <1>4, <1>5, <1>7, QuantityOfBoth
<1>9. Quantity(rows2, A) = Quantity(rows, A) /\ Quantity(rows2, B) = Quantity(own, B)
  BY <1>1, <1>2, SameQuantity
<1> QED BY <1>0, <1>5, <1>8, <1>9

-----------------------------------------------------------------------------
(* What New Order takes from the stocks.                                   *)

\* The next quantity of a stock is that of it less the line's, up to 91.
LEMMA StockTaken ==
    ASSUME NEW was \in Int, NEW now \in 1..100, NEW q \in Int, NEW qty \in 1..10, StockAgrees(was, now, q)
    PROVE  nextQuantity(now, qty) \in 1..100 /\ StockAgrees(was, nextQuantity(now, qty), q + qty)
<1>1. (was - now - q) % 91 = 0
  BY DEF StockAgrees
<1>2. CASE now > qty
  BY <1>1, <1>2 DEF nextQuantity, StockAgrees
<1>3. CASE ~(now > qty)
  <2>1. nextQuantity(now, qty) = now - qty + 91
    BY <1>3 DEF nextQuantity
  <2>2. was - (now - qty + 91) - (q + qty) = (was - now - q) - 91
    OBVIOUS
  <2>3. \A x \in Int : x % 91 = 0 => (x - 91) % 91 = 0
    OBVIOUS
  <2> QED BY <1>1, <1>3, <2>1, <2>2, <2>3 DEF StockAgrees
<1> QED BY <1>2, <1>3

\* A stock agrees with itself, and over two changes with the sum of both.
LEMMA StockAdds ==
    ASSUME NEW a \in Int, NEW b \in Int, NEW c \in Int, NEW q \in Int, NEW p \in Int
    PROVE  /\ StockAgrees(a, a, 0)
           /\ StockAgrees(a, b, q) /\ StockAgrees(b, c, p) => StockAgrees(a, c, q + p)
<1>1. StockAgrees(a, a, 0)
  BY DEF StockAgrees
<1>2. ASSUME StockAgrees(a, b, q), StockAgrees(b, c, p) PROVE StockAgrees(a, c, q + p)
  <2>1. (a - b - q) % 91 = 0 /\ (b - c - p) % 91 = 0
    BY <1>2 DEF StockAgrees
  <2>2. \A x, y \in Int : x % 91 = 0 /\ y % 91 = 0 => (x + y) % 91 = 0
    OBVIOUS
  <2>3. a - c - (q + p) = (a - b - q) + (b - c - p)
    OBVIOUS
  <2> QED BY <2>1, <2>2, <2>3 DEF StockAgrees
<1> QED BY <1>1, <1>2

\* What one line took.
Took(rows, l) == rows[l[1]][l[2]].qty

\* One line more.
LEMMA OneLineMore ==
    ASSUME NEW rows, NEW rows2, NEW lines, IsFiniteSet(lines), NEW l, l \notin lines,
           \A m \in lines : Took(rows, m) \in Int /\ Took(rows2, m) = Took(rows, m),
           Took(rows2, l) \in Int
    PROVE  /\ Quantity(rows, lines) \in Int
           /\ Quantity(rows2, lines \cup {l}) = Quantity(rows, lines) + Took(rows2, l)
<1> USE DEF Took
<1>1. PICK f, g : /\ f = [m \in lines \cup {l} |-> rows2[m[1]][m[2]].qty]
                  /\ g = [m \in lines |-> rows[m[1]][m[2]].qty]
  OBVIOUS
<1>2. /\ f \in [lines \cup {l} -> Int] /\ g \in [lines -> Int] /\ \A m \in lines : g[m] = f[m]
      /\ f[l] = rows2[l[1]][l[2]].qty
  BY <1>1
<1>3. SumOf(g) \in Int /\ SumOf(f) = SumOf(g) + f[l]
  <2>1. f \in [lines \cup {l} -> Int] /\ g \in [lines -> Int]
    BY <1>2
  <2>2. \A m \in lines : g[m] = f[m]
    BY <1>2
  <2>3. IsFiniteSet(lines) /\ l \notin lines
    OBVIOUS
  <2> QED BY ONLY <2>1, <2>2, <2>3, OneMore
<1> QED BY <1>1, <1>2, <1>3 DEF Quantity

\* Only the order that t inserts has lines in work.
LEMMA OwnLines ==
    ASSUME NEW t, NEW w, NEW i
    PROVE  /\ OwnKeys(t) = {} => Own(t, w, i) = {}
           /\ OwnKeys(t)' = {} => Own(t, w, i)' = {}
    BY DEF Own, Taking

\* The statement that inserts a line, and what it writes.
LEMMA OrderLineRows ==
    ASSUME TypeInv, RowsOk(db), NEW t \in Terminals, WorkOk(t), OrderLine(t)
    PROVE  \E key, n, line, stock, next :
               /\ OwnKeys(t) = {key} /\ OwnKeys(t)' = {key}
               /\ line.item \in Items /\ line.supply \in Warehouses /\ line.qty \in 1..10
               /\ next = [item |-> line.item, supply |-> line.supply, qty |-> line.qty,
                          amount |-> line.qty, delivered |-> FALSE]
               /\ next \in LineRow /\ stock = Stock(line.supply, line.item) /\ stock # key
               /\ key \in DOMAIN work[t] /\ work[t][key] \in Seq(LineRow) /\ n = Len(work[t][key]) + 1
               /\ key \in DOMAIN work'[t] /\ work'[t][key] = Append(work[t][key], next)
               /\ stock \in DOMAIN work'[t]
               /\ work'[t][stock] = nextQuantity(Latest(t)[stock], line.qty)
               /\ X(stock) \in held'[t]
               /\ \A k : k \notin {stock, key} => Kept(t, k)
<1>0. PICK w, d, o, n, line, stock, key, old, next, quantity :
          /\ w = tx[t].w /\ d = tx[t].d /\ o = loc[t].o /\ n = loc[t].n /\ line = loc[t].lines[n]
          /\ stock = Stock(line.supply, line.item) /\ key = OrderLines(w, d, o) /\ old = work[t][key]
          /\ next = [item |-> line.item, supply |-> line.supply, qty |-> line.qty,
                     amount |-> line.qty, delivered |-> FALSE]
          /\ quantity = nextQuantity(Latest(t)[stock], line.qty)
  OBVIOUS
<1>1. /\ pc[t] = "line" /\ UNCHANGED <<db, tx>> /\ held'[t] = held[t] \cup requests(t)
  BY UpdateFacts DEF OrderLine
<1>2. /\ n \in 1..Len(loc[t].lines) /\ line \in Line /\ Len(loc[t].lines) = Len(tx[t].lines)
      /\ Len(tx[t].lines) \in Nat /\ tx[t].kind = "NewOrder" /\ w \in Warehouses /\ d \in Districts
  BY <1>0, <1>1, LineOfOrder
<1>3. DistrictWork(t, w, d) /\ Numbers(t, w, d) /\ o \in Nat
  <2>1. DistrictWork(t, w, d) /\ Numbers(t, w, d)
    BY <1>0, <1>1, <1>2 DEF WorkOk, Numbers, Ordering
  <2> QED BY <1>0, <1>2, <2>1, NextIsNumber DEF DistrictWork
<1>4. InsertedWork(t, w, d, o)
  BY <1>0, <1>1, <1>2, <1>3 DEF WorkOk, OrderWork, Inserts
<1>5. key \in DOMAIN work[t] /\ old \in Seq(LineRow) /\ Len(old) = n - 1 /\ n = Len(old) + 1
  <2>1. key \in DOMAIN work[t] /\ old \in Seq(LineRow) /\ Len(old) = n - 1
    BY <1>0, <1>1, <1>4 DEF InsertedWork
  <2> QED BY <1>2, <2>1
<1>6. Latest(t)[key] = old
  <2>1. old # Nil
    BY <1>5, ValuesAreNotNil
  <2>2. key \in DOMAIN work[t] /\ work[t][key] # Nil
    BY <1>0, <1>5, <2>1
  <2>3. Apply(db, work[t])[key] = work[t][key]
    BY <2>2, ApplyRows
  <2> QED BY <1>0, <2>3 DEF Latest
<1>7. line.item \in Items /\ line.supply \in Warehouses /\ line.qty \in 1..10 /\ next \in LineRow
  <2>1. line.item \in Items
    BY <1>0 DEF OrderLine
  <2>2. line.supply \in Warehouses /\ line.qty \in 1..10
    BY <1>2 DEF Line
  <2>3. line.qty \in Nat
    BY <2>2
  <2>4. next = [item |-> line.item, supply |-> line.supply, qty |-> line.qty,
                amount |-> line.qty, delivered |-> FALSE]
    BY <1>0
  <2> QED BY <2>1, <2>2, <2>3, <2>4 DEF LineRow
<1>8. stock # key
  BY <1>0 DEF Stock, OrderLines
<1>9. /\ key \in DOMAIN work'[t] /\ work'[t][key] = Append(old, next)
      /\ stock \in DOMAIN work'[t] /\ work'[t][stock] = quantity
      /\ \A k : k \notin {stock, key} => Kept(t, k)
  <2>1. Write(t, Row(stock, quantity) ++ Row(key, Append(old, next)))
    BY <1>0, <1>6 DEF OrderLine
  <2>3. PICK rows : rows = Append(old, next)
    OBVIOUS
  <2>4. Write(t, Row(stock, quantity) ++ Row(key, rows))
    BY <2>1, <2>3
  <2> QED BY <1>8, <2>3, <2>4, WriteTwo
<1>10. pc'[t] \in {"line", "commit"} /\ loc'[t].o = o
  <2>1. /\ goto(t, IF n = Len(loc[t].lines) THEN "commit" ELSE "line")
        /\ set(t, [loc[t] EXCEPT !.n = n + 1])
    BY <1>0 DEF OrderLine
  <2> QED BY <1>0, <1>2, <2>1, GotoFacts DEF Fields
<1>11. OwnKeys(t) = {key} /\ OwnKeys(t)' = {key}
  <2>1. Ordering(t) /\ Ordering(t)' /\ pc'[t] # "order" /\ tx'[t] = tx[t]
    BY <1>1, <1>2, <1>10 DEF Ordering
  <2> QED BY <1>0, <1>1, <1>10, <2>1 DEF OwnKeys
<1>12. X(stock) \in held'[t]
  <2>1. requests(t) = {X(stock)}
    BY <1>0, <1>1 DEF requests, at
  <2> QED BY <1>1, <2>1
<1>13. /\ work[t][key] \in Seq(LineRow) /\ n = Len(work[t][key]) + 1
       /\ work'[t][key] = Append(work[t][key], next) /\ work'[t][stock] = nextQuantity(Latest(t)[stock], line.qty)
  BY <1>0, <1>5, <1>9
<1> WITNESS key, n, line, stock, next
<1> QED BY <1>0, <1>5, <1>7, <1>8, <1>9, <1>11, <1>12, <1>13

\* The INSERT of a line and the UPDATE of the stock go together.
LEMMA OrderLineStock ==
    ASSUME TypeInv, RowsOk(db), NEW t \in Terminals, WorkOk(t), OrderLine(t),
           NEW w \in Warehouses, NEW i \in Items, StockRow(db, w, i), StockWork(t, w, i)
    PROVE  StockWork(t, w, i)'
<1>0. PICK key, n, line, stock, next :
          /\ OwnKeys(t) = {key} /\ OwnKeys(t)' = {key}
          /\ line.item \in Items /\ line.supply \in Warehouses /\ line.qty \in 1..10
          /\ next = [item |-> line.item, supply |-> line.supply, qty |-> line.qty,
                     amount |-> line.qty, delivered |-> FALSE]
          /\ next \in LineRow /\ stock = Stock(line.supply, line.item) /\ stock # key
          /\ key \in DOMAIN work[t] /\ work[t][key] \in Seq(LineRow) /\ n = Len(work[t][key]) + 1
          /\ key \in DOMAIN work'[t] /\ work'[t][key] = Append(work[t][key], next)
          /\ stock \in DOMAIN work'[t]
          /\ work'[t][stock] = nextQuantity(Latest(t)[stock], line.qty)
          /\ X(stock) \in held'[t]
          /\ \A k : k \notin {stock, key} => Kept(t, k)
  BY OrderLineRows
<1>1. PICK old, new, own, own2, mine : /\ old = work[t][key] /\ new = work'[t][key] /\ mine = Stock(w, i)
                                       /\ own = Own(t, w, i) /\ own2 = Own(t, w, i)'
  OBVIOUS
<1>2. UNCHANGED db /\ held[t] \subseteq held'[t]
  BY MiddleFacts DEF Middle, OtherStatement
<1>3. /\ DOMAIN old = 1..n - 1 /\ DOMAIN new = 1..n /\ n \in Nat \ {0}
      /\ new[n] = next /\ \A m \in 1..n - 1 : new[m] = old[m]
  <2>1. old \in Seq(LineRow) /\ new = Append(old, next) /\ n = Len(old) + 1
    BY <1>0, <1>1
  <2> QED BY <2>1
<1>4. /\ own = Taking(work[t], {key}, w, i) /\ own2 = Taking(work'[t], {key}, w, i)
  BY <1>0, <1>1 DEF Own
<1>5. IsFiniteSet(own) /\ \A l \in own : work[t][l[1]][l[2]].qty \in Int
  <2>1. work[t][key] \in Seq(LineRow)
    BY <1>0
  <2>2. IsFiniteSet(own)
    BY <1>4, <2>1, OneOrderTaking
  <2>3. \A k \in {key} \cap DOMAIN work[t] : work[t][k] \in Seq(LineRow)
    BY <2>1
  <2> QED BY <1>4, <2>2, <2>3, TakingNumbers
<1>6. ASSUME NEW l \in own
      PROVE  l \in own2 /\ l # <<key, n>> /\ work'[t][l[1]][l[2]].qty = work[t][l[1]][l[2]].qty
  <2>1. PICK m : l = <<key, m>> /\ m = l[2] /\ l[1] = key
    BY <1>4, TakingPairs
  <2>2. m \in DOMAIN old /\ old[m].item = i /\ old[m].supply = w
    BY <1>1, <1>4, <2>1, TakingIs
  <2>3. m \in DOMAIN new /\ new[m] = old[m] /\ m # n
    BY <1>3, <2>2
  <2>4. l \in own2
    BY <1>0, <1>1, <1>4, <2>1, <2>2, <2>3, TakingIs
  <2> QED BY <1>1, <2>1, <2>3, <2>4
<1>7. ASSUME NEW l \in own2, l # <<key, n>> PROVE l \in own
  <2>1. PICK m : l = <<key, m>> /\ m = l[2] /\ l[1] = key
    BY <1>4, TakingPairs
  <2>2. m \in DOMAIN new /\ new[m].item = i /\ new[m].supply = w
    BY <1>1, <1>4, <2>1, TakingIs
  <2>3. m \in DOMAIN old /\ new[m] = old[m]
    BY <1>3, <1>7, <2>1, <2>2
  <2> QED BY <1>0, <1>1, <1>4, <2>1, <2>2, <2>3, TakingIs
<1>8. <<key, n>> \in own2 <=> line.item = i /\ line.supply = w
  <2>1. next.item = line.item /\ next.supply = line.supply
    BY <1>0
  <2>2. n \in DOMAIN new /\ new[n] = next
    BY <1>3
  <2> QED BY <1>0, <1>1, <1>4, <2>1, <2>2, TakingIs
<1>9. \A l \in own : work'[t][l[1]][l[2]].qty = work[t][l[1]][l[2]].qty
  BY <1>6
<1>10. CASE line.item = i /\ line.supply = w
  <2>0. PICK l : l = <<key, n>>
    OBVIOUS
  <2>1. l = <<key, n>> /\ l[1] = key /\ l[2] = n
    BY <2>0
  <2>2. own2 = own \cup {l} /\ l \notin own
    BY <1>6, <1>7, <1>8, <1>10, <2>1
  <2>3. work'[t][l[1]][l[2]].qty = line.qty /\ line.qty \in Int
    BY <1>0, <1>1, <1>3, <2>1
  <2>4. Quantity(work[t], own) \in Int /\ Quantity(work'[t], own2) = Quantity(work[t], own) + line.qty
    <3>0. PICK rows, rows2 : rows = work[t] /\ rows2 = work'[t]
      OBVIOUS
    <3>1. \A m \in own : Took(rows, m) \in Int /\ Took(rows2, m) = Took(rows, m)
      BY <1>5, <1>9, <3>0 DEF Took
    <3>2. IsFiniteSet(own) /\ l \notin own
      BY <1>5, <2>2
    <3>3. Took(rows2, l) = line.qty /\ Took(rows2, l) \in Int
      BY <2>3, <3>0 DEF Took
    <3>4. /\ Quantity(rows, own) \in Int
          /\ Quantity(rows2, own \cup {l}) = Quantity(rows, own) + Took(rows2, l)
      BY ONLY <3>1, <3>2, <3>3, OneLineMore
    <3> QED BY <2>2, <3>0, <3>3, <3>4
  <2>5. stock = mine /\ mine \in DOMAIN db /\ db[mine] \in 1..100
    BY <1>0, <1>1, <1>10 DEF StockRow
  <2>6. /\ Latest(t)[mine] \in 1..100
        /\ StockAgrees(db[mine], Latest(t)[mine], Quantity(work[t], own))
    <3>1. CASE mine \in DOMAIN work[t]
      <4>1. /\ work[t][mine] \in 1..100
            /\ StockAgrees(db[mine], work[t][mine], Quantity(work[t], own))
        BY <1>1, <3>1 DEF StockWork
      <4>2. work[t][mine] # Nil
        <5>1. work[t][mine] \in Int
          BY <4>1
        <5> QED BY <5>1, NilAssumption
      <4>3. Latest(t)[mine] = work[t][mine]
        BY <3>1, <4>2, ApplyRows DEF Latest
      <4> QED BY <4>1, <4>3
    <3>2. CASE mine \notin DOMAIN work[t]
      <4>1. own = {} /\ Quantity(work[t], own) = 0
        BY <1>1, <3>2, QuantityOfNone DEF StockWork
      <4>2. Latest(t)[mine] = db[mine]
        BY <2>5, <3>2, ApplyRows DEF Latest
      <4>3. db[mine] \in Int
        BY <2>5
      <4> QED BY <2>5, <4>1, <4>2, <4>3, StockAdds
    <3> QED BY <3>1, <3>2
  <2>7. /\ work'[t][mine] \in 1..100
        /\ StockAgrees(db[mine], work'[t][mine], Quantity(work'[t], own2))
    <3>0. line.qty \in 1..10 /\ work'[t][stock] = nextQuantity(Latest(t)[stock], line.qty)
      BY <1>0
    <3>1. db[mine] \in Int /\ line.qty \in 1..10 /\ work'[t][mine] = nextQuantity(Latest(t)[mine], line.qty)
      BY <2>5, <3>0
    <3> QED BY <2>4, <2>6, <3>1, StockTaken
  <2> QED BY <1>0, <1>1, <1>2, <2>5, <2>7 DEF StockWork
<1>11. CASE ~(line.item = i /\ line.supply = w)
  <2>1. own2 = own
    BY <1>6, <1>7, <1>8, <1>11
  <2>2. Quantity(work'[t], own2) = Quantity(work[t], own)
    BY <1>9, <2>1, SameQuantity
  <2>3. Kept(t, mine)
    <3>1. mine # stock
      BY <1>0, <1>1, <1>11 DEF Stock
    <3>2. mine # key
      <4>1. key \in OwnKeys(t)
        BY <1>0
      <4>2. key[1] = "order_line" /\ mine[1] = "stock"
        BY <1>1, <4>1, Keys DEF OwnKeys
      <4> QED BY <4>2
    <3> QED BY <1>0, <3>1, <3>2
  <2> QED BY <1>1, <1>2, <2>1, <2>2, <2>3 DEF StockWork, Kept
<1> QED BY <1>10, <1>11

\* The other statements take nothing.
LEMMA OtherStatementStock ==
    ASSUME TypeInv, RowsOk(db), NEW t \in Terminals, WorkOk(t), Step(t), Middle(t), ~OrderLine(t),
           NEW w \in Warehouses, NEW i \in Items, StockWork(t, w, i)
    PROVE  StockWork(t, w, i)'
<1>0. PICK mine : mine = Stock(w, i)
  OBVIOUS
<1>1. /\ UNCHANGED <<db, tx>> /\ held[t] \subseteq held'[t] /\ pc[t] \notin {"idle", "commit"}
      /\ \A k : k \notin Writes(t) => Kept(t, k)
  BY MiddleFacts
<1>2. pc[t] # "line" /\ (pc[t] = "order" => InsertOrder(t)) /\ (pc[t] = "district" => TakeOrderNumber(t))
  BY DEF Middle, OtherStatement, TakeOrderNumber, InsertOrder, OrderLine, FindOldest, DeleteNewOrder,
         SetCarrier, CreditCustomer, FindOrder, ReadLines, ReadLevel, CountStock, PayWarehouse, PayDistrict,
         PayCustomer, Update, Select, at
<1>3. Kept(t, mine)
  <2>1. ASSUME NEW k \in Writes(t) PROVE k[1] # "stock"
    <3>1. /\ \A v, e, c : /\ Customer(v, e, c)[1] = "customer" /\ NewOrderRow(v, e, c)[1] = "new_orders"
                          /\ District(v, e)[1] = "district" /\ Warehouse(v)[1] = "warehouse"
                          /\ History(v)[1] = "history" /\ Order(v, e, c)[1] = "orders"
                          /\ OrderLines(v, e, c)[1] = "order_line"
      BY Keys
    <3> QED BY <1>2, <2>1, <3>1, WritesAre
  <2>2. mine[1] = "stock"
    BY <1>0, Keys
  <2> QED BY <1>1, <2>1, <2>2
<1>4. OwnKeys(t) = {} /\ Own(t, w, i) = {}
  <2>1. OwnKeys(t) = {}
    BY <1>1, <1>2 DEF OwnKeys, Ordering
  <2> QED BY <2>1, OwnLines
<1>5. Own(t, w, i)' = {}
  <2>1. CASE InsertOrder(t)
    <3>1. PICK k1, v1, k2, v2, k3 :
              /\ Write(t, Row(k1, v1) ++ Row(k2, v2) ++ Row(k3, <<>>))
              /\ k1 = Order(tx[t].w, tx[t].d, loc[t].o) /\ k2 = NewOrderRow(tx[t].w, tx[t].d, loc[t].o)
              /\ k3 = OrderLines(tx[t].w, tx[t].d, loc[t].o)
      BY <2>1 DEF InsertOrder
    <3>2. k1 # k2 /\ k1 # k3 /\ k2 # k3
      BY <3>1, Keys
    <3>3. work'[t][k3] = <<>>
      BY <3>1, <3>2, WriteThree
    <3>4. pc'[t] = "line" /\ loc'[t].o = loc[t].o
      <4>1. goto(t, "line") /\ set(t, [loc[t] EXCEPT !.lines = sortedLines(tx[t].lines)])
        BY <2>1 DEF InsertOrder
      <4> QED BY <4>1, GotoFacts DEF Fields
    <3>5. OwnKeys(t)' = {k3}
      BY <1>1, <3>1, <3>4 DEF OwnKeys, Ordering
    <3>6. DOMAIN <<>> = {}
      OBVIOUS
    <3>7. Own(t, w, i)' = Taking(work'[t], {k3}, w, i)
      BY <3>5 DEF Own
    <3> QED BY <3>3, <3>6, <3>7 DEF Taking
  <2>2. CASE TakeOrderNumber(t)
    <3>1. pc'[t] = "order"
      BY <2>2, GotoFacts DEF TakeOrderNumber
    <3>2. OwnKeys(t)' = {}
      BY <3>1 DEF OwnKeys
    <3> QED BY <3>2, OwnLines
  <2>3. CASE ~InsertOrder(t) /\ ~TakeOrderNumber(t)
    <3>1. pc[t] \notin {"idle", "commit", "district", "order", "line"}
      BY <1>1, <1>2, <2>3
    <3>2. Doing(t) /\ Doing(t)' /\ tx'[t] = tx[t]
      BY <1>1, DoingStep DEF TypeInv
    <3>3. tx[t].kind # "NewOrder"
      BY <3>1, <3>2, Kinds DEF Doing, Labels
    <3>4. pc'[t] \notin {"order", "line"}
      BY <3>2, <3>3, Kinds DEF Doing
    <3>5. OwnKeys(t)' = {}
      BY <3>2, <3>3, <3>4 DEF OwnKeys, Ordering
    <3> QED BY <3>5, OwnLines
  <2> QED BY <2>1, <2>2, <2>3
<1>6. Quantity(work[t], Own(t, w, i)) = 0 /\ Quantity(work'[t], Own(t, w, i)') = 0
  BY <1>4, <1>5, QuantityOfNone
<1> QED BY <1>0, <1>1, <1>3, <1>4, <1>5, <1>6 DEF StockWork, Kept

\* The terminal of a step.
LEMMA OwnStock ==
    ASSUME TypeInv, RowsOk(db), NEW t \in Terminals, WorkOk(t), Step(t),
           NEW w \in Warehouses, NEW i \in Items, StockRow(db, w, i), StockWork(t, w, i)
    PROVE  StockWork(t, w, i)'
<1>1. CASE ~Middle(t)
  <2>1. work'[t] = NoRows /\ pc'[t] \in {"idle", "district", "warehouse", "status", "oldest", "level"}
    BY <1>1, EndFacts
  <2>2. OwnKeys(t)' = {}
    BY <2>1 DEF OwnKeys, Ordering
  <2>3. Stock(w, i) \notin DOMAIN work'[t]
    BY <2>1 DEF NoRows
  <2> QED BY <2>2, <2>3, OwnLines DEF StockWork
<1>2. CASE Middle(t)
  BY <1>2, OrderLineStock, OtherStatementStock
<1> QED BY <1>1, <1>2

-----------------------------------------------------------------------------
(* The stocks at first, at a commit, and while others run.                 *)

\* The rows of customers and stocks that Load leaves in the tables.
LEMMA LoadedStocks ==
    /\ \A w \in Warehouses, d \in Districts, c \in Customers :
           /\ Customer(w, d, c) \in DOMAIN LoadedRows
           /\ LoadedRows[Customer(w, d, c)] = [balance |-> -10, deliveries |-> 0]
    /\ \A w \in Warehouses, i \in Items :
           Stock(w, i) \in DOMAIN LoadedRows /\ LoadedRows[Stock(w, i)] = InitialStock
<1>1. \A w \in Warehouses, d \in Districts, c \in Customers :
          /\ Customer(w, d, c) \in DOMAIN LoadedTable("customer")
          /\ LoadedTable("customer")[Customer(w, d, c)] = [balance |-> -10, deliveries |-> 0]
  BY DEF LoadedTable
<1>2. \A w \in Warehouses, i \in Items :
          Stock(w, i) \in DOMAIN LoadedTable("stock") /\ LoadedTable("stock")[Stock(w, i)] = InitialStock
  BY DEF LoadedTable
<1>3. \A w, d, c : Customer(w, d, c)[1] = "customer" /\ Stock(w, d)[1] = "stock"
  BY Keys
<1> QED BY <1>1, <1>2, <1>3, LoadedTables

\* No order since the load has rows in what Load leaves.
LEMMA NothingTaken ==
    ASSUME NEW w, NEW i
    PROVE  Taking(LoadedRows, NewKeys, w, i) = {}
<1>1. ASSUME NEW k \in NewKeys PROVE k \notin DOMAIN LoadedRows
  <2>1. PICK v \in Warehouses, d \in Districts, o \in OrderNumbers \ 1..ORD_PER_DIST : k = OrderLines(v, d, o)
    BY DEF NewKeys
  <2>2. o \in Nat
    BY DEF OrderNumbers
  <2> QED BY <2>1, <2>2, LoadedOrders
<1> QED BY <1>1 DEF Taking

\* The invariant holds of the loaded tables.
LEMMA StockInit == Init => StockInv
<1> SUFFICES ASSUME Init PROVE StockInv
  OBVIOUS
<1>1. db = LoadedRows /\ \A t \in Terminals : pc[t] = "idle" /\ work[t] = NoRows
  BY DEF Init, DatabaseInit
<1>2. LoadedFirst
  <2>1. ORD_PER_DIST \in Nat
    BY TpccAssumption
  <2>2. \A w \in Warehouses, d \in Districts : nextOf(db, w, d) = ORD_PER_DIST + 1
    BY <1>1, LoadedOrders DEF nextOf
  <2> QED BY <2>1, <2>2 DEF LoadedFirst
<1>3. ASSUME NEW w \in Warehouses, NEW i \in Items PROVE StockRow(db, w, i)
  <2>1. Stock(w, i) \in DOMAIN db /\ db[Stock(w, i)] = 10 /\ InitialStock = 10
    BY <1>1, LoadedStocks DEF InitialStock
  <2>2. Taking(db, NewKeys, w, i) = {} /\ Quantity(db, Taking(db, NewKeys, w, i)) = 0
    BY <1>1, NothingTaken, QuantityOfNone
  <2>3. IsFiniteSet(Taking(db, NewKeys, w, i))
    BY <2>2, FS_EmptySet
  <2>4. StockAgrees(10, 10, 0) /\ 10 \in 1..100
    BY StockAdds
  <2> QED BY <2>1, <2>2, <2>3, <2>4 DEF StockRow
<1>4. ASSUME NEW t \in Terminals, NEW w \in Warehouses, NEW i \in Items PROVE StockWork(t, w, i)
  <2>1. OwnKeys(t) = {} /\ Stock(w, i) \notin DOMAIN work[t]
    BY <1>1 DEF OwnKeys, Ordering, NoRows
  <2> QED BY <2>1, OwnLines DEF StockWork
<1> QED BY <1>2, <1>3, <1>4 DEF StockInv

-----------------------------------------------------------------------------
(* The commit, and the other terminals.                                    *)

\* The order that t commits is new, and has its lines in work.
LEMMA OwnOrder ==
    ASSUME TypeInv, RowsOk(db), Budget, LoadedFirst, NEW t \in Terminals, WorkOk(t), NEW k \in OwnKeys(t)
    PROVE  /\ OwnKeys(t) = {k} /\ k \in NewKeys /\ k \notin DOMAIN db
           /\ k \in DOMAIN work[t] /\ work[t][k] \in Seq(LineRow)
<1>0. PICK w, d, o : w = tx[t].w /\ d = tx[t].d /\ o = loc[t].o
  OBVIOUS
<1>1. Ordering(t) /\ pc[t] # "order" /\ OwnKeys(t) = {OrderLines(w, d, o)} /\ k = OrderLines(w, d, o)
  BY <1>0 DEF OwnKeys
<1>2. pc[t] # "idle" /\ tx[t] \in NewOrderCall
  <2>1. pc[t] \in {"line", "commit"} /\ Doing(t)
    BY <1>1 DEF Ordering, TypeInv
  <2>2. CASE pc[t] = "line"
    BY <2>1, <2>2 DEF Doing
  <2>3. CASE pc[t] = "commit"
    <3>1. tx[t] \in Calls /\ tx[t].kind = "NewOrder"
      BY <1>1, <2>1, <2>3 DEF Doing, Ordering
    <3> QED BY <2>3, <3>1, TpccAssumption, Kinds
  <2> QED BY <2>1, <2>2, <2>3
<1>3. w \in Warehouses /\ d \in Districts
  BY <1>0, <1>2, Kinds
<1>4. Numbers(t, w, d) /\ DistrictWork(t, w, d)
  BY <1>0, <1>1, <1>3 DEF Numbers, WorkOk
<1>5. o = nextOf(db, w, d) /\ o \in OrderNumbers /\ o \in Nat /\ o > ORD_PER_DIST
  <2>1. o = nextOf(db, w, d)
    BY <1>0, <1>4 DEF DistrictWork
  <2>2. nextOf(db, w, d) \in OrderNumbers /\ nextOf(db, w, d) \in Nat
    BY <1>2, <1>3, NextInRange, NextIsNumber
  <2> QED BY <1>3, <2>1, <2>2 DEF LoadedFirst
<1>6. o \notin 1..nextOf(db, w, d) - 1 /\ o \notin 1..ORD_PER_DIST
  <2>1. ORD_PER_DIST \in Nat
    BY TpccAssumption
  <2> QED BY <1>5, <2>1
<1>7. NoOrder(db, w, d, o)
  BY <1>3, <1>5, <1>6, OrdersThereAre
<1>8. InsertedWork(t, w, d, o)
  <2>1. Inserts(t, w, d, o)
    BY <1>0, <1>1, <1>4 DEF Inserts
  <2> QED BY <1>3, <1>5, <2>1 DEF WorkOk, OrderWork
<1>9. k \in NewKeys
  BY <1>1, <1>3, <1>5, <1>6 DEF NewKeys
<1> QED BY <1>1, <1>7, <1>8, <1>9 DEF NoOrder, InsertedWork

\* A commit adds the lines that t has inserted, and no others; the lines that
\* there were are for the same.
LEMMA CommittedLines ==
    ASSUME TypeInv, RowsOk(db), Budget, LoadedFirst, NEW t \in Terminals, WorkOk(t), commit(t), pc[t] = "commit",
           \A w \in Warehouses, d \in Districts, o \in Nat : GoodsWork(t, w, d, o), NEW k \in NewKeys
    PROVE  /\ k \in DOMAIN db' <=> k \in DOMAIN db \/ k \in OwnKeys(t)
           /\ k \in DOMAIN db => db[k] \in Seq(LineRow) /\ SameGoods(db[k], db'[k])
           /\ k \in OwnKeys(t) => db'[k] = work[t][k]
<1>1. PICK w \in Warehouses, d \in Districts, o \in OrderNumbers \ 1..ORD_PER_DIST : k = OrderLines(w, d, o)
  BY DEF NewKeys
<1>2. o \in Nat
  BY DEF OrderNumbers
<1>3. k \in OwnKeys(t) <=> Inserts(t, w, d, o)
  BY <1>1, Keys DEF OwnKeys, Inserts, Numbers
<1>4. /\ o \in 1..nextOf(db, w, d) - 1 => OrderOk(db, w, d, o)
      /\ o \notin 1..nextOf(db, w, d) - 1 => NoOrder(db, w, d, o)
  BY <1>2, OrdersThereAre
<1>5. CASE Inserts(t, w, d, o)
  <2>1. OrderOk(db', w, d, o)
    BY <1>2, <1>5, CommittedOrder
  <2>2. k \in DOMAIN db'
    BY <1>1, <2>1 DEF OrderOk
  <2>3. k \notin DOMAIN db /\ k \in DOMAIN work[t] /\ work[t][k] \in Seq(LineRow)
    BY <1>3, <1>5, OwnOrder
  <2>4. db' = Apply(db, work[t]) /\ work[t][k] # Nil
    BY <2>3, ValuesAreNotNil DEF commit
  <2>5. db'[k] = work[t][k]
    BY <2>3, <2>4, ApplyRows
  <2> QED BY <1>3, <1>5, <2>2, <2>3, <2>5
<1>6. CASE ~Inserts(t, w, d, o)
  <2>1. /\ OrderOk(db, w, d, o) => OrderOk(db', w, d, o)
        /\ NoOrder(db, w, d, o) => NoOrder(db', w, d, o)
    BY <1>2, <1>6, CommittedOrder
  <2>2. CASE o \in 1..nextOf(db, w, d) - 1
    <3>1. OrderOk(db, w, d, o) /\ OrderOk(db', w, d, o)
      BY <1>4, <2>1, <2>2
    <3>2. k \in DOMAIN db /\ k \in DOMAIN db' /\ db[k] \in Seq(LineRow)
      BY <1>1, <3>1 DEF OrderOk
    <3>3. SameOrderOf(db, db', w, d, o)
      BY <1>2, <2>2, CommittedGoods
    <3> QED BY <1>1, <1>3, <1>6, <3>2, <3>3 DEF SameOrderOf
  <2>3. CASE o \notin 1..nextOf(db, w, d) - 1
    BY <1>1, <1>3, <1>4, <1>6, <2>1, <2>3 DEF NoOrder
  <2> QED BY <2>2, <2>3
<1> QED BY <1>5, <1>6

\* A commit takes from the stock what its lines take.
LEMMA CommitStock ==
    ASSUME TypeInv, RowsOk(db), Budget, LoadedFirst, NEW t \in Terminals, WorkOk(t), commit(t), pc[t] = "commit",
           \A w \in Warehouses, d \in Districts, o \in Nat : GoodsWork(t, w, d, o),
           NEW w \in Warehouses, NEW i \in Items, StockRow(db, w, i), StockWork(t, w, i)
    PROVE  StockRow(db', w, i)
<1>0. PICK rows, rows2, own, mine, key : /\ rows = db /\ rows2 = db' /\ own = work[t] /\ mine = OwnKeys(t)
                                         /\ key = Stock(w, i)
  OBVIOUS
<1>1. /\ mine \subseteq NewKeys /\ mine \cap DOMAIN rows = {} /\ mine \subseteq DOMAIN own
      /\ \A k \in mine : own[k] \in Seq(LineRow) /\ mine = {k}
  BY <1>0, OwnOrder
<1>2. /\ \A k \in NewKeys : k \in DOMAIN rows2 <=> k \in DOMAIN rows \/ k \in mine
      /\ \A k \in NewKeys \cap DOMAIN rows : SameGoods(rows[k], rows2[k])
      /\ \A k \in NewKeys \cap DOMAIN rows : rows[k] \in Seq(LineRow)
      /\ \A k \in mine : rows2[k] = own[k]
  BY <1>0, <1>1, CommittedLines
<1>3. IsFiniteSet(Taking(own, mine, w, i))
  <2>1. CASE mine = {}
    <3>1. Taking(own, mine, w, i) = {}
      BY <2>1 DEF Taking
    <3> QED BY <3>1, FS_EmptySet
  <2>2. CASE mine # {}
    <3>1. PICK k \in mine : mine = {k} /\ own[k] \in Seq(LineRow)
      BY <1>1, <2>2
    <3> QED BY <3>1, OneOrderTaking
  <2> QED BY <2>1, <2>2
<1>4. PICK A, B, C : /\ A = Taking(rows, NewKeys, w, i) /\ B = Taking(own, mine, w, i)
                     /\ C = Taking(rows2, NewKeys, w, i)
  OBVIOUS
<1>5. /\ key \in DOMAIN rows /\ rows[key] \in 1..100 /\ IsFiniteSet(A)
      /\ StockAgrees(InitialStock, rows[key], Quantity(rows, A))
  BY <1>0, <1>4 DEF StockRow
<1>6. /\ IsFiniteSet(C) /\ Quantity(rows, A) \in Int /\ Quantity(own, B) \in Int
      /\ Quantity(rows2, C) = Quantity(rows, A) + Quantity(own, B)
  <2>1. \A k \in mine : own[k] \in Seq(LineRow)
    BY <1>1
  <2>2. IsFiniteSet(Taking(rows, NewKeys, w, i))
    BY <1>4, <1>5
  <2>a. mine \subseteq NewKeys /\ mine \cap DOMAIN rows = {} /\ mine \subseteq DOMAIN own
    BY <1>1
  <2>b. \A k \in NewKeys : k \in DOMAIN rows2 <=> k \in DOMAIN rows \/ k \in mine
    BY <1>2
  <2>c. \A k \in NewKeys \cap DOMAIN rows : SameGoods(rows[k], rows2[k])
    BY <1>2
  <2>d. \A k \in NewKeys \cap DOMAIN rows : rows[k] \in Seq(LineRow)
    BY <1>2
  <2>e. \A k \in mine : rows2[k] = own[k]
    BY <1>2
  <2>3. /\ IsFiniteSet(Taking(rows2, NewKeys, w, i))
        /\ Quantity(rows, Taking(rows, NewKeys, w, i)) \in Int /\ Quantity(own, Taking(own, mine, w, i)) \in Int
        /\ Quantity(rows2, Taking(rows2, NewKeys, w, i)) =
               Quantity(rows, Taking(rows, NewKeys, w, i)) + Quantity(own, Taking(own, mine, w, i))
    BY ONLY <2>a, <2>b, <2>c, <2>d, <2>e, <1>3, <2>1, <2>2, MoreTaking
  <2> QED BY <1>4, <2>3
<1>7. rows2 = Apply(rows, own)
  BY <1>0 DEF commit
<1>8. CASE key \in DOMAIN own
  <2>1. own[key] \in 1..100 /\ StockAgrees(rows[key], own[key], Quantity(own, B))
    BY <1>0, <1>4, <1>8 DEF StockWork, Own
  <2>2. own[key] # Nil
    <3>1. own[key] \in Int
      BY <2>1
    <3> QED BY <3>1, NilAssumption
  <2>3. key \in DOMAIN rows2 /\ rows2[key] = own[key]
    BY <1>7, <1>8, <2>2, ApplyRows
  <2>4. rows[key] \in Int /\ own[key] \in Int /\ InitialStock \in Int
    BY <1>5, <2>1 DEF InitialStock
  <2>5. StockAgrees(InitialStock, rows2[key], Quantity(rows2, C))
    BY <1>5, <1>6, <2>1, <2>3, <2>4, StockAdds
  <2> QED BY <1>0, <1>4, <1>6, <2>1, <2>3, <2>5 DEF StockRow
<1>9. CASE key \notin DOMAIN own
  <2>1. B = {}
    BY <1>0, <1>4, <1>9 DEF StockWork, Own
  <2>2. Quantity(own, B) = 0
    BY <2>1, QuantityOfNone
  <2>3. key \in DOMAIN rows2 /\ rows2[key] = rows[key]
    BY <1>5, <1>7, <1>9, ApplyRows
  <2>4. Quantity(rows2, C) = Quantity(rows, A)
    BY <1>6, <2>2
  <2> QED BY <1>0, <1>4, <1>5, <1>6, <2>3, <2>4 DEF StockRow
<1> QED BY <1>8, <1>9

\* A stock that another terminal has written is locked by it.
LEMMA OtherStock ==
    ASSUME TypeInv, Exclusive, NEW t \in Terminals, Step(t), NEW u \in Terminals, u # t,
           NEW w \in Warehouses, NEW i \in Items, StockRow(db, w, i), StockWork(t, w, i), StockWork(u, w, i)
    PROVE  StockWork(u, w, i)'
<1>0. PICK key : key = Stock(w, i)
  OBVIOUS
<1>1. pc'[u] = pc[u] /\ tx'[u] = tx[u] /\ loc'[u] = loc[u] /\ work'[u] = work[u] /\ held'[u] = held[u]
  BY StepIsApart DEF Apart
<1>2. Own(u, w, i)' = Own(u, w, i)
  BY <1>1 DEF Own, OwnKeys, Ordering, Taking
<1>3. ASSUME key \in DOMAIN work[u] PROVE db'[key] = db[key]
  <2>1. X(key) \in held[u]
    BY <1>0, <1>3 DEF StockWork
  <2>2. key \notin DOMAIN work[t]
    <3>1. SUFFICES ASSUME key \in DOMAIN work[t] PROVE FALSE
      OBVIOUS
    <3>2. X(key) \in held[t]
      BY <1>0, <3>1 DEF StockWork
    <3>3. ~Conflict(X(key), X(key))
      BY <2>1, <3>2 DEF Exclusive
    <3> QED BY <3>3 DEF Conflict, X
  <2>3. key \in DOMAIN db
    BY <1>0 DEF StockRow
  <2>4. CASE commit(t)
    <3>1. db' = Apply(db, work[t])
      BY <2>4 DEF commit
    <3> QED BY <2>2, <2>3, <3>1, ApplyRows
  <2> QED BY <2>4, DbChanges
<1>4. Quantity(work[u], Own(u, w, i))' = Quantity(work[u], Own(u, w, i))
  BY <1>1, <1>2 DEF Quantity
<1> QED BY <1>0, <1>1, <1>2, <1>3, <1>4 DEF StockWork

\* No step breaks the invariant.
LEMMA StockNext == IInv /\ OrdersInv /\ Budget /\ GoodsInv /\ StockInv /\ [Next]_vars => StockInv'
<1> SUFFICES ASSUME IInv, OrdersInv, Budget, GoodsInv, StockInv, [Next]_vars PROVE StockInv'
  OBVIOUS
<1>0. /\ TypeInv /\ Exclusive /\ RowsOk(db) /\ LoadedFirst /\ \A t \in Terminals : WorkOk(t)
      /\ \A t \in Terminals, w \in Warehouses, d \in Districts, o \in Nat : GoodsWork(t, w, d, o)
      /\ \A w \in Warehouses, i \in Items : StockRow(db, w, i) /\ \A t \in Terminals : StockWork(t, w, i)
  BY DEF IInv, LockInv, OrdersInv, GoodsInv, StockInv
<1>1. ASSUME NEW t \in Terminals, Step(t) PROVE StockInv'
  <2>1. LoadedFirst'
    <3>1. ASSUME NEW w \in Warehouses, NEW d \in Districts PROVE nextOf(db', w, d) > ORD_PER_DIST
      <4>1. RowsOk(db') /\ nextOf(db', w, d) >= nextOf(db, w, d) /\ nextOf(db, w, d) > ORD_PER_DIST
        BY <1>0, <1>1, DbStep DEF DbGrows, LoadedFirst
      <4>2. nextOf(db', w, d) \in Nat /\ nextOf(db, w, d) \in Nat /\ ORD_PER_DIST \in Nat
        BY <1>0, <4>1, NextIsNumber, TpccAssumption
      <4> QED BY <4>1, <4>2
    <3> QED BY <3>1 DEF LoadedFirst, nextOf
  <2>2. ASSUME NEW w \in Warehouses, NEW i \in Items PROVE StockRow(db, w, i)'
    <3>1. StockRow(db', w, i)
      <4>1. CASE commit(t) /\ pc[t] = "commit"
        BY <1>0, <4>1, CommitStock
      <4>2. CASE db' = db
        BY <1>0, <4>2
      <4> QED BY <1>1, <4>1, <4>2, DbChanges
    <3> QED BY <3>1 DEF StockRow, Quantity, Taking
  <2>3. ASSUME NEW w \in Warehouses, NEW i \in Items, NEW u \in Terminals PROVE StockWork(u, w, i)'
    <3>1. CASE u = t
      BY <1>0, <1>1, <3>1, OwnStock
    <3>2. CASE u # t
      BY <1>0, <1>1, <3>2, OtherStock
    <3> QED BY <3>1, <3>2
  <2> QED BY <2>1, <2>2, <2>3 DEF StockInv
<1>2. CASE UNCHANGED vars
  <2>1. LoadedFirst'
    BY <1>0, <1>2 DEF vars, LoadedFirst, nextOf
  <2>2. ASSUME NEW w \in Warehouses, NEW i \in Items PROVE StockRow(db, w, i)'
    BY <1>0, <1>2 DEF vars, StockRow, Quantity, Taking
  <2>3. ASSUME NEW w \in Warehouses, NEW i \in Items, NEW u \in Terminals PROVE StockWork(u, w, i)'
    <3>1. /\ db' = db /\ pc'[u] = pc[u] /\ tx'[u] = tx[u] /\ loc'[u] = loc[u] /\ work'[u] = work[u]
          /\ held'[u] = held[u]
      BY <1>2 DEF vars
    <3>2. Own(u, w, i)' = Own(u, w, i)
      BY <3>1 DEF Own, OwnKeys, Ordering, Taking
    <3>3. Quantity(work[u], Own(u, w, i))' = Quantity(work[u], Own(u, w, i))
      BY <3>1, <3>2 DEF Quantity
    <3>4. StockWork(u, w, i)
      BY <1>0
    <3> QED BY <3>1, <3>2, <3>3, <3>4 DEF StockWork
  <2> QED BY <2>1, <2>2, <2>3 DEF StockInv
<1> QED BY <1>1, <1>2 DEF Next, Step

\* What is gone from a stock is what the lines of the new orders took from it,
\* up to the restocking by 91, and it is never empty, however New Orders of the
\* same items overlap and wherever they fail (NewOrder.neword: SELECT s_quantity
\* FOR UPDATE, then the UPDATE and the INSERT of the line, in one transaction
\* with the order).
THEOREM StocksAgree == Spec => []StockMatchesOrders
<1>1. ASSUME OrdersInv, StockInv PROVE StockMatchesOrders
  <2>1. ASSUME NEW w \in Warehouses, NEW i \in Items
        PROVE  LET taking == {l \in NewLines : db[l[1]][l[2]].item = i /\ db[l[1]][l[2]].supply = w}
               IN  /\ (InitialStock - db[Stock(w, i)] - SumOf([l \in taking |-> db[l[1]][l[2]].qty])) % 91 = 0
                   /\ db[Stock(w, i)] \in 1..100
    <3> DEFINE taking == {l \in NewLines : db[l[1]][l[2]].item = i /\ db[l[1]][l[2]].supply = w}
    <3>1. taking = Taking(db, NewKeys, w, i)
      BY DEF NewLines, Taking, NewKeys
    <3>2. StockRow(db, w, i)
      BY <1>1 DEF StockInv
    <3> HIDE DEF taking
    <3>3. /\ (InitialStock - db[Stock(w, i)] - Quantity(db, taking)) % 91 = 0
          /\ db[Stock(w, i)] \in 1..100
      BY <3>1, <3>2 DEF StockRow, StockAgrees
    <3> QED BY <3>3 DEF taking, Quantity
  <2> QED BY <2>1 DEF StockMatchesOrders
<1> QED BY <1>1, InvInit, InvNext, OrdersInit, OrdersNext, GoodsInit, GoodsNext, StockInit, StockNext, PTL DEF Spec

-----------------------------------------------------------------------------
(* What an order costs.                                                    *)

\* What an order costs is a number.
LEMMA TotalIsNumber ==
    ASSUME NEW lines \in Seq(LineRow)
    PROVE  Total(lines) \in Int
<1>1. DOMAIN lines = 1..Len(lines) /\ Len(lines) \in Nat
  OBVIOUS
<1>2. IsFiniteSet(DOMAIN lines)
  BY <1>1, FS_Interval
<1>3. \A n \in DOMAIN lines : lines[n].amount \in Int
  <2>1. \A n \in DOMAIN lines : lines[n] \in LineRow
    OBVIOUS
  <2> QED BY <2>1 DEF LineRow
<1>4. [n \in DOMAIN lines |-> lines[n].amount] \in [DOMAIN lines -> Int]
  BY <1>3
<1> QED BY <1>2, <1>4, SumIsNumber DEF Total

\* An order for the same goods costs the same.
LEMMA SameTotal ==
    ASSUME NEW old \in Seq(LineRow), NEW new \in Seq(LineRow), SameGoods(old, new)
    PROVE  Total(new) = Total(old)
<1>1. [n \in DOMAIN new |-> new[n].amount] = [n \in DOMAIN old |-> old[n].amount]
  <2>1. DOMAIN new = DOMAIN old /\ \A i \in DOMAIN old : new[i].amount = old[i].amount
    BY DEF SameGoods
  <2> QED BY <2>1
<1> QED BY <1>1 DEF Total

\* What the orders of a district with the given numbers cost.
Credits(rows, w, d, ids) == SumOf([o \in ids |-> Total(rows[OrderLines(w, d, o)])])

\* One order more.
LEMMA OneMoreCredit ==
    ASSUME NEW rows, NEW rows2, NEW w, NEW d, NEW ids, IsFiniteSet(ids), NEW p, p \notin ids,
           \A o \in ids : /\ Total(rows[OrderLines(w, d, o)]) \in Int
                          /\ Total(rows2[OrderLines(w, d, o)]) = Total(rows[OrderLines(w, d, o)]),
           Total(rows2[OrderLines(w, d, p)]) \in Int
    PROVE  /\ Credits(rows, w, d, ids) \in Int
           /\ Credits(rows2, w, d, ids \cup {p}) = Credits(rows, w, d, ids) + Total(rows2[OrderLines(w, d, p)])
<1>1. PICK f, g : /\ f = [o \in ids \cup {p} |-> Total(rows2[OrderLines(w, d, o)])]
                  /\ g = [o \in ids |-> Total(rows[OrderLines(w, d, o)])]
  OBVIOUS
<1>2. /\ f \in [ids \cup {p} -> Int] /\ g \in [ids -> Int] /\ f[p] = Total(rows2[OrderLines(w, d, p)])
  BY <1>1
<1>3. \A o \in ids : g[o] = f[o]
  BY <1>1
<1>4. SumOf(g) \in Int /\ SumOf(f) = SumOf(g) + f[p]
  BY ONLY <1>2, <1>3, IsFiniteSet(ids), p \notin ids, OneMore
<1> QED BY <1>1, <1>2, <1>4 DEF Credits

\* The same orders cost the same.
LEMMA SameCredits ==
    ASSUME NEW rows, NEW rows2, NEW w, NEW d, NEW ids,
           \A o \in ids : Total(rows2[OrderLines(w, d, o)]) = Total(rows[OrderLines(w, d, o)])
    PROVE  Credits(rows2, w, d, ids) = Credits(rows, w, d, ids)
<1>1. [o \in ids |-> Total(rows2[OrderLines(w, d, o)])] = [o \in ids |-> Total(rows[OrderLines(w, d, o)])]
  OBVIOUS
<1> QED BY <1>1 DEF Credits

\* They are numbers.
LEMMA CreditsAreNumbers ==
    ASSUME NEW rows, NEW w, NEW d, NEW ids, IsFiniteSet(ids), \A o \in ids : Total(rows[OrderLines(w, d, o)]) \in Int
    PROVE  Credits(rows, w, d, ids) \in Int
<1>1. [o \in ids |-> Total(rows[OrderLines(w, d, o)])] \in [ids -> Int]
  OBVIOUS
<1> QED BY <1>1, SumIsNumber DEF Credits

-----------------------------------------------------------------------------
(* The way of a Delivery.                                                  *)

\* t has delivered order o, which is not committed.
DeliveredIn(t, w, d, o) == Delivers(t) /\ Order(w, d, o) \in DOMAIN work[t]

\* A Delivery goes from district to district of its warehouse, and delivers one
\* order in each of them.
Route(t) ==
    \A w \in Warehouses, d \in Districts, o \in Nat : DeliveredIn(t, w, d, o) =>
        /\ w = tx[t].w
        /\ pc[t] \in {"oldest", "delete", "carrier"} => d < loc[t].d
        /\ pc[t] = "credit" => d <= loc[t].d /\ (d = loc[t].d => o = loc[t].o)
        /\ \A p \in Nat : DeliveredIn(t, w, d, p) => p = o

\* It delivers an order that it has read in its snapshot.
Reads(t) == pc[t] \in {"delete", "carrier"} =>
    snap[t] # NoRows /\ loc[t].o \in 1..nextOf(snap[t], tx[t].w, loc[t].d) - 1

\* It is about to credit the customer of the order that it has delivered last.
Debt(t) == pc[t] = "credit" =>
    /\ loc[t].o \in Nat /\ DeliveredIn(t, tx[t].w, loc[t].d, loc[t].o)
    /\ loc[t].c = db[Order(tx[t].w, loc[t].d, loc[t].o)].cust

\* The inductive invariant: all of them.
DeliveryInv == \A t \in Terminals : Route(t) /\ Reads(t) /\ Debt(t)

\* An order that a Delivery has delivered is a committed one.
LEMMA DeliveredOrder ==
    ASSUME TypeInv, RowsOk(db), NEW t \in Terminals, WorkOk(t),
           NEW w \in Warehouses, NEW d \in Districts, NEW o \in Nat, DeliveredIn(t, w, d, o)
    PROVE  /\ ~Inserts(t, w, d, o) /\ DeliveredWork(t, w, d, o)
           /\ o \in 1..nextOf(db, w, d) - 1 /\ OrderOk(db, w, d, o)
<1>1. ~Inserts(t, w, d, o)
  BY DEF DeliveredIn, Delivers, Inserts, Numbers, Ordering
<1>2. DeliveredWork(t, w, d, o)
  BY <1>1 DEF WorkOk, OrderWork
<1>3. o \in 1..nextOf(db, w, d) - 1
  BY <1>2 DEF DeliveredWork, DeliveredIn
<1> QED BY <1>1, <1>2, <1>3, OrdersThereAre

\* The statement of a Delivery that is next decides which it is.
LEMMA DeliveryLabels ==
    ASSUME NEW t, Middle(t)
    PROVE  /\ pc[t] = "oldest" => FindOldest(t)
           /\ pc[t] = "delete" => DeleteNewOrder(t)
           /\ pc[t] = "carrier" => SetCarrier(t)
           /\ pc[t] = "credit" => CreditCustomer(t)
           /\ pc[t] = "customer" => PayCustomer(t)
           /\ PayCustomer(t) => pc[t] = "customer"
    BY DEF Middle, OtherStatement, TakeOrderNumber, InsertOrder, OrderLine, FindOldest, DeleteNewOrder,
           SetCarrier, CreditCustomer, FindOrder, ReadLines, ReadLevel, CountStock, PayWarehouse, PayDistrict,
           PayCustomer, Update, Select, at

\* A transaction stays what it is.
LEMMA StaysDelivery ==
    ASSUME TypeInv, NEW t \in Terminals, Step(t), Middle(t)
    PROVE  /\ Delivers(t) <=> pc[t] \in {"oldest", "delete", "carrier", "credit"}
           /\ Delivers(t)' <=> Delivers(t)
           /\ Delivers(t) => tx[t] \in DeliveryCall /\ tx[t].w \in Warehouses /\ loc[t].d \in Districts
           /\ Delivers(t) => ~Pays(t)'
           /\ ~Pays(t) /\ (Pays(t)' => pc[t] = "customer")
<1>1. pc[t] \notin {"idle", "commit"} /\ tx' = tx
  BY MiddleFacts
<1>2. Doing(t) /\ Doing(t)'
  BY DoingStep DEF TypeInv
<1>3. Delivers(t) <=> pc[t] \in {"oldest", "delete", "carrier", "credit"}
  BY <1>1 DEF Delivers
<1>4. Delivers(t) => tx[t] \in DeliveryCall /\ tx[t].w \in Warehouses /\ loc[t].d \in Districts
  BY <1>2, <1>3, Kinds DEF Doing
<1>5. ~Delivers(t) => tx[t].kind # "Delivery"
  <2>1. ~Delivers(t) => \/ tx[t] \in NewOrderCall \/ tx[t] \in PaymentCall \/ tx[t] \in OrderStatCall
                        \/ tx[t] \in SlevCall
    BY <1>1, <1>2, <1>3 DEF Doing, Labels
  <2> QED BY <2>1, Kinds
<1>6. Delivers(t)' => tx[t].kind = "Delivery"
  BY <1>1, <1>2, Kinds DEF Doing, Delivers
<1>7. Delivers(t) => Delivers(t)'
  <2>1. Delivers(t) => FindOldest(t) \/ DeleteNewOrder(t) \/ SetCarrier(t) \/ CreditCustomer(t)
    BY <1>3, DeliveryLabels
  <2>2. CASE FindOldest(t) \/ CreditCustomer(t)
    <3>1. pc'[t] \in {"commit", "oldest", "delete"}
      BY <2>2, NextDistrictFacts, GotoFacts DEF FindOldest, CreditCustomer
    <3> QED BY <1>1, <1>4, <3>1, Kinds DEF Delivers
  <2>3. CASE DeleteNewOrder(t) \/ SetCarrier(t)
    <3>1. pc'[t] \in {"carrier", "credit"}
      BY <2>3, GotoFacts DEF DeleteNewOrder, SetCarrier
    <3> QED BY <3>1 DEF Delivers
  <2> QED BY <2>1, <2>2, <2>3
<1>8. Delivers(t) => ~Pays(t)'
  BY <1>1, <1>4, Kinds DEF Pays
<1>9. ~Pays(t) /\ (Pays(t)' => pc[t] = "customer")
  <2>1. ~Pays(t)
    BY <1>1 DEF Pays
  <2>2. ASSUME Pays(t)' PROVE pc[t] = "customer"
    <3>1. pc'[t] = "commit" /\ tx[t].kind = "Payment"
      BY <1>1, <2>2 DEF Pays
    <3>2. \A label : goto(t, label) => pc'[t] = label
      BY GotoFacts
    <3>3. ~PayWarehouse(t) /\ ~PayDistrict(t)
      BY <3>1, <3>2 DEF PayWarehouse, PayDistrict
    <3>4. pc[t] \in {"warehouse", "payment", "customer"}
      BY <1>1, <1>2, <3>1, Kinds DEF Doing, Labels
    <3> QED BY <3>3, <3>4 DEF Middle, OtherStatement, TakeOrderNumber, InsertOrder, OrderLine, FindOldest,
               DeleteNewOrder, SetCarrier, CreditCustomer, FindOrder, ReadLines, ReadLevel, CountStock,
               PayCustomer, Update, Select, at
  <2> QED BY <2>1, <2>2
<1> QED BY <1>3, <1>4, <1>5, <1>6, <1>7, <1>8, <1>9

\* A Delivery that has come to the next district.
LEMMA RouteAhead ==
    ASSUME NEW t \in Terminals, Route(t), tx'[t] = tx[t], Delivers(t),
           \A w, d, o : Kept(t, Order(w, d, o)), loc[t].d \in Districts, loc'[t].d = loc[t].d + 1,
           pc'[t] \in {"commit", "oldest"}, pc[t] \in {"oldest", "credit"}
    PROVE  Route(t)'
<1>0. Districts \subseteq Int /\ loc[t].d \in Int
  BY TpccAssumption DEF Districts
<1>1. ASSUME NEW w \in Warehouses, NEW d \in Districts, NEW o \in Nat, DeliveredIn(t, w, d, o)'
      PROVE  /\ w = tx[t].w /\ d < loc'[t].d
             /\ \A p \in Nat : DeliveredIn(t, w, d, p)' => p = o
  <2>1. \A p : DeliveredIn(t, w, d, p)' => DeliveredIn(t, w, d, p)
    BY DEF DeliveredIn, Kept
  <2>2. /\ w = tx[t].w /\ d <= loc[t].d /\ \A p \in Nat : DeliveredIn(t, w, d, p) => p = o
    BY <1>0, <1>1, <2>1 DEF Route
  <2>3. d < loc'[t].d
    BY <1>0, <2>2
  <2> QED BY <2>1, <2>2, <2>3
<1> QED BY <1>1 DEF Route

\* The SELECT of the oldest new order.
LEMMA FindOldestRoute ==
    ASSUME TypeInv, RowsOk(db), NEW t \in Terminals, WorkOk(t), SnapOk(t), FindOldest(t), Route(t)
    PROVE  Route(t)' /\ Reads(t)' /\ Debt(t)'
<1>0. PICK w, d, ids, rows : /\ w = tx[t].w /\ d = loc[t].d /\ ids = NewOrderIds(View(t), w, d)
                             /\ rows = IF snap[t] = NoRows THEN db ELSE snap[t]
  OBVIOUS
<1>1. /\ pc[t] = "oldest" /\ UNCHANGED <<db, work, tx>> /\ snap'[t] = rows
      /\ IF ids = {} THEN nextDistrict(t) ELSE set(t, [loc[t] EXCEPT !.o = Min(ids)]) /\ goto(t, "delete")
  BY <1>0 DEF FindOldest, Select, at, bookkeeping, TakeSnapshot, TypeInv, IsFcn
<1>2. w \in Warehouses /\ d \in Districts /\ tx[t].kind = "Delivery" /\ Delivers(t) /\ ~Ordering(t)
  BY <1>0, <1>1, Kinds DEF TypeInv, Doing, Delivers, Ordering
<1>3. \A v, e, o : Kept(t, Order(v, e, o))
  BY <1>1 DEF Kept
<1>4. CASE ids = {}
  <2>1. loc'[t].d = loc[t].d + 1 /\ pc'[t] \in {"commit", "oldest"}
    BY <1>1, <1>4, NextDistrictCounts
  <2>2. Route(t)'
    BY <1>0, <1>1, <1>2, <1>3, <2>1, RouteAhead
  <2> QED BY <2>1, <2>2 DEF Reads, Debt
<1>5. CASE ids # {}
  <2>1. pc'[t] = "delete" /\ loc'[t].o = Min(ids) /\ loc'[t].d = d
    BY <1>0, <1>1, <1>5, GotoFacts DEF Fields
  <2>2. Route(t)'
    <3>1. \A v, e, o : DeliveredIn(t, v, e, o)' => DeliveredIn(t, v, e, o)
      BY <1>1, <1>2 DEF DeliveredIn
    <3> QED BY <1>0, <1>1, <2>1, <3>1 DEF Route
  <2>3. Min(ids) \in ids
    <3>1. ORD_PER_DIST \in Nat /\ MaxTransactions \in Nat
      BY TpccAssumption
    <3>2. ids \subseteq Nat
      BY <1>0, <3>1 DEF NewOrderIds, OrderNumbers
    <3> QED BY <1>5, <3>2, MinOf
  <2>4. Min(ids) \in 1..nextOf(rows, w, d) - 1
    BY <1>0, <1>2, <2>3, NewOrdersSeen
  <2>5. rows # NoRows
    <3>1. District(w, d) \in DOMAIN db
      BY <1>2, NextIsNumber
    <3>2. District(w, d) \notin DOMAIN NoRows
      BY DEF NoRows
    <3> QED BY <1>0, <3>1, <3>2
  <2>6. Reads(t)'
    BY <1>0, <1>1, <2>1, <2>4, <2>5 DEF Reads, nextOf
  <2> QED BY <2>1, <2>2, <2>6 DEF Debt
<1> QED BY <1>4, <1>5

\* The DELETE.
LEMMA DeleteNewOrderRoute ==
    ASSUME TypeInv, NEW t \in Terminals, Step(t), DeleteNewOrder(t), Route(t), Reads(t)
    PROVE  Route(t)' /\ Reads(t)' /\ Debt(t)'
<1>1. /\ pc[t] = "delete" /\ pc'[t] = "carrier" /\ UNCHANGED <<db, tx, loc, snap>>
  BY UpdateFacts, GotoFacts DEF DeleteNewOrder, Update
<1>2. Middle(t)
  BY DEF Middle, OtherStatement
<1>3. \A v, e, o : DeliveredIn(t, v, e, o)' => DeliveredIn(t, v, e, o)
  <2>1. Delivers(t)
    BY <1>1 DEF Delivers
  <2>2. \A v, e, o : Order(v, e, o) \notin Writes(t)
    BY <1>1, Keys, WritesAre
  <2>3. \A v, e, o : Kept(t, Order(v, e, o))
    BY <1>2, <2>2, MiddleFacts
  <2> QED BY <2>1, <2>3 DEF DeliveredIn, Kept
<1>4. Route(t)'
  BY <1>1, <1>3 DEF Route
<1>5. Reads(t)'
  BY <1>1 DEF Reads, nextOf
<1> QED BY <1>1, <1>4, <1>5 DEF Debt

\* The customer whom the Delivery credits next is that of the committed order.
LEMMA CustomerRead ==
    ASSUME TypeInv, NEW t \in Terminals, Reads(t), Route(t), pc[t] = "carrier",
           SnapOk(t), \A w \in Warehouses, d \in Districts, o \in Nat : GoodsSnap(t, w, d, o),
           NEW w \in Warehouses, NEW d \in Districts, NEW o, w = tx[t].w, d = loc[t].d, o = loc[t].o
    PROVE  View(t)[Order(w, d, o)].cust = db[Order(w, d, o)].cust /\ o \in Nat
<1>1. snap[t] # NoRows /\ o \in 1..nextOf(snap[t], w, d) - 1 /\ RowsOk(snap[t])
  BY DEF Reads, SnapOk
<1>2. o \in Nat
  BY <1>1, NextIsNumber
<1>3. Order(w, d, o) \notin DOMAIN work[t]
  <2>1. Delivers(t)
    BY DEF Delivers
  <2>2. d \in Int
    BY TpccAssumption DEF Districts
  <2>3. ~(d < loc[t].d)
    BY <2>2
  <2> QED BY <1>2, <2>1, <2>3 DEF Route, DeliveredIn
<1>4. Order(w, d, o) \in DOMAIN snap[t]
  BY <1>1, <1>2, OrdersThereAre DEF OrderOk
<1>5. View(t)[Order(w, d, o)] = snap[t][Order(w, d, o)]
  BY <1>1, <1>3, <1>4, ApplyRows DEF View
<1>6. SameOrderOf(snap[t], db, w, d, o)
  BY <1>1, <1>2 DEF GoodsSnap
<1> QED BY <1>2, <1>5, <1>6 DEF SameOrderOf

\* The UPDATEs of the order and its lines.
LEMMA SetCarrierRoute ==
    ASSUME TypeInv, NEW t \in Terminals, Step(t), SetCarrier(t), Route(t), Reads(t),
           SnapOk(t), \A w \in Warehouses, d \in Districts, o \in Nat : GoodsSnap(t, w, d, o)
    PROVE  Route(t)' /\ Reads(t)' /\ Debt(t)'
<1>0. PICK w, d, o, order, lines, v1, v2 :
          /\ w = tx[t].w /\ d = loc[t].d /\ o = loc[t].o
          /\ order = Order(w, d, o) /\ lines = OrderLines(w, d, o)
          /\ v1 = [Latest(t)[order] EXCEPT !.carrier = TRUE]
          /\ v2 = [i \in DOMAIN Latest(t)[lines] |-> [Latest(t)[lines][i] EXCEPT !.delivered = TRUE]]
  OBVIOUS
<1>1. pc[t] = "carrier" /\ pc'[t] = "credit" /\ UNCHANGED <<db, tx>>
  BY UpdateFacts, GotoFacts DEF SetCarrier
<1>2. loc'[t].c = View(t)[order].cust /\ loc'[t].d = d /\ loc'[t].o = o
  BY <1>0, GotoFacts DEF SetCarrier, Fields
<1>3. w \in Warehouses /\ d \in Districts /\ d \in Int /\ Districts \subseteq Int
  BY <1>0, <1>1, Kinds, TpccAssumption DEF TypeInv, Doing, Districts
<1>4. View(t)[order].cust = db[order].cust /\ o \in Nat
  BY <1>0, <1>1, <1>3, CustomerRead
<1>5. /\ order \in DOMAIN work'[t] /\ \A k : k \notin {order, lines} => Kept(t, k)
  <2>1. Write(t, Row(order, v1) ++ Row(lines, v2))
    BY <1>0 DEF SetCarrier
  <2>2. order # lines
    BY <1>0, Keys
  <2> QED BY <2>1, <2>2, WriteTwo
<1>6. Delivers(t) /\ Delivers(t)'
  BY <1>1 DEF Delivers
<1>7. ASSUME NEW v \in Warehouses, NEW e \in Districts, NEW p \in Nat
      PROVE  DeliveredIn(t, v, e, p)' <=> DeliveredIn(t, v, e, p) \/ (v = w /\ e = d /\ p = o)
  <2>1. CASE v = w /\ e = d /\ p = o
    BY <1>0, <1>5, <1>6, <2>1 DEF DeliveredIn
  <2>2. CASE ~(v = w /\ e = d /\ p = o)
    <3>1. Order(v, e, p) \notin {order, lines}
      BY <1>0, <2>2, Keys
    <3> QED BY <1>5, <1>6, <2>2, <3>1 DEF DeliveredIn, Kept
  <2> QED BY <2>1, <2>2
<1>8. Route(t)'
  <2>1. ASSUME NEW v \in Warehouses, NEW e \in Districts, NEW p \in Nat, DeliveredIn(t, v, e, p)'
        PROVE  /\ v = tx[t].w /\ e <= d /\ (e = d => p = o)
               /\ \A q \in Nat : DeliveredIn(t, v, e, q)' => q = p
    <3>1. ASSUME DeliveredIn(t, v, e, p)
          PROVE  v = w /\ e < d /\ \A q \in Nat : DeliveredIn(t, v, e, q) => q = p
      BY <1>0, <1>1, <3>1 DEF Route
    <3>2. \A q \in Nat : DeliveredIn(t, v, e, q) => e < d
      BY <1>0, <1>1 DEF Route
    <3> QED BY <1>0, <1>3, <1>7, <2>1, <3>1, <3>2
  <2> QED BY <1>0, <1>1, <1>2, <2>1 DEF Route
<1>9. Debt(t)'
  <2>1. DeliveredIn(t, w, d, o)'
    BY <1>3, <1>4, <1>7
  <2> QED BY <1>0, <1>1, <1>2, <1>4, <2>1 DEF Debt, DeliveredIn, Delivers
<1> QED BY <1>1, <1>8, <1>9 DEF Reads

\* The UPDATE of the customer.
LEMMA CreditCustomerRoute ==
    ASSUME TypeInv, NEW t \in Terminals, Step(t), CreditCustomer(t), Route(t)
    PROVE  Route(t)' /\ Reads(t)' /\ Debt(t)'
<1>1. pc[t] = "credit" /\ UNCHANGED <<db, tx>> /\ nextDistrict(t)
  BY UpdateFacts DEF CreditCustomer
<1>2. loc[t].d \in Districts /\ Delivers(t) /\ Middle(t)
  BY <1>1 DEF TypeInv, Doing, Delivers, Middle, OtherStatement
<1>3. \A v, e, o : Kept(t, Order(v, e, o))
  <2>1. \A v, e, o : Order(v, e, o) \notin Writes(t)
    BY <1>1, Keys, WritesAre
  <2> QED BY <1>2, <2>1, MiddleFacts
<1>4. loc'[t].d = loc[t].d + 1 /\ pc'[t] \in {"commit", "oldest"}
  BY <1>1, NextDistrictCounts
<1>5. Route(t)'
  BY <1>1, <1>2, <1>3, <1>4, RouteAhead
<1> QED BY <1>4, <1>5 DEF Reads, Debt

\* Every step of a terminal keeps it on its way.
LEMMA OwnRoute ==
    ASSUME TypeInv, RowsOk(db), NEW t \in Terminals, WorkOk(t), SnapOk(t), Step(t), Route(t), Reads(t),
           \A w \in Warehouses, d \in Districts, o \in Nat : GoodsSnap(t, w, d, o)
    PROVE  Route(t)' /\ Reads(t)' /\ Debt(t)'
<1>1. CASE ~Middle(t)
  <2>1. work'[t] = NoRows /\ pc'[t] \notin {"delete", "carrier", "credit"}
    BY <1>1, EndFacts
  <2>2. \A w, d, o : ~DeliveredIn(t, w, d, o)'
    BY <2>1 DEF DeliveredIn, NoRows
  <2> QED BY <2>1, <2>2 DEF Route, Reads, Debt
<1>2. CASE Middle(t) /\ ~Delivers(t)
  <2>1. ~Delivers(t)'
    BY <1>2, StaysDelivery
  <2>2. \A w, d, o : ~DeliveredIn(t, w, d, o)'
    BY <2>1 DEF DeliveredIn
  <2>3. pc'[t] \notin {"delete", "carrier", "credit"}
    BY <2>1 DEF Delivers
  <2> QED BY <2>2, <2>3 DEF Route, Reads, Debt
<1>3. CASE Middle(t) /\ Delivers(t)
  <2>1. FindOldest(t) \/ DeleteNewOrder(t) \/ SetCarrier(t) \/ CreditCustomer(t)
    BY <1>3, StaysDelivery, DeliveryLabels
  <2> QED BY <2>1, FindOldestRoute, DeleteNewOrderRoute, SetCarrierRoute, CreditCustomerRoute
<1> QED BY <1>1, <1>2, <1>3

\* So do the steps of the others.
LEMMA OtherRoute ==
    ASSUME TypeInv, RowsOk(db), NEW t \in Terminals, WorkOk(t), Step(t), NEW u \in Terminals, u # t, WorkOk(u),
           \A w \in Warehouses, d \in Districts, o \in Nat : GoodsWork(t, w, d, o),
           Route(u), Reads(u), Debt(u)
    PROVE  Route(u)' /\ Reads(u)' /\ Debt(u)'
<1>1. pc'[u] = pc[u] /\ tx'[u] = tx[u] /\ loc'[u] = loc[u] /\ work'[u] = work[u] /\ snap'[u] = snap[u]
  BY StepIsApart DEF Apart
<1>2. \A w, d, o : DeliveredIn(u, w, d, o)' <=> DeliveredIn(u, w, d, o)
  BY <1>1 DEF DeliveredIn, Delivers
<1>3. Route(u)'
  BY <1>1, <1>2 DEF Route
<1>4. Reads(u)'
  BY <1>1 DEF Reads, nextOf
<1>5. ASSUME pc[u] = "credit"
      PROVE  db'[Order(tx[u].w, loc[u].d, loc[u].o)].cust = db[Order(tx[u].w, loc[u].d, loc[u].o)].cust
  <2>1. PICK w, d, o : w = tx[u].w /\ d = loc[u].d /\ o = loc[u].o
    OBVIOUS
  <2>2. w \in Warehouses /\ d \in Districts /\ o \in Nat /\ DeliveredIn(u, w, d, o)
    BY <1>5, <2>1, Kinds DEF TypeInv, Doing, Debt
  <2>3. o \in 1..nextOf(db, w, d) - 1
    BY <2>2, DeliveredOrder
  <2>4. SameOrderOf(db, db', w, d, o)
    BY <2>2, <2>3, StepGoods
  <2> QED BY <2>1, <2>4 DEF SameOrderOf
<1>6. Debt(u)'
  BY <1>1, <1>2, <1>5 DEF Debt, DeliveredIn, Delivers
<1> QED BY <1>3, <1>4, <1>6

\* The invariant holds at first ...
LEMMA DeliveryInit == Init => DeliveryInv
<1> SUFFICES ASSUME Init, NEW t \in Terminals PROVE Route(t) /\ Reads(t) /\ Debt(t)
  BY DEF DeliveryInv
<1>1. pc[t] = "idle"
  BY DEF Init
<1> QED BY <1>1 DEF Route, Reads, Debt, DeliveredIn, Delivers

\* ... and every step keeps it.
LEMMA DeliveryNext == IInv /\ OrdersInv /\ GoodsInv /\ DeliveryInv /\ [Next]_vars => DeliveryInv'
<1> SUFFICES ASSUME IInv, OrdersInv, GoodsInv, DeliveryInv, [Next]_vars, NEW u \in Terminals
             PROVE  Route(u)' /\ Reads(u)' /\ Debt(u)'
  BY DEF DeliveryInv
<1>0. /\ TypeInv /\ RowsOk(db) /\ \A t \in Terminals : WorkOk(t) /\ SnapOk(t) /\ Route(t) /\ Reads(t) /\ Debt(t)
      /\ \A t \in Terminals, w \in Warehouses, d \in Districts, o \in Nat :
             GoodsWork(t, w, d, o) /\ GoodsSnap(t, w, d, o)
  BY DEF IInv, OrdersInv, GoodsInv, DeliveryInv
<1>1. ASSUME NEW t \in Terminals, Step(t) PROVE Route(u)' /\ Reads(u)' /\ Debt(u)'
  <2>1. CASE u = t
    BY <1>0, <1>1, <2>1, OwnRoute
  <2>2. CASE u # t
    BY <1>0, <1>1, <2>2, OtherRoute
  <2> QED BY <2>1, <2>2
<1>2. CASE UNCHANGED vars
  BY <1>0, <1>2 DEF vars, Route, Reads, Debt, DeliveredIn, Delivers, nextOf
<1> QED BY <1>1, <1>2 DEF Next, Step

-----------------------------------------------------------------------------
(* The balances of the customers.                                          *)

\* t is about to credit the customer of order o.
Crediting(t, w, d, o) == pc[t] = "credit" /\ w = tx[t].w /\ d = loc[t].d /\ o = loc[t].o

\* t has credited order o to customer c, and not committed it.
Credited(t, w, d, c, o) ==
    DeliveredIn(t, w, d, o) /\ ~Crediting(t, w, d, o) /\ db[Order(w, d, o)].cust = c

\* t is a payment of customer c at its commit.
PaysFor(t, w, d, c) == Pays(t) /\ w = tx[t].c_w /\ d = tx[t].c_d /\ c = loc[t].c

\* The row of a customer after a payment, and after an order was credited.
AfterPayment(row, amount) == [row EXCEPT !.balance = @ + amount]
AfterCredit(row, sum)     == [row EXCEPT !.balance = @ + sum, !.deliveries = @ + 1]

\* What t has written of a customer is locked, and is the committed row after
\* the payment or the credit that t is committing.
CustomerWork(t, w, d, c) ==
    LET key == Customer(w, d, c)
    IN  /\ PaysFor(t, w, d, c) =>
               key \in DOMAIN work[t] /\ work[t][key] = AfterPayment(db[key], tx[t].amount)
        /\ \A o \in Nat : Credited(t, w, d, c, o) =>
               /\ key \in DOMAIN work[t]
               /\ work[t][key] = AfterCredit(db[key], Total(db[OrderLines(w, d, o)]))
        /\ key \in DOMAIN work[t] =>
               X(key) \in held[t] /\ (PaysFor(t, w, d, c) \/ \E o \in Nat : Credited(t, w, d, c, o))

\* The row of history names the customer whose balance was changed.
HistoryCust(t) == Pays(t) => work[t][History(loc[t].no)].cust = Customer(tx[t].c_w, tx[t].c_d, loc[t].c)

\* The orders of a customer that were delivered since the load, and his
\* payments.
DeliveredOf(rows, w, d, c) == {o \in OrdersOf(rows, w, d, c) : o > LastDelivered /\ rows[Order(w, d, o)].carrier}
PaymentsOf(rows, key)      == {k \in {History(n) : n \in Nat} \cap DOMAIN rows : rows[k].cust = key}

\* BalancesAgree of one customer.
BalanceRow(rows, w, d, c) ==
    LET key  == Customer(w, d, c)
        ids  == DeliveredOf(rows, w, d, c)
        paid == PaymentsOf(rows, key)
    IN  /\ key \in DOMAIN rows /\ rows[key] \in CustomerRow /\ IsFiniteSet(paid)
        /\ rows[key].deliveries >= Cardinality(ids)
        /\ rows[key].deliveries = Cardinality(ids) =>
               rows[key].balance = Credits(rows, w, d, ids) + Amounts(rows, paid) - 10

\* The inductive invariant: the balances agree in the committed rows, and will
\* in the rows after the commit of any terminal.
BalanceInv ==
    /\ \A w \in Warehouses, d \in Districts, c \in Customers :
           BalanceRow(db, w, d, c) /\ \A t \in Terminals : CustomerWork(t, w, d, c)
    /\ \A t \in Terminals : HistoryCust(t)

\* The keys of customers.
LEMMA CustomerKeys ==
    ASSUME NEW w, NEW d, NEW c, NEW w1, NEW d1, NEW c1
    PROVE  /\ Customer(w, d, c) = Customer(w1, d1, c1) <=> w = w1 /\ d = d1 /\ c = c1
           /\ Customer(w, d, c) # History(w1) /\ Customer(w, d, c)[1] = "customer"
    BY DEF Customer, History

\* A statement that neither pays nor credits.
LEMMA CustomerKept ==
    ASSUME NEW t, NEW w, NEW d, NEW c, CustomerWork(t, w, d, c), Kept(t, Customer(w, d, c)),
           held[t] \subseteq held'[t], db' = db, ~Pays(t), ~Pays(t)',
           \A o \in Nat : Credited(t, w, d, c, o)' <=> Credited(t, w, d, c, o)
    PROVE  CustomerWork(t, w, d, c)'
<1>1. ~PaysFor(t, w, d, c) /\ ~PaysFor(t, w, d, c)'
  BY DEF PaysFor
<1>2. ASSUME NEW o \in Nat, Credited(t, w, d, c, o)'
      PROVE  /\ Customer(w, d, c) \in DOMAIN work'[t]
             /\ work'[t][Customer(w, d, c)] = AfterCredit(db'[Customer(w, d, c)], Total(db'[OrderLines(w, d, o)]))
  BY <1>2 DEF CustomerWork, Kept
<1>3. ASSUME Customer(w, d, c) \in DOMAIN work'[t]
      PROVE  X(Customer(w, d, c)) \in held'[t] /\ \E o \in Nat : Credited(t, w, d, c, o)'
  BY <1>1, <1>3 DEF CustomerWork, Kept
<1> QED BY <1>1, <1>2, <1>3 DEF CustomerWork

\* A statement writes customers only where it pays or credits.
LEMMA NoCustomerWritten ==
    ASSUME NEW t, pc[t] \notin {"customer", "credit"}, NEW k, k[1] = "customer"
    PROVE  k \notin Writes(t)
<1>1. ASSUME NEW l \in Writes(t) PROVE l[1] # "customer"
  <2>1. \A v, e, c : /\ NewOrderRow(v, e, c)[1] = "new_orders" /\ Stock(v, e)[1] = "stock"
                     /\ District(v, e)[1] = "district" /\ Warehouse(v)[1] = "warehouse"
                     /\ Order(v, e, c)[1] = "orders" /\ OrderLines(v, e, c)[1] = "order_line"
    BY Keys
  <2> QED BY <1>1, <2>1, WritesAre
<1> QED BY <1>1

\* The UPDATE of the customer who pays, and the row of history.
LEMMA PayCustomerRows ==
    ASSUME TypeInv, NEW t \in Terminals, PayCustomer(t)
    PROVE  LET key == Customer(tx[t].c_w, tx[t].c_d, loc[t].c)
           IN  /\ key \in DOMAIN work'[t] /\ work'[t][key] = AfterPayment(Latest(t)[key], tx[t].amount)
               /\ work'[t][History(loc[t].no)].cust = key
               /\ \A k : k \notin {key, History(loc[t].no)} => Kept(t, k)
<1>0. PICK k1, v1, k2, v2 :
          /\ k1 = Customer(tx[t].c_w, tx[t].c_d, loc[t].c)
          /\ v1 = [Latest(t)[k1] EXCEPT !.balance = @ + tx[t].amount] /\ k2 = History(loc[t].no)
          /\ v2 = [w |-> tx[t].w, d |-> tx[t].d, cust |-> k1, amount |-> tx[t].amount]
  OBVIOUS
<1>1. Write(t, Row(k1, v1) ++ Row(k2, v2)) /\ k1 # k2
  BY <1>0, CustomerKeys DEF PayCustomer
<1>2. /\ k1 \in DOMAIN work'[t] /\ work'[t][k1] = v1
      /\ work'[t][k2] = v2
      /\ \A k : k \notin {k1, k2} => Kept(t, k)
  BY <1>1, WriteTwo
<1> QED BY <1>0, <1>2 DEF AfterPayment

\* The row of history names the customer who paid.
LEMMA PayCustomerHistory ==
    ASSUME TypeInv, NEW t \in Terminals, PayCustomer(t)
    PROVE  HistoryCust(t)'
<1>1. tx' = tx /\ loc' = loc
  BY UpdateFacts DEF PayCustomer
<1> QED BY <1>1, PayCustomerRows DEF HistoryCust

\* The UPDATE of the customer who pays.
LEMMA PayCustomerBalance ==
    ASSUME TypeInv, NEW t \in Terminals, Step(t), PayCustomer(t),
           NEW w, NEW d, NEW c, CustomerWork(t, w, d, c), Customer(w, d, c) \in DOMAIN db
    PROVE  CustomerWork(t, w, d, c)'
<1>0. PICK key, k1, k2 : /\ key = Customer(w, d, c) /\ k1 = Customer(tx[t].c_w, tx[t].c_d, loc[t].c)
                         /\ k2 = History(loc[t].no)
  OBVIOUS
<1>1. pc[t] = "customer" /\ UNCHANGED <<db, tx>> /\ held'[t] = held[t] \cup requests(t)
  BY UpdateFacts DEF PayCustomer
<1>2. loc'[t] = loc[t] /\ pc'[t] = "commit" /\ tx[t].kind = "Payment"
  BY <1>1, GotoFacts, Kinds DEF PayCustomer, TypeInv, Doing
<1>3. Pays(t)' /\ ~Pays(t) /\ ~Delivers(t) /\ ~Delivers(t)'
  BY <1>1, <1>2 DEF Pays, Delivers
<1>4. key \notin DOMAIN work[t]
  BY <1>0, <1>3 DEF CustomerWork, PaysFor, Credited, DeliveredIn
<1>5. /\ k1 \in DOMAIN work'[t] /\ work'[t][k1] = AfterPayment(Latest(t)[k1], tx[t].amount)
      /\ \A k : k \notin {k1, k2} => Kept(t, k)
  BY <1>0, PayCustomerRows
<1>6. \A o : ~Credited(t, w, d, c, o)'
  BY <1>3 DEF Credited, DeliveredIn
<1>7. PaysFor(t, w, d, c)' <=> key = k1
  BY <1>0, <1>1, <1>2, <1>3, CustomerKeys DEF PaysFor
<1>8. CASE key = k1
  <2>1. Latest(t)[key] = db[key]
    BY <1>0, <1>4, ApplyRows DEF Latest
  <2>2. work'[t][key] = AfterPayment(db'[key], tx'[t].amount)
    BY <1>0, <1>1, <1>5, <1>8, <2>1
  <2>3. X(key) \in held'[t]
    BY <1>0, <1>1, <1>8 DEF requests, at
  <2> QED BY <1>0, <1>5, <1>6, <1>7, <1>8, <2>2, <2>3 DEF CustomerWork
<1>9. CASE key # k1
  <2>1. key \notin DOMAIN work'[t]
    <3>1. key # k2
      BY <1>0, CustomerKeys
    <3> QED BY <1>4, <1>5, <1>9, <3>1 DEF Kept
  <2> QED BY <1>0, <1>6, <1>7, <1>9, <2>1 DEF CustomerWork
<1> QED BY <1>8, <1>9

\* The statements of a Delivery before the UPDATE of the customer: what they do
\* to an order is not a credit yet.
LEMMA DeliveryBalance ==
    ASSUME TypeInv, NEW t \in Terminals, Step(t), Route(t),
           FindOldest(t) \/ DeleteNewOrder(t) \/ SetCarrier(t),
           NEW w \in Warehouses, NEW d \in Districts, NEW c, CustomerWork(t, w, d, c)
    PROVE  CustomerWork(t, w, d, c)'
<1>1. Middle(t) /\ pc[t] \in {"oldest", "delete", "carrier"}
  BY DEF Middle, OtherStatement, FindOldest, DeleteNewOrder, SetCarrier, Update, Select, at
<1>2. /\ UNCHANGED <<db, tx>> /\ held[t] \subseteq held'[t]
      /\ \A k : k \notin Writes(t) => Kept(t, k)
  BY <1>1, MiddleFacts
<1>3. Delivers(t) /\ Delivers(t)' /\ ~Pays(t) /\ ~Pays(t)'
  BY <1>1, StaysDelivery
<1>4. Kept(t, Customer(w, d, c))
  <2>1. Customer(w, d, c) \notin Writes(t)
    BY <1>1, NoCustomerWritten, CustomerKeys
  <2> QED BY <1>2, <2>1
<1>5. ASSUME NEW o \in Nat PROVE Credited(t, w, d, c, o)' <=> Credited(t, w, d, c, o)
  <2>1. ~Crediting(t, w, d, o)
    BY <1>1 DEF Crediting
  <2>2. CASE SetCarrier(t) /\ w = tx[t].w /\ d = loc[t].d /\ o = loc[t].o
    <3>1. pc[t] = "carrier" /\ pc'[t] = "credit" /\ loc'[t].d = loc[t].d /\ loc'[t].o = loc[t].o
      BY <2>2, UpdateFacts, GotoFacts DEF SetCarrier, Fields
    <3>2. Crediting(t, w, d, o)'
      BY <1>2, <2>2, <3>1 DEF Crediting
    <3>3. ~DeliveredIn(t, w, d, o)
      <4>1. d \in Int /\ ~(d < loc[t].d)
        BY <2>2, TpccAssumption DEF Districts
      <4> QED BY <3>1, <4>1 DEF Route
    <3> QED BY <3>2, <3>3 DEF Credited
  <2>3. CASE ~(SetCarrier(t) /\ w = tx[t].w /\ d = loc[t].d /\ o = loc[t].o)
    <3>1. Order(w, d, o) \notin Writes(t)
      <4>1. pc[t] = "carrier" => SetCarrier(t)
        BY DEF FindOldest, DeleteNewOrder, SetCarrier, Update, Select, at
      <4> QED BY <1>1, <2>3, <4>1, Keys, WritesAre
    <3>2. DeliveredIn(t, w, d, o)' <=> DeliveredIn(t, w, d, o)
      BY <1>2, <1>3, <3>1 DEF DeliveredIn, Kept
    <3>3. ~Crediting(t, w, d, o)'
      <4>1. CASE SetCarrier(t)
        <5>1. loc'[t].d = loc[t].d /\ loc'[t].o = loc[t].o
          BY <4>1, GotoFacts DEF SetCarrier, Fields
        <5> QED BY <1>2, <2>3, <4>1, <5>1 DEF Crediting
      <4>2. CASE FindOldest(t) \/ DeleteNewOrder(t)
        <5>1. pc'[t] # "credit"
          BY <4>2, NextDistrictFacts, GotoFacts DEF FindOldest, DeleteNewOrder
        <5> QED BY <5>1 DEF Crediting
      <4> QED BY <4>1, <4>2
    <3> QED BY <1>2, <2>1, <3>2, <3>3 DEF Credited
  <2> QED BY <2>2, <2>3
<1> QED BY <1>2, <1>3, <1>4, <1>5, CustomerKept

\* The lines from which a Delivery takes the sum cost what those of the
\* committed order cost.
LEMMA SumToCredit ==
    ASSUME TypeInv, RowsOk(db), NEW t \in Terminals, WorkOk(t), NEW w \in Warehouses, NEW d \in Districts,
           NEW o \in Nat, DeliveredIn(t, w, d, o), GoodsWork(t, w, d, o)
    PROVE  Total(View(t)[OrderLines(w, d, o)]) = Total(db[OrderLines(w, d, o)])
<1>0. PICK lines : lines = OrderLines(w, d, o)
  OBVIOUS
<1>1. ~Inserts(t, w, d, o) /\ DeliveredWork(t, w, d, o) /\ OrderOk(db, w, d, o)
  BY DeliveredOrder
<1>2. lines \in DOMAIN work[t] /\ work[t][lines] \in Seq(LineRow)
  BY <1>0, <1>1 DEF DeliveredWork, DeliveredIn
<1>3. View(t)[lines] = work[t][lines]
  <2>1. work[t][lines] # Nil
    BY <1>2, ValuesAreNotNil
  <2> QED BY <1>2, <2>1, ApplyRows DEF View
<1>4. SameGoods(db[lines], work[t][lines])
  BY <1>0, <1>1 DEF GoodsWork, DeliveredIn, SameOrderOf
<1>5. db[lines] \in Seq(LineRow)
  BY <1>0, <1>1 DEF OrderOk
<1> QED BY <1>0, <1>2, <1>3, <1>4, <1>5, SameTotal

\* The UPDATE of the customer of an order that is delivered.
LEMMA CreditCustomerBalance ==
    ASSUME TypeInv, RowsOk(db), NEW t \in Terminals, WorkOk(t), Step(t), CreditCustomer(t), Route(t), Debt(t),
           \A w \in Warehouses, d \in Districts, o \in Nat : GoodsWork(t, w, d, o),
           NEW w \in Warehouses, NEW d \in Districts, NEW c, CustomerWork(t, w, d, c),
           Customer(w, d, c) \in DOMAIN db
    PROVE  CustomerWork(t, w, d, c)'
<1>0. PICK key, k1, v, e, p, sum :
          /\ key = Customer(w, d, c) /\ v = tx[t].w /\ e = loc[t].d /\ p = loc[t].o
          /\ k1 = Customer(v, e, loc[t].c) /\ sum = Total(View(t)[OrderLines(v, e, p)])
  OBVIOUS
<1>1. pc[t] = "credit" /\ UNCHANGED <<db, tx>> /\ held'[t] = held[t] \cup requests(t)
  BY UpdateFacts DEF CreditCustomer
<1>2. Middle(t)
  BY DEF Middle, OtherStatement
<1>3. Delivers(t) /\ Delivers(t)' /\ ~Pays(t) /\ ~Pays(t)' /\ v \in Warehouses /\ e \in Districts
  BY <1>0, <1>1, <1>2, StaysDelivery
<1>4. p \in Nat /\ DeliveredIn(t, v, e, p) /\ loc[t].c = db[Order(v, e, p)].cust
  BY <1>0, <1>1 DEF Debt
<1>5. /\ k1 \in DOMAIN work'[t] /\ work'[t][k1] = AfterCredit(Latest(t)[k1], sum)
      /\ \A k : k # k1 => Kept(t, k)
  <2>1. Write(t, Row(k1, AfterCredit(Latest(t)[k1], sum)))
    BY <1>0 DEF CreditCustomer, AfterCredit
  <2> QED BY <2>1, WriteOne
<1>6. pc'[t] # "credit"
  BY NextDistrictCounts DEF CreditCustomer
<1>7. \A o : DeliveredIn(t, w, d, o)' <=> DeliveredIn(t, w, d, o)
  <2>1. \A o : Order(w, d, o) # k1
    BY <1>0 DEF Order, Customer
  <2> QED BY <1>3, <1>5, <2>1 DEF DeliveredIn, Kept
<1>8. \A o : Credited(t, w, d, c, o)' <=> DeliveredIn(t, w, d, o) /\ db[Order(w, d, o)].cust = c
  BY <1>1, <1>6, <1>7 DEF Credited, Crediting
<1>9. CASE key # k1
  <2>1. ASSUME NEW o \in Nat PROVE Credited(t, w, d, c, o)' <=> Credited(t, w, d, c, o)
    <3>1. ASSUME Crediting(t, w, d, o) PROVE db[Order(w, d, o)].cust # c
      BY <1>0, <1>4, <1>9, <3>1, CustomerKeys DEF Crediting
    <3> QED BY <1>8, <3>1 DEF Credited
  <2>2. Kept(t, Customer(w, d, c)) /\ held[t] \subseteq held'[t]
    BY <1>0, <1>1, <1>5, <1>9
  <2> QED BY <1>1, <1>3, <2>1, <2>2, CustomerKept
<1>10. CASE key = k1
  <2>0. w = v /\ d = e /\ c = loc[t].c
    <3>1. Customer(w, d, c) = Customer(v, e, loc[t].c)
      BY <1>0, <1>10
    <3> QED BY <3>1 DEF Customer
  <2>1. ASSUME NEW o \in Nat, DeliveredIn(t, w, d, o) PROVE o = p
    BY <1>0, <1>1, <2>0, <2>1 DEF Route
  <2>2. \A o \in Nat : ~Credited(t, w, d, c, o)
    BY <1>0, <1>1, <2>0, <2>1 DEF Credited, Crediting
  <2>3. key \notin DOMAIN work[t]
    BY <1>0, <1>3, <2>2 DEF CustomerWork, PaysFor
  <2>4. Latest(t)[key] = db[key]
    BY <1>0, <2>3, ApplyRows DEF Latest
  <2>5. sum = Total(db[OrderLines(v, e, p)])
    BY <1>0, <1>3, <1>4, SumToCredit
  <2>6. X(key) \in held'[t]
    BY <1>0, <1>1, <1>10 DEF requests, at
  <2>7. Credited(t, w, d, c, p)' /\ \A o \in Nat : Credited(t, w, d, c, o)' => o = p
    BY <1>4, <1>8, <2>0, <2>1
  <2>8. key \in DOMAIN work'[t] /\ work'[t][key] = AfterCredit(db'[key], Total(db'[OrderLines(w, d, p)]))
    BY <1>1, <1>5, <1>10, <2>0, <2>4, <2>5
  <2>9. ~PaysFor(t, w, d, c)'
    BY <1>3 DEF PaysFor
  <2> QED BY <1>0, <1>4, <2>6, <2>7, <2>8, <2>9 DEF CustomerWork
<1> QED BY <1>9, <1>10

\* Every step of a terminal.
LEMMA OwnBalance ==
    ASSUME TypeInv, RowsOk(db), NEW t \in Terminals, WorkOk(t), Step(t), Route(t), Debt(t),
           \A w \in Warehouses, d \in Districts, o \in Nat : GoodsWork(t, w, d, o),
           NEW w \in Warehouses, NEW d \in Districts, NEW c, CustomerWork(t, w, d, c),
           Customer(w, d, c) \in DOMAIN db
    PROVE  CustomerWork(t, w, d, c)'
<1>1. CASE ~Middle(t)
  <2>1. work'[t] = NoRows /\ pc'[t] \in {"idle", "district", "warehouse", "status", "oldest", "level"}
    BY <1>1, EndFacts
  <2>2. \A k : k \notin DOMAIN work'[t]
    BY <2>1 DEF NoRows
  <2>3. ~Pays(t)' /\ \A o : ~Credited(t, w, d, c, o)'
    BY <2>1, <2>2 DEF Pays, Credited, DeliveredIn
  <2> QED BY <2>2, <2>3 DEF CustomerWork, PaysFor
<1>2. CASE PayCustomer(t)
  BY <1>2, PayCustomerBalance
<1>3. CASE Middle(t) /\ ~PayCustomer(t) /\ Delivers(t)
  <2>1. FindOldest(t) \/ DeleteNewOrder(t) \/ SetCarrier(t) \/ CreditCustomer(t)
    BY <1>3, StaysDelivery, DeliveryLabels
  <2> QED BY <2>1, DeliveryBalance, CreditCustomerBalance
<1>4. CASE Middle(t) /\ ~PayCustomer(t) /\ ~Delivers(t)
  <2>1. ~Pays(t) /\ ~Pays(t)' /\ ~Delivers(t)' /\ pc[t] \notin {"customer", "credit"}
    BY <1>4, StaysDelivery, DeliveryLabels
  <2>2. Kept(t, Customer(w, d, c))
    BY <1>4, <2>1, MiddleFacts, NoCustomerWritten, CustomerKeys
  <2>3. \A o : ~Credited(t, w, d, c, o) /\ ~Credited(t, w, d, c, o)'
    BY <1>4, <2>1 DEF Credited, DeliveredIn
  <2> QED BY <1>4, <2>1, <2>2, <2>3, MiddleFacts, CustomerKept
<1> QED BY <1>1, <1>2, <1>3, <1>4

\* A customer whom another terminal pays or credits is locked by it, and what an
\* order costs stays.
LEMMA OtherBalance ==
    ASSUME TypeInv, Exclusive, RowsOk(db), NEW t \in Terminals, WorkOk(t), Step(t),
           NEW u \in Terminals, u # t, WorkOk(u),
           \A w \in Warehouses, d \in Districts, o \in Nat : GoodsWork(t, w, d, o),
           NEW w \in Warehouses, NEW d \in Districts, NEW c, CustomerWork(t, w, d, c), CustomerWork(u, w, d, c),
           Customer(w, d, c) \in DOMAIN db
    PROVE  CustomerWork(u, w, d, c)'
<1>0. PICK key : key = Customer(w, d, c)
  OBVIOUS
<1>1. pc'[u] = pc[u] /\ tx'[u] = tx[u] /\ loc'[u] = loc[u] /\ work'[u] = work[u] /\ held'[u] = held[u]
  BY StepIsApart DEF Apart
<1>3. ASSUME key \in DOMAIN work[u] PROVE db'[key] = db[key]
  <2>1. X(key) \in held[u]
    BY <1>0, <1>3 DEF CustomerWork
  <2>2. key \notin DOMAIN work[t]
    <3>1. SUFFICES ASSUME key \in DOMAIN work[t] PROVE FALSE
      OBVIOUS
    <3>2. X(key) \in held[t]
      BY <1>0, <3>1 DEF CustomerWork
    <3>3. ~Conflict(X(key), X(key))
      BY <2>1, <3>2 DEF Exclusive
    <3> QED BY <3>3 DEF Conflict, X
  <2>3. CASE commit(t)
    <3>1. db' = Apply(db, work[t])
      BY <2>3 DEF commit
    <3> QED BY <1>0, <2>2, <3>1, ApplyRows
  <2> QED BY <2>3, DbChanges
<1>4. PaysFor(u, w, d, c)' <=> PaysFor(u, w, d, c)
  BY <1>1 DEF PaysFor, Pays
<1>5. ASSUME NEW o \in Nat, DeliveredIn(u, w, d, o)
      PROVE  /\ db'[Order(w, d, o)].cust = db[Order(w, d, o)].cust
             /\ Total(db'[OrderLines(w, d, o)]) = Total(db[OrderLines(w, d, o)])
  <2>1. o \in 1..nextOf(db, w, d) - 1 /\ OrderOk(db, w, d, o)
    BY <1>5, DeliveredOrder
  <2>2. SameOrderOf(db, db', w, d, o)
    BY <2>1, StepGoods
  <2>3. OrderOk(db', w, d, o)
    <3>1. RowsOk(db') /\ nextOf(db', w, d) >= nextOf(db, w, d)
      BY DbStep DEF DbGrows
    <3>2. nextOf(db', w, d) \in Nat /\ nextOf(db, w, d) \in Nat
      BY <3>1, NextIsNumber
    <3>3. o \in 1..nextOf(db', w, d) - 1
      BY <2>1, <3>1, <3>2
    <3> QED BY <3>1, <3>3, OrdersThereAre
  <2>4. db[OrderLines(w, d, o)] \in Seq(LineRow) /\ db'[OrderLines(w, d, o)] \in Seq(LineRow)
    BY <2>1, <2>3 DEF OrderOk
  <2> QED BY <2>2, <2>4, SameTotal DEF SameOrderOf
<1>6. ASSUME NEW o \in Nat
      PROVE  Credited(u, w, d, c, o)' <=> Credited(u, w, d, c, o)
  <2>1. DeliveredIn(u, w, d, o)' <=> DeliveredIn(u, w, d, o)
    BY <1>1 DEF DeliveredIn, Delivers
  <2>2. Crediting(u, w, d, o)' <=> Crediting(u, w, d, o)
    BY <1>1 DEF Crediting
  <2> QED BY <1>5, <2>1, <2>2 DEF Credited
<1>7. ASSUME PaysFor(u, w, d, c)'
      PROVE  key \in DOMAIN work'[u] /\ work'[u][key] = AfterPayment(db'[key], tx'[u].amount)
  BY <1>0, <1>1, <1>3, <1>4, <1>7 DEF CustomerWork
<1>8. ASSUME NEW o \in Nat, Credited(u, w, d, c, o)'
      PROVE  key \in DOMAIN work'[u] /\ work'[u][key] = AfterCredit(db'[key], Total(db'[OrderLines(w, d, o)]))
  <2>1. Credited(u, w, d, c, o)
    BY <1>6, <1>8
  <2>2. key \in DOMAIN work[u] /\ work[u][key] = AfterCredit(db[key], Total(db[OrderLines(w, d, o)]))
    BY <1>0, <2>1 DEF CustomerWork
  <2>3. Total(db'[OrderLines(w, d, o)]) = Total(db[OrderLines(w, d, o)])
    BY <1>5, <2>1 DEF Credited
  <2> QED BY <1>1, <1>3, <2>2, <2>3
<1>9. ASSUME key \in DOMAIN work'[u]
      PROVE  X(key) \in held'[u] /\ (PaysFor(u, w, d, c)' \/ \E o \in Nat : Credited(u, w, d, c, o)')
  BY <1>0, <1>1, <1>4, <1>6, <1>9 DEF CustomerWork
<1> QED BY <1>0, <1>7, <1>8, <1>9 DEF CustomerWork

-----------------------------------------------------------------------------
(* What a commit does to a balance.                                        *)

\* Before the commit of t: what is right of its rows and of the committed ones.
BalanceRight(t, w, d, c) ==
    /\ MoneyRight(t) /\ Route(t)
    /\ \A v \in Warehouses, e \in Districts, o \in Nat : GoodsWork(t, v, e, o)
    /\ BalanceRow(db, w, d, c) /\ CustomerWork(t, w, d, c) /\ HistoryCust(t)

\* An order of a customer is delivered after the commit if it was before, or if
\* t credits it.
LEMMA CommittedDelivery ==
    ASSUME NEW t \in Terminals, NEW w \in Warehouses, NEW d \in Districts, NEW c, BalanceRight(t, w, d, c),
           NEW o \in OrderNumbers
    PROVE  /\ o \in DeliveredOf(db', w, d, c) <=>
                  o \in DeliveredOf(db, w, d, c) \/ (Credited(t, w, d, c, o) /\ o > LastDelivered)
           /\ o \in DeliveredOf(db, w, d, c) \/ Credited(t, w, d, c, o) =>
                  /\ Total(db[OrderLines(w, d, o)]) \in Int
                  /\ Total(db'[OrderLines(w, d, o)]) = Total(db[OrderLines(w, d, o)])
<1>0. PICK order, rows, rows2 : order = Order(w, d, o) /\ rows = db /\ rows2 = db'
  OBVIOUS
<1>1. /\ TypeInv /\ RowsOk(db) /\ WorkOk(t) /\ commit(t) /\ pc[t] = "commit" /\ GoodsWork(t, w, d, o)
      /\ o \in Nat /\ rows2 = Apply(rows, work[t])
  BY <1>0 DEF BalanceRight, MoneyRight, OrderNumbers, commit
<1>2. \A r : o \in DeliveredOf(r, w, d, c) <=>
                 /\ Order(w, d, o) \in DOMAIN r /\ r[Order(w, d, o)].cust = c
                 /\ o > LastDelivered /\ r[Order(w, d, o)].carrier
  BY DEF DeliveredOf, OrdersOf, OrderIds
<1>3. Credited(t, w, d, c, o) <=> DeliveredIn(t, w, d, o) /\ rows[order].cust = c
  BY <1>0, <1>1 DEF Credited, Crediting
<1>4. DeliveredIn(t, w, d, o) => ~Inserts(t, w, d, o) /\ DeliveredWork(t, w, d, o) /\ o \in 1..nextOf(db, w, d) - 1
  BY <1>1, DeliveredOrder
<1>5. CASE Inserts(t, w, d, o)
  <2>1. OrderOk(rows2, w, d, o) /\ o = nextOf(db, w, d)
    BY <1>0, <1>1, <1>5, CommittedOrder
  <2>2. NoOrder(rows, w, d, o)
    BY <1>0, <1>1, <2>1, OrdersThereAre, NextIsNumber
  <2>3. InsertedWork(t, w, d, o)
    BY <1>1, <1>5 DEF WorkOk, OrderWork
  <2>4. order \in DOMAIN work[t] /\ work[t][order] # Nil /\ work[t][order].carrier = FALSE
    BY <1>0, <2>3, ValuesAreNotNil DEF InsertedWork
  <2>5. rows2[order].carrier = FALSE
    BY <1>1, <2>4, ApplyRows
  <2>6. order \notin DOMAIN rows
    BY <1>0, <2>2 DEF NoOrder
  <2> QED BY <1>0, <1>2, <1>3, <1>4, <1>5, <2>5, <2>6
<1>6. CASE ~Inserts(t, w, d, o) /\ o \in 1..nextOf(db, w, d) - 1
  <2>1. OrderOk(rows, w, d, o) /\ OrderOk(rows2, w, d, o)
    BY <1>0, <1>1, <1>6, OrdersThereAre, CommittedOrder
  <2>2. SameOrderOf(rows, rows2, w, d, o)
    BY <1>0, <1>1, <1>6, CommittedGoods
  <2>3. /\ Total(db[OrderLines(w, d, o)]) \in Int
        /\ Total(db'[OrderLines(w, d, o)]) = Total(db[OrderLines(w, d, o)])
    <3>1. rows[OrderLines(w, d, o)] \in Seq(LineRow) /\ rows2[OrderLines(w, d, o)] \in Seq(LineRow)
      BY <2>1 DEF OrderOk
    <3> QED BY <1>0, <2>2, <3>1, SameTotal, TotalIsNumber DEF SameOrderOf
  <2>4. DeliveredWork(t, w, d, o)
    BY <1>1, <1>6 DEF WorkOk, OrderWork
  <2>5. order \in DOMAIN rows /\ order \in DOMAIN rows2 /\ rows2[order].cust = rows[order].cust
    BY <1>0, <2>1, <2>2 DEF OrderOk, SameOrderOf
  <2>6. CASE order \in DOMAIN work[t]
    <3>1. DeliveredIn(t, w, d, o) /\ work[t][order] \in OrderRow /\ work[t][order].carrier = TRUE
      BY <1>0, <2>4, <2>6 DEF DeliveredWork, DeliveredIn
    <3>2. rows2[order] = work[t][order]
      <4>1. work[t][order] # Nil
        BY <3>1, ValuesAreNotNil
      <4> QED BY <1>1, <2>6, <4>1, ApplyRows
    <3> QED BY <1>0, <1>2, <1>3, <2>3, <2>5, <3>1, <3>2
  <2>7. CASE order \notin DOMAIN work[t]
    <3>1. rows2[order] = rows[order] /\ ~DeliveredIn(t, w, d, o)
      BY <1>0, <1>1, <2>5, <2>7, ApplyRows DEF DeliveredIn
    <3> QED BY <1>0, <1>2, <1>3, <2>3, <2>5, <3>1
  <2> QED BY <2>6, <2>7
<1>7. CASE ~Inserts(t, w, d, o) /\ o \notin 1..nextOf(db, w, d) - 1
  <2>1. NoOrder(rows, w, d, o) /\ NoOrder(rows2, w, d, o)
    BY <1>0, <1>1, <1>7, OrdersThereAre, CommittedOrder
  <2>2. order \notin DOMAIN rows /\ order \notin DOMAIN rows2
    BY <1>0, <2>1 DEF NoOrder
  <2> QED BY <1>0, <1>2, <1>3, <1>4, <1>7, <2>2
<1> QED BY <1>5, <1>6, <1>7

\* His payments after the commit are those before it, and that of t.
LEMMA CommittedPayments ==
    ASSUME NEW t \in Terminals, NEW w, NEW d, NEW c, BalanceRight(t, w, d, c),
           NEW key, key = Customer(w, d, c)
    PROVE  /\ PaysFor(t, w, d, c) => PaymentsOf(db', key) = PaymentsOf(db, key) \cup {History(loc[t].no)}
           /\ ~PaysFor(t, w, d, c) => PaymentsOf(db', key) = PaymentsOf(db, key)
           /\ History(loc[t].no) \notin PaymentsOf(db, key)
           /\ \A k \in PaymentsOf(db, key) : db'[k] = db[k] /\ db[k].amount \in Int
           /\ PaysFor(t, w, d, c) => db'[History(loc[t].no)].amount = tx[t].amount
<1>1. MoneyRight(t) /\ MoneyRows /\ pc[t] = "commit"
  BY DEF BalanceRight, MoneyRight
<1>2. loc[t].no \in Nat /\ History(loc[t].no) \notin DOMAIN db
  BY <1>1, TpccAssumption DEF MoneyRight, CallNumbers, TypeInv
<1>3. \A n \in Nat :
          /\ Pays(t) /\ n = loc[t].no =>
                 History(n) \in DOMAIN db' /\ db'[History(n)] = work[t][History(n)]
          /\ ~(Pays(t) /\ n = loc[t].no) =>
                 /\ History(n) \in DOMAIN db' <=> History(n) \in DOMAIN db
                 /\ History(n) \in DOMAIN db => db'[History(n)] = db[History(n)]
  BY <1>1, CommittedMoney
<1>4. Pays(t) => /\ work[t][History(loc[t].no)].cust = Customer(tx[t].c_w, tx[t].c_d, loc[t].c)
                 /\ work[t][History(loc[t].no)].amount = tx[t].amount
  BY <1>1 DEF BalanceRight, HistoryCust, MoneyRight, MoneyWork, HistoryWork
<1>5. PaysFor(t, w, d, c) <=> Pays(t) /\ Customer(tx[t].c_w, tx[t].c_d, loc[t].c) = key
  BY CustomerKeys DEF PaysFor
<1>6. \A rows : \A k : k \in PaymentsOf(rows, key) <=>
          (\E n \in Nat : k = History(n)) /\ k \in DOMAIN rows /\ rows[k].cust = key
  BY DEF PaymentsOf
<1>7. ASSUME NEW n \in Nat
      PROVE  History(n) \in PaymentsOf(db', key) <=>
                 History(n) \in PaymentsOf(db, key) \/ (PaysFor(t, w, d, c) /\ n = loc[t].no)
  <2>1. CASE Pays(t) /\ n = loc[t].no
    BY <1>2, <1>3, <1>4, <1>5, <1>6, <2>1
  <2>2. CASE ~(Pays(t) /\ n = loc[t].no)
    BY <1>3, <1>5, <1>6, <2>2
  <2> QED BY <2>1, <2>2
<1>8. /\ PaysFor(t, w, d, c) => PaymentsOf(db', key) = PaymentsOf(db, key) \cup {History(loc[t].no)}
      /\ ~PaysFor(t, w, d, c) => PaymentsOf(db', key) = PaymentsOf(db, key)
  <2>1. \A n \in Nat : History(n) = History(loc[t].no) <=> n = loc[t].no
    BY MoneyKeys
  <2>2. \A k : k \in PaymentsOf(db', key) \/ k \in PaymentsOf(db, key) => \E n \in Nat : k = History(n)
    BY <1>6
  <2>3. ASSUME NEW k
        PROVE  k \in PaymentsOf(db', key) <=>
                   k \in PaymentsOf(db, key) \/ (PaysFor(t, w, d, c) /\ k = History(loc[t].no))
    BY <1>2, <1>7, <2>1, <2>2
  <2> QED BY <2>3
<1>9. ASSUME NEW k \in PaymentsOf(db, key) PROVE db'[k] = db[k] /\ db[k].amount \in Int
  <2>1. PICK n \in Nat : k = History(n) /\ k \in DOMAIN db
    BY <1>6
  <2>2. n # loc[t].no
    BY <1>2, <2>1
  <2>3. db[k] \in HistoryRow
    BY <1>1, <2>1 DEF MoneyRows
  <2> QED BY <1>3, <2>1, <2>2, <2>3 DEF HistoryRow
<1> QED BY <1>2, <1>3, <1>4, <1>5, <1>6, <1>8, <1>9

\* The sums of a customer's delivered orders and of his payments are numbers.
LEMMA DueIsNumber ==
    ASSUME NEW t \in Terminals, NEW w \in Warehouses, NEW d \in Districts, NEW c, BalanceRight(t, w, d, c)
    PROVE  /\ IsFiniteSet(DeliveredOf(db, w, d, c)) /\ DeliveredOf(db, w, d, c) \subseteq OrderNumbers
           /\ Cardinality(DeliveredOf(db, w, d, c)) \in Nat
           /\ Credits(db, w, d, DeliveredOf(db, w, d, c)) \in Int
           /\ Amounts(db, PaymentsOf(db, Customer(w, d, c))) \in Int
<1>1. DeliveredOf(db, w, d, c) \subseteq OrderNumbers
  BY DEF DeliveredOf, OrdersOf, OrderIds
<1>2. IsFiniteSet(OrderNumbers)
  <2>1. ORD_PER_DIST + MaxTransactions \in Int
    BY TpccAssumption
  <2> QED BY <2>1, FS_Interval DEF OrderNumbers
<1>3. IsFiniteSet(DeliveredOf(db, w, d, c))
  BY <1>1, <1>2, FS_Subset
<1>4. \A o \in DeliveredOf(db, w, d, c) : Total(db[OrderLines(w, d, o)]) \in Int
  BY <1>1, CommittedDelivery
<1>5. Credits(db, w, d, DeliveredOf(db, w, d, c)) \in Int
  BY <1>3, <1>4, CreditsAreNumbers
<1>6. PICK paid : paid = PaymentsOf(db, Customer(w, d, c))
  OBVIOUS
<1>7. IsFiniteSet(paid) /\ \A k \in paid : db[k].amount \in Int
  BY <1>6, CommittedPayments DEF BalanceRight, BalanceRow
<1>8. [k \in paid |-> db[k].amount] \in [paid -> Int]
  BY <1>7
<1>9. Amounts(db, paid) \in Int
  BY <1>7, <1>8, SumIsNumber DEF Amounts
<1> QED BY <1>1, <1>3, <1>5, <1>6, <1>9, FS_CardinalityType

\* The commit of a payment.
LEMMA CommitPayment ==
    ASSUME NEW t \in Terminals, NEW w \in Warehouses, NEW d \in Districts, NEW c, BalanceRight(t, w, d, c),
           PaysFor(t, w, d, c)
    PROVE  BalanceRow(db', w, d, c)
<1>0. PICK rows, rows2, key, ids, paid, no :
          /\ rows = db /\ rows2 = db' /\ key = Customer(w, d, c) /\ ids = DeliveredOf(db, w, d, c)
          /\ paid = PaymentsOf(db, key) /\ no = History(loc[t].no)
  OBVIOUS
<1>1. pc[t] = "commit" /\ rows2 = Apply(rows, work[t]) /\ TypeInv
  BY <1>0 DEF BalanceRight, MoneyRight, commit
<1>2. tx[t].amount \in Nat /\ tx[t].kind = "Payment"
  <2>1. Doing(t) /\ tx[t].kind = "Payment"
    BY <1>1 DEF TypeInv, PaysFor, Pays
  <2>2. tx[t] \in PaymentCall
    BY <1>1, <2>1, TpccAssumption, Kinds DEF Doing
  <2> QED BY <2>1, <2>2, Kinds
<1>3. \A o : ~Credited(t, w, d, c, o)
  BY <1>1, <1>2 DEF Credited, DeliveredIn, Delivers
<1>4. DeliveredOf(rows2, w, d, c) = ids /\ \A o \in ids : Total(rows2[OrderLines(w, d, o)]) = Total(rows[OrderLines(w, d, o)])
  <2>1. \A o \in OrderNumbers : o \in DeliveredOf(rows2, w, d, c) <=> o \in ids
    BY <1>0, <1>3, CommittedDelivery
  <2>2. ids \subseteq OrderNumbers /\ DeliveredOf(rows2, w, d, c) \subseteq OrderNumbers
    BY <1>0 DEF DeliveredOf, OrdersOf, OrderIds
  <2> QED BY <1>0, <2>1, <2>2, CommittedDelivery
<1>5. Credits(rows2, w, d, ids) = Credits(rows, w, d, ids)
  BY <1>4, SameCredits
<1>6. /\ key \in DOMAIN rows /\ rows[key] \in CustomerRow /\ IsFiniteSet(paid)
      /\ rows[key].deliveries >= Cardinality(ids)
      /\ rows[key].deliveries = Cardinality(ids) =>
             rows[key].balance = Credits(rows, w, d, ids) + Amounts(rows, paid) - 10
  BY <1>0 DEF BalanceRight, BalanceRow
<1>7. /\ PaymentsOf(rows2, key) = paid \cup {no} /\ no \notin paid
      /\ \A k \in paid : rows2[k] = rows[k] /\ rows[k].amount \in Int
      /\ rows2[no].amount = tx[t].amount
  BY <1>0, CommittedPayments
<1>8. /\ Amounts(rows, paid) \in Int
      /\ Amounts(rows2, paid \cup {no}) = Amounts(rows, paid) + tx[t].amount
  <2>1. rows2[no].amount \in Int
    BY <1>2, <1>7
  <2>a. IsFiniteSet(paid)
    BY <1>6
  <2>b. no \notin paid
    BY <1>7
  <2>c. \A k \in paid : rows2[k] = rows[k] /\ rows[k].amount \in Int
    BY <1>7
  <2>2. /\ Amounts(rows, paid) \in Int
        /\ Amounts(rows2, paid \cup {no}) = Amounts(rows, paid) + rows2[no].amount
    BY ONLY <2>a, <2>b, <2>c, <2>1, OneMoreAmount
  <2> QED BY <1>7, <2>2
<1>9. key \in DOMAIN work[t] /\ work[t][key] = AfterPayment(rows[key], tx[t].amount)
  BY <1>0 DEF BalanceRight, CustomerWork
<1>10. /\ work[t][key] \in CustomerRow /\ work[t][key].deliveries = rows[key].deliveries
       /\ work[t][key].balance = rows[key].balance + tx[t].amount
  BY <1>2, <1>6, <1>9 DEF CustomerRow, AfterPayment
<1>11. key \in DOMAIN rows2 /\ rows2[key] = work[t][key]
  BY <1>1, <1>9, <1>10, ApplyRows, NilAssumption
<1>12. IsFiniteSet(paid \cup {no})
  BY <1>6, FS_AddElement
<1>13. Credits(rows, w, d, ids) \in Int /\ rows[key].balance \in Int
  BY <1>0, <1>6, DueIsNumber DEF CustomerRow
<1>14. rows2[key].deliveries = Cardinality(ids) =>
           rows2[key].balance = Credits(rows2, w, d, ids) + Amounts(rows2, paid \cup {no}) - 10
  BY <1>2, <1>5, <1>6, <1>8, <1>10, <1>11, <1>13
<1> QED BY <1>0, <1>4, <1>6, <1>7, <1>10, <1>11, <1>12, <1>14 DEF BalanceRow

\* A row after a credit.
LEMMA CreditedRow ==
    ASSUME NEW row \in CustomerRow, NEW sum \in Int
    PROVE  /\ AfterCredit(row, sum) \in CustomerRow
           /\ AfterCredit(row, sum).deliveries = row.deliveries + 1
           /\ AfterCredit(row, sum).balance = row.balance + sum
<1>1. PICK b \in Int, n \in Nat : row = [balance |-> b, deliveries |-> n]
  BY DEF CustomerRow
<1>2. PICK mid : mid = [balance |-> b + sum, deliveries |-> n]
  OBVIOUS
<1>3. [row EXCEPT !.balance = row.balance + sum] = mid
  BY <1>1, <1>2
<1>4. [mid EXCEPT !.deliveries = row.deliveries + 1] = [balance |-> b + sum, deliveries |-> n + 1]
  BY <1>1, <1>2
<1>5. AfterCredit(row, sum) = [balance |-> b + sum, deliveries |-> n + 1]
  BY <1>3, <1>4 DEF AfterCredit
<1> QED BY <1>1, <1>5 DEF CustomerRow

\* The commit of a credit: of an order that nobody has delivered yet, or of
\* one that another Delivery has delivered, too.
LEMMA CommitCredit ==
    ASSUME NEW t \in Terminals, NEW w \in Warehouses, NEW d \in Districts, NEW c, BalanceRight(t, w, d, c),
           NEW p \in Nat, Credited(t, w, d, c, p)
    PROVE  BalanceRow(db', w, d, c)
<1>0. PICK rows, rows2, key, ids, ids2, paid, sum :
          /\ rows = db /\ rows2 = db' /\ key = Customer(w, d, c) /\ ids = DeliveredOf(db, w, d, c)
          /\ ids2 = DeliveredOf(db', w, d, c)
          /\ paid = PaymentsOf(db, key) /\ sum = Total(db[OrderLines(w, d, p)])
  OBVIOUS
<1>1. pc[t] = "commit" /\ rows2 = Apply(rows, work[t]) /\ TypeInv /\ RowsOk(db) /\ WorkOk(t) /\ Route(t)
  BY <1>0 DEF BalanceRight, MoneyRight, commit
<1>2. ~PaysFor(t, w, d, c)
  <2>1. Delivers(t)
    BY DEF Credited, DeliveredIn
  <2> QED BY <1>1, <2>1 DEF Delivers, PaysFor, Pays
<1>3. \A o \in Nat : Credited(t, w, d, c, o) => o = p
  BY <1>1 DEF Route, Credited
<1>4. sum \in Int
  <2>1. OrderOk(db, w, d, p)
    BY <1>1, DeliveredOrder DEF Credited
  <2>2. db[OrderLines(w, d, p)] \in Seq(LineRow)
    BY <2>1 DEF OrderOk
  <2> QED BY <1>0, <2>2, TotalIsNumber
<1>5. /\ key \in DOMAIN rows /\ rows[key] \in CustomerRow /\ IsFiniteSet(paid)
      /\ rows[key].deliveries >= Cardinality(ids)
      /\ rows[key].deliveries = Cardinality(ids) =>
             rows[key].balance = Credits(rows, w, d, ids) + Amounts(rows, paid) - 10
  BY <1>0 DEF BalanceRight, BalanceRow
<1>6. /\ PaymentsOf(rows2, key) = paid /\ \A k \in paid : rows2[k] = rows[k]
  BY <1>0, <1>2, CommittedPayments
<1>7. Amounts(rows2, paid) = Amounts(rows, paid)
  BY <1>6, SameAmounts
<1>8. key \in DOMAIN work[t] /\ work[t][key] = AfterCredit(rows[key], sum)
  BY <1>0 DEF BalanceRight, CustomerWork
<1>9. /\ work[t][key] \in CustomerRow /\ work[t][key].deliveries = rows[key].deliveries + 1
      /\ work[t][key].balance = rows[key].balance + sum
  BY <1>4, <1>5, <1>8, CreditedRow
<1>10. key \in DOMAIN rows2 /\ rows2[key] = work[t][key]
  BY <1>1, <1>8, <1>9, ApplyRows, NilAssumption
<1>11. /\ IsFiniteSet(ids) /\ ids \subseteq OrderNumbers /\ Cardinality(ids) \in Nat
       /\ Credits(rows, w, d, ids) \in Int /\ Amounts(rows, paid) \in Int
  BY <1>0, DueIsNumber
<1>12. rows[key].balance \in Int /\ rows[key].deliveries \in Nat
  BY <1>5 DEF CustomerRow
<1>13. /\ ids2 \subseteq OrderNumbers /\ OrderNumbers \subseteq Nat
       /\ \A o \in OrderNumbers : o \in ids2 <=> o \in ids \/ (Credited(t, w, d, c, o) /\ o > LastDelivered)
  <2>1. ids2 \subseteq OrderNumbers /\ OrderNumbers \subseteq Nat
    BY <1>0 DEF DeliveredOf, OrdersOf, OrderIds, OrderNumbers
  <2> QED BY <1>0, <2>1, CommittedDelivery
<1>14. CASE p \in OrderNumbers /\ p > LastDelivered /\ p \notin ids
  <2>1. ids2 = ids \cup {p}
    BY <1>3, <1>11, <1>13, <1>14
  <2>2. Cardinality(ids2) = Cardinality(ids) + 1
    BY <1>11, <1>14, <2>1, FS_AddElement
  <2>3. Total(rows2[OrderLines(w, d, p)]) = sum
    BY <1>0, <1>14, CommittedDelivery
  <2>4. \A o \in ids : /\ Total(rows[OrderLines(w, d, o)]) \in Int
                       /\ Total(rows2[OrderLines(w, d, o)]) = Total(rows[OrderLines(w, d, o)])
    BY <1>0, <1>11, CommittedDelivery
  <2>5. Credits(rows2, w, d, ids \cup {p}) = Credits(rows, w, d, ids) + Total(rows2[OrderLines(w, d, p)])
    <3>1. Total(rows2[OrderLines(w, d, p)]) \in Int
      BY <1>4, <2>3
    <3>2. IsFiniteSet(ids)
      BY <1>11
    <3>3. p \notin ids
      BY <1>14
    <3> QED BY ONLY <3>2, <3>3, <2>4, <3>1, OneMoreCredit
  <2>6. Credits(rows2, w, d, ids2) = Credits(rows, w, d, ids) + sum
    BY <2>1, <2>3, <2>5
  <2>7. rows2[key].deliveries >= Cardinality(ids2)
    BY <1>5, <1>9, <1>10, <1>11, <1>12, <2>2
  <2>8. rows2[key].deliveries = Cardinality(ids2) =>
            rows2[key].balance = Credits(rows2, w, d, ids2) + Amounts(rows2, paid) - 10
    BY <1>4, <1>5, <1>7, <1>9, <1>10, <1>11, <1>12, <2>2, <2>6
  <2> QED BY <1>0, <1>5, <1>6, <1>9, <1>10, <2>7, <2>8 DEF BalanceRow
<1>15. CASE ~(p \in OrderNumbers /\ p > LastDelivered /\ p \notin ids)
  <2>1. ids2 = ids
    BY <1>3, <1>11, <1>13, <1>15
  <2>2. rows2[key].deliveries > Cardinality(ids2)
    BY <1>5, <1>9, <1>10, <1>11, <1>12, <2>1
  <2>3. rows2[key].deliveries >= Cardinality(ids2) /\ rows2[key].deliveries # Cardinality(ids2)
    BY <1>9, <1>10, <1>11, <1>12, <2>1, <2>2
  <2> QED BY <1>0, <1>5, <1>6, <1>9, <1>10, <2>3 DEF BalanceRow
<1> QED BY <1>14, <1>15

\* Any commit.
LEMMA CommitBalance ==
    ASSUME NEW t \in Terminals, NEW w \in Warehouses, NEW d \in Districts, NEW c, BalanceRight(t, w, d, c)
    PROVE  BalanceRow(db', w, d, c)
<1>1. CASE PaysFor(t, w, d, c)
  BY <1>1, CommitPayment
<1>2. CASE \E o \in Nat : Credited(t, w, d, c, o)
  BY <1>2, CommitCredit
<1>3. CASE ~PaysFor(t, w, d, c) /\ \A o \in Nat : ~Credited(t, w, d, c, o)
  <2>0. PICK rows, rows2, key, ids, paid :
            /\ rows = db /\ rows2 = db' /\ key = Customer(w, d, c) /\ ids = DeliveredOf(db, w, d, c)
            /\ paid = PaymentsOf(db, key)
    OBVIOUS
  <2>1. rows2 = Apply(rows, work[t]) /\ key \notin DOMAIN work[t]
    BY <1>3, <2>0 DEF BalanceRight, MoneyRight, commit, CustomerWork
  <2>2. key \in DOMAIN rows /\ rows2[key] = rows[key] /\ key \in DOMAIN rows2
    BY <2>0, <2>1, ApplyRows DEF BalanceRight, BalanceRow
  <2>3. OrderNumbers \subseteq Nat
    BY DEF OrderNumbers
  <2>4. DeliveredOf(rows2, w, d, c) = ids /\ \A o \in ids : Total(rows2[OrderLines(w, d, o)]) = Total(rows[OrderLines(w, d, o)])
    <3>1. \A o \in OrderNumbers : o \in DeliveredOf(rows2, w, d, c) <=> o \in ids
      BY <1>3, <2>0, <2>3, CommittedDelivery
    <3>2. ids \subseteq OrderNumbers /\ DeliveredOf(rows2, w, d, c) \subseteq OrderNumbers
      BY <2>0 DEF DeliveredOf, OrdersOf, OrderIds
    <3> QED BY <2>0, <3>1, <3>2, CommittedDelivery
  <2>5. PaymentsOf(rows2, key) = paid /\ \A k \in paid : rows2[k] = rows[k]
    BY <1>3, <2>0, CommittedPayments
  <2>6. Credits(rows2, w, d, ids) = Credits(rows, w, d, ids) /\ Amounts(rows2, paid) = Amounts(rows, paid)
    BY <2>4, <2>5, SameCredits, SameAmounts
  <2>7. BalanceRow(rows, w, d, c)
    BY <2>0 DEF BalanceRight
  <2> QED BY <2>0, <2>2, <2>4, <2>5, <2>6, <2>7 DEF BalanceRow
<1> QED BY <1>1, <1>2, <1>3

\* The invariant holds of the loaded tables.
LEMMA BalanceInit == Init => BalanceInv
<1> SUFFICES ASSUME Init PROVE BalanceInv
  OBVIOUS
<1>1. db = LoadedRows /\ \A t \in Terminals : pc[t] = "idle" /\ work[t] = NoRows
  BY DEF Init, DatabaseInit
<1>2. ASSUME NEW w \in Warehouses, NEW d \in Districts, NEW c \in Customers PROVE BalanceRow(db, w, d, c)
  <2>1. /\ Customer(w, d, c) \in DOMAIN db /\ db[Customer(w, d, c)] = [balance |-> -10, deliveries |-> 0]
    BY <1>1, LoadedStocks
  <2>2. DeliveredOf(db, w, d, c) = {}
    <3>1. SUFFICES ASSUME NEW o \in OrderNumbers, Order(w, d, o) \in DOMAIN db, o > LastDelivered,
                          db[Order(w, d, o)].carrier
                   PROVE  FALSE
      BY DEF DeliveredOf, OrdersOf, OrderIds
    <3>2. o \in Nat /\ LastDelivered \in Int
      BY TpccAssumption DEF OrderNumbers
    <3>3. o \in 1..ORD_PER_DIST
      BY <1>1, <3>1, <3>2, LoadedOrders
    <3>4. IsDelivered(o) = FALSE
      BY <3>1, <3>2 DEF IsDelivered
    <3>5. db[Order(w, d, o)] = [cust |-> AnyCustomer, carrier |-> FALSE, ol_cnt |-> 1]
      BY <1>1, <3>3, <3>4, LoadedOrders
    <3>6. db[Order(w, d, o)].carrier = FALSE
      BY <3>5
    <3> QED BY <3>1, <3>6
  <2>3. PaymentsOf(db, Customer(w, d, c)) = {}
    BY <1>1, LoadedMoney DEF PaymentsOf
  <2>4. IsFiniteSet({}) /\ Cardinality({}) = 0
    BY FS_EmptySet
  <2>5. Credits(db, w, d, {}) = 0
    <3>1. PICK f : f = [o \in {} |-> Total(db[OrderLines(w, d, o)])]
      OBVIOUS
    <3>2. DOMAIN f = {} /\ f \in [{} -> Int]
      BY <3>1
    <3> QED BY <3>1, <3>2, SumOfNothing DEF Credits
  <2>6. Amounts(db, {}) = 0
    <3>1. PICK f : f = [k \in {} |-> db[k].amount]
      OBVIOUS
    <3>2. DOMAIN f = {} /\ f \in [{} -> Int]
      BY <3>1
    <3> QED BY <3>1, <3>2, SumOfNothing DEF Amounts
  <2>7. /\ db[Customer(w, d, c)] \in CustomerRow /\ db[Customer(w, d, c)].deliveries = 0
        /\ db[Customer(w, d, c)].balance = 0 + 0 - 10
    BY <2>1 DEF CustomerRow
  <2> QED BY <2>1, <2>2, <2>3, <2>4, <2>5, <2>6, <2>7 DEF BalanceRow
<1>3. ASSUME NEW t \in Terminals
      PROVE  HistoryCust(t) /\ \A w \in Warehouses, d \in Districts, c \in Customers : CustomerWork(t, w, d, c)
  BY <1>1 DEF HistoryCust, CustomerWork, PaysFor, Pays, Credited, DeliveredIn, NoRows
<1> QED BY <1>2, <1>3 DEF BalanceInv

\* The row of history that a payment writes.
LEMMA OwnHistory ==
    ASSUME TypeInv, NEW t \in Terminals, Step(t)
    PROVE  HistoryCust(t)'
<1>1. CASE ~Pays(t)'
  BY <1>1 DEF HistoryCust
<1>2. CASE Pays(t)'
  <2>1. Middle(t) /\ pc'[t] = "commit"
    BY <1>2, EndFacts DEF Pays
  <2>2. PayCustomer(t)
    BY <1>2, <2>1, StaysDelivery, DeliveryLabels
  <2> QED BY <2>2, PayCustomerHistory
<1> QED BY <1>1, <1>2

\* No step breaks the invariant.
LEMMA BalanceNext ==
    IInv /\ OrdersInv /\ GoodsInv /\ MoneyInv /\ DeliveryInv /\ BalanceInv /\ [Next]_vars => BalanceInv'
<1> SUFFICES ASSUME IInv, OrdersInv, GoodsInv, MoneyInv, DeliveryInv, BalanceInv, [Next]_vars PROVE BalanceInv'
  OBVIOUS
<1>0. /\ TypeInv /\ Exclusive /\ RowsOk(db) /\ MoneyRows /\ CallNumbers
      /\ \A t \in Terminals : WorkOk(t) /\ MoneyWork(t) /\ Route(t) /\ Debt(t) /\ HistoryCust(t)
      /\ \A t \in Terminals, w \in Warehouses, d \in Districts, o \in Nat : GoodsWork(t, w, d, o)
      /\ \A w \in Warehouses, d \in Districts, c \in Customers :
             BalanceRow(db, w, d, c) /\ \A t \in Terminals : CustomerWork(t, w, d, c)
  BY DEF IInv, LockInv, OrdersInv, GoodsInv, MoneyInv, DeliveryInv, BalanceInv
<1>1. ASSUME NEW t \in Terminals, Step(t) PROVE BalanceInv'
  <2>1. ASSUME NEW w \in Warehouses, NEW d \in Districts, NEW c \in Customers PROVE BalanceRow(db, w, d, c)'
    <3>1. CASE commit(t) /\ pc[t] = "commit"
      <4>1. BalanceRight(t, w, d, c)
        BY <1>0, <3>1 DEF BalanceRight, MoneyRight
      <4>2. BalanceRow(db', w, d, c)
        BY <4>1, CommitBalance
      <4> QED BY <4>2 DEF BalanceRow, DeliveredOf, OrdersOf, OrderIds, PaymentsOf, Credits, Amounts
    <3>2. CASE db' = db
      <4>1. BalanceRow(db', w, d, c)
        BY <1>0, <3>2
      <4> QED BY <4>1 DEF BalanceRow, DeliveredOf, OrdersOf, OrderIds, PaymentsOf, Credits, Amounts
    <3> QED BY <1>1, <3>1, <3>2, DbChanges
  <2>2. ASSUME NEW w \in Warehouses, NEW d \in Districts, NEW c \in Customers, NEW u \in Terminals
        PROVE  CustomerWork(u, w, d, c)'
    <3>0. Customer(w, d, c) \in DOMAIN db
      BY <1>0 DEF BalanceRow
    <3>1. CASE u = t
      BY <1>0, <1>1, <3>0, <3>1, OwnBalance
    <3>2. CASE u # t
      BY <1>0, <1>1, <3>0, <3>2, OtherBalance
    <3> QED BY <3>1, <3>2
  <2>3. ASSUME NEW u \in Terminals PROVE HistoryCust(u)'
    <3>1. CASE u = t
      BY <1>0, <1>1, <3>1, OwnHistory
    <3>2. CASE u # t
      <4>1. pc'[u] = pc[u] /\ tx'[u] = tx[u] /\ loc'[u] = loc[u] /\ work'[u] = work[u]
        BY <1>0, <1>1, <3>2, StepIsApart DEF Apart
      <4> QED BY <1>0, <4>1 DEF HistoryCust, Pays
    <3> QED BY <3>1, <3>2
  <2> QED BY <2>1, <2>2, <2>3 DEF BalanceInv
<1>2. CASE UNCHANGED vars
  <2>0. /\ db' = db
        /\ \A u \in Terminals : /\ pc'[u] = pc[u] /\ tx'[u] = tx[u] /\ loc'[u] = loc[u] /\ work'[u] = work[u]
                                /\ held'[u] = held[u]
    BY <1>2 DEF vars
  <2>1. ASSUME NEW w \in Warehouses, NEW d \in Districts, NEW c \in Customers PROVE BalanceRow(db, w, d, c)'
    <3>1. BalanceRow(db', w, d, c)
      BY <1>0, <2>0
    <3> QED BY <3>1 DEF BalanceRow, DeliveredOf, OrdersOf, OrderIds, PaymentsOf, Credits, Amounts
  <2>2. ASSUME NEW w \in Warehouses, NEW d \in Districts, NEW c \in Customers, NEW u \in Terminals
        PROVE  CustomerWork(u, w, d, c)'
    BY <1>0, <2>0 DEF CustomerWork, PaysFor, Pays, Credited, Crediting, DeliveredIn, Delivers
  <2>3. ASSUME NEW u \in Terminals PROVE HistoryCust(u)'
    BY <1>0, <2>0 DEF HistoryCust, Pays
  <2> QED BY <2>1, <2>2, <2>3 DEF BalanceInv
<1> QED BY <1>1, <1>2 DEF Next, Step

\* A customer has been credited every order of his that was delivered, and if
\* none of them twice, his balance is what he paid and what he was credited,
\* however Payments, New Orders and Deliveries overlap and wherever they fail
\* (Delivery.delivery: the plain SELECT lets two Deliveries take the same order,
\* which both credit; c_balance and c_delivery_cnt are added to by the UPDATE
\* itself; Payment.payment: SELECT c_balance FOR UPDATE, the UPDATE and the row
\* of history).
THEOREM CreditsAgree == Spec => []BalancesAgree
<1>1. ASSUME IInv, OrdersInv, MoneyInv, BalanceInv PROVE BalancesAgree
  <2>1. ASSUME NEW w \in Warehouses, NEW d \in Districts, NEW c \in Customers
        PROVE  LET key       == Customer(w, d, c)
                   delivered == {o \in OrdersOf(db, w, d, c) : o > LastDelivered /\ db[Order(w, d, o)].carrier}
                   payments  == {k \in Payments : db[k].cust = key}
                   due       == SumOf([o \in delivered |-> Total(db[OrderLines(w, d, o)])])
                                + SumOf([k \in payments |-> db[k].amount])
               IN  /\ db[key].deliveries >= Cardinality(delivered)
                   /\ db[key].deliveries = Cardinality(delivered) => db[key].balance = due - 10
    <3> DEFINE key       == Customer(w, d, c)
               delivered == {o \in OrdersOf(db, w, d, c) : o > LastDelivered /\ db[Order(w, d, o)].carrier}
               payments  == {k \in Payments : db[k].cust = key}
    <3>1. delivered = DeliveredOf(db, w, d, c)
      BY DEF DeliveredOf
    <3>2. MoneyRows /\ started \in Nat /\ RowsOk(db) /\ BalanceRow(db, w, d, c)
      BY <1>1, TpccAssumption DEF IInv, TypeInv, OrdersInv, MoneyInv, BalanceInv
    <3>3. payments = PaymentsOf(db, key)
      <4>1. \A n \in Nat : History(n) \in DOMAIN db => n \in 1..started
        BY <3>2 DEF MoneyRows
      <4>2. \A n \in 1..started : n \in Nat
        OBVIOUS
      <4>3. {History(n) : n \in 1..started} \cap DOMAIN db = {History(n) : n \in Nat} \cap DOMAIN db
        BY <4>1, <4>2
      <4> QED BY <4>3 DEF Payments, PaymentsOf
    <3>4. IsFiniteSet(payments) /\ \A k \in payments : db[k].amount \in Int
      <4>1. \A k \in payments : db[k] \in HistoryRow
        BY <3>2 DEF Payments, MoneyRows
      <4>2. \A row \in HistoryRow : row.amount \in Int
        BY DEF HistoryRow
      <4>3. IsFiniteSet(PaymentsOf(db, key))
        BY <3>2 DEF BalanceRow
      <4> HIDE DEF payments, key
      <4> QED BY <3>3, <4>1, <4>2, <4>3
    <3>5. IsFiniteSet(delivered) /\ delivered \subseteq Nat
      <4>1. ORD_PER_DIST + MaxTransactions \in Int
        BY TpccAssumption
      <4>2. IsFiniteSet(OrderNumbers) /\ OrderNumbers \subseteq Nat
        BY <4>1, FS_Interval DEF OrderNumbers
      <4>3. delivered \subseteq OrderNumbers
        BY DEF OrdersOf, OrderIds
      <4> QED BY <4>2, <4>3, FS_Subset
    <3>6. ASSUME NEW o \in delivered PROVE Total(db[OrderLines(w, d, o)]) \in Int
      <4>1. o \in Nat /\ Order(w, d, o) \in DOMAIN db
        BY <3>5 DEF OrdersOf, OrderIds
      <4>2. OrderOk(db, w, d, o)
        BY <3>2, <4>1, OrdersThereAre DEF NoOrder
      <4>3. db[OrderLines(w, d, o)] \in Seq(LineRow)
        BY <4>2 DEF OrderOk
      <4> QED BY <4>3, TotalIsNumber
    <3>7. Credits(db, w, d, delivered) \in Int
      <4> HIDE DEF delivered
      <4> QED BY <3>5, <3>6, CreditsAreNumbers
    <3>8. Amounts(db, payments) \in Int
      <4> HIDE DEF payments
      <4>1. [k \in payments |-> db[k].amount] \in [payments -> Int]
        BY <3>4
      <4> QED BY <3>4, <4>1, SumIsNumber DEF Amounts
    <3>9. /\ db[key].deliveries >= Cardinality(delivered)
          /\ db[key].deliveries = Cardinality(delivered) =>
                 db[key].balance = (Credits(db, w, d, delivered) + Amounts(db, payments)) - 10
      <4>1. /\ db[key].deliveries >= Cardinality(DeliveredOf(db, w, d, c))
            /\ db[key].deliveries = Cardinality(DeliveredOf(db, w, d, c)) => db[key].balance =
               Credits(db, w, d, DeliveredOf(db, w, d, c)) + Amounts(db, PaymentsOf(db, key)) - 10
        BY <3>2 DEF BalanceRow
      <4> HIDE DEF delivered, payments, key
      <4> QED BY <3>1, <3>3, <3>7, <3>8, <4>1
    <3> QED BY <3>9 DEF Credits, Amounts
  <2> QED BY <2>1 DEF BalancesAgree
<1> QED BY <1>1, InvInit, InvNext, OrdersInit, OrdersNext, GoodsInit, GoodsNext, MoneyInit, MoneyNext,
           DeliveryInit, DeliveryNext, BalanceInit, BalanceNext, PTL DEF Spec

=============================================================================
