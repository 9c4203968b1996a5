------------------------- MODULE TpccDriver_proofs -------------------------
(***************************************************************************)
(* Proofs about TpccDriver, for every number of threads, all mixes and     *)
(* random numbers and every limit of retries: the deck deals each kind as  *)
(* often as its weight says, what the threads count for themselves is      *)
(* exact, and the totals are never ahead of it.                            *)
(***************************************************************************)
EXTENDS TpccDriver, FiniteSetTheorems, SequenceTheorems, TLAPS

-----------------------------------------------------------------------------
(* Numbers and sums.                                                       *)

\* A set that has 0 and with each number the next has them all.
LEMMA AllNumbers ==
    ASSUME NEW S, 0 \in S, \A n \in Nat : n \in S => n + 1 \in S
    PROVE  \A n \in Nat : n \in S
<1> DEFINE R == OpToRel(<, Nat)
           T == Nat \ S
<1>1. IsWellFoundedOn(R, Nat)
    BY NatLessThanWellFounded, Zenon
<1>2. \A x, y \in Nat : <<x, y>> \in R <=> x < y
    BY Zenon DEF OpToRel
<1>3. SUFFICES ASSUME T # {} PROVE FALSE
    OBVIOUS
<1>4. PICK x \in T : \A y \in T : ~ (<<y, x>> \in R)
    <2> HIDE DEF R
    <2>1. T \subseteq Nat
        OBVIOUS
    <2> HIDE DEF T
    <2> QED BY ONLY <1>1, <2>1, <1>3, WFMin
<1>5. x \in Nat \ {0} /\ x - 1 \in Nat /\ x - 1 < x
    <2> HIDE DEF R
    <2> QED OBVIOUS
<1>6. x - 1 \in S
    <2>1. <<x - 1, x>> \in R
        BY <1>2, <1>5
    <2> HIDE DEF R
    <2> QED BY <1>4, <1>5, <2>1
<1>7. x \in S
    <2> HIDE DEF R
    <2> QED BY <1>5, <1>6
<1> QED BY <1>4, <1>7

\* s[m] is the sum of f[0] to f[m].
Sums(f, s, n) ==
    /\ s[0] = f[0]
    /\ \A m \in 1..n : s[m] = f[m] + s[m - 1]

\* The partial sums of a function exist.
LEMMA SumsExist ==
    ASSUME NEW n \in Nat, NEW f \in [0..n -> Int]
    PROVE  \E s \in [0..n -> Int] : Sums(f, s, n)
<1> DEFINE S == {m \in Nat : m <= n => \E s \in [0..m -> Int] : Sums(f, s, m)}
<1>1. 0 \in S
    <2> DEFINE s == [m \in 0..0 |-> f[0]]
    <2>1. s \in [0..0 -> Int] /\ Sums(f, s, 0)
        BY DEF Sums
    <2> QED BY <2>1
<1>2. ASSUME NEW m \in Nat, m \in S PROVE m + 1 \in S
    <2> SUFFICES ASSUME m + 1 <= n PROVE \E s \in [0..m + 1 -> Int] : Sums(f, s, m + 1)
        OBVIOUS
    <2>1. PICK s \in [0..m -> Int] : Sums(f, s, m)
        BY <1>2
    <2> DEFINE r == [i \in 0..m + 1 |-> IF i = m + 1 THEN f[m + 1] + s[m] ELSE s[i]]
    <2>2. f[m + 1] + s[m] \in Int
        BY <2>1 DEF Sums
    <2>3. r \in [0..m + 1 -> Int] /\ r[0] = f[0]
        BY <2>1, <2>2 DEF Sums
    <2>4. ASSUME NEW i \in 1..m + 1 PROVE r[i] = f[i] + r[i - 1]
        <3>1. CASE i = m + 1
            BY <3>1
        <3>2. CASE i # m + 1
            <4>1. i \in 1..m /\ i - 1 \in 0..m
                BY <3>2
            <4> QED BY <2>1, <3>2, <4>1 DEF Sums
        <3> QED BY <3>1, <3>2
    <2>5. Sums(f, r, m + 1)
        BY <2>3, <2>4 DEF Sums
    <2> QED BY <2>3, <2>5
<1>3. n \in S
    <2> HIDE DEF S
    <2> QED BY <1>1, <1>2, AllNumbers
<1> QED BY <1>3

\* They are determined by it.
LEMMA SumsAreUnique ==
    ASSUME NEW n \in Nat, NEW f, NEW s, NEW r, Sums(f, s, n), Sums(f, r, n)
    PROVE  s[n] = r[n]
<1> DEFINE S == {m \in Nat : m <= n => s[m] = r[m]}
<1>1. 0 \in S
    BY DEF Sums
<1>2. ASSUME NEW m \in Nat, m \in S PROVE m + 1 \in S
    <2>1. m + 1 <= n => m + 1 \in 1..n /\ (m + 1) - 1 = m
        OBVIOUS
    <2> QED BY <1>2, <2>1 DEF Sums
<1>3. n \in S
    <2> HIDE DEF S
    <2> QED BY <1>1, <1>2, AllNumbers
<1> QED BY <1>3

\* Sum computes it.
LEMMA SumIs ==
    ASSUME NEW n \in Nat, NEW f \in [0..n -> Int], NEW s, Sums(f, s, n)
    PROVE  Sum(f) = s[n]
<1> DEFINE Summing(sum) == sum = [m \in 0..n |-> f[m] + IF m = 0 THEN 0 ELSE sum[m - 1]]
<1>1. DOMAIN f = 0..n /\ Cardinality(DOMAIN f) - 1 = n
    BY FS_Interval
<1>2. PICK r \in [0..n -> Int] : Sums(f, r, n)
    BY SumsExist
<1>3. Summing(r)
    BY <1>2 DEF Sums
<1>4. PICK sum : Summing(sum) /\ Sum(f) = sum[n]
    <2>1. Sum(f) = (CHOOSE sum : Summing(sum))[n]
        BY <1>1 DEF Sum
    <2> HIDE DEF Summing
    <2> QED BY <1>3, <2>1
<1>5. Sums(f, sum, n)
    <2>1. sum[0] = f[0]
        BY <1>4
    <2>2. \A m \in 1..n : sum[m] = f[m] + sum[m - 1]
        BY <1>4
    <2> QED BY <2>1, <2>2 DEF Sums
<1> QED BY <1>4, <1>5, SumsAreUnique

\* A sum is a number.
LEMMA SumType ==
    ASSUME NEW n \in Nat, NEW f \in [0..n -> Int]
    PROVE  Sum(f) \in Int
<1>1. PICK s \in [0..n -> Int] : Sums(f, s, n)
    BY SumsExist
<1> QED BY <1>1, SumIs

-----------------------------------------------------------------------------
(* The deck.                                                               *)

\* The places among the first j where the deck has the card k.
cardsOf(s, k, j) == {i \in 1..j : s[i] = k}
many(s, k, j)    == Cardinality(cardsOf(s, k, j))

\* The cards of a kind among the first ones: none at first, and with the next
\* card one more if it is of the kind.
LEMMA CardsAreFinite ==
    ASSUME NEW s, NEW k, NEW j \in Nat
    PROVE  /\ IsFiniteSet(cardsOf(s, k, j)) /\ many(s, k, j) \in Nat
           /\ many(s, k, 0) = 0
           /\ many(s, k, j + 1) = many(s, k, j) + IF s[j + 1] = k THEN 1 ELSE 0
<1>1. \A n \in Nat : IsFiniteSet(cardsOf(s, k, n))
    <2> SUFFICES ASSUME NEW n \in Nat PROVE IsFiniteSet(cardsOf(s, k, n))
        OBVIOUS
    <2>1. cardsOf(s, k, n) \in SUBSET (1..n) /\ IsFiniteSet(1..n)
        BY FS_Interval DEF cardsOf
    <2> QED BY <2>1, FS_Subset
<1>2. many(s, k, j) \in Nat
    BY <1>1, FS_CardinalityType DEF many
<1>3. many(s, k, 0) = 0
    <2>1. cardsOf(s, k, 0) = {}
        BY DEF cardsOf
    <2> QED BY <2>1, FS_EmptySet DEF many
<1>4. many(s, k, j + 1) = many(s, k, j) + IF s[j + 1] = k THEN 1 ELSE 0
    <2>1. j + 1 \notin cardsOf(s, k, j)
        BY DEF cardsOf
    <2>2. CASE s[j + 1] = k
        <3>1. cardsOf(s, k, j + 1) = cardsOf(s, k, j) \cup {j + 1}
            BY <2>2 DEF cardsOf
        <3>2. IsFiniteSet(cardsOf(s, k, j))
            BY <1>1
        <3> QED BY <2>1, <2>2, <3>1, <3>2, FS_AddElement DEF many
    <2>3. CASE s[j + 1] # k
        <3>1. cardsOf(s, k, j + 1) = cardsOf(s, k, j)
            BY <2>3 DEF cardsOf
        <3> QED BY <1>2, <2>3, <3>1 DEF many
    <2> QED BY <2>2, <2>3
<1> QED BY <1>1, <1>2, <1>3, <1>4

\* Two decks with the same cards.
SameCards(s, r) ==
    /\ s \in Seq(Kinds) /\ r \in Seq(Kinds) /\ Len(s) = Len(r)
    /\ \A k \in Kinds : many(s, k, Len(s)) = many(r, k, Len(r))

\* A swap is a bijection of places, so each kind keeps its number of cards.
LEMMA SwapKeepsCards ==
    ASSUME NEW s \in Seq(Kinds), NEW i \in 1..Len(s), NEW j \in 1..Len(s)
    PROVE  SameCards(swap(s, i, j), s)
<1>1. PICK n, r : n = Len(s) /\ r = swap(s, i, j) /\ n \in Nat
    OBVIOUS
<1>2. s \in [1..n -> Kinds]
    BY <1>1, LenProperties
<1>3. r \in [1..n -> Kinds] /\ \A p \in 1..n : r[p] = IF p = j THEN s[i] ELSE IF p = i THEN s[j] ELSE s[p]
    BY <1>1, <1>2 DEF swap
<1>4. r \in Seq(Kinds) /\ Len(r) = n
    BY <1>1, <1>3, SeqDef, LenProperties
<1>5. ASSUME NEW k \in Kinds PROVE many(r, k, n) = many(s, k, n)
    <2> DEFINE other(p) == IF p = i THEN j ELSE IF p = j THEN i ELSE p
    <2>1. PICK f : f = [p \in cardsOf(s, k, n) |-> other(p)]
        OBVIOUS
    <2>2. \A p \in 1..n : other(p) \in 1..n /\ other(other(p)) = p /\ r[other(p)] = s[p] /\ s[other(p)] = r[p]
        BY <1>1, <1>3
    <2> HIDE DEF other
    <2>3. f \in [cardsOf(s, k, n) -> cardsOf(r, k, n)]
        BY <2>1, <2>2 DEF cardsOf
    <2>4. \A p, q \in cardsOf(s, k, n) : f[p] = f[q] => p = q
        BY <2>1, <2>2 DEF cardsOf
    <2>5. \A q \in cardsOf(r, k, n) : \E p \in cardsOf(s, k, n) : f[p] = q
        <3> SUFFICES ASSUME NEW q \in cardsOf(r, k, n) PROVE \E p \in cardsOf(s, k, n) : f[p] = q
            OBVIOUS
        <3>1. other(q) \in cardsOf(s, k, n) /\ other(other(q)) = q
            BY <2>2 DEF cardsOf
        <3> QED BY <2>1, <3>1
    <2>6. ExistsBijection(cardsOf(s, k, n), cardsOf(r, k, n))
        BY <2>3, <2>4, <2>5 DEF ExistsBijection, Bijection, Injection, IsInjective, Surjection
    <2>7. IsFiniteSet(cardsOf(s, k, n))
        BY <1>1, CardsAreFinite
    <2> QED BY <2>6, <2>7, FS_Bijection DEF many
<1> QED BY <1>1, <1>4, <1>5 DEF SameCards

\* The deck before it is shuffled: each kind as often as its weight.
Block(m, k) == [i \in 1..m[k] |-> k]
Blocks(s, m, k) ==
    /\ s \in Seq(Kinds) /\ \A i \in 1..Len(s) : s[i] < k
    /\ \A j \in Kinds : j < k => many(s, j, Len(s)) = m[j]

\* The cards of the next kind are added to those of the kinds before it.
LEMMA AddBlock ==
    ASSUME NEW m \in [Kinds -> Nat], NEW k \in Kinds, NEW s, Blocks(s, m, k)
    PROVE  Blocks(s \o Block(m, k), m, k + 1) /\ Len(s \o Block(m, k)) = Len(s) + m[k]
<1>1. PICK n, w, b, r : n = Len(s) /\ w = m[k] /\ b = Block(m, k) /\ r = s \o b
    OBVIOUS
<1>2. s \in Seq(Kinds) /\ n \in Nat /\ w \in Nat
    BY <1>1 DEF Blocks
<1>3. b \in Seq(Kinds) /\ Len(b) = w /\ \A i \in 1..w : b[i] = k
    <2>1. b \in [1..w -> Kinds] /\ \A i \in 1..w : b[i] = k
        BY <1>1 DEF Block
    <2> QED BY <1>2, <2>1, SeqDef, LenProperties
<1>4. /\ r \in Seq(Kinds) /\ Len(r) = n + w
      /\ \A i \in 1..n : r[i] = s[i]
      /\ \A i \in n + 1..n + w : r[i] = k
    <2>1. r \in Seq(Kinds) /\ Len(r) = n + w
          /\ \A i \in 1..n + w : r[i] = IF i <= n THEN s[i] ELSE b[i - n]
        BY <1>1, <1>2, <1>3, ConcatProperties
    <2>2. ASSUME NEW i \in n + 1..n + w PROVE r[i] = k
        <3>1. i \in 1..n + w /\ ~(i <= n) /\ i - n \in 1..w
            BY <1>2
        <3> QED BY <1>3, <2>1, <3>1
    <2>3. \A i \in 1..n : i \in 1..n + w /\ i <= n
        BY <1>2
    <2> QED BY <2>1, <2>2, <2>3
<1>5. \A i \in 1..n : s[i] < k /\ s[i] \in Kinds
    BY <1>1, <1>2, ElementOfSeq DEF Blocks
<1>6. \A i \in 1..n + w : i \in 1..n \/ i \in n + 1..n + w
    BY <1>2
<1>7. \A i \in 1..n + w : r[i] < k + 1
    BY <1>4, <1>5, <1>6 DEF Kinds
<1>8. many(r, k, n + w) = w
    <2>1. cardsOf(r, k, n + w) = n + 1..n + w
        <3>1. n + 1..n + w \subseteq 1..n + w
            BY <1>2
        <3>2. \A i \in 1..n : s[i] # k
            BY <1>5 DEF Kinds
        <3>3. \A i \in 1..n + w : r[i] = k <=> i \in n + 1..n + w
            BY <1>2, <1>4, <1>6, <3>2
        <3> QED BY <3>1, <3>3 DEF cardsOf
    <2> QED BY <1>2, <2>1, FS_Interval DEF many
<1>9. ASSUME NEW j \in Kinds, j < k PROVE many(r, j, n + w) = m[j]
    <2>1. cardsOf(r, j, n + w) = cardsOf(s, j, n)
        <3>1. \A i \in 1..n : i \in 1..n + w
            BY <1>2
        <3>2. \A i \in n + 1..n + w : r[i] # j
            BY <1>4, <1>9 DEF Kinds
        <3> QED BY <1>4, <1>6, <3>1, <3>2 DEF cardsOf
    <2> QED BY <1>1, <1>9, <2>1 DEF many, Blocks
<1>10. \A j \in Kinds : j < k + 1 => many(r, j, n + w) = m[j]
    BY <1>1, <1>8, <1>9 DEF Kinds
<1> QED BY <1>1, <1>4, <1>7, <1>10 DEF Blocks

\* A sum over the kinds has five summands.
LEMMA SumOfKinds ==
    ASSUME NEW f \in [Kinds -> Int]
    PROVE  Sum(f) = f[0] + f[1] + f[2] + f[3] + f[4]
<1>1. f \in [0..4 -> Int]
    BY DEF Kinds
<1>2. PICK s \in [0..4 -> Int] : Sums(f, s, 4)
    BY <1>1, SumsExist
<1>3. Sum(f) = s[4]
    BY <1>1, <1>2, SumIs
<1>4. s[0] = f[0] /\ s[1] = f[1] + s[0] /\ s[2] = f[2] + s[1] /\ s[3] = f[3] + s[2] /\ s[4] = f[4] + s[3]
    BY <1>2 DEF Sums
<1>5. f[0] \in Int /\ f[1] \in Int /\ f[2] \in Int /\ f[3] \in Int /\ f[4] \in Int
    BY <1>1
<1> QED BY <1>3, <1>4, <1>5

\* The deck before it is shuffled has as many cards of a kind as its weight
\* says, and no others.
LEMMA SortedDeck ==
    ASSUME NEW m \in [Kinds -> Nat]
    PROVE  /\ sorted(m) \in Seq(Kinds) /\ Len(sorted(m)) = Sum(m)
           /\ \A k \in Kinds : many(sorted(m), k, Len(sorted(m))) = m[k]
<1> DEFINE blocks == [k \in 1..5 |-> Block(m, k - 1)]
           Flat(g) == g = [i \in 1..5 |-> IF i = 1 THEN blocks[i] ELSE g[i - 1] \o blocks[i]]
<1>1. PICK b0, b1, b2, b3, b4 : /\ b0 = Block(m, 0) /\ b1 = Block(m, 1) /\ b2 = Block(m, 2)
                                /\ b3 = Block(m, 3) /\ b4 = Block(m, 4)
    OBVIOUS
<1>2. PICK a1, a2, a3, a4 : a1 = b0 \o b1 /\ a2 = a1 \o b2 /\ a3 = a2 \o b3 /\ a4 = a3 \o b4
    OBVIOUS
<1>3. sorted(m) = a4
    <2>1. sorted(m) = FlattenSeq(blocks)
        BY DEF sorted, Block
    <2>2. Len(blocks) = 5
        OBVIOUS
    <2>3. FlattenSeq(blocks) = (CHOOSE g : Flat(g))[5]
        BY <2>2 DEF FlattenSeq
    <2>4. blocks[1] = b0 /\ blocks[2] = b1 /\ blocks[3] = b2 /\ blocks[4] = b3 /\ blocks[5] = b4
        BY <1>1
    <2>5. \E g : Flat(g)
        <3> DEFINE g == [i \in 1..5 |-> IF i = 1 THEN b0 ELSE IF i = 2 THEN a1 ELSE IF i = 3 THEN a2
                                        ELSE IF i = 4 THEN a3 ELSE a4]
        <3>1. \A i \in 1..5 : g[i] = IF i = 1 THEN blocks[i] ELSE g[i - 1] \o blocks[i]
            BY <1>2, <2>4
        <3>2. Flat(g)
            BY <3>1
        <3> QED BY <3>2
    <2>6. PICK g : Flat(g) /\ sorted(m) = g[5]
        <3> HIDE DEF Flat
        <3> QED BY <2>1, <2>3, <2>5
    <2>7. \A i \in 1..5 : g[i] = IF i = 1 THEN blocks[i] ELSE g[i - 1] \o blocks[i]
        BY <2>6
    <2>8. g[1] = b0
        BY <2>4, <2>7
    <2> HIDE DEF blocks
    <2>9. g[2] = a1
        <3>1. 2 \in 1..5 /\ 2 # 1 /\ 2 - 1 = 1
            OBVIOUS
        <3>2. g[2] = g[2 - 1] \o blocks[2]
            BY <2>7, <3>1, Zenon
        <3> QED BY <1>2, <2>4, <2>8, <3>1, <3>2, Zenon
    <2>10. g[3] = a2
        <3>1. 3 \in 1..5 /\ 3 # 1 /\ 3 - 1 = 2
            OBVIOUS
        <3>2. g[3] = g[3 - 1] \o blocks[3]
            BY <2>7, <3>1, Zenon
        <3> QED BY <1>2, <2>4, <2>9, <3>1, <3>2, Zenon
    <2>11. g[4] = a3
        <3>1. 4 \in 1..5 /\ 4 # 1 /\ 4 - 1 = 3
            OBVIOUS
        <3>2. g[4] = g[4 - 1] \o blocks[4]
            BY <2>7, <3>1, Zenon
        <3> QED BY <1>2, <2>4, <2>10, <3>1, <3>2, Zenon
    <2>12. g[5] = a4
        <3>1. 5 \in 1..5 /\ 5 # 1 /\ 5 - 1 = 4
            OBVIOUS
        <3>2. g[5] = g[5 - 1] \o blocks[5]
            BY <2>7, <3>1, Zenon
        <3> QED BY <1>2, <2>4, <2>11, <3>1, <3>2, Zenon
    <2> QED BY <2>6, <2>12
<1>4. {0, 1, 2, 3, 4} \subseteq Kinds /\ \A k \in Kinds : m[k] \in Nat /\ k < 5
    BY DEF Kinds
<1>5. Blocks(b0, m, 1) /\ Len(b0) = m[0]
    <2>1. Blocks(<<>>, m, 0) /\ Len(<<>>) = 0
        BY <1>4 DEF Blocks, Kinds
    <2>2. <<>> \o b0 = b0
        <3>1. b0 \in Seq(Kinds)
            <4>1. b0 \in [1..m[0] -> Kinds] /\ m[0] \in Nat
                BY <1>1, <1>4 DEF Block
            <4> QED BY <4>1, SeqDef
        <3> QED BY <3>1, ConcatEmptySeq
    <2>3. Blocks(<<>> \o b0, m, 0 + 1) /\ Len(<<>> \o b0) = 0 + m[0]
        BY <1>1, <1>4, <2>1, AddBlock
    <2> QED BY <1>4, <2>2, <2>3
<1>6. Blocks(a1, m, 2) /\ Len(a1) = m[0] + m[1]
    <2>1. Blocks(a1, m, 1 + 1) /\ Len(a1) = m[0] + m[1]
        BY <1>1, <1>2, <1>4, <1>5, AddBlock
    <2> QED BY <2>1
<1>7. Blocks(a2, m, 3) /\ Len(a2) = m[0] + m[1] + m[2]
    <2>1. Blocks(a2, m, 2 + 1) /\ Len(a2) = m[0] + m[1] + m[2]
        BY <1>1, <1>2, <1>4, <1>6, AddBlock
    <2> QED BY <2>1
<1>8. Blocks(a3, m, 4) /\ Len(a3) = m[0] + m[1] + m[2] + m[3]
    <2>1. Blocks(a3, m, 3 + 1) /\ Len(a3) = m[0] + m[1] + m[2] + m[3]
        BY <1>1, <1>2, <1>4, <1>7, AddBlock
    <2> QED BY <2>1
<1>9. Blocks(a4, m, 5) /\ Len(a4) = m[0] + m[1] + m[2] + m[3] + m[4]
    <2>1. Blocks(a4, m, 4 + 1) /\ Len(a4) = m[0] + m[1] + m[2] + m[3] + m[4]
        BY <1>1, <1>2, <1>4, <1>8, AddBlock
    <2> QED BY <2>1
<1>10. Len(a4) = Sum(m)
    BY <1>9, SumOfKinds
<1> QED BY <1>3, <1>4, <1>9, <1>10 DEF Blocks

\* Shuffling keeps the cards.
LEMMA ShuffleKeepsCards ==
    ASSUME NEW s \in Seq(Kinds), s # <<>>, NEW rnd \in [1..Len(s) - 1 -> Int]
    PROVE  SameCards(shuffled(s, rnd), s)
<1>1. PICK n : n = Len(s) - 1 /\ n \in Nat
    BY EmptySeq
<1> DEFINE place(i) == i + (Abs(rnd[i]) % (Len(s) + 1 - i))
           Shuffling(c) == c = [i \in 0..n |-> IF i = 0 THEN s ELSE swap(c[i - 1], i, place(i))]
           Turns(c, m) == c[0] = s /\ \A i \in 1..m : c[i] = swap(c[i - 1], i, place(i))
<1>2. shuffled(s, rnd) = (CHOOSE c : Shuffling(c))[n]
    BY <1>1 DEF shuffled
<1>3. \A i \in 1..n : i \in 1..Len(s) /\ place(i) \in 1..Len(s)
    <2> SUFFICES ASSUME NEW i \in 1..n PROVE i \in 1..Len(s) /\ place(i) \in 1..Len(s)
        OBVIOUS
    <2>1. PICK a, w : a = Abs(rnd[i]) /\ w = Len(s) + 1 - i
        OBVIOUS
    <2>2. a \in Nat /\ w \in Nat /\ w > 0
        BY <1>1, <2>1 DEF Abs
    <2>3. a % w \in 0..w - 1
        BY <2>2
    <2> QED BY <1>1, <2>1, <2>2, <2>3
<1> HIDE DEF place
<1>4. \E c : Shuffling(c)
    <2> DEFINE S == {m \in Nat : m <= n => \E c : Turns(c, m)}
    <2>1. 0 \in S
        <3> DEFINE c == [i \in {0} |-> s]
        <3>1. Turns(c, 0)
            OBVIOUS
        <3> QED BY <3>1
    <2>2. ASSUME NEW m \in Nat, m \in S PROVE m + 1 \in S
        <3> SUFFICES ASSUME m + 1 <= n PROVE \E c : Turns(c, m + 1)
            OBVIOUS
        <3> HIDE DEF Turns
        <3>1. PICK c : Turns(c, m)
            BY <1>1, <2>2
        <3> USE DEF Turns
        <3> DEFINE d == [i \in 0..m + 1 |-> IF i = m + 1 THEN swap(c[m], i, place(i)) ELSE c[i]]
        <3>2. d[0] = s
            BY <3>1
        <3>3. ASSUME NEW i \in 1..m + 1 PROVE d[i] = swap(d[i - 1], i, place(i))
            <4>1. CASE i = m + 1
                BY <4>1
            <4>2. CASE i \in 1..m
                BY <3>1, <4>2
            <4> QED BY <4>1, <4>2
        <3>4. Turns(d, m + 1)
            BY <3>2, <3>3
        <3> QED BY <3>4
    <2>3. n \in S
        <3> HIDE DEF S
        <3> QED BY <1>1, <2>1, <2>2, AllNumbers
    <2>4. PICK c : Turns(c, n)
        BY <1>1, <2>3
    <2> DEFINE d == [i \in 0..n |-> c[i]]
    <2>5. \A i \in 0..n : d[i] = IF i = 0 THEN s ELSE swap(d[i - 1], i, place(i))
        BY <1>1, <2>4
    <2>6. Shuffling(d)
        BY <2>5
    <2> QED BY <2>6
<1>5. PICK c : Shuffling(c) /\ shuffled(s, rnd) = c[n]
    <2> HIDE DEF Shuffling
    <2> QED BY <1>2, <1>4
<1>6. c[0] = s /\ \A i \in 1..n : c[i] = swap(c[i - 1], i, place(i))
    <2>1. \A i \in 0..n : c[i] = IF i = 0 THEN s ELSE swap(c[i - 1], i, place(i))
        BY <1>5
    <2>2. 0 \in 0..n /\ \A i \in 1..n : i \in 0..n /\ i # 0
        BY <1>1
    <2> QED BY <2>1, <2>2
<1> DEFINE S == {m \in Nat : m <= n => SameCards(c[m], s)}
<1>7. 0 \in S
    BY <1>6 DEF SameCards
<1>8. ASSUME NEW m \in Nat, m \in S PROVE m + 1 \in S
    <2> SUFFICES ASSUME m + 1 <= n PROVE SameCards(c[m + 1], s)
        OBVIOUS
    <2>1. SameCards(c[m], s) /\ m + 1 \in 1..n /\ (m + 1) - 1 = m
        BY <1>1, <1>8
    <2>2. c[m + 1] = swap(c[m], m + 1, place(m + 1))
        BY <1>6, <2>1
    <2>3. c[m] \in Seq(Kinds) /\ Len(c[m]) = Len(s)
        BY <2>1 DEF SameCards
    <2>4. SameCards(c[m + 1], c[m])
        BY <1>3, <2>1, <2>2, <2>3, SwapKeepsCards
    <2> QED BY <2>1, <2>4 DEF SameCards
<1>9. n \in S
    <2> HIDE DEF S
    <2> QED BY <1>1, <1>7, <1>8, AllNumbers
<1> QED BY <1>1, <1>5, <1>9

\* What every deck is like.
LEMMA DeckIs ==
    ASSUME NEW m \in Mixes, NEW s \in Decks[m]
    PROVE  /\ s \in Seq(Kinds) /\ Len(s) = Sum(m) /\ Sum(m) \in Nat \ {0}
           /\ \A k \in Kinds : many(s, k, Len(s)) = m[k]
<1>1. m \in [Kinds -> Nat]
    BY DriverAssumption
<1>2. PICK r : r = sorted(m)
    OBVIOUS
<1>3. r \in Seq(Kinds) /\ Len(r) = Sum(m) /\ \A k \in Kinds : many(r, k, Len(r)) = m[k]
    BY <1>1, <1>2, SortedDeck
<1>4. Sum(m) \in Nat \ {0}
    <2>1. Sum(m) = m[0] + m[1] + m[2] + m[3] + m[4]
        BY <1>1, SumOfKinds
    <2>2. PICK k \in Kinds : m[k] > 0
        BY DriverAssumption
    <2>3. m[0] \in Nat /\ m[1] \in Nat /\ m[2] \in Nat /\ m[3] \in Nat /\ m[4] \in Nat
        BY <1>1 DEF Kinds
    <2> QED BY <2>1, <2>2, <2>3 DEF Kinds
<1>5. r # <<>>
    BY <1>3, <1>4
<1>6. PICK rnd \in [1..Len(r) - 1 -> Randoms] : s = shuffled(r, rnd)
    BY <1>2 DEF Decks
<1>7. rnd \in [1..Len(r) - 1 -> Int]
    BY <1>6, DriverAssumption
<1>8. SameCards(s, r)
    BY <1>3, <1>5, <1>6, <1>7, ShuffleKeepsCards
<1> QED BY <1>3, <1>4, <1>8 DEF SameCards

-----------------------------------------------------------------------------
(* What a thread is about to count.                                        *)

USE DriverAssumption

Once(n) == <<<<n, 1>>>>
GivenUp == <<<<"retry", -1>>, <<"failure", 1>>>>
Plans   == {<<>>, GivenUp} \cup {Once(n) : n \in Counters}

\* Whether the increments that the thread has still to make are one attempt:
\* giving up makes a failure of a retry.
pending(t) == IF todo[t] \in {<<>>, GivenUp} THEN 0 ELSE 1

Labels == {"none", "draw", "loop", "attempt", "giveup", "count", "own", "ended"}

\* What the plans begin with and leave.
LEMMA PlanSteps ==
    /\ \A n \in Counters : /\ Once(n) \notin {<<>>, GivenUp} /\ Len(Once(n)) = 1
                           /\ Head(Once(n)) = <<n, 1>> /\ Tail(Once(n)) = <<>>
    /\ \A n, m \in Counters : Once(n) = Once(m) => n = m
    /\ GivenUp # <<>> /\ Len(GivenUp) = 2
    /\ Head(GivenUp) = <<"retry", -1>> /\ Tail(GivenUp) = Once("failure")
    /\ <<>> \notin {Once(n) : n \in Counters}
<1>1. \A n : Len(Once(n)) = 1 /\ Head(Once(n)) = <<n, 1>> /\ Tail(Once(n)) = <<>> /\ Once(n) # <<>>
    BY DEF Once
<1>2. Len(GivenUp) = 2 /\ Head(GivenUp) = <<"retry", -1>> /\ GivenUp # <<>>
    BY DEF GivenUp
<1>3. Tail(GivenUp) = Once("failure")
    BY DEF GivenUp, Once
<1>4. \A n, m : Once(n) = Once(m) => n = m
    <2> SUFFICES ASSUME NEW n, NEW m, Once(n) = Once(m) PROVE n = m
        OBVIOUS
    <2>1. <<n, 1>> = <<m, 1>>
        BY <1>1
    <2> QED BY <2>1
<1>5. \A n : Once(n) # GivenUp
    BY <1>1, <1>2
<1> QED BY <1>1, <1>2, <1>3, <1>4, <1>5

-----------------------------------------------------------------------------
(* Each thread.                                                            *)

\* The variables of the threads and of the counts that only they write.
ThreadTypes ==
    /\ counting_on \in BOOLEAN /\ calls \in 0..MaxCalls
    /\ pc \in [Threads -> Labels] /\ sequence \in [Threads -> Kinds]
    /\ tries \in [Threads -> 0..MAX_RETRY] /\ todo \in [Threads -> Plans]
    /\ DOMAIN read = Threads
    /\ own \in [Counters -> [Kinds -> [Threads -> Int]]]
    /\ attempts \in [Kinds -> [Threads -> Int]]

\* A thread has something to count exactly while it counts, and tries again
\* only as long as it may.
ThreadOk(t) ==
    /\ pc[t] \in {"count", "own"} <=> todo[t] # <<>>
    /\ read[t] # Nil => pc[t] = "count"
    /\ pc[t] = "attempt" => tries[t] < MAX_RETRY
    /\ todo[t] # <<>> => counting_on

\* What a thread has counted and is about to count are its attempts.  It gives
\* up after a retry that it has counted, or before counting was on.
CountsOk(t, k) ==
    /\ ~counting_on => \A n \in Counters : own[n][k][t] = 0
    /\ own["success"][k][t] + own["late"][k][t] + own["retry"][k][t] + own["failure"][k][t]
           + (IF k = sequence[t] THEN pending(t) ELSE 0) = attempts[k][t]
    /\ own["retry"][k][t] >= -1
    /\ k = sequence[t] /\ (pc[t] = "giveup" \/ todo[t] = GivenUp) => own["retry"][k][t] >= 0

\* The threads are started in turn.
InTurn == \A t, u \in Threads : Created(t) /\ u < t => Created(u)

ThreadsInv == /\ ThreadTypes /\ InTurn
              /\ \A t \in Threads : ThreadOk(t) /\ \A k \in Kinds : CountsOk(t, k)

\* They are as claimed between the increments.
LEMMA CountedIsAttempts == ThreadsInv => AttemptsCounted
<1> SUFFICES ASSUME ThreadsInv, NEW t \in Threads, NEW k \in Kinds
             PROVE  /\ todo[t] = <<>> => own["success"][k][t] + own["late"][k][t]
                           + own["retry"][k][t] + own["failure"][k][t] = attempts[k][t]
                    /\ own["retry"][k][t] >= -1
    BY DEF AttemptsCounted
<1>1. CountsOk(t, k)
    BY DEF ThreadsInv
<1>2. todo[t] = <<>> => pending(t) = 0
    BY DEF pending
<1>3. \A n \in Counters : own[n][k][t] \in Int
    BY DEF ThreadsInv, ThreadTypes
<1> QED BY <1>1, <1>2, <1>3 DEF CountsOk, Counters

\* Nothing is counted at first.
LEMMA ThreadsInit == Init => ThreadsInv
<1> SUFFICES ASSUME Init PROVE ThreadsInv
    OBVIOUS
<1>1. 0 \in 0..MAX_RETRY /\ 0 \in Kinds /\ 0 \in 0..MaxCalls /\ <<>> \in Plans /\ "none" \in Labels
    BY DEF Kinds, Plans, Labels
<1>2. ThreadTypes
    <2>1. own \in [Counters -> [Kinds -> [Threads -> Int]]] /\ attempts \in [Kinds -> [Threads -> Int]]
        BY DEF Init
    <2>2. /\ pc \in [Threads -> Labels] /\ sequence \in [Threads -> Kinds]
          /\ tries \in [Threads -> 0..MAX_RETRY] /\ todo \in [Threads -> Plans] /\ DOMAIN read = Threads
        BY <1>1 DEF Init
    <2> QED BY <1>1, <2>1, <2>2 DEF Init, ThreadTypes
<1>3. ASSUME NEW t \in Threads PROVE ThreadOk(t)
    BY <1>3 DEF Init, ThreadOk
<1>4. ASSUME NEW t \in Threads, NEW k \in Kinds PROVE CountsOk(t, k)
    <2>1. \A n \in Counters : own[n][k][t] = 0
        BY DEF Init
    <2>2. attempts[k][t] = 0 /\ pending(t) = 0 /\ pc[t] = "none" /\ todo[t] = <<>>
        BY DEF Init, pending
    <2> QED BY <2>1, <2>2, PlanSteps DEF CountsOk, Counters
<1> QED BY <1>2, <1>3, <1>4 DEF ThreadsInv, InTurn, Created, Init

\* Nothing of t has changed.
Same(t) ==
    /\ pc'[t] = pc[t] /\ sequence'[t] = sequence[t] /\ tries'[t] = tries[t]
    /\ todo'[t] = todo[t] /\ read'[t] = read[t]
    /\ \A k \in Kinds : /\ attempts'[k][t] = attempts[k][t]
                        /\ \A n \in Counters : own'[n][k][t] = own[n][k][t]

\* A thread of which nothing has changed is as it should be.
LEMMA SameIsOk ==
    ASSUME ThreadsInv, NEW t \in Threads, Same(t), counting_on' = counting_on
    PROVE  ThreadOk(t)' /\ \A k \in Kinds : CountsOk(t, k)'
<1>1. ThreadOk(t) /\ \A k \in Kinds : CountsOk(t, k)
    BY DEF ThreadsInv
<1>2. ThreadOk(t)'
    BY <1>1 DEF ThreadOk, Same
<1>3. ASSUME NEW k \in Kinds PROVE CountsOk(t, k)'
    <2>1. pending(t)' = pending(t)
        BY DEF Same, pending
    <2>2. \A n \in Counters : own'[n][k][t] = own[n][k][t]
        BY DEF Same
    <2> QED BY <1>1, <2>1, <2>2 DEF Same, CountsOk, Counters
<1> QED BY <1>2, <1>3

\* What the counted result of an attempt leaves to be done.
LEMMA CountedThen ==
    ASSUME ThreadTypes, NEW t \in Threads, NEW plan \in Plans \ {<<>>},
           NEW next \in Labels \ {"count", "own"}, counted(t, plan, next)
    PROVE  /\ pc' \in [Threads -> Labels] /\ todo' \in [Threads -> Plans]
           /\ \A u \in Threads \ {t} : pc'[u] = pc[u] /\ todo'[u] = todo[u]
           /\ IF counting_on THEN pc'[t] = "count" /\ todo'[t] = plan
                             ELSE pc'[t] = next /\ todo'[t] = todo[t]
    BY DEF ThreadTypes, counted, goto, Labels

\* What noteAttempt adds to the attempts.
LEMMA NotedAttempt ==
    ASSUME ThreadTypes, NEW t \in Threads, noteAttempt(t)
    PROVE  /\ attempts' \in [Kinds -> [Threads -> Int]]
           /\ \A u \in Threads \ {t}, k \in Kinds : attempts'[k][u] = attempts[k][u]
           /\ \A k \in Kinds : attempts'[k][t] =
                  attempts[k][t] + IF counting_on /\ k = sequence[t] THEN 1 ELSE 0
    BY DEF ThreadTypes, noteAttempt

\* A thread touches nothing of the others.
StepOk(t) ==
    /\ ThreadTypes' /\ counting_on' = counting_on /\ Created(t) /\ Created(t)'
    /\ \A u \in Threads \ {t} : Same(u)
    /\ ThreadOk(t)' /\ \A k \in Kinds : CountsOk(t, k)'

\* An attempt that succeeds: one success or one late one is to be counted.
LEMMA SucceedsOk ==
    ASSUME ThreadsInv, NEW t \in Threads, NEW rt, NEW rtime, pc[t] = "attempt", Succeeds(t, rt, rtime)
    PROVE  StepOk(t)
<1>1. PICK n \in Counters : n \in {"success", "late"} /\ counted(t, Once(n), "draw")
    BY DEF Succeeds, Counters, Once
<1>2. Once(n) \in Plans \ {<<>>} /\ "draw" \in Labels \ {"count", "own"} /\ Once(n) # GivenUp
    BY PlanSteps DEF Plans, Labels
<1>3. /\ pc' \in [Threads -> Labels] /\ todo' \in [Threads -> Plans]
      /\ \A u \in Threads \ {t} : pc'[u] = pc[u] /\ todo'[u] = todo[u]
      /\ IF counting_on THEN pc'[t] = "count" /\ todo'[t] = Once(n)
                        ELSE pc'[t] = "draw" /\ todo'[t] = todo[t]
    BY <1>1, <1>2, CountedThen DEF ThreadsInv
<1>4. /\ attempts' \in [Kinds -> [Threads -> Int]]
      /\ \A u \in Threads \ {t}, k \in Kinds : attempts'[k][u] = attempts[k][u]
      /\ \A k \in Kinds : attempts'[k][t] =
             attempts[k][t] + IF counting_on /\ k = sequence[t] THEN 1 ELSE 0
    BY NotedAttempt DEF ThreadsInv, Succeeds
<1>5. UNCHANGED <<counting_on, own, sequence, tries, read, calls>>
    BY DEF Succeeds, countVars
<1>6. ThreadTypes'
    BY <1>3, <1>4, <1>5 DEF ThreadsInv, ThreadTypes
<1>7. \A u \in Threads \ {t} : Same(u)
    BY <1>3, <1>4, <1>5 DEF Same
<1>8. ThreadOk(t) /\ todo[t] = <<>>
    BY DEF ThreadsInv, ThreadOk
<1>9. ThreadOk(t)'
    BY <1>2, <1>3, <1>5, <1>8 DEF ThreadOk
<1>10. ASSUME NEW k \in Kinds PROVE CountsOk(t, k)'
    <2>1. CountsOk(t, k) /\ pending(t) = 0
        BY <1>8 DEF ThreadsInv, pending
    <2>2. pending(t)' = IF counting_on THEN 1 ELSE 0
        BY <1>2, <1>3, <1>8 DEF pending
    <2>3. \A m \in Counters : own[m][k][t] \in Int
        BY DEF ThreadsInv, ThreadTypes
    <2>4. pc'[t] # "giveup" /\ todo'[t] # GivenUp
        BY <1>2, <1>3, <1>8, PlanSteps
    <2> QED BY <1>4, <1>5, <2>1, <2>2, <2>3, <2>4 DEF CountsOk, Counters
<1>11. Created(t) /\ Created(t)'
    BY <1>3 DEF Created
<1> QED BY <1>5, <1>6, <1>7, <1>9, <1>10, <1>11 DEF StepOk

\* An attempt that fails: one retry is to be counted, and the call may be
\* over.
LEMMA FailsOk ==
    ASSUME ThreadsInv, NEW t \in Threads, pc[t] = "attempt", Fails(t)
    PROVE  StepOk(t)
<1>1. PICK next \in {"giveup", "attempt"} : next = AfterRetry(t)' /\ counted(t, Once("retry"), next)
    BY DEF Fails, AfterRetry, Once
<1>2. /\ Once("retry") \in Plans \ {<<>>} /\ next \in Labels \ {"count", "own"}
      /\ Once("retry") # GivenUp
    BY PlanSteps DEF Plans, Labels, Counters
<1>3. /\ pc' \in [Threads -> Labels] /\ todo' \in [Threads -> Plans]
      /\ \A u \in Threads \ {t} : pc'[u] = pc[u] /\ todo'[u] = todo[u]
      /\ IF counting_on THEN pc'[t] = "count" /\ todo'[t] = Once("retry")
                        ELSE pc'[t] = next /\ todo'[t] = todo[t]
    BY <1>1, <1>2, CountedThen DEF ThreadsInv
<1>4. /\ attempts' \in [Kinds -> [Threads -> Int]]
      /\ \A u \in Threads \ {t}, k \in Kinds : attempts'[k][u] = attempts[k][u]
      /\ \A k \in Kinds : attempts'[k][t] =
             attempts[k][t] + IF counting_on /\ k = sequence[t] THEN 1 ELSE 0
    BY NotedAttempt DEF ThreadsInv, Fails
<1>5. UNCHANGED <<counting_on, own, sequence, read, calls>>
    BY DEF Fails, countVars
<1>6. tries[t] < MAX_RETRY /\ ThreadOk(t) /\ todo[t] = <<>>
    BY DEF ThreadsInv, ThreadOk
<1>7. /\ tries' \in [Threads -> 0..MAX_RETRY] /\ tries'[t] = tries[t] + 1
      /\ \A u \in Threads \ {t} : tries'[u] = tries[u]
    BY <1>6 DEF Fails, ThreadsInv, ThreadTypes
<1>8. ThreadTypes'
    BY <1>3, <1>4, <1>5, <1>7 DEF ThreadsInv, ThreadTypes
<1>9. \A u \in Threads \ {t} : Same(u)
    BY <1>3, <1>4, <1>5, <1>7 DEF Same
<1>10. ThreadOk(t)'
    <2>1. next = "attempt" => tries'[t] < MAX_RETRY
        BY <1>1, <1>7 DEF AfterRetry
    <2> QED BY <1>2, <1>3, <1>5, <1>6, <2>1 DEF ThreadOk
<1>11. ASSUME NEW k \in Kinds PROVE CountsOk(t, k)'
    <2>1. CountsOk(t, k) /\ pending(t) = 0
        BY <1>6 DEF ThreadsInv, pending
    <2>2. pending(t)' = IF counting_on THEN 1 ELSE 0
        BY <1>2, <1>3, <1>6 DEF pending
    <2>3. \A m \in Counters : own[m][k][t] \in Int
        BY DEF ThreadsInv, ThreadTypes
    <2>4. counting_on => pc'[t] # "giveup" /\ todo'[t] # GivenUp
        BY <1>2, <1>3
    <2>5. CASE counting_on
        BY <1>4, <1>5, <2>1, <2>2, <2>3, <2>4, <2>5 DEF CountsOk, Counters
    <2>6. CASE ~counting_on
        <3>1. \A m \in Counters : own'[m][k][t] = 0
            BY <1>5, <2>1, <2>6 DEF CountsOk
        <3>2. attempts'[k][t] = attempts[k][t] /\ pending(t)' = 0 /\ attempts[k][t] = 0
            BY <1>4, <2>1, <2>2, <2>6 DEF CountsOk, Counters, ThreadsInv, ThreadTypes
        <3> QED BY <1>5, <2>6, <3>1, <3>2 DEF CountsOk, Counters
    <2> QED BY <2>5, <2>6
<1>12. Created(t) /\ Created(t)'
    BY <1>3 DEF Created
<1> QED BY <1>5, <1>8, <1>9, <1>10, <1>11, <1>12 DEF StepOk

\* The other steps before and after the attempts change no counts.
LEMMA ControlOk ==
    ASSUME ThreadsInv, NEW t \in Threads,
           DrawNext(t) \/ BeginCall(t) \/ EndThread(t) \/ (pc[t] = "attempt" /\ Throws(t))
    PROVE  StepOk(t)
<1>1. /\ UNCHANGED <<counting_on, own, attempts, todo, read>>
      /\ pc' \in [Threads -> Labels] /\ \A u \in Threads \ {t} : pc'[u] = pc[u]
      /\ pc[t] \in {"draw", "loop", "attempt"} /\ pc'[t] \in {"loop", "attempt", "ended"}
      /\ pc'[t] = "attempt" => BeginCall(t)
    <2>1. CASE DrawNext(t)
        BY <2>1 DEF DrawNext, at, goto, countVars, ThreadsInv, ThreadTypes, Labels
    <2>2. CASE BeginCall(t)
        BY <2>2 DEF BeginCall, at, goto, countVars, ThreadsInv, ThreadTypes, Labels
    <2>3. CASE EndThread(t)
        BY <2>3 DEF EndThread, at, goto, countVars, ThreadsInv, ThreadTypes, Labels
    <2>4. CASE pc[t] = "attempt" /\ Throws(t)
        BY <2>4 DEF Throws, goto, countVars, ThreadsInv, ThreadTypes, Labels
    <2> QED BY <2>1, <2>2, <2>3, <2>4
<1>2. /\ sequence' \in [Threads -> Kinds] /\ \A u \in Threads \ {t} : sequence'[u] = sequence[u]
      /\ tries' \in [Threads -> 0..MAX_RETRY] /\ \A u \in Threads \ {t} : tries'[u] = tries[u]
      /\ pc'[t] = "attempt" => tries'[t] = 0
      /\ calls' \in 0..MaxCalls
    <2>0. ThreadTypes
        BY DEF ThreadsInv
    <2>1. CASE DrawNext(t)
        <3>1. PICK card \in Kinds : sequence' = [sequence EXCEPT ![t] = card]
            BY <2>1 DEF DrawNext
        <3>2. pc'[t] = "loop" /\ UNCHANGED <<tries, calls>>
            BY <2>0, <2>1 DEF DrawNext, goto, ThreadTypes
        <3> QED BY <2>0, <3>1, <3>2 DEF ThreadTypes
    <2>2. CASE BeginCall(t)
        <3>1. calls' = calls + 1 /\ calls < MaxCalls /\ tries' = [tries EXCEPT ![t] = 0]
              /\ UNCHANGED sequence
            BY <2>2 DEF BeginCall
        <3>2. calls' \in 0..MaxCalls
            BY <2>0, <3>1 DEF ThreadTypes
        <3> QED BY <2>0, <3>1, <3>2 DEF ThreadTypes
    <2>3. CASE EndThread(t) \/ Throws(t)
        <3>1. UNCHANGED <<tries, calls, sequence>> /\ pc'[t] = "ended"
            BY <2>0, <2>3 DEF EndThread, Throws, goto, ThreadTypes
        <3> QED BY <2>0, <3>1 DEF ThreadTypes
    <2> QED BY <2>1, <2>2, <2>3
<1>3. ThreadOk(t) /\ todo[t] = <<>>
    BY <1>1 DEF ThreadsInv, ThreadOk
<1>4. ThreadTypes'
    BY <1>1, <1>2 DEF ThreadsInv, ThreadTypes
<1>5. \A u \in Threads \ {t} : Same(u)
    BY <1>1, <1>2 DEF Same
<1>6. ThreadOk(t)'
    BY <1>1, <1>2, <1>3 DEF ThreadOk
<1>7. ASSUME NEW k \in Kinds PROVE CountsOk(t, k)'
    <2>1. CountsOk(t, k) /\ pending(t) = 0 /\ pending(t)' = 0 /\ todo'[t] # GivenUp
        BY <1>1, <1>3, PlanSteps DEF ThreadsInv, pending
    <2>2. \A m \in Counters : own[m][k][t] \in Int
        BY DEF ThreadsInv, ThreadTypes
    <2> QED BY <1>1, <2>1, <2>2 DEF CountsOk, Counters
<1>8. Created(t) /\ Created(t)'
    BY <1>1 DEF Created
<1> QED BY <1>1, <1>4, <1>5, <1>6, <1>7, <1>8 DEF StepOk

\* A call is given up: a retry becomes a failure.
LEMMA GiveUpOk ==
    ASSUME ThreadsInv, NEW t \in Threads, GiveUp(t)
    PROVE  StepOk(t)
<1>1. counted(t, GivenUp, "draw") /\ pc[t] = "giveup"
    BY DEF GiveUp, GivenUp, at
<1>2. GivenUp \in Plans \ {<<>>} /\ "draw" \in Labels \ {"count", "own"}
    BY PlanSteps DEF Plans, Labels
<1>3. /\ pc' \in [Threads -> Labels] /\ todo' \in [Threads -> Plans]
      /\ \A u \in Threads \ {t} : pc'[u] = pc[u] /\ todo'[u] = todo[u]
      /\ IF counting_on THEN pc'[t] = "count" /\ todo'[t] = GivenUp
                        ELSE pc'[t] = "draw" /\ todo'[t] = todo[t]
    BY <1>1, <1>2, CountedThen DEF ThreadsInv
<1>4. /\ UNCHANGED <<counting_on, own, attempts, sequence, read, calls>>
      /\ tries' \in [Threads -> 0..MAX_RETRY] /\ \A u \in Threads \ {t} : tries'[u] = tries[u]
    BY DEF GiveUp, countVars, ThreadsInv, ThreadTypes
<1>5. ThreadOk(t) /\ todo[t] = <<>>
    BY <1>1 DEF ThreadsInv, ThreadOk
<1>6. ThreadTypes'
    BY <1>3, <1>4 DEF ThreadsInv, ThreadTypes
<1>7. \A u \in Threads \ {t} : Same(u)
    BY <1>3, <1>4 DEF Same
<1>8. ThreadOk(t)'
    BY <1>2, <1>3, <1>4, <1>5 DEF ThreadOk
<1>9. ASSUME NEW k \in Kinds PROVE CountsOk(t, k)'
    <2>1. CountsOk(t, k) /\ pending(t) = 0 /\ pending(t)' = 0
        BY <1>3, <1>5 DEF ThreadsInv, pending
    <2>2. \A m \in Counters : own[m][k][t] \in Int
        BY DEF ThreadsInv, ThreadTypes
    <2> QED BY <1>1, <1>4, <2>1, <2>2 DEF CountsOk, Counters
<1>10. Created(t) /\ Created(t)'
    BY <1>1, <1>3 DEF Created
<1> QED BY <1>4, <1>6, <1>7, <1>8, <1>9, <1>10 DEF StepOk

\* What a thread does to a total changes none of its own counts.
LEMMA TotalOk ==
    ASSUME ThreadsInv, NEW t \in Threads, ReadTotal(t) \/ WriteTotal(t)
    PROVE  StepOk(t)
<1>1. /\ UNCHANGED <<counting_on, own, attempts, sequence, tries, todo, calls>>
      /\ pc[t] = "count" /\ pc'[t] \in {"count", "own"} /\ pc' \in [Threads -> Labels]
      /\ \A u \in Threads \ {t} : pc'[u] = pc[u] /\ read'[u] = read[u]
      /\ DOMAIN read' = Threads /\ (read'[t] # Nil => pc'[t] = "count")
    <2>1. CASE ReadTotal(t)
        <3>1. PICK v : read' = [read EXCEPT ![t] = v]
            BY <2>1 DEF ReadTotal
        <3>2. pc[t] = "count" /\ UNCHANGED <<counting_on, own, attempts, pc, sequence, tries, todo, calls>>
            BY <2>1 DEF ReadTotal, at, countVars
        <3> QED BY <3>1, <3>2 DEF ThreadsInv, ThreadTypes
    <2>2. CASE WriteTotal(t)
        BY <2>2 DEF WriteTotal, at, goto, ThreadsInv, ThreadTypes, Labels
    <2> QED BY <2>1, <2>2
<1>2. ThreadOk(t) /\ todo[t] # <<>>
    BY <1>1 DEF ThreadsInv, ThreadOk
<1>3. ThreadTypes'
    BY <1>1 DEF ThreadsInv, ThreadTypes
<1>4. \A u \in Threads \ {t} : Same(u)
    BY <1>1 DEF Same
<1>5. ThreadOk(t)'
    BY <1>1, <1>2 DEF ThreadOk
<1>6. ASSUME NEW k \in Kinds PROVE CountsOk(t, k)'
    <2>1. CountsOk(t, k) /\ pending(t)' = pending(t)
        BY <1>1 DEF ThreadsInv, pending
    <2> QED BY <1>1, <2>1 DEF CountsOk, Counters
<1>7. Created(t) /\ Created(t)'
    BY <1>1 DEF Created
<1> QED BY <1>1, <1>3, <1>4, <1>5, <1>6, <1>7 DEF StepOk

\* A thread counts for itself what it had to count, and has one increment less
\* to make.
LEMMA CountOwnOk ==
    ASSUME ThreadsInv, NEW t \in Threads, CountOwn(t)
    PROVE  StepOk(t)
<1>1. pc[t] = "own" /\ ThreadOk(t) /\ todo[t] \in Plans \ {<<>>} /\ counting_on
    BY DEF CountOwn, at, ThreadsInv, ThreadTypes, ThreadOk
<1>2. PICK n \in Counters, a \in {-1, 1}, rest \in Plans :
          /\ Head(todo[t]) = <<n, a>> /\ rest = Tail(todo[t])
          /\ \/ todo[t] = GivenUp /\ n = "retry" /\ a = -1 /\ rest = Once("failure")
             \/ todo[t] = Once(n) /\ a = 1 /\ rest = <<>>
    <2>1. CASE todo[t] = GivenUp
        BY <2>1, PlanSteps DEF Plans, Counters
    <2>2. CASE \E n \in Counters : todo[t] = Once(n)
        BY <2>2, PlanSteps DEF Plans
    <2> QED BY <1>1, <2>1, <2>2 DEF Plans
<1>3. /\ own' \in [Counters -> [Kinds -> [Threads -> Int]]]
      /\ \A m \in Counters, k \in Kinds, u \in Threads :
             own'[m][k][u] = own[m][k][u] + IF m = n /\ k = sequence[t] /\ u = t THEN a ELSE 0
    <2>1. own' = [own EXCEPT ![n][sequence[t]][t] = @ + a]
        <3>1. Head(todo[t])[1] = n /\ Head(todo[t])[2] = a
            BY <1>2
        <3> QED BY <3>1 DEF CountOwn
    <2>2. own \in [Counters -> [Kinds -> [Threads -> Int]]] /\ sequence[t] \in Kinds /\ a \in Int
        BY DEF ThreadsInv, ThreadTypes
    <2> QED BY <2>1, <2>2
<1>4. /\ todo' \in [Threads -> Plans] /\ todo'[t] = rest
      /\ \A u \in Threads \ {t} : todo'[u] = todo[u]
    BY <1>2 DEF CountOwn, ThreadsInv, ThreadTypes
<1>5. UNCHANGED <<counting_on, attempts, sequence, tries, read, calls>>
    BY DEF CountOwn
<1>6. /\ rest # <<>> => Continue(t) = "count"
      /\ rest = <<>> => Continue(t) \in {"draw", "giveup", "attempt"}
      /\ Continue(t) = "attempt" => tries[t] # MAX_RETRY
      /\ Continue(t) = "giveup" => n = "retry" /\ a = 1
    <2>1. CASE todo[t] = GivenUp
        <3>1. Len(todo[t]) > 1 /\ Head(todo[t]) # <<"retry", 1>>
            BY <2>1, PlanSteps
        <3>2. Continue(t) = "count"
            BY <3>1 DEF Continue
        <3>3. rest # <<>>
            BY <1>2, <2>1, PlanSteps DEF Counters
        <3> QED BY <3>2, <3>3
    <2>2. CASE todo[t] = Once(n) /\ a = 1 /\ rest = <<>>
        <3>1. Len(todo[t]) = 1
            BY <2>2, PlanSteps
        <3>2. Continue(t) = IF <<n, a>> = <<"retry", 1>> THEN AfterRetry(t) ELSE "draw"
            BY <1>2, <3>1 DEF Continue
        <3> QED BY <2>2, <3>2 DEF AfterRetry
    <2> QED BY <1>2, <2>1, <2>2
<1>7. /\ pc' \in [Threads -> Labels] /\ pc'[t] = Continue(t)
      /\ \A u \in Threads \ {t} : pc'[u] = pc[u]
    BY <1>6 DEF CountOwn, goto, ThreadsInv, ThreadTypes, Labels
<1>8. ThreadTypes'
    BY <1>3, <1>4, <1>5, <1>7 DEF ThreadsInv, ThreadTypes
<1>9. \A u \in Threads \ {t} : Same(u)
    <2> SUFFICES ASSUME NEW u \in Threads \ {t} PROVE Same(u)
        OBVIOUS
    <2>1. \A k \in Kinds, m \in Counters : own'[m][k][u] = own[m][k][u]
        BY <1>3 DEF ThreadsInv, ThreadTypes
    <2> QED BY <1>4, <1>5, <1>7, <2>1 DEF Same
<1>10. ThreadOk(t)'
    <2>1. read[t] = Nil /\ tries[t] \in 0..MAX_RETRY
        BY <1>1 DEF ThreadOk, ThreadsInv, ThreadTypes
    <2> QED BY <1>1, <1>2, <1>4, <1>5, <1>6, <1>7, <2>1 DEF ThreadOk
<1>11. ASSUME NEW k \in Kinds PROVE CountsOk(t, k)'
    <2>1. CountsOk(t, k)
        BY DEF ThreadsInv
    <2>2. /\ a = 1 => pending(t) = 1 /\ pending(t)' = 0
          /\ a = -1 => pending(t) = 0 /\ pending(t)' = 1 /\ todo[t] = GivenUp
        BY <1>2, <1>4, PlanSteps DEF pending, Counters
    <2>3. todo'[t] # GivenUp
        BY <1>2, <1>4, PlanSteps DEF Counters
    <2>4. \A m \in Counters : own[m][k][t] \in Int
        BY DEF ThreadsInv, ThreadTypes
    <2>5. \A m \in Counters : own'[m][k][t] = own[m][k][t] + IF m = n /\ k = sequence[t] THEN a ELSE 0
        BY <1>3
    <2>6. pc'[t] = "giveup" => n = "retry" /\ a = 1
        BY <1>6, <1>7
    <2>7. /\ attempts'[k][t] = attempts[k][t] /\ sequence'[t] = sequence[t] /\ counting_on'
          /\ pending(t) \in Int /\ attempts[k][t] \in Int
        BY <1>1, <1>5 DEF ThreadsInv, ThreadTypes, pending
    <2>8. CASE k = sequence[t]
        <3>1. own["retry"][k][t] >= (IF a = -1 THEN 0 ELSE -1)
            BY <2>1, <2>2, <2>8 DEF CountsOk
        <3>2. own'["retry"][k][t] >= -1 /\ (pc'[t] = "giveup" => own'["retry"][k][t] >= 0)
            BY <1>2, <2>4, <2>5, <2>6, <2>8, <3>1 DEF Counters
        <3>3. own'["success"][k][t] + own'["late"][k][t] + own'["retry"][k][t] + own'["failure"][k][t]
                  = own["success"][k][t] + own["late"][k][t] + own["retry"][k][t] + own["failure"][k][t] + a
            <4>1. n \in {"success", "late", "retry", "failure"} /\ a \in Int
                BY DEF Counters
            <4>2. \A m \in {"success", "late", "retry", "failure"} :
                      own[m][k][t] \in Int /\ own'[m][k][t] = own[m][k][t] + IF m = n THEN a ELSE 0
                BY <2>4, <2>5, <2>8 DEF Counters
            <4>3. CASE n = "success"
                BY <4>1, <4>2, <4>3
            <4>4. CASE n = "late"
                BY <4>1, <4>2, <4>4
            <4>5. CASE n = "retry"
                BY <4>1, <4>2, <4>5
            <4>6. CASE n = "failure"
                BY <4>1, <4>2, <4>6
            <4> QED BY <4>1, <4>3, <4>4, <4>5, <4>6
        <3>4. own'["success"][k][t] + own'["late"][k][t] + own'["retry"][k][t] + own'["failure"][k][t]
                  + pending(t)' = attempts'[k][t]
            BY <2>1, <2>2, <2>4, <2>7, <2>8, <3>3 DEF CountsOk, Counters
        <3> QED BY <2>3, <2>7, <2>8, <3>2, <3>4 DEF CountsOk
    <2>9. CASE k # sequence[t]
        <3>1. \A m \in Counters : own'[m][k][t] = own[m][k][t]
            BY <2>4, <2>5, <2>9
        <3> QED BY <2>1, <2>7, <2>9, <3>1 DEF CountsOk, Counters
    <2> QED BY <2>8, <2>9
<1>12. Created(t) /\ Created(t)'
    BY <1>1, <1>6, <1>7 DEF Created
<1> QED BY <1>5, <1>8, <1>9, <1>10, <1>11, <1>12 DEF StepOk

\* The next thread is the first that has not been started.
LEMMA NextThread ==
    ASSUME ThreadsInv, NEW t \in Threads, t = Cardinality({u \in Threads : Created(u)})
    PROVE  ~Created(t) /\ \A u \in Threads : u < t => Created(u)
<1> DEFINE started == {u \in Threads : Created(u)}
<1>0. /\ Threads \subseteq Nat /\ IsFiniteSet(Threads) /\ started \in SUBSET Threads
      /\ \A n \in Threads : 0..n \subseteq Threads /\ IsFiniteSet(0..n) /\ Cardinality(0..n) = n + 1
    <2>1. IsFiniteSet(Threads) /\ Threads \subseteq Nat
        BY FS_Interval DEF Threads
    <2>2. ASSUME NEW n \in Threads
          PROVE  0..n \subseteq Threads /\ IsFiniteSet(0..n) /\ Cardinality(0..n) = n + 1
        <3>1. n \in Nat /\ n < numConn
            BY DEF Threads
        <3>2. IsFiniteSet(0..n) /\ Cardinality(0..n) = n + 1
            BY <3>1, FS_Interval
        <3> QED BY <3>1, <3>2 DEF Threads
    <2> QED BY <2>1, <2>2
<1>1. ASSUME Created(t) PROVE FALSE
    <2>1. 0..t \in SUBSET started
        <3>1. 0..t \subseteq Threads /\ t \in Nat
            BY <1>0
        <3>2. \A u \in 0..t : u = t \/ u < t
            BY <3>1
        <3> QED BY <1>1, <3>1, <3>2 DEF ThreadsInv, InTurn
    <2>2. IsFiniteSet(started)
        BY <1>0, FS_Subset
    <2>3. t + 1 <= t
        <3>1. Cardinality(0..t) <= Cardinality(started)
            BY <2>1, <2>2, FS_Subset
        <3> QED BY <1>0, <3>1
    <2>4. t \in Nat
        BY <1>0
    <2> QED BY <2>3, <2>4
<1>2. ASSUME NEW u \in Threads, u < t, ~Created(u) PROVE FALSE
    <2>1. started \in SUBSET (0..u) /\ u \notin started /\ u \in 0..u
        <3>1. u \in Nat /\ \A v \in Threads : v \in Nat /\ (v \in 0..u \/ u < v)
            BY <1>0
        <3>2. \A v \in Threads : u < v => ~Created(v)
            BY <1>2 DEF ThreadsInv, InTurn
        <3>3. \A v \in started : v \in 0..u
            BY <3>1, <3>2
        <3>4. u \notin started
            BY <1>2
        <3> HIDE DEF started
        <3> QED BY <3>1, <3>3, <3>4
    <2>2. Cardinality(started) <= u + 1 /\ Cardinality(started) # u + 1
        <3>1. IsFiniteSet(0..u) /\ Cardinality(0..u) = u + 1
            BY <1>0
        <3>2. Cardinality(started) <= Cardinality(0..u) /\ Cardinality(started) # Cardinality(0..u)
            BY <2>1, <3>1, FS_Subset
        <3> QED BY <3>1, <3>2
    <2> QED BY <1>0, <1>2, <2>2
<1> QED BY <1>1, <1>2

\* The steps of the main thread: it starts a thread, or counting begins.
LEMMA MainOk ==
    ASSUME ThreadsInv, MainStep \/ ConnectFails
    PROVE  ThreadsInv'
<1>1. /\ UNCHANGED <<own, attempts, sequence, tries, todo, read, calls>>
      /\ pc' \in [Threads -> Labels] /\ InTurn'
      /\ \A t \in Threads : pc'[t] = pc[t] \/ (pc[t] = "none" /\ pc'[t] = "draw")
      /\ counting_on' \in {counting_on, TRUE}
    <2>1. ASSUME NEW t \in Threads, StartThread(t)
          PROVE  /\ UNCHANGED <<counting_on, own, attempts, sequence, tries, todo, read, calls>>
                 /\ pc' \in [Threads -> Labels] /\ InTurn'
                 /\ \A u \in Threads : pc'[u] = pc[u] \/ (pc[u] = "none" /\ pc'[u] = "draw")
        <3>1. ~Created(t) /\ \A u \in Threads : u < t => Created(u)
            BY <2>1, NextThread DEF StartThread
        <3>2. /\ pc' \in [Threads -> Labels] /\ pc'[t] = "draw"
              /\ \A u \in Threads \ {t} : pc'[u] = pc[u]
            BY <2>1 DEF StartThread, ThreadsInv, ThreadTypes, Labels
        <3>3. InTurn'
            <4>1. \A u \in Threads : Created(u)' <=> Created(u) \/ u = t
                BY <3>2 DEF Created
            <4> QED BY <3>1, <4>1 DEF ThreadsInv, InTurn, Threads
        <3> QED BY <2>1, <3>1, <3>2, <3>3 DEF StartThread, countVars, Created
    <2>2. CASE EndRampup \/ StopThreads \/ Exit \/ ConnectFails
        BY <2>2 DEF EndRampup, StopThreads, Exit, ConnectFails, countVars, threadVars, ThreadsInv,
                    ThreadTypes, InTurn, Created
    <2> QED BY <2>1, <2>2 DEF MainStep
<1>2. ThreadTypes'
    BY <1>1 DEF ThreadsInv, ThreadTypes
<1>3. ASSUME NEW t \in Threads PROVE ThreadOk(t)'
    <2>1. ThreadOk(t) /\ (pc'[t] = pc[t] \/ (pc[t] = "none" /\ pc'[t] = "draw"))
        BY <1>1 DEF ThreadsInv
    <2>2. UNCHANGED <<todo, read, tries>>
        BY <1>1
    <2>3. counting_on => counting_on'
        BY <1>1, Zenon
    <2> QED BY <2>1, <2>2, <2>3 DEF ThreadOk
<1>4. ASSUME NEW t \in Threads, NEW k \in Kinds PROVE CountsOk(t, k)'
    <2>1. CountsOk(t, k) /\ pending(t)' = pending(t)
        BY <1>1 DEF ThreadsInv, pending
    <2>2. ~counting_on' => ~counting_on
        BY <1>1 DEF ThreadsInv, ThreadTypes
    <2> QED BY <1>1, <2>1, <2>2 DEF CountsOk, Counters
<1> QED BY <1>1, <1>2, <1>3, <1>4 DEF ThreadsInv

\* Every step of every thread and of the main thread keeps the counts exact.
LEMMA ThreadsNext == ThreadsInv /\ [Next]_vars => ThreadsInv'
<1> SUFFICES ASSUME ThreadsInv, [Next]_vars PROVE ThreadsInv'
    OBVIOUS
<1>1. ASSUME NEW t \in Threads, ThreadStep(t) PROVE ThreadsInv'
    <2>1. StepOk(t)
        <3>1. ASSUME NEW kind, NEW rtime, attempt(t, kind, rtime) PROVE StepOk(t)
            BY <3>1, SucceedsOk, FailsOk, ControlOk DEF attempt, at
        <3> QED BY <1>1, <3>1, ControlOk, GiveUpOk, TotalOk, CountOwnOk
                   DEF ThreadStep, doNeword, doPayment, doOrdstat, doDelivery, doSlev
    <2>2. \A u \in Threads : ThreadOk(u)' /\ \A k \in Kinds : CountsOk(u, k)'
        BY <2>1, SameIsOk DEF StepOk
    <2>3. InTurn'
        BY <2>1 DEF StepOk, Same, ThreadsInv, InTurn, Created
    <2> QED BY <2>1, <2>2, <2>3 DEF StepOk, ThreadsInv
<1>2. CASE UNCHANGED vars
    <2>1. UNCHANGED <<counting_on, calls, pc, sequence, tries, todo, read, own, attempts>>
        BY <1>2 DEF vars, countVars, threadVars
    <2>2. \A t \in Threads : Same(t)
        BY <2>1 DEF Same
    <2>3. ThreadTypes' /\ InTurn'
        BY <2>1 DEF ThreadsInv, ThreadTypes, InTurn, Created
    <2> QED BY <2>1, <2>2, <2>3, SameIsOk DEF ThreadsInv
<1> QED BY <1>1, <1>2, MainOk DEF Next

-----------------------------------------------------------------------------
(* Drawing from the deck.                                                  *)

\* In the r-th round of the deck each kind has been drawn r times its weight,
\* and once for each of its cards that this round has dealt.
Round(r) ==
    /\ \A k \in Kinds : drawn[k] = r * mix[k] + many(seq, k, nextNum)
    /\ Sum(drawn) = r * Sum(mix) + nextNum

DeckInv ==
    /\ mix \in Mixes /\ seq \in Decks[mix] /\ nextNum \in 0..Sum(mix)
    /\ drawn \in [Kinds -> Nat]
    /\ \E r \in Nat : Round(r)

\* No card has been drawn at first.
LEMMA DeckInit == Init => DeckInv
<1> SUFFICES ASSUME Init PROVE DeckInv
    OBVIOUS
<1>1. mix \in Mixes /\ seq \in Decks[mix] /\ nextNum = 0 /\ drawn = [k \in Kinds |-> 0]
    BY DEF Init
<1>2. Sum(mix) \in Nat
    BY <1>1, DeckIs
<1>3. Sum(drawn) = 0
    <2>1. drawn \in [Kinds -> Int] /\ \A k \in Kinds : drawn[k] = 0
        BY <1>1
    <2> QED BY <2>1, SumOfKinds DEF Kinds
<1>4. \A k \in Kinds : many(seq, k, nextNum) = 0 /\ mix[k] \in Nat /\ drawn[k] = 0
    BY <1>1, CardsAreFinite
<1>5. Round(0)
    <2>1. \A k \in Kinds : 0 * mix[k] = 0
        BY <1>4
    <2>2. 0 * Sum(mix) = 0
        BY <1>2
    <2> QED BY <1>1, <1>3, <1>4, <2>1, <2>2 DEF Round
<1>6. nextNum \in 0..Sum(mix) /\ drawn \in [Kinds -> Nat]
    BY <1>1, <1>2
<1> QED BY <1>1, <1>5, <1>6 DEF DeckInv

\* A card is drawn.
LEMMA DrawnOk ==
    ASSUME DeckInv, NEW card \in Kinds, seqGet(card), drawn' = [drawn EXCEPT ![card] = @ + 1],
           UNCHANGED mix
    PROVE  DeckInv'
<1>1. /\ seq \in Seq(Kinds) /\ Len(seq) = Sum(mix) /\ Sum(mix) \in Nat \ {0}
      /\ \A k \in Kinds : many(seq, k, Sum(mix)) = mix[k] /\ mix[k] \in Nat
    BY DeckIs DEF DeckInv
<1>2. PICK r \in Nat : Round(r)
    BY DEF DeckInv
<1>3. /\ drawn' \in [Kinds -> Nat]
      /\ \A k \in Kinds : drawn'[k] = drawn[k] + IF k = card THEN 1 ELSE 0
      /\ \A k \in Kinds : drawn[k] \in Nat
    BY DEF DeckInv
<1>4. Sum(drawn') = Sum(drawn) + 1 /\ Sum(drawn) \in Int
    <2>1. drawn \in [Kinds -> Int] /\ drawn' \in [Kinds -> Int]
        BY <1>3 DEF DeckInv
    <2>2. /\ Sum(drawn) = drawn[0] + drawn[1] + drawn[2] + drawn[3] + drawn[4]
          /\ Sum(drawn') = drawn'[0] + drawn'[1] + drawn'[2] + drawn'[3] + drawn'[4]
        BY <2>1, SumOfKinds
    <2> QED BY <1>3, <2>2 DEF Kinds
<1>5. nextNum \in Nat /\ nextNum <= Sum(mix) /\ \A k \in Kinds : many(seq, k, nextNum) \in Nat
    BY CardsAreFinite DEF DeckInv
<1>6. CASE /\ nextNum < Len(seq) /\ nextNum' = nextNum + 1 /\ card = seq[nextNum'] /\ UNCHANGED seq
    <2>1. ASSUME NEW k \in Kinds PROVE drawn'[k] = r * mix[k] + many(seq, k, nextNum + 1)
        <3>1. many(seq, k, nextNum + 1) = many(seq, k, nextNum) + IF card = k THEN 1 ELSE 0
            <4>1. card = seq[nextNum + 1]
                BY <1>6
            <4> QED BY <1>5, <4>1, CardsAreFinite
        <3>2. drawn[k] = r * mix[k] + many(seq, k, nextNum)
            BY <1>2 DEF Round
        <3>3. r * mix[k] \in Int
            BY <1>1
        <3> QED BY <1>3, <1>5, <3>1, <3>2, <3>3
    <2>2. Sum(drawn') = r * Sum(mix) + (nextNum + 1)
        <3>1. Sum(drawn) = r * Sum(mix) + nextNum /\ r * Sum(mix) \in Int
            BY <1>1, <1>2 DEF Round
        <3> QED BY <1>4, <1>5, <3>1
    <2>3. Round(r)'
        BY <1>6, <2>1, <2>2 DEF Round
    <2>4. nextNum' \in 0..Sum(mix)'
        BY <1>1, <1>5, <1>6
    <2> QED BY <1>3, <1>6, <2>3, <2>4 DEF DeckInv
<1>7. CASE nextNum >= Len(seq) /\ seq' \in Decks[mix] /\ nextNum' = 1 /\ card = seq'[1]
    <2>0. nextNum = Sum(mix)
        BY <1>1, <1>5, <1>7
    <2>1. ASSUME NEW k \in Kinds PROVE drawn'[k] = (r + 1) * mix[k] + many(seq', k, 1)
        <3>1. many(seq', k, 0) = 0 /\ many(seq', k, 0 + 1) = many(seq', k, 0) + IF card = k THEN 1 ELSE 0
            BY <1>7, CardsAreFinite
        <3>2. drawn[k] = r * mix[k] + mix[k]
            BY <1>1, <1>2, <2>0 DEF Round
        <3>3. (r + 1) * mix[k] = r * mix[k] + mix[k] /\ (r + 1) * mix[k] \in Int
            BY <1>1
        <3>4. many(seq', k, 1) = IF card = k THEN 1 ELSE 0
            BY <3>1
        <3>5. drawn'[k] = drawn[k] + IF k = card THEN 1 ELSE 0
            BY <1>3
        <3> QED BY <3>2, <3>3, <3>4, <3>5
    <2>2. Sum(drawn') = (r + 1) * Sum(mix) + 1
        <3>1. Sum(drawn) = r * Sum(mix) + Sum(mix)
            BY <1>2, <2>0 DEF Round
        <3>2. (r + 1) * Sum(mix) = r * Sum(mix) + Sum(mix) /\ (r + 1) * Sum(mix) \in Int
            BY <1>1
        <3> QED BY <1>4, <3>1, <3>2
    <2>3. Round(r + 1)'
        BY <1>7, <2>1, <2>2 DEF Round
    <2>4. nextNum' \in 0..Sum(mix)' /\ r + 1 \in Nat
        BY <1>1, <1>7
    <2> QED BY <1>3, <1>7, <2>3, <2>4 DEF DeckInv
<1> QED BY <1>6, <1>7 DEF seqGet

\* Only draws touch the deck.
LEMMA DeckNext == DeckInv /\ [Next]_vars => DeckInv'
<1> SUFFICES ASSUME DeckInv, [Next]_vars PROVE DeckInv'
    OBVIOUS
<1>1. CASE UNCHANGED utilVars
    BY <1>1 DEF utilVars, DeckInv, Round
<1>2. ASSUME NEW t \in Threads, DrawNext(t) PROVE DeckInv'
    BY <1>2, DrawnOk DEF DrawNext
<1>3. ASSUME NEW t \in Threads, ThreadStep(t), ~DrawNext(t) PROVE UNCHANGED utilVars
    <2>1. ASSUME NEW kind, NEW rtime, attempt(t, kind, rtime) PROVE UNCHANGED utilVars
        BY <2>1 DEF attempt, Succeeds, Fails, Throws
    <2> QED BY <1>3, <2>1 DEF ThreadStep, BeginCall, EndThread, doNeword, doPayment, doOrdstat,
               doDelivery, doSlev, GiveUp, ReadTotal, WriteTotal, CountOwn
<1>4. MainStep \/ ConnectFails => UNCHANGED utilVars
    BY DEF MainStep, StartThread, EndRampup, StopThreads, Exit, ConnectFails
<1>5. UNCHANGED vars => UNCHANGED utilVars
    BY DEF vars
<1> QED BY <1>1, <1>2, <1>3, <1>4, <1>5 DEF Next

\* What the rounds say of the mix.
LEMMA RoundsMix == DeckInv => DeckMix
<1> SUFFICES ASSUME DeckInv, NEW k \in Kinds
             PROVE  drawn[k] \in (Sum(drawn) \div Sum(mix)) * mix[k]
                                     ..((Sum(drawn) \div Sum(mix)) + 1) * mix[k]
    BY DEF DeckMix
<1>1. /\ Len(seq) = Sum(mix) /\ Sum(mix) \in Nat \ {0}
      /\ many(seq, k, Sum(mix)) = mix[k] /\ mix[k] \in Nat
    BY DeckIs DEF DeckInv
<1>2. PICK r \in Nat : Round(r)
    BY DEF DeckInv
<1>3. PICK n, w, c, j, q : /\ n = Sum(mix) /\ w = mix[k] /\ c = many(seq, k, nextNum) /\ j = nextNum
                           /\ q = Sum(drawn) \div Sum(mix)
    OBVIOUS
<1>4. n \in Nat /\ n > 0 /\ w \in Nat /\ c \in Nat /\ j \in Nat /\ j <= n
    BY <1>1, <1>3, CardsAreFinite DEF DeckInv
<1>5. c <= w
    <2>1. cardsOf(seq, k, j) \in SUBSET cardsOf(seq, k, n) /\ IsFiniteSet(cardsOf(seq, k, n))
        <3>1. IsFiniteSet(cardsOf(seq, k, n))
            BY <1>4, CardsAreFinite
        <3>2. \A i \in 1..j : i \in 1..n
            BY <1>4
        <3> QED BY <3>1, <3>2 DEF cardsOf
    <2>2. many(seq, k, j) <= many(seq, k, n)
        BY <2>1, FS_Subset DEF many
    <2> QED BY <1>1, <1>3, <2>2
<1>6. drawn[k] = r * w + c /\ Sum(drawn) = r * n + j
    BY <1>2, <1>3 DEF Round
<1>7. r * w \in Nat /\ (r + 1) * w = r * w + w /\ r * n \in Nat /\ (r + 1) * n = r * n + n
    BY <1>4
<1>8. CASE j < n
    <2>1. (r * n + j) \div n = r
        BY <1>4, <1>8
    <2>2. q = r
        BY <1>3, <1>6, <2>1
    <2> QED BY <1>3, <1>4, <1>5, <1>6, <1>7, <2>2
<1>9. CASE j = n
    <2>1. ((r + 1) * n) \div n = r + 1
        BY <1>4
    <2>2. q = r + 1
        BY <1>3, <1>6, <1>7, <1>9, <2>1
    <2>3. c = w
        BY <1>1, <1>3, <1>9
    <2>4. ((r + 1) + 1) * w = (r + 1) * w + w
        BY <1>4
    <2> QED BY <1>3, <1>4, <1>6, <1>7, <2>2, <2>3, <2>4
<1> QED BY <1>4, <1>8, <1>9

-----------------------------------------------------------------------------
(* Totals.                                                                 *)

\* The threads that have written a total and not yet their own count.
flying(n, k) == {t \in Threads : pc[t] = "own" /\ sequence[t] = k /\ Head(todo[t])[1] = n}

\* What the threads have counted or are about to count.
counts(n, k) == Sum(own[n][k]) + Cardinality(flying(n, k))

Growing == Counters \ {"retry"}

\* Neither a total nor what a thread has read of it is ahead.
TotalsInv ==
    /\ total \in [Counters -> [Kinds -> Int]]
    /\ \A n \in Growing, k \in Kinds : total[n][k] <= counts(n, k)
    /\ \A t \in Threads : read[t] # Nil =>
           /\ read[t] \in Int
           /\ \A n \in Growing, k \in Kinds :
                  Head(todo[t])[1] = n /\ sequence[t] = k => read[t] <= counts(n, k)

\* A sum over the threads changes with one of its summands.
LEMMA SumOfThreads ==
    ASSUME NEW f \in [Threads -> Int], NEW t \in Threads, NEW a \in Int, NEW g,
           g = [f EXCEPT ![t] = f[t] + a]
    PROVE  Sum(g) = Sum(f) + a
<1>9. PICK n \in Nat : Threads = 0..n
    <2>1. numConn - 1 \in Nat
        OBVIOUS
    <2> QED BY <2>1 DEF Threads
<1>0. /\ f \in [0..n -> Int] /\ g \in [0..n -> Int] /\ t \in 0..n
      /\ \A i \in 0..n : g[i] = f[i] + IF i = t THEN a ELSE 0
    BY <1>9
<1>1. PICK s \in [0..n -> Int] : Sums(f, s, n)
    BY <1>0, SumsExist
<1>2. PICK r : r = [i \in 0..n |-> s[i] + IF i >= t THEN a ELSE 0]
    OBVIOUS
<1>3. Sums(g, r, n)
    <2>1. r[0] = g[0]
        BY <1>0, <1>1, <1>2 DEF Sums
    <2>2. ASSUME NEW i \in 1..n PROVE r[i] = g[i] + r[i - 1]
        <3>1. i \in 0..n /\ i - 1 \in 0..n /\ s[i] = f[i] + s[i - 1]
            BY <1>1 DEF Sums
        <3>2. r[i] = s[i] + (IF i >= t THEN a ELSE 0) /\ r[i - 1] = s[i - 1] + (IF i - 1 >= t THEN a ELSE 0)
            BY <1>2, <3>1
        <3>3. s[i - 1] \in Int /\ f[i] \in Int /\ g[i] = f[i] + IF i = t THEN a ELSE 0
            BY <1>0, <1>1, <3>1
        <3>4. CASE i = t
            BY <1>0, <3>1, <3>2, <3>3, <3>4
        <3>5. CASE i > t
            <4>1. i >= t /\ i - 1 >= t /\ i # t
                BY <1>0, <3>5
            <4> QED BY <1>0, <3>1, <3>2, <3>3, <4>1
        <3>6. CASE i < t
            <4>1. ~(i >= t) /\ ~(i - 1 >= t) /\ i # t
                BY <1>0, <3>6
            <4> QED BY <1>0, <3>1, <3>2, <3>3, <4>1
        <3> QED BY <1>0, <3>4, <3>5, <3>6
    <2> QED BY <2>1, <2>2 DEF Sums
<1>4. Sum(f) = s[n] /\ Sum(g) = r[n]
    BY <1>0, <1>1, <1>3, SumIs
<1> QED BY <1>0, <1>1, <1>2, <1>4

\* What the threads have counted and are about to count is a number.
LEMMA CountsType ==
    ASSUME ThreadTypes, NEW n \in Counters, NEW k \in Kinds
    PROVE  IsFiniteSet(flying(n, k)) /\ Sum(own[n][k]) \in Int /\ counts(n, k) \in Int
<1>1. numConn - 1 \in Nat /\ Threads = 0..numConn - 1 /\ own[n][k] \in [0..numConn - 1 -> Int]
    BY DEF ThreadTypes, Threads
<1>2. Sum(own[n][k]) \in Int
    BY <1>1, SumType
<1>3. IsFiniteSet(flying(n, k))
    <2>1. flying(n, k) \in SUBSET Threads /\ IsFiniteSet(Threads)
        BY <1>1, FS_Interval DEF flying
    <2> QED BY <2>1, FS_Subset
<1>4. Cardinality(flying(n, k)) \in Nat
    BY <1>3, FS_CardinalityType
<1> QED BY <1>2, <1>3, <1>4 DEF counts

\* The same for all counters and kinds.
LEMMA CountsAreNumbers == ThreadTypes => \A n \in Counters, k \in Kinds : counts(n, k) \in Int
    BY CountsType

\* It is enough that nothing that is counted is lost, and that who writes or
\* reads a total is not ahead.
LEMMA TotalsStay ==
    ASSUME ThreadTypes, ThreadTypes', TotalsInv, total' \in [Counters -> [Kinds -> Int]],
           \A n \in Growing, k \in Kinds : counts(n, k)' >= counts(n, k),
           \A n \in Growing, k \in Kinds : total'[n][k] # total[n][k] => total'[n][k] <= counts(n, k)',
           \A t \in Threads : /\ read'[t] # read[t] => read'[t] = Nil \/ read'[t] \in Int
                              /\ read'[t] # Nil => todo'[t] = todo[t] /\ sequence'[t] = sequence[t]
                              /\ read'[t] # read[t] /\ read'[t] # Nil =>
                                     \A n \in Growing, k \in Kinds :
                                         Head(todo[t])[1] = n /\ sequence[t] = k
                                             => read'[t] <= counts(n, k)
    PROVE  TotalsInv'
<1>0. \A n \in Growing : n \in Counters
    BY DEF Growing
<1>1. \A n \in Growing, k \in Kinds : counts(n, k) \in Int /\ counts(n, k)' \in Int
    <2>1. \A n \in Counters, k \in Kinds : counts(n, k) \in Int
        BY CountsAreNumbers
    <2>2. \A n \in Counters, k \in Kinds : counts(n, k)' \in Int
        <3>1. (ThreadTypes => \A n \in Counters, k \in Kinds : counts(n, k) \in Int)'
            BY CountsAreNumbers, PTL
        <3> QED BY <3>1
    <2> QED BY <1>0, <2>1, <2>2
<1>2. ASSUME NEW n \in Growing, NEW k \in Kinds PROVE total'[n][k] <= counts(n, k)'
    <2>1. total[n][k] <= counts(n, k) /\ counts(n, k)' >= counts(n, k) /\ total[n][k] \in Int
        BY <1>0 DEF TotalsInv
    <2>2. CASE total'[n][k] = total[n][k]
        BY <1>1, <2>1, <2>2
    <2>3. CASE total'[n][k] # total[n][k]
        BY <2>3
    <2> QED BY <2>2, <2>3
<1>3. ASSUME NEW t \in Threads, read'[t] # Nil
      PROVE  /\ read'[t] \in Int
             /\ \A n \in Growing, k \in Kinds :
                    Head(todo'[t])[1] = n /\ sequence'[t] = k => read'[t] <= counts(n, k)'
    <2>1. todo'[t] = todo[t] /\ sequence'[t] = sequence[t]
        BY <1>3
    <2>2. read'[t] \in Int
        BY <1>3 DEF TotalsInv
    <2>3. ASSUME NEW n \in Growing, NEW k \in Kinds, Head(todo[t])[1] = n, sequence[t] = k
          PROVE  read'[t] <= counts(n, k)'
        <3>1. read'[t] <= counts(n, k)
            BY <1>3, <2>3 DEF TotalsInv
        <3>2. counts(n, k)' >= counts(n, k) /\ counts(n, k) \in Int /\ counts(n, k)' \in Int
            BY <1>1
        <3> QED BY <2>2, <3>1, <3>2
    <2> QED BY <2>1, <2>2, <2>3
<1> QED BY <1>2, <1>3 DEF TotalsInv

\* Every increment is by one, and only retries are taken back.
LEMMA HeadOfPlan ==
    ASSUME NEW plan \in Plans \ {<<>>}
    PROVE  /\ Head(plan)[1] \in Counters /\ Head(plan)[2] \in {-1, 1}
           /\ Head(plan)[1] \in Growing => Head(plan)[2] = 1
<1>1. CASE plan = GivenUp
    BY <1>1, PlanSteps DEF Counters, Growing
<1>2. ASSUME NEW n \in Counters, plan = Once(n)
      PROVE  Head(plan)[1] = n /\ Head(plan)[2] = 1
    BY <1>2, PlanSteps
<1> QED BY <1>1, <1>2 DEF Plans

\* Steps that neither begin nor end a count.
LEMMA QuietTotals ==
    ASSUME ThreadsInv, ThreadTypes', TotalsInv, UNCHANGED <<total, own, read>>,
           \A t \in Threads : /\ pc'[t] = "own" <=> pc[t] = "own"
                              /\ pc[t] \in {"count", "own"}
                                     => todo'[t] = todo[t] /\ sequence'[t] = sequence[t]
    PROVE  TotalsInv'
<1>1. \A n, k : flying(n, k)' = flying(n, k)
    BY DEF flying
<1>2. \A n, k : counts(n, k)' = counts(n, k)
    BY <1>1 DEF counts
<1>3. \A t \in Threads : read[t] # Nil => todo'[t] = todo[t] /\ sequence'[t] = sequence[t]
    BY DEF ThreadsInv, ThreadOk
<1>4. \A n \in Growing, k \in Kinds : counts(n, k) \in Int
    BY CountsAreNumbers DEF ThreadsInv, Growing
<1>5. \A n \in Growing, k \in Kinds : counts(n, k)' >= counts(n, k)
    BY <1>2, <1>4
<1> QED BY <1>3, <1>5, TotalsStay DEF ThreadsInv, TotalsInv

\* A thread reads a total that is not ahead.
LEMMA ReadTotals ==
    ASSUME ThreadsInv, ThreadTypes', TotalsInv, NEW t \in Threads, ReadTotal(t)
    PROVE  TotalsInv'
<1>1. PICK n, k : n = Head(todo[t])[1] /\ k = sequence[t]
    OBVIOUS
<1>2. todo[t] \in Plans \ {<<>>} /\ k \in Kinds
    BY <1>1 DEF ReadTotal, at, ThreadsInv, ThreadTypes, ThreadOk
<1>3. n \in Counters
    BY <1>1, <1>2, HeadOfPlan
<1>4. /\ read'[t] = total[n][k] /\ \A u \in Threads \ {t} : read'[u] = read[u]
      /\ UNCHANGED <<total, own, pc, sequence, todo>>
    BY <1>1 DEF ReadTotal, countVars, ThreadsInv, ThreadTypes
<1>5. total[n][k] \in Int
    BY <1>2, <1>3 DEF TotalsInv
<1>6. \A m, l : counts(m, l)' = counts(m, l)
    BY <1>4 DEF counts, flying
<1>7. \A m \in Growing, l \in Kinds : counts(m, l) \in Int
    BY CountsAreNumbers DEF ThreadsInv, Growing
<1>8. \A m \in Growing, l \in Kinds : counts(m, l)' >= counts(m, l)
    BY <1>6, <1>7
<1>9. ASSUME NEW u \in Threads
      PROVE  /\ read'[u] # read[u] => read'[u] = Nil \/ read'[u] \in Int
             /\ read'[u] # Nil => todo'[u] = todo[u] /\ sequence'[u] = sequence[u]
             /\ read'[u] # read[u] /\ read'[u] # Nil =>
                    \A m \in Growing, l \in Kinds :
                        Head(todo[u])[1] = m /\ sequence[u] = l => read'[u] <= counts(m, l)
    <2>1. CASE u # t
        BY <1>4, <2>1
    <2>2. CASE u = t
        <3>1. \A m \in Growing : total[m][k] <= counts(m, k)
            BY <1>2 DEF TotalsInv
        <3> QED BY <1>1, <1>4, <1>5, <2>2, <3>1
    <2> QED BY <2>1, <2>2
<1> QED BY <1>4, <1>8, <1>9, TotalsStay DEF ThreadsInv, TotalsInv

\* A thread writes one more than it has read, and is itself about to count one
\* more.
LEMMA WriteTotals ==
    ASSUME ThreadsInv, ThreadTypes', TotalsInv, NEW t \in Threads, WriteTotal(t)
    PROVE  TotalsInv'
<1>1. PICK n, k, a : n = Head(todo[t])[1] /\ k = sequence[t] /\ a = Head(todo[t])[2]
    OBVIOUS
<1>2. todo[t] \in Plans \ {<<>>} /\ k \in Kinds /\ pc[t] = "count" /\ read[t] # Nil
    BY <1>1 DEF WriteTotal, at, ThreadsInv, ThreadTypes, ThreadOk
<1>3. n \in Counters /\ a \in {-1, 1} /\ (n \in Growing => a = 1)
    BY <1>1, <1>2, HeadOfPlan
<1>4. /\ read'[t] = Nil /\ \A u \in Threads \ {t} : read'[u] = read[u]
      /\ pc'[t] = "own" /\ \A u \in Threads \ {t} : pc'[u] = pc[u]
      /\ UNCHANGED <<own, sequence, todo>>
    BY DEF WriteTotal, goto, ThreadsInv, ThreadTypes
<1>5. read[t] \in Int /\ (n \in Growing => read[t] <= counts(n, k))
    BY <1>1, <1>2 DEF TotalsInv
<1>6. /\ total' \in [Counters -> [Kinds -> Int]] /\ total'[n][k] = read[t] + a
      /\ \A m \in Counters, l \in Kinds : m # n \/ l # k => total'[m][l] = total[m][l]
    <2>1. total' = [total EXCEPT ![n][k] = read[t] + a]
        BY <1>1 DEF WriteTotal
    <2>2. read[t] + a \in Int
        BY <1>3, <1>5
    <2> QED BY <1>2, <1>3, <2>1, <2>2 DEF TotalsInv
<1>7. /\ flying(n, k)' = flying(n, k) \cup {t} /\ t \notin flying(n, k)
      /\ \A m, l : m # n \/ l # k => flying(m, l)' = flying(m, l)
    <2>1. \A m, l : \A u \in Threads : u \in flying(m, l)' <=> u \in flying(m, l) \/ (u = t /\ m = n /\ l = k)
        BY <1>1, <1>2, <1>4 DEF flying
    <2>2. \A m, l : flying(m, l) \subseteq Threads /\ flying(m, l)' \subseteq Threads
        BY DEF flying
    <2>3. t \notin flying(n, k)
        BY <1>2 DEF flying
    <2>4. flying(n, k)' = flying(n, k) \cup {t}
        BY <2>1, <2>2
    <2>5. ASSUME NEW m, NEW l, m # n \/ l # k PROVE flying(m, l)' = flying(m, l)
        <3>1. \A u \in Threads : u \in flying(m, l)' <=> u \in flying(m, l)
            BY <2>1, <2>5
        <3> QED BY <2>2, <3>1
    <2> QED BY <2>3, <2>4, <2>5
<1>8. \A m \in Counters, l \in Kinds :
          counts(m, l) \in Int /\ counts(m, l)' = counts(m, l) + IF m = n /\ l = k THEN 1 ELSE 0
    <2> SUFFICES ASSUME NEW m \in Counters, NEW l \in Kinds
                 PROVE  counts(m, l) \in Int /\ counts(m, l)' = counts(m, l) + IF m = n /\ l = k THEN 1 ELSE 0
        OBVIOUS
    <2>1. IsFiniteSet(flying(m, l)) /\ Sum(own[m][l]) \in Int /\ counts(m, l) \in Int
        BY CountsType DEF ThreadsInv
    <2>2. Cardinality(flying(m, l)) \in Nat
        BY <2>1, FS_CardinalityType
    <2>3. CASE m = n /\ l = k
        <3>1. Cardinality(flying(m, l)') = Cardinality(flying(m, l)) + 1
            BY <1>7, <2>1, <2>3, FS_AddElement
        <3> QED BY <1>4, <2>1, <2>2, <2>3, <3>1 DEF counts
    <2>4. CASE ~(m = n /\ l = k)
        <3>1. flying(m, l)' = flying(m, l)
            BY <1>7, <2>4
        <3> QED BY <1>4, <2>1, <2>4, <3>1 DEF counts
    <2> QED BY <2>3, <2>4
<1>9. \A m \in Growing, l \in Kinds : counts(m, l)' >= counts(m, l)
    BY <1>8 DEF Growing
<1>10. ASSUME NEW m \in Growing, NEW l \in Kinds, total'[m][l] # total[m][l]
       PROVE  total'[m][l] <= counts(m, l)'
    <2>1. m \in Counters /\ m = n /\ l = k
        BY <1>6, <1>10 DEF Growing
    <2>2. a = 1 /\ read[t] <= counts(n, k) /\ counts(n, k) \in Int /\ counts(n, k)' = counts(n, k) + 1
        BY <1>2, <1>3, <1>5, <1>8, <2>1
    <2> QED BY <1>5, <1>6, <2>1, <2>2
<1>11. \A u \in Threads : /\ read'[u] # read[u] => read'[u] = Nil
                          /\ todo'[u] = todo[u] /\ sequence'[u] = sequence[u]
    BY <1>4
<1> QED BY <1>6, <1>9, <1>10, <1>11, TotalsStay DEF ThreadsInv

\* A thread that counts for itself is no longer about to: for a counter that
\* only grows the sum stays.
LEMMA CountOwnTotals ==
    ASSUME ThreadsInv, ThreadTypes', TotalsInv, NEW t \in Threads, CountOwn(t)
    PROVE  TotalsInv'
<1>1. PICK n, k, a : n = Head(todo[t])[1] /\ k = sequence[t] /\ a = Head(todo[t])[2]
    OBVIOUS
<1>2. todo[t] \in Plans \ {<<>>} /\ k \in Kinds /\ pc[t] = "own" /\ read[t] = Nil
    BY <1>1 DEF CountOwn, at, ThreadsInv, ThreadTypes, ThreadOk
<1>3. n \in Counters /\ a \in {-1, 1} /\ (n \in Growing => a = 1)
    BY <1>1, <1>2, HeadOfPlan
<1>4. /\ UNCHANGED <<total, sequence, read>> /\ pc'[t] # "own"
      /\ \A u \in Threads \ {t} : pc'[u] = pc[u] /\ todo'[u] = todo[u]
    <2>1. pc'[t] = Continue(t) /\ \A u \in Threads \ {t} : pc'[u] = pc[u] /\ todo'[u] = todo[u]
        BY DEF CountOwn, goto, ThreadsInv, ThreadTypes
    <2>2. Continue(t) # "own"
        <3>1. Len(todo[t]) > 1 => Head(todo[t]) # <<"retry", 1>>
            <4>1. CASE todo[t] = GivenUp
                BY <4>1, PlanSteps
            <4>2. CASE \E m \in Counters : todo[t] = Once(m)
                <5>1. Len(todo[t]) = 1
                    BY <4>2, PlanSteps
                <5> QED BY <5>1
            <4> QED BY <1>2, <4>1, <4>2 DEF Plans
        <3>2. CASE Len(todo[t]) > 1
            BY <3>1, <3>2 DEF Continue
        <3>3. CASE ~(Len(todo[t]) > 1) /\ Head(todo[t]) = <<"retry", 1>>
            BY <3>3 DEF Continue, AfterRetry
        <3>4. CASE ~(Len(todo[t]) > 1) /\ Head(todo[t]) # <<"retry", 1>>
            BY <3>4 DEF Continue
        <3> QED BY <3>2, <3>3, <3>4
    <2> QED BY <2>1, <2>2 DEF CountOwn
<1>5. \A m \in Counters, l \in Kinds :
          counts(m, l) \in Int /\ (m \in Growing => counts(m, l)' = counts(m, l))
    <2> SUFFICES ASSUME NEW m \in Counters, NEW l \in Kinds
                 PROVE  counts(m, l) \in Int /\ (m \in Growing => counts(m, l)' = counts(m, l))
        OBVIOUS
    <2>1. IsFiniteSet(flying(m, l)) /\ Sum(own[m][l]) \in Int /\ counts(m, l) \in Int
        BY CountsType DEF ThreadsInv
    <2>2. Cardinality(flying(m, l)) \in Nat
        BY <2>1, FS_CardinalityType
    <2>3. own' = [own EXCEPT ![n][k][t] = @ + a]
        BY <1>1 DEF CountOwn
    <2>4. own \in [Counters -> [Kinds -> [Threads -> Int]]]
        BY DEF ThreadsInv, ThreadTypes
    <2>5. \A u \in Threads : u \in flying(m, l)' <=> u \in flying(m, l) /\ u # t
        BY <1>4 DEF flying
    <2>6. flying(m, l)' = flying(m, l) \ {t}
        BY <2>5 DEF flying
    <2>7. CASE m = n /\ l = k /\ m \in Growing
        <3>1. t \in flying(m, l)
            BY <1>1, <1>2, <2>7 DEF flying
        <3>2. Cardinality(flying(m, l)') = Cardinality(flying(m, l)) - 1
            BY <2>1, <2>6, <3>1, FS_RemoveElement
        <3>3. Sum(own'[m][l]) = Sum(own[m][l]) + 1
            <4>1. PICK f, g : f = own[m][l] /\ g = own'[m][l]
                OBVIOUS
            <4>2. f \in [Threads -> Int] /\ g \in [Threads -> Int]
                BY <2>4, <2>7, <4>1 DEF ThreadTypes
            <4>3. a = 1 /\ k \in Kinds
                BY <1>2, <1>3, <2>7
            <4>4. own' = [own EXCEPT ![n][k][t] = @ + 1]
                BY <2>3, <4>3
            <4>5. g = [f EXCEPT ![t] = f[t] + 1]
                BY <2>4, <2>7, <4>1, <4>3, <4>4
            <4>6. f \in [Threads -> Int] /\ 1 \in Int
                BY <4>2
            <4>7. Sum(g) = Sum(f) + 1
                BY <4>5, <4>6, SumOfThreads
            <4> QED BY <4>1, <4>7
        <3> QED BY <2>1, <2>2, <3>2, <3>3 DEF counts
    <2>8. CASE ~(m = n /\ l = k)
        <3>1. t \notin flying(m, l)
            BY <1>1, <2>8 DEF flying
        <3>2. flying(m, l)' = flying(m, l)
            BY <2>6, <3>1
        <3>3. own'[m][l] = own[m][l]
            BY <1>2, <1>3, <2>3, <2>4, <2>8
        <3> QED BY <2>1, <3>2, <3>3 DEF counts
    <2> QED BY <2>1, <2>7, <2>8
<1>6. \A m \in Growing, l \in Kinds : counts(m, l)' >= counts(m, l)
    BY <1>5 DEF Growing
<1>7. \A u \in Threads : /\ read'[u] = read[u]
                         /\ read'[u] # Nil => todo'[u] = todo[u] /\ sequence'[u] = sequence[u]
    BY <1>2, <1>4
<1> QED BY <1>4, <1>6, <1>7, TotalsStay DEF ThreadsInv, TotalsInv

\* All counters are zero at first.
LEMMA TotalsInit == Init => TotalsInv
<1> SUFFICES ASSUME Init PROVE TotalsInv
    OBVIOUS
<1>1. /\ \A n \in Counters, k \in Kinds : total[n][k] = 0 /\ own[n][k] = [t \in Threads |-> 0]
      /\ total \in [Counters -> [Kinds -> Int]]
      /\ \A t \in Threads : pc[t] = "none" /\ read[t] = Nil
    BY DEF Init
<1>2. PICK w \in Nat : Threads = 0..w
    <2>1. numConn - 1 \in Nat
        OBVIOUS
    <2> QED BY <2>1 DEF Threads
<1>3. PICK zero : zero = [t \in 0..w |-> 0]
    OBVIOUS
<1>4. Sum(zero) = 0
    <2>1. zero \in [0..w -> Int] /\ zero[w] = 0
        BY <1>3
    <2>2. Sums(zero, zero, w)
        BY <1>3 DEF Sums
    <2> QED BY <2>1, <2>2, SumIs
<1>5. ASSUME NEW n \in Growing, NEW k \in Kinds PROVE total[n][k] <= counts(n, k)
    <2>1. n \in Counters
        BY DEF Growing
    <2>2. own[n][k] = zero /\ total[n][k] = 0
        BY <1>1, <1>2, <1>3, <2>1
    <2>3. flying(n, k) = {}
        BY <1>1 DEF flying
    <2>4. Cardinality(flying(n, k)) = 0
        BY <2>3, FS_EmptySet
    <2> QED BY <1>4, <2>2, <2>4 DEF counts
<1> QED BY <1>1, <1>5 DEF TotalsInv

\* No step brings a total ahead.
LEMMA TotalsNext == ThreadsInv /\ ThreadsInv' /\ TotalsInv /\ [Next]_vars => TotalsInv'
<1> SUFFICES ASSUME ThreadsInv, ThreadsInv', TotalsInv, [Next]_vars PROVE TotalsInv'
    OBVIOUS
<1>0. ThreadTypes'
    BY DEF ThreadsInv
<1>1. ASSUME NEW t \in Threads, pc[t] \in {"draw", "loop", "attempt", "giveup"},
             UNCHANGED <<total, own, read>>, pc'[t] # "own",
             \A u \in Threads \ {t} : /\ pc'[u] = pc[u] /\ todo'[u] = todo[u]
                                      /\ sequence'[u] = sequence[u]
      PROVE  TotalsInv'
    <2>1. \A u \in Threads : /\ pc'[u] = "own" <=> pc[u] = "own"
                             /\ pc[u] \in {"count", "own"}
                                    => todo'[u] = todo[u] /\ sequence'[u] = sequence[u]
        BY <1>1
    <2> QED BY <1>0, <1>1, <2>1, QuietTotals
<1>2. ASSUME NEW t \in Threads, ThreadStep(t) PROVE TotalsInv'
    <2>1. ThreadTypes
        BY DEF ThreadsInv
    <2>2. CASE DrawNext(t)
        <3>1. /\ pc[t] = "draw" /\ pc'[t] = "loop" /\ UNCHANGED <<total, own, read, todo>>
              /\ \A u \in Threads \ {t} : pc'[u] = pc[u]
            BY <2>1, <2>2 DEF DrawNext, at, goto, countVars, ThreadTypes
        <3>2. \A u \in Threads \ {t} : sequence'[u] = sequence[u]
            BY <2>1, <2>2 DEF DrawNext, ThreadTypes
        <3> QED BY <1>1, <3>1, <3>2
    <2>3. CASE BeginCall(t) \/ EndThread(t)
        <3>1. /\ pc[t] = "loop" /\ pc'[t] # "own" /\ UNCHANGED <<total, own, read, todo, sequence>>
              /\ \A u \in Threads \ {t} : pc'[u] = pc[u]
            BY <2>1, <2>3 DEF BeginCall, EndThread, at, goto, countVars, ThreadTypes
        <3> QED BY <1>1, <3>1
    <2>4. ASSUME NEW kind, NEW rtime, attempt(t, kind, rtime) PROVE TotalsInv'
        <3>1. pc[t] = "attempt" /\ UNCHANGED <<total, own, read, sequence>>
            BY <2>4 DEF attempt, at, Succeeds, Fails, Throws, countVars
        <3>2. /\ pc'[t] # "own"
              /\ \A u \in Threads \ {t} : pc'[u] = pc[u] /\ todo'[u] = todo[u]
            BY <2>1, <2>4 DEF attempt, Succeeds, Fails, Throws, counted, goto, AfterRetry, ThreadTypes
        <3> QED BY <1>1, <3>1, <3>2
    <2>5. CASE GiveUp(t)
        <3>1. pc[t] = "giveup" /\ UNCHANGED <<total, own, read, sequence>>
            BY <2>5 DEF GiveUp, at, countVars
        <3>2. /\ pc'[t] # "own"
              /\ \A u \in Threads \ {t} : pc'[u] = pc[u] /\ todo'[u] = todo[u]
            BY <2>1, <2>5 DEF GiveUp, counted, goto, ThreadTypes
        <3> QED BY <1>1, <3>1, <3>2
    <2> QED BY <1>0, <1>2, <2>2, <2>3, <2>4, <2>5, ReadTotals, WriteTotals, CountOwnTotals
            DEF ThreadStep, doNeword, doPayment, doOrdstat, doDelivery, doSlev
<1>3. ASSUME UNCHANGED <<countVars, sequence, todo, read>>,
             \A t \in Threads : pc'[t] = "own" <=> pc[t] = "own"
      PROVE  TotalsInv'
    BY <1>0, <1>3, QuietTotals DEF countVars
<1>4. ASSUME NEW t \in Threads, StartThread(t) PROVE TotalsInv'
    <2>1. ~Created(t)
        BY <1>4, NextThread DEF StartThread
    <2>2. \A u \in Threads : pc'[u] = "own" <=> pc[u] = "own"
        BY <1>4, <2>1 DEF StartThread, Created, ThreadsInv, ThreadTypes
    <2> QED BY <1>3, <1>4, <2>2 DEF StartThread
<1>5. CASE EndRampup \/ StopThreads \/ Exit \/ ConnectFails \/ UNCHANGED vars
    <2>1. UNCHANGED <<countVars, sequence, todo, read, pc>>
        BY <1>5 DEF EndRampup, StopThreads, Exit, ConnectFails, vars, threadVars
    <2> QED BY <1>3, <2>1
<1> QED BY <1>2, <1>4, <1>5 DEF Next, MainStep

\* What is claimed of the totals is the first half of it.
LEMMA NeverAhead == TotalsInv => TotalNeverAhead
<1>1. \A n \in Counters, k \in Kinds : counts(n, k) = Sum(own[n][k]) + InFlight(n, k)
    BY DEF counts, flying, InFlight
<1>2. \A n \in Growing : n \in Counters
    BY DEF Growing
<1> QED BY <1>1, <1>2 DEF TotalsInv, TotalNeverAhead, Growing

-----------------------------------------------------------------------------
(* The theorems.                                                           *)

\* What the main thread does, and whether transactions are to go on.
MainInv ==
    /\ main \in {"connect", "dead", "rampup", "measure", "await", "exited"}
    /\ activate_transaction \in {0, 1}

\* Every step keeps it.
LEMMA MainNext == MainInv /\ [Next]_vars => MainInv'
<1> SUFFICES ASSUME MainInv, [Next]_vars PROVE MainInv'
    OBVIOUS
<1>1. ASSUME NEW t \in Threads, ThreadStep(t) PROVE MainInv'
    <2>1. ASSUME NEW kind, NEW rtime, attempt(t, kind, rtime) PROVE MainInv'
        BY <2>1 DEF attempt, Succeeds, Fails, Throws, MainInv
    <2>2. CASE DrawNext(t) \/ BeginCall(t) \/ EndThread(t)
        BY <2>2 DEF DrawNext, BeginCall, EndThread, MainInv
    <2>3. CASE GiveUp(t) \/ ReadTotal(t) \/ WriteTotal(t) \/ CountOwn(t)
        BY <2>3 DEF GiveUp, ReadTotal, WriteTotal, CountOwn, MainInv
    <2> QED BY <1>1, <2>1, <2>2, <2>3 DEF ThreadStep, doNeword, doPayment, doOrdstat, doDelivery, doSlev
<1>2. CASE MainStep \/ ConnectFails
    BY <1>2 DEF MainStep, StartThread, EndRampup, StopThreads, Exit, ConnectFails, MainInv
<1>3. CASE UNCHANGED vars
    BY <1>3 DEF vars, MainInv
<1> QED BY <1>1, <1>2, <1>3 DEF Next

\* The variables have their types, and the indices of the deck that a thread
\* uses exist: a deck has a card for each unit of the weights (Util.seqGet).
THEOREM TypeCorrect == Spec => []TypeOK
<1>1. Init => MainInv
    BY DEF Init, MainInv
<1>2. ThreadsInv /\ DeckInv /\ MainInv => TypeOK
    <2> SUFFICES ASSUME ThreadsInv, DeckInv, MainInv PROVE TypeOK
        OBVIOUS
    <2>1. mix \in Mixes /\ Len(seq) = Sum(mix) /\ nextNum \in 0..Len(seq)
        BY DeckIs DEF DeckInv
    <2> QED BY <2>1 DEF TypeOK, ThreadsInv, ThreadTypes, ThreadOk, MainInv, Labels
<1> QED BY <1>1, <1>2, MainNext, ThreadsInit, ThreadsNext, DeckInit, DeckNext, PTL DEF Spec

\* Whatever the shuffles do and whoever draws, each kind is dealt as often as
\* its weight says in every round of the deck (Util.shuffle and seqGet).
THEOREM DeckDealsTheMix == Spec => []DeckMix
    BY DeckInit, DeckNext, RoundsMix, PTL DEF Spec

\* However the threads interleave, and whenever counting begins, what a thread
\* has counted for itself are its attempts, and a count of retries is never
\* below -1 (Driver.doNeword and the like).
THEOREM AttemptsAreCounted == Spec => []AttemptsCounted
<1>1. ThreadsInv => AttemptsCounted
    BY CountedIsAttempts
<1> QED BY <1>1, ThreadsInit, ThreadsNext, PTL DEF Spec

\* Whatever increments the threads take from one another, no total that only
\* grows is ahead of what they count for themselves (the counters of Driver).
THEOREM TotalsAreNotAhead == Spec => []TotalNeverAhead
    BY ThreadsInit, ThreadsNext, TotalsInit, TotalsNext, NeverAhead, PTL DEF Spec
=============================================================================
