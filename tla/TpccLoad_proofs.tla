-------------------------- MODULE TpccLoad_proofs ---------------------------
(***************************************************************************)
(* Proofs about TpccLoad, for every number of rows, warehouses and shards, *)
(* every size of a batch and every number of failures.                     *)
(*                                                                         *)
(* The first half is about the calls that a run makes, put together from   *)
(* parts as Load does it: which rows they load, that each is loaded once   *)
(* and gets stored, that what it refers to is stored no later (Block), and *)
(* how many loaders are open in between (Opens).  The second half follows  *)
(* a run through its calls, with an invariant that says the same of the    *)
(* calls that are left and of what is stored, sent and in the buffers.     *)
(***************************************************************************)
EXTENDS TpccLoad, FiniteSetTheorems, FunctionTheorems, SequenceTheorems, WellFoundedInduction, TLAPS

-----------------------------------------------------------------------------
(* Numbers and sequences.                                                  *)

\* A set that has 0 and with each number the next has them all.
LEMMA AllNumbers ==
    ASSUME NEW S, 0 \in S, \A n \in Nat : n \in S => n + 1 \in S
    PROVE  \A n \in Nat : n \in S
<1> DEFINE R == OpToRel(<, Nat)
           T == Nat \ S
<1>1. IsWellFoundedOn(R, Nat)
    BY NatLessThanWellFounded, Zenon
<1>2. \A x, y \in Nat : <<x, y>> \in R <=> x < y
    BY Zenon DEF OpToRel
<1>3. SUFFICES ASSUME T # {} PROVE FALSE
    OBVIOUS
<1>4. PICK x \in T : \A y \in T : ~ (<<y, x>> \in R)
    <2> HIDE DEF R
    <2>1. T \subseteq Nat
        OBVIOUS
    <2> HIDE DEF T
    <2> QED BY ONLY <1>1, <2>1, <1>3, WFMin
<1>5. x \in Nat \ {0} /\ x - 1 \in Nat /\ x - 1 < x
    <2> HIDE DEF R
    <2> QED OBVIOUS
<1>6. x - 1 \in S
    <2>1. <<x - 1, x>> \in R
        BY <1>2, <1>5
    <2> HIDE DEF R
    <2> QED BY <1>4, <1>5, <2>1
<1>7. x \in S
    <2> HIDE DEF R
    <2> QED BY <1>5, <1>6
<1> QED BY <1>4, <1>7

\* FlattenSeq goes through the concatenations of the first sequences.
Flattens(f, ss, n) ==
    /\ f[1] = ss[1]
    /\ \A i \in 2..n : f[i] = f[i - 1] \o ss[i]

\* The concatenations of the first sequences exist.
LEMMA FlattensExist ==
    ASSUME NEW n \in Nat \ {0}, NEW S, NEW ss \in [1..n -> Seq(S)]
    PROVE  \E f \in [1..n -> Seq(S)] : Flattens(f, ss, n)
<1> DEFINE A == {m \in Nat : m + 1 <= n => \E f \in [1..m + 1 -> Seq(S)] : Flattens(f, ss, m + 1)}
<1>1. 0 \in A
    <2> DEFINE f == [i \in 1..1 |-> ss[1]]
    <2>1. f \in [1..1 -> Seq(S)] /\ Flattens(f, ss, 1)
        BY DEF Flattens
    <2> QED BY <2>1
<1>2. ASSUME NEW m \in Nat, m \in A PROVE m + 1 \in A
    <2> SUFFICES ASSUME m + 2 <= n
                 PROVE  \E f \in [1..m + 2 -> Seq(S)] : Flattens(f, ss, m + 2)
        OBVIOUS
    <2>1. PICK f \in [1..m + 1 -> Seq(S)] : Flattens(f, ss, m + 1)
        BY <1>2
    <2> DEFINE g == [i \in 1..m + 2 |-> IF i = m + 2 THEN f[m + 1] \o ss[m + 2] ELSE f[i]]
    <2>2. f[m + 1] \o ss[m + 2] \in Seq(S)
        BY ConcatProperties
    <2>3. g \in [1..m + 2 -> Seq(S)]
        BY <2>2
    <2>a. m + 2 \in 1..m + 2 /\ \A i \in 1..m + 1 : i \in 1..m + 2 /\ i # m + 2
        OBVIOUS
    <2>4. \A i \in 1..m + 1 : g[i] = f[i]
        BY ONLY <2>a, Zenon
    <2>5. g[m + 2] = f[m + 1] \o ss[m + 2]
        BY ONLY <2>a, Zenon
    <2> HIDE DEF g
    <2>6. ASSUME NEW i \in 2..m + 2 PROVE g[i] = g[i - 1] \o ss[i]
        <3>1. CASE i = m + 2
            <4>1. i - 1 = m + 1 /\ m + 1 \in 1..m + 1
                BY <3>1
            <4> QED BY <2>4, <2>5, <3>1, <4>1
        <3>2. CASE i # m + 2
            <4>1. i \in 2..m + 1 /\ i \in 1..m + 1 /\ i - 1 \in 1..m + 1
                BY <3>2
            <4> QED BY <2>1, <2>4, <4>1 DEF Flattens
        <3> QED BY <3>1, <3>2
    <2>7. g[1] = ss[1]
        BY <2>1, <2>4 DEF Flattens
    <2>8. Flattens(g, ss, m + 2)
        BY <2>6, <2>7 DEF Flattens
    <2> QED BY <2>3, <2>8
<1> HIDE DEF A
<1>3. \A m \in Nat : m \in A
    BY <1>1, <1>2, AllNumbers
<1>4. n - 1 \in A
    BY <1>3
<1> QED BY <1>4 DEF A

\* FlattenSeq is the last of these concatenations.
LEMMA FlattenIsLast ==
    ASSUME NEW n \in Nat \ {0}, NEW S, NEW ss \in [1..n -> Seq(S)]
    PROVE  \E f : Flattens(f, ss, n) /\ FlattenSeq(ss) = f[n]
<1> DEFINE step(f) == [i \in 1..n |-> IF i = 1 THEN ss[i] ELSE f[i - 1] \o ss[i]]
<1>1. PICK f \in [1..n -> Seq(S)] : Flattens(f, ss, n)
    BY FlattensExist
<1>2. f = step(f)
    <2>1. ASSUME NEW i \in 1..n PROVE f[i] = IF i = 1 THEN ss[i] ELSE f[i - 1] \o ss[i]
        <3>1. CASE i = 1
            BY <1>1, <3>1 DEF Flattens
        <3>2. CASE i # 1
            <4>1. i \in 2..n
                BY <3>2
            <4> QED BY <1>1, <3>2, <4>1 DEF Flattens
        <3> QED BY <3>1, <3>2
    <2>2. f = [i \in 1..n |-> f[i]]
        OBVIOUS
    <2> QED BY ONLY <2>1, <2>2, Zenon
<1> DEFINE last == CHOOSE g : g = step(g)
<1>3. last = step(last)
    <2> HIDE DEF step
    <2> QED BY <1>2
<1>4. Len(ss) = n
    OBVIOUS
<1>5. FlattenSeq(ss) = last[n]
    BY <1>4 DEF FlattenSeq
<1>6. Flattens(last, ss, n)
    <2> HIDE DEF last
    <2>1. \A i \in 1..n : last[i] = IF i = 1 THEN ss[i] ELSE last[i - 1] \o ss[i]
        BY ONLY <1>3, Zenon
    <2>2. 1 \in 1..n /\ \A i \in 2..n : i \in 1..n /\ i # 1
        OBVIOUS
    <2> QED BY ONLY <2>1, <2>2 DEF Flattens
<1> QED BY <1>5, <1>6

-----------------------------------------------------------------------------
(* The calls of loaders.                                                   *)

\* Rows of up to four numbers.
AllRows ==
    UNION {Tables \X Nat, Tables \X Nat \X Nat, Tables \X Nat \X Nat \X Nat,
           Tables \X Nat \X Nat \X Nat \X Nat}

Loading == {[call |-> "load", table |-> row[1], row |-> row] : row \in AllRows}
Call    == [call : {"create", "commit", "close"}, table : Tables] \cup Loading
Plan    == Seq(Call)

\* The call x is name, of the loader of t; the rows that calls load.
Is(x, name, t) == x.call = name /\ x.table = t
Rows(s)        == {s[i].row : i \in {j \in DOMAIN s : s[j].call = "load"}}

\* A row begins with the name of its table.
LEMMA RowTable ==
    ASSUME NEW row \in AllRows
    PROVE  row[1] \in Tables
    BY DEF AllRows

\* A load is of a row, which is of the table of the loader.
LEMMA CallTypes ==
    ASSUME NEW x \in Call
    PROVE  /\ x.call \in {"create", "load", "commit", "close"}
           /\ x.table \in Tables
           /\ x.call = "load" => /\ x.row \in AllRows /\ x.row[1] = x.table
                                 /\ x = load(x.row)[1]
<1>1. CASE x \in [call : {"create", "commit", "close"}, table : Tables]
    BY <1>1
<1>2. CASE x \in Loading
    <2>1. PICK row \in AllRows : x = [call |-> "load", table |-> row[1], row |-> row]
        BY <1>2 DEF Loading
    <2>2. row[1] \in Tables
        BY RowTable
    <2> QED BY <2>1, <2>2 DEF load
<1> QED BY <1>1, <1>2 DEF Call

\* The calls that name a table.
LEMMA TableCalls ==
    ASSUME NEW t \in Tables
    PROVE  /\ create(t) \in Plan /\ Len(create(t)) = 1 /\ Is(create(t)[1], "create", t)
           /\ commit(t) \in Plan /\ Len(commit(t)) = 1 /\ Is(commit(t)[1], "commit", t)
           /\ close(t) \in Plan /\ Len(close(t)) = 1 /\ Is(close(t)[1], "close", t)
<1>1. \A c \in {"create", "commit", "close"} : [call |-> c, table |-> t] \in Call
    BY DEF Call
<1>2. \A c \in {"create", "commit", "close"} : <<[call |-> c, table |-> t]>> \in Plan
    BY <1>1 DEF Plan
<1> QED BY <1>2 DEF create, commit, close, Is

\* The call that loads a row.
LEMMA LoadCall ==
    ASSUME NEW row \in AllRows
    PROVE  /\ load(row) \in Plan /\ Len(load(row)) = 1
           /\ Is(load(row)[1], "load", row[1]) /\ load(row)[1].row = row
<1>1. [call |-> "load", table |-> row[1], row |-> row] \in Call
    BY DEF Call, Loading
<1> QED BY <1>1 DEF load, Is, Plan

\* The rows of a concatenation.
LEMMA RowsOfConcat ==
    ASSUME NEW s \in Plan, NEW u \in Plan
    PROVE  Rows(s \o u) = Rows(s) \cup Rows(u)
<1> DEFINE z == s \o u
           L == Len(s)
<1>1. /\ z \in Seq(Call) /\ Len(z) = L + Len(u) /\ L \in Nat /\ Len(u) \in Nat
      /\ \A i \in 1..Len(z) : z[i] = IF i <= L THEN s[i] ELSE u[i - L]
    BY ConcatProperties DEF Plan
<1>2. DOMAIN z = 1..Len(z) /\ DOMAIN s = 1..L /\ DOMAIN u = 1..Len(u)
    BY <1>1 DEF Plan
<1> HIDE DEF z, L
<1>3. ASSUME NEW r \in Rows(z) PROVE r \in Rows(s) \cup Rows(u)
    <2>1. PICK i \in DOMAIN z : z[i].call = "load" /\ r = z[i].row
        BY <1>3 DEF Rows
    <2>2. CASE i <= L
        <3>1. i \in DOMAIN s /\ z[i] = s[i]
            BY <1>1, <1>2, <2>2
        <3> QED BY <2>1, <3>1 DEF Rows
    <2>3. CASE ~ (i <= L)
        <3>1. i - L \in DOMAIN u /\ z[i] = u[i - L]
            BY <1>1, <1>2, <2>3
        <3> QED BY <2>1, <3>1 DEF Rows
    <2> QED BY <2>2, <2>3
<1>4. ASSUME NEW r \in Rows(s) PROVE r \in Rows(z)
    <2>1. PICK i \in DOMAIN s : s[i].call = "load" /\ r = s[i].row
        BY <1>4 DEF Rows
    <2>2. i \in DOMAIN z /\ z[i] = s[i]
        BY <1>1, <1>2
    <2> QED BY <2>1, <2>2 DEF Rows
<1>5. ASSUME NEW r \in Rows(u) PROVE r \in Rows(z)
    <2>1. PICK i \in DOMAIN u : u[i].call = "load" /\ r = u[i].row
        BY <1>5 DEF Rows
    <2>2. i + L \in DOMAIN z /\ z[i + L] = u[i]
        BY <1>1, <1>2
    <2> QED BY <2>1, <2>2 DEF Rows
<1>6. Rows(z) = Rows(s) \cup Rows(u)
    BY <1>3, <1>4, <1>5
<1> QED BY <1>6 DEF z

\* The rows that a plan loads have been rows of one call.
LEMMA RowLoaded ==
    ASSUME NEW s \in Plan, NEW r
    PROVE  /\ r \in Rows(s) <=> \E i \in DOMAIN s : s[i].call = "load" /\ s[i].row = r
           /\ r \in Rows(s) => r \in AllRows
<1>1. \A i \in DOMAIN s : s[i] \in Call
    BY DEF Plan
<1> QED BY <1>1, CallTypes DEF Rows

-----------------------------------------------------------------------------
(* What the calls of a part of the plan do, for the parts that Load puts    *)
(* together.                                                               *)

\* After the call h the loader of the table is closed by the call g before it
\* is created again, and after the call i nothing is committed before g.
Seal(s, h, g, i, t) ==
    /\ g \in h + 1..Len(s) /\ Is(s[g], "close", t)
    /\ \A m \in h + 1..g : ~ Is(s[m], "create", t)
    /\ \A m \in i + 1..g - 1 : s[m].call \notin {"commit", "close"}

\* Each row that is loaded gets stored, except those of the tables T, whose
\* loaders are left open.
Settles(s, T) ==
    \A h \in DOMAIN s :
        s[h].call = "load" =>
            \/ \E g \in DOMAIN s : Seal(s, h, g, g, s[h].table)
            \/ s[h].table \in T /\ \A m \in h + 1..Len(s) : ~ Is(s[m], "create", s[h].table)

\* Only loaders of the tables C are created.
Creates(s, C) == \A m \in DOMAIN s : s[m].call = "create" => s[m].table \in C

\* A row is loaded once.
Distinct(s) ==
    \A i, j \in DOMAIN s :
        s[i].call = "load" /\ s[j].call = "load" /\ s[i].row = s[j].row => i = j

\* The row p is loaded, and stored no later than what the call i loads.
First(s, i, p) ==
    \E h, g \in DOMAIN s :
        s[h].call = "load" /\ s[h].row = p /\ Seal(s, h, g, i, p[1])

\* What a row refers to is among the rows H or is stored no later.
Ordered(s, H) ==
    \A i \in DOMAIN s :
        s[i].call = "load" => \A p \in Parents(s[i].row) : p \in H \/ First(s, i, p)

\* Parts that load the rows R.
Block(s, T, C, H, R) ==
    /\ s \in Plan /\ Rows(s) = R
    /\ Settles(s, T) /\ Creates(s, C) /\ Distinct(s) /\ Ordered(s, H)

\* The place of a call in a concatenation.
LEMMA Places ==
    ASSUME NEW s \in Plan, NEW u \in Plan
    PROVE  /\ s \o u \in Plan /\ Len(s) \in Nat /\ Len(u) \in Nat
           /\ DOMAIN s = 1..Len(s) /\ DOMAIN u = 1..Len(u)
           /\ DOMAIN (s \o u) = 1..Len(s) + Len(u) /\ Len(s \o u) = Len(s) + Len(u)
           /\ \A i \in DOMAIN s : i \in DOMAIN (s \o u) /\ (s \o u)[i] = s[i]
           /\ \A i \in DOMAIN u : i + Len(s) \in DOMAIN (s \o u) /\ (s \o u)[i + Len(s)] = u[i]
           /\ \A i \in DOMAIN (s \o u) : i \in DOMAIN s \/ i - Len(s) \in DOMAIN u
<1> DEFINE z == s \o u
           L == Len(s)
<1>1. /\ z \in Seq(Call) /\ Len(z) = L + Len(u) /\ L \in Nat /\ Len(u) \in Nat
      /\ \A i \in 1..Len(z) : z[i] = IF i <= L THEN s[i] ELSE u[i - L]
    BY ConcatProperties DEF Plan
<1>2. DOMAIN z = 1..Len(z) /\ DOMAIN s = 1..L /\ DOMAIN u = 1..Len(u)
    BY <1>1 DEF Plan
<1> HIDE DEF z, L
<1>3. /\ \A i \in DOMAIN s : i \in DOMAIN z /\ z[i] = s[i]
      /\ \A i \in DOMAIN u : i + L \in DOMAIN z /\ z[i + L] = u[i]
      /\ \A i \in DOMAIN z : i \in DOMAIN s \/ i - L \in DOMAIN u
    BY <1>1, <1>2
<1>4. z \in Plan /\ DOMAIN z = 1..L + Len(u)
    BY <1>1, <1>2 DEF Plan
<1> QED BY <1>1, <1>2, <1>3, <1>4 DEF z, L

\* What the first part seals, the two seal.
LEMMA SealLeft ==
    ASSUME NEW s \in Plan, NEW u \in Plan, NEW h \in Nat, NEW g \in Nat, NEW i \in Nat, NEW t,
           Seal(s, h, g, i, t)
    PROVE  Seal(s \o u, h, g, i, t)
<1> DEFINE z == s \o u
<1>1. g \in h + 1..Len(s) /\ Len(z) = Len(s) + Len(u) /\ Len(s) \in Nat /\ Len(u) \in Nat
    BY Places DEF Seal
<1>2. \A m \in 1..g : z[m] = s[m]
    BY <1>1, Places
<1> HIDE DEF z
<1>3. g \in h + 1..Len(z) /\ g \in 1..g
    BY <1>1
<1>4. (\A m \in h + 1..g : m \in 1..g) /\ \A m \in i + 1..g - 1 : m \in 1..g
    OBVIOUS
<1>5. Seal(z, h, g, i, t)
    BY <1>2, <1>3, <1>4 DEF Seal, Is
<1> QED BY <1>5 DEF z

\* What the second part seals, the two seal.
LEMMA SealRight ==
    ASSUME NEW s \in Plan, NEW u \in Plan, NEW h \in Nat, NEW g \in Nat, NEW i \in Nat, NEW t,
           Seal(u, h, g, i, t)
    PROVE  Seal(s \o u, h + Len(s), g + Len(s), i + Len(s), t)
<1> DEFINE z == s \o u
           L == Len(s)
<1>1. g \in h + 1..Len(u) /\ Len(z) = L + Len(u) /\ L \in Nat /\ Len(u) \in Nat
    BY Places DEF Seal
<1>2. \A m \in 1..g : z[m + L] = u[m]
    <2>1. \A m \in 1..g : m \in DOMAIN u
        BY <1>1, Places
    <2>2. \A m \in DOMAIN u : (s \o u)[m + Len(s)] = u[m]
        BY Places
    <2> QED BY <2>1, <2>2
<1> HIDE DEF z, L
<1>3. \A m \in h + L + 1..g + L : m - L \in 1..g /\ m - L \in h + 1..g /\ z[m] = u[m - L]
    <2> TAKE m \in h + L + 1..g + L
    <2>1. m - L \in 1..g /\ m - L \in h + 1..g /\ (m - L) + L = m
        BY <1>1
    <2> QED BY <1>2, <2>1
<1>4. \A m \in i + L + 1..(g + L) - 1 : m - L \in i + 1..g - 1 /\ z[m] = u[m - L]
    <2> TAKE m \in i + L + 1..(g + L) - 1
    <2>1. m - L \in 1..g /\ m - L \in i + 1..g - 1 /\ (m - L) + L = m
        BY <1>1
    <2> QED BY <1>2, <2>1
<1>5. g + L \in h + L + 1..Len(z) /\ z[g + L] = u[g]
    <2>1. g \in 1..g
        BY <1>1
    <2> QED BY <1>1, <1>2, <2>1
<1>6. /\ u[g].call = "close" /\ u[g].table = t
      /\ \A m \in h + 1..g : ~ (u[m].call = "create" /\ u[m].table = t)
      /\ \A m \in i + 1..g - 1 : u[m].call \notin {"commit", "close"}
    BY DEF Seal, Is
<1>7. \A m \in h + L + 1..g + L : ~ Is(z[m], "create", t)
    BY <1>3, <1>6 DEF Is
<1>8. \A m \in i + L + 1..(g + L) - 1 : z[m].call \notin {"commit", "close"}
    BY <1>4, <1>6
<1>9. Seal(z, h + L, g + L, i + L, t)
    <2>1. Is(z[g + L], "close", t)
        BY <1>5, <1>6 DEF Is
    <2> QED BY ONLY <1>5, <1>7, <1>8, <2>1 DEF Seal
<1> QED BY <1>9 DEF z, L

\* Two parts, the second of which leaves open what the first one does and may
\* refer to what the first one has stored.
LEMMA Join ==
    ASSUME NEW s, NEW u, NEW T, NEW C1, NEW C2, NEW H, NEW R1, NEW R2,
           Block(s, T, C1, H, R1), Block(u, T, C2, H \cup {r \in R1 : r[1] \notin T}, R2),
           R1 \cap R2 = {}, C2 \cap T = {}
    PROVE  Block(s \o u, T, C1 \cup C2, H, R1 \cup R2)
<1> DEFINE z == s \o u
           L == Len(s)
<1>1. s \in Plan /\ u \in Plan
    BY DEF Block
<1>2. /\ z \in Plan /\ L \in Nat /\ Len(u) \in Nat /\ Len(z) = L + Len(u)
      /\ DOMAIN s = 1..L /\ DOMAIN u = 1..Len(u) /\ DOMAIN z = 1..Len(z)
      /\ \A i \in DOMAIN s : i \in DOMAIN z /\ z[i] = s[i]
      /\ \A i \in DOMAIN u : i + L \in DOMAIN z /\ z[i + L] = u[i]
      /\ \A i \in DOMAIN z : i \in DOMAIN s \/ i - L \in DOMAIN u
    BY <1>1, Places
<1>3. /\ \A h, g, i \in Nat : \A t : Seal(s, h, g, i, t) => Seal(z, h, g, i, t)
      /\ \A h, g, i \in Nat : \A t : Seal(u, h, g, i, t) => Seal(z, h + L, g + L, i + L, t)
    BY <1>1, SealLeft, SealRight
<1>4. Rows(z) = R1 \cup R2
    BY <1>1, RowsOfConcat DEF Block
<1>5. \A i \in DOMAIN z : i \notin DOMAIN s => i - L \in DOMAIN u /\ z[i] = u[i - L] /\ i - L + L = i
    <2> HIDE DEF z, L
    <2> TAKE i \in DOMAIN z
    <2> HAVE i \notin DOMAIN s
    <2>1. i - L \in DOMAIN u /\ i \in Nat
        BY <1>2
    <2>2. (i - L) + L = i
        BY <1>2, <2>1
    <2> QED BY <1>2, <2>1, <2>2
<1> HIDE DEF z, L
<1>6. Creates(z, C1 \cup C2)
    <2> SUFFICES ASSUME NEW i \in DOMAIN z, z[i].call = "create" PROVE z[i].table \in C1 \cup C2
        BY DEF Creates
    <2>1. CASE i \in DOMAIN s
        BY <1>2, <2>1 DEF Block, Creates
    <2>2. CASE i \notin DOMAIN s
        BY <1>5, <2>2 DEF Block, Creates
    <2> QED BY <2>1, <2>2
<1>7. Distinct(z)
    <2> SUFFICES ASSUME NEW i \in DOMAIN z, NEW j \in DOMAIN z, z[i].call = "load", z[j].call = "load",
                        z[i].row = z[j].row
                 PROVE  i = j
        BY DEF Distinct
    <2>1. Rows(s) = R1 /\ Rows(u) = R2 /\ Distinct(s) /\ Distinct(u)
        BY DEF Block
    <2>2. ASSUME NEW k \in DOMAIN z, z[k].call = "load"
          PROVE  /\ k \in DOMAIN s => z[k].row \in R1
                 /\ k \notin DOMAIN s => z[k].row \in R2
        <3>1. CASE k \in DOMAIN s
            BY <1>1, <1>2, <2>1, <2>2, <3>1, RowLoaded
        <3>2. CASE k \notin DOMAIN s
            BY <1>1, <1>5, <2>1, <2>2, <3>2, RowLoaded
        <3> QED BY <3>1, <3>2
    <2>3. CASE i \in DOMAIN s
        <3>1. j \in DOMAIN s
            BY <2>2, <2>3
        <3> QED BY <1>2, <2>1, <2>3, <3>1 DEF Distinct
    <2>4. CASE i \notin DOMAIN s
        <3>1. j \notin DOMAIN s
            BY <2>2, <2>4
        <3>2. i - L = j - L
            BY <1>5, <2>1, <2>4, <3>1 DEF Distinct
        <3>3. i - L + L = i /\ j - L + L = j
            BY <1>5, <2>4, <3>1
        <3> QED BY <3>2, <3>3
    <2> QED BY <2>3, <2>4
<1>8. Settles(z, T)
    <2> SUFFICES ASSUME NEW h \in DOMAIN z, z[h].call = "load"
                 PROVE  \/ \E g \in DOMAIN z : Seal(z, h, g, g, z[h].table)
                        \/ z[h].table \in T /\ \A m \in h + 1..Len(z) : ~ Is(z[m], "create", z[h].table)
        BY DEF Settles
    <2>1. CASE h \in DOMAIN s
        <3>1. s[h] = z[h]
            BY <1>2, <2>1
        <3>2. CASE \E g \in DOMAIN s : Seal(s, h, g, g, s[h].table)
            <4>1. PICK g \in DOMAIN s : Seal(s, h, g, g, s[h].table)
                BY <3>2
            <4>2. g \in Nat /\ h \in Nat /\ g \in DOMAIN z
                BY <1>2, <2>1
            <4>3. Seal(z, h, g, g, z[h].table)
                BY <1>3, <3>1, <4>1, <4>2
            <4> QED BY <4>2, <4>3
        <3>3. CASE s[h].table \in T /\ \A m \in h + 1..Len(s) : ~ Is(s[m], "create", s[h].table)
            <4>1. ASSUME NEW m \in h + 1..Len(z), Is(z[m], "create", z[h].table) PROVE FALSE
                <5>1. m \in DOMAIN z
                    BY <1>2
                <5>2. CASE m \in DOMAIN s
                    <6>1. m \in h + 1..L /\ s[m] = z[m]
                        BY <1>2, <5>2
                    <6> QED BY <3>1, <3>3, <4>1, <6>1 DEF L
                <5>3. CASE m \notin DOMAIN s
                    BY <1>5, <3>1, <3>3, <4>1, <5>1, <5>3 DEF Block, Creates, Is
                <5> QED BY <5>2, <5>3
            <4> QED BY <3>1, <3>3, <4>1
        <3>4. Settles(s, T)
            BY DEF Block
        <3> QED BY <2>1, <3>1, <3>2, <3>3, <3>4 DEF Settles
    <2>2. CASE h \notin DOMAIN s
        <3> DEFINE k == h - L
        <3>1. k \in DOMAIN u /\ u[k] = z[h] /\ k + L = h /\ k \in Nat
            BY <1>2, <1>5, <2>2
        <3> HIDE DEF k
        <3>2. CASE \E g \in DOMAIN u : Seal(u, k, g, g, u[k].table)
            <4>1. PICK g \in DOMAIN u : Seal(u, k, g, g, u[k].table)
                BY <3>2
            <4>2. g \in Nat /\ g + L \in DOMAIN z
                BY <1>2
            <4>3. Seal(z, h, g + L, g + L, z[h].table)
                BY <1>3, <3>1, <4>1, <4>2
            <4> QED BY <4>2, <4>3
        <3>3. CASE u[k].table \in T /\ \A m \in k + 1..Len(u) : ~ Is(u[m], "create", u[k].table)
            <4>1. ASSUME NEW m \in h + 1..Len(z), Is(z[m], "create", z[h].table) PROVE FALSE
                <5>1. m - L \in k + 1..Len(u) /\ m \in DOMAIN z /\ m \notin DOMAIN s
                    BY <1>2, <3>1
                <5>2. z[m] = u[m - L]
                    BY <1>5, <5>1
                <5> QED BY <3>1, <3>3, <4>1, <5>1, <5>2
            <4> QED BY <3>1, <3>3, <4>1
        <3>4. Settles(u, T)
            BY DEF Block
        <3> QED BY <3>1, <3>2, <3>3, <3>4 DEF Settles
    <2> QED BY <2>1, <2>2
<1>9. Ordered(z, H)
    <2> SUFFICES ASSUME NEW i \in DOMAIN z, z[i].call = "load", NEW p \in Parents(z[i].row), p \notin H
                 PROVE  First(z, i, p)
        BY DEF Ordered
    <2>1. CASE i \in DOMAIN s
        <3>1. s[i] = z[i]
            BY <1>2, <2>1
        <3>2. Ordered(s, H)
            BY DEF Block
        <3>3. First(s, i, p)
            BY <2>1, <3>1, <3>2 DEF Ordered
        <3>4. PICK h \in DOMAIN s, g \in DOMAIN s :
                  s[h].call = "load" /\ s[h].row = p /\ Seal(s, h, g, i, p[1])
            BY <3>3 DEF First
        <3>5. h \in Nat /\ g \in Nat /\ i \in Nat /\ h \in DOMAIN z /\ g \in DOMAIN z /\ z[h] = s[h]
            BY <1>2, <2>1
        <3>6. Seal(z, h, g, i, p[1])
            BY <1>3, <3>4, <3>5
        <3> QED BY <3>4, <3>5, <3>6 DEF First
    <2>2. CASE i \notin DOMAIN s
        <3> DEFINE k == i - L
        <3>1. k \in DOMAIN u /\ u[k] = z[i] /\ k + L = i /\ k \in Nat
            BY <1>2, <1>5, <2>2
        <3> HIDE DEF k
        <3>2. Ordered(u, H \cup {r \in R1 : r[1] \notin T})
            BY DEF Block
        <3>3. CASE p \in R1 /\ p[1] \notin T
            <4>1. PICK h \in DOMAIN s : s[h].call = "load" /\ s[h].row = p
                BY <1>1, <3>3, RowLoaded DEF Block
            <4>2. s[h].table = p[1]
                <5>1. s[h] \in Call
                    BY <1>1, <4>1 DEF Plan
                <5> QED BY <4>1, <5>1, CallTypes
            <4>3. PICK g \in DOMAIN s : Seal(s, h, g, g, p[1])
                BY <3>3, <4>1, <4>2 DEF Block, Settles
            <4>4. /\ h \in Nat /\ g \in Nat /\ h \in DOMAIN z /\ g \in DOMAIN z /\ z[h] = s[h]
                  /\ g < i /\ i \in Nat
                BY <1>2, <3>1
            <4>5. Seal(z, h, g, g, p[1])
                BY <1>3, <4>3, <4>4
            <4>6. i + 1..g - 1 = {}
                BY <4>4
            <4>7. Seal(z, h, g, i, p[1])
                BY <4>5, <4>6 DEF Seal
            <4> QED BY <4>1, <4>4, <4>7 DEF First
        <3>4. CASE First(u, k, p)
            <4>1. PICK h \in DOMAIN u, g \in DOMAIN u :
                      u[h].call = "load" /\ u[h].row = p /\ Seal(u, h, g, k, p[1])
                BY <3>4 DEF First
            <4>2. /\ h \in Nat /\ g \in Nat /\ h + L \in DOMAIN z /\ g + L \in DOMAIN z
                  /\ z[h + L] = u[h]
                BY <1>2, <3>1, <4>1
            <4>3. Seal(z, h + L, g + L, i, p[1])
                BY <1>3, <3>1, <4>1, <4>2
            <4> QED BY <4>1, <4>2, <4>3 DEF First
        <3> QED BY <3>1, <3>2, <3>3, <3>4 DEF Ordered
    <2> QED BY <2>1, <2>2
<1>10. Block(z, T, C1 \cup C2, H, R1 \cup R2)
    BY <1>2, <1>4, <1>6, <1>7, <1>8, <1>9 DEF Block
<1> QED BY <1>10 DEF z

\* Each of the sequences added, with the sets G of what there may be so far.
LEMMA Repeated ==
    ASSUME NEW n \in Nat, NEW ss \in [1..n -> Plan], NEW G \in [0..n -> SUBSET Plan],
           <<>> \in G[0], \A i \in 1..n : \A s \in G[i - 1] : s \o ss[i] \in G[i]
    PROVE  FlattenSeq(ss) \in G[n]
<1>1. CASE n = 0
    <2>1. ss = <<>> /\ Len(ss) = 0
        <3>1. ss \in [1..0 -> Plan]
            BY <1>1
        <3> QED BY <3>1
    <2>2. FlattenSeq(ss) = ss
        BY <2>1 DEF FlattenSeq
    <2> QED BY <1>1, <2>1, <2>2
<1>2. CASE n # 0
    <2>1. PICK f : Flattens(f, ss, n) /\ FlattenSeq(ss) = f[n]
        BY <1>2, FlattenIsLast DEF Plan
    <2> DEFINE A == {m \in Nat : m + 1 <= n => f[m + 1] \in G[m + 1]}
    <2>2. 0 \in A
        <3>1. 1 \in 1..n /\ 1 - 1 = 0
            BY <1>2
        <3>2. ss[1] \in Plan /\ <<>> \o ss[1] \in G[1]
            BY <3>1
        <3>3. <<>> \o ss[1] = ss[1]
            BY <3>2, ConcatEmptySeq DEF Plan
        <3> QED BY <2>1, <3>2, <3>3 DEF Flattens
    <2>3. ASSUME NEW m \in Nat, m \in A PROVE m + 1 \in A
        <3> SUFFICES ASSUME m + 2 <= n PROVE f[m + 2] \in G[m + 2]
            OBVIOUS
        <3>1. f[m + 1] \in G[m + 1]
            BY <2>3
        <3>2. m + 2 \in 2..n /\ m + 2 \in 1..n /\ (m + 2) - 1 = m + 1
            OBVIOUS
        <3> HIDE DEF A
        <3>3. f[m + 2] = f[(m + 2) - 1] \o ss[m + 2]
            BY ONLY <2>1, <3>2, Zenon DEF Flattens
        <3> QED BY <3>1, <3>2, <3>3
    <2> HIDE DEF A
    <2>4. \A m \in Nat : m \in A
        BY <2>2, <2>3, AllNumbers
    <2>5. n - 1 \in A
        BY <1>2, <2>4
    <2> QED BY <1>2, <2>1, <2>5 DEF A
<1> QED BY <1>1, <1>2

\* Parts that load one batch after the other.
LEMMA Loop ==
    ASSUME NEW n \in Nat, NEW ss \in [1..n -> Plan], NEW T, NEW C, NEW H,
           NEW R \in [1..n -> SUBSET AllRows],
           \A i \in 1..n : Block(ss[i], T, C, H, R[i]), C \cap T = {},
           \A i, j \in 1..n : i # j => R[i] \cap R[j] = {}
    PROVE  Block(FlattenSeq(ss), T, C, H, UNION {R[i] : i \in 1..n})
<1> DEFINE U(i) == UNION {R[j] : j \in 1..i}
           G == [i \in 0..n |-> {s \in Plan : Block(s, T, C, H, U(i))}]
<1>1. G \in [0..n -> SUBSET Plan]
    OBVIOUS
<1>2. <<>> \in G[0]
    <2>1. <<>> \in Plan /\ DOMAIN <<>> = {}
        BY DEF Plan
    <2>2. U(0) = {}
        OBVIOUS
    <2> HIDE DEF U
    <2>3. Block(<<>>, T, C, H, U(0))
        BY <2>1, <2>2 DEF Block, Rows, Settles, Creates, Distinct, Ordered
    <2> QED BY <2>1, <2>3
<1>3. ASSUME NEW i \in 1..n, NEW s \in G[i - 1] PROVE s \o ss[i] \in G[i]
    <2>1. i - 1 \in 0..n /\ i \in 0..n
        OBVIOUS
    <2>2. U(i) = U(i - 1) \cup R[i]
        <3>1. 1..i = 1..i - 1 \cup {i}
            OBVIOUS
        <3> QED BY <3>1
    <2>3. U(i - 1) \cap R[i] = {}
        <3>1. \A j \in 1..i - 1 : j \in 1..n /\ j # i
            OBVIOUS
        <3> QED BY <3>1
    <2> HIDE DEF U
    <2>4. s \in Plan /\ Block(s, T, C, H, U(i - 1))
        BY <2>1
    <2>5. Block(ss[i], T, C, H \cup {r \in U(i - 1) : r[1] \notin T}, R[i])
        BY DEF Block, Ordered
    <2>6. Block(s \o ss[i], T, C \cup C, H, U(i - 1) \cup R[i])
        BY <2>3, <2>4, <2>5, Join
    <2>7. Block(s \o ss[i], T, C, H, U(i)) /\ s \o ss[i] \in Plan
        BY <2>2, <2>6 DEF Block
    <2> QED BY <2>1, <2>7
<1> HIDE DEF G
<1>4. FlattenSeq(ss) \in G[n]
    BY <1>1, <1>2, <1>3, Repeated
<1> QED BY <1>4 DEF G

\* The set of tables left open, those created, and the rows to refer to may be
\* taken larger.
LEMMA Weaken ==
    ASSUME NEW s, NEW T1, NEW C1, NEW H1, NEW R, NEW T2, NEW C2, NEW H2,
           Block(s, T1, C1, H1, R), T1 \subseteq T2, C1 \subseteq C2, H1 \subseteq H2
    PROVE  Block(s, T2, C2, H2, R)
<1>1. Settles(s, T2)
    BY DEF Block, Settles
<1>2. Ordered(s, H2)
    BY DEF Block, Ordered
<1>3. Creates(s, C2)
    BY DEF Block, Creates
<1> QED BY <1>1, <1>2, <1>3 DEF Block

\* Nothing.
LEMMA EmptyBlock ==
    ASSUME NEW T, NEW C, NEW H
    PROVE  Block(<<>>, T, C, H, {})
<1>1. <<>> \in Plan /\ DOMAIN <<>> = {}
    BY DEF Plan
<1> QED BY <1>1 DEF Block, Rows, Settles, Creates, Distinct, Ordered

\* A call that loads nothing.
LEMMA CallBlock ==
    ASSUME NEW t \in Tables, NEW T, NEW C, NEW H
    PROVE  /\ Block(commit(t), T, C, H, {})
           /\ t \in C => Block(create(t), T, C, H, {})
<1>1. ASSUME NEW s \in Plan, Len(s) = 1, s[1].call # "load", s[1].call = "create" => s[1].table \in C
      PROVE  Block(s, T, C, H, {})
    <2>1. DOMAIN s = {1}
        <3>1. DOMAIN s = 1..1
            BY <1>1 DEF Plan
        <3> QED BY <3>1
    <2>2. Rows(s) = {} /\ Creates(s, C)
        BY <1>1, <2>1 DEF Rows, Creates
    <2> QED BY <1>1, <2>1, <2>2 DEF Block, Settles, Distinct, Ordered
<1>2. /\ create(t) \in Plan /\ Len(create(t)) = 1 /\ create(t)[1].call = "create" /\ create(t)[1].table = t
      /\ commit(t) \in Plan /\ Len(commit(t)) = 1 /\ commit(t)[1].call = "commit"
    BY TableCalls DEF Is
<1> QED BY <1>1, <1>2

\* The load of a row.
LEMMA LoadBlock ==
    ASSUME NEW row \in AllRows, NEW T, NEW C, NEW H, row[1] \in T, Parents(row) \subseteq H
    PROVE  Block(load(row), T, C, H, {row})
<1> DEFINE s == load(row)
<1>1. s \in Plan /\ Len(s) = 1 /\ s[1].call = "load" /\ s[1].table = row[1] /\ s[1].row = row
    BY LoadCall DEF Is
<1>2. DOMAIN s = {1}
    <2> HIDE DEF s
    <2>1. DOMAIN s = 1..1
        BY <1>1 DEF Plan
    <2> QED BY <2>1
<1> HIDE DEF s
<1>3. Rows(s) = {row}
    BY <1>1, <1>2 DEF Rows
<1>4. Settles(s, T)
    <2>1. 1 + 1..Len(s) = {}
        BY <1>1
    <2> QED BY <1>1, <1>2, <2>1 DEF Settles
<1>5. Creates(s, C) /\ Distinct(s) /\ Ordered(s, H)
    BY <1>1, <1>2 DEF Creates, Distinct, Ordered
<1> QED BY <1>1, <1>3, <1>4, <1>5 DEF Block, s

\* A call at the end.
LEMMA LastCall ==
    ASSUME NEW s \in Plan, NEW u \in Plan, Len(u) = 1
    PROVE  /\ s \o u \in Plan /\ Len(s) \in Nat /\ Len(s \o u) = Len(s) + 1
           /\ DOMAIN s = 1..Len(s) /\ DOMAIN (s \o u) = 1..Len(s) + 1
           /\ \A i \in 1..Len(s) : (s \o u)[i] = s[i]
           /\ (s \o u)[Len(s) + 1] = u[1]
<1>1. DOMAIN u = {1}
    <2>1. DOMAIN u = 1..1
        BY DEF Plan
    <2> QED BY <2>1
<1>2. (s \o u)[1 + Len(s)] = u[1]
    <2>1. \A i \in DOMAIN u : (s \o u)[i + Len(s)] = u[i]
        BY Places
    <2> QED BY ONLY <1>1, <2>1, Zenon
<1>3. /\ s \o u \in Plan /\ Len(s) \in Nat /\ Len(s \o u) = Len(s) + Len(u)
      /\ DOMAIN s = 1..Len(s) /\ DOMAIN (s \o u) = 1..Len(s) + Len(u)
      /\ \A i \in DOMAIN s : (s \o u)[i] = s[i]
    BY ONLY s \in Plan, u \in Plan, Places
<1>4. 1 + Len(s) = Len(s) + 1
    BY <1>3
<1> QED BY ONLY <1>2, <1>3, <1>4, Len(u) = 1, Zenon

\* Closing the loader of a table at the end.
LEMMA CloseLast ==
    ASSUME NEW s, NEW T, NEW C, NEW H, NEW R, NEW t \in Tables, Block(s, T, C, H, R)
    PROVE  Block(s \o close(t), T \ {t}, C, H, R)
<1> DEFINE z == s \o close(t)
           L == Len(s)
<1>1. s \in Plan /\ close(t) \in Plan /\ Len(close(t)) = 1 /\ Is(close(t)[1], "close", t)
    BY TableCalls DEF Block
<1>2. /\ z \in Plan /\ L \in Nat /\ Len(z) = L + 1
      /\ DOMAIN s = 1..L /\ DOMAIN z = 1..L + 1
      /\ \A i \in 1..L : z[i] = s[i]
      /\ z[L + 1].call = "close" /\ z[L + 1].table = t
    BY <1>1, LastCall DEF Is
<1>3. \A h, g, i \in Nat : \A x : Seal(s, h, g, i, x) => Seal(z, h, g, i, x)
    BY <1>1, SealLeft
<1>4. Rows(z) = R
    <2>1. Rows(close(t)) = {}
        <3>1. DOMAIN close(t) = 1..1
            BY <1>1 DEF Plan
        <3> QED BY <1>1, <3>1 DEF Rows, Is
    <2>2. Rows(s \o close(t)) = Rows(s) \cup Rows(close(t))
        BY <1>1, RowsOfConcat
    <2> QED BY <2>1, <2>2 DEF Block
<1> HIDE DEF z, L
<1>5. \A i \in DOMAIN z : z[i].call # "close" => i \in DOMAIN s
    BY <1>2
<1>6. Creates(z, C) /\ Distinct(z)
    BY <1>2, <1>5 DEF Creates, Distinct, Block
<1>7. Settles(z, T \ {t})
    <2> SUFFICES ASSUME NEW h \in DOMAIN z, z[h].call = "load"
                 PROVE  \/ \E g \in DOMAIN z : Seal(z, h, g, g, z[h].table)
                        \/ /\ z[h].table \in T \ {t}
                           /\ \A m \in h + 1..Len(z) : ~ Is(z[m], "create", z[h].table)
        BY DEF Settles
    <2>1. h \in DOMAIN s /\ s[h] = z[h] /\ h \in Nat /\ h <= L
        BY <1>2, <1>5
    <2>2. CASE \E g \in DOMAIN s : Seal(s, h, g, g, s[h].table)
        <3>1. PICK g \in DOMAIN s : Seal(s, h, g, g, s[h].table)
            BY <2>2
        <3>2. g \in Nat /\ g \in DOMAIN z
            BY <1>2
        <3> QED BY <1>3, <2>1, <3>1, <3>2
    <2>3. CASE s[h].table \in T /\ \A m \in h + 1..Len(s) : ~ Is(s[m], "create", s[h].table)
        <3>1. \A m \in h + 1..Len(z) : ~ Is(z[m], "create", z[h].table)
            <4> TAKE m \in h + 1..Len(z)
            <4>1. CASE m = L + 1
                BY <1>2, <4>1 DEF Is
            <4>2. CASE m # L + 1
                <5>1. m \in h + 1..L /\ z[m] = s[m]
                    BY <1>2, <2>1, <4>2
                <5> QED BY <2>1, <2>3, <5>1 DEF L
            <4> QED BY <4>1, <4>2
        <3>2. CASE z[h].table = t
            <4>1. L + 1 \in DOMAIN z /\ L + 1 \in h + 1..Len(z) /\ L + 1 + 1..L + 1 - 1 = {}
                BY <1>2, <2>1
            <4>2. Seal(z, h, L + 1, L + 1, t)
                BY <1>2, <3>1, <3>2, <4>1 DEF Seal, Is
            <4> QED BY <3>2, <4>1, <4>2
        <3>3. CASE z[h].table # t
            BY <2>1, <2>3, <3>1, <3>3
        <3> QED BY <3>2, <3>3
    <2> QED BY <2>1, <2>2, <2>3 DEF Block, Settles
<1>8. Ordered(z, H)
    <2> SUFFICES ASSUME NEW i \in DOMAIN z, z[i].call = "load", NEW p \in Parents(z[i].row), p \notin H
                 PROVE  First(z, i, p)
        BY DEF Ordered
    <2>1. i \in DOMAIN s /\ s[i] = z[i] /\ i \in Nat
        BY <1>2, <1>5
    <2>2. PICK h \in DOMAIN s, g \in DOMAIN s :
              s[h].call = "load" /\ s[h].row = p /\ Seal(s, h, g, i, p[1])
        BY <2>1 DEF Block, Ordered, First
    <2>3. h \in Nat /\ g \in Nat /\ h \in DOMAIN z /\ g \in DOMAIN z /\ z[h] = s[h]
        BY <1>2
    <2> QED BY <1>3, <2>1, <2>2, <2>3 DEF First
<1>9. Block(z, T \ {t}, C, H, R)
    BY <1>2, <1>4, <1>6, <1>7, <1>8 DEF Block
<1> QED BY <1>9 DEF z

\* A part that only loads rows.
Quiet(s) == s \in Plan /\ \A i \in DOMAIN s : s[i].call = "load"

\* The rows of a part that only loads rows may refer to rows of the table that is
\* closed first behind it.
LEMMA CloseFirst ==
    ASSUME NEW s, NEW T, NEW C, NEW H, NEW R, NEW t \in Tables,
           Quiet(s), Block(s, T, C, H \cup {r \in R : r[1] = t}, R)
    PROVE  Block(s \o close(t), T \ {t}, C, H, R)
<1> DEFINE z == s \o close(t)
           L == Len(s)
<1>1. s \in Plan /\ close(t) \in Plan /\ Len(close(t)) = 1 /\ Is(close(t)[1], "close", t)
    BY TableCalls DEF Block
<1>2. /\ z \in Plan /\ L \in Nat /\ Len(z) = L + 1
      /\ DOMAIN s = 1..L /\ DOMAIN z = 1..L + 1
      /\ \A i \in 1..L : z[i] = s[i]
      /\ z[L + 1].call = "close" /\ z[L + 1].table = t
    BY <1>1, LastCall DEF Is
<1>3. Block(z, T \ {t}, C, H \cup {r \in R : r[1] = t}, R)
    BY CloseLast
<1> HIDE DEF z, L
<1>4. Ordered(z, H)
    <2> SUFFICES ASSUME NEW i \in DOMAIN z, z[i].call = "load", NEW p \in Parents(z[i].row), p \notin H
                 PROVE  First(z, i, p)
        BY DEF Ordered
    <2>1. i \in Nat /\ i <= L
        BY <1>2
    <2>2. CASE p \in R /\ p[1] = t
        <3>1. PICK h \in DOMAIN s : s[h].call = "load" /\ s[h].row = p
            BY <1>1, <2>2, RowLoaded DEF Block
        <3>2. h \in DOMAIN z /\ L + 1 \in DOMAIN z /\ z[h] = s[h] /\ h \in Nat /\ h <= L
            BY <1>2
        <3>3. \A m \in 1..L : z[m].call = "load"
            BY <1>2 DEF Quiet
        <3>4. Seal(z, h, L + 1, i, t)
            <4>1. \A m \in h + 1..L + 1 : ~ Is(z[m], "create", t)
                <5> TAKE m \in h + 1..L + 1
                <5>1. m = L + 1 \/ m \in 1..L
                    BY <1>2, <3>2
                <5> QED BY <1>2, <3>3, <5>1 DEF Is
            <4>2. \A m \in i + 1..L + 1 - 1 : z[m].call \notin {"commit", "close"}
                <5> TAKE m \in i + 1..L + 1 - 1
                <5>1. m \in 1..L
                    BY <1>2, <2>1
                <5> QED BY <3>3, <5>1
            <4>3. L + 1 \in h + 1..Len(z) /\ Is(z[L + 1], "close", t) /\ L + 1 - 1 = (L + 1) - 1
                BY <1>2, <3>2 DEF Is
            <4> QED BY <4>1, <4>2, <4>3 DEF Seal
        <3> QED BY <2>2, <3>1, <3>2, <3>4 DEF First
    <2>3. CASE First(z, i, p)
        BY <2>3
    <2> QED BY <1>3, <2>2, <2>3 DEF Block, Ordered
<1>5. Block(z, T \ {t}, C, H, R)
    BY <1>3, <1>4 DEF Block
<1> QED BY <1>5 DEF z

\* What is put together from parts that only load does.
LEMMA QuietParts ==
    /\ Quiet(<<>>)
    /\ \A row \in AllRows : Quiet(load(row))
    /\ \A s, u : Quiet(s) /\ Quiet(u) => Quiet(s \o u)
<1>1. Quiet(<<>>)
    BY DEF Quiet, Plan
<1>2. ASSUME NEW row \in AllRows PROVE Quiet(load(row))
    <2>1. load(row) \in Plan /\ Len(load(row)) = 1 /\ load(row)[1].call = "load"
        BY LoadCall DEF Is
    <2>2. DOMAIN load(row) = 1..1
        BY <2>1 DEF Plan
    <2> QED BY <2>1, <2>2 DEF Quiet
<1>3. ASSUME NEW s, NEW u, Quiet(s), Quiet(u) PROVE Quiet(s \o u)
    <2> DEFINE z == s \o u
               L == Len(s)
    <2>1. s \in Plan /\ u \in Plan
        BY <1>3 DEF Quiet
    <2>2. /\ z \in Plan /\ L \in Nat
          /\ \A i \in DOMAIN s : z[i] = s[i]
          /\ \A i \in DOMAIN u : z[i + L] = u[i]
          /\ DOMAIN z = 1..Len(s) + Len(u) /\ DOMAIN u = 1..Len(u) /\ DOMAIN s = 1..L /\ Len(u) \in Nat
          /\ \A i \in DOMAIN z : i \in DOMAIN s \/ i - L \in DOMAIN u
        BY <2>1, Places
    <2> HIDE DEF z
    <2>3. ASSUME NEW i \in DOMAIN z PROVE z[i].call = "load"
        <3>1. CASE i \in DOMAIN s
            BY <1>3, <2>2, <3>1 DEF Quiet
        <3>2. CASE i - L \in DOMAIN u
            <4> DEFINE k == i - L
            <4>1. k \in DOMAIN u /\ k + L = i
                BY <2>2, <3>2
            <4> HIDE DEF k
            <4> QED BY <1>3, <2>2, <4>1 DEF Quiet
        <3> QED BY <2>2, <3>1, <3>2
    <2>4. Quiet(z)
        BY <2>2, <2>3 DEF Quiet
    <2> QED BY <2>4 DEF z
<1> QED BY <1>1, <1>2, <1>3

\* So does a loop.
LEMMA QuietLoop ==
    ASSUME NEW n \in Nat, NEW ss \in [1..n -> Plan], \A i \in 1..n : Quiet(ss[i])
    PROVE  Quiet(FlattenSeq(ss))
<1> DEFINE G == [i \in 0..n |-> {s \in Plan : Quiet(s)}]
<1>1. G \in [0..n -> SUBSET Plan] /\ <<>> \in G[0]
    BY QuietParts DEF Quiet
<1>2. ASSUME NEW i \in 1..n, NEW s \in G[i - 1] PROVE s \o ss[i] \in G[i]
    <2>1. i - 1 \in 0..n /\ i \in 0..n
        OBVIOUS
    <2>2. Quiet(s)
        BY <2>1
    <2>3. Quiet(s \o ss[i])
        BY <2>2, QuietParts
    <2> QED BY <2>1, <2>3 DEF Quiet
<1> HIDE DEF G
<1>3. FlattenSeq(ss) \in G[n]
    BY <1>1, <1>2, Repeated
<1> QED BY <1>3 DEF G

\* Two parts that refer to the same rows.
LEMMA JoinSame ==
    ASSUME NEW s, NEW u, NEW T, NEW C1, NEW C2, NEW H, NEW R1, NEW R2,
           Block(s, T, C1, H, R1), Block(u, T, C2, H, R2), R1 \cap R2 = {}, C2 \cap T = {}
    PROVE  Block(s \o u, T, C1 \cup C2, H, R1 \cup R2)
<1>1. Block(u, T, C2, H \cup {r \in R1 : r[1] \notin T}, R2)
    BY DEF Block, Ordered
<1> QED BY <1>1, Join

\* A loop that loads rows.
LEMMA LoadLoop ==
    ASSUME NEW n \in Nat, NEW row \in [1..n -> AllRows], NEW T, NEW H,
           \A i \in 1..n : row[i][1] \in T /\ Parents(row[i]) \subseteq H,
           \A i, j \in 1..n : row[i] = row[j] => i = j
    PROVE  /\ Block(FlattenSeq([i \in 1..n |-> load(row[i])]), T, {}, H, {row[i] : i \in 1..n})
           /\ Quiet(FlattenSeq([i \in 1..n |-> load(row[i])]))
<1> DEFINE ss == [i \in 1..n |-> load(row[i])]
           R  == [i \in 1..n |-> {row[i]}]
<1>1. ss \in [1..n -> Plan] /\ \A i \in 1..n : Quiet(ss[i])
    <2>1. \A i \in 1..n : row[i] \in AllRows
        OBVIOUS
    <2>2. \A i \in 1..n : load(row[i]) \in Plan /\ Quiet(load(row[i]))
        BY <2>1, LoadCall, QuietParts
    <2> QED BY <2>2
<1>2. \A i \in 1..n : Block(load(row[i]), T, {}, H, {row[i]})
    BY LoadBlock
<1>3. R \in [1..n -> SUBSET AllRows]
    OBVIOUS
<1>4. \A i \in 1..n : Block(ss[i], T, {}, H, R[i])
    BY <1>2
<1>5. \A i, j \in 1..n : i # j => R[i] \cap R[j] = {}
    OBVIOUS
<1>6. UNION {R[i] : i \in 1..n} = {row[i] : i \in 1..n}
    OBVIOUS
<1> HIDE DEF ss, R
<1>7. Block(FlattenSeq(ss), T, {}, H, UNION {R[i] : i \in 1..n})
    BY <1>1, <1>3, <1>4, <1>5, Loop
<1>8. Quiet(FlattenSeq(ss))
    BY <1>1, QuietLoop
<1> QED BY <1>6, <1>7, <1>8 DEF ss

\* The loop with the loader of its table created before and closed behind.
LEMMA TableLoop ==
    ASSUME NEW n \in Nat, NEW row \in [1..n -> AllRows], NEW t \in Tables, NEW H,
           \A i \in 1..n : row[i][1] = t /\ Parents(row[i]) \subseteq H,
           \A i, j \in 1..n : row[i] = row[j] => i = j
    PROVE  Block(create(t) \o FlattenSeq([i \in 1..n |-> load(row[i])]) \o close(t), {}, {t}, H,
                 {row[i] : i \in 1..n})
<1> DEFINE body == FlattenSeq([i \in 1..n |-> load(row[i])])
           R    == {row[i] : i \in 1..n}
<1>1. Block(body, {t}, {}, H, R)
    <2>1. \A i \in 1..n : row[i][1] \in {t} /\ Parents(row[i]) \subseteq H
        OBVIOUS
    <2> QED BY <2>1, LoadLoop
<1> HIDE DEF body, R
<1>2. Block(create(t), {t}, {t}, H, {})
    BY CallBlock
<1>3. Block(create(t) \o body, {t}, {t} \cup {}, H, {} \cup R)
    BY <1>1, <1>2, JoinSame
<1>4. Block(create(t) \o body \o close(t), {t} \ {t}, {t} \cup {}, H, {} \cup R)
    BY <1>3, CloseLast
<1>5. {t} \ {t} = {} /\ {t} \cup {} = {t} /\ {} \cup R = R
    OBVIOUS
<1>6. Block(create(t) \o body \o close(t), {}, {t}, H, R)
    BY ONLY <1>4, <1>5, Zenon
<1> QED BY <1>6 DEF body, R

-----------------------------------------------------------------------------
(* The parts of Load.                                                      *)

\* A set of numbers up to n has a greatest one.
LEMMA Greatest ==
    ASSUME NEW n \in Nat, NEW S \in SUBSET (1..n), S # {}
    PROVE  Max(S) \in S
<1> DEFINE A == {m \in Nat : \A Q \in SUBSET (1..m) : Q # {} => \E x \in Q : \A y \in Q : x >= y}
<1>1. 0 \in A
    <2>1. 1..0 = {}
        OBVIOUS
    <2> QED BY <2>1
<1>2. ASSUME NEW m \in Nat, m \in A PROVE m + 1 \in A
    <2> SUFFICES ASSUME NEW Q \in SUBSET (1..m + 1), Q # {} PROVE \E x \in Q : \A y \in Q : x >= y
        OBVIOUS
    <2>1. CASE m + 1 \in Q
        BY <2>1
    <2>2. CASE m + 1 \notin Q
        <3>1. Q \in SUBSET (1..m)
            BY <2>2
        <3> QED BY <1>2, <3>1
    <2> QED BY <2>1, <2>2
<1> HIDE DEF A
<1>3. n \in A
    BY <1>1, <1>2, AllNumbers
<1>4. \E x \in S : \A y \in S : x >= y
    BY <1>3 DEF A
<1> QED BY <1>4 DEF Max

\* Each order has a customer.
LEMMA Customers ==
    \A o \in 1..ORD_PER_DIST : initPermutation[o] \in 1..CUST_PER_DIST
<1> SUFFICES ASSUME NEW o \in 1..ORD_PER_DIST PROVE initPermutation[o] \in 1..CUST_PER_DIST
    OBVIOUS
<1> DEFINE writers(place) == {i \in 1..ORD_PER_DIST - 1 : randomNumber[i - 1] + 1 = place}
<1>1. ORD_PER_DIST \in Nat /\ ORD_PER_DIST = CUST_PER_DIST
    BY LoadAssumption
<1>2. initPermutation[o] = IF writers(o) = {} THEN o ELSE Max(writers(o))
    BY DEF initPermutation
<1>3. CASE writers(o) # {}
    <2>1. writers(o) \in SUBSET (1..ORD_PER_DIST)
        BY <1>1
    <2> HIDE DEF writers
    <2>2. Max(writers(o)) \in writers(o)
        BY <1>1, <1>3, <2>1, Greatest
    <2> QED BY <1>1, <1>2, <1>3, <2>1, <2>2
<1> QED BY <1>1, <1>2, <1>3

\* The rows of the tables, for a warehouse w and a district d.
ItemRows         == {<<"item", i>> : i \in 1..MAXITEMS}
StockRows(w)     == {<<"stock", w, i>> : i \in 1..MAXITEMS}
DistrictRows(w)  == {<<"district", w, d>> : d \in Dist}
WareRows(w)      == {<<"warehouse", w>>} \cup StockRows(w) \cup DistrictRows(w)
CustRows(w, d)   == {<<t, w, d, n>> : t \in {"customer", "history"}, n \in 1..CUST_PER_DIST}
OrderRow(w, d, o)     == <<"orders", w, d, o, initPermutation[o]>>
NewOrderRows(w, d, o) == IF o > LastDelivered THEN {<<"new_orders", w, d, o>>} ELSE {}
LineRows(w, d, o)     == {<<"order_line", w, d, o, n>> : n \in 1..OrderLines}
OneOrder(w, d, o)     == {OrderRow(w, d, o)} \cup NewOrderRows(w, d, o) \cup LineRows(w, d, o)
OrdRows(w, d)         == UNION {OneOrder(w, d, o) : o \in 1..ORD_PER_DIST}

\* The constants are numbers.
LEMMA Constants ==
    /\ MAXITEMS \in Nat /\ DIST_PER_WARE \in Nat /\ CUST_PER_DIST \in Nat /\ num_ware \in Nat
    /\ ORD_PER_DIST \in Nat /\ LastDelivered \in Nat /\ OrderLines \in Nat
    BY LoadAssumption

\* The kinds of rows.
LEMMA RowKinds ==
    ASSUME NEW w \in Nat
    PROVE  /\ \A i \in Nat : <<"stock", w, i>> \in AllRows
           /\ <<"warehouse", w>> \in AllRows
           /\ \A d \in Nat : <<"district", w, d>> \in AllRows
           /\ \A d, n \in Nat : /\ <<"customer", w, d, n>> \in AllRows /\ <<"history", w, d, n>> \in AllRows
                                /\ <<"new_orders", w, d, n>> \in AllRows
           /\ \A d, o, n \in Nat : /\ <<"order_line", w, d, o, n>> \in AllRows
                                   /\ <<"orders", w, d, o, n>> \in AllRows
    BY DEF AllRows, Tables

\* loadItems, stock and district.
LEMMA ItemsBlock == Block(loadItems, {}, {"item"}, {}, ItemRows)
<1> DEFINE row == [i \in 1..MAXITEMS |-> <<"item", i>>]
<1>1. row \in [1..MAXITEMS -> AllRows]
    <2>1. \A i \in 1..MAXITEMS : i \in Nat
        BY Constants
    <2>2. \A i \in 1..MAXITEMS : <<"item", i>> \in AllRows
        BY <2>1 DEF AllRows, Tables
    <2> QED BY <2>2
<1>2. \A i \in 1..MAXITEMS : row[i][1] = "item" /\ Parents(row[i]) \subseteq {}
    BY DEF Parents
<1>3. \A i, j \in 1..MAXITEMS : row[i] = row[j] => i = j
    OBVIOUS
<1>4. {row[i] : i \in 1..MAXITEMS} = ItemRows
    BY DEF ItemRows
<1>5. loadItems = create("item") \o FlattenSeq([i \in 1..MAXITEMS |-> load(row[i])]) \o close("item")
    BY DEF loadItems, for
<1>6. "item" \in Tables
    BY DEF Tables
<1> HIDE DEF row
<1> QED BY <1>1, <1>2, <1>3, <1>4, <1>5, <1>6, TableLoop, Constants

\* The stocks of a warehouse refer to the items.
LEMMA StockBlock ==
    ASSUME NEW w \in Nat
    PROVE  Block(stock(w), {}, {"stock"}, ItemRows, StockRows(w))
<1> DEFINE row == [i \in 1..MAXITEMS |-> <<"stock", w, i>>]
<1>1. row \in [1..MAXITEMS -> AllRows]
    <2>1. \A i \in 1..MAXITEMS : i \in Nat
        BY Constants
    <2>2. \A i \in 1..MAXITEMS : <<"stock", w, i>> \in AllRows
        BY <2>1 DEF AllRows, Tables
    <2> QED BY <2>2
<1>2. \A i \in 1..MAXITEMS : row[i][1] = "stock" /\ Parents(row[i]) \subseteq ItemRows
    BY DEF Parents, ItemRows
<1>3. \A i, j \in 1..MAXITEMS : row[i] = row[j] => i = j
    OBVIOUS
<1>4. {row[i] : i \in 1..MAXITEMS} = StockRows(w)
    BY DEF StockRows
<1>5. stock(w) = create("stock") \o FlattenSeq([i \in 1..MAXITEMS |-> load(row[i])]) \o close("stock")
    BY DEF stock, for
<1>6. "stock" \in Tables
    BY DEF Tables
<1> HIDE DEF row
<1>7. Block(create("stock") \o FlattenSeq([i \in 1..MAXITEMS |-> load(row[i])]) \o close("stock"), {}, {"stock"},
            ItemRows, {row[i] : i \in 1..MAXITEMS})
    BY ONLY <1>1, <1>2, <1>3, <1>6, TableLoop, Constants
<1> QED BY ONLY <1>4, <1>5, <1>7, Zenon

\* The districts of a warehouse refer to nothing that has to be stored.
LEMMA DistrictBlock ==
    ASSUME NEW w \in Nat, NEW H
    PROVE  Block(district(w), {}, {"district"}, H, DistrictRows(w))
<1> DEFINE row == [d \in 1..DIST_PER_WARE |-> <<"district", w, d>>]
<1>1. row \in [1..DIST_PER_WARE -> AllRows]
    <2>1. \A d \in 1..DIST_PER_WARE : d \in Nat
        BY Constants
    <2>2. \A d \in 1..DIST_PER_WARE : <<"district", w, d>> \in AllRows
        BY <2>1 DEF AllRows, Tables
    <2> QED BY <2>2
<1>2. \A d \in 1..DIST_PER_WARE : row[d][1] = "district" /\ Parents(row[d]) \subseteq H
    BY DEF Parents
<1>3. \A i, j \in 1..DIST_PER_WARE : row[i] = row[j] => i = j
    OBVIOUS
<1>4. {row[d] : d \in 1..DIST_PER_WARE} = DistrictRows(w)
    BY DEF DistrictRows, Dist
<1>5. district(w) = create("district") \o FlattenSeq([d \in 1..DIST_PER_WARE |-> load(row[d])])
                    \o close("district")
    BY DEF district, for
<1>6. "district" \in Tables
    BY DEF Tables
<1> HIDE DEF row
<1>7. Block(create("district") \o FlattenSeq([d \in 1..DIST_PER_WARE |-> load(row[d])]) \o close("district"), {}, {"district"},
            H, {row[d] : d \in 1..DIST_PER_WARE})
    BY ONLY <1>1, <1>2, <1>3, <1>6, TableLoop, Constants
<1> QED BY ONLY <1>4, <1>5, <1>7, Zenon

\* The rows name their table and warehouse.
LEMMA WareKeys ==
    ASSUME NEW w \in Nat
    PROVE  /\ \A r \in StockRows(w) : r[1] = "stock" /\ r[2] = w
           /\ \A r \in DistrictRows(w) : r[1] = "district" /\ r[2] = w
           /\ \A r \in WareRows(w) : r[2] = w /\ r[1] \in {"warehouse", "stock", "district"}
           /\ WareRows(w) \subseteq AllRows
<1>1. ASSUME NEW r \in StockRows(w) PROVE r[1] = "stock" /\ r[2] = w /\ r \in AllRows
    <2>1. PICK i \in 1..MAXITEMS : r = <<"stock", w, i>>
        BY <1>1 DEF StockRows
    <2>2. i \in Nat
        BY Constants
    <2> QED BY <2>1, <2>2, RowKinds
<1>2. ASSUME NEW r \in DistrictRows(w) PROVE r[1] = "district" /\ r[2] = w /\ r \in AllRows
    <2>1. PICK d \in 1..DIST_PER_WARE : r = <<"district", w, d>>
        BY <1>2 DEF DistrictRows, Dist
    <2>2. d \in Nat
        BY Constants
    <2> QED BY <2>1, <2>2, RowKinds
<1>3. <<"warehouse", w>>[1] = "warehouse" /\ <<"warehouse", w>>[2] = w /\ <<"warehouse", w>> \in AllRows
    BY RowKinds
<1> QED BY <1>1, <1>2, <1>3 DEF WareRows

\* loadWare.
LEMMA WareBlock ==
    ASSUME NEW c
    PROVE  Block(loadWare(c), {}, {"warehouse", "stock", "district"}, ItemRows,
                 UNION {IF isOurs(c, w) THEN WareRows(w) ELSE {} : w \in 1..num_ware})
<1> DEFINE one(w) == load(<<"warehouse", w>>) \o commit("warehouse") \o stock(w) \o district(w)
           W      == {"warehouse"}
           C      == {"stock", "district"}
<1>1. ASSUME NEW w \in Nat PROVE Block(one(w), W, C, ItemRows, WareRows(w))
    <2>1. "warehouse" \in Tables /\ <<"warehouse", w>> \in AllRows
        BY RowKinds DEF Tables
    <2>2. Block(load(<<"warehouse", w>>), W, C, ItemRows, {<<"warehouse", w>>})
        <3>1. Parents(<<"warehouse", w>>) \subseteq ItemRows /\ <<"warehouse", w>>[1] \in W
            BY DEF Parents
        <3> QED BY <2>1, <3>1, LoadBlock
    <2>3. Block(commit("warehouse"), W, C, ItemRows, {})
        BY <2>1, CallBlock
    <2>4. Block(stock(w), W, C, ItemRows, StockRows(w))
        BY StockBlock, Weaken
    <2>5. Block(district(w), W, C, ItemRows, DistrictRows(w))
        BY DistrictBlock, Weaken
    <2> DEFINE p1 == load(<<"warehouse", w>>) \o commit("warehouse")
               p2 == p1 \o stock(w)
               R1 == {<<"warehouse", w>>}
    <2>6. C \cap W = {} /\ C \cup C = C
        OBVIOUS
    <2>7. R1 \cap StockRows(w) = {} /\ (R1 \cup StockRows(w)) \cap DistrictRows(w) = {}
        <3>1. \A r \in R1 : r[1] = "warehouse"
            OBVIOUS
        <3> HIDE DEF R1
        <3> QED BY <3>1, WareKeys
    <2> HIDE DEF C, W
    <2>8. Block(p1, W, C \cup C, ItemRows, R1 \cup {})
        <3>1. R1 \cap {} = {}
            OBVIOUS
        <3> HIDE DEF R1
        <3> QED BY <2>2, <2>3, <2>6, <3>1, JoinSame DEF R1
    <2>9. R1 \cup {} = R1
        OBVIOUS
    <2> HIDE DEF R1, p1
    <2>10. Block(p2, W, C \cup C, ItemRows, R1 \cup StockRows(w))
        BY <2>4, <2>6, <2>7, <2>8, <2>9, JoinSame
    <2> HIDE DEF p2
    <2>11. Block(p2 \o district(w), W, C \cup C, ItemRows, R1 \cup StockRows(w) \cup DistrictRows(w))
        BY <2>5, <2>6, <2>7, <2>10, JoinSame
    <2> QED BY <2>6, <2>11 DEF p1, p2, R1, WareRows
<1> DEFINE ss == [w \in 1..num_ware |-> IF isOurs(c, w) THEN one(w) ELSE <<>>]
           R  == [w \in 1..num_ware |-> IF isOurs(c, w) THEN WareRows(w) ELSE {}]
<1> HIDE DEF one, W, C
<1>2. \A w \in 1..num_ware : w \in Nat
    BY Constants
<1>3. \A w \in 1..num_ware : Block(ss[w], W, C, ItemRows, R[w])
    BY <1>1, <1>2, EmptyBlock
<1>4. ss \in [1..num_ware -> Plan]
    <2>1. \A w \in 1..num_ware : ss[w] \in Plan
        BY <1>3 DEF Block
    <2> QED BY <2>1
<1>5. R \in [1..num_ware -> SUBSET AllRows]
    BY <1>2, WareKeys
<1>6. \A i, j \in 1..num_ware : i # j => R[i] \cap R[j] = {}
    <2>1. \A i \in 1..num_ware : \A r \in R[i] : r[2] = i
        BY <1>2, WareKeys
    <2> HIDE DEF R
    <2> QED BY <2>1
<1>7. C \cap W = {} /\ {"warehouse"} \cup C = {"warehouse", "stock", "district"}
    BY DEF C, W
<1> DEFINE all == UNION {R[w] : w \in 1..num_ware}
<1>8. all = UNION {IF isOurs(c, w) THEN WareRows(w) ELSE {} : w \in 1..num_ware}
    OBVIOUS
<1> HIDE DEF ss, R
<1>9. Block(FlattenSeq(ss), W, C, ItemRows, all)
    BY <1>3, <1>4, <1>5, <1>6, <1>7, Loop, Constants
<1>10. "warehouse" \in Tables
    BY DEF Tables
<1>11. Block(create("warehouse"), W, {"warehouse"}, ItemRows, {})
    BY <1>10, CallBlock
<1> HIDE DEF all
<1>12. Block(create("warehouse") \o FlattenSeq(ss), W, {"warehouse"} \cup C, ItemRows, {} \cup all)
    BY <1>7, <1>9, <1>11, JoinSame
<1>13. Block(create("warehouse") \o FlattenSeq(ss) \o close("warehouse"), W \ {"warehouse"},
             {"warehouse"} \cup C, ItemRows, {} \cup all)
    BY <1>10, <1>12, CloseLast
<1>14. W \ {"warehouse"} = {} /\ {} \cup all = all
    BY DEF W
<1>15. loadWare(c) = create("warehouse") \o FlattenSeq(ss) \o close("warehouse")
    BY DEF loadWare, for, ss, one
<1> QED BY ONLY <1>7, <1>8, <1>13, <1>14, <1>15, Zenon

\* The rows name their table, warehouse, district and number.
LEMMA DistrictKeys ==
    ASSUME NEW w \in Nat, NEW d \in Nat
    PROVE  /\ \A r \in CustRows(w, d) : r[1] \in {"customer", "history"} /\ r[2] = w /\ r[3] = d
           /\ CustRows(w, d) \subseteq AllRows
           /\ \A o \in Nat : \A r \in NewOrderRows(w, d, o) : r[1] = "new_orders" /\ r[4] = o
           /\ \A o \in Nat : \A r \in LineRows(w, d, o) : r[1] = "order_line" /\ r[4] = o
           /\ \A o \in 1..ORD_PER_DIST : \A r \in OneOrder(w, d, o) :
                  /\ r[1] \in {"orders", "new_orders", "order_line"}
                  /\ r[2] = w /\ r[3] = d /\ r[4] = o /\ r \in AllRows
<1>1. ASSUME NEW r \in CustRows(w, d)
      PROVE  r[1] \in {"customer", "history"} /\ r[2] = w /\ r[3] = d /\ r \in AllRows
    <2>1. PICK t \in {"customer", "history"}, n \in 1..CUST_PER_DIST : r = <<t, w, d, n>>
        BY <1>1 DEF CustRows
    <2>2. n \in Nat
        BY Constants
    <2>3. <<"customer", w, d, n>> \in AllRows /\ <<"history", w, d, n>> \in AllRows
        BY <2>2, RowKinds
    <2> QED BY <2>1, <2>3
<1>2. ASSUME NEW o \in Nat, NEW r \in NewOrderRows(w, d, o)
      PROVE  r[1] = "new_orders" /\ r[2] = w /\ r[3] = d /\ r[4] = o /\ r \in AllRows
    <2>1. <<"new_orders", w, d, o>> \in AllRows
        BY RowKinds
    <2>2. r = <<"new_orders", w, d, o>>
        BY <1>2 DEF NewOrderRows
    <2> QED BY <2>1, <2>2
<1>3. ASSUME NEW o \in Nat, NEW r \in LineRows(w, d, o)
      PROVE  r[1] = "order_line" /\ r[2] = w /\ r[3] = d /\ r[4] = o /\ r \in AllRows
    <2>1. PICK n \in 1..OrderLines : r = <<"order_line", w, d, o, n>>
        BY <1>3 DEF LineRows
    <2>2. n \in Nat
        BY Constants
    <2>3. <<"order_line", w, d, o, n>> \in AllRows
        BY <2>2, RowKinds
    <2> QED BY <2>1, <2>3
<1>4. ASSUME NEW o \in 1..ORD_PER_DIST
      PROVE  /\ OrderRow(w, d, o)[1] = "orders" /\ OrderRow(w, d, o)[2] = w /\ OrderRow(w, d, o)[3] = d
             /\ OrderRow(w, d, o)[4] = o /\ OrderRow(w, d, o) \in AllRows
    <2>1. o \in Nat /\ initPermutation[o] \in Nat
        BY Constants, Customers
    <2>2. <<"orders", w, d, o, initPermutation[o]>> \in AllRows
        BY <2>1, RowKinds
    <2> QED BY <2>2 DEF OrderRow
<1>5. ASSUME NEW o \in 1..ORD_PER_DIST, NEW r \in OneOrder(w, d, o)
      PROVE  /\ r[1] \in {"orders", "new_orders", "order_line"}
             /\ r[2] = w /\ r[3] = d /\ r[4] = o /\ r \in AllRows
    <2>1. o \in Nat
        BY Constants
    <2>2. r = OrderRow(w, d, o) \/ r \in NewOrderRows(w, d, o) \/ r \in LineRows(w, d, o)
        BY <1>5 DEF OneOrder
    <2> QED BY <1>2, <1>3, <1>4, <2>1, <2>2
<1> QED BY <1>1, <1>2, <1>3, <1>5

\* loadCustomer.
LEMMA CustomerBlock ==
    ASSUME NEW c, NEW w \in Nat, NEW d \in Nat, NEW H, isOurs(c, w) => <<"district", w, d>> \in H
    PROVE  Block(loadCustomer(c, w, d), {}, {"customer", "history"}, H,
                 IF isOurs(c, w) THEN CustRows(w, d) ELSE {})
<1> DEFINE one(n) == load(<<"customer", w, d, n>>) \o load(<<"history", w, d, n>>)
           T      == {"customer", "history"}
           RR(n)  == {<<"customer", w, d, n>>} \cup {<<"history", w, d, n>>}
           ss     == [n \in 1..CUST_PER_DIST |-> one(n)]
           R      == [n \in 1..CUST_PER_DIST |-> RR(n)]
           all    == IF isOurs(c, w) THEN CustRows(w, d) ELSE {}
           body   == IF isOurs(c, w) THEN FlattenSeq(ss) ELSE <<>>
<1>1. "customer" \in Tables /\ "history" \in Tables
    BY DEF Tables
<1>2. ASSUME isOurs(c, w), NEW n \in 1..CUST_PER_DIST PROVE Block(one(n), T, {}, H, RR(n))
    <2> DEFINE r1 == <<"customer", w, d, n>>
               r2 == <<"history", w, d, n>>
    <2>1. n \in Nat
        BY Constants
    <2>2. r1 \in AllRows /\ r2 \in AllRows
        BY <2>1, RowKinds
    <2>3. Parents(r1) = {<<"district", w, d>>} /\ Parents(r2) = {<<"district", w, d>>}
        BY DEF Parents
    <2>4. r1[1] \in T /\ r2[1] \in T /\ r1 # r2
        OBVIOUS
    <2> HIDE DEF r1, r2
    <2>5. Parents(r1) \subseteq H /\ Parents(r2) \subseteq H
        BY <1>2, <2>3
    <2>6. Block(load(r1), T, {}, H, {r1}) /\ Block(load(r2), T, {}, H, {r2})
        BY <2>2, <2>4, <2>5, LoadBlock
    <2>7. {r1} \cap {r2} = {} /\ {} \cap T = {} /\ {} \cup {} = {}
        BY <2>4
    <2> HIDE DEF T
    <2>8. Block(load(r1) \o load(r2), T, {} \cup {}, H, {r1} \cup {r2})
        BY <2>6, <2>7, JoinSame
    <2> QED BY <2>7, <2>8 DEF r1, r2
<1>3. Block(body, T, {}, H, all)
    <2>1. CASE isOurs(c, w)
        <3> HIDE DEF one, T
        <3>1. \A n \in 1..CUST_PER_DIST : Block(ss[n], T, {}, H, R[n])
            <4> HIDE DEF RR
            <4> QED BY <1>2, <2>1
        <3>2. ss \in [1..CUST_PER_DIST -> Plan]
            <4>1. \A n \in 1..CUST_PER_DIST : ss[n] \in Plan
                BY <3>1 DEF Block
            <4> QED BY <4>1
        <3>3. \A n \in 1..CUST_PER_DIST : \A r \in RR(n) : r[4] = n /\ r \in AllRows
            <4> TAKE n \in 1..CUST_PER_DIST
            <4>1. n \in Nat
                BY Constants
            <4>2. <<"customer", w, d, n>> \in AllRows /\ <<"history", w, d, n>> \in AllRows
                BY <4>1, RowKinds
            <4> QED BY <4>2
        <3>4. UNION {R[n] : n \in 1..CUST_PER_DIST} = CustRows(w, d)
            BY DEF CustRows
        <3> HIDE DEF RR
        <3>5. R \in [1..CUST_PER_DIST -> SUBSET AllRows]
            BY <3>3
        <3>6. \A i, j \in 1..CUST_PER_DIST : i # j => R[i] \cap R[j] = {}
            BY <3>3
        <3> HIDE DEF R, ss
        <3>7. Block(FlattenSeq(ss), T, {}, H, UNION {R[n] : n \in 1..CUST_PER_DIST})
            <4>1. {} \cap T = {} /\ CUST_PER_DIST \in Nat
                BY Constants
            <4> QED BY ONLY <3>1, <3>2, <3>5, <3>6, <4>1, Loop
        <3> QED BY <2>1, <3>4, <3>7
    <2>2. CASE ~ isOurs(c, w)
        BY <2>2, EmptyBlock
    <2> QED BY <2>1, <2>2
<1> HIDE DEF body, all
<1> DEFINE c1 == create("customer")
           c2 == create("history")
<1>4. Block(c1, T, {"customer"}, H, {}) /\ Block(c2, {}, {"history"}, H, {}) /\ Block(c1, {}, {"customer"}, H, {})
    BY <1>1, CallBlock
<1> HIDE DEF c1, c2
<1>5. Block(c1 \o c2, {}, {"customer"} \cup {"history"}, H, {} \cup {})
    BY <1>4, JoinSame
<1>6. {} \subseteq T /\ {"customer"} \cup {"history"} = T /\ {} \cup {} = {} /\ T \cup {} = T /\ {} \cup all = all
    OBVIOUS
<1> HIDE DEF T
<1>7. Block(c1 \o c2, T, T, H, {})
    BY <1>5, <1>6, Weaken
<1>8. Block(c1 \o c2 \o body, T, T \cup {}, H, {} \cup all)
    BY <1>3, <1>7, JoinSame
<1>9. Block(c1 \o c2 \o body, T, T, H, all)
    BY ONLY <1>6, <1>8, Zenon
<1>10. Block(c1 \o c2 \o body \o close("customer"), T \ {"customer"}, T, H, all)
    BY <1>1, <1>9, CloseLast
<1>11. Block(c1 \o c2 \o body \o close("customer") \o close("history"), (T \ {"customer"}) \ {"history"}, T, H, all)
    BY <1>1, <1>10, CloseLast
<1>12. (T \ {"customer"}) \ {"history"} = {}
    BY DEF T
<1>13. loadCustomer(c, w, d) = c1 \o c2 \o body \o close("customer") \o close("history")
    BY DEF loadCustomer, for, c1, c2, body, ss, one
<1> QED BY ONLY <1>11, <1>12, <1>13, Zenon DEF T, all

\* One order.
LEMMA OrderBlock ==
    ASSUME NEW w \in Nat, NEW d \in Nat, NEW o \in 1..ORD_PER_DIST, NEW H,
           <<"customer", w, d, initPermutation[o]>> \in H, OrderRow(w, d, o) \in H,
           NEW s, s = load(<<"orders", w, d, o, initPermutation[o]>>)
                      \o (IF o > LastDelivered THEN load(<<"new_orders", w, d, o>>) ELSE <<>>)
                      \o for(OrderLines, LAMBDA n : load(<<"order_line", w, d, o, n>>))
    PROVE  Block(s, {"orders", "new_orders", "order_line"}, {}, H, OneOrder(w, d, o)) /\ Quiet(s)
<1> DEFINE T   == {"orders", "new_orders", "order_line"}
           row == [n \in 1..OrderLines |-> <<"order_line", w, d, o, n>>]
           p1  == load(OrderRow(w, d, o))
           p2  == IF o > LastDelivered THEN load(<<"new_orders", w, d, o>>) ELSE <<>>
           p3  == FlattenSeq([n \in 1..OrderLines |-> load(row[n])])
<1>1. o \in Nat
    BY Constants
<1>2. Block(p1, T, {}, H, {OrderRow(w, d, o)}) /\ Quiet(p1)
    <2>1. OrderRow(w, d, o)[1] = "orders" /\ OrderRow(w, d, o) \in AllRows
        BY DistrictKeys DEF OneOrder, OrderRow
    <2>2. Parents(OrderRow(w, d, o)) \subseteq H
        BY DEF Parents, OrderRow
    <2>3. OrderRow(w, d, o)[1] \in T
        BY <2>1
    <2> HIDE DEF T
    <2> QED BY <2>1, <2>2, <2>3, LoadBlock, QuietParts
<1>3. Block(p2, T, {}, H, NewOrderRows(w, d, o)) /\ Quiet(p2)
    <2>1. CASE o > LastDelivered
        <3> DEFINE r == <<"new_orders", w, d, o>>
        <3>1. r \in AllRows
            BY <1>1, RowKinds
        <3>2. Parents(r) \subseteq H /\ r[1] \in T
            BY DEF Parents, OrderRow
        <3> HIDE DEF r, T
        <3>3. Block(load(r), T, {}, H, {r}) /\ Quiet(load(r))
            BY <3>1, <3>2, LoadBlock, QuietParts
        <3> QED BY <2>1, <3>3 DEF NewOrderRows, r
    <2>2. CASE ~ (o > LastDelivered)
        BY <2>2, EmptyBlock, QuietParts DEF NewOrderRows
    <2> QED BY <2>1, <2>2
<1>4. Block(p3, T, {}, H, LineRows(w, d, o)) /\ Quiet(p3)
    <2>1. row \in [1..OrderLines -> AllRows]
        <3>1. \A n \in 1..OrderLines : n \in Nat
            BY Constants
        <3>2. \A n \in 1..OrderLines : <<"order_line", w, d, o, n>> \in AllRows
            BY <1>1, <3>1 DEF AllRows, Tables
        <3> QED BY <3>2
    <2>2. \A n \in 1..OrderLines : row[n][1] \in T /\ Parents(row[n]) \subseteq H
        BY DEF Parents, OrderRow
    <2>3. \A i, j \in 1..OrderLines : row[i] = row[j] => i = j
        OBVIOUS
    <2>4. {row[n] : n \in 1..OrderLines} = LineRows(w, d, o)
        BY DEF LineRows
    <2> HIDE DEF row, T
    <2>5. Block(p3, T, {}, H, {row[n] : n \in 1..OrderLines}) /\ Quiet(p3)
        BY <2>1, <2>2, <2>3, LoadLoop, Constants
    <2> QED BY <2>4, <2>5
<1>5. s = p1 \o p2 \o p3
    BY DEF for, OrderRow
<1>6. OrderRow(w, d, o)[1] = "orders"
    BY DEF OrderRow
<1> HIDE DEF p1, p2, p3, T, row
<1>7. Quiet(p1 \o p2) /\ Quiet(p1 \o p2 \o p3)
    BY <1>2, <1>3, <1>4, QuietParts
<1>8. /\ {OrderRow(w, d, o)} \cap NewOrderRows(w, d, o) = {}
      /\ ({OrderRow(w, d, o)} \cup NewOrderRows(w, d, o)) \cap LineRows(w, d, o) = {}
    <2>1. /\ \A r \in NewOrderRows(w, d, o) : r[1] = "new_orders"
          /\ \A r \in LineRows(w, d, o) : r[1] = "order_line"
        BY <1>1, DistrictKeys
    <2> QED BY <1>6, <2>1
<1>9. {} \cap T = {} /\ {} \cup {} = {}
    OBVIOUS
<1>10. Block(p1 \o p2, T, {} \cup {}, H, {OrderRow(w, d, o)} \cup NewOrderRows(w, d, o))
    BY <1>2, <1>3, <1>8, <1>9, JoinSame
<1>11. Block(p1 \o p2, T, {}, H, {OrderRow(w, d, o)} \cup NewOrderRows(w, d, o))
    BY <1>9, <1>10
<1>12. Block(p1 \o p2 \o p3, T, {} \cup {}, H,
             {OrderRow(w, d, o)} \cup NewOrderRows(w, d, o) \cup LineRows(w, d, o))
    BY <1>4, <1>8, <1>9, <1>11, JoinSame
<1>13. Block(s, T, {}, H, OneOrder(w, d, o))
    BY <1>5, <1>9, <1>12 DEF OneOrder
<1> QED BY <1>5, <1>7, <1>13 DEF T

\* loadOrders.
LEMMA OrdersBlock ==
    ASSUME NEW c, NEW w \in Nat, NEW d \in Nat, NEW H, isOurs(c, w) => CustRows(w, d) \subseteq H
    PROVE  Block(loadOrders(c, w, d), {}, {"orders", "new_orders", "order_line"}, H,
                 IF isOurs(c, w) THEN OrdRows(w, d) ELSE {})
<1> DEFINE one(o) == load(<<"orders", w, d, o, initPermutation[o]>>)
                     \o (IF o > LastDelivered THEN load(<<"new_orders", w, d, o>>) ELSE <<>>)
                     \o for(OrderLines, LAMBDA n : load(<<"order_line", w, d, o, n>>))
           T      == {"orders", "new_orders", "order_line"}
           ss     == [o \in 1..ORD_PER_DIST |-> one(o)]
           R      == [o \in 1..ORD_PER_DIST |-> OneOrder(w, d, o)]
           all    == IF isOurs(c, w) THEN OrdRows(w, d) ELSE {}
           body   == IF isOurs(c, w)
                     THEN FlattenSeq(ss) \o close("orders") \o close("order_line") \o close("new_orders")
                     ELSE <<>>
           H2     == H \cup {r \in OrdRows(w, d) : r[1] = "orders"}
<1>1. "orders" \in Tables /\ "new_orders" \in Tables /\ "order_line" \in Tables
    BY DEF Tables
<1>2. \A o \in 1..ORD_PER_DIST : \A r \in R[o] : r \in AllRows /\ r[4] = o
    BY DistrictKeys
<1>3. R \in [1..ORD_PER_DIST -> SUBSET AllRows]
    BY <1>2
<1>4. \A i, j \in 1..ORD_PER_DIST : i # j => R[i] \cap R[j] = {}
    BY <1>2
<1>5. UNION {R[o] : o \in 1..ORD_PER_DIST} = OrdRows(w, d)
    BY DEF OrdRows
<1>6. ASSUME isOurs(c, w), NEW o \in 1..ORD_PER_DIST PROVE Block(ss[o], T, {}, H2, R[o]) /\ Quiet(ss[o])
    <2>1. <<"customer", w, d, initPermutation[o]>> \in H2
        <3>1. initPermutation[o] \in 1..CUST_PER_DIST
            BY Customers
        <3>2. <<"customer", w, d, initPermutation[o]>> \in CustRows(w, d)
            BY <3>1 DEF CustRows
        <3> QED BY <1>6, <3>2
    <2>2. OrderRow(w, d, o) \in H2
        <3>1. OrderRow(w, d, o) \in OrdRows(w, d)
            BY DEF OrdRows, OneOrder
        <3>2. OrderRow(w, d, o)[1] = "orders"
            BY DEF OrderRow
        <3> QED BY <3>1, <3>2
    <2>3. ss[o] = one(o)
        OBVIOUS
    <2> HIDE DEF ss, H2
    <2> QED BY <2>1, <2>2, <2>3, OrderBlock
<1>7. Block(body, {}, {}, H, all)
    <2>1. CASE isOurs(c, w)
        <3> HIDE DEF T, ss, R, H2
        <3>1. ss \in [1..ORD_PER_DIST -> Plan]
            <4>1. \A o \in 1..ORD_PER_DIST : ss[o] \in Plan
                BY <1>6, <2>1 DEF Quiet
            <4> QED BY <4>1 DEF ss
        <3>2. Block(FlattenSeq(ss), T, {}, H2, OrdRows(w, d))
            <4>1. \A o \in 1..ORD_PER_DIST : Block(ss[o], T, {}, H2, R[o])
                BY <1>6, <2>1
            <4>2. {} \cap T = {} /\ ORD_PER_DIST \in Nat
                BY Constants
            <4>3. Block(FlattenSeq(ss), T, {}, H2, UNION {R[o] : o \in 1..ORD_PER_DIST})
                BY ONLY <1>3, <1>4, <3>1, <4>1, <4>2, Loop
            <4> QED BY <1>5, <4>3
        <3>3. Quiet(FlattenSeq(ss))
            BY <1>6, <2>1, <3>1, QuietLoop, Constants
        <3>4. Block(FlattenSeq(ss) \o close("orders"), T \ {"orders"}, {}, H, OrdRows(w, d))
            BY <1>1, <3>2, <3>3, CloseFirst DEF H2
        <3>5. Block(FlattenSeq(ss) \o close("orders") \o close("order_line"),
                    (T \ {"orders"}) \ {"order_line"}, {}, H, OrdRows(w, d))
            BY <1>1, <3>4, CloseLast
        <3>6. Block(FlattenSeq(ss) \o close("orders") \o close("order_line") \o close("new_orders"),
                    ((T \ {"orders"}) \ {"order_line"}) \ {"new_orders"}, {}, H, OrdRows(w, d))
            BY <1>1, <3>5, CloseLast
        <3>7. ((T \ {"orders"}) \ {"order_line"}) \ {"new_orders"} = {}
            BY DEF T
        <3>8. body = FlattenSeq(ss) \o close("orders") \o close("order_line") \o close("new_orders")
            BY <2>1
        <3>9. all = OrdRows(w, d)
            BY <2>1
        <3> QED BY ONLY <3>6, <3>7, <3>8, <3>9, Zenon
    <2>2. CASE ~ isOurs(c, w)
        <3>1. body = <<>> /\ all = {}
            BY <2>2
        <3> QED BY <3>1, EmptyBlock
    <2> QED BY <2>1, <2>2
<1> DEFINE c1 == create("orders")
           c2 == create("new_orders")
           c3 == create("order_line")
<1>8. loadOrders(c, w, d) = c1 \o c2 \o c3 \o body
    BY DEF loadOrders, for, ss
<1> HIDE DEF body, all
<1>9. Block(c1, {}, T, H, {}) /\ Block(c2, {}, T, H, {}) /\ Block(c3, {}, T, H, {})
    BY <1>1, CallBlock
<1> HIDE DEF c1, c2, c3, T
<1>10. T \cup T = T /\ T \cup {} = T /\ {} \cup {} = {} /\ {} \cup all = all /\ T \cap {} = {} /\ {} \cap {} = {}
    OBVIOUS
<1>11. Block(c1 \o c2, {}, T, H, {})
    <2>1. Block(c1 \o c2, {}, T \cup T, H, {} \cup {})
        BY ONLY <1>9, <1>10, JoinSame
    <2> QED BY ONLY <1>10, <2>1, Zenon
<1>12. Block(c1 \o c2 \o c3, {}, T, H, {})
    <2>1. Block(c1 \o c2 \o c3, {}, T \cup T, H, {} \cup {})
        BY ONLY <1>9, <1>10, <1>11, JoinSame
    <2> QED BY ONLY <1>10, <2>1, Zenon
<1>13. Block(c1 \o c2 \o c3 \o body, {}, T \cup {}, H, {} \cup all)
    <2>1. {} \cap all = {}
        OBVIOUS
    <2> QED BY ONLY <1>7, <1>10, <1>12, <2>1, JoinSame
<1> QED BY ONLY <1>8, <1>10, <1>13, Zenon DEF T, all

\* The loops over the warehouses and their districts.
LEMMA DistrictLoops ==
    ASSUME NEW C, NEW H, NEW p, NEW R,
           \A w \in 1..num_ware, d \in 1..DIST_PER_WARE :
               /\ Block(p[w][d], {}, C, H, R[w][d])
               /\ R[w][d] \subseteq AllRows
               /\ \A r \in R[w][d] : r[2] = w /\ r[3] = d
    PROVE  Block(FlattenSeq([w \in 1..num_ware |-> FlattenSeq([d \in 1..DIST_PER_WARE |-> p[w][d]])]), {}, C, H,
                 UNION {UNION {R[w][d] : d \in 1..DIST_PER_WARE} : w \in 1..num_ware})
<1> DEFINE ware(w)    == FlattenSeq([d \in 1..DIST_PER_WARE |-> p[w][d]])
           wareRow(w) == UNION {R[w][d] : d \in 1..DIST_PER_WARE}
           ss         == [w \in 1..num_ware |-> ware(w)]
           RR         == [w \in 1..num_ware |-> wareRow(w)]
<1>1. C \cap {} = {} /\ num_ware \in Nat /\ DIST_PER_WARE \in Nat
    BY Constants
<1>2. ASSUME NEW w \in 1..num_ware
      PROVE  Block(ware(w), {}, C, H, wareRow(w)) /\ wareRow(w) \subseteq AllRows
    <2> DEFINE sd == [d \in 1..DIST_PER_WARE |-> p[w][d]]
               Rd == [d \in 1..DIST_PER_WARE |-> R[w][d]]
    <2>1. sd \in [1..DIST_PER_WARE -> Plan]
        <3>1. \A d \in 1..DIST_PER_WARE : p[w][d] \in Plan
            BY DEF Block
        <3> QED BY <3>1
    <2>2. Rd \in [1..DIST_PER_WARE -> SUBSET AllRows]
        OBVIOUS
    <2>3. \A d \in 1..DIST_PER_WARE : Block(sd[d], {}, C, H, Rd[d])
        OBVIOUS
    <2>4. \A i, j \in 1..DIST_PER_WARE : i # j => Rd[i] \cap Rd[j] = {}
        OBVIOUS
    <2>5. UNION {Rd[d] : d \in 1..DIST_PER_WARE} = wareRow(w)
        OBVIOUS
    <2>6. wareRow(w) \subseteq AllRows
        OBVIOUS
    <2> HIDE DEF wareRow, sd, Rd
    <2>7. Block(FlattenSeq(sd), {}, C, H, UNION {Rd[d] : d \in 1..DIST_PER_WARE})
        BY ONLY <1>1, <2>1, <2>2, <2>3, <2>4, Loop
    <2> QED BY <2>5, <2>6, <2>7 DEF sd
<1>3. \A w \in 1..num_ware : \A r \in RR[w] : r[2] = w
    OBVIOUS
<1>4. UNION {RR[w] : w \in 1..num_ware}
      = UNION {UNION {R[w][d] : d \in 1..DIST_PER_WARE} : w \in 1..num_ware}
    OBVIOUS
<1> HIDE DEF ware, wareRow
<1>5. ss \in [1..num_ware -> Plan]
    <2>1. \A w \in 1..num_ware : ware(w) \in Plan
        BY <1>2 DEF Block
    <2> QED BY <2>1
<1>6. RR \in [1..num_ware -> SUBSET AllRows]
    BY <1>2
<1>7. \A w \in 1..num_ware : Block(ss[w], {}, C, H, RR[w])
    BY <1>2
<1> HIDE DEF RR, ss
<1>8. \A i, j \in 1..num_ware : i # j => RR[i] \cap RR[j] = {}
    BY <1>3
<1>9. Block(FlattenSeq(ss), {}, C, H, UNION {RR[w] : w \in 1..num_ware})
    BY ONLY <1>1, <1>5, <1>6, <1>7, <1>8, Loop
<1> QED BY <1>4, <1>9 DEF ss, ware

\* The rows of all warehouses that a run loads.
AllWare(c) == UNION {IF isOurs(c, w) THEN WareRows(w) ELSE {} : w \in 1..num_ware}
AllCust(c) == UNION {UNION {IF isOurs(c, w) THEN CustRows(w, d) ELSE {} : d \in 1..DIST_PER_WARE} :
                     w \in 1..num_ware}
AllOrd(c)  == UNION {UNION {IF isOurs(c, w) THEN OrdRows(w, d) ELSE {} : d \in 1..DIST_PER_WARE} :
                     w \in 1..num_ware}

\* loadCust.
LEMMA CustBlock ==
    ASSUME NEW c
    PROVE  Block(loadCust(c), {}, {"customer", "history"}, AllWare(c), AllCust(c))
<1> DEFINE p == [w \in 1..num_ware |-> [d \in 1..DIST_PER_WARE |-> loadCustomer(c, w, d)]]
           R == [w \in 1..num_ware |-> [d \in 1..DIST_PER_WARE |->
                    IF isOurs(c, w) THEN CustRows(w, d) ELSE {}]]
           C == {"customer", "history"}
<1>1. ASSUME NEW w \in 1..num_ware, NEW d \in 1..DIST_PER_WARE
      PROVE  /\ Block(p[w][d], {}, C, AllWare(c), R[w][d])
             /\ R[w][d] \subseteq AllRows
             /\ \A r \in R[w][d] : r[2] = w /\ r[3] = d
    <2>1. w \in Nat /\ d \in Nat
        BY Constants
    <2>2. ASSUME isOurs(c, w) PROVE <<"district", w, d>> \in AllWare(c)
        <3>1. <<"district", w, d>> \in WareRows(w)
            BY DEF WareRows, DistrictRows, Dist
        <3> QED BY <2>2, <3>1 DEF AllWare
    <2>3. Block(loadCustomer(c, w, d), {}, C, AllWare(c), IF isOurs(c, w) THEN CustRows(w, d) ELSE {})
        BY <2>1, <2>2, CustomerBlock
    <2>4. \A r \in CustRows(w, d) : r[2] = w /\ r[3] = d /\ r \in AllRows
        BY <2>1, DistrictKeys
    <2> HIDE DEF C
    <2> QED BY <2>3, <2>4
<1>2. loadCust(c) = FlattenSeq([w \in 1..num_ware |-> FlattenSeq([d \in 1..DIST_PER_WARE |-> p[w][d]])])
    BY DEF loadCust, for
<1>3. AllCust(c) = UNION {UNION {R[w][d] : d \in 1..DIST_PER_WARE} : w \in 1..num_ware}
    BY DEF AllCust
<1> HIDE DEF p, R, C
<1>4. Block(FlattenSeq([w \in 1..num_ware |-> FlattenSeq([d \in 1..DIST_PER_WARE |-> p[w][d]])]), {}, C, AllWare(c),
            UNION {UNION {R[w][d] : d \in 1..DIST_PER_WARE} : w \in 1..num_ware})
    BY ONLY <1>1, DistrictLoops
<1> QED BY ONLY <1>2, <1>3, <1>4, Zenon DEF C

\* loadOrd.
LEMMA OrdBlock ==
    ASSUME NEW c
    PROVE  Block(loadOrd(c), {}, {"orders", "new_orders", "order_line"}, AllCust(c), AllOrd(c))
<1> DEFINE p == [w \in 1..num_ware |-> [d \in 1..DIST_PER_WARE |-> loadOrders(c, w, d)]]
           R == [w \in 1..num_ware |-> [d \in 1..DIST_PER_WARE |->
                    IF isOurs(c, w) THEN OrdRows(w, d) ELSE {}]]
           C == {"orders", "new_orders", "order_line"}
<1>1. ASSUME NEW w \in 1..num_ware, NEW d \in 1..DIST_PER_WARE
      PROVE  /\ Block(p[w][d], {}, C, AllCust(c), R[w][d])
             /\ R[w][d] \subseteq AllRows
             /\ \A r \in R[w][d] : r[2] = w /\ r[3] = d
    <2>1. w \in Nat /\ d \in Nat
        BY Constants
    <2>2. isOurs(c, w) => CustRows(w, d) \subseteq AllCust(c)
        BY DEF AllCust
    <2>3. Block(loadOrders(c, w, d), {}, C, AllCust(c), IF isOurs(c, w) THEN OrdRows(w, d) ELSE {})
        BY <2>1, <2>2, OrdersBlock
    <2>4. \A r \in OrdRows(w, d) : r[2] = w /\ r[3] = d /\ r \in AllRows
        BY <2>1, DistrictKeys DEF OrdRows
    <2> HIDE DEF C
    <2> QED BY <2>3, <2>4
<1>2. loadOrd(c) = FlattenSeq([w \in 1..num_ware |-> FlattenSeq([d \in 1..DIST_PER_WARE |-> p[w][d]])])
    BY DEF loadOrd, for
<1>3. AllOrd(c) = UNION {UNION {R[w][d] : d \in 1..DIST_PER_WARE} : w \in 1..num_ware}
    BY DEF AllOrd
<1> HIDE DEF p, R, C
<1>4. Block(FlattenSeq([w \in 1..num_ware |-> FlattenSeq([d \in 1..DIST_PER_WARE |-> p[w][d]])]), {}, C, AllCust(c),
            UNION {UNION {R[w][d] : d \in 1..DIST_PER_WARE} : w \in 1..num_ware})
    BY ONLY <1>1, DistrictLoops
<1> QED BY ONLY <1>2, <1>3, <1>4, Zenon DEF C

\* The tables of the rows of all warehouses.
LEMMA AllKeys ==
    ASSUME NEW c
    PROVE  /\ \A r \in ItemRows : r[1] = "item"
           /\ \A r \in AllWare(c) : r[1] \in {"warehouse", "stock", "district"}
           /\ \A r \in AllCust(c) : r[1] \in {"customer", "history"}
           /\ \A r \in AllOrd(c) : r[1] \in {"orders", "new_orders", "order_line"}
<1>1. \A r \in ItemRows : r[1] = "item"
    BY DEF ItemRows
<1>2. \A w \in 1..num_ware : w \in Nat
    BY Constants
<1>3. \A d \in 1..DIST_PER_WARE : d \in Nat
    BY Constants
<1>4. \A r \in AllWare(c) : r[1] \in {"warehouse", "stock", "district"}
    BY <1>2, WareKeys DEF AllWare
<1>5. ASSUME NEW r \in AllCust(c) PROVE r[1] \in {"customer", "history"}
    <2>1. PICK w \in 1..num_ware, d \in 1..DIST_PER_WARE : r \in CustRows(w, d)
        BY <1>5 DEF AllCust
    <2> QED BY <1>2, <1>3, <2>1, DistrictKeys
<1>6. ASSUME NEW r \in AllOrd(c) PROVE r[1] \in {"orders", "new_orders", "order_line"}
    <2>1. PICK w \in 1..num_ware, d \in 1..DIST_PER_WARE : r \in OrdRows(w, d)
        BY <1>6 DEF AllOrd
    <2>2. PICK o \in 1..ORD_PER_DIST : r \in OneOrder(w, d, o)
        BY <2>1 DEF OrdRows
    <2> QED BY <1>2, <1>3, <2>2, DistrictKeys
<1> QED BY <1>1, <1>4, <1>5, <1>6

\* Load: each row of the warehouses that are ours is loaded once, its loader
\* is closed, and what it refers to is stored no later.
LEMMA PlanBlock ==
    ASSUME NEW c \in Configs
    PROVE  Block(Plans[c], {}, Tables, {}, ItemRows \cup AllWare(c) \cup AllCust(c) \cup AllOrd(c))
<1> DEFINE C1 == {"item"}
           C2 == {"warehouse", "stock", "district"}
           C3 == {"customer", "history"}
           C4 == {"orders", "new_orders", "order_line"}
           R2 == AllWare(c)
           R3 == AllCust(c)
           R4 == AllOrd(c)
<1>1. /\ Block(loadItems, {}, C1, {}, ItemRows)
      /\ Block(loadWare(c), {}, C2, ItemRows, R2)
      /\ Block(loadCust(c), {}, C3, R2, R3)
      /\ Block(loadOrd(c), {}, C4, R3, R4)
    BY ItemsBlock, WareBlock, CustBlock, OrdBlock DEF AllWare
<1>2. ItemRows \cap R2 = {} /\ (ItemRows \cup R2) \cap R3 = {} /\ (ItemRows \cup R2 \cup R3) \cap R4 = {}
    BY AllKeys
<1>3. C1 \cup C2 \cup C3 \cup C4 = Tables
    BY DEF Tables
<1> HIDE DEF C1, C2, C3, C4, R2, R3, R4
<1> DEFINE q1 == loadItems \o loadWare(c)
           q2 == q1 \o loadCust(c)
           q3 == q2 \o loadOrd(c)
<1>4. Plans[c] = q3
    BY DEF Plans
<1>5. ASSUME NEW s, NEW u, NEW D1, NEW D2, NEW H, NEW Q1, NEW Q2,
             Block(s, {}, D1, {}, Q1), Block(u, {}, D2, H, Q2), H \subseteq Q1, Q1 \cap Q2 = {}
      PROVE  Block(s \o u, {}, D1 \cup D2, {}, Q1 \cup Q2)
    <2> DEFINE H2 == {} \cup {r \in Q1 : r[1] \notin {}}
    <2>1. H \subseteq H2 /\ {} \subseteq {} /\ D2 \subseteq D2 /\ D2 \cap {} = {}
        BY <1>5
    <2> HIDE DEF H2
    <2>2. Block(u, {}, D2, H2, Q2)
        BY ONLY <1>5, <2>1, Weaken
    <2> QED BY ONLY <1>5, <2>1, <2>2, Join DEF H2
<1>6. Block(q1, {}, C1 \cup C2, {}, ItemRows \cup R2)
    BY ONLY <1>1, <1>2, <1>5, ItemRows \subseteq ItemRows
<1> HIDE DEF q1
<1>7. Block(q2, {}, C1 \cup C2 \cup C3, {}, ItemRows \cup R2 \cup R3)
    BY ONLY <1>1, <1>2, <1>5, <1>6, R2 \subseteq ItemRows \cup R2
<1> HIDE DEF q2
<1>8. Block(q3, {}, C1 \cup C2 \cup C3 \cup C4, {}, ItemRows \cup R2 \cup R3 \cup R4)
    BY ONLY <1>1, <1>2, <1>5, <1>7, R3 \subseteq ItemRows \cup R2 \cup R3
<1> QED BY ONLY <1>3, <1>4, <1>8, Zenon DEF R2, R3, R4

\* These rows are what the configuration selects.
LEMMA ExpectedRows ==
    Expected = ItemRows \cup AllWare(config) \cup AllCust(config) \cup AllOrd(config)
<1> DEFINE A == ItemRows \cup AllWare(config) \cup AllCust(config) \cup AllOrd(config)
<1>1. ASSUME NEW r \in Expected PROVE r \in A
    <2>1. CASE r \in {<<"item", i>> : i \in 1..MAXITEMS}
        BY <2>1 DEF ItemRows
    <2>2. CASE r \in {<<"warehouse", w>> : w \in Ours}
        <3>1. PICK w \in Ours : r = <<"warehouse", w>>
            BY <2>2
        <3> QED BY <3>1 DEF Ours, AllWare, WareRows
    <2>3. CASE r \in {<<"stock", w, i>> : w \in Ours, i \in 1..MAXITEMS}
        <3>1. PICK w \in Ours, i \in 1..MAXITEMS : r = <<"stock", w, i>>
            BY <2>3
        <3> QED BY <3>1 DEF Ours, AllWare, WareRows, StockRows
    <2>4. CASE r \in {<<"district", w, d>> : w \in Ours, d \in Dist}
        <3>1. PICK w \in Ours, d \in Dist : r = <<"district", w, d>>
            BY <2>4
        <3> QED BY <3>1 DEF Ours, AllWare, WareRows, DistrictRows
    <2>5. CASE r \in {<<t, w, d, n>> :
                      t \in {"customer", "history"}, w \in Ours, d \in Dist, n \in 1..CUST_PER_DIST}
        <3>1. PICK t \in {"customer", "history"}, w \in Ours, d \in Dist, n \in 1..CUST_PER_DIST :
                  r = <<t, w, d, n>>
            BY <2>5
        <3>2. r \in CustRows(w, d)
            BY <3>1 DEF CustRows
        <3>3. w \in 1..num_ware /\ isOurs(config, w) /\ d \in 1..DIST_PER_WARE
            BY DEF Ours, Dist
        <3> QED BY <3>2, <3>3 DEF AllCust
    <2>6. ASSUME NEW w \in Ours, NEW d \in Dist, NEW o \in 1..ORD_PER_DIST, r \in OneOrder(w, d, o)
          PROVE  r \in AllOrd(config)
        <3>1. w \in 1..num_ware /\ isOurs(config, w) /\ d \in 1..DIST_PER_WARE
            BY DEF Ours, Dist
        <3>2. r \in OrdRows(w, d)
            BY <2>6 DEF OrdRows
        <3> QED BY <3>1, <3>2 DEF AllOrd
    <2>7. CASE r \in {<<"orders", w, d, o, initPermutation[o]>> : w \in Ours, d \in Dist, o \in 1..ORD_PER_DIST}
        <3>1. PICK w \in Ours, d \in Dist, o \in 1..ORD_PER_DIST : r = <<"orders", w, d, o, initPermutation[o]>>
            BY <2>7
        <3>2. r \in OneOrder(w, d, o)
            BY <3>1 DEF OneOrder, OrderRow
        <3> QED BY <2>6, <3>2
    <2>8. CASE r \in {<<"new_orders", w, d, o>> : w \in Ours, d \in Dist, o \in LastDelivered + 1..ORD_PER_DIST}
        <3>1. PICK w \in Ours, d \in Dist, o \in LastDelivered + 1..ORD_PER_DIST : r = <<"new_orders", w, d, o>>
            BY <2>8
        <3>2. o \in 1..ORD_PER_DIST /\ o > LastDelivered
            BY Constants
        <3>3. r \in OneOrder(w, d, o)
            BY <3>1, <3>2 DEF OneOrder, NewOrderRows
        <3> QED BY <2>6, <3>2, <3>3
    <2>9. CASE r \in {<<"order_line", w, d, o, n>> :
                      w \in Ours, d \in Dist, o \in 1..ORD_PER_DIST, n \in 1..OrderLines}
        <3>1. PICK w \in Ours, d \in Dist, o \in 1..ORD_PER_DIST, n \in 1..OrderLines :
                  r = <<"order_line", w, d, o, n>>
            BY <2>9
        <3>2. r \in OneOrder(w, d, o)
            BY <3>1 DEF OneOrder, LineRows
        <3> QED BY <2>6, <3>2
    <2> QED BY <2>1, <2>2, <2>3, <2>4, <2>5, <2>7, <2>8, <2>9 DEF Expected
<1>2. ItemRows \subseteq Expected
    BY DEF ItemRows, Expected
<1>3. ASSUME NEW r \in AllWare(config) PROVE r \in Expected
    <2>1. PICK w \in 1..num_ware : isOurs(config, w) /\ r \in WareRows(w)
        BY <1>3 DEF AllWare
    <2>2. w \in Ours
        BY <2>1 DEF Ours
    <2>3. \/ r \in {<<"warehouse", v>> : v \in Ours}
          \/ r \in {<<"stock", v, i>> : v \in Ours, i \in 1..MAXITEMS}
          \/ r \in {<<"district", v, d>> : v \in Ours, d \in Dist}
        BY <2>1, <2>2 DEF WareRows, StockRows, DistrictRows
    <2> QED BY <2>3 DEF Expected
<1>4. ASSUME NEW r \in AllCust(config) PROVE r \in Expected
    <2>1. PICK w \in 1..num_ware, d \in 1..DIST_PER_WARE : isOurs(config, w) /\ r \in CustRows(w, d)
        BY <1>4 DEF AllCust
    <2>2. w \in Ours /\ d \in Dist
        BY <2>1 DEF Ours, Dist
    <2>3. PICK t \in {"customer", "history"}, n \in 1..CUST_PER_DIST : r = <<t, w, d, n>>
        BY <2>1 DEF CustRows
    <2>4. r \in {<<tt, ww, dd, nn>> : tt \in {"customer", "history"}, ww \in Ours, dd \in Dist,
                                      nn \in 1..CUST_PER_DIST}
        BY <2>2, <2>3
    <2> QED BY <2>4 DEF Expected
<1>5. ASSUME NEW r \in AllOrd(config) PROVE r \in Expected
    <2>1. PICK w \in 1..num_ware, d \in 1..DIST_PER_WARE : isOurs(config, w) /\ r \in OrdRows(w, d)
        BY <1>5 DEF AllOrd
    <2>2. w \in Ours /\ d \in Dist
        BY <2>1 DEF Ours, Dist
    <2>3. PICK o \in 1..ORD_PER_DIST : r \in OneOrder(w, d, o)
        BY <2>1 DEF OrdRows
    <2>4. CASE r = OrderRow(w, d, o)
        <3>1. r \in {<<"orders", ww, dd, oo, initPermutation[oo]>> :
                     ww \in Ours, dd \in Dist, oo \in 1..ORD_PER_DIST}
            BY <2>2, <2>4 DEF OrderRow
        <3> QED BY <3>1 DEF Expected
    <2>5. CASE r \in NewOrderRows(w, d, o)
        <3>1. o > LastDelivered /\ r = <<"new_orders", w, d, o>>
            BY <2>5 DEF NewOrderRows
        <3>2. o \in LastDelivered + 1..ORD_PER_DIST
            BY <3>1, Constants
        <3>3. r \in {<<"new_orders", ww, dd, oo>> : ww \in Ours, dd \in Dist, oo \in LastDelivered + 1..ORD_PER_DIST}
            BY <2>2, <3>1, <3>2
        <3> QED BY <3>3 DEF Expected
    <2>6. CASE r \in LineRows(w, d, o)
        <3>1. PICK n \in 1..OrderLines : r = <<"order_line", w, d, o, n>>
            BY <2>6 DEF LineRows
        <3>2. r \in {<<"order_line", ww, dd, oo, nn>> :
                     ww \in Ours, dd \in Dist, oo \in 1..ORD_PER_DIST, nn \in 1..OrderLines}
            BY <2>2, <3>1
        <3> QED BY <3>2 DEF Expected
    <2> QED BY <2>3, <2>4, <2>5, <2>6 DEF OneOrder
<1> QED BY <1>1, <1>2, <1>3, <1>4, <1>5

-----------------------------------------------------------------------------
(* The number of open loaders.                                             *)

\* By how many loaders a call changes the number of open ones.
Opened(x) == IF x.call = "create" THEN 1 ELSE IF x.call = "close" THEN -1 ELSE 0

\* With b open loaders at the start there are 0 to m all the time, and e at
\* the end.
Opens(s, b, m, e) ==
    /\ s \in Plan
    /\ \E f \in [0..Len(s) -> 0..m] :
           /\ f[0] = b /\ f[Len(s)] = e
           /\ \A i \in 1..Len(s) : f[i] = f[i - 1] + Opened(s[i])

\* One part after the other.
LEMMA OpensJoin ==
    ASSUME NEW s, NEW u, NEW b, NEW m, NEW e, NEW e2, Opens(s, b, m, e), Opens(u, e, m, e2)
    PROVE  Opens(s \o u, b, m, e2)
<1> DEFINE z == s \o u
           L == Len(s)
           N == Len(u)
<1>1. s \in Plan /\ u \in Plan
    BY DEF Opens
<1>2. /\ z \in Plan /\ L \in Nat /\ N \in Nat /\ Len(z) = L + N
      /\ DOMAIN s = 1..L /\ DOMAIN u = 1..N
      /\ \A i \in DOMAIN s : z[i] = s[i]
      /\ \A i \in DOMAIN u : z[i + L] = u[i]
    BY <1>1, Places
<1>3. PICK f \in [0..L -> 0..m] :
          f[0] = b /\ f[L] = e /\ \A i \in 1..L : f[i] = f[i - 1] + Opened(s[i])
    BY DEF Opens
<1>4. PICK g \in [0..N -> 0..m] :
          g[0] = e /\ g[N] = e2 /\ \A i \in 1..N : g[i] = g[i - 1] + Opened(u[i])
    BY DEF Opens
<1> HIDE DEF z, L, N
<1> DEFINE h == [i \in 0..L + N |-> IF i <= L THEN f[i] ELSE g[i - L]]
<1>5. h \in [0..L + N -> 0..m]
    <2> SUFFICES ASSUME NEW i \in 0..L + N PROVE h[i] \in 0..m
        OBVIOUS
    <2>1. CASE i <= L
        <3>1. i \in 0..L
            BY <1>2, <2>1
        <3> QED BY <2>1, <3>1
    <2>2. CASE ~ (i <= L)
        <3>1. i - L \in 0..N
            BY <1>2, <2>2
        <3> QED BY <2>2, <3>1
    <2> QED BY <2>1, <2>2
<1>6. \A i \in 0..L : h[i] = f[i]
    BY <1>2
<1>7. \A i \in L..L + N : h[i] = g[i - L]
    <2> TAKE i \in L..L + N
    <2>1. CASE i = L
        <3>1. L - L = 0 /\ L \in 0..L
            BY <1>2
        <3> QED BY <1>3, <1>4, <1>6, <2>1, <3>1
    <2>2. CASE i # L
        BY <1>2, <2>2
    <2> QED BY <2>1, <2>2
<1> HIDE DEF h
<1>8. ASSUME NEW i \in 1..L + N PROVE h[i] = h[i - 1] + Opened(z[i])
    <2>1. CASE i <= L
        <3>1. i \in 1..L /\ i \in 0..L /\ i - 1 \in 0..L /\ i \in DOMAIN s
            BY <1>2, <2>1
        <3> QED BY <1>2, <1>3, <1>6, <3>1
    <2>2. CASE ~ (i <= L)
        <3> DEFINE k == i - L
        <3>1. k \in 1..N /\ i \in L..L + N /\ i - 1 \in L..L + N /\ (i - 1) - L = k - 1 /\ k + L = i
            BY <1>2, <2>2
        <3>2. h[i] = g[k] /\ h[i - 1] = g[k - 1]
            BY <1>7, <3>1
        <3> HIDE DEF k
        <3>3. z[i] = u[k]
            BY <1>2, <3>1
        <3> QED BY <1>4, <3>1, <3>2, <3>3
    <2> QED BY <2>1, <2>2
<1>9. h[0] = b
    <2>1. 0 \in 0..L
        BY <1>2
    <2> QED BY <1>3, <1>6, <2>1
<1>10. h[L + N] = e2
    <2>1. L + N \in L..L + N /\ (L + N) - L = N
        BY <1>2
    <2> QED BY <1>4, <1>7, <2>1
<1>11. Opens(z, b, m, e2)
    BY <1>2, <1>5, <1>8, <1>9, <1>10 DEF Opens
<1> QED BY <1>11 DEF z

\* What only loads leaves the loaders alone.
LEMMA OpensQuiet ==
    ASSUME NEW s, NEW m \in Nat, NEW b \in 0..m, Quiet(s)
    PROVE  Opens(s, b, m, b)
<1> DEFINE f == [i \in 0..Len(s) |-> b]
<1>1. s \in Plan /\ Len(s) \in Nat /\ DOMAIN s = 1..Len(s)
    BY DEF Quiet, Plan
<1>2. \A i \in 1..Len(s) : Opened(s[i]) = 0
    BY <1>1 DEF Quiet, Opened
<1>3. f \in [0..Len(s) -> 0..m] /\ f[0] = b /\ f[Len(s)] = b
    BY <1>1
<1>4. \A i \in 1..Len(s) : f[i] = f[i - 1] + Opened(s[i])
    BY <1>1, <1>2
<1> HIDE DEF f
<1> QED BY <1>1, <1>3, <1>4 DEF Opens

\* One call.
LEMMA OpensCall ==
    ASSUME NEW t \in Tables, NEW m \in Nat, NEW b \in 0..m
    PROVE  /\ Opens(commit(t), b, m, b)
           /\ b + 1 <= m => Opens(create(t), b, m, b + 1)
           /\ b >= 1 => Opens(close(t), b, m, b - 1)
<1>1. ASSUME NEW s \in Plan, Len(s) = 1, NEW e \in 0..m, e = b + Opened(s[1]) PROVE Opens(s, b, m, e)
    <2> DEFINE f == [i \in 0..1 |-> IF i = 0 THEN b ELSE e]
    <2>1. f \in [0..1 -> 0..m] /\ f[0] = b /\ f[1] = e
        OBVIOUS
    <2>2. \A i \in 1..1 : f[i] = f[i - 1] + Opened(s[i])
        BY <1>1, <2>1
    <2> HIDE DEF f
    <2> QED BY <1>1, <2>1, <2>2 DEF Opens
<1>2. /\ commit(t) \in Plan /\ Len(commit(t)) = 1 /\ Opened(commit(t)[1]) = 0
      /\ create(t) \in Plan /\ Len(create(t)) = 1 /\ Opened(create(t)[1]) = 1
      /\ close(t) \in Plan /\ Len(close(t)) = 1 /\ Opened(close(t)[1]) = -1
    BY TableCalls DEF Is, Opened
<1>3. Opens(commit(t), b, m, b)
    BY <1>1, <1>2
<1>4. ASSUME b + 1 <= m PROVE Opens(create(t), b, m, b + 1)
    <2>1. b + 1 \in 0..m
        BY <1>4
    <2> QED BY <1>1, <1>2, <2>1
<1>5. ASSUME b >= 1 PROVE Opens(close(t), b, m, b - 1)
    <2>1. b - 1 \in 0..m /\ b - 1 = b + (-1)
        BY <1>5
    <2> QED BY <1>1, <1>2, <2>1
<1> QED BY <1>3, <1>4, <1>5

\* A loop that has f[i] loaders open after i parts.
LEMMA OpensLoop ==
    ASSUME NEW n \in Nat, NEW ss, NEW m \in Nat, NEW f \in [0..n -> 0..m],
           \A i \in 1..n : Opens(ss[i], f[i - 1], m, f[i]), ss = [i \in 1..n |-> ss[i]]
    PROVE  Opens(FlattenSeq(ss), f[0], m, f[n])
<1> DEFINE G == [i \in 0..n |-> {s \in Plan : Opens(s, f[0], m, f[i])}]
<1>1. ss \in [1..n -> Plan]
    <2>1. \A i \in 1..n : ss[i] \in Plan
        BY DEF Opens
    <2>2. [i \in 1..n |-> ss[i]] \in [1..n -> Plan]
        BY <2>1
    <2> QED BY <2>2
<1>2. G \in [0..n -> SUBSET Plan]
    OBVIOUS
<1>3. <<>> \in G[0]
    <2>1. f[0] \in 0..m
        OBVIOUS
    <2>2. Opens(<<>>, f[0], m, f[0]) /\ <<>> \in Plan
        BY <2>1, OpensQuiet, QuietParts DEF Quiet
    <2> QED BY <2>2
<1>4. ASSUME NEW i \in 1..n, NEW s \in G[i - 1] PROVE s \o ss[i] \in G[i]
    <2>1. i - 1 \in 0..n /\ i \in 0..n
        OBVIOUS
    <2>2. Opens(s, f[0], m, f[i - 1]) /\ Opens(ss[i], f[i - 1], m, f[i])
        BY <2>1
    <2>3. Opens(s \o ss[i], f[0], m, f[i])
        BY ONLY <2>2, OpensJoin
    <2> QED BY <2>1, <2>3 DEF Opens
<1> HIDE DEF G
<1>5. FlattenSeq(ss) \in G[n]
    BY <1>1, <1>2, <1>3, <1>4, Repeated
<1> QED BY <1>5 DEF G

\* A loader that is created, loads and is closed.
LEMMA OpensTable ==
    ASSUME NEW n \in Nat, NEW row, NEW t \in Tables, NEW m \in Nat, NEW b \in 0..m, b + 1 <= m,
           \A i \in 1..n : row[i] \in AllRows
    PROVE  Opens(create(t) \o FlattenSeq([i \in 1..n |-> load(row[i])]) \o close(t), b, m, b)
<1> DEFINE ss == [i \in 1..n |-> load(row[i])]
<1>1. \A i \in 1..n : load(row[i]) \in Plan /\ Quiet(load(row[i]))
    BY LoadCall, QuietParts
<1>2. ss \in [1..n -> Plan] /\ \A i \in 1..n : Quiet(ss[i])
    BY <1>1
<1>3. b + 1 \in 0..m /\ (b + 1) - 1 = b /\ b + 1 >= 1
    OBVIOUS
<1> HIDE DEF ss
<1>4. Quiet(FlattenSeq(ss))
    BY <1>2, QuietLoop
<1>5. Opens(create(t), b, m, b + 1)
    BY OpensCall
<1>6. Opens(FlattenSeq(ss), b + 1, m, b + 1)
    BY <1>3, <1>4, OpensQuiet
<1>7. Opens(close(t), b + 1, m, b)
    BY <1>3, OpensCall
<1>8. Opens(create(t) \o FlattenSeq(ss), b, m, b + 1)
    BY ONLY <1>5, <1>6, OpensJoin
<1>9. Opens(create(t) \o FlattenSeq(ss) \o close(t), b, m, b)
    BY ONLY <1>7, <1>8, OpensJoin
<1> QED BY <1>9 DEF ss

\* The tables that one loader is used for.
LEMMA OpensOne ==
    ASSUME NEW m \in Nat, NEW b \in 0..m, b + 1 <= m
    PROVE  /\ Opens(loadItems, b, m, b)
           /\ \A w \in Nat : Opens(stock(w), b, m, b) /\ Opens(district(w), b, m, b)
<1>1. "item" \in Tables /\ "stock" \in Tables /\ "district" \in Tables
    BY DEF Tables
<1>2. Opens(loadItems, b, m, b)
    <2> DEFINE row == [i \in 1..MAXITEMS |-> <<"item", i>>]
    <2>1. \A i \in 1..MAXITEMS : row[i] \in AllRows
        <3>1. \A i \in 1..MAXITEMS : i \in Nat
            BY Constants
        <3> QED BY <3>1 DEF AllRows, Tables
    <2>2. loadItems = create("item") \o FlattenSeq([i \in 1..MAXITEMS |-> load(row[i])]) \o close("item")
        BY DEF loadItems, for
    <2> HIDE DEF row
    <2> QED BY <1>1, <2>1, <2>2, Constants, OpensTable
<1>3. ASSUME NEW w \in Nat PROVE Opens(stock(w), b, m, b)
    <2> DEFINE row == [i \in 1..MAXITEMS |-> <<"stock", w, i>>]
    <2>1. \A i \in 1..MAXITEMS : row[i] \in AllRows
        <3>1. \A i \in 1..MAXITEMS : i \in Nat
            BY Constants
        <3> QED BY <3>1 DEF AllRows, Tables
    <2>2. stock(w) = create("stock") \o FlattenSeq([i \in 1..MAXITEMS |-> load(row[i])]) \o close("stock")
        BY DEF stock, for
    <2> HIDE DEF row
    <2> QED BY <1>1, <2>1, <2>2, Constants, OpensTable
<1>4. ASSUME NEW w \in Nat PROVE Opens(district(w), b, m, b)
    <2> DEFINE row == [d \in 1..DIST_PER_WARE |-> <<"district", w, d>>]
    <2>1. \A d \in 1..DIST_PER_WARE : row[d] \in AllRows
        <3>1. \A d \in 1..DIST_PER_WARE : d \in Nat
            BY Constants
        <3> QED BY <3>1 DEF AllRows, Tables
    <2>2. district(w) = create("district") \o FlattenSeq([d \in 1..DIST_PER_WARE |-> load(row[d])])
                        \o close("district")
        BY DEF district, for
    <2> HIDE DEF row
    <2> QED BY <1>1, <2>1, <2>2, Constants, OpensTable
<1> QED BY <1>2, <1>3, <1>4

\* loadWare.
LEMMA OpensWare ==
    ASSUME NEW m \in Nat, m >= 3, NEW c
    PROVE  Opens(loadWare(c), 0, m, 0)
<1> DEFINE one(w) == load(<<"warehouse", w>>) \o commit("warehouse") \o stock(w) \o district(w)
           ss     == [w \in 1..num_ware |-> IF isOurs(c, w) THEN one(w) ELSE <<>>]
           f      == [w \in 0..num_ware |-> 1]
<1>1. "warehouse" \in Tables /\ 0 \in 0..m /\ 1 \in 0..m /\ 0 + 1 <= m /\ 1 + 1 <= m
    BY DEF Tables
<1>2. ASSUME NEW w \in Nat PROVE Opens(one(w), 1, m, 1)
    <2>1. Opens(load(<<"warehouse", w>>), 1, m, 1)
        BY <1>1, RowKinds, QuietParts, OpensQuiet
    <2>2. Opens(commit("warehouse"), 1, m, 1)
        BY <1>1, OpensCall
    <2>3. Opens(stock(w), 1, m, 1) /\ Opens(district(w), 1, m, 1)
        BY <1>1, OpensOne
    <2>4. Opens(load(<<"warehouse", w>>) \o commit("warehouse"), 1, m, 1)
        BY ONLY <2>1, <2>2, OpensJoin
    <2>5. Opens(load(<<"warehouse", w>>) \o commit("warehouse") \o stock(w), 1, m, 1)
        BY ONLY <2>3, <2>4, OpensJoin
    <2> QED BY ONLY <2>3, <2>5, OpensJoin
<1> HIDE DEF one
<1>3. \A w \in 1..num_ware : Opens(ss[w], 1, m, 1)
    <2>1. Opens(<<>>, 1, m, 1)
        BY <1>1, QuietParts, OpensQuiet
    <2>2. \A w \in 1..num_ware : w \in Nat
        BY Constants
    <2> QED BY <1>2, <2>1, <2>2
<1>4. f \in [0..num_ware -> 0..m] /\ \A w \in 1..num_ware : f[w - 1] = 1 /\ f[w] = 1
    BY <1>1, Constants
<1>5. f[0] = 1 /\ f[num_ware] = 1 /\ num_ware \in Nat
    BY Constants
<1>6. ss = [w \in 1..num_ware |-> ss[w]]
    OBVIOUS
<1>7. loadWare(c) = create("warehouse") \o FlattenSeq(ss) \o close("warehouse")
    BY DEF loadWare, for, one
<1> HIDE DEF ss, f
<1>8. Opens(FlattenSeq(ss), f[0], m, f[num_ware])
    <2>1. \A w \in 1..num_ware : Opens(ss[w], f[w - 1], m, f[w])
        BY <1>3, <1>4
    <2> QED BY ONLY <1>4, <1>5, <1>6, <2>1, m \in Nat, OpensLoop
<1>9. Opens(create("warehouse"), 0, m, 1) /\ Opens(close("warehouse"), 1, m, 0)
    <2>1. 0 + 1 = 1 /\ 1 - 1 = 0 /\ 1 >= 1
        OBVIOUS
    <2> QED BY <1>1, <2>1, OpensCall
<1>10. Opens(FlattenSeq(ss), 1, m, 1)
    BY <1>5, <1>8
<1>11. Opens(create("warehouse") \o FlattenSeq(ss), 0, m, 1)
    BY ONLY <1>9, <1>10, OpensJoin
<1>12. Opens(create("warehouse") \o FlattenSeq(ss) \o close("warehouse"), 0, m, 0)
    BY ONLY <1>9, <1>11, OpensJoin
<1> QED BY <1>7, <1>12

\* loadCustomer closes both of its loaders.
LEMMA OpensCustomer ==
    ASSUME NEW m \in Nat, m >= 3, NEW c, NEW w \in Nat, NEW d \in Nat
    PROVE  Opens(loadCustomer(c, w, d), 0, m, 0)
<1> DEFINE one(n) == load(<<"customer", w, d, n>>) \o load(<<"history", w, d, n>>)
           ss     == [n \in 1..CUST_PER_DIST |-> one(n)]
           body   == IF isOurs(c, w) THEN FlattenSeq(ss) ELSE <<>>
<1>1. "customer" \in Tables /\ "history" \in Tables
    BY DEF Tables
<1>2. \A n \in 1..CUST_PER_DIST : Quiet(one(n))
    <2> TAKE n \in 1..CUST_PER_DIST
    <2>1. n \in Nat
        BY Constants
    <2>2. <<"customer", w, d, n>> \in AllRows /\ <<"history", w, d, n>> \in AllRows
        BY <2>1, RowKinds
    <2> QED BY <2>2, QuietParts
<1> HIDE DEF one
<1>3. ss \in [1..CUST_PER_DIST -> Plan] /\ \A n \in 1..CUST_PER_DIST : Quiet(ss[n])
    BY <1>2 DEF Quiet
<1> HIDE DEF ss
<1>4. Quiet(body)
    BY <1>3, QuietLoop, QuietParts, Constants
<1> DEFINE c1 == create("customer")
           c2 == create("history")
           c3 == close("customer")
           c4 == close("history")
<1>5. loadCustomer(c, w, d) = c1 \o c2 \o body \o c3 \o c4
    BY DEF loadCustomer, for, ss, one
<1> HIDE DEF body
<1>6. /\ 0 \in 0..m /\ 1 \in 0..m /\ 2 \in 0..m /\ 0 + 1 = 1 /\ 1 + 1 = 2 /\ 2 - 1 = 1 /\ 1 - 1 = 0
      /\ 1 <= m /\ 2 <= m /\ 1 >= 1 /\ 2 >= 1
    OBVIOUS
<1>7. Opens(c1, 0, m, 1) /\ Opens(c2, 1, m, 2) /\ Opens(c3, 2, m, 1) /\ Opens(c4, 1, m, 0)
    <2>1. Opens(c1, 0, m, 0 + 1)
        BY ONLY <1>1, <1>6, m \in Nat, OpensCall
    <2>2. Opens(c2, 1, m, 1 + 1)
        BY ONLY <1>1, <1>6, m \in Nat, OpensCall
    <2>3. Opens(c3, 2, m, 2 - 1)
        BY ONLY <1>1, <1>6, m \in Nat, OpensCall
    <2>4. Opens(c4, 1, m, 1 - 1)
        BY ONLY <1>1, <1>6, m \in Nat, OpensCall
    <2> HIDE DEF c1, c2, c3, c4
    <2> QED BY <1>6, <2>1, <2>2, <2>3, <2>4
<1>8. Opens(body, 2, m, 2)
    BY <1>4, <1>6, OpensQuiet
<1> HIDE DEF c1, c2, c3, c4
<1>9. Opens(c1 \o c2, 0, m, 2)
    BY ONLY <1>7, OpensJoin
<1>10. Opens(c1 \o c2 \o body, 0, m, 2)
    BY ONLY <1>8, <1>9, OpensJoin
<1>11. Opens(c1 \o c2 \o body \o c3, 0, m, 1)
    BY ONLY <1>7, <1>10, OpensJoin
<1>12. Opens(c1 \o c2 \o body \o c3 \o c4, 0, m, 0)
    BY ONLY <1>7, <1>11, OpensJoin
<1> QED BY <1>5, <1>12

\* loadOrders leaves three loaders open when the warehouse is not ours.
LEMMA OpensOrders ==
    ASSUME NEW m \in Nat, NEW b \in 0..m, b + 3 <= m, NEW c, NEW w \in Nat, NEW d \in Nat
    PROVE  Opens(loadOrders(c, w, d), b, m, IF isOurs(c, w) THEN b ELSE b + 3)
<1> DEFINE one(o) == load(<<"orders", w, d, o, initPermutation[o]>>)
                     \o (IF o > LastDelivered THEN load(<<"new_orders", w, d, o>>) ELSE <<>>)
                     \o for(OrderLines, LAMBDA n : load(<<"order_line", w, d, o, n>>))
           ss     == [o \in 1..ORD_PER_DIST |-> one(o)]
           c1 == create("orders")
           c2 == create("new_orders")
           c3 == create("order_line")
           e1 == close("orders")
           e2 == close("order_line")
           e3 == close("new_orders")
           body   == IF isOurs(c, w) THEN FlattenSeq(ss) \o e1 \o e2 \o e3 ELSE <<>>
<1>1. "orders" \in Tables /\ "new_orders" \in Tables /\ "order_line" \in Tables
    BY DEF Tables
<1>2. ASSUME NEW o \in 1..ORD_PER_DIST PROVE Quiet(one(o))
    <2> DEFINE H == {<<"customer", w, d, initPermutation[o]>>, OrderRow(w, d, o)}
    <2>1. <<"customer", w, d, initPermutation[o]>> \in H /\ OrderRow(w, d, o) \in H
        OBVIOUS
    <2> HIDE DEF H
    <2> QED BY <2>1, OrderBlock
<1> HIDE DEF one
<1>3. ss \in [1..ORD_PER_DIST -> Plan] /\ \A o \in 1..ORD_PER_DIST : Quiet(ss[o])
    BY <1>2 DEF Quiet
<1>4. loadOrders(c, w, d) = c1 \o c2 \o c3 \o body
    BY DEF loadOrders, for, one
<1> HIDE DEF ss
<1>5. Quiet(FlattenSeq(ss))
    BY <1>3, QuietLoop, Constants
<1>6. /\ b \in 0..m /\ b + 1 \in 0..m /\ b + 2 \in 0..m /\ b + 3 \in 0..m
      /\ (b + 1) + 1 = b + 2 /\ (b + 2) + 1 = b + 3
      /\ (b + 3) - 1 = b + 2 /\ (b + 2) - 1 = b + 1 /\ (b + 1) - 1 = b
      /\ b + 1 <= m /\ b + 2 <= m /\ b + 1 >= 1 /\ b + 2 >= 1 /\ b + 3 >= 1
    OBVIOUS
<1>7. Opens(c1, b, m, b + 1) /\ Opens(c2, b + 1, m, b + 2) /\ Opens(c3, b + 2, m, b + 3)
    <2>1. Opens(c1, b, m, b + 1)
        BY ONLY <1>1, <1>6, m \in Nat, OpensCall
    <2>2. Opens(c2, b + 1, m, (b + 1) + 1)
        BY ONLY <1>1, <1>6, m \in Nat, OpensCall
    <2>3. Opens(c3, b + 2, m, (b + 2) + 1)
        BY ONLY <1>1, <1>6, b + 3 <= m, m \in Nat, OpensCall
    <2> HIDE DEF c1, c2, c3
    <2> QED BY <1>6, <2>1, <2>2, <2>3
<1>8. Opens(e1, b + 3, m, b + 2) /\ Opens(e2, b + 2, m, b + 1) /\ Opens(e3, b + 1, m, b)
    <2>1. Opens(e1, b + 3, m, (b + 3) - 1)
        BY ONLY <1>1, <1>6, m \in Nat, OpensCall
    <2>2. Opens(e2, b + 2, m, (b + 2) - 1)
        BY ONLY <1>1, <1>6, m \in Nat, OpensCall
    <2>3. Opens(e3, b + 1, m, (b + 1) - 1)
        BY ONLY <1>1, <1>6, m \in Nat, OpensCall
    <2> HIDE DEF e1, e2, e3
    <2> QED BY <1>6, <2>1, <2>2, <2>3
<1> HIDE DEF c1, c2, c3, e1, e2, e3
<1>9. Opens(body, b + 3, m, IF isOurs(c, w) THEN b ELSE b + 3)
    <2>1. CASE isOurs(c, w)
        <3>1. Opens(FlattenSeq(ss), b + 3, m, b + 3)
            BY <1>5, <1>6, OpensQuiet
        <3>2. Opens(FlattenSeq(ss) \o e1, b + 3, m, b + 2)
            BY ONLY <1>8, <3>1, OpensJoin
        <3>3. Opens(FlattenSeq(ss) \o e1 \o e2, b + 3, m, b + 1)
            BY ONLY <1>8, <3>2, OpensJoin
        <3>4. Opens(FlattenSeq(ss) \o e1 \o e2 \o e3, b + 3, m, b)
            BY ONLY <1>8, <3>3, OpensJoin
        <3> QED BY <2>1, <3>4
    <2>2. CASE ~ isOurs(c, w)
        <3>1. Opens(<<>>, b + 3, m, b + 3)
            BY <1>6, QuietParts, OpensQuiet
        <3> QED BY <2>2, <3>1
    <2> QED BY <2>1, <2>2
<1> HIDE DEF body
<1>10. Opens(c1 \o c2, b, m, b + 2)
    BY ONLY <1>7, OpensJoin
<1>11. Opens(c1 \o c2 \o c3, b, m, b + 3)
    BY ONLY <1>7, <1>10, OpensJoin
<1>12. Opens(c1 \o c2 \o c3 \o body, b, m, IF isOurs(c, w) THEN b ELSE b + 3)
    BY ONLY <1>9, <1>11, OpensJoin
<1> QED BY <1>4, <1>12

\* The warehouses up to w that are not ours.
NotOurs(c, w) == {x \in 1..w : ~ isOurs(c, x)}

\* They become more with every warehouse that is not ours.
LEMMA NotOursSteps ==
    ASSUME NEW c
    PROVE  /\ Cardinality(NotOurs(c, 0)) = 0
           /\ \A w \in Nat : /\ IsFiniteSet(NotOurs(c, w)) /\ Cardinality(NotOurs(c, w)) \in Nat
                             /\ Cardinality(NotOurs(c, w + 1))
                                = Cardinality(NotOurs(c, w)) + (IF isOurs(c, w + 1) THEN 0 ELSE 1)
           /\ \A v, w \in Nat : v <= w => Cardinality(NotOurs(c, v)) <= Cardinality(NotOurs(c, w))
<1>1. \A w \in Nat : IsFiniteSet(NotOurs(c, w)) /\ Cardinality(NotOurs(c, w)) \in Nat
    <2> TAKE w \in Nat
    <2>1. IsFiniteSet(1..w)
        BY FS_Interval
    <2>2. IsFiniteSet(NotOurs(c, w))
        BY <2>1, FS_Subset DEF NotOurs
    <2> QED BY <2>2, FS_CardinalityType
<1>2. Cardinality(NotOurs(c, 0)) = 0
    <2>1. NotOurs(c, 0) = {}
        BY DEF NotOurs
    <2> QED BY <2>1, FS_EmptySet
<1>3. ASSUME NEW w \in Nat
      PROVE  Cardinality(NotOurs(c, w + 1)) = Cardinality(NotOurs(c, w)) + (IF isOurs(c, w + 1) THEN 0 ELSE 1)
    <2>1. CASE isOurs(c, w + 1)
        <3>1. NotOurs(c, w + 1) = NotOurs(c, w)
            BY <2>1 DEF NotOurs
        <3> QED BY <1>1, <2>1, <3>1
    <2>2. CASE ~ isOurs(c, w + 1)
        <3>1. NotOurs(c, w + 1) = NotOurs(c, w) \cup {w + 1} /\ w + 1 \notin NotOurs(c, w)
            BY <2>2 DEF NotOurs
        <3> QED BY <1>1, <2>2, <3>1, FS_AddElement
    <2> QED BY <2>1, <2>2
<1>4. ASSUME NEW v \in Nat, NEW w \in Nat, v <= w
      PROVE  Cardinality(NotOurs(c, v)) <= Cardinality(NotOurs(c, w))
    <2>1. NotOurs(c, v) \subseteq NotOurs(c, w)
        BY <1>4 DEF NotOurs
    <2> QED BY <1>1, <2>1, FS_Subset
<1> QED BY <1>1, <1>2, <1>3, <1>4

\* Products of numbers.
LEMMA Times ==
    ASSUME NEW k \in Nat, NEW x \in Nat
    PROVE  k * x \in Nat /\ k * (x + 1) = k * x + k /\ \A y \in Nat : x <= y => k * x <= k * y
    OBVIOUS

\* At most three loaders for the warehouses that are ours, and three of each
\* district of the others.
LEMMA MostOpen ==
    MaxOpen = 3 + 3 * DIST_PER_WARE * Cardinality(NotOurs(config, num_ware)) /\ MaxOpen \in Nat
<1>1. IsFiniteSet(1..num_ware) /\ Cardinality(1..num_ware) = num_ware
    <2>1. 1 \in Int /\ num_ware \in Int /\ num_ware >= 0
        BY Constants
    <2>2. IsFiniteSet(1..num_ware) /\ Cardinality(1..num_ware) = IF 1 > num_ware THEN 0 ELSE num_ware - 1 + 1
        BY <2>1, FS_Interval
    <2> QED BY <2>1, <2>2
<1>2. NotOurs(config, num_ware) = 1..num_ware \ Ours /\ (1..num_ware) \cap Ours = Ours
    BY DEF NotOurs, Ours
<1>3. Cardinality(1..num_ware \ Ours) = Cardinality(1..num_ware) - Cardinality((1..num_ware) \cap Ours)
    BY <1>1, FS_Difference
<1>4. IsFiniteSet(Ours) /\ Cardinality(Ours) \in Nat
    <2>1. Ours \subseteq 1..num_ware
        BY DEF Ours
    <2> QED BY <1>1, <2>1, FS_Subset, FS_CardinalityType
<1>5. Cardinality(NotOurs(config, num_ware)) = num_ware - Cardinality(Ours)
    BY <1>1, <1>2, <1>3
<1>6. Cardinality(NotOurs(config, num_ware)) \in Nat
    BY NotOursSteps, Constants
<1>7. 3 * DIST_PER_WARE \in Nat
    BY Constants
<1>8. 3 * DIST_PER_WARE * Cardinality(NotOurs(config, num_ware)) \in Nat
    BY <1>6, <1>7, Times
<1> QED BY <1>5, <1>8 DEF MaxOpen

\* loadCust.
LEMMA OpensCust ==
    ASSUME NEW m \in Nat, m >= 3, NEW c
    PROVE  Opens(loadCust(c), 0, m, 0)
<1> DEFINE ware(w) == FlattenSeq([d \in 1..DIST_PER_WARE |-> loadCustomer(c, w, d)])
           ss      == [w \in 1..num_ware |-> ware(w)]
           f       == [w \in 0..num_ware |-> 0]
<1>1. num_ware \in Nat /\ DIST_PER_WARE \in Nat /\ 0 \in 0..m
    BY Constants
<1>2. ASSUME NEW w \in 1..num_ware PROVE Opens(ware(w), 0, m, 0)
    <2> DEFINE sd == [d \in 1..DIST_PER_WARE |-> loadCustomer(c, w, d)]
               g  == [d \in 0..DIST_PER_WARE |-> 0]
    <2>1. w \in Nat /\ \A d \in 1..DIST_PER_WARE : d \in Nat
        BY <1>1
    <2>2. \A d \in 1..DIST_PER_WARE : Opens(sd[d], 0, m, 0)
        BY <2>1, OpensCustomer
    <2>3. g \in [0..DIST_PER_WARE -> 0..m] /\ g[0] = 0 /\ g[DIST_PER_WARE] = 0
        BY <1>1
    <2>4. \A d \in 1..DIST_PER_WARE : g[d - 1] = 0 /\ g[d] = 0
        BY <1>1
    <2>5. sd = [d \in 1..DIST_PER_WARE |-> sd[d]]
        OBVIOUS
    <2> HIDE DEF sd, g
    <2>6. \A d \in 1..DIST_PER_WARE : Opens(sd[d], g[d - 1], m, g[d])
        BY <2>2, <2>4
    <2>7. Opens(FlattenSeq(sd), g[0], m, g[DIST_PER_WARE])
        BY ONLY <1>1, <2>3, <2>5, <2>6, m \in Nat, OpensLoop
    <2> QED BY <2>3, <2>7 DEF sd
<1>3. loadCust(c) = FlattenSeq(ss)
    BY DEF loadCust, for
<1> HIDE DEF ware
<1>4. f \in [0..num_ware -> 0..m] /\ f[0] = 0 /\ f[num_ware] = 0
    BY <1>1
<1>5. \A w \in 1..num_ware : f[w - 1] = 0 /\ f[w] = 0 /\ ss[w] = ware(w)
    BY <1>1
<1>6. ss = [w \in 1..num_ware |-> ss[w]]
    OBVIOUS
<1> HIDE DEF ss, f
<1>7. \A w \in 1..num_ware : Opens(ss[w], f[w - 1], m, f[w])
    BY <1>2, <1>5
<1>8. Opens(FlattenSeq(ss), f[0], m, f[num_ware])
    BY ONLY <1>1, <1>4, <1>6, <1>7, m \in Nat, OpensLoop
<1> QED BY <1>3, <1>4, <1>8

\* loadOrders for the districts of a warehouse.
LEMMA OpensWareOrders ==
    ASSUME NEW m \in Nat, NEW b \in 0..m, NEW c, NEW w \in Nat,
           IF isOurs(c, w) THEN b + 3 <= m ELSE b + 3 * DIST_PER_WARE <= m
    PROVE  Opens(FlattenSeq([d \in 1..DIST_PER_WARE |-> loadOrders(c, w, d)]), b, m,
                 IF isOurs(c, w) THEN b ELSE b + 3 * DIST_PER_WARE)
<1> DEFINE sd == [d \in 1..DIST_PER_WARE |-> loadOrders(c, w, d)]
           g  == [d \in 0..DIST_PER_WARE |-> IF isOurs(c, w) THEN b ELSE b + 3 * d]
<1>1. DIST_PER_WARE \in Nat
    BY Constants
<1>2. g \in [0..DIST_PER_WARE -> 0..m]
    BY <1>1
<1>3. g[0] = b /\ g[DIST_PER_WARE] = IF isOurs(c, w) THEN b ELSE b + 3 * DIST_PER_WARE
    BY <1>1
<1>4. ASSUME NEW d \in 1..DIST_PER_WARE
      PROVE  /\ g[d - 1] \in 0..m /\ g[d - 1] + 3 <= m
             /\ g[d] = IF isOurs(c, w) THEN g[d - 1] ELSE g[d - 1] + 3
    <2>1. d \in 0..DIST_PER_WARE /\ d - 1 \in 0..DIST_PER_WARE
        BY <1>1
    <2> QED BY <1>1, <2>1
<1>5. sd = [d \in 1..DIST_PER_WARE |-> sd[d]] /\ \A d \in 1..DIST_PER_WARE : sd[d] = loadOrders(c, w, d)
    OBVIOUS
<1> HIDE DEF sd, g
<1>6. ASSUME NEW d \in 1..DIST_PER_WARE PROVE Opens(sd[d], g[d - 1], m, g[d])
    <2>1. d \in Nat
        BY <1>1
    <2>2. Opens(loadOrders(c, w, d), g[d - 1], m, IF isOurs(c, w) THEN g[d - 1] ELSE g[d - 1] + 3)
        BY ONLY <1>4, <2>1, w \in Nat, m \in Nat, OpensOrders
    <2> QED BY <1>4, <1>5, <2>2
<1>7. Opens(FlattenSeq(sd), g[0], m, g[DIST_PER_WARE])
    BY ONLY <1>1, <1>2, <1>5, <1>6, m \in Nat, OpensLoop
<1> QED BY ONLY <1>3, <1>7, Zenon DEF sd

\* loadOrd.
LEMMA OpensOrd ==
    ASSUME NEW m \in Nat, NEW c, m = 3 + 3 * DIST_PER_WARE * Cardinality(NotOurs(c, num_ware))
    PROVE  \E e : Opens(loadOrd(c), 0, m, e)
<1> DEFINE ware(w) == FlattenSeq([d \in 1..DIST_PER_WARE |-> loadOrders(c, w, d)])
           ss      == [w \in 1..num_ware |-> ware(w)]
           K       == 3 * DIST_PER_WARE
           N(w)    == Cardinality(NotOurs(c, w))
           f       == [w \in 0..num_ware |-> K * N(w)]
<1>1. num_ware \in Nat /\ DIST_PER_WARE \in Nat /\ K \in Nat
    BY Constants
<1>2. /\ N(0) = 0
      /\ \A w \in Nat : N(w) \in Nat /\ N(w + 1) = N(w) + (IF isOurs(c, w + 1) THEN 0 ELSE 1)
      /\ \A v, w \in Nat : v <= w => N(v) <= N(w)
    BY NotOursSteps
<1>3. m = 3 + K * N(num_ware)
    OBVIOUS
<1>4. K = 3 * DIST_PER_WARE
    OBVIOUS
<1> HIDE DEF K, N
<1>5. ASSUME NEW w \in 0..num_ware PROVE K * N(w) \in Nat /\ K * N(w) + 3 <= m
    <2>1. w \in Nat /\ w <= num_ware /\ N(w) \in Nat /\ N(num_ware) \in Nat /\ N(w) <= N(num_ware)
        <3>1. w \in Nat /\ w <= num_ware
            BY <1>1
        <3> QED BY ONLY <1>1, <1>2, <3>1, Zenon
    <2>2. K * N(w) \in Nat /\ K * N(num_ware) \in Nat /\ K * N(w) <= K * N(num_ware)
        BY <1>1, <2>1, Times
    <2> QED BY <1>3, <2>2
<1>6. f \in [0..num_ware -> 0..m]
    <2>1. \A w \in 0..num_ware : K * N(w) \in 0..m
        BY <1>5
    <2> QED BY <2>1
<1>7. f[0] = 0
    <2>1. 0 \in 0..num_ware /\ K * 0 = 0
        BY <1>1
    <2> QED BY <1>2, <2>1
<1>8. ASSUME NEW w \in 1..num_ware PROVE Opens(ware(w), f[w - 1], m, f[w])
    <2>1. w \in Nat /\ w - 1 \in Nat /\ (w - 1) + 1 = w /\ w \in 0..num_ware /\ w - 1 \in 0..num_ware
        BY <1>1
    <2>2. f[w - 1] = K * N(w - 1) /\ f[w] = K * N(w)
        BY <2>1
    <2>3. N(w) = N(w - 1) + (IF isOurs(c, w) THEN 0 ELSE 1) /\ N(w - 1) \in Nat /\ N(w) \in Nat
        BY <1>2, <2>1
    <2>4. K * N(w - 1) \in Nat /\ K * N(w) \in Nat /\ K * N(w) + 3 <= m /\ K * N(w - 1) + 3 <= m
        BY <1>5, <2>1
    <2>5. isOurs(c, w) => K * N(w) = K * N(w - 1)
        BY <2>3
    <2>6. ~ isOurs(c, w) => K * N(w) = K * N(w - 1) + K
        <3>1. K * (N(w - 1) + 1) = K * N(w - 1) + K
            BY <1>1, <2>3, Times
        <3> QED BY <2>3, <3>1
    <2> HIDE DEF f, ware
    <2> DEFINE b == f[w - 1]
               e == f[w]
    <2>7. b \in 0..m /\ e = (IF isOurs(c, w) THEN b ELSE b + K) /\ b + 3 <= m /\ e + 3 <= m /\ b \in Nat
        BY <2>2, <2>4, <2>5, <2>6
    <2> HIDE DEF b, e
    <2>8. IF isOurs(c, w) THEN b + 3 <= m ELSE b + 3 * DIST_PER_WARE <= m
        BY <1>1, <1>4, <2>7
    <2>9. Opens(ware(w), b, m, IF isOurs(c, w) THEN b ELSE b + 3 * DIST_PER_WARE)
        BY <2>1, <2>7, <2>8, OpensWareOrders DEF ware
    <2>10. Opens(ware(w), b, m, e)
        BY ONLY <1>4, <2>7, <2>9, Zenon
    <2> QED BY <2>10 DEF b, e
<1>9. loadOrd(c) = FlattenSeq(ss)
    BY DEF loadOrd, for
<1> HIDE DEF f, ware
<1>10. ss = [w \in 1..num_ware |-> ss[w]] /\ \A w \in 1..num_ware : ss[w] = ware(w)
    OBVIOUS
<1> HIDE DEF ss
<1>11. \A w \in 1..num_ware : Opens(ss[w], f[w - 1], m, f[w])
    BY <1>8, <1>10
<1>12. Opens(FlattenSeq(ss), f[0], m, f[num_ware])
    BY ONLY <1>1, <1>6, <1>10, <1>11, m \in Nat, OpensLoop
<1> QED BY <1>7, <1>9, <1>12

\* Load.
LEMMA PlanOpens ==
    ASSUME config \in Configs
    PROVE  \E e : Opens(Plans[config], 0, MaxOpen, e)
<1> DEFINE m == MaxOpen
<1>1. m \in Nat /\ m >= 3 /\ 0 \in 0..m /\ 0 + 1 <= m
      /\ m = 3 + 3 * DIST_PER_WARE * Cardinality(NotOurs(config, num_ware))
    <2>1. 3 * DIST_PER_WARE * Cardinality(NotOurs(config, num_ware)) \in Nat
        <3>1. 3 * DIST_PER_WARE \in Nat /\ Cardinality(NotOurs(config, num_ware)) \in Nat
            <4>1. \A w \in Nat : Cardinality(NotOurs(config, w)) \in Nat
                BY ONLY NotOursSteps
            <4>2. num_ware \in Nat /\ 3 * DIST_PER_WARE \in Nat
                BY Constants
            <4> QED BY ONLY <4>1, <4>2, Zenon
        <3> QED BY <3>1, Times
    <2> QED BY <2>1, MostOpen
<1> HIDE DEF m
<1>2. Opens(loadItems, 0, m, 0)
    BY <1>1, OpensOne
<1>3. Opens(loadWare(config), 0, m, 0)
    BY <1>1, OpensWare
<1>4. Opens(loadCust(config), 0, m, 0)
    BY <1>1, OpensCust
<1>5. PICK e : Opens(loadOrd(config), 0, m, e)
    BY <1>1, OpensOrd
<1>6. Opens(loadItems \o loadWare(config), 0, m, 0)
    BY ONLY <1>2, <1>3, OpensJoin
<1>7. Opens(loadItems \o loadWare(config) \o loadCust(config), 0, m, 0)
    BY ONLY <1>4, <1>6, OpensJoin
<1>8. Opens(loadItems \o loadWare(config) \o loadCust(config) \o loadOrd(config), 0, m, e)
    BY ONLY <1>5, <1>7, OpensJoin
<1> QED BY <1>8 DEF Plans, m

-----------------------------------------------------------------------------
(* Rows in sequences and in the tables.                                    *)

\* A row more in a sequence.
LEMMA OneMoreRow ==
    ASSUME NEW S, NEW rows \in Seq(S), NEW x \in S
    PROVE  /\ Append(rows, x) \in Seq(S) /\ Append(rows, x) # <<>>
           /\ Len(Append(rows, x)) = Len(rows) + 1 /\ Len(rows) \in Nat
           /\ Range(Append(rows, x)) = Range(rows) \cup {x}
           /\ \A r : occurrences(Append(rows, x), r) = occurrences(rows, r) + (IF x = r THEN 1 ELSE 0)
<1> DEFINE z == Append(rows, x)
           n == Len(rows)
<1>1. /\ z \in Seq(S) /\ z # <<>> /\ Len(z) = n + 1 /\ n \in Nat
      /\ DOMAIN rows = 1..n /\ DOMAIN z = 1..n + 1
      /\ \A i \in 1..n : z[i] = rows[i]
      /\ z[n + 1] = x
    BY AppendProperties
<1> HIDE DEF z, n
<1>2. Range(z) = Range(rows) \cup {x}
    <2>1. \A i \in 1..n + 1 : i \in 1..n \/ i = n + 1
        BY <1>1
    <2>2. (\A i \in 1..n : i \in 1..n + 1) /\ n + 1 \in 1..n + 1
        BY <1>1
    <2> QED BY ONLY <1>1, <2>1, <2>2 DEF Range
<1>3. ASSUME NEW r PROVE occurrences(z, r) = occurrences(rows, r) + (IF x = r THEN 1 ELSE 0)
    <2> DEFINE A == {i \in DOMAIN rows : rows[i] = r}
               B == {i \in DOMAIN z : z[i] = r}
    <2>1. IsFiniteSet(A) /\ Cardinality(A) \in Nat
        <3>1. IsFiniteSet(1..n)
            BY <1>1, FS_Interval
        <3>2. A \subseteq 1..n
            BY <1>1
        <3> QED BY <3>1, <3>2, FS_Subset, FS_CardinalityType
    <2>2. CASE x = r
        <3>1. B = A \cup {n + 1} /\ n + 1 \notin A
            BY <1>1, <2>2
        <3> HIDE DEF A, B
        <3>2. Cardinality(B) = Cardinality(A) + 1
            BY <2>1, <3>1, FS_AddElement
        <3> QED BY <2>2, <3>2 DEF occurrences, A, B
    <2>3. CASE x # r
        <3>1. B = A
            BY <1>1, <2>3
        <3>2. occurrences(z, r) = Cardinality(B) /\ occurrences(rows, r) = Cardinality(A)
            BY DEF occurrences
        <3> HIDE DEF A, B
        <3> QED BY <2>1, <2>3, <3>1, <3>2
    <2> QED BY <2>2, <2>3
<1> QED BY <1>1, <1>2, <1>3 DEF z, n

\* The rows of one sequence after those of another.
LEMMA MoreRows ==
    ASSUME NEW S, NEW a \in Seq(S), NEW b \in Seq(S)
    PROVE  /\ a \o b \in Seq(S)
           /\ Range(a \o b) = Range(a) \cup Range(b)
           /\ \A r : occurrences(a \o b, r) = occurrences(a, r) + occurrences(b, r)
<1> DEFINE z == a \o b
           n == Len(a)
           k == Len(b)
<1>1. /\ z \in Seq(S) /\ Len(z) = n + k /\ n \in Nat /\ k \in Nat
      /\ DOMAIN a = 1..n /\ DOMAIN b = 1..k /\ DOMAIN z = 1..n + k
      /\ \A i \in 1..n + k : z[i] = IF i <= n THEN a[i] ELSE b[i - n]
    BY ConcatProperties
<1> HIDE DEF z, n, k
<1>2. /\ \A i \in 1..n : i \in 1..n + k /\ z[i] = a[i]
      /\ \A i \in 1..k : i + n \in 1..n + k /\ z[i + n] = b[i]
      /\ \A i \in 1..n + k : i \in 1..n \/ (i - n \in 1..k /\ i = (i - n) + n)
    BY <1>1
<1>3. Range(z) = Range(a) \cup Range(b)
    <2>1. ASSUME NEW r \in Range(z) PROVE r \in Range(a) \cup Range(b)
        <3>1. PICK i \in 1..n + k : r = z[i]
            BY <1>1, <2>1 DEF Range
        <3>2. CASE i \in 1..n
            BY <1>1, <1>2, <3>1, <3>2 DEF Range
        <3>3. CASE i - n \in 1..k
            <4> DEFINE j == i - n
            <4>1. j \in 1..k /\ j + n = i
                BY <1>1, <3>3
            <4> HIDE DEF j
            <4>2. r = b[j]
                BY <1>2, <3>1, <4>1
            <4> QED BY <1>1, <4>1, <4>2 DEF Range
        <3> QED BY <1>2, <3>2, <3>3
    <2>2. ASSUME NEW r \in Range(a) PROVE r \in Range(z)
        <3>1. PICK i \in 1..n : r = a[i]
            BY <1>1, <2>2 DEF Range
        <3>2. i \in 1..n + k /\ r = z[i]
            BY <1>2, <3>1
        <3> QED BY <1>1, <3>2 DEF Range
    <2>3. ASSUME NEW r \in Range(b) PROVE r \in Range(z)
        <3>1. PICK i \in 1..k : r = b[i]
            BY <1>1, <2>3 DEF Range
        <3>2. i + n \in 1..n + k /\ r = z[i + n]
            BY <1>2, <3>1
        <3> QED BY <1>1, <3>2 DEF Range
    <2> QED BY <2>1, <2>2, <2>3
<1>4. ASSUME NEW r PROVE occurrences(z, r) = occurrences(a, r) + occurrences(b, r)
    <2> DEFINE A == {i \in 1..n : a[i] = r}
               B == {i \in 1..k : b[i] = r}
               Z == {i \in 1..n + k : z[i] = r}
               B2 == {i \in n + 1..n + k : z[i] = r}
               shift == [i \in B |-> i + n]
    <2>1. IsFiniteSet(A) /\ IsFiniteSet(B)
        <3>1. IsFiniteSet(1..n) /\ IsFiniteSet(1..k)
            BY <1>1, FS_Interval
        <3>2. A \subseteq 1..n /\ B \subseteq 1..k
            OBVIOUS
        <3> QED BY <3>1, <3>2, FS_Subset
    <2>2. Z = A \cup B2 /\ A \cap B2 = {}
        BY <1>1, <1>2
    <2>3. shift \in Bijection(B, B2)
        <3>1. \A i \in B : i + n \in B2
            BY <1>1, <1>2
        <3>2. \A i, j \in B : i + n = j + n => i = j
            BY <1>1
        <3>3. \A j \in B2 : j - n \in B /\ (j - n) + n = j
            BY <1>1, <1>2
        <3> HIDE DEF B2, B
        <3>4. shift \in [B -> B2]
            BY <3>1
        <3>5. \A i, j \in B : shift[i] = shift[j] => i = j
            BY <3>2
        <3>6. \A j \in B2 : \E i \in B : shift[i] = j
            BY <3>3
        <3> HIDE DEF shift
        <3> QED BY <3>4, <3>5, <3>6, Fun_IsBij
    <2> HIDE DEF A, B, B2, Z, shift
    <2>4. IsFiniteSet(B2) /\ Cardinality(B2) = Cardinality(B)
        <3>1. ExistsBijection(B, B2)
            BY ONLY <2>3, Fun_ExistsBij
        <3> QED BY ONLY <2>1, <3>1, FS_Bijection
    <2>5. Cardinality(Z) = Cardinality(A) + Cardinality(B2)
        <3>1. Cardinality(A \cup B2) = Cardinality(A) + Cardinality(B2) - Cardinality(A \cap B2)
            BY <2>1, <2>4, FS_Union
        <3>2. Cardinality(A \cap B2) = 0
            BY <2>2, FS_EmptySet
        <3>3. Cardinality(A) \in Nat /\ Cardinality(B2) \in Nat
            BY <2>1, <2>4, FS_CardinalityType
        <3> QED BY <2>2, <3>1, <3>2, <3>3
    <2> QED BY <1>1, <2>4, <2>5 DEF occurrences, A, B, Z
<1> QED BY <1>1, <1>3, <1>4 DEF z

\* How often a row is in a sequence.
LEMMA RowsCounted ==
    ASSUME NEW S, NEW a \in Seq(S), NEW r
    PROVE  /\ occurrences(a, r) \in Nat
           /\ r \in Range(a) => occurrences(a, r) >= 1
           /\ r \notin Range(a) => occurrences(a, r) = 0
           /\ occurrences(<<>>, r) = 0 /\ Range(<<>>) = {}
<1> DEFINE A == {i \in DOMAIN a : a[i] = r}
<1>1. IsFiniteSet(A) /\ Cardinality(A) \in Nat
    <2>1. DOMAIN a = 1..Len(a) /\ Len(a) \in Nat
        OBVIOUS
    <2>2. IsFiniteSet(DOMAIN a)
        BY <2>1, FS_Interval
    <2> QED BY <2>2, FS_Subset, FS_CardinalityType
<1>2. r \in Range(a) => A # {}
    BY DEF Range
<1>3. r \notin Range(a) => A = {}
    BY DEF Range
<1>4. {i \in DOMAIN <<>> : <<>>[i] = r} = {} /\ Range(<<>>) = {}
    BY DEF Range
<1> HIDE DEF A
<1>5. (A = {} <=> Cardinality(A) = 0) /\ Cardinality({}) = 0
    BY <1>1, FS_EmptySet
<1> QED BY <1>1, <1>2, <1>3, <1>4, <1>5 DEF occurrences, A

\* The bag z has the rows of another bag and of a sequence.
Joined(z, bag, rows, ignore) ==
    /\ DOMAIN z = DOMAIN bag \cup Range(rows) /\ z \in [DOMAIN bag \cup Range(rows) -> Nat]
    /\ \A r : ~ ignore \/ ~ HasKey(r) => times(z, r) = times(bag, r) + occurrences(rows, r)
    /\ \A r \in DOMAIN z : ignore /\ HasKey(r) => z[r] = IF r \in DOMAIN bag THEN bag[r] ELSE 1

\* What Added does.
LEMMA AddedRows ==
    ASSUME NEW rows \in Seq(AllRows), NEW bag, bag \in [DOMAIN bag -> Nat], NEW ignore \in BOOLEAN
    PROVE  Joined(Added(bag, rows, ignore), bag, rows, ignore)
<1> DEFINE z == Added(bag, rows, ignore)
           D == DOMAIN bag \cup Range(rows)
<1>1. z = [r \in D |-> IF ~ ignore \/ ~ HasKey(r) THEN times(bag, r) + occurrences(rows, r)
                       ELSE IF r \in DOMAIN bag THEN bag[r] ELSE 1]
    BY DEF Added
<1>2. \A r : /\ times(bag, r) \in Nat /\ occurrences(rows, r) \in Nat
             /\ r \notin DOMAIN bag => times(bag, r) = 0
             /\ r \notin Range(rows) => occurrences(rows, r) = 0
    BY RowsCounted DEF times
<1> HIDE DEF z, D
<1>3. DOMAIN z = D
    BY <1>1
<1>4. z \in [D -> Nat]
    <2>1. \A r \in D : (IF ~ ignore \/ ~ HasKey(r) THEN times(bag, r) + occurrences(rows, r)
                        ELSE IF r \in DOMAIN bag THEN bag[r] ELSE 1) \in Nat
        BY <1>2
    <2> QED BY <1>1, <2>1
<1>5. ASSUME NEW r, ~ ignore \/ ~ HasKey(r) PROVE times(z, r) = times(bag, r) + occurrences(rows, r)
    <2>1. CASE r \in D
        BY <1>1, <1>5, <2>1 DEF times
    <2>2. CASE r \notin D
        <3>1. times(z, r) = 0
            BY <1>3, <2>2 DEF times
        <3>2. times(bag, r) = 0 /\ occurrences(rows, r) = 0
            BY <1>2, <2>2 DEF D
        <3> QED BY <3>1, <3>2
    <2> QED BY <2>1, <2>2
<1>6. \A r \in D : ignore /\ HasKey(r) => z[r] = IF r \in DOMAIN bag THEN bag[r] ELSE 1
    BY <1>1
<1>7. DOMAIN z = D /\ \A r \in DOMAIN z : ignore /\ HasKey(r) => z[r] = IF r \in DOMAIN bag THEN bag[r] ELSE 1
    BY <1>3, <1>6
<1>8. Joined(z, bag, rows, ignore)
    BY <1>4, <1>5, <1>7 DEF Joined, D
<1> QED BY <1>8 DEF z

-----------------------------------------------------------------------------
(* The calls that are left.                                                *)

\* The calls after the first one.
LEMMA TailPlaces ==
    ASSUME NEW s \in Plan, s # <<>>
    PROVE  /\ Tail(s) \in Plan /\ Head(s) \in Call /\ Head(s) = s[1]
           /\ Len(s) \in Nat \ {0} /\ Len(Tail(s)) = Len(s) - 1
           /\ DOMAIN s = 1..Len(s) /\ DOMAIN Tail(s) = 1..Len(s) - 1
           /\ \A i \in DOMAIN Tail(s) : Tail(s)[i] = s[i + 1]
<1>1. s \in Seq(Call)
    BY DEF Plan
<1>2. /\ Head(s) \in Call /\ Tail(s) \in Seq(Call) /\ Len(Tail(s)) = Len(s) - 1
      /\ \A i \in 1..Len(Tail(s)) : Tail(s)[i] = s[i + 1]
    BY <1>1, HeadTailProperties
<1>3. Len(s) \in Nat \ {0} /\ DOMAIN s = 1..Len(s) /\ Head(s) = s[1]
    BY <1>1
<1>4. DOMAIN Tail(s) = 1..Len(s) - 1
    BY <1>2
<1> QED BY <1>2, <1>3, <1>4 DEF Plan

\* A call that is sealed by one of the others is so without the first one.
LEMMA SealTail ==
    ASSUME NEW s \in Plan, s # <<>>, NEW h \in Nat, NEW g \in Nat, NEW i \in Nat, NEW t, g >= 2,
           Seal(s, h, g, i, t)
    PROVE  LET before(k) == IF k = 0 THEN 0 ELSE k - 1
           IN  /\ g - 1 \in DOMAIN Tail(s)
               /\ Seal(Tail(s), before(h), g - 1, before(i), t)
<1> DEFINE z == Tail(s)
           b == IF h = 0 THEN 0 ELSE h - 1
           k == IF i = 0 THEN 0 ELSE i - 1
<1>1. /\ Len(s) \in Nat /\ Len(z) = Len(s) - 1 /\ DOMAIN s = 1..Len(s) /\ DOMAIN z = 1..Len(s) - 1
      /\ \A j \in DOMAIN z : z[j] = s[j + 1]
    BY TailPlaces
<1>2. /\ g \in h + 1..Len(s) /\ Is(s[g], "close", t)
      /\ \A m \in h + 1..g : ~ Is(s[m], "create", t)
      /\ \A m \in i + 1..g - 1 : s[m].call \notin {"commit", "close"}
    BY DEF Seal
<1>3. b \in Nat /\ k \in Nat /\ h <= b + 1 /\ i <= k + 1 /\ b + 1 <= g - 1
    BY <1>2
<1> HIDE DEF z, b, k
<1>4. g - 1 \in DOMAIN z /\ g - 1 \in b + 1..Len(z) /\ z[g - 1] = s[g]
    <2>1. g - 1 \in DOMAIN z /\ g - 1 + 1 = g /\ g - 1 \in b + 1..Len(z)
        BY <1>1, <1>2, <1>3
    <2> QED BY <1>1, <2>1
<1>5. ASSUME NEW m \in b + 1..g - 1 PROVE ~ Is(z[m], "create", t)
    <2>1. m \in DOMAIN z /\ m + 1 \in h + 1..g
        BY <1>1, <1>2, <1>3
    <2> QED BY <1>1, <1>2, <2>1
<1>6. ASSUME NEW m \in k + 1..(g - 1) - 1 PROVE z[m].call \notin {"commit", "close"}
    <2>1. m \in DOMAIN z /\ m + 1 \in i + 1..g - 1
        BY <1>1, <1>2, <1>3
    <2> QED BY <1>1, <1>2, <2>1
<1>7. Seal(z, b, g - 1, k, t)
    BY <1>2, <1>4, <1>5, <1>6 DEF Seal
<1> QED BY <1>4, <1>7 DEF z, b, k

\* The rows of the first call and those of the others.
LEMMA TailRows ==
    ASSUME NEW s \in Plan, s # <<>>
    PROVE  /\ Rows(s) = Rows(Tail(s)) \cup (IF Head(s).call = "load" THEN {Head(s).row} ELSE {})
           /\ Distinct(s) => /\ Distinct(Tail(s))
                             /\ Head(s).call = "load" => Head(s).row \notin Rows(Tail(s))
<1> DEFINE z == Tail(s)
<1>1. /\ z \in Plan /\ Head(s) = s[1] /\ Len(s) \in Nat \ {0}
      /\ DOMAIN s = 1..Len(s) /\ DOMAIN z = 1..Len(s) - 1
      /\ \A j \in DOMAIN z : z[j] = s[j + 1]
    BY TailPlaces
<1> HIDE DEF z
<1>2. /\ \A j \in DOMAIN z : j + 1 \in DOMAIN s /\ j + 1 # 1
      /\ \A i \in DOMAIN s : i = 1 \/ (i - 1 \in DOMAIN z /\ z[i - 1] = s[i])
    <2>1. ASSUME NEW i \in DOMAIN s, i # 1 PROVE i - 1 \in DOMAIN z /\ z[i - 1] = s[i]
        <3>1. i - 1 \in DOMAIN z /\ i - 1 + 1 = i
            BY <1>1, <2>1
        <3> QED BY <1>1, <3>1
    <2> QED BY <1>1, <2>1
<1>3. 1 \in DOMAIN s
    BY <1>1
<1>4. \A r : r \in Rows(s) <=> r \in Rows(z) \cup (IF Head(s).call = "load" THEN {Head(s).row} ELSE {})
    BY <1>1, <1>2, <1>3 DEF Rows
<1>5. ASSUME Distinct(s) PROVE Distinct(z)
    BY <1>1, <1>2, <1>5 DEF Distinct
<1>6. ASSUME Distinct(s), Head(s).call = "load", Head(s).row \in Rows(z) PROVE FALSE
    <2>1. PICK j \in DOMAIN z : z[j].call = "load" /\ z[j].row = Head(s).row
        BY <1>6 DEF Rows
    <2>2. s[j + 1] = z[j] /\ j + 1 \in DOMAIN s /\ j + 1 # 1
        BY <1>1, <1>2
    <2> QED BY <1>1, <1>3, <1>6, <2>1, <2>2 DEF Distinct
<1> QED BY <1>4, <1>5, <1>6 DEF z

\* The open loaders after the first call.
LEMMA TailOpens ==
    ASSUME NEW s \in Plan, s # <<>>, NEW b, NEW m \in Nat, NEW e, Opens(s, b, m, e)
    PROVE  /\ b \in 0..m /\ b + Opened(Head(s)) \in 0..m
           /\ Opens(Tail(s), b + Opened(Head(s)), m, e)
<1> DEFINE z == Tail(s)
           n == Len(s)
<1>1. /\ z \in Plan /\ Head(s) = s[1] /\ n \in Nat \ {0} /\ Len(z) = n - 1
      /\ DOMAIN s = 1..n /\ DOMAIN z = 1..n - 1
      /\ \A j \in DOMAIN z : z[j] = s[j + 1]
    BY TailPlaces
<1>2. PICK f \in [0..n -> 0..m] :
          f[0] = b /\ f[n] = e /\ \A i \in 1..n : f[i] = f[i - 1] + Opened(s[i])
    BY DEF Opens
<1> HIDE DEF z, n
<1>3. 0 \in 0..n /\ 1 \in 0..n /\ 1 \in 1..n /\ 1 - 1 = 0
    BY <1>1
<1>4. b \in 0..m /\ f[1] = b + Opened(Head(s)) /\ f[1] \in 0..m
    BY <1>1, <1>2, <1>3
<1> DEFINE g == [i \in 0..n - 1 |-> f[i + 1]]
<1>5. \A i \in 0..n - 1 : i + 1 \in 0..n
    BY <1>1
<1>6. g \in [0..n - 1 -> 0..m]
    BY <1>5
<1>7. \A i \in 0..n - 1 : g[i] = f[i + 1]
    OBVIOUS
<1> HIDE DEF g
<1>8. ASSUME NEW i \in 1..n - 1 PROVE g[i] = g[i - 1] + Opened(z[i])
    <2>1. i \in 0..n - 1 /\ i - 1 \in 0..n - 1 /\ i + 1 \in 1..n /\ (i + 1) - 1 = i /\ i - 1 + 1 = i
          /\ i \in DOMAIN z
        BY <1>1
    <2>2. f[i + 1] = f[(i + 1) - 1] + Opened(s[i + 1])
        BY <1>2, <2>1
    <2>3. g[i] = f[i + 1] /\ g[i - 1] = f[i] /\ z[i] = s[i + 1]
        BY <1>1, <1>7, <2>1
    <2> QED BY <2>1, <2>2, <2>3
<1>9. g[0] = f[1] /\ g[n - 1] = e
    <2>1. 0 \in 0..n - 1 /\ n - 1 \in 0..n - 1 /\ n - 1 + 1 = n /\ 0 + 1 = 1
        BY <1>1
    <2> QED BY <1>2, <1>7, <2>1
<1>10. Opens(z, f[1], m, e)
    BY <1>1, <1>6, <1>8, <1>9 DEF Opens
<1> QED BY <1>4, <1>10 DEF z

-----------------------------------------------------------------------------
(* The invariant.                                                          *)

\* The types of the variables; a buffer has rows of its own table.
Types ==
    /\ config \in Configs /\ runs \in 0..MaxRuns /\ failures \in 0..MaxFailures
    /\ run \in {"idle", "running", "completed", "error", "crashed", "refused"}
    /\ files \subseteq Tables /\ executed \in [Tables -> BOOLEAN]
    /\ todo \in Plan /\ sent \in Seq(AllRows) /\ stored \in [DOMAIN stored -> Nat]
    /\ buffer \in [Tables -> Seq(AllRows)]
    /\ \A t \in Tables : \A r \in Range(buffer[t]) : r[1] = t

\* Nothing is left of a run that has ended.
Idle == ~ Running => /\ sent = <<>> /\ todo = <<>>
                     /\ \A t \in Tables : buffer[t] = <<>>

\* The calls that are left keep the number of open loaders in its bounds.
Loaders == open \in 0..MaxOpen /\ (Running => \E e : Opens(todo, open, MaxOpen, e))

\* A batch that is full does not stay in the buffer.
Batches == \A t \in Tables : Jdbc => Len(buffer[t]) < BatchSize

\* What is pending gets stored: the calls that are left close the loader before
\* they create it again, and commit what the connection has been sent.
Closing ==
    Running =>
        /\ Settles(todo, {})
        /\ \A t \in Tables : buffer[t] # <<>> => \E g \in DOMAIN todo : Seal(todo, 0, g, g, t)
        /\ Jdbc /\ sent # <<>> => \E g \in DOMAIN todo : todo[g].call \in {"commit", "close"}
        /\ ~ Jdbc => sent = <<>>

\* The rows of the run that are not stored yet.
Pending == Range(sent) \cup UNION {Range(buffer[t]) : t \in Tables}

\* Nothing is lost: each row is stored, pending, or loaded by a call that is
\* left.
Rest ==
    /\ DOMAIN stored \subseteq Expected
    /\ Running => Distinct(todo) /\ DOMAIN stored \cup Pending \cup Rows(todo) = Expected

\* The row p is stored no later than what the call i that is left loads, or,
\* when i is 0, no later than what is pending.
Before(i, p) ==
    \/ p \in DOMAIN stored \/ p \in Range(sent)
    \/ /\ p[1] \in Tables /\ p \in Range(buffer[p[1]])
       /\ \E g \in DOMAIN todo : Seal(todo, 0, g, i, p[1])
    \/ First(todo, i, p)

\* What is stored has the rows it refers to, and what is going to be stored will
\* have them.
Families ==
    Jdbc => /\ \A r \in DOMAIN stored : Parents(r) \subseteq DOMAIN stored
            /\ \A r \in Pending : \A p \in Parents(r) : Before(0, p)
            /\ \A i \in DOMAIN todo : todo[i].call = "load" => \A p \in Parents(todo[i].row) : Before(i, p)

\* How often a row is stored, or going to be.
Copies(r) == times(stored, r) + occurrences(sent, r) + occurrences(buffer[r[1]], r)
             + (IF r \in Rows(todo) THEN 1 ELSE 0)

\* A row is stored once; a row without a key once in each run.
Counts ==
    /\ \A r \in AllRows : ~ Jdbc \/ ~ HasKey(r) => Copies(r) <= (IF Jdbc THEN runs ELSE 1)
    /\ Jdbc => \A r \in DOMAIN stored : HasKey(r) => stored[r] = 1

\* What is in the files has not been found by a run.
Found ==
    ~ Jdbc /\ files = {} => /\ DOMAIN stored = {}
                            /\ todo # <<>> => todo[1].call = "create"

\* All of it is inductive together.
IInv == Types /\ Idle /\ Loaders /\ Batches /\ Closing /\ Rest /\ Families /\ Counts /\ Found

\* A step that is the next call of a loader.
ACall == Create \/ LoadJdbc \/ LoadFile \/ Commit \/ CloseJdbc \/ CloseFile

\* What a call of a loader does to the run, and the types of what it changes.
LEMMA CallTypesStep ==
    ASSUME Types, ACall
    PROVE  /\ Running /\ todo # <<>> /\ todo' = Tail(todo) /\ UNCHANGED <<config, run, runs, failures>>
           /\ Head(todo) \in Call /\ table \in Tables
           /\ open \in Int => open' = open + Opened(Head(todo))
           /\ files \subseteq files' /\ files' \subseteq Tables /\ executed' \in [Tables -> BOOLEAN]
           /\ \A u \in Tables : u # table => buffer'[u] = buffer[u]
           /\ Head(todo).call = "load" => Head(todo).row \in AllRows /\ Head(todo).row[1] = table
<1>1. todo # <<>> /\ Running /\ todo' = Tail(todo) /\ UNCHANGED <<config, run, runs, failures>>
    BY DEF ACall, Create, LoadJdbc, LoadFile, Commit, CloseJdbc, CloseFile, Next_, done
<1>2. Head(todo) \in Call
    BY <1>1, TailPlaces DEF Types
<1>3. table \in Tables /\ (Head(todo).call = "load" => Head(todo).row \in AllRows /\ Head(todo).row[1] = table)
    BY <1>2, CallTypes DEF table
<1>4. open \in Int => open' = open + Opened(Head(todo))
    <2>1. open' = open + Opened(Head(todo)) \/ (open' = open /\ Opened(Head(todo)) = 0)
        BY DEF ACall, Create, LoadJdbc, LoadFile, Commit, CloseJdbc, CloseFile, Next_, Opened
    <2> QED BY <2>1
<1>5. files \subseteq files' /\ files' \subseteq Tables
    BY <1>3 DEF ACall, Create, LoadJdbc, LoadFile, Commit, CloseJdbc, CloseFile, Types
<1>6. executed' \in [Tables -> BOOLEAN]
    BY DEF ACall, Create, LoadJdbc, LoadFile, Commit, CloseJdbc, CloseFile, Types, executeBulkInsert
<1>7. \A u \in Tables : u # table => buffer'[u] = buffer[u]
    BY DEF ACall, Create, LoadJdbc, LoadFile, Commit, CloseJdbc, CloseFile, Types, executeBulkInsert
<1> QED BY <1>1, <1>2, <1>3, <1>4, <1>5, <1>6, <1>7

\* There is nothing in the buffer of a loader that is created.
LEMMA CreatedEmpty ==
    ASSUME Types, Closing, Create
    PROVE  buffer[table] = <<>>
<1>1. Running /\ todo # <<>> /\ Head(todo).call = "create" /\ table \in Tables /\ todo \in Plan
    BY CallTypesStep DEF ACall, Create, Next_, Types
<1>2. SUFFICES ASSUME buffer[table] # <<>> PROVE FALSE
    OBVIOUS
<1>3. PICK g \in DOMAIN todo : Seal(todo, 0, g, g, table)
    BY <1>1, <1>2 DEF Closing
<1>4. g \in Nat /\ 1 \in 0 + 1..g /\ Head(todo) = todo[1]
    BY <1>1, TailPlaces
<1>5. ~ Is(todo[1], "create", table)
    BY <1>3, <1>4 DEF Seal
<1> QED BY <1>1, <1>4, <1>5 DEF Is, table

\* The rows of the buffer, with the row that is loaded.
LEMMA RowAdded ==
    ASSUME Types, ACall, Head(todo).call = "load",
           NEW rows, rows = Append(buffer[table], Head(todo).row)
    PROVE  /\ rows \in Seq(AllRows) /\ rows # <<>>
           /\ Len(rows) = Len(buffer[table]) + 1 /\ Len(buffer[table]) \in Nat
           /\ Range(rows) = Range(buffer[table]) \cup {Head(todo).row}
           /\ \A r \in Range(rows) : r[1] = table
           /\ \A r : occurrences(rows, r) = occurrences(buffer[table], r) + (IF Head(todo).row = r THEN 1 ELSE 0)
<1>1. /\ table \in Tables /\ Head(todo).row \in AllRows /\ Head(todo).row[1] = table
      /\ buffer[table] \in Seq(AllRows)
    BY CallTypesStep DEF Types
<1>2. \A r \in Range(buffer[table]) : r[1] = table
    BY <1>1 DEF Types
<1> QED BY <1>1, <1>2, OneMoreRow

\* What each call does with the rows that are stored, sent and in the buffer of
\* the table.
Moved ==
    LET x == Head(todo)
        D == DOMAIN stored
        S == Range(sent)
        B == Range(buffer[table])
    IN  \/ /\ x.call = "create" /\ buffer' = buffer /\ UNCHANGED <<sent, stored>>
        \/ /\ x.call = "load" /\ UNCHANGED <<sent, stored>>
           /\ Range(buffer'[table]) = B \cup {x.row}
           /\ Jdbc => Len(buffer'[table]) < BatchSize
        \/ /\ x.call = "load" /\ Jdbc /\ UNCHANGED stored
           /\ Range(sent') = S \cup B \cup {x.row} /\ buffer'[table] = <<>>
        \/ /\ x.call = "load" /\ ~ Jdbc /\ UNCHANGED sent
           /\ DOMAIN stored' = D \cup B \cup {x.row} /\ buffer'[table] = <<>>
        \/ /\ x.call = "commit" /\ Jdbc /\ buffer' = buffer
           /\ DOMAIN stored' = D \cup S /\ sent' = <<>>
        \/ /\ x.call = "commit" /\ ~ Jdbc /\ buffer' = buffer /\ UNCHANGED <<sent, stored>>
        \/ /\ x.call = "close" /\ Jdbc
           /\ DOMAIN stored' = D \cup S \cup B /\ sent' = <<>> /\ buffer'[table] = <<>>
        \/ /\ x.call = "close" /\ ~ Jdbc /\ UNCHANGED sent
           /\ DOMAIN stored' = D \cup B /\ buffer'[table] = <<>>

\* Of a row that is not skipped as a duplicate, no copy is lost or made.
Conserved ==
    \A r \in AllRows :
        ~ Jdbc \/ ~ HasKey(r) =>
            times(stored', r) + occurrences(sent', r) + occurrences(buffer'[r[1]], r)
            = times(stored, r) + occurrences(sent, r) + occurrences(buffer[r[1]], r)
              + (IF Head(todo).call = "load" /\ Head(todo).row = r THEN 1 ELSE 0)

\* Rows with a key are stored once.
OnceStep ==
    Jdbc => \A r \in DOMAIN stored' : HasKey(r) => stored'[r] = IF r \in DOMAIN stored THEN stored[r] ELSE 1

\* The types of the rows after the step.
TypesAfter ==
    /\ sent' \in Seq(AllRows) /\ stored' \in [DOMAIN stored' -> Nat]
    /\ buffer' \in [Tables -> Seq(AllRows)]
    /\ \A t \in Tables : \A r \in Range(buffer'[t]) : r[1] = t

\* The counts of rows are numbers.
LEMMA CopiesNat ==
    ASSUME Types, NEW r \in AllRows
    PROVE  /\ times(stored, r) \in Nat /\ occurrences(sent, r) \in Nat /\ r[1] \in Tables
           /\ occurrences(buffer[r[1]], r) \in Nat
           /\ \A t \in Tables : t # r[1] => occurrences(buffer[t], r) = 0
           /\ occurrences(<<>>, r) = 0
<1>1. r[1] \in Tables
    BY RowTable
<1>2. times(stored, r) \in Nat
    BY DEF times, Types
<1>3. occurrences(sent, r) \in Nat /\ occurrences(<<>>, r) = 0
    BY RowsCounted DEF Types
<1>4. buffer[r[1]] \in Seq(AllRows)
    BY <1>1 DEF Types
<1>5. ASSUME NEW t \in Tables, t # r[1] PROVE occurrences(buffer[t], r) = 0
    <2>1. r \notin Range(buffer[t]) /\ buffer[t] \in Seq(AllRows)
        BY <1>5 DEF Types
    <2> QED BY <2>1, RowsCounted
<1> QED BY <1>1, <1>2, <1>3, <1>4, <1>5, RowsCounted

\* A buffer that gets other rows of its table.
LEMMA BufferMoves ==
    ASSUME Types, ACall, NEW rows, rows \in Seq(AllRows), \A r \in Range(rows) : r[1] = table,
           buffer' = [buffer EXCEPT ![table] = rows]
    PROVE  /\ buffer' \in [Tables -> Seq(AllRows)] /\ buffer'[table] = rows
           /\ \A t \in Tables : \A r \in Range(buffer'[t]) : r[1] = t
           /\ \A r \in AllRows : occurrences(buffer'[r[1]], r)
                                 = IF r[1] = table THEN occurrences(rows, r) ELSE occurrences(buffer[r[1]], r)
<1>1. table \in Tables /\ buffer \in [Tables -> Seq(AllRows)]
    BY CallTypesStep DEF Types
<1>2. buffer' \in [Tables -> Seq(AllRows)] /\ buffer'[table] = rows
    BY <1>1
<1>3. \A t \in Tables : \A r \in Range(buffer'[t]) : r[1] = t
    BY <1>1 DEF Types
<1>4. \A r \in AllRows : r[1] \in Tables
    BY RowTable
<1>5. \A r \in AllRows : r[1] # table => buffer'[r[1]] = buffer[r[1]]
    BY <1>1, <1>4
<1>6. \A r \in AllRows : r[1] = table => buffer'[r[1]] = rows
    BY <1>2
<1> HIDE DEF Types
<1> QED BY <1>2, <1>3, <1>5, <1>6

\* The empty sequence of rows.
LEMMA NoRowsLeft ==
    <<>> \in Seq(AllRows) /\ Range(<<>>) = {} /\ \A r : occurrences(<<>>, r) = 0
<1>1. <<>> \in Seq(AllRows)
    OBVIOUS
<1> QED BY <1>1, RowsCounted

\* What the lemmas below show of each call.
Moves == Moved /\ Conserved /\ OnceStep /\ TypesAfter

\* A loader is made: its buffer was empty before.
LEMMA CreateMoves ==
    ASSUME Types, Closing, Create
    PROVE  Moves
<1>1. buffer[table] = <<>> /\ table \in Tables /\ buffer \in [Tables -> Seq(AllRows)]
    BY CreatedEmpty, CallTypesStep DEF ACall, Types
<1>2. buffer' = buffer
    <2>1. buffer' = [buffer EXCEPT ![table] = <<>>]
        BY DEF Create
    <2>2. [buffer EXCEPT ![table] = buffer[table]] = buffer
        BY <1>1
    <2> QED BY <1>1, <2>1, <2>2
<1>3. Head(todo).call = "create" /\ UNCHANGED <<sent, stored>>
    BY DEF Create, Next_
<1>4. Moved
    BY <1>2, <1>3 DEF Moved
<1>5. Conserved
    <2> SUFFICES ASSUME NEW r \in AllRows
                 PROVE  times(stored', r) + occurrences(sent', r) + occurrences(buffer'[r[1]], r)
                        = times(stored, r) + occurrences(sent, r) + occurrences(buffer[r[1]], r) + 0
        BY <1>3 DEF Conserved
    <2> QED BY <1>2, <1>3, CopiesNat
<1>6. OnceStep /\ TypesAfter
    BY <1>2, <1>3 DEF OnceStep, TypesAfter, Types
<1> QED BY <1>4, <1>5, <1>6 DEF Moves

\* A row goes to the batch, and the batch is sent when it is full.
LEMMA LoadJdbcMoves ==
    ASSUME Types, Batches, LoadJdbc
    PROVE  Moves
<1> DEFINE x == Head(todo)
           rows == Append(buffer[table], x.row)
<1>1. ACall /\ x.call = "load" /\ Jdbc /\ UNCHANGED stored
    BY DEF ACall, LoadJdbc, Next_
<1>2. /\ rows \in Seq(AllRows) /\ rows # <<>>
      /\ Len(rows) = Len(buffer[table]) + 1 /\ Len(buffer[table]) \in Nat
      /\ Range(rows) = Range(buffer[table]) \cup {x.row}
      /\ \A r \in Range(rows) : r[1] = table
      /\ \A r : occurrences(rows, r) = occurrences(buffer[table], r) + (IF x.row = r THEN 1 ELSE 0)
    BY <1>1, RowAdded
<1>3. /\ table \in Tables /\ x.row \in AllRows /\ x.row[1] = table /\ buffer[table] \in Seq(AllRows)
      /\ sent \in Seq(AllRows) /\ BatchSize \in Nat /\ Len(buffer[table]) < BatchSize
    BY <1>1, CallTypesStep, LoadAssumption DEF Types, Batches
<1>4. \/ Len(rows) = BatchSize /\ sent' = sent \o rows /\ buffer' = [buffer EXCEPT ![table] = <<>>]
      \/ Len(rows) # BatchSize /\ sent' = sent /\ buffer' = [buffer EXCEPT ![table] = rows]
    BY DEF LoadJdbc, executeBulkInsert
<1>5. \A r \in AllRows : /\ times(stored, r) \in Nat /\ occurrences(sent, r) \in Nat
                         /\ occurrences(buffer[r[1]], r) \in Nat
                         /\ r[1] # table => occurrences(buffer[table], r) = 0 /\ x.row # r
    BY <1>3, CopiesNat
<1> HIDE DEF rows, x
<1>6. CASE sent' = sent \o rows /\ buffer' = [buffer EXCEPT ![table] = <<>>]
    <2>1. /\ sent' \in Seq(AllRows) /\ Range(sent') = Range(sent) \cup Range(rows)
          /\ \A r : occurrences(sent', r) = occurrences(sent, r) + occurrences(rows, r)
        BY <1>2, <1>3, <1>6, MoreRows
    <2>2. /\ buffer' \in [Tables -> Seq(AllRows)] /\ buffer'[table] = <<>>
          /\ \A t \in Tables : \A r \in Range(buffer'[t]) : r[1] = t
          /\ \A r \in AllRows : occurrences(buffer'[r[1]], r)
                                = IF r[1] = table THEN occurrences(<<>>, r) ELSE occurrences(buffer[r[1]], r)
        <3>1. <<>> \in Seq(AllRows) /\ \A r \in Range(<<>>) : r[1] = table
            BY NoRowsLeft
        <3> QED BY <1>1, <1>6, <3>1, BufferMoves
    <2>3. Moved
        BY <1>1, <1>2, <2>1, <2>2 DEF Moved, x
    <2>4. Conserved
        <3> SUFFICES ASSUME NEW r \in AllRows
                     PROVE  times(stored, r) + occurrences(sent', r) + occurrences(buffer'[r[1]], r)
                            = times(stored, r) + occurrences(sent, r) + occurrences(buffer[r[1]], r)
                              + (IF x.row = r THEN 1 ELSE 0)
            BY <1>1 DEF Conserved, x
        <3>1. occurrences(<<>>, r) = 0 /\ occurrences(rows, r) = occurrences(buffer[table], r) + (IF x.row = r THEN 1 ELSE 0)
            BY <1>2, NoRowsLeft
        <3>2. occurrences(sent', r) = occurrences(sent, r) + occurrences(rows, r)
            BY <2>1
        <3>3. CASE r[1] = table
            <4>1. occurrences(buffer'[r[1]], r) = 0 /\ occurrences(buffer[table], r) = occurrences(buffer[r[1]], r)
                BY <2>2, <3>1, <3>3
            <4> QED BY <1>5, <3>1, <3>2, <4>1
        <3>4. CASE r[1] # table
            <4>1. occurrences(buffer'[r[1]], r) = occurrences(buffer[r[1]], r)
                BY <2>2, <3>4
            <4> QED BY <1>5, <3>1, <3>2, <3>4, <4>1
        <3> QED BY <3>3, <3>4
    <2>5. OnceStep /\ TypesAfter
        BY <1>1, <2>1, <2>2, CallTypesStep DEF OnceStep, TypesAfter, Types
    <2> QED BY <2>3, <2>4, <2>5 DEF Moves
<1>7. CASE Len(rows) # BatchSize /\ sent' = sent /\ buffer' = [buffer EXCEPT ![table] = rows]
    <2>1. /\ buffer' \in [Tables -> Seq(AllRows)] /\ buffer'[table] = rows
          /\ \A t \in Tables : \A r \in Range(buffer'[t]) : r[1] = t
          /\ \A r \in AllRows : occurrences(buffer'[r[1]], r)
                                = IF r[1] = table THEN occurrences(rows, r) ELSE occurrences(buffer[r[1]], r)
        BY <1>1, <1>2, <1>7, BufferMoves
    <2>2. Moved
        <3>1. Len(rows) < BatchSize
            BY <1>2, <1>3, <1>7
        <3> QED BY <1>1, <1>2, <1>7, <2>1, <3>1 DEF Moved, x
    <2>3. Conserved
        <3> SUFFICES ASSUME NEW r \in AllRows
                     PROVE  times(stored, r) + occurrences(sent, r) + occurrences(buffer'[r[1]], r)
                            = times(stored, r) + occurrences(sent, r) + occurrences(buffer[r[1]], r)
                              + (IF x.row = r THEN 1 ELSE 0)
            BY <1>1, <1>7 DEF Conserved, x
        <3>1. CASE r[1] = table
            <4>1. occurrences(buffer'[r[1]], r) = occurrences(buffer[r[1]], r) + (IF x.row = r THEN 1 ELSE 0)
                BY <1>2, <2>1, <3>1
            <4> QED BY <1>5, <4>1
        <3>2. CASE r[1] # table
            <4>1. occurrences(buffer'[r[1]], r) = occurrences(buffer[r[1]], r) /\ x.row # r
                BY <1>5, <2>1, <3>2
            <4> QED BY <1>5, <4>1
        <3> QED BY <3>1, <3>2
    <2>4. OnceStep /\ TypesAfter
        BY <1>1, <1>7, <2>1 DEF OnceStep, TypesAfter, Types
    <2> QED BY <2>2, <2>3, <2>4 DEF Moves
<1> QED BY <1>4, <1>6, <1>7

\* Rows that get stored.
LEMMA StoreMoves ==
    ASSUME Types, NEW rows \in Seq(AllRows), NEW ignore \in BOOLEAN, stored' = Added(stored, rows, ignore)
    PROVE  /\ stored' \in [DOMAIN stored' -> Nat] /\ DOMAIN stored' = DOMAIN stored \cup Range(rows)
           /\ \A r : ~ ignore \/ ~ HasKey(r) => times(stored', r) = times(stored, r) + occurrences(rows, r)
           /\ \A r \in DOMAIN stored' :
                  ignore /\ HasKey(r) => stored'[r] = IF r \in DOMAIN stored THEN stored[r] ELSE 1
<1>1. stored \in [DOMAIN stored -> Nat]
    BY DEF Types
<1>2. Joined(Added(stored, rows, ignore), stored, rows, ignore)
    BY ONLY <1>1, AddedRows, rows \in Seq(AllRows), ignore \in BOOLEAN
<1>3. Joined(stored', stored, rows, ignore)
    BY ONLY <1>2, stored' = Added(stored, rows, ignore)
<1> HIDE DEF Types
<1> QED BY ONLY <1>3 DEF Joined

\* A row goes to the buffer of the file, which may be written.
LEMMA LoadFileMoves ==
    ASSUME Types, LoadFile
    PROVE  Moves
<1> DEFINE x == Head(todo)
           rows == Append(buffer[table], x.row)
<1>1. ACall /\ x.call = "load" /\ ~ Jdbc /\ sent' = sent
    BY DEF ACall, LoadFile, Next_
<1>2. /\ rows \in Seq(AllRows)
      /\ Range(rows) = Range(buffer[table]) \cup {x.row}
      /\ \A r \in Range(rows) : r[1] = table
      /\ \A r : occurrences(rows, r) = occurrences(buffer[table], r) + (IF x.row = r THEN 1 ELSE 0)
    BY <1>1, RowAdded
<1>3. table \in Tables /\ x.row[1] = table
    BY <1>1, CallTypesStep
<1>4. \/ buffer' = [buffer EXCEPT ![table] = rows] /\ stored' = stored
      \/ buffer' = [buffer EXCEPT ![table] = <<>>] /\ stored' = Added(stored, rows, FALSE)
    BY DEF LoadFile
<1>5. \A r \in AllRows : /\ times(stored, r) \in Nat /\ occurrences(sent, r) \in Nat
                         /\ occurrences(buffer[r[1]], r) \in Nat
                         /\ r[1] # table => occurrences(buffer[table], r) = 0 /\ x.row # r
    BY <1>3, CopiesNat
<1>6. OnceStep
    BY <1>1 DEF OnceStep
<1> HIDE DEF rows, x
<1>7. CASE buffer' = [buffer EXCEPT ![table] = rows] /\ stored' = stored
    <2>1. /\ buffer' \in [Tables -> Seq(AllRows)] /\ buffer'[table] = rows
          /\ \A t \in Tables : \A r \in Range(buffer'[t]) : r[1] = t
          /\ \A r \in AllRows : occurrences(buffer'[r[1]], r)
                                = IF r[1] = table THEN occurrences(rows, r) ELSE occurrences(buffer[r[1]], r)
        BY <1>1, <1>2, <1>7, BufferMoves
    <2>2. Moved
        BY <1>1, <1>2, <1>7, <2>1 DEF Moved, x
    <2>3. Conserved
        <3> SUFFICES ASSUME NEW r \in AllRows
                     PROVE  times(stored, r) + occurrences(sent, r) + occurrences(buffer'[r[1]], r)
                            = times(stored, r) + occurrences(sent, r) + occurrences(buffer[r[1]], r)
                              + (IF x.row = r THEN 1 ELSE 0)
            BY <1>1, <1>7 DEF Conserved, x
        <3>1. CASE r[1] = table
            <4>1. occurrences(buffer'[r[1]], r) = occurrences(buffer[r[1]], r) + (IF x.row = r THEN 1 ELSE 0)
                BY <1>2, <2>1, <3>1
            <4> QED BY <1>5, <4>1
        <3>2. CASE r[1] # table
            <4>1. occurrences(buffer'[r[1]], r) = occurrences(buffer[r[1]], r) /\ x.row # r
                BY <1>5, <2>1, <3>2
            <4> QED BY <1>5, <4>1
        <3> QED BY <3>1, <3>2
    <2>4. TypesAfter
        BY <1>1, <1>7, <2>1 DEF TypesAfter, Types
    <2> QED BY <1>6, <2>2, <2>3, <2>4 DEF Moves
<1>8. CASE buffer' = [buffer EXCEPT ![table] = <<>>] /\ stored' = Added(stored, rows, FALSE)
    <2>1. /\ buffer' \in [Tables -> Seq(AllRows)] /\ buffer'[table] = <<>>
          /\ \A t \in Tables : \A r \in Range(buffer'[t]) : r[1] = t
          /\ \A r \in AllRows : occurrences(buffer'[r[1]], r)
                                = IF r[1] = table THEN occurrences(<<>>, r) ELSE occurrences(buffer[r[1]], r)
        <3>1. <<>> \in Seq(AllRows) /\ \A r \in Range(<<>>) : r[1] = table
            BY NoRowsLeft
        <3> QED BY <1>1, <1>8, <3>1, BufferMoves
    <2>2. /\ stored' \in [DOMAIN stored' -> Nat] /\ DOMAIN stored' = DOMAIN stored \cup Range(rows)
          /\ \A r : times(stored', r) = times(stored, r) + occurrences(rows, r)
        <3>1. FALSE \in BOOLEAN
            OBVIOUS
        <3> QED BY <1>2, <1>8, <3>1, StoreMoves
    <2>3. Moved
        BY <1>1, <1>2, <2>1, <2>2 DEF Moved, x
    <2>4. Conserved
        <3> SUFFICES ASSUME NEW r \in AllRows
                     PROVE  times(stored', r) + occurrences(sent, r) + occurrences(buffer'[r[1]], r)
                            = times(stored, r) + occurrences(sent, r) + occurrences(buffer[r[1]], r)
                              + (IF x.row = r THEN 1 ELSE 0)
            BY <1>1 DEF Conserved, x
        <3>1. /\ occurrences(<<>>, r) = 0
              /\ occurrences(rows, r) = occurrences(buffer[table], r) + (IF x.row = r THEN 1 ELSE 0)
              /\ times(stored', r) = times(stored, r) + occurrences(rows, r)
            BY <1>2, <2>2, NoRowsLeft
        <3>2. CASE r[1] = table
            <4>1. occurrences(buffer'[r[1]], r) = 0 /\ occurrences(buffer[table], r) = occurrences(buffer[r[1]], r)
                BY <2>1, <3>1, <3>2
            <4> QED BY <1>5, <3>1, <4>1
        <3>3. CASE r[1] # table
            <4>1. occurrences(buffer'[r[1]], r) = occurrences(buffer[r[1]], r)
                BY <2>1, <3>3
            <4> QED BY <1>5, <3>1, <3>3, <4>1
        <3> QED BY <3>2, <3>3
    <2>5. TypesAfter
        BY <1>1, <2>1, <2>2 DEF TypesAfter, Types
    <2> QED BY <1>6, <2>3, <2>4, <2>5 DEF Moves
<1> QED BY <1>4, <1>7, <1>8

\* What has been sent is stored.
LEMMA CommitMoves ==
    ASSUME Types, Commit
    PROVE  Moves
<1>1. /\ Head(todo).call = "commit" /\ buffer' = buffer /\ sent \in Seq(AllRows)
      /\ buffer \in [Tables -> Seq(AllRows)] /\ \A t \in Tables : \A r \in Range(buffer[t]) : r[1] = t
    BY DEF Commit, Next_, Types
<1>2. CASE Jdbc
    <2>1. stored' = Added(stored, sent, TRUE) /\ sent' = <<>>
        BY <1>2 DEF Commit
    <2>2. /\ stored' \in [DOMAIN stored' -> Nat] /\ DOMAIN stored' = DOMAIN stored \cup Range(sent)
          /\ \A r : ~ HasKey(r) => times(stored', r) = times(stored, r) + occurrences(sent, r)
          /\ \A r \in DOMAIN stored' :
                 HasKey(r) => stored'[r] = IF r \in DOMAIN stored THEN stored[r] ELSE 1
        <3>1. TRUE \in BOOLEAN
            OBVIOUS
        <3> QED BY <1>1, <2>1, <3>1, StoreMoves
    <2>3. Moved
        BY <1>1, <1>2, <2>1, <2>2 DEF Moved
    <2>4. Conserved
        <3> SUFFICES ASSUME NEW r \in AllRows, ~ HasKey(r)
                     PROVE  times(stored', r) + occurrences(<<>>, r) + occurrences(buffer[r[1]], r)
                            = times(stored, r) + occurrences(sent, r) + occurrences(buffer[r[1]], r) + 0
            BY <1>1, <1>2, <2>1 DEF Conserved
        <3> QED BY <2>2, CopiesNat
    <2>5. OnceStep /\ TypesAfter
        BY <1>1, <2>1, <2>2, NoRowsLeft DEF OnceStep, TypesAfter
    <2> QED BY <2>3, <2>4, <2>5 DEF Moves
<1>3. CASE ~ Jdbc
    <2>1. stored' = stored /\ sent' = sent
        BY <1>3 DEF Commit
    <2>2. Moved
        BY <1>1, <1>3, <2>1 DEF Moved
    <2>3. Conserved
        <3> SUFFICES ASSUME NEW r \in AllRows
                     PROVE  times(stored, r) + occurrences(sent, r) + occurrences(buffer[r[1]], r)
                            = times(stored, r) + occurrences(sent, r) + occurrences(buffer[r[1]], r) + 0
            BY <1>1, <2>1 DEF Conserved
        <3> QED BY CopiesNat
    <2>4. OnceStep /\ TypesAfter
        BY <1>1, <1>3, <2>1 DEF OnceStep, TypesAfter, Types
    <2> QED BY <2>2, <2>3, <2>4 DEF Moves
<1> QED BY <1>2, <1>3

\* The rest of the buffer and what has been sent are stored.
LEMMA CloseMoves ==
    ASSUME Types, CloseJdbc \/ CloseFile
    PROVE  Moves
<1>1. /\ ACall /\ Head(todo).call = "close" /\ sent \in Seq(AllRows)
      /\ buffer' = [buffer EXCEPT ![table] = <<>>]
    BY DEF ACall, CloseJdbc, CloseFile, Next_, Types
<1>2. table \in Tables /\ buffer[table] \in Seq(AllRows) /\ TRUE \in BOOLEAN /\ FALSE \in BOOLEAN
    BY <1>1, CallTypesStep DEF Types
<1>3. /\ buffer' \in [Tables -> Seq(AllRows)] /\ buffer'[table] = <<>>
      /\ \A t \in Tables : \A r \in Range(buffer'[t]) : r[1] = t
      /\ \A r \in AllRows : occurrences(buffer'[r[1]], r)
                            = IF r[1] = table THEN occurrences(<<>>, r) ELSE occurrences(buffer[r[1]], r)
    <2>1. <<>> \in Seq(AllRows) /\ \A r \in Range(<<>>) : r[1] = table
        BY NoRowsLeft
    <2> QED BY <1>1, <2>1, BufferMoves
<1>4. \A r \in AllRows : /\ times(stored, r) \in Nat /\ occurrences(sent, r) \in Nat
                         /\ occurrences(buffer[r[1]], r) \in Nat /\ occurrences(<<>>, r) = 0
                         /\ r[1] # table => occurrences(buffer[table], r) = 0
    BY <1>2, CopiesNat
<1>5. CASE CloseJdbc
    <2> DEFINE rows == sent \o buffer[table]
    <2>1. Jdbc /\ stored' = Added(stored, rows, TRUE) /\ sent' = <<>>
        BY <1>5 DEF CloseJdbc
    <2>2. /\ rows \in Seq(AllRows) /\ Range(rows) = Range(sent) \cup Range(buffer[table])
          /\ \A r : occurrences(rows, r) = occurrences(sent, r) + occurrences(buffer[table], r)
        BY <1>1, <1>2, MoreRows
    <2> HIDE DEF rows
    <2>3. /\ stored' \in [DOMAIN stored' -> Nat] /\ DOMAIN stored' = DOMAIN stored \cup Range(rows)
          /\ \A r : ~ HasKey(r) => times(stored', r) = times(stored, r) + occurrences(rows, r)
          /\ \A r \in DOMAIN stored' :
                 HasKey(r) => stored'[r] = IF r \in DOMAIN stored THEN stored[r] ELSE 1
        BY <1>2, <2>1, <2>2, StoreMoves
    <2>4. Moved
        <3>1. DOMAIN stored' = DOMAIN stored \cup Range(sent) \cup Range(buffer[table])
            BY <2>2, <2>3
        <3> QED BY <1>1, <1>3, <2>1, <3>1 DEF Moved
    <2>5. Conserved
        <3> SUFFICES ASSUME NEW r \in AllRows, ~ HasKey(r)
                     PROVE  times(stored', r) + occurrences(<<>>, r) + occurrences(buffer'[r[1]], r)
                            = times(stored, r) + occurrences(sent, r) + occurrences(buffer[r[1]], r) + 0
            BY <1>1, <2>1 DEF Conserved
        <3>1. times(stored', r) = times(stored, r) + (occurrences(sent, r) + occurrences(buffer[table], r))
            BY <2>2, <2>3
        <3>2. CASE r[1] = table
            <4>1. occurrences(buffer'[r[1]], r) = 0 /\ occurrences(buffer[table], r) = occurrences(buffer[r[1]], r)
                BY <1>3, <1>4, <3>2
            <4> QED BY <1>4, <3>1, <4>1
        <3>3. CASE r[1] # table
            <4>1. occurrences(buffer'[r[1]], r) = occurrences(buffer[r[1]], r)
                BY <1>3, <3>3
            <4> QED BY <1>4, <3>1, <3>3, <4>1
        <3> QED BY <3>2, <3>3
    <2>6. OnceStep /\ TypesAfter
        BY <1>3, <2>1, <2>3, NoRowsLeft DEF OnceStep, TypesAfter
    <2> QED BY <2>4, <2>5, <2>6 DEF Moves
<1>6. CASE CloseFile
    <2>1. ~ Jdbc /\ stored' = Added(stored, buffer[table], FALSE) /\ sent' = sent
        BY <1>6 DEF CloseFile
    <2>2. /\ stored' \in [DOMAIN stored' -> Nat] /\ DOMAIN stored' = DOMAIN stored \cup Range(buffer[table])
          /\ \A r : times(stored', r) = times(stored, r) + occurrences(buffer[table], r)
        BY <1>2, <2>1, StoreMoves
    <2>3. Moved
        BY <1>1, <1>3, <2>1, <2>2 DEF Moved
    <2>4. Conserved
        <3> SUFFICES ASSUME NEW r \in AllRows
                     PROVE  times(stored', r) + occurrences(sent, r) + occurrences(buffer'[r[1]], r)
                            = times(stored, r) + occurrences(sent, r) + occurrences(buffer[r[1]], r) + 0
            BY <1>1, <2>1 DEF Conserved
        <3>1. times(stored', r) = times(stored, r) + occurrences(buffer[table], r)
            BY <2>2
        <3>2. CASE r[1] = table
            <4>1. occurrences(buffer'[r[1]], r) = 0 /\ occurrences(buffer[table], r) = occurrences(buffer[r[1]], r)
                BY <1>3, <1>4, <3>2
            <4> QED BY <1>4, <3>1, <4>1
        <3>3. CASE r[1] # table
            <4>1. occurrences(buffer'[r[1]], r) = occurrences(buffer[r[1]], r)
                BY <1>3, <3>3
            <4> QED BY <1>4, <3>1, <3>3, <4>1
        <3> QED BY <3>2, <3>3
    <2>5. OnceStep /\ TypesAfter
        BY <1>1, <1>3, <2>1, <2>2 DEF OnceStep, TypesAfter
    <2> QED BY <2>3, <2>4, <2>5 DEF Moves
<1> QED BY <1>5, <1>6

\* Every call of a loader.
LEMMA CallMoves ==
    ASSUME Types, Closing, Batches, ACall
    PROVE  Moves
    BY CreateMoves, LoadJdbcMoves, LoadFileMoves, CommitMoves, CloseMoves DEF ACall

\* What is settled with the first call is settled without it, and the row that
\* the first call loads is closed by one of the others.
LEMMA TailSettles ==
    ASSUME NEW s \in Plan, s # <<>>, Settles(s, {})
    PROVE  /\ Settles(Tail(s), {})
           /\ Head(s).call = "load" => \E g \in DOMAIN Tail(s) : Seal(Tail(s), 0, g, g, Head(s).table)
<1> DEFINE z == Tail(s)
<1>1. /\ z \in Plan /\ Head(s) = s[1] /\ Len(s) \in Nat \ {0}
      /\ DOMAIN s = 1..Len(s) /\ DOMAIN z = 1..Len(s) - 1
      /\ \A j \in DOMAIN z : z[j] = s[j + 1]
    BY TailPlaces
<1>2. ASSUME NEW h \in DOMAIN s, s[h].call = "load"
      PROVE  \E g \in DOMAIN z : Seal(z, h - 1, g, g, s[h].table)
    <2>1. PICK g \in DOMAIN s : Seal(s, h, g, g, s[h].table)
        BY <1>2 DEF Settles
    <2>2. g \in Nat /\ h \in Nat \ {0} /\ g >= 2
        BY <1>1, <2>1 DEF Seal
    <2>3. g - 1 \in DOMAIN z /\ Seal(z, IF h = 0 THEN 0 ELSE h - 1, g - 1, IF g = 0 THEN 0 ELSE g - 1, s[h].table)
        BY <2>1, <2>2, SealTail
    <2>4. Seal(z, h - 1, g - 1, g - 1, s[h].table)
        BY <2>2, <2>3
    <2> QED BY <2>3, <2>4
<1> HIDE DEF z
<1>3. ASSUME NEW h \in DOMAIN z, z[h].call = "load"
      PROVE  \E g \in DOMAIN z : Seal(z, h, g, g, z[h].table)
    <2>1. h + 1 \in DOMAIN s /\ (h + 1) - 1 = h /\ s[h + 1] = z[h]
        BY <1>1
    <2> QED BY <1>2, <1>3, <2>1
<1>4. Settles(z, {})
    BY <1>3 DEF Settles
<1>5. Head(s).call = "load" => \E g \in DOMAIN z : Seal(z, 0, g, g, Head(s).table)
    <2>1. 1 \in DOMAIN s /\ 1 - 1 = 0
        BY <1>1
    <2> QED BY <1>1, <1>2, <2>1
<1> QED BY <1>4, <1>5 DEF z

\* A buffer that another call than the first closes.
LEMMA SealLater ==
    ASSUME Types, todo # <<>>, NEW g \in DOMAIN todo, NEW i \in Nat, NEW t,
           Seal(todo, 0, g, i, t), ~ Is(Head(todo), "close", t)
    PROVE  /\ g \in Nat /\ g >= 2 /\ g - 1 \in DOMAIN Tail(todo)
           /\ Seal(Tail(todo), 0, g - 1, IF i = 0 THEN 0 ELSE i - 1, t)
<1>1. todo \in Plan /\ Head(todo) = todo[1] /\ DOMAIN todo = 1..Len(todo) /\ Len(todo) \in Nat
    BY TailPlaces DEF Types
<1>2. g \in Nat /\ g >= 1 /\ g # 1
    BY <1>1 DEF Seal
<1> QED BY <1>1, <1>2, SealTail

\* After a call of a loader, what is pending is going to be stored.
LEMMA CallClosing ==
    ASSUME Types, Closing, Moved, ACall
    PROVE  Closing'
<1>1. /\ Running /\ todo # <<>> /\ todo' = Tail(todo) /\ UNCHANGED <<config, run>>
      /\ table \in Tables /\ todo \in Plan
      /\ \A u \in Tables : u # table => buffer'[u] = buffer[u]
    BY CallTypesStep DEF Types
<1>2. /\ Settles(todo', {})
      /\ Head(todo).call = "load" => \E g \in DOMAIN todo' : Seal(todo', 0, g, g, table)
    BY <1>1, TailSettles DEF Closing, table
<1>3. (Jdbc' <=> Jdbc) /\ (Running' <=> Running)
    BY <1>1 DEF Jdbc, Running
<1>4. ASSUME NEW t \in Tables, buffer[t] # <<>>, ~ Is(Head(todo), "close", t)
      PROVE  \E g \in DOMAIN todo' : Seal(todo', 0, g, g, t)
    <2>1. PICK g \in DOMAIN todo : Seal(todo, 0, g, g, t)
        BY <1>1, <1>4 DEF Closing
    <2>2. g \in Nat
        BY <1>1, TailPlaces
    <2>3. g >= 2 /\ g - 1 \in DOMAIN Tail(todo) /\ Seal(Tail(todo), 0, g - 1, IF g = 0 THEN 0 ELSE g - 1, t)
        BY <1>4, <2>1, <2>2, SealLater
    <2>4. g # 0
        BY <2>2, <2>3
    <2> QED BY <1>1, <2>3, <2>4
<1>5. ASSUME NEW t \in Tables, buffer'[t] # <<>>
      PROVE  \E g \in DOMAIN todo' : Seal(todo', 0, g, g, t)
    <2>1. CASE t # table
        <3>1. buffer[t] # <<>> /\ ~ Is(Head(todo), "close", t)
            BY <1>1, <1>5, <2>1 DEF Is, table
        <3> QED BY <1>4, <3>1
    <2>2. CASE t = table /\ Head(todo).call = "load"
        BY <1>2, <2>2
    <2>3. CASE t = table /\ Head(todo).call # "load"
        <3>1. buffer' = buffer /\ Head(todo).call # "close"
            BY <1>5, <2>3 DEF Moved
        <3>2. buffer[t] # <<>> /\ ~ Is(Head(todo), "close", t)
            BY <1>5, <3>1 DEF Is
        <3> QED BY <1>4, <3>2
    <2> QED BY <2>1, <2>2, <2>3
<1>6. ASSUME Jdbc, sent' # <<>>
      PROVE  \E g \in DOMAIN todo' : todo'[g].call \in {"commit", "close"}
    <2>1. CASE Head(todo).call = "load"
        <3>1. PICK g \in DOMAIN todo' : Seal(todo', 0, g, g, table)
            BY <1>2, <2>1
        <3> QED BY <3>1 DEF Seal, Is
    <2>2. CASE Head(todo).call # "load"
        <3>1. sent' = sent /\ Head(todo).call \notin {"commit", "close"}
            BY <1>6, <2>2 DEF Moved
        <3>2. PICK g \in DOMAIN todo : todo[g].call \in {"commit", "close"}
            BY <1>1, <1>6, <3>1 DEF Closing
        <3>3. /\ Head(todo) = todo[1] /\ Len(todo) \in Nat /\ DOMAIN todo = 1..Len(todo)
              /\ DOMAIN todo' = 1..Len(todo) - 1 /\ \A i \in DOMAIN todo' : todo'[i] = todo[i + 1]
            BY <1>1, TailPlaces
        <3>4. g # 1
            BY <3>1, <3>2, <3>3
        <3>5. g - 1 \in DOMAIN todo' /\ (g - 1) + 1 = g
            BY <3>3, <3>4
        <3> QED BY <3>2, <3>3, <3>5
    <2> QED BY <2>1, <2>2
<1>7. ~ Jdbc => sent' = <<>>
    BY <1>1 DEF Moved, Closing
<1> QED BY <1>2, <1>3, <1>5, <1>6, <1>7 DEF Closing

\* What is expected depends on the configuration alone.
LEMMA ExpectedStays ==
    ASSUME UNCHANGED config
    PROVE  Expected' = Expected /\ (Jdbc' <=> Jdbc) /\ MaxOpen' = MaxOpen
    BY DEF Expected, Ours, Jdbc, MaxOpen

\* No call of a loader loses a row, and none adds one but that it loads.
LEMMA CallRest ==
    ASSUME Types, Rest, Moved, ACall
    PROVE  Rest'
<1>1. /\ Running /\ todo # <<>> /\ todo' = Tail(todo) /\ UNCHANGED <<config, run>>
      /\ table \in Tables /\ todo \in Plan
      /\ \A u \in Tables : u # table => buffer'[u] = buffer[u]
    BY CallTypesStep DEF Types
<1> DEFINE Others == UNION {Range(buffer[u]) : u \in Tables \ {table}}
           New    == IF Head(todo).call = "load" THEN {Head(todo).row} ELSE {}
<1>2. Pending = Range(sent) \cup Range(buffer[table]) \cup Others
    BY <1>1 DEF Pending
<1>3. Pending' = Range(sent') \cup Range(buffer'[table]) \cup Others
    <2>1. UNION {Range(buffer'[u]) : u \in Tables} = Range(buffer'[table]) \cup Others
        BY <1>1
    <2> QED BY <2>1 DEF Pending
<1> HIDE DEF Others
<1>4. Range(<<>>) = {}
    BY NoRowsLeft
<1>5. DOMAIN stored' \cup Pending' = DOMAIN stored \cup Pending \cup New
    BY <1>2, <1>3, <1>4 DEF Moved
<1>6. Distinct(todo') /\ Rows(todo) = Rows(todo') \cup New
    BY <1>1, TailRows DEF Rest
<1>7. DOMAIN stored' \cup Pending' \cup Rows(todo') = Expected'
    <2>1. DOMAIN stored \cup Pending \cup Rows(todo) = Expected
        BY <1>1 DEF Rest
    <2> QED BY <1>1, <1>5, <1>6, <2>1, ExpectedStays
<1> QED BY <1>6, <1>7 DEF Rest

\* A call of a loader stores a row at most once more, and only one that was
\* going to be.
LEMMA CallCounts ==
    ASSUME Types, Rest, Counts, Conserved, OnceStep, ACall
    PROVE  Counts'
<1>1. /\ Running /\ todo # <<>> /\ todo' = Tail(todo) /\ UNCHANGED <<config, runs>>
      /\ todo \in Plan /\ (Jdbc' <=> Jdbc)
    BY CallTypesStep, ExpectedStays DEF Types
<1>2. /\ Rows(todo) = Rows(todo') \cup (IF Head(todo).call = "load" THEN {Head(todo).row} ELSE {})
      /\ Head(todo).call = "load" => Head(todo).row \notin Rows(todo')
    BY <1>1, TailRows DEF Rest
<1>3. ASSUME NEW r \in AllRows, ~ Jdbc \/ ~ HasKey(r)
      PROVE  Copies(r)' <= (IF Jdbc THEN runs ELSE 1)
    <2>1. times(stored', r) + occurrences(sent', r) + occurrences(buffer'[r[1]], r)
          = times(stored, r) + occurrences(sent, r) + occurrences(buffer[r[1]], r)
            + (IF Head(todo).call = "load" /\ Head(todo).row = r THEN 1 ELSE 0)
        BY <1>3 DEF Conserved
    <2>2. Copies(r) <= (IF Jdbc THEN runs ELSE 1)
        BY <1>3 DEF Counts
    <2>3. (IF Head(todo).call = "load" /\ Head(todo).row = r THEN 1 ELSE 0) + (IF r \in Rows(todo') THEN 1 ELSE 0)
          = (IF r \in Rows(todo) THEN 1 ELSE 0)
        BY <1>2
    <2>4. Copies(r)' = times(stored', r) + occurrences(sent', r) + occurrences(buffer'[r[1]], r)
                       + (IF r \in Rows(todo') THEN 1 ELSE 0)
        BY DEF Copies
    <2>5. Copies(r) = times(stored, r) + occurrences(sent, r) + occurrences(buffer[r[1]], r)
                      + (IF r \in Rows(todo) THEN 1 ELSE 0)
        BY DEF Copies
    <2>6. times(stored, r) \in Nat /\ occurrences(sent, r) \in Nat /\ occurrences(buffer[r[1]], r) \in Nat
        BY CopiesNat
    <2>7. Copies(r)' = Copies(r)
        BY <2>1, <2>3, <2>4, <2>5, <2>6
    <2> QED BY <2>2, <2>7
<1>4. Jdbc => \A r \in DOMAIN stored' : HasKey(r) => stored'[r] = 1
    BY DEF OnceStep, Counts
<1> QED BY <1>1, <1>3, <1>4 DEF Counts

\* The first call opens a file.
LEMMA CallFound ==
    ASSUME Types, Found, ACall
    PROVE  Found'
<1>1. /\ todo # <<>> /\ UNCHANGED config /\ files \subseteq files' /\ (Jdbc' <=> Jdbc)
      /\ Head(todo) = todo[1]
    BY CallTypesStep, ExpectedStays, TailPlaces DEF Types
<1>2. SUFFICES ASSUME ~ Jdbc, files' = {} PROVE FALSE
    BY <1>1 DEF Found
<1>3. Head(todo).call = "create"
    BY <1>1, <1>2 DEF Found
<1>4. Create
    BY <1>3 DEF ACall, LoadJdbc, LoadFile, Commit, CloseJdbc, CloseFile, Next_
<1> QED BY <1>2, <1>4 DEF Create

\* The calls that are left leave at most MaxOpen loaders open.
LEMMA CallLoaders ==
    ASSUME Types, Loaders, ACall
    PROVE  Loaders'
<1>1. /\ Running /\ todo # <<>> /\ todo' = Tail(todo) /\ UNCHANGED <<config, run>> /\ todo \in Plan
      /\ MaxOpen' = MaxOpen
    BY CallTypesStep, ExpectedStays DEF Types
<1>2. PICK e : Opens(todo, open, MaxOpen, e)
    BY <1>1 DEF Loaders
<1>3. MaxOpen \in Nat /\ open' = open + Opened(Head(todo))
    <2>1. MaxOpen \in Nat /\ open \in 0..MaxOpen
        BY MostOpen DEF Loaders
    <2> QED BY <2>1, CallTypesStep
<1>4. open' \in 0..MaxOpen /\ Opens(todo', open', MaxOpen, e)
    BY <1>1, <1>2, <1>3, TailOpens
<1>5. open' \in 0..MaxOpen' /\ Opens(todo', open', MaxOpen', e)
    BY <1>1, <1>4
<1> QED BY <1>5 DEF Loaders

\* A batch that is full is sent.
LEMMA CallBatches ==
    ASSUME Types, Batches, Moved, ACall
    PROVE  Batches'
<1>1. /\ table \in Tables /\ UNCHANGED config /\ (Jdbc' <=> Jdbc)
      /\ \A u \in Tables : u # table => buffer'[u] = buffer[u]
    BY CallTypesStep, ExpectedStays
<1>2. Len(<<>>) = 0 /\ BatchSize \in Nat \ {0}
    BY LoadAssumption
<1>3. Jdbc => Len(buffer'[table]) < BatchSize
    BY <1>1, <1>2 DEF Moved, Batches
<1> QED BY <1>1, <1>3 DEF Batches

\* With the first call, no row that was sent is lost, and the rows of a buffer
\* stay in it until they are sent or stored.
LEMMA RowsGoOn ==
    ASSUME Types, Moved, ACall, Jdbc
    PROVE  /\ DOMAIN stored \subseteq DOMAIN stored'
           /\ Range(sent) \subseteq DOMAIN stored' \cup Range(sent')
           /\ \A t \in Tables : \A p \in Range(buffer[t]) :
                  p \in DOMAIN stored' \cup Range(sent') \cup Range(buffer'[t])
           /\ Is(Head(todo), "close", table) => Range(buffer[table]) \subseteq DOMAIN stored'
           /\ Head(todo).call = "load" => Head(todo).row \in Range(sent') \cup Range(buffer'[table])
           /\ Head(todo).call \in {"commit", "close"} => Range(sent) \subseteq DOMAIN stored'
<1>1. table \in Tables /\ \A u \in Tables : u # table => buffer'[u] = buffer[u]
    BY CallTypesStep
<1>2. Range(<<>>) = {}
    BY NoRowsLeft
<1>3. /\ DOMAIN stored \subseteq DOMAIN stored'
      /\ Range(sent) \subseteq DOMAIN stored' \cup Range(sent')
      /\ Range(buffer[table]) \subseteq DOMAIN stored' \cup Range(sent') \cup Range(buffer'[table])
      /\ Is(Head(todo), "close", table) => Range(buffer[table]) \subseteq DOMAIN stored'
      /\ Head(todo).call = "load" => Head(todo).row \in Range(sent') \cup Range(buffer'[table])
      /\ Head(todo).call \in {"commit", "close"} => Range(sent) \subseteq DOMAIN stored'
    BY <1>2 DEF Moved, Is
<1> QED BY <1>1, <1>3

\* A row that is stored no later than another one still is after the first call.
LEMMA BeforeStep ==
    ASSUME Types, Moved, ACall, Jdbc, NEW i \in Nat, NEW p, Before(i, p),
           NEW k, k = IF i = 0 THEN 0 ELSE i - 1
    PROVE  Before(k, p)'
<1>1. /\ todo # <<>> /\ todo' = Tail(todo) /\ table \in Tables /\ todo \in Plan
      /\ Head(todo).call = "load" => Head(todo).row[1] = table
    BY CallTypesStep DEF Types
<1>2. /\ Head(todo) = todo[1] /\ Len(todo) \in Nat /\ DOMAIN todo = 1..Len(todo)
      /\ DOMAIN todo' = 1..Len(todo) - 1 /\ \A j \in DOMAIN todo' : todo'[j] = todo[j + 1]
    BY <1>1, TailPlaces
<1>3. Before(k, p)' <=> \/ p \in DOMAIN stored' \/ p \in Range(sent')
                        \/ /\ p[1] \in Tables /\ p \in Range(buffer'[p[1]])
                           /\ \E g \in DOMAIN todo' : Seal(todo', 0, g, k, p[1])
                        \/ First(todo', k, p)
    BY DEF Before
<1>4. CASE p \in DOMAIN stored \/ p \in Range(sent)
    BY <1>3, <1>4, RowsGoOn
<1>5. CASE /\ p[1] \in Tables /\ p \in Range(buffer[p[1]])
           /\ \E g \in DOMAIN todo : Seal(todo, 0, g, i, p[1])
    <2>1. PICK g \in DOMAIN todo : Seal(todo, 0, g, i, p[1])
        BY <1>5
    <2>2. CASE g = 1
        <3>1. Is(Head(todo), "close", p[1]) /\ table = p[1]
            BY <1>2, <2>1, <2>2 DEF Seal, Is, table
        <3> QED BY <1>3, <1>5, <3>1, RowsGoOn
    <2>3. CASE g # 1
        <3>1. g \in Nat /\ g >= 2
            BY <1>2, <2>3
        <3>2. g - 1 \in DOMAIN Tail(todo) /\ Seal(Tail(todo), IF 0 = 0 THEN 0 ELSE 0 - 1, g - 1, k, p[1])
            BY <1>1, <2>1, <3>1, SealTail
        <3>3. \E j \in DOMAIN todo' : Seal(todo', 0, j, k, p[1])
            BY <1>1, <3>2
        <3>4. p \in DOMAIN stored' \cup Range(sent') \cup Range(buffer'[p[1]])
            BY <1>5, RowsGoOn
        <3> QED BY <1>3, <1>5, <3>3, <3>4
    <2> QED BY <2>2, <2>3
<1>6. CASE First(todo, i, p)
    <2>1. PICK h \in DOMAIN todo, g \in DOMAIN todo :
              todo[h].call = "load" /\ todo[h].row = p /\ Seal(todo, h, g, i, p[1])
        BY <1>6 DEF First
    <2>2. h \in Nat /\ h >= 1 /\ g \in Nat /\ g >= 2
        BY <1>2, <2>1 DEF Seal
    <2>3. g - 1 \in DOMAIN Tail(todo) /\ Seal(Tail(todo), IF h = 0 THEN 0 ELSE h - 1, g - 1, k, p[1])
        BY <1>1, <2>1, <2>2, SealTail
    <2>4. g - 1 \in DOMAIN todo' /\ Seal(todo', h - 1, g - 1, k, p[1])
        BY <1>1, <2>2, <2>3
    <2>5. CASE h = 1
        <3>1. Head(todo).call = "load" /\ Head(todo).row = p /\ p[1] = table
            BY <1>1, <1>2, <2>1, <2>5
        <3>2. p \in Range(sent') \cup Range(buffer'[p[1]])
            BY <3>1, RowsGoOn
        <3>3. Seal(todo', 0, g - 1, k, p[1])
            BY <2>4, <2>5
        <3> QED BY <1>1, <1>3, <2>4, <3>1, <3>2, <3>3
    <2>6. CASE h # 1
        <3>1. h - 1 \in DOMAIN todo' /\ (h - 1) + 1 = h
            BY <1>2, <2>2, <2>6
        <3>2. todo'[h - 1] = todo[h]
            BY <1>2, <3>1
        <3>3. First(todo', k, p)
            BY <2>1, <2>4, <3>1, <3>2 DEF First
        <3> QED BY <1>3, <3>3
    <2> QED BY <2>5, <2>6
<1> QED BY <1>4, <1>5, <1>6 DEF Before

\* A row is pending that was, or that is loaded.
LEMMA PendingStep ==
    ASSUME Types, Moved, ACall, NEW r \in Pending'
    PROVE  r \in Pending \/ (Head(todo).call = "load" /\ Head(todo).row = r)
<1>1. table \in Tables /\ \A u \in Tables : u # table => buffer'[u] = buffer[u]
    BY CallTypesStep
<1>2. Range(<<>>) = {}
    BY NoRowsLeft
<1>3. r \in Range(sent') \/ \E u \in Tables : r \in Range(buffer'[u])
    BY DEF Pending
<1>4. ASSUME NEW u \in Tables, r \in Range(buffer'[u])
      PROVE  r \in Range(buffer[u]) \/ (Head(todo).call = "load" /\ Head(todo).row = r)
    <2>1. CASE u # table
        BY <1>1, <1>4, <2>1
    <2>2. CASE u = table
        BY <1>2, <1>4, <2>2 DEF Moved
    <2> QED BY <2>1, <2>2
<1>5. r \in Range(sent') =>
        r \in Range(sent) \/ r \in Range(buffer[table]) \/ (Head(todo).call = "load" /\ Head(todo).row = r)
    BY <1>2 DEF Moved
<1> QED BY <1>1, <1>3, <1>4, <1>5 DEF Pending

\* What the first call commits has the rows it refers to.
LEMMA CallFamilies ==
    ASSUME Types, Families, Moved, ACall
    PROVE  Families'
<1>1. /\ todo # <<>> /\ todo' = Tail(todo) /\ table \in Tables /\ todo \in Plan /\ (Jdbc' <=> Jdbc)
    BY CallTypesStep, ExpectedStays DEF Types
<1>2. /\ Head(todo) = todo[1] /\ Len(todo) \in Nat \ {0} /\ DOMAIN todo = 1..Len(todo)
      /\ DOMAIN todo' = 1..Len(todo) - 1 /\ \A j \in DOMAIN todo' : todo'[j] = todo[j + 1]
    BY <1>1, TailPlaces
<1>3. SUFFICES ASSUME Jdbc
               PROVE  /\ \A r \in DOMAIN stored' : Parents(r) \subseteq DOMAIN stored'
                      /\ \A r \in Pending' : \A p \in Parents(r) : Before(0, p)'
                      /\ \A i \in DOMAIN todo' :
                             todo'[i].call = "load" => \A p \in Parents(todo'[i].row) : Before(i, p)'
    BY <1>1 DEF Families, Parents
<1>4. /\ \A r \in DOMAIN stored : Parents(r) \subseteq DOMAIN stored
      /\ \A r \in Pending : \A p \in Parents(r) : Before(0, p)
      /\ \A i \in DOMAIN todo : todo[i].call = "load" => \A p \in Parents(todo[i].row) : Before(i, p)
    BY <1>3 DEF Families
<1>5. ASSUME NEW r \in DOMAIN stored', NEW p \in Parents(r) PROVE p \in DOMAIN stored'
    <2>1. CASE r \in DOMAIN stored
        BY <1>3, <1>4, <1>5, <2>1, RowsGoOn
    <2>2. CASE r \notin DOMAIN stored
        <3>1. Head(todo).call \in {"commit", "close"} /\ r \in Pending
            BY <1>1, <1>3, <2>2 DEF Moved, Pending
        <3>2. Before(0, p)
            BY <1>4, <1>5, <3>1
        <3>3. CASE p \in DOMAIN stored \/ p \in Range(sent)
            BY <1>3, <3>1, <3>3, RowsGoOn
        <3>4. CASE /\ p[1] \in Tables /\ p \in Range(buffer[p[1]])
                   /\ \E g \in DOMAIN todo : Seal(todo, 0, g, 0, p[1])
            <4>1. PICK g \in DOMAIN todo : Seal(todo, 0, g, 0, p[1])
                BY <3>4
            <4>2. g = 1
                <5>1. g # 1 => 1 \in 0 + 1..g - 1
                    BY <1>2
                <5> QED BY <1>2, <3>1, <4>1, <5>1 DEF Seal
            <4>3. Is(Head(todo), "close", p[1]) /\ table = p[1]
                BY <1>2, <4>1, <4>2 DEF Seal, Is, table
            <4> QED BY <1>3, <3>4, <4>3, RowsGoOn
        <3>5. CASE First(todo, 0, p)
            <4>1. PICK h \in DOMAIN todo, g \in DOMAIN todo : Seal(todo, h, g, 0, p[1])
                BY <3>5 DEF First
            <4>2. 1 \in 0 + 1..g - 1
                BY <1>2, <4>1 DEF Seal
            <4> QED BY <1>2, <3>1, <4>1, <4>2 DEF Seal
        <3> QED BY <3>2, <3>3, <3>4, <3>5 DEF Before
    <2> QED BY <2>1, <2>2
<1>6. ASSUME NEW r \in Pending', NEW p \in Parents(r) PROVE Before(0, p)'
    <2>1. CASE r \in Pending
        <3>1. Before(0, p)
            BY <1>4, <1>6, <2>1
        <3> QED BY <1>3, <3>1, BeforeStep
    <2>2. CASE Head(todo).call = "load" /\ Head(todo).row = r
        <3>1. 1 \in DOMAIN todo /\ todo[1].call = "load" /\ todo[1].row = r
            BY <1>2, <2>2
        <3>2. Before(1, p)
            BY <1>4, <1>6, <3>1
        <3>3. 0 = IF 1 = 0 THEN 0 ELSE 1 - 1
            OBVIOUS
        <3> QED BY <1>3, <3>2, <3>3, BeforeStep
    <2> QED BY <2>1, <2>2, PendingStep
<1>7. ASSUME NEW i \in DOMAIN todo', todo'[i].call = "load", NEW p \in Parents(todo'[i].row)
      PROVE  Before(i, p)'
    <2>1. i + 1 \in DOMAIN todo /\ todo[i + 1] = todo'[i] /\ i + 1 \in Nat
          /\ i = IF i + 1 = 0 THEN 0 ELSE (i + 1) - 1
        BY <1>2
    <2>2. Before(i + 1, p)
        BY <1>4, <1>7, <2>1
    <2> QED BY <1>3, <2>1, <2>2, BeforeStep
<1> QED BY <1>5, <1>6, <1>7

-----------------------------------------------------------------------------
(* The beginning and the end of a run.                                     *)

\* What is stored between runs.
Kept ==
    /\ DOMAIN stored \subseteq Expected
    /\ Jdbc => \A r \in DOMAIN stored : Parents(r) \subseteq DOMAIN stored
    /\ \A r \in AllRows : ~ Jdbc \/ ~ HasKey(r) => times(stored, r) <= (IF Jdbc THEN runs ELSE 1)
    /\ Jdbc => \A r \in DOMAIN stored : HasKey(r) => stored[r] = 1
    /\ ~ Jdbc /\ files = {} => DOMAIN stored = {}

\* A run that has completed has stored all rows.
Finished == run = "completed" => DOMAIN stored = Expected

\* Nothing is pending.
Empty == sent = <<>> /\ \A t \in Tables : buffer[t] = <<>>

\* No run.
Resting == Types /\ Kept /\ Finished /\ Empty /\ ~ Running /\ todo = <<>> /\ open \in 0..MaxOpen

\* A run that begins, and is going to store each row once.
Starting ==
    /\ Types /\ Kept /\ Empty /\ Running /\ todo = Plans[config] /\ open = 0
    /\ \A r \in AllRows : ~ Jdbc \/ ~ HasKey(r) => times(stored, r) + 1 <= (IF Jdbc THEN runs ELSE 1)

\* Without rows pending.
LEMMA EmptyRows ==
    ASSUME Types, Empty
    PROVE  /\ Pending = {} /\ Batches
           /\ \A r \in AllRows : Copies(r) = times(stored, r) + (IF r \in Rows(todo) THEN 1 ELSE 0)
<1>1. \A t \in Tables : Range(buffer[t]) = {} /\ Len(buffer[t]) = 0
    BY NoRowsLeft DEF Empty
<1>2. Pending = {}
    BY <1>1, NoRowsLeft DEF Pending, Empty
<1>3. Batches
    BY <1>1, LoadAssumption DEF Batches
<1>4. ASSUME NEW r \in AllRows
      PROVE  Copies(r) = times(stored, r) + (IF r \in Rows(todo) THEN 1 ELSE 0)
    <2>1. r[1] \in Tables /\ times(stored, r) \in Nat
        BY CopiesNat
    <2>2. occurrences(sent, r) = 0 /\ occurrences(buffer[r[1]], r) = 0
        BY <2>1, NoRowsLeft DEF Empty
    <2> QED BY <2>1, <2>2 DEF Copies
<1> QED BY <1>2, <1>3, <1>4

\* The inductive invariant, with what a completed run has stored.
Inv == IInv /\ Finished

\* Between runs.
LEMMA RestingInv == Resting => Inv
<1> SUFFICES ASSUME Resting PROVE Inv
    OBVIOUS
<1>1. Types /\ Kept /\ Finished /\ Empty /\ ~ Running /\ todo = <<>> /\ open \in 0..MaxOpen
    BY DEF Resting
<1>2. Rows(todo) = {} /\ DOMAIN todo = {}
    BY <1>1 DEF Rows
<1>3. Idle /\ Loaders /\ Closing /\ Rest
    BY <1>1 DEF Idle, Loaders, Closing, Rest, Empty, Kept
<1>4. Families
    BY <1>1, <1>2, EmptyRows DEF Families, Kept
<1>5. Counts
    <2>1. ASSUME NEW r \in AllRows PROVE Copies(r) = times(stored, r)
        BY <1>1, <1>2, EmptyRows, CopiesNat
    <2> QED BY <1>1, <2>1 DEF Counts, Kept
<1>6. Found
    BY <1>1 DEF Found, Kept
<1> QED BY <1>1, <1>3, <1>4, <1>5, <1>6, EmptyRows DEF Inv, IInv

\* The loader of items is created first.
LEMMA FirstCreated ==
    ASSUME NEW c \in Configs
    PROVE  Plans[c] # <<>> /\ Plans[c][1].call = "create"
<1>1. ASSUME NEW s \in Plan, NEW u \in Plan, s # <<>>, s[1].call = "create"
      PROVE  s \o u \in Plan /\ s \o u # <<>> /\ (s \o u)[1].call = "create"
    <2>1. 1 \in DOMAIN s
        BY <1>1, TailPlaces
    <2>2. 1 \in DOMAIN (s \o u) /\ (s \o u)[1] = s[1]
        BY <2>1, Places
    <2> QED BY <1>1, <2>2, Places
<1> DEFINE row == [i \in 1..MAXITEMS |-> <<"item", i>>]
           body == FlattenSeq([i \in 1..MAXITEMS |-> load(row[i])])
<1>2. body \in Plan
    <2>1. \A i \in 1..MAXITEMS : i \in Nat
        BY Constants
    <2>2. \A i \in 1..MAXITEMS : <<"item", i>> \in AllRows
        BY <2>1 DEF AllRows, Tables
    <2>3. row \in [1..MAXITEMS -> AllRows]
        BY <2>2
    <2>4. /\ \A i \in 1..MAXITEMS : row[i][1] \in {"item"} /\ Parents(row[i]) \subseteq {}
          /\ \A i, j \in 1..MAXITEMS : row[i] = row[j] => i = j
          /\ {"item"} \subseteq Tables
        BY DEF Parents, Tables
    <2> HIDE DEF row
    <2> QED BY <2>3, <2>4, LoadLoop, Constants DEF Block
<1>3. loadItems = create("item") \o body \o close("item")
    BY DEF loadItems, for
<1> HIDE DEF body
<1>4. "item" \in Tables
    BY DEF Tables
<1>5. /\ create("item") \in Plan /\ create("item") # <<>> /\ create("item")[1].call = "create"
      /\ close("item") \in Plan
    BY <1>4, TableCalls DEF create, Is
<1>6. loadItems \in Plan /\ loadItems # <<>> /\ loadItems[1].call = "create"
    BY <1>1, <1>2, <1>3, <1>5
<1>7. loadWare(c) \in Plan /\ loadCust(c) \in Plan /\ loadOrd(c) \in Plan
    BY WareBlock, CustBlock, OrdBlock DEF Block
<1>8. Plans[c] = loadItems \o loadWare(c) \o loadCust(c) \o loadOrd(c)
    BY DEF Plans
<1> QED BY ONLY <1>1, <1>6, <1>7, <1>8

\* When a run begins.
LEMMA StartingInv == Starting => Inv
<1> SUFFICES ASSUME Starting PROVE Inv
    OBVIOUS
<1>1. /\ Types /\ Kept /\ Empty /\ Running /\ todo = Plans[config] /\ open = 0 /\ config \in Configs
      /\ \A r \in AllRows : ~ Jdbc \/ ~ HasKey(r) => times(stored, r) + 1 <= (IF Jdbc THEN runs ELSE 1)
    BY DEF Starting, Types
<1>2. Block(todo, {}, Tables, {}, Expected)
    BY <1>1, PlanBlock, ExpectedRows
<1>3. /\ Settles(todo, {}) /\ Distinct(todo) /\ Ordered(todo, {}) /\ Rows(todo) = Expected
    BY <1>2 DEF Block
<1>4. Loaders
    <2>1. MaxOpen \in Nat
        BY MostOpen
    <2> QED BY <1>1, <2>1, PlanOpens DEF Loaders
<1>5. Closing
    BY <1>1, <1>3 DEF Closing, Empty
<1>6. Rest
    BY <1>1, <1>3, EmptyRows DEF Rest, Kept
<1>7. Families
    <2>1. \A i \in DOMAIN todo : todo[i].call = "load" => \A p \in Parents(todo[i].row) : First(todo, i, p)
        BY <1>3 DEF Ordered
    <2>2. \A i \in DOMAIN todo : todo[i].call = "load" => \A p \in Parents(todo[i].row) : Before(i, p)
        BY <2>1 DEF Before
    <2> QED BY <1>1, <2>2, EmptyRows DEF Families, Kept
<1>8. Counts
    <2>1. ASSUME NEW r \in AllRows, ~ Jdbc \/ ~ HasKey(r)
          PROVE  Copies(r) <= (IF Jdbc THEN runs ELSE 1)
        <3>1. Copies(r) <= times(stored, r) + 1 /\ Copies(r) \in Nat /\ times(stored, r) \in Nat
            BY <1>1, EmptyRows, CopiesNat
        <3>2. times(stored, r) + 1 <= (IF Jdbc THEN runs ELSE 1) /\ runs \in Int
            BY <1>1, <2>1, LoadAssumption DEF Types
        <3> QED BY <3>1, <3>2
    <2> QED BY <1>1, <2>1 DEF Counts, Kept
<1>9. Found
    BY <1>1, FirstCreated DEF Found, Kept
<1>10. Idle /\ Finished
    BY <1>1 DEF Idle, Finished, Running
<1> QED BY <1>1, <1>4, <1>5, <1>6, <1>7, <1>8, <1>9, <1>10, EmptyRows DEF Inv, IInv

\* A run keeps what the runs before have stored.
LEMMA InvKept == ASSUME Inv PROVE Kept
<1>1. Types /\ Rest /\ Families /\ Counts /\ Found
    BY DEF Inv, IInv
<1>2. ASSUME NEW r \in AllRows, ~ Jdbc \/ ~ HasKey(r)
      PROVE  times(stored, r) <= (IF Jdbc THEN runs ELSE 1)
    <2>1. Copies(r) <= (IF Jdbc THEN runs ELSE 1)
        BY <1>1, <1>2 DEF Counts
    <2>2. times(stored, r) <= Copies(r) /\ times(stored, r) \in Nat /\ Copies(r) \in Nat
        BY <1>1, CopiesNat DEF Copies
    <2>3. runs \in Int
        BY <1>1, LoadAssumption DEF Types
    <2> QED BY <2>1, <2>2, <2>3
<1> QED BY <1>1, <1>2 DEF Kept, Rest, Families, Counts, Found

-----------------------------------------------------------------------------
(* The steps.                                                              *)

\* The first state.
LEMMA InitResting == Init => Resting
<1> SUFFICES ASSUME Init PROVE Resting
    OBVIOUS
<1>1. stored = NoRows /\ DOMAIN stored = {} /\ stored \in [DOMAIN stored -> Nat]
    BY DEF Init, NoRows
<1>2. Types
    <2>1. buffer \in [Tables -> Seq(AllRows)] /\ executed \in [Tables -> BOOLEAN]
        BY DEF Init
    <2>2. \A t \in Tables : buffer[t] = <<>>
        BY DEF Init
    <2>3. \A t \in Tables : Range(buffer[t]) = {}
        BY <2>2, NoRowsLeft
    <2>4. sent \in Seq(AllRows) /\ todo \in Plan
        BY DEF Init, Plan
    <2>5. config \in Configs /\ runs \in 0..MaxRuns /\ failures \in 0..MaxFailures
          /\ run = "idle" /\ files \subseteq Tables
        BY LoadAssumption DEF Init
    <2> QED BY <1>1, <2>1, <2>3, <2>4, <2>5 DEF Types
<1>3. Kept
    <2>1. \A r \in AllRows : times(stored, r) = 0
        BY <1>1 DEF times
    <2> QED BY <1>1, <2>1 DEF Kept, Init
<1>4. Empty /\ ~ Running /\ Finished /\ todo = <<>> /\ open \in 0..MaxOpen
    BY MostOpen DEF Init, Empty, Running, Finished
<1> QED BY <1>2, <1>3, <1>4 DEF Resting

\* Loaders that are not made yet.
LEMMA NoLoadersTypes ==
    ASSUME NoLoaders
    PROVE  /\ buffer' \in [Tables -> Seq(AllRows)] /\ executed' \in [Tables -> BOOLEAN] /\ open' = 0
           /\ \A t \in Tables : buffer'[t] = <<>> /\ Range(buffer'[t]) = {}
<1>1. buffer' \in [Tables -> Seq(AllRows)] /\ executed' \in [Tables -> BOOLEAN] /\ open' = 0
    BY NoRowsLeft DEF NoLoaders
<1>2. \A t \in Tables : buffer'[t] = <<>>
    BY DEF NoLoaders
<1> QED BY <1>1, <1>2, NoRowsLeft

\* What is stored and how often the load has been run, for a step that adds no
\* row.
LEMMA KeptStays ==
    ASSUME Types, Kept, UNCHANGED <<config, stored>>, files \subseteq files', runs' \in 0..MaxRuns, runs <= runs'
    PROVE  Kept'
<1>1. Expected' = Expected /\ (Jdbc' <=> Jdbc)
    BY ExpectedStays
<1>2. ASSUME NEW r \in AllRows, ~ Jdbc \/ ~ HasKey(r)
      PROVE  times(stored, r) <= (IF Jdbc THEN runs' ELSE 1)
    <2>1. times(stored, r) \in Nat /\ runs \in Int /\ runs' \in Int
        BY CopiesNat, LoadAssumption DEF Types
    <2>2. times(stored, r) <= (IF Jdbc THEN runs ELSE 1)
        BY <1>2 DEF Kept
    <2> QED BY <2>1, <2>2
<1>3. ~ Jdbc /\ files' = {} => DOMAIN stored = {}
    BY DEF Kept
<1>4. \A r \in AllRows : times(stored', r) = times(stored, r)
    OBVIOUS
<1> QED BY <1>1, <1>2, <1>3, <1>4 DEF Kept

\* The end of a run, however it ends before it has completed.
LEMMA EndsStep ==
    ASSUME Inv, NEW how \in {"error", "crashed"}, Ends(how), failures' \in 0..MaxFailures
    PROVE  Resting'
<1>1. Types /\ Kept
    BY InvKept DEF Inv, IInv
<1>2. /\ run' = how /\ todo' = <<>> /\ sent' = <<>> /\ UNCHANGED <<config, runs, stored, files>>
      /\ NoLoaders
    BY DEF Ends
<1>3. Kept'
    BY <1>1, <1>2, KeptStays, LoadAssumption DEF Types
<1>4. todo' \in Plan /\ sent' \in Seq(AllRows)
    BY <1>2 DEF Plan
<1>5. stored' \in [DOMAIN stored' -> Nat]
    BY <1>1, <1>2 DEF Types
<1>6. Types'
    BY <1>1, <1>2, <1>4, <1>5, NoLoadersTypes DEF Types
<1>7. Empty' /\ ~ Running' /\ Finished'
    BY <1>2, NoLoadersTypes DEF Empty, Running, Finished
<1>8. open' \in 0..MaxOpen'
    <2>1. MaxOpen \in Nat /\ MaxOpen' = MaxOpen /\ open' = 0
        BY <1>2, MostOpen, ExpectedStays, NoLoadersTypes
    <2> QED BY <2>1
<1> QED BY <1>2, <1>3, <1>6, <1>7, <1>8 DEF Resting

\* runLoad begins or refuses to.
LEMMA StartStep ==
    ASSUME Inv, Start
    PROVE  Resting' \/ Starting'
<1>1. Types /\ Kept
    BY InvKept DEF Inv, IInv
<1>2. /\ sent' = <<>> /\ UNCHANGED <<config, failures, stored, files>> /\ NoLoaders
      /\ runs' = runs + 1 /\ runs < MaxRuns
      /\ \/ ~ Jdbc /\ files # {} /\ run' = "refused" /\ todo' = <<>>
         \/ (Jdbc \/ files = {}) /\ run' = "running" /\ todo' = Plans[config]
    BY DEF Start
<1>3. runs \in Nat /\ runs' \in 0..MaxRuns /\ runs <= runs'
    BY <1>1, <1>2, LoadAssumption DEF Types
<1>4. Kept'
    BY <1>1, <1>2, <1>3, KeptStays
<1>5. todo' \in Plan /\ sent' \in Seq(AllRows)
    <2>1. Plans[config] \in Plan
        BY <1>1, PlanBlock DEF Types, Block
    <2>2. todo' = <<>> \/ todo' = Plans[config]
        BY <1>2
    <2>4. <<>> \in Plan
        BY DEF Plan
    <2>3. sent' \in Seq(AllRows)
        BY <1>2
    <2> QED BY ONLY <2>1, <2>2, <2>3, <2>4
<1>6. stored' \in [DOMAIN stored' -> Nat]
    BY <1>1, <1>2 DEF Types
<1>7. Types'
    BY <1>1, <1>2, <1>3, <1>5, <1>6, NoLoadersTypes DEF Types
<1>8. Empty' /\ open' = 0
    BY <1>2, NoLoadersTypes DEF Empty
<1>9. CASE run' = "refused" /\ todo' = <<>>
    <2>1. Finished' /\ ~ Running'
        BY <1>9 DEF Finished, Running
    <2>2. open' \in 0..MaxOpen'
        <3>1. MaxOpen \in Nat /\ MaxOpen' = MaxOpen
            BY <1>2, MostOpen, ExpectedStays
        <3> QED BY <1>8, <3>1
    <2> QED BY <1>4, <1>7, <1>8, <1>9, <2>1, <2>2 DEF Resting
<1>10. CASE (Jdbc \/ files = {}) /\ run' = "running" /\ todo' = Plans[config]
    <2>1. Running' /\ todo' = Plans[config'] /\ (Jdbc' <=> Jdbc)
        BY <1>2, <1>10, ExpectedStays DEF Running
    <2>2. ASSUME NEW r \in AllRows, ~ Jdbc \/ ~ HasKey(r)
          PROVE  times(stored', r) + 1 <= (IF Jdbc THEN runs' ELSE 1)
        <3>1. times(stored, r) \in Nat /\ times(stored', r) = times(stored, r)
            BY <1>1, <1>2, CopiesNat
        <3>2. CASE Jdbc
            <4>1. times(stored, r) <= runs
                BY <1>1, <2>2, <3>2 DEF Kept
            <4> QED BY <1>2, <1>3, <3>1, <3>2, <4>1
        <3>3. CASE ~ Jdbc
            <4>1. DOMAIN stored = {}
                BY <1>1, <1>10, <3>3 DEF Kept
            <4>2. times(stored, r) = 0
                BY <4>1 DEF times
            <4> QED BY <3>1, <3>3, <4>2
        <3> QED BY <3>2, <3>3
    <2>3. \A r \in AllRows : ~ Jdbc' \/ ~ HasKey(r) => times(stored', r) + 1 <= (IF Jdbc' THEN runs' ELSE 1)
        BY <2>1, <2>2
    <2> QED BY <1>4, <1>7, <1>8, <2>1, <2>3 DEF Starting, HasKey
<1> QED BY <1>2, <1>9, <1>10

\* The files are deleted.
LEMMA DeleteStep ==
    ASSUME Inv, DeleteFiles
    PROVE  Resting'
<1>1. Types /\ Kept /\ Idle /\ Loaders
    BY InvKept DEF Inv, IInv
<1>2. /\ run = "refused" /\ ~ Running /\ stored' = NoRows /\ files' = {}
      /\ UNCHANGED <<config, run, runs, failures, todo, buffer, executed, open, sent>>
    BY DEF DeleteFiles, Running
<1>3. DOMAIN stored' = {} /\ stored' \in [DOMAIN stored' -> Nat]
    BY <1>2 DEF NoRows
<1>4. Types'
    BY <1>1, <1>2, <1>3 DEF Types
<1>5. (Jdbc' <=> Jdbc) /\ MaxOpen' = MaxOpen
    BY <1>2, ExpectedStays
<1>6. Kept'
    <2>1. \A r \in AllRows : times(stored', r) = 0
        BY <1>3 DEF times
    <2>2. runs \in 0..MaxRuns /\ MaxRuns \in Nat
        BY <1>1, LoadAssumption DEF Types
    <2>3. \A r \in AllRows : times(stored', r) <= (IF Jdbc' THEN runs' ELSE 1)
        BY <1>2, <2>1, <2>2
    <2> QED BY <1>3, <2>3 DEF Kept
<1>7. Empty' /\ ~ Running' /\ todo' = <<>> /\ open' \in 0..MaxOpen' /\ Finished'
    BY <1>1, <1>2, <1>5 DEF Idle, Empty, Running, Loaders, Finished
<1> QED BY <1>4, <1>6, <1>7 DEF Resting

\* A run completes with nothing left to be loaded, sent or committed.
LEMMA CompleteStep ==
    ASSUME Inv, Complete
    PROVE  Resting'
<1>1. Types /\ Kept /\ Loaders /\ Closing /\ Rest
    BY InvKept DEF Inv, IInv
<1>2. /\ Running /\ todo = <<>> /\ run' = "completed"
      /\ UNCHANGED <<config, runs, failures, todo, buffer, executed, open, sent, stored, files>>
    BY DEF Complete
<1>3. DOMAIN todo = {} /\ Rows(todo) = {}
    BY <1>2 DEF Rows
<1>4. Empty
    BY <1>1, <1>2, <1>3 DEF Closing, Empty
<1>5. DOMAIN stored = Expected
    BY <1>1, <1>2, <1>3, <1>4, EmptyRows DEF Rest
<1>6. Expected' = Expected /\ MaxOpen' = MaxOpen
    BY <1>2, ExpectedStays
<1>7. Types'
    BY <1>1, <1>2 DEF Types
<1>8. Kept'
    BY <1>1, <1>2, KeptStays, LoadAssumption DEF Types
<1>9. Empty' /\ ~ Running' /\ todo' = <<>> /\ open' \in 0..MaxOpen' /\ Finished'
    BY <1>1, <1>2, <1>4, <1>5, <1>6 DEF Empty, Running, Loaders, Finished
<1> QED BY <1>7, <1>8, <1>9 DEF Resting

\* A call of a loader.
LEMMA CallStep ==
    ASSUME Inv, ACall
    PROVE  Inv'
<1>1. /\ Types /\ Loaders /\ Batches /\ Closing /\ Rest /\ Families /\ Counts /\ Found
    BY DEF Inv, IInv
<1>2. Moved /\ Conserved /\ OnceStep /\ TypesAfter
    BY <1>1, CallMoves DEF Moves
<1>3. /\ Running /\ todo # <<>> /\ todo' = Tail(todo) /\ UNCHANGED <<config, run, runs, failures>>
      /\ files' \subseteq Tables /\ executed' \in [Tables -> BOOLEAN]
    BY <1>1, CallTypesStep
<1>4. todo' \in Plan
    BY <1>1, <1>3, TailPlaces DEF Types
<1>5. Types'
    BY <1>1, <1>2, <1>3, <1>4 DEF Types, TypesAfter
<1>6. Idle' /\ Finished'
    BY <1>3 DEF Idle, Finished, Running
<1>7. Loaders' /\ Batches' /\ Closing' /\ Rest'
    BY <1>1, <1>2, CallLoaders, CallBatches, CallClosing, CallRest
<1>8. Families' /\ Counts' /\ Found'
    BY <1>1, <1>2, CallFamilies, CallCounts, CallFound
<1> QED BY <1>5, <1>6, <1>7, <1>8 DEF Inv, IInv

\* Nothing changes.
LEMMA StutterStep ==
    ASSUME Inv, UNCHANGED vars
    PROVE  Inv'
<1>1. UNCHANGED <<config, run, runs, failures, todo, buffer, executed, open, sent, stored, files>>
    BY DEF vars
<1>2. Types' /\ Idle' /\ Batches' /\ Finished'
    BY <1>1 DEF Inv, IInv, Types, Idle, Batches, Finished, Running, Jdbc, Expected, Ours
<1>3. Loaders' /\ Closing' /\ Rest'
    BY <1>1, ExpectedStays DEF Inv, IInv, Loaders, Closing, Rest, Running, Jdbc, Pending
<1>4. Families' /\ Counts' /\ Found'
    <2>1. \A i, p : Before(i, p)' <=> Before(i, p)
        BY <1>1 DEF Before
    <2>2. Pending' = Pending /\ (Jdbc' <=> Jdbc)
        BY <1>1 DEF Pending, Jdbc
    <2>3. \A r : Copies(r)' = Copies(r)
        BY <1>1 DEF Copies
    <2> QED BY <1>1, <2>1, <2>2, <2>3 DEF Inv, IInv, Families, Counts, Found
<1> QED BY <1>2, <1>3, <1>4 DEF Inv, IInv

-----------------------------------------------------------------------------
(* The theorems.                                                           *)

\* Every step keeps the invariant, or begins or ends a run.
LEMMA InvStep == Inv /\ [Next]_vars => Inv' \/ Resting' \/ Starting'
<1> SUFFICES ASSUME Inv, [Next]_vars PROVE Inv' \/ Resting' \/ Starting'
    OBVIOUS
<1>1. CASE Start
    BY <1>1, StartStep
<1>2. CASE DeleteFiles
    BY <1>2, DeleteStep
<1>3. CASE ACall
    BY <1>3, CallStep
<1>4. CASE CloseFails
    <2>1. Ends("error") /\ failures' \in 0..MaxFailures
        BY <1>4 DEF CloseFails, Inv, IInv, Types
    <2> QED BY <2>1, EndsStep
<1>5. CASE CallFails
    <2>1. Ends("error") /\ failures' \in 0..MaxFailures
        BY <1>5, LoadAssumption DEF CallFails, Inv, IInv, Types
    <2> QED BY <2>1, EndsStep
<1>6. CASE Crash
    <2>1. Ends("crashed") /\ failures' \in 0..MaxFailures
        BY <1>6 DEF Crash, Inv, IInv, Types
    <2> QED BY <2>1, EndsStep
<1>7. CASE Complete
    BY <1>7, CompleteStep
<1>8. CASE UNCHANGED vars
    BY <1>8, StutterStep
<1> QED BY <1>1, <1>2, <1>3, <1>4, <1>5, <1>6, <1>7, <1>8 DEF Next, ACall

\* The inductive invariant.
THEOREM Invariant == Spec => []Inv
<1>1. Init => Inv
    BY InitResting, RestingInv
<1>2. Inv /\ [Next]_vars => Inv'
    <2>1. Resting' => Inv'
        BY RestingInv, PTL
    <2>2. Starting' => Inv'
        BY StartingInv, PTL
    <2> QED BY <2>1, <2>2, InvStep
<1> QED BY <1>1, <1>2, PTL DEF Spec

\* Rows are pending only while the load runs, less than a batch of each table,
\* and the loaders that are open are never more than three and those of the
\* districts of other shards.
THEOREM TypesAreRight == Spec => []TypeOK
<1>1. Inv => TypeOK
    BY DEF Inv, IInv, Types, Idle, Loaders, Batches, TypeOK
<1> QED BY <1>1, Invariant, PTL

\* When the load reports success, every row that the configuration selects is
\* stored, and no other: with the last batches, and with what runs before that
\* failed had left out.
THEOREM CompletedHasAll == Spec => []CompletedIsComplete
<1>1. Inv => CompletedIsComplete
    BY DEF Inv, Finished, CompletedIsComplete
<1> QED BY <1>1, Invariant, PTL

\* However often the load fails and is run again, no row is stored twice, but
\* history, which has no key, in the database.
THEOREM NothingTwice == Spec => []NoDuplicates
<1>1. Inv => NoDuplicates
    <2> SUFFICES ASSUME Inv, NEW row \in DOMAIN stored
                 PROVE  stored[row] <= (IF Jdbc /\ ~ HasKey(row) THEN runs ELSE 1)
        BY DEF NoDuplicates
    <2>1. Kept /\ Types
        BY InvKept DEF Inv, IInv
    <2>2. row \in Rows(Plans[config])
        <3>1. Rows(Plans[config]) = Expected
            BY <2>1, PlanBlock, ExpectedRows DEF Types, Block
        <3> QED BY <2>1, <3>1 DEF Kept
    <2>3. row \in AllRows
        <3>1. Plans[config] \in Plan
            BY <2>1, PlanBlock DEF Types, Block
        <3> QED BY <2>2, <3>1, RowLoaded
    <2>4. times(stored, row) = stored[row]
        BY DEF times
    <2> QED BY <2>1, <2>3, <2>4 DEF Kept
<1> QED BY <1>1, Invariant, PTL

\* Whenever the load is killed, what is committed has the rows that it names.
THEOREM ParentsAreStored == Spec => []ParentsStored
<1>1. Inv => ParentsStored
    <2>1. Inv => Kept
        BY InvKept
    <2> QED BY <2>1 DEF Kept, ParentsStored
<1> QED BY <1>1, Invariant, PTL
=============================================================================
