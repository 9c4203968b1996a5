-------------------------- MODULE TpccTransactions --------------------------
(***************************************************************************)
(* The five TPC-C transactions (NewOrder, Payment, OrderStat, Delivery,    *)
(* Slev), run by several terminals on one database.  A step is what a      *)
(* transaction does from one statement that may wait for a lock to the     *)
(* next.  Any statement may throw an SQLException: the transaction then    *)
(* rolls back and returns 0, and Driver calls it again with the same       *)
(* arguments.  Names, addresses and other columns that no transaction      *)
(* changes are left out; an amount is the quantity ordered.                *)
(***************************************************************************)
EXTENDS TpccDatabase, SequencesExt

CONSTANTS
    Warehouses, Customers, Items,
    DIST_PER_WARE,      \* 10 in the code
    MAXITEMS,           \* 100000, the largest item number
    ORD_PER_DIST,       \* orders of a district that Load makes, 3000
    LastDelivered,      \* the last of them that has been delivered, 2100
    CustomersNamed,     \* last name -> customers of a district, by c_first
    Calls,              \* the calls that Driver may make
    MaxTransactions,    \* bounds the calls
    MaxFailures         \* bounds the exceptions

Districts    == 1..DIST_PER_WARE
OrderNumbers == 1..(ORD_PER_DIST + MaxTransactions)

NewOrderCall == [kind : {"NewOrder"}, w : Warehouses, d : Districts, c : Customers,
                 lines : Seq([item : Int, supply : Warehouses, qty : 1..10]) \ {<<>>}]
PaymentCall  == [kind : {"Payment"}, w : Warehouses, d : Districts, c_w : Warehouses,
                 c_d : Districts, c : Customers, name : DOMAIN CustomersNamed \cup {Nil},
                 amount : Nat \ {0}]
OrderStatCall == [kind : {"OrderStat"}, w : Warehouses, d : Districts, c : Customers,
                  name : DOMAIN CustomersNamed \cup {Nil}]
DeliveryCall  == [kind : {"Delivery"}, w : Warehouses]
SlevCall      == [kind : {"Slev"}, w : Warehouses, d : Districts, level : 10..20]

ASSUME TpccAssumption ==
    /\ DIST_PER_WARE \in Nat \ {0} /\ ORD_PER_DIST \in Nat /\ LastDelivered \in 0..ORD_PER_DIST
    /\ Warehouses \subseteq Nat \ {0} /\ Customers \in (SUBSET (Nat \ {0})) \ {{}}
    /\ MAXITEMS \in Nat /\ Items \in (SUBSET (1..MAXITEMS)) \ {{}}
    /\ \A n \in DOMAIN CustomersNamed : CustomersNamed[n] \in Seq(Customers)
    /\ \A call \in Calls : \/ call \in NewOrderCall \/ call \in PaymentCall
                           \/ call \in OrderStatCall \/ call \in DeliveryCall
                           \/ call \in SlevCall
    /\ MaxTransactions \in Nat /\ MaxFailures \in Nat

VARIABLES
    pc,       \* per terminal: "idle", or the statement that is next
    tx,       \* per terminal: the call
    loc,      \* per terminal: local variables of the call
    started,  \* number of calls so far
    failures  \* number of exceptions so far

vars == <<db, work, snap, held, pc, tx, loc, started, failures>>

-----------------------------------------------------------------------------
(* Rows.  The lines of an order are one row: they are always used together.*)

Warehouse(w)       == <<"warehouse", w>>
District(w, d)     == <<"district", w, d>>
Customer(w, d, c)  == <<"customer", w, d, c>>
Stock(w, i)        == <<"stock", w, i>>
Order(w, d, o)     == <<"orders", w, d, o>>
NewOrderRow(w, d, o) == <<"new_orders", w, d, o>>
OrderLines(w, d, o)  == <<"order_line", w, d, o>>
History(n)         == <<"history", n>>

\* The columns that the transactions change, or compare.
DistrictRow == [ytd : Int, next : Nat]
CustomerRow == [balance : Int, deliveries : Nat]
OrderRow    == [cust : Customers, carrier : BOOLEAN, ol_cnt : Nat]
LineRow     == [item : Items, supply : Warehouses, qty : 1..10, amount : Nat, delivered : BOOLEAN]
HistoryRow  == [w : Warehouses, d : Districts, amount : Nat,
                cust : {Customer(w, d, c) : w \in Warehouses, d \in Districts, c \in Customers}]

\* No row is Nil, which stands for a deleted one.
ASSUME NilAssumption ==
    /\ Nil \notin DistrictRow /\ Nil \notin OrderRow /\ Nil \notin Seq(LineRow) /\ Nil \notin BOOLEAN
    /\ Nil \notin HistoryRow /\ Nil \notin CustomerRow /\ Nil \notin Int

W_YTD == 3000000
D_YTD == 30000
InitialStock == 10

IsDelivered(o)   == o <= LastDelivered
LoadedLine(w, o) == [item |-> CHOOSE i \in Items : TRUE, supply |-> w, qty |-> 5,
                     amount |-> IF IsDelivered(o) THEN 1 ELSE 0, delivered |-> IsDelivered(o)]
AnyCustomer      == CHOOSE c \in Customers : TRUE

RowsOf(keys, value(_)) == [k \in keys |-> value(k)]

\* What Load leaves in the tables.
LoadedRows ==
    LET orders == {Order(w, d, o) : w \in Warehouses, d \in Districts, o \in 1..ORD_PER_DIST}
    IN     RowsOf({Warehouse(w) : w \in Warehouses}, LAMBDA k : W_YTD)
        ++ RowsOf({District(w, d) : w \in Warehouses, d \in Districts},
                  LAMBDA k : [ytd |-> D_YTD, next |-> ORD_PER_DIST + 1])
        ++ RowsOf({Customer(w, d, c) : w \in Warehouses, d \in Districts, c \in Customers},
                  LAMBDA k : [balance |-> -10, deliveries |-> 0])
        ++ RowsOf({Stock(w, i) : w \in Warehouses, i \in Items}, LAMBDA k : InitialStock)
        ++ RowsOf(orders, LAMBDA k : [cust |-> AnyCustomer, carrier |-> IsDelivered(k[4]), ol_cnt |-> 1])
        ++ RowsOf({OrderLines(k[2], k[3], k[4]) : k \in orders}, LAMBDA k : <<LoadedLine(k[2], k[4])>>)
        ++ RowsOf({NewOrderRow(k[2], k[3], k[4]) : k \in {o \in orders : ~IsDelivered(o[4])}},
                  LAMBDA k : TRUE)

\* Orders of a district among the given rows: all, new ones, those of c.
OrderIds(rows, w, d)    == {o \in OrderNumbers : Order(w, d, o) \in DOMAIN rows}
NewOrderIds(rows, w, d) == {o \in OrderNumbers : NewOrderRow(w, d, o) \in DOMAIN rows}
OrdersOf(rows, w, d, c) == {o \in OrderIds(rows, w, d) : rows[Order(w, d, o)].cust = c}

-----------------------------------------------------------------------------
(* Helpers.                                                                *)

NoLocals == [no |-> 0, o |-> 0, d |-> 1, c |-> 0, n |-> 1, lines |-> <<>>, order |-> Nil]
NoCall   == [kind |-> "none"]

goto(t, label) == pc' = [pc EXCEPT ![t] = label]
set(t, locals) == loc' = [loc EXCEPT ![t] = locals]
at(t, label)   == pc[t] = label

bookkeeping == <<tx, started, failures>>

firstStatement(call) ==
    CASE call.kind = "NewOrder"  -> "district"
      [] call.kind = "Payment"   -> "warehouse"
      [] call.kind = "OrderStat" -> "status"
      [] call.kind = "Delivery"  -> "oldest"
      [] call.kind = "Slev"      -> "level"

\* "Locate midpoint customer": the first of the middle ones by c_first; no
\* row is read, and the argument kept, when nobody has the name.
midpoint(name, c) ==
    LET namecnt == Len(CustomersNamed[name])
        half    == IF namecnt % 2 = 1 THEN (namecnt + 1) \div 2 ELSE namecnt \div 2
    IN  IF half = 0 THEN c ELSE CustomersNamed[name][half]

X(key) == <<key, "X">>
S(key) == <<key, "S">>

\* The locks that the next statement of t has to wait for.
requests(t) ==
    LET c == tx[t]
        l == loc[t]
    IN  CASE at(t, "district")  -> {X(District(c.w, c.d))}
          [] at(t, "order")     -> {S(Customer(c.w, c.d, c.c))}
          [] at(t, "line")      -> {X(Stock(l.lines[l.n].supply, l.lines[l.n].item))}
          [] at(t, "warehouse") -> {X(Warehouse(c.w))}
          [] at(t, "payment")   -> {X(District(c.w, c.d))}
          [] at(t, "customer")  -> {X(Customer(c.c_w, c.c_d, l.c))}
          [] at(t, "delete")    -> {X(k) : k \in {NewOrderRow(c.w, l.d, l.o)} \cap DOMAIN db}
          [] at(t, "carrier")   -> {X(Order(c.w, l.d, l.o)), X(OrderLines(c.w, l.d, l.o))}
          [] at(t, "credit")    -> {X(Customer(c.w, l.d, l.c))}
          [] OTHER              -> {}

\* The two kinds of statement: one that locks rows and changes them, and a
\* plain SELECT.
Update(t, label) ==
    /\ at(t, label) /\ Acquire(t, requests(t))
    /\ UNCHANGED <<db, snap, bookkeeping>>
Select(t, label) ==
    /\ at(t, label) /\ TakeSnapshot(t)
    /\ UNCHANGED <<db, work, held, bookkeeping>>

-----------------------------------------------------------------------------
(* New Order.                                                              *)

\* Mutant: the SELECT without FOR UPDATE.
TakeOrderNumber_unlocked(t) ==
    LET key == District(tx[t].w, tx[t].d)
        row == Latest(t)[key]
    IN  /\ at(t, "district") /\ UNCHANGED <<db, snap, held, bookkeeping>>
        /\ Write(t, Row(key, [row EXCEPT !.next = @ + 1]))
        /\ set(t, [loc[t] EXCEPT !.o = row.next])
        /\ goto(t, "order")

\* SELECT d_next_o_id ... FOR UPDATE and the UPDATE that adds one to it.  The
\* plain SELECTs of New Order read columns that never change and are left out,
\* with the snapshot the first of them takes, which only they read.
TakeOrderNumber(t) ==
    LET key == District(tx[t].w, tx[t].d)
        row == Latest(t)[key]
    IN  /\ Update(t, "district")
        /\ Write(t, Row(key, [row EXCEPT !.next = @ + 1]))
        /\ set(t, [loc[t] EXCEPT !.o = row.next])
        /\ goto(t, "order")

\* Mutant: the lines are taken as the call gives them.
sortedLines_asGiven(lines) == lines

rank(l) == (MAXITEMS + 1) * l.supply + l.item

\* "sort orders to avoid DeadLock": the lines in the order of their ranks.
sortedLines(lines) ==
    CHOOSE s \in {[i \in DOMAIN lines |-> lines[p[i]]] : p \in Bijection(DOMAIN lines, DOMAIN lines)} :
        \A i, j \in DOMAIN lines : i < j => rank(s[i]) <= rank(s[j])

\* The foreign key makes the database lock the customer's row.
InsertOrder(t) ==
    LET call == tx[t]
        o    == loc[t].o
    IN  /\ Update(t, "order")
        /\ Write(t, Row(Order(call.w, call.d, o),
                        [cust |-> call.c, carrier |-> FALSE, ol_cnt |-> Len(call.lines)])
                    ++ Row(NewOrderRow(call.w, call.d, o), TRUE)
                    ++ Row(OrderLines(call.w, call.d, o), <<>>))
        /\ set(t, [loc[t] EXCEPT !.lines = sortedLines(call.lines)])
        /\ goto(t, "line")

\* Mutant: restocks one unit too late.
nextQuantity_late(s_quantity, ol_quantity) ==
    IF s_quantity >= ol_quantity THEN s_quantity - ol_quantity ELSE s_quantity - ol_quantity + 91

nextQuantity(s_quantity, ol_quantity) ==
    IF s_quantity > ol_quantity THEN s_quantity - ol_quantity ELSE s_quantity - ol_quantity + 91

OrderLine(t) ==
    LET n     == loc[t].n
        line  == loc[t].lines[n]
        lines == OrderLines(tx[t].w, tx[t].d, loc[t].o)
        stock == Stock(line.supply, line.item)
    IN  /\ Update(t, "line")
        /\ line.item \in Items
        /\ Write(t, Row(stock, nextQuantity(Latest(t)[stock], line.qty))
                    ++ Row(lines, Append(Latest(t)[lines],
                                         [item |-> line.item, supply |-> line.supply, qty |-> line.qty,
                                          amount |-> line.qty, delivered |-> FALSE])))
        /\ set(t, [loc[t] EXCEPT !.n = n + 1])
        /\ goto(t, IF n = Len(loc[t].lines) THEN "commit" ELSE "line")

\* Mutant: AbortedTransactionException is caught without a rollback.
NoItem_noRollback(t) ==
    /\ at(t, "line") /\ loc[t].lines[loc[t].n].item \notin Items
    /\ goto(t, "idle")
    /\ UNCHANGED <<databaseVars, loc, bookkeeping>>

\* The SELECT on item finds no row: the transaction is aborted on purpose.
NoItem(t) ==
    /\ at(t, "line") /\ loc[t].lines[loc[t].n].item \notin Items
    /\ rollback(t)
    /\ goto(t, "idle")
    /\ UNCHANGED <<loc, bookkeeping>>

-----------------------------------------------------------------------------
(* Payment.                                                                *)

\* Mutant: w_ytd is read, added to and written back without a lock.
PayWarehouse_unlocked(t) ==
    LET key == Warehouse(tx[t].w)
    IN  /\ at(t, "warehouse") /\ UNCHANGED <<db, snap, held, bookkeeping>>
        /\ Write(t, Row(key, Latest(t)[key] + tx[t].amount))
        /\ goto(t, "payment")
        /\ UNCHANGED loc

PayWarehouse(t) ==
    LET key == Warehouse(tx[t].w)
    IN  /\ Update(t, "warehouse")
        /\ Write(t, Row(key, Latest(t)[key] + tx[t].amount))
        /\ goto(t, "payment")
        /\ UNCHANGED loc

\* ... and the search for the customer when the call names one.
PayDistrict(t) ==
    LET call == tx[t]
        key  == District(call.w, call.d)
        row  == Latest(t)[key]
    IN  /\ Update(t, "payment")
        /\ Write(t, Row(key, [row EXCEPT !.ytd = @ + call.amount]))
        /\ set(t, [loc[t] EXCEPT !.c = IF call.name = Nil THEN call.c ELSE midpoint(call.name, call.c)])
        /\ goto(t, "customer")

\* Mutant: the SELECT of the customer without FOR UPDATE.
PayCustomer_unlocked(t) ==
    LET call == tx[t]
        key  == Customer(call.c_w, call.c_d, loc[t].c)
        row  == Latest(t)[key]
    IN  /\ at(t, "customer") /\ UNCHANGED <<db, snap, held, bookkeeping>>
        /\ Write(t, Row(key, [row EXCEPT !.balance = @ + call.amount])
                    ++ Row(History(loc[t].no),
                           [w |-> call.w, d |-> call.d, cust |-> key, amount |-> call.amount]))
        /\ goto(t, "commit")
        /\ UNCHANGED loc

\* SELECT ... FOR UPDATE, the addition, UPDATE, and the row of history.
PayCustomer(t) ==
    LET call == tx[t]
        key  == Customer(call.c_w, call.c_d, loc[t].c)
        row  == Latest(t)[key]
    IN  /\ Update(t, "customer")
        /\ Write(t, Row(key, [row EXCEPT !.balance = @ + call.amount])
                    ++ Row(History(loc[t].no),
                           [w |-> call.w, d |-> call.d, cust |-> key, amount |-> call.amount]))
        /\ goto(t, "commit")
        /\ UNCHANGED loc

-----------------------------------------------------------------------------
(* Delivery: the oldest new order of each district of a warehouse.         *)

nextDistrict(t) ==
    /\ set(t, [loc[t] EXCEPT !.d = @ + 1])
    /\ goto(t, IF loc[t].d = DIST_PER_WARE THEN "commit" ELSE "oldest")

\* A plain SELECT: nothing keeps another Delivery from reading the same.
FindOldest(t) ==
    LET ids == NewOrderIds(View(t), tx[t].w, loc[t].d)
    IN  /\ Select(t, "oldest")
        /\ IF ids = {} THEN nextDistrict(t)
                       ELSE set(t, [loc[t] EXCEPT !.o = Min(ids)]) /\ goto(t, "delete")

\* The number of rows that DELETE reports is ignored.
DeleteNewOrder(t) ==
    LET key == NewOrderRow(tx[t].w, loc[t].d, loc[t].o)
    IN  /\ Update(t, "delete")
        /\ IF key \in DOMAIN Latest(t) THEN Write(t, Row(key, Nil)) ELSE UNCHANGED work
        /\ goto(t, "carrier")
        /\ UNCHANGED loc

\* The UPDATEs of the order and of its lines.  One step, since only Deliveries
\* lock such rows, the order first: nobody waits for lines without the order.
SetCarrier(t) ==
    LET order == Order(tx[t].w, loc[t].d, loc[t].o)
        lines == OrderLines(tx[t].w, loc[t].d, loc[t].o)
        rows  == Latest(t)
    IN  /\ Update(t, "carrier")
        /\ Write(t, Row(order, [rows[order] EXCEPT !.carrier = TRUE])
                    ++ Row(lines, [i \in DOMAIN rows[lines] |->
                                      [rows[lines][i] EXCEPT !.delivered = TRUE]]))
        /\ set(t, [loc[t] EXCEPT !.c = View(t)[order].cust])
        /\ goto(t, "credit")

SumOf(f)     == FoldFunction(+, 0, f)
Total(lines) == SumOf([n \in DOMAIN lines |-> lines[n].amount])

CreditCustomer(t) ==
    LET key == Customer(tx[t].w, loc[t].d, loc[t].c)
        row == Latest(t)[key]
        sum == Total(View(t)[OrderLines(tx[t].w, loc[t].d, loc[t].o)])
    IN  /\ Update(t, "credit")
        /\ Write(t, Row(key, [row EXCEPT !.balance = @ + sum, !.deliveries = @ + 1]))
        /\ nextDistrict(t)

-----------------------------------------------------------------------------
(* Order Status and Stock Level only read.                                 *)

\* By name the customer's data are those of the midpoint customer, but c_id,
\* and with it the order, stays the one of the argument.
FindOrder(t) ==
    LET call == tx[t]
        ids  == OrdersOf(View(t), call.w, call.d, call.c)
        o    == IF ids = {} THEN 0 ELSE Max(ids)
    IN  /\ Select(t, "status")
        /\ set(t, [loc[t] EXCEPT !.o = o,
                     !.c = IF call.name = Nil THEN call.c ELSE midpoint(call.name, call.c),
                     !.order = IF ids = {} THEN Nil ELSE View(t)[Order(call.w, call.d, o)]])
        /\ goto(t, "lines")

ReadLines(t) ==
    LET key == OrderLines(tx[t].w, tx[t].d, loc[t].o)
    IN  /\ Select(t, "lines")
        /\ set(t, [loc[t] EXCEPT !.lines = IF key \in DOMAIN View(t) THEN View(t)[key] ELSE <<>>])
        /\ goto(t, "commit")

\* The statement for the items of the last 20 orders gets its arguments, but
\* the one for d_next_o_id is executed again: its number is taken for an item.
ReadLevel(t) ==
    /\ Select(t, "level")
    /\ set(t, [loc[t] EXCEPT !.n = View(t)[District(tx[t].w, tx[t].d)].next])
    /\ goto(t, "count")

CountStock(t) ==
    LET low == {k \in {Stock(tx[t].w, loc[t].n)} \cap DOMAIN View(t) : View(t)[k] < tx[t].level}
    IN  /\ Select(t, "count")
        /\ set(t, [loc[t] EXCEPT !.n = Cardinality(low)])
        /\ goto(t, "commit")

-----------------------------------------------------------------------------
(* Beginning and end of a transaction.                                     *)

Begin(t, call) ==
    /\ at(t, "idle") /\ started < MaxTransactions
    /\ tx' = [tx EXCEPT ![t] = call]
    /\ started' = started + 1
    /\ set(t, [NoLocals EXCEPT !.no = started + 1])
    /\ goto(t, firstStatement(call))
    /\ UNCHANGED <<db, work, snap, held, failures>>

Commit(t) ==
    /\ at(t, "commit")
    /\ commit(t)
    /\ goto(t, "idle")
    /\ UNCHANGED <<loc, bookkeeping>>

\* Mutant: the transaction stays open when its commit has failed.
CommitFails_staysOpen(t) ==
    /\ at(t, "commit") /\ failures < MaxFailures
    /\ failures' = failures + 1
    /\ goto(t, "idle")
    /\ UNCHANGED <<databaseVars, loc, tx, started>>

\* TpccStatements logs the exception; the transaction returns 1 all the same.
CommitFails(t) ==
    /\ at(t, "commit") /\ failures < MaxFailures
    /\ commit(t) \/ rollback(t)
    /\ failures' = failures + 1
    /\ goto(t, "idle")
    /\ UNCHANGED <<loc, tx, started>>

\* Mutant: what has been written is kept.
Fail_commits(t) ==
    /\ ~at(t, "idle") /\ ~at(t, "commit") /\ failures < MaxFailures
    /\ commit(t)
    /\ failures' = failures + 1
    /\ set(t, [NoLocals EXCEPT !.no = loc[t].no])
    /\ goto(t, firstStatement(tx[t]))
    /\ UNCHANGED <<tx, started>>

\* A statement throws, also after waiting for a lock: the transaction rolls
\* back and returns 0, and Driver calls it again (up to 2000 times, which is
\* more than MaxFailures).
Fail(t) ==
    /\ ~at(t, "idle") /\ ~at(t, "commit") /\ failures < MaxFailures
    /\ rollback(t)
    /\ failures' = failures + 1
    /\ set(t, [NoLocals EXCEPT !.no = loc[t].no])
    /\ goto(t, firstStatement(tx[t]))
    /\ UNCHANGED <<tx, started>>

Init ==
    /\ DatabaseInit(LoadedRows)
    /\ pc  = [t \in Terminals |-> "idle"]
    /\ tx  = [t \in Terminals |-> NoCall]
    /\ loc = [t \in Terminals |-> NoLocals]
    /\ started = 0 /\ failures = 0

Statement(t) ==
    \/ TakeOrderNumber(t) \/ InsertOrder(t) \/ OrderLine(t) \/ NoItem(t)
    \/ PayWarehouse(t) \/ PayDistrict(t) \/ PayCustomer(t)
    \/ FindOldest(t) \/ DeleteNewOrder(t) \/ SetCarrier(t) \/ CreditCustomer(t)
    \/ FindOrder(t) \/ ReadLines(t) \/ ReadLevel(t) \/ CountStock(t)
    \/ Commit(t)

Next == \E t \in Terminals :
    \/ \E call \in Calls : Begin(t, call)
    \/ Statement(t) \/ CommitFails(t) \/ Fail(t)

\* The thread of a terminal goes on as long as the database lets it.
Fairness == \A t \in Terminals : WF_vars(Statement(t))

Spec     == Init /\ [][Next]_vars
FairSpec == Spec /\ Fairness

-----------------------------------------------------------------------------
(* Properties of the committed rows.                                       *)

Labels == {"idle", "district", "order", "line", "warehouse", "payment", "customer", "oldest",
           "delete", "carrier", "credit", "status", "lines", "level", "count", "commit"}

\* Every variable has its type: rows that are written and locks that are held
\* only inside a transaction.
TypeOK ==
    /\ pc \in [Terminals -> Labels]
    /\ \A t \in Terminals : /\ tx[t] \in Calls \cup {NoCall}
                            /\ DOMAIN loc[t] = DOMAIN NoLocals
                            /\ held[t] \subseteq {<<l[1], m>> : l \in held[t], m \in {"S", "X"}}
                            /\ at(t, "idle") => work[t] = NoRows /\ held[t] = {} /\ snap[t] = NoRows
    /\ started \in 0..MaxTransactions /\ failures \in 0..MaxFailures

\* The payments, and the lines <<key, n>> of the orders, made since the load.
Payments == {History(n) : n \in 1..started} \cap DOMAIN db
NewLines ==
    LET orders == {OrderLines(w, d, o) : w \in Warehouses, d \in Districts,
                                         o \in OrderNumbers \ 1..ORD_PER_DIST} \cap DOMAIN db
    IN  UNION {{k} \X DOMAIN db[k] : k \in orders}

\* What came in since the load agrees in the three places that Payment adds it
\* to: w_ytd of a warehouse, d_ytd of its districts, the rows of history.
YtdAgrees ==
    \A w \in Warehouses :
        LET paid(keys) == SumOf([k \in keys |-> db[k].amount])
            history == {k \in Payments : db[k].w = w}
        IN  /\ db[Warehouse(w)] - W_YTD = paid(history)
            /\ \A d \in Districts :
                   db[District(w, d)].ytd - D_YTD = paid({k \in history : db[k].d = d})

\* Order numbers have no gaps, every order has its lines, and an order has been
\* given to a carrier exactly when its lines are delivered and it is not new.
OrdersComplete ==
    \A w \in Warehouses, d \in Districts :
        LET ids == OrderIds(db, w, d)
        IN  /\ ids = 1..db[District(w, d)].next - 1
            /\ NewOrderIds(db, w, d) \subseteq ids
            /\ \A o \in ids :
                   LET order == db[Order(w, d, o)]
                       lines == db[OrderLines(w, d, o)]
                   IN  /\ Len(lines) = order.ol_cnt
                       /\ order.carrier = (o \notin NewOrderIds(db, w, d))
                       /\ \A i \in DOMAIN lines : lines[i].delivered = order.carrier

\* No update of a stock is lost: what is gone from it is what the lines of the
\* new orders took, up to the restocking by 91.  It is never empty.
StockMatchesOrders ==
    LET lines   == NewLines
        line(l) == db[l[1]][l[2]]
    IN  \A w \in Warehouses, i \in Items :
            LET taking == {l \in lines : line(l).item = i /\ line(l).supply = w}
            IN  /\ (InitialStock - db[Stock(w, i)] - SumOf([l \in taking |-> line(l).qty])) % 91 = 0
                /\ db[Stock(w, i)] \in 1..100

\* A customer has been credited every order of his that was delivered; if none
\* was credited twice, his balance is what he paid and what he was credited.
BalancesAgree ==
    \A w \in Warehouses, d \in Districts, c \in Customers :
        LET key       == Customer(w, d, c)
            delivered == {o \in OrdersOf(db, w, d, c) : o > LastDelivered /\ db[Order(w, d, o)].carrier}
            payments  == {k \in Payments : db[k].cust = key}
            due       == SumOf([o \in delivered |-> Total(db[OrderLines(w, d, o)])])
                         + SumOf([k \in payments |-> db[k].amount])
        IN  /\ db[key].deliveries >= Cardinality(delivered)
            /\ db[key].deliveries = Cardinality(delivered) => db[key].balance = due - 10

-----------------------------------------------------------------------------
(* Properties of the transactions.                                         *)

\* Terminals never wait for each other in a circle ("sort orders to avoid
\* DeadLock"): the order in which all five take their locks has no cycle.
NoWaitCycle ==
    ~\E circle \in (SUBSET Terminals) \ {{}} :
        \A t \in circle : \E u \in circle : Blocks(u, t, requests(t))

\* The lines that Order Status shows are those of the order it shows, although
\* a Delivery may commit between the two SELECTs.
OrderStatusConsistent ==
    \A t \in Terminals : at(t, "commit") /\ tx[t].kind = "OrderStat" /\ loc[t].order # Nil =>
        /\ Len(loc[t].lines) = loc[t].order.ol_cnt
        /\ \A i \in DOMAIN loc[t].lines : loc[t].lines[i].delivered = loc[t].order.carrier

\* Every transaction comes to an end, whatever locks the others hold.
TransactionsEnd == \A t \in Terminals : []<>at(t, "idle")

\* The numbers of the set in ascending order.
ascending(ids) ==
    [i \in 1..Cardinality(ids) |-> CHOOSE o \in ids : Cardinality({p \in ids : p <= o}) = i]

\* The undelivered orders of a district are a queue.
Queue == INSTANCE OrderQueue WITH
    FirstNumber <- ORD_PER_DIST + 1,
    next  <- [wd \in Warehouses \X Districts |-> db[District(wd[1], wd[2])].next],
    queue <- [wd \in Warehouses \X Districts |-> ascending(NewOrderIds(db, wd[1], wd[2]))]

\* Order numbers are given out in turn and an order leaves by Delivery only,
\* the oldest of its district first, once, also when two Deliveries overlap.
OrderQueueSpec == Queue!Spec
=============================================================================
