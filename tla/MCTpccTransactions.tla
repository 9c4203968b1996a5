------------------------- MODULE MCTpccTransactions -------------------------
(* Two warehouses with two districts, two customers and two items.         *)
EXTENDS TpccTransactions, TLC

TwoWarehouses == {1, 2}
TwoCustomers  == {1, 2}
TwoItems      == {1, 2}
OneName       == "BARBARBAR" :> <<1, 2>>

line(w, i, q) == [item |-> i, supply |-> w, qty |-> q]
order(w, d, c, lines) == [kind |-> "NewOrder", w |-> w, d |-> d, c |-> c, lines |-> lines]

\* Two orders that want the same stock of both warehouses in another order,
\* one for an item that does not exist (MAXITEMS + 1), a payment in the district
\* of the one by a customer, named, of the district of the other, and the rest
\* on that district.
SomeCalls == {
    order(1, 1, 1, <<line(2, 1, 10), line(1, 2, 3)>>),
    order(2, 1, 2, <<line(1, 2, 10), line(2, 1, 4)>>),
    order(1, 1, 2, <<line(1, 3, 1)>>),
    [kind |-> "Payment", w |-> 1, d |-> 1, c_w |-> 2, c_d |-> 1, c |-> 2, name |-> "BARBARBAR", amount |-> 1],
    [kind |-> "OrderStat", w |-> 2, d |-> 1, c |-> 1, name |-> Nil],
    [kind |-> "Delivery", w |-> 2],
    [kind |-> "Slev", w |-> 2, d |-> 1, level |-> 10]}
=============================================================================
