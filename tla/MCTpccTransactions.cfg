SPECIFICATION FairSpec
CONSTANTS
    Terminals = {t1, t2}
    Nil = Nil
    Warehouses <- TwoWarehouses
    Customers <- TwoCustomers
    Items <- TwoItems
    DIST_PER_WARE = 2
    MAXITEMS = 2
    ORD_PER_DIST = 1
    LastDelivered = 0
    CustomersNamed <- OneName
    Calls <- SomeCalls
    MaxTransactions = 3
    MaxFailures = 1
INVARIANTS
    TypeOK YtdAgrees OrdersComplete StockMatchesOrders BalancesAgree NoWaitCycle OrderStatusConsistent
PROPERTIES
    OrderQueueSpec TransactionsEnd
CHECK_DEADLOCK FALSE
