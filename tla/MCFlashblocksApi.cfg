CONSTANTS
    p1 = p1
    p2 = p2
    p3 = p3
    d1 = d1
    d2 = d2
    t2 = t2
    t3 = t3
    sys = sys
    alice = alice
    None = None
    Payloads = {p1, p2, p3}
    Txs <- MCTxs
    Accounts = {alice}
    Sender <- MCSender
    Height <- MCHeight
    Capacity = 1
    WireCapacity = 1
SPECIFICATION ApiSpec
INVARIANT CacheIsConsistent
 
 
PROPERTY ReceiptIsFound
