SPECIFICATION FairSpec
CONSTANTS
    t1 = t1  t2 = t2  t3 = t3  w1 = w1  w2 = w2
    Task = {t1, t2, t3}
    Wallet = {w1, w2}
    None = None
    Offered <- MCOffered
    Wallets <- MCWallets
INVARIANTS
    UiWaitsForTheLogOnly
PROPERTIES
    EveryCallIsAnswered
\* The calls end when all of them are answered.
CHECK_DEADLOCK FALSE
