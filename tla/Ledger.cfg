\* Every operation, with another request between its unlocked read and its commit.
SPECIFICATION Spec
CONSTANTS
    Accounts = {a1, a2}
    LogIds = {l1}
    TxIds = {t1, t2}
    ReceiptIds = {r1}
    Requests = {q1, q2}
    BalanceLimit = 1
    Sums = {1}
    DeclaredBalances = {1}
    None = None
SYMMETRY Symmetry
CONSTRAINT FewMovements
INVARIANTS
    BalancesExplained
    LedgerInv
PROPERTIES
    BookSpec
    OverdraftIsImported
    DepositsMovedByOldRows
    OnlyFormsDeclare
