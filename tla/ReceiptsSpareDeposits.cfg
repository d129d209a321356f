\* A receipt sent to the API charges a deposit account.
SPECIFICATION Spec
CONSTANTS
    Accounts = {a1, a2}
    LogIds = {l1}
    TxIds = {t1}
    ReceiptIds = {r1}
    Requests = {q1}
    BalanceLimit = 1
    Sums = {1}
    DeclaredBalances = {1}
    None = None
SYMMETRY Symmetry
PROPERTIES
    ReceiptsSpareDeposits
