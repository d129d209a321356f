\* The second save of a receipt form races another request.
SPECIFICATION Spec
CONSTANTS
    Accounts = {a1, a2}
    LogIds = {l1}
    TxIds = {t1}
    ReceiptIds = {r1}
    Requests = {q1, q2}
    BalanceLimit = 1
    Sums = {1}
    DeclaredBalances = {1}
    None = None
SYMMETRY Symmetry
PROPERTIES
    SecondSaveKeepsBooks
