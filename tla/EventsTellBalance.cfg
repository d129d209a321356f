\* A deposit is moved by an event that is not among its own.
SPECIFICATION Spec
CONSTANTS
    Accounts = {a1, a2}
    LogIds = {1, 2, 3}
    Requests = {q1}
    BalanceLimit = 2
    Sums = {1}
    LastDay = 1
    MaxTerms = 1
    MaxEvents = 3
    None = None
SYMMETRY Symmetry
CHECK_DEADLOCK FALSE
INVARIANTS
    EventsTellBalance
