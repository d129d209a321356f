\* A closure is reversed after a second one was made on the same dates.
SPECIFICATION Spec
CONSTANTS
    Accounts = {a1, a2}
    LogIds = {1, 2, 3, 4, 5, 6, 7, 8}
    Requests = {q1}
    BalanceLimit = 2
    Sums = {1}
    LastDay = 3
    MaxTerms = 2
    MaxEvents = 8
    None = None
SYMMETRY Symmetry
CHECK_DEADLOCK FALSE
CONSTRAINT OneDeposit
PROPERTIES
    FinalPaidBack
