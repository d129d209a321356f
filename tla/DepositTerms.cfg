\* A deposit through terms, closures, renewals and reversals, and two requests at once.
SPECIFICATION Spec
CONSTANTS
    Accounts = {a1, a2}
    LogIds = {1, 2, 3, 4, 5}
    Requests = {q1, q2}
    BalanceLimit = 2
    Sums = {1}
    LastDay = 3
    MaxTerms = 3
    MaxEvents = 5
    None = None
SYMMETRY Symmetry
CHECK_DEADLOCK FALSE
CONSTRAINT LongAloneOrShort
INVARIANTS
    DepositsInv
    ClosedIsEmpty
    TermsApart
    CurrentIsLast
PROPERTIES
    DriftHasCause
