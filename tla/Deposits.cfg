\* Two accounts, one request at a time: money in, out and back, closures included.
SPECIFICATION Spec
CONSTANTS
    Accounts = {a1, a2}
    LogIds = {1, 2, 3, 4, 5}
    Requests = {q1}
    BalanceLimit = 2
    Sums = {1}
    LastDay = 2
    MaxTerms = 1
    MaxEvents = 5
    None = None
SYMMETRY Symmetry
CHECK_DEADLOCK FALSE
CONSTRAINT FewOriginals
INVARIANTS
    CompensatedOnce
PROPERTIES
    JournalSpec
