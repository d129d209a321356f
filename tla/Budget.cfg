CONSTANTS
    Users = {"ann", "bob"}
    Groups = {"default", "own"}
    Default = "default"
    Visits = {v1, v2, v3}
    Categories = {c1, c2, c3}
    NoCategory = none
    Months = {1, 2, 3, 4, 5}
    Entered = {1, 2}
    ThisMonth = 1
    Batch = 2
    Amounts = {0, 1600, 1999}
    LimitAmounts = {2000}
    Thresholds = {50, 80}
    TreeDepth = 2
    FormIds = {f1}
    PressIds = {k1, k2}
SPECIFICATION MCSpec
SYMMETRY KeysAlike
INVARIANTS
    MembershipAgrees
    
    TreeCounts
    MonthsContiguous
    LimitsAgree
CHECK_DEADLOCK FALSE
