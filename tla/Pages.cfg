CONSTANTS
    MonthLengths <- MCMonthLengths
    Users = {"ann", "bob"}
    Accounts = {"anns", "bobs", "sber", "raif", "card"}
    Owner <- MCOwner
    Opening <- MCOpening
    Categories = {"food", "fun", "whole"}
    CreditCards = {"sber", "raif", "card"}
    Bank <- MCBank
    CreditLimit <- MCCreditLimit
    GraceMonths = 1
    GraceDays = 2
    StatMonths = 2
    TrendDays = 2
    TopLimit = 1
    Threshold = 80
    Whole = "whole"
    RatePart = 1
    RateWhole = 10
    Changes <- MCChanges
    NewLoans <- MCNewLoans
    Workers = {w1, w2}
    MaxVersion = 3
    MaxEvents = 3
SPECIFICATION MCSpec
SYMMETRY WorkersAlike
CONSTRAINTS OwnKeysOnly SmallOnly
INVARIANTS
    StalePageHasCause
    FiguresAgree
    CardDebtsAgree
    
