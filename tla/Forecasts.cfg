\* One term of each kind of schedule, with every operation that rebuilds it.
SPECIFICATION Spec
CONSTANTS
    MonthLengths <- Months
    Weekend = {4, 6}
    Terms <- MCTerms
    Rates = {1, 2}
    OperationDays = {2, 5}
    MaxEvents = 3
    MaxRates = 2
CONSTRAINT Few
CHECK_DEADLOCK FALSE

    
PROPERTIES
    PaidRowsStay
    
    PeriodsStay
    
