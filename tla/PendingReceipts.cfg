\* Two rows for one sale, two requests, two tasks for a row.
SPECIFICATION Spec
CONSTANTS
    Photos = {p1}
    Scans = {s1}
    Requests = {q1, q2}
    MaxRows = 2
    MaxTasks = 2
    MaxReceipts = 2
    MaxBusy = 2
CONSTRAINT PairsAreYoung
INVARIANTS
    PendingInv
    OneReceiptPerSale
PROPERTIES
    LateTasksHarmless
    
    ProcessingEnds
    RowsPurged
