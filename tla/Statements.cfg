SPECIFICATION Spec
CONSTANTS
    Files = {f1, f2}
    NoFile = none
    RowCount = 2
    Referenced = {1}
    BatchSize = 10
    MaxRetries = 1
    MaxTxs = 2
    MaxRows = 2
CONSTRAINT PairsAreYoung
INVARIANTS
    StatementsTypeOK
    PostedOnce
    ImportedNotOverstated
PROPERTIES
    FinishedCoversAll
    DecisionsFinal
    LinkedToEqual
    
CHECK_DEADLOCK FALSE
