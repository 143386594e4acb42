SPECIFICATION LiveSpec
CONSTANTS
    LeafCount = 4
    Window = 3
    Payments = {12, 50}
    Amounts = {4, 33}
    Fees = {4, 126}
    Word = 128
    Dust = 2
    FeeFloor = 5
    StorageC = 24
    MassLimit = 12
    MaxDeposits = 3
    FaultSets = {{"evict", "reorg", "restore"}, {"evict", "restore"}}
    None = None
CHECK_DEADLOCK FALSE
INVARIANTS
    TypeOK
    SignOnceWithinWindow
    ChangeIsSpendableWithinWindow
    FundsLieBeyondSpentLeaves
    SignedCanConfirm
PROPERTIES
    FreshSignatureSpendsLiveFunds
    SignedConfirms
