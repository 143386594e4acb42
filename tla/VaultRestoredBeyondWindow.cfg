SPECIFICATION Spec
CONSTANTS
    LeafCount = 4
    Window = 2
    Payments = {50}
    Amounts = {4, 5}
    Fees = {}
    Word = 128
    Dust = 2
    FeeFloor = 5
    StorageC = 24
    MassLimit = 12
    MaxDeposits = 2
    FaultSets = {{"restore"}}
    None = None
CHECK_DEADLOCK FALSE
INVARIANT SignOnce
