SPECIFICATION LiveSpec
CONSTANTS
    Orders = {4, 5, 7}
    Payments = {14, 60}
    Plenty = 60
    Fees = {126}
    Word = 128
    Dust = 2
    FeeFloor = 5
    StorageC = 24
    MassLimit = 12
    MaxDeposits = 2
    MaxLost = 1
    None = None
CHECK_DEADLOCK FALSE
INVARIANTS TypeOK PaidOncePerReply FeasibleSpendIsBuilt
PROPERTY OrdersPaid
