SPECIFICATION LiveSpec
CONSTANTS
    Threads = 3
    Count = 7
    Chunk = 2
    Zero = 0
    Value <- Values
    f <- Mapped
INVARIANTS TypeOK NoElementTwice SameAsSerial
PROPERTY Returns
