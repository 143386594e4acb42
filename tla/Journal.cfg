SPECIFICATION Spec
CONSTANTS
    Process = {p1}
    Leaf = {l1, l2}
    Digest = {d1, d2}
    FaultSets = {{"kill", "write_error", "sync_error"}, {"power"}}
    MaxWrites = 4
    None = None
SYMMETRY Symmetry
CHECK_DEADLOCK FALSE
INVARIANTS TypeOK SignOnce RecordedBeforeRelease MemoryMatchesFile
PROPERTY ImplementsOneTimeKey
