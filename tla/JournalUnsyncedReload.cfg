SPECIFICATION Spec
CONSTANTS
    Process = {p1}
    Leaf = {l1, l2}
    Digest = {d1, d2}
    FaultSets = {{"kill", "power"}}
    MaxWrites = 3
    None = None
SYMMETRY Symmetry
CHECK_DEADLOCK FALSE
INVARIANT SignOnce
