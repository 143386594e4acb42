SPECIFICATION Spec
CONSTANTS
    Process = {p1, p2}
    Leaf = {l1, l2}
    Digest = {d1, d2}
    FaultSets = {{}}
    MaxWrites = 3
    None = None
SYMMETRY Symmetry
CHECK_DEADLOCK FALSE
INVARIANT SignOnce
