\* The last leaf is past the window; two empty vaults end the discovery.
SPECIFICATION Spec
CONSTANTS
    LeafCount = 3
    KeyIndices = 5
    LeafWindow = 2
    GapLimit = 2
    LEAF_CRITICAL_REMAINING = 1
    LEAF_WARNING_THRESHOLD = 1
    MaxCoins = 2
CHECK_DEADLOCK FALSE
INVARIANTS
    TypeOK
    DiscoveryMissesNoMoney
    LastLeafIsAnnounced
