CONSTANTS
  N = 2
  Block = 4
  DigestLen = 6
  Cases <- MCCases
SPECIFICATION Spec
INVARIANTS
  TypeOK
  ScriptNeverFails
  DigestIsTheWallets
  FrameDescribesStack
  FetchAgreesWithReference
  WitnessInOrder
  DecidesAsReference
  StackWithinEstimate
  ForsRootsAreTheTrees
