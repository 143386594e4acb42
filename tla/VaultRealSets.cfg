CONSTANTS
  N = 16
  Block = 64
  DigestLen = 32
  Cases <- MCCases
SPECIFICATION Spec
INVARIANTS
  ScriptNeverFails
  FetchAgreesWithReference
  ChainsMeetTheirDigits
  DecidesAsReference
  StackWithinEngine
