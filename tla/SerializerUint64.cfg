\* 64-bit numbers as varints.
CONSTANTS
  Group = 3
  Word = 7
  Double = 10
  Short = 5
  MaxStr = 20
  Format = {"Uint64"}
SPECIFICATION Spec
INVARIANTS
  RoundTrip
