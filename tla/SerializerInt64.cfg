\* 64-bit numbers as zigzag varints.
CONSTANTS
  Group = 3
  Word = 7
  Double = 10
  Short = 5
  MaxStr = 20
  Format = {"Int64"}
SPECIFICATION Spec
INVARIANTS
  RoundTrip
