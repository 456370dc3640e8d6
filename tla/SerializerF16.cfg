\* Strings with a 16-bit length.
CONSTANTS
  Group = 3
  Word = 7
  Double = 10
  Short = 5
  MaxStr = 36
  Format = {"StringF16"}
SPECIFICATION Spec
INVARIANTS
  RoundTrip
