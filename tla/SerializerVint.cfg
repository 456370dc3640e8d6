\* Strings with a varint length.
CONSTANTS
  Group = 3
  Word = 7
  Double = 10
  Short = 5
  MaxStr = 20
  Format = {"StringVint"}
SPECIFICATION Spec
INVARIANTS
  RoundTrip
