\* Every value of the integer formats, strings shorter and longer than a short length.
CONSTANTS
  Group = 3
  Word = 7
  Double = 10
  Short = 5
  MaxStr = 36
  Format = {"Int32", "Uint32", "Fint32", "Int64", "Uint64", "StringF16"}
SPECIFICATION Spec
INVARIANTS
  FormatInv
