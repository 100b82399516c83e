\* Every value of an eight-bit type, signed and as a pointer, wherever a buffer of
\* six bytes has room for it.
CONSTANTS
  Size = 6
  MaxNumeric = 5
  IntMax = 127
  Pieces <- MCPieces
  Ints <- Int8
  Pointers <- UInt8
  Doubles <- MCDoubles
SPECIFICATION Spec
INVARIANTS TypeOK StaysInside
PROPERTIES WholeItems
