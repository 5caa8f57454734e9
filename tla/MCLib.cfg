SPECIFICATION Spec
CONSTANTS
  ByteSize = 4
  MaxLen = 2
  Ints <- Numbers
  MemSize = 4
  Byte = {b1, b2, b3}
  HeapSize = 64
  Word = 128
  SizeArg = {0, 1, 15, 16, 17, 33, 48, 64, 65, 79, 80, 96, 112, 127}
  MaxLive = 4
INVARIANTS
  ComparesLikeDictionary
  PrintsNumeral
  ChecksumVerifies
  CopiesAll
  StringsAreStrings
  BlocksSeparate
