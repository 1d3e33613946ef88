SPECIFICATION USpec
CONSTANTS
  Bytes = {14, 127, 200}
  MaxSize = 5
  TMP = 4
  MSG = 3
  MaxWrites = 2
INVARIANTS
  InBounds ChecksumCorrect WrittenBack
