CONSTANTS
  NumBlocks = 5
  BlockSize = 2
  HeapStart = 2
  Word = 16
  MaxSize = 15
SPECIFICATION Spec
INVARIANT Tiled
