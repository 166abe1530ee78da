CONSTANTS
  NumBlocks = 5
  BlockSize = 2
  HeapStart = 2
  Word = 16
  MaxSize = 14
SPECIFICATION FairSpec
INVARIANTS LiveDisjoint NoFragments
PROPERTIES ImplementsHeap StatTruthful LoopsEnd
