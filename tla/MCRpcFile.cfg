CONSTANTS
  NumHandles = 2
  BufferSize = 2
  Word = 8
  Files = {f, g}
  Lengths = {2, 7}
  Offsets = {5}
  Sizes = {0, 3, 7}
  Addrs = {1}
  NIL = NIL
SPECIFICATION FairSpec
INVARIANTS HandleInv
PROPERTIES ImplementsFileStore TransfersEnd
