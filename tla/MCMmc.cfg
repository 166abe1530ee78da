CONSTANTS
  Byte = 2
  Kinds = {"MMC", "SD1", "SD2", "SDHC"}
  NSectors = 4
  Block = 2
  InitTime = 1
  ReadyTime = 1
  TokenTime = 1
  Counts = {1, 2}
  MaxFaults = 1
  MaxCalls = 2
SPECIFICATION Spec
INVARIANTS Faithful ReadWhole
PROPERTIES CallsReturn
CHECK_DEADLOCK FALSE
