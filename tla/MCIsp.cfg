CONSTANTS
  PageSize = 4
  MemorySize = 8
  Lanes = 2
  MaxFile = 9
  MaxFlaws = 2
SPECIFICATION FairSpec
INVARIANTS BusShared Programmed NotWhileBusy
PROPERTIES ProgramReturns
