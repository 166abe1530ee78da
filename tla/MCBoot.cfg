CONSTANTS
  MaxFiles = 2
  Byte = 4
  MaxResets = 1
SPECIFICATION FairBootSpec
INVARIANTS HoldsArduino ListSound
PROPERTIES PressOnce RunRuns
