CONSTANTS
  NFatEnt = 8
  FatPer = 3
  DirPer = 2
  CSize = 2
  NRoot = 4
  SecSize = 2
  Bytes = {0, 1, 2, 3}
  Handles = {1, 2}
  Volumes <- MCVolumes
  Known <- MCKnown
  Args <- MCArgs
  NewDirs <- MCNewDirs
  Moves <- MCMoves
  Modes <- MCModes
  Data <- MCData
  Offsets = {0, 6}
  Counts = {4}
  Glitch = FALSE
  MaxAccess = 12
  MaxCalls = 2
  MaxFaults = 1
SPECIFICATION Spec
INVARIANTS TypeOK Mirrored Durable NoCrossLink Accounted Truthful
PROPERTY QuestionsOnlyLook
CHECK_DEADLOCK FALSE
