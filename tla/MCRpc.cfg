CONSTANTS
  Commands = {alloc, free, stat}
  WithInput = {alloc, free}
  WithOutput = {alloc, stat}
  Args = {a1, a2}
  NONE = NONE
  NIL = NIL
  Wirings = {{"IDLE"}, {"BUSY"}}
  MaxRestarts = 2
SPECIFICATION FairSpec
INVARIANTS BusExclusion Acknowledged
PROPERTIES ImplementsRpcCall CallReturns
