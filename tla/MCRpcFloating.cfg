CONSTANTS
  Commands = {alloc, free, stat}
  WithInput = {alloc, free}
  WithOutput = {alloc, stat}
  Args = {a1, a2}
  NONE = NONE
  NIL = NIL
  Wirings = {{"IDLE", "BUSY"}}
  MaxRestarts = 0
SPECIFICATION Spec
INVARIANT Acknowledged
