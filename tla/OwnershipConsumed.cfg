SPECIFICATION Spec
CONSTANTS
  Instances = {p1, p2}
  Runs = {r1, r2}
  Commands = {}
  MaxFaults = 1
  None = None
  Dead = Dead
  Unreadable = Unreadable
SYMMETRY Symmetry
INVARIANTS ConsumedNotRestarted
CHECK_DEADLOCK FALSE
