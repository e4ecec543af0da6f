SPECIFICATION Spec
CONSTANTS
  Instances = {p1, p2}
  Runs = {r1}
  Commands = {"cancel"}
  MaxFaults = 0
  None = None
  Dead = Dead
  Unreadable = Unreadable
SYMMETRY Symmetry
INVARIANTS LiveDispatchStands
CHECK_DEADLOCK FALSE
