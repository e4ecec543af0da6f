SPECIFICATION Spec
CONSTANTS
  Instances = {p1, p2}
  Runs = {r1, r2, r3}
  Commands = {"cancel"}
  MaxFaults = 0
  None = None
  Dead = Dead
  Unreadable = Unreadable
SYMMETRY Symmetry
INVARIANTS OneExecutor InterruptedIsOrphaned OneContinuation
ACTION_CONSTRAINT FewCancelled
CHECK_DEADLOCK FALSE
