SPECIFICATION Spec
CONSTANTS
  Runs = {r1}
  Steps = {s1, s2}
  Attempts = {a1, a2, a3}
  Inputs = {i1}
  Results = {x1, x2}
  None = None
  MaxSteps = 2
SYMMETRY Symmetry
VIEW LogView
INVARIANTS EventsMatchRows OnlyInspectionSettles
PROPERTIES Refines HistoryKept
CHECK_DEADLOCK FALSE
