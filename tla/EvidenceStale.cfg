SPECIFICATION MCSpec
CONSTANTS
  Sources = {s1, s2}
  Commands = {c1}
  Spelled = {}
  Recorded <- Records
  Required = {c1}
  Undoers = {u1}
  MaxRepairs = 2
  MaxTests = 2
  MaxEdits = 1
  MaxOutside = 0
  Nothing = Nothing
  Clients = {k1}
  MaxServers = 0
  Tasks = {t1}
  Sessions = {n1}
  MaxConnections = 1
  MaxProcesses = 0
SYMMETRY Symmetry
INVARIANTS DoneHasEvidence
CHECK_DEADLOCK FALSE
