SPECIFICATION MCSpec
CONSTANTS
  Sources = {s1, s2}
  Commands = {c1, c2, c3}
  Spelled = {c3}
  Recorded <- Records
  Required = {c1}
  Undoers = {u1}
  MaxRepairs = 2
  MaxTests = 3
  MaxEdits = 2
  MaxOutside = 1
  Nothing = Nothing
  Clients = {k1, k2}
  MaxServers = 2
  Tasks = {t1, t2}
  Sessions = {n1}
  MaxConnections = 2
  MaxProcesses = 2
SYMMETRY Symmetry
INVARIANTS VerifiedIsTested RepairsBounded NoBlindRepeat ProcessAttended StoppedIsDown OneProcess
CHECK_DEADLOCK FALSE
