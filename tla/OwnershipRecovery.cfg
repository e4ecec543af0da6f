SPECIFICATION FairSpec
CONSTANTS
  Instances = {p1, p2}
  Runs = {r1, r2}
  Commands = {"reconcile"}
  MaxFaults = 3
  None = None
  Dead = Dead
  Unreadable = Unreadable
INVARIANTS OneEffect FirstDispatchStands EffectsRecorded
PROPERTIES LostIsFound JournalUsed
ACTION_CONSTRAINT FewFaults
CHECK_DEADLOCK FALSE
