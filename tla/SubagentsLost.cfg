SPECIFICATION Spec
CONSTANTS
  Children = {w1, r1, r2}
  Workers = {w1}
  Browsing = {r1}
  Spawners = {"agent"}
  MaxChildren = 3
  MaxParallel = 2
  TokenBudget = 1
  ChildBudget = 1
  AgentBudget = {}
  Sizes = {1}
  MaxExcess = 1
  Nobody = Nobody
INVARIANTS OutcomeRecorded
CHECK_DEADLOCK FALSE
