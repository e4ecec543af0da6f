SPECIFICATION MCSpec
CONSTANTS
  Workspaces = {w1, w2}
  Proposals = {p1, p2}
  Files = {f1, f2}
  Versions = {v0, v1, v2}
  Original = v0
  User = user
  MaxAgentEdits = 2
  MaxUserEdits = 2
  MaxMergeFaults = 1
  SourcePaths = {q1, q2}
  Contents = {Absent, Opaque, a, b}
  Absent = Absent
  Opaque = Opaque
  MaxCheckpoints = 3
  MaxSourceEdits = 3
  Voices = {m1, m2}
  Conversations = {n1, n2}
  MaxWorkers = 2
  MaxSentences = 1
  MaxTurns = 4
INVARIANTS LostOnlyInWindow UndoneLeavesNothing OnlyReviewedContent IgnoredIsIntegrated 
  BackedUp StatusIsTrue TextArrives MicrophoneOwned ThreadsMove
CHECK_DEADLOCK FALSE
