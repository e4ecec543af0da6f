------------------------ MODULE CodingEvidenceProofs ------------------------
(***************************************************************************)
(* Proofs about CodingEvidence, for any sources, commands, undo threads    *)
(* and bounds; about DevServers, for any clients and servers; and about    *)
(* McpConnections, for any tasks, connections and processes.               *)
(***************************************************************************)
EXTENDS CodingEvidence, DevServers, McpConnections, FiniteSetTheorems, TLAPS

-----------------------------------------------------------------------------
(* The inductive invariant.                                                *)

(* What a tool call holds at its places, and why it may still record.      *)
Holding == {"opened", "running", "recording", "planning", "judging", "deciding"}
CallOK ==
  /\ agent.pc \in {"replacing", "replaced"} => 
       (agent.before \in Sources /\ agent.after \in Sources /\ edits < MaxEdits)
  /\ agent.pc \in {"opening", "opened", "running", "recording"} =>
       (agent.command \in Commands /\ (agent.gate => agent.command \in Required))
  /\ agent.pc \in Holding => agent.before \in Sources
  /\ agent.pc = "recording" => agent.after \in Sources
  /\ agent.pc \in {"running", "recording"} =>
       (repairs < MaxRepairs /\ <<agent.command, agent.before>> \notin failed)

(* Every failure is remembered, and counted.                               *)
FailedTests == {i \in DOMAIN tests : ~tests[i].passed}
FailuresKnown == \A i \in FailedTests : <<tests[i].command, tests[i].digest>> \in failed
FailuresCounted == IsFiniteSet(FailedTests) /\ Cardinality(FailedTests) <= repairs

IInv == TypeOK /\ CallOK /\ FailuresKnown /\ FailuresCounted /\ NoBlindRepeat

History == <<tests, repairs, failed>>
Records == <<revision, verified, tests, step>>

-----------------------------------------------------------------------------
(* Evidence that becomes stale keeps its command, outcome and digests.     *)

LEMMA StaleKeeps ==
  ASSUME TypeOK, InvalidateEvidence \/ UNCHANGED Records
  PROVE  /\ revision' \in Nat /\ tests' \in Seq(Test) /\ verified' \subseteq DOMAIN tests'
         /\ step' \in Claim
         /\ DOMAIN tests' = DOMAIN tests
         /\ \A i \in DOMAIN tests :
              /\ tests'[i].command = tests[i].command /\ tests'[i].asked = tests[i].asked /\ tests'[i].passed = tests[i].passed
              /\ tests'[i].before = tests[i].before /\ tests'[i].digest = tests[i].digest
<1>1. CASE UNCHANGED Records
  BY <1>1 DEF Records, TypeOK
<1>2. CASE InvalidateEvidence
  <2>1. revision' \in Nat /\ verified' = {}
    BY <1>2 DEF InvalidateEvidence, TypeOK
  <2>2. step' \in Claim
    BY <1>2 DEF InvalidateEvidence, TypeOK, Reopened, Claim
  <2>3. tests' = [i \in 1 .. Len(tests) |-> [tests[i] EXCEPT !.fresh = FALSE]] /\ Len(tests) \in Nat
    BY <1>2 DEF InvalidateEvidence, TypeOK
  <2>4. ASSUME NEW i \in 1 .. Len(tests)
        PROVE  /\ tests'[i] \in Test
               /\ tests'[i].command = tests[i].command /\ tests'[i].asked = tests[i].asked /\ tests'[i].passed = tests[i].passed
               /\ tests'[i].before = tests[i].before /\ tests'[i].digest = tests[i].digest
    <3>1. tests[i] \in Test
      BY DEF TypeOK
    <3>2. tests'[i] = [tests[i] EXCEPT !.fresh = FALSE]
      BY <2>3
    <3> QED
      BY <3>1, <3>2 DEF Test
  <2>5. tests' \in Seq(Test) /\ DOMAIN tests' = DOMAIN tests
    BY <2>3, <2>4 DEF TypeOK
  <2>6. DOMAIN tests = 1 .. Len(tests) /\ verified' \subseteq DOMAIN tests'
    BY <2>1 DEF TypeOK
  <2> QED
    BY <2>1, <2>2, <2>4, <2>5, <2>6
<1> QED
  BY <1>1, <1>2

LEMMA StaleHistory ==
  ASSUME IInv, InvalidateEvidence \/ UNCHANGED Records, UNCHANGED <<repairs, failed>>
  PROVE  FailuresKnown' /\ FailuresCounted' /\ NoBlindRepeat'
<1>1. TypeOK /\ FailuresKnown /\ FailuresCounted /\ NoBlindRepeat
  BY DEF IInv
<1>2. /\ DOMAIN tests' = DOMAIN tests
      /\ \A i \in DOMAIN tests :
           /\ tests'[i].command = tests[i].command /\ tests'[i].asked = tests[i].asked /\ tests'[i].passed = tests[i].passed
           /\ tests'[i].before = tests[i].before /\ tests'[i].digest = tests[i].digest
  BY <1>1, StaleKeeps
<1>3. FailedTests' = FailedTests
  BY <1>2 DEF FailedTests
<1>4. FailuresCounted'
  BY <1>1, <1>3 DEF FailuresCounted
<1>5. FailuresKnown'
  BY <1>1, <1>2, <1>3 DEF FailuresKnown, FailedTests
<1>6. NoBlindRepeat'
  BY <1>1, <1>2 DEF NoBlindRepeat
<1> QED
  BY <1>4, <1>5, <1>6

(* A step that leaves the history alone keeps what is said about it.       *)
LEMMA SameHistory ==
  ASSUME IInv, UNCHANGED History
  PROVE  FailuresKnown' /\ FailuresCounted' /\ NoBlindRepeat'
<1>1. FailedTests' = FailedTests
  BY DEF FailedTests, History
<1> QED
  BY <1>1 DEF IInv, History, FailuresKnown, FailuresCounted, NoBlindRepeat, FailedTests

-----------------------------------------------------------------------------
LEMMA RefreshOrSame ==
  ASSUME NEW digest, RefreshEvidence(digest)
  PROVE  InvalidateEvidence \/ UNCHANGED Records
  BY DEF RefreshEvidence, Records

(* The tool call of the next step is one, and holds what it must.          *)
LEMMA IdleCall == Idle \in Call /\ Idle.pc = "idle"
  BY DEF Idle, Call, Places, Claim

(* TestRecord is the one step that adds evidence.                          *)
LEMMA RecordStep ==
  ASSUME IInv, TestRecord
  PROVE  IInv'
<1> DEFINE fresh == Fresh(agent)
           entry == [command |-> Recorded[agent.command], asked |-> agent.command,
                     passed |-> agent.passed, fresh |-> fresh, before |-> agent.before, digest |-> agent.after,
                     revision |-> revision, seen |-> agent.seen]
           n == Len(tests) + 1
<1>1. TypeOK /\ CallOK /\ FailuresKnown /\ FailuresCounted /\ NoBlindRepeat /\ agent.pc = "recording"
  BY DEF IInv, TestRecord
<1>2. agent.before \in Sources /\ agent.after \in Sources /\ agent.command \in Commands
      /\ (agent.gate => agent.command \in Required)
      /\ repairs < MaxRepairs /\ <<agent.command, agent.before>> \notin failed
  BY <1>1 DEF CallOK, Holding
<1>3. entry \in Test
  <2>1. fresh \in BOOLEAN
    BY DEF Fresh
  <2> QED
    BY <1>1, <1>2, <2>1, EvidenceConstants DEF TypeOK, Test, Call
<1>4. n \in Nat /\ tests \in Seq(Test) /\ DOMAIN tests = 1 .. Len(tests) /\ Len(tests) \in Nat
  BY <1>1 DEF TypeOK
<1>5. tests' = Append(tests, entry)
  BY DEF TestRecord
<1>6. /\ tests' \in Seq(Test) /\ DOMAIN tests' = 1 .. n
      /\ \A i \in 1 .. Len(tests) : tests'[i] = tests[i]
      /\ tests'[n] = entry
  BY <1>3, <1>4, <1>5
<1>7. agent' = Idle /\ UNCHANGED <<source, changes, edits, outside, revision, step, criterion, undo, verdict>>
  BY DEF TestRecord, tree, claims
<1>8. verified' \subseteq DOMAIN tests'
  BY <1>1, <1>4, <1>6 DEF TypeOK, TestRecord
<1>9. /\ repairs' \in 0 .. MaxRepairs /\ repairs <= repairs'
      /\ failed \subseteq failed' /\ failed' \subseteq Commands \X Sources
      /\ state' \in {"working", "blocked"}
  BY <1>1, <1>2, EvidenceConstants DEF TypeOK, TestRecord
<1>10. ~agent.passed => (repairs' = repairs + 1 /\ <<Recorded[agent.command], agent.after>> \in failed')
  BY <1>2 DEF TestRecord
<1>11. gates' \in [Required -> Nat]
  BY <1>1, <1>2, <1>4 DEF TypeOK, TestRecord
<1>12. TypeOK'
  BY <1>1, <1>6, <1>7, <1>8, <1>9, <1>11, IdleCall DEF TypeOK
<1>13. CallOK'
  BY <1>7, IdleCall DEF CallOK, Holding
<1>14. FailedTests' = IF agent.passed THEN FailedTests ELSE FailedTests \cup {n}
  BY <1>1, <1>4, <1>6 DEF FailedTests, TypeOK, Call
<1>15. n \notin FailedTests
  BY <1>4 DEF FailedTests
<1>16. FailuresCounted'
  <2>1. CASE agent.passed
    BY <1>1, <1>9, <1>14, <2>1, FS_CardinalityType DEF FailuresCounted, TypeOK
  <2>2. CASE ~agent.passed
    <3>1. IsFiniteSet(FailedTests) /\ Cardinality(FailedTests) <= repairs
      BY <1>1 DEF FailuresCounted
    <3>2. /\ IsFiniteSet(FailedTests \cup {n})
          /\ Cardinality(FailedTests \cup {n}) = Cardinality(FailedTests) + 1
          /\ Cardinality(FailedTests) \in Nat
      BY <1>15, <3>1, FS_AddElement, FS_CardinalityType
    <3> QED
      BY <1>1, <1>10, <1>14, <2>2, <3>1, <3>2 DEF FailuresCounted, TypeOK
  <2> QED
    BY <2>1, <2>2
<1>17. FailuresKnown'
  <2> SUFFICES ASSUME NEW i \in FailedTests'
               PROVE  <<tests'[i].command, tests'[i].digest>> \in failed'
    BY DEF FailuresKnown
  <2>1. CASE i \in FailedTests
    BY <1>1, <1>4, <1>6, <1>9, <2>1 DEF FailuresKnown, FailedTests
  <2>2. CASE i \notin FailedTests
    <3>1. i = n /\ ~agent.passed
      BY <1>14, <2>2
    <3>2. tests'[n].command = Recorded[agent.command] /\ tests'[n].digest = agent.after
      BY <1>6
    <3> QED
      BY <1>10, <3>1, <3>2
  <2> QED
    BY <2>1, <2>2
<1>18. NoBlindRepeat'
  <2>1. \A i \in 1 .. Len(tests) :
          (agent.command = tests[i].command /\ ~tests[i].passed) => agent.before # tests[i].digest
    BY <1>1, <1>2, <1>4 DEF FailuresKnown, FailedTests
  <2> QED
    BY <1>1, <1>4, <1>6, <2>1 DEF NoBlindRepeat
<1> QED
  BY <1>12, <1>13, <1>16, <1>17, <1>18 DEF IInv

-----------------------------------------------------------------------------
(* Every other step.                                                       *)

LEMMA EditStep == ASSUME IInv, Editing PROVE IInv'
<1>1. TypeOK /\ CallOK
  BY DEF IInv
<1>2. ASSUME NEW c \in Sources, EditCheck(c) PROVE IInv'
  <2>1. UNCHANGED History
    BY <1>2 DEF EditCheck, History, evidence
  <2>2. CallOK'
    BY <1>1, <1>2 DEF EditCheck, CallOK, Idle, Holding, TypeOK, tree, evidence
  <2>3. agent' \in Call
    BY <1>1, <1>2 DEF EditCheck, Idle, Call, Places, Claim, TypeOK
  <2>4. TypeOK'
    BY <1>1, <1>2, <2>3 DEF EditCheck, TypeOK, tree, evidence, claims
  <2> QED
    BY <2>1, <2>2, <2>4, SameHistory DEF IInv
<1>3. CASE EditReplace
  <2>1. UNCHANGED History
    BY <1>3 DEF EditReplace, History, evidence
  <2>2. CallOK' /\ source' \in Sources
    BY <1>1, <1>3 DEF EditReplace, CallOK, Holding, TypeOK, Call
  <2>3. agent' \in Call
    BY <1>1, <1>3 DEF EditReplace, Call, Places, TypeOK
  <2>4. TypeOK'
    BY <1>1, <1>3, <2>2, <2>3 DEF EditReplace, TypeOK, evidence, claims
  <2> QED
    BY <2>1, <2>2, <2>4, SameHistory DEF IInv
<1>4. CASE EditRecord
  <2>1. FailuresKnown' /\ FailuresCounted' /\ NoBlindRepeat'
    BY <1>4, StaleHistory DEF EditRecord
  <2>2. CallOK'
    BY <1>4, IdleCall DEF EditRecord, CallOK, Holding
  <2>3. /\ revision' \in Nat /\ tests' \in Seq(Test) /\ verified' \subseteq DOMAIN tests'
        /\ step' \in Claim
    BY <1>1, <1>4, StaleKeeps DEF EditRecord
  <2>4. [id |-> edits, before |-> agent.before, after |-> agent.after] \in Change
    BY <1>1, <1>4 DEF EditRecord, Change, CallOK, TypeOK
  <2>5. changes' \subseteq Change
    BY <1>1, <1>4, <2>4 DEF EditRecord, TypeOK
  <2>6. edits' \in 0 .. MaxEdits
    BY <1>1, <1>4, EvidenceConstants DEF EditRecord, CallOK, TypeOK
  <2>7. TypeOK'
    BY <1>1, <1>4, <2>3, <2>5, <2>6, IdleCall DEF EditRecord, TypeOK
  <2> QED
    BY <2>1, <2>2, <2>7 DEF IInv
<1> QED
  BY <1>2, <1>3, <1>4 DEF Editing

(* The rest of the state is typed and unchanged by the undo threads, but   *)
(* for what Write adds to the sources a command may have run on.           *)
LEMMA WriteStep ==
  ASSUME IInv, NEW c \in Sources, Write(c), UNCHANGED <<repairs, failed, edits>>
  PROVE  agent' \in Call /\ source' \in Sources /\ CallOK'
<1>1. agent \in Call /\ CallOK
  BY DEF IInv, TypeOK
<1>2. CASE agent.pc = "running"
  <2>1. agent' = [agent EXCEPT !.seen = @ \cup {c}]
    BY <1>2 DEF Write
  <2>2. agent' \in Call
    BY <1>1, <2>1 DEF Call
  <2>3. /\ agent'.pc = agent.pc /\ agent'.before = agent.before /\ agent'.after = agent.after
        /\ agent'.command = agent.command /\ agent'.gate = agent.gate
    BY <1>1, <2>1 DEF Call
  <2> QED
    BY <1>1, <2>2, <2>3 DEF CallOK, Write
<1>3. CASE agent.pc # "running"
  BY <1>1, <1>3 DEF Write, CallOK
<1> QED
  BY <1>2, <1>3

LEMMA UndoStep == ASSUME IInv, NEW u \in Undoers, Undoing(u) PROVE IInv'
<1>1. TypeOK /\ CallOK
  BY DEF IInv
<1>2. undo[u] \in Undo /\ Resting \in Undo
  BY <1>1 DEF TypeOK, Undo
<1>3. ASSUME undo[u].pc # "idle" PROVE undo[u].change \in Change
  BY <1>2, <1>3 DEF Undo, Resting
<1>4. ASSUME NEW pc \in {"replacing", "replaced", "popped"}, undo[u].pc # "idle", UndoGoto(u, pc)
      PROVE  undo' \in [Undoers -> Undo]
  <2>1. [undo[u] EXCEPT !.pc = pc] \in Undo
    BY <1>2, <1>4 DEF Undo, Resting
  <2>2. undo' = [undo EXCEPT ![u] = [undo[u] EXCEPT !.pc = pc]]
    BY <1>4 DEF UndoGoto
  <2> QED
    BY <1>1, <2>1, <2>2 DEF TypeOK
<1>5. ASSUME undo' = [undo EXCEPT ![u] = Resting] PROVE undo' \in [Undoers -> Undo]
  BY <1>1, <1>2, <1>5 DEF TypeOK
<1>6. CASE UndoPick(u)
  <2>1. UNCHANGED <<source, changes, edits, outside, revision, tests, gates, repairs, failed,
                    verified, step, criterion, state, agent, verdict>>
    BY <1>6 DEF UndoPick, tree, evidence, claims
  <2>2. undo' \in [Undoers -> Undo]
    BY <1>1, <1>6 DEF UndoPick, TypeOK, Undo
  <2> QED
    BY <1>1, <2>1, <2>2, SameHistory DEF IInv, TypeOK, CallOK, History
<1>7. CASE UndoCheck(u)
  <2>1. UNCHANGED <<source, changes, edits, outside, revision, tests, gates, repairs, failed,
                    verified, step, criterion, state, agent, verdict>>
    BY <1>7 DEF UndoCheck, tree, evidence, claims
  <2>2. undo' \in [Undoers -> Undo]
    BY <1>4, <1>5, <1>7 DEF UndoCheck, UndoAt
  <2> QED
    BY <1>1, <2>1, <2>2, SameHistory DEF IInv, TypeOK, CallOK, History
<1>8. CASE UndoReplace(u)
  <2>1. UNCHANGED <<changes, edits, outside, revision, tests, gates, repairs, failed,
                    verified, step, criterion, state, verdict>>
    BY <1>8 DEF UndoReplace, evidence, claims
  <2>2. undo' \in [Undoers -> Undo]
    BY <1>4, <1>8 DEF UndoReplace, UndoAt
  <2>3. undo[u].change.before \in Sources /\ Write(undo[u].change.before)
    BY <1>3, <1>8 DEF UndoReplace, UndoAt, Change
  <2>4. agent' \in Call /\ source' \in Sources /\ CallOK'
    BY <2>1, <2>3, WriteStep
  <2> QED
    BY <1>1, <2>1, <2>2, <2>4, SameHistory DEF IInv, TypeOK, History
<1>9. CASE UndoPop(u)
  <2>1. UNCHANGED <<source, edits, outside, revision, tests, gates, repairs, failed,
                    verified, step, criterion, state, agent, verdict>>
    BY <1>9 DEF UndoPop, evidence, claims
  <2>2. undo' \in [Undoers -> Undo]
    BY <1>4, <1>5, <1>9 DEF UndoPop, UndoAt
  <2>3. changes' \subseteq Change
    BY <1>1, <1>9 DEF UndoPop, TypeOK
  <2> QED
    BY <1>1, <2>1, <2>2, <2>3, SameHistory DEF IInv, TypeOK, CallOK, History
<1>10. CASE UndoInvalidate(u)
  <2>1. UNCHANGED <<source, changes, edits, outside, gates, repairs, failed, criterion, state,
                    agent, verdict>>
    BY <1>10 DEF UndoInvalidate, tree
  <2>2. FailuresKnown' /\ FailuresCounted' /\ NoBlindRepeat'
    BY <1>10, <2>1, StaleHistory DEF UndoInvalidate
  <2>3. /\ revision' \in Nat /\ tests' \in Seq(Test) /\ verified' \subseteq DOMAIN tests'
        /\ step' \in Claim
    BY <1>1, <1>10, StaleKeeps DEF UndoInvalidate
  <2>4. undo' \in [Undoers -> Undo]
    BY <1>5, <1>10 DEF UndoInvalidate
  <2> QED
    BY <1>1, <2>1, <2>2, <2>3, <2>4 DEF IInv, TypeOK, CallOK
<1> QED
  BY <1>6, <1>7, <1>8, <1>9, <1>10 DEF Undoing

LEMMA OutsideStep == ASSUME IInv, NEW c \in Sources, OutsideWrite(c) PROVE IInv'
<1>1. TypeOK /\ UNCHANGED <<changes, edits, revision, tests, gates, repairs, failed, verified,
                            step, criterion, state, undo, verdict>>
  BY DEF IInv, OutsideWrite, evidence, claims
<1>2. outside' \in 0 .. MaxOutside
  BY <1>1, EvidenceConstants DEF OutsideWrite, TypeOK
<1>3. agent' \in Call /\ source' \in Sources /\ CallOK'
  BY <1>1, WriteStep DEF OutsideWrite
<1> QED
  BY <1>1, <1>2, <1>3, SameHistory DEF IInv, TypeOK, History

LEMMA TestStep == ASSUME IInv, Testing PROVE IInv'
<1> USE DEF tree, evidence, claims, History
<1>1. TypeOK /\ CallOK /\ agent \in Call
  BY DEF IInv, TypeOK
<1>2. ASSUME NEW c \in Commands, NEW g \in BOOLEAN, TestBegin(c, g) PROVE IInv'
  <2>1. agent' \in Call /\ CallOK'
    BY <1>1, <1>2 DEF TestBegin, CallOK, Holding, Idle, Call, Places, Claim, TypeOK
  <2> QED
    BY <1>1, <1>2, <2>1, SameHistory DEF TestBegin, IInv, TypeOK
<1>3. CASE TestOpen
  <2>1. agent' \in Call /\ CallOK'
    BY <1>1, <1>3 DEF TestOpen, CallOK, Holding, Call, Places, TypeOK
  <2> QED
    BY <1>1, <1>3, <2>1, SameHistory DEF TestOpen, IInv, TypeOK
<1>4. CASE TestStart
  <2>1. agent' \in Call
    BY <1>1, <1>4 DEF TestStart, Call, Places, TypeOK
  <2>2. CallOK'
    BY <1>1, <1>4 DEF TestStart, Permitted, CallOK, Holding, Call
  <2> QED
    BY <1>1, <1>4, <2>1, <2>2, SameHistory DEF TestStart, IInv, TypeOK
<1>5. CASE TestRefused
  <2>1. gates' \in [Required -> Nat] /\ state' = "blocked" /\ agent' = Idle
    BY <1>1, <1>5 DEF TestRefused, TypeOK
  <2>2. CallOK'
    BY <2>1, IdleCall DEF CallOK, Holding
  <2> QED
    BY <1>1, <1>5, <2>1, <2>2, IdleCall, SameHistory DEF TestRefused, IInv, TypeOK
<1>6. CASE TestAbort
  <2>1. gates' \in [Required -> Nat] /\ agent' = Idle
    BY <1>1, <1>6 DEF TestAbort, TypeOK
  <2>2. CallOK'
    BY <2>1, IdleCall DEF CallOK, Holding
  <2> QED
    BY <1>1, <1>6, <2>1, <2>2, IdleCall, SameHistory DEF TestAbort, IInv, TypeOK
<1>7. CASE TestRecord
  BY <1>7, RecordStep
<1>8. ASSUME NEW outcome \in BOOLEAN, TestExit(outcome) PROVE IInv'
  <2>1. agent' \in Call
    BY <1>1, <1>8 DEF TestExit, Call, Places, TypeOK
  <2>2. CallOK'
    BY <1>1, <1>8 DEF TestExit, CallOK, Holding, Call, TypeOK
  <2> QED
    BY <1>1, <1>8, <2>1, <2>2, SameHistory DEF TestExit, IInv, TypeOK
<1> QED
  BY <1>2, <1>3, <1>4, <1>5, <1>6, <1>7, <1>8 DEF Testing

LEMMA ClaimStep == ASSUME IInv, Claiming PROVE IInv'
<1> USE DEF tree, evidence, claims, History
<1>1. TypeOK /\ CallOK /\ agent \in Call
  BY DEF IInv, TypeOK
<1>2. Claims \subseteq Claim
  BY <1>1 DEF Claims, Claim, TypeOK
<1>3. ASSUME NEW claim \in Claim, PlanRead(claim) PROVE IInv'
  <2>1. agent' \in Call
    BY <1>1, <1>3 DEF PlanRead, Idle, Call, Places, TypeOK
  <2>2. CallOK'
    BY <1>1, <1>3 DEF PlanRead, Idle, CallOK, Holding, TypeOK
  <2> QED
    BY <1>1, <1>3, <2>1, <2>2, SameHistory DEF PlanRead, IInv, TypeOK
<1>4. ASSUME NEW claim \in Claim, CriterionRead(claim) PROVE IInv'
  <2>1. agent' \in Call
    BY <1>1, <1>4 DEF CriterionRead, Idle, Call, Places, TypeOK
  <2>2. CallOK'
    BY <1>1, <1>4 DEF CriterionRead, Idle, CallOK, Holding, TypeOK
  <2> QED
    BY <1>1, <1>4, <2>1, <2>2, SameHistory DEF CriterionRead, IInv, TypeOK
<1>5. CASE PlanCheck
  <2>1. InvalidateEvidence \/ UNCHANGED Records
    BY <1>5, RefreshOrSame DEF PlanCheck
  <2>2. /\ revision' \in Nat /\ tests' \in Seq(Test) /\ verified' \subseteq DOMAIN tests'
        /\ step' \in Claim
    BY <1>1, <2>1, StaleKeeps
  <2>3. FailuresKnown' /\ FailuresCounted' /\ NoBlindRepeat'
    BY <1>5, <2>1, StaleHistory DEF PlanCheck
  <2>4. agent' \in Call
    BY <1>1, <1>5, IdleCall DEF PlanCheck, Call, Places
  <2>5. CallOK'
    BY <1>1, <1>5, IdleCall DEF PlanCheck, CallOK, Holding, Call
  <2> QED
    BY <1>1, <1>5, <2>2, <2>3, <2>4, <2>5 DEF PlanCheck, IInv, TypeOK
<1>6. CASE PlanAssign
  <2>1. CallOK'
    BY <1>6, IdleCall DEF PlanAssign, CallOK, Holding
  <2>2. step' \in Claim
    BY <1>1, <1>6 DEF PlanAssign, Call
  <2> QED
    BY <1>1, <1>6, <2>1, <2>2, IdleCall, SameHistory DEF PlanAssign, IInv, TypeOK
<1>7. CASE CriterionRecord
  <2>1. InvalidateEvidence \/ UNCHANGED Records
    BY <1>7, RefreshOrSame DEF CriterionRecord
  <2>2. /\ revision' \in Nat /\ tests' \in Seq(Test) /\ verified' \subseteq DOMAIN tests'
        /\ step' \in Claim
    BY <1>1, <2>1, StaleKeeps
  <2>3. FailuresKnown' /\ FailuresCounted' /\ NoBlindRepeat'
    BY <1>7, <2>1, StaleHistory DEF CriterionRecord
  <2>4. CallOK'
    BY <1>7, IdleCall DEF CriterionRecord, CallOK, Holding
  <2>5. criterion' \in Claim
    BY <1>1, <1>7 DEF CriterionRecord, Call, TypeOK
  <2> QED
    BY <1>1, <1>7, <2>2, <2>3, <2>4, <2>5, IdleCall DEF CriterionRecord, IInv, TypeOK
<1> QED
  BY <1>2, <1>3, <1>4, <1>5, <1>6, <1>7 DEF Claiming

LEMMA JudgeStep == ASSUME IInv, Judging PROVE IInv'
<1> USE DEF tree, evidence, claims, History
<1>1. TypeOK /\ CallOK /\ agent \in Call
  BY DEF IInv, TypeOK
<1>2. CASE GateRead
  <2>1. agent' \in Call
    BY <1>1, <1>2 DEF GateRead, Idle, Call, Places, Claim, TypeOK
  <2>2. CallOK'
    BY <1>1, <1>2 DEF GateRead, Idle, CallOK, Holding, TypeOK
  <2> QED
    BY <1>1, <1>2, <2>1, <2>2, SameHistory DEF GateRead, IInv, TypeOK
<1>3. CASE GateDecide
  <2>1. InvalidateEvidence \/ UNCHANGED Records
    BY <1>3, RefreshOrSame DEF GateDecide
  <2>2. /\ revision' \in Nat /\ tests' \in Seq(Test) /\ verified' \subseteq DOMAIN tests'
        /\ step' \in Claim
    BY <1>1, <2>1, StaleKeeps
  <2>3. FailuresKnown' /\ FailuresCounted' /\ NoBlindRepeat'
    BY <1>3, <2>1, StaleHistory DEF GateDecide
  <2>4. agent' \in Call /\ CallOK'
    BY <1>3 DEF GateDecide, Idle, Call, Places, Claim, CallOK, Holding
  <2>5. verdict' \in [class : Classes, digest : Sources \cup {Nothing}, basis : SUBSET Nat]
    <3>1. agent.before \in Sources
      BY <1>1, <1>3 DEF GateDecide, CallOK, Holding
    <3>2. Valid(agent.before) \subseteq Nat
      BY <2>2 DEF Valid
    <3>3. Classified(Valid(agent.before)) \in Classes
      BY DEF Classified, Classes
    <3> QED
      BY <1>3, <3>1, <3>2, <3>3 DEF GateDecide
  <2>6. state' \in {"working", "blocked"}
    BY <1>3 DEF GateDecide
  <2> QED
    BY <1>1, <1>3, <2>2, <2>3, <2>4, <2>5, <2>6 DEF GateDecide, IInv, TypeOK
<1> QED
  BY <1>2, <1>3 DEF Judging

-----------------------------------------------------------------------------
LEMMA StartsInductive == Init => IInv
<1> SUFFICES ASSUME Init PROVE IInv
  OBVIOUS
<1>1. TypeOK
  BY EvidenceConstants, IdleCall DEF Init, TypeOK, Claim, Undo, Unjudged, Classes
<1>2. CallOK
  BY IdleCall DEF Init, CallOK, Holding
<1>3. FailedTests = {}
  BY DEF Init, FailedTests
<1>4. FailuresKnown /\ FailuresCounted /\ NoBlindRepeat
  BY <1>3, FS_EmptySet DEF Init, FailuresKnown, FailuresCounted, NoBlindRepeat
<1> QED
  BY <1>1, <1>2, <1>4 DEF IInv

LEMMA StepsInductive == IInv /\ [Next]_vars => IInv'
<1> SUFFICES ASSUME IInv, [Next]_vars PROVE IInv'
  OBVIOUS
<1>1. CASE Next
  BY <1>1, EditStep, TestStep, ClaimStep, JudgeStep, UndoStep, OutsideStep DEF Next
<1>2. CASE UNCHANGED vars
  BY <1>2, SameHistory DEF vars, tree, evidence, claims, History, IInv, TypeOK, CallOK
<1> QED
  BY <1>1, <1>2

LEMMA Inductive == Spec => []IInv
  BY StartsInductive, StepsInductive, PTL DEF Spec

(* The state stays typed, whatever the threads and editors do.             *)
THEOREM TypeCorrect == Spec => []TypeOK
<1>1. IInv => TypeOK
  BY DEF IInv
<1> QED
  BY <1>1, Inductive, PTL

(* However edits, undos and outside writes interleave with the tests, no   *)
(* more than max_repair_cycles verifications fail                          *)
(* (CompletionController.permit_verification, observe_verification).       *)
THEOREM RepairsAreBounded == Spec => []RepairsBounded
<1>1. IInv => RepairsBounded
  <2> SUFFICES ASSUME IInv PROVE RepairsBounded
    OBVIOUS
  <2>1. Cardinality(FailedTests) \in Nat /\ Cardinality(FailedTests) <= repairs
    BY FS_CardinalityType DEF IInv, FailuresCounted
  <2>2. repairs \in Nat /\ repairs <= MaxRepairs
    BY EvidenceConstants DEF IInv, TypeOK
  <2> QED
    BY <2>1, <2>2, EvidenceConstants DEF RepairsBounded, FailedTests
<1> QED
  BY <1>1, Inductive, PTL

(* A command worded like the record of a failure is not run again on the   *)
(* source it failed on.                                                    *)
THEOREM FailuresAreNotRepeated == Spec => []NoBlindRepeat
<1>1. IInv => NoBlindRepeat
  BY DEF IInv
<1> QED
  BY <1>1, Inductive, PTL

-----------------------------------------------------------------------------
(* The verdict.  A gate's result is a run of the gate's command, and       *)
(* evidence that counts as fresh was read the same before and after.       *)
GatesRan ==
  \A g \in Required : gates[g] # 0 => gates[g] \in DOMAIN tests /\ tests[gates[g]].asked = g
FreshSettled == \A i \in DOMAIN tests : tests[i].fresh => tests[i].before = tests[i].digest

(* The run does nothing else once it was called verified.                  *)
Judged == agent.pc \in {"certified", "ended"} \/ (agent.pc = "deciding" /\ agent.gate)

(* What a verdict rests on, whoever writes beside the run.                 *)
VerdictHolds ==
  verdict.class = "completed_verified" =>
    /\ verdict.basis # {} /\ verdict.basis \subseteq DOMAIN tests
    /\ \A i \in verdict.basis : tests[i].passed /\ tests[i].before = verdict.digest
                                  /\ tests[i].digest = verdict.digest
    /\ \A g \in Required : \E i \in verdict.basis : tests[i].asked = g
    /\ \A c \in Commands : \A i \in Latest(c) : tests[i].passed
VerdictInv ==
  /\ GatesRan /\ FreshSettled /\ VerdictHolds
  /\ verdict.class = "completed_verified" => Judged

LEMMA StaleSees ==
  ASSUME TypeOK, InvalidateEvidence \/ UNCHANGED Records
  PROVE  /\ \A i \in DOMAIN tests :
              tests'[i].seen = tests[i].seen /\ (tests'[i].fresh => tests[i].fresh)
         /\ revision <= revision'
<1>1. CASE UNCHANGED Records
  BY <1>1 DEF Records, TypeOK
<1>2. CASE InvalidateEvidence
  <2>1. \A i \in DOMAIN tests : tests[i] \in Test /\ tests'[i] = [tests[i] EXCEPT !.fresh = FALSE]
    BY <1>2 DEF InvalidateEvidence, TypeOK
  <2> QED
    BY <1>2, <2>1 DEF InvalidateEvidence, Test, TypeOK
<1> QED
  BY <1>1, <1>2

(* What every step but a record and a decision does.                       *)
KeepsEvidence ==
  /\ DOMAIN tests' = DOMAIN tests
  /\ \A i \in DOMAIN tests :
       /\ tests'[i].command = tests[i].command /\ tests'[i].asked = tests[i].asked /\ tests'[i].passed = tests[i].passed
       /\ tests'[i].before = tests[i].before /\ tests'[i].digest = tests[i].digest
       /\ tests'[i].seen = tests[i].seen /\ (tests'[i].fresh => tests[i].fresh)
  /\ \A g \in Required : gates'[g] = gates[g] \/ gates'[g] = 0
  /\ revision <= revision'
KeepsVerdict == UNCHANGED verdict /\ (Judged => Judged')

LEMMA StaleEvidence ==
  ASSUME TypeOK, InvalidateEvidence \/ UNCHANGED Records, UNCHANGED gates
  PROVE  KeepsEvidence
  BY StaleKeeps, StaleSees DEF KeepsEvidence

LEMMA GateForgotten ==
  ASSUME TypeOK, UNCHANGED Records, NEW g, gates' = [gates EXCEPT ![g] = 0] \/ UNCHANGED gates
  PROVE  KeepsEvidence
<1>1. \A c \in Required : gates'[c] = gates[c] \/ gates'[c] = 0
  BY DEF TypeOK
<1>2. UNCHANGED <<tests, revision>>
  BY DEF Records
<1>3. DOMAIN tests' = DOMAIN tests /\ revision <= revision'
  BY <1>2 DEF TypeOK
<1> QED
  BY <1>1, <1>2, <1>3 DEF KeepsEvidence

LEMMA LatestSame == ASSUME KeepsEvidence, NEW c PROVE Latest(c)' = Latest(c)
  BY DEF KeepsEvidence, Latest

LEMMA VerdictKept ==
  ASSUME VerdictInv, KeepsEvidence, KeepsVerdict
  PROVE  VerdictInv'
<1>1. GatesRan' /\ FreshSettled'
  BY DEF VerdictInv, GatesRan, FreshSettled, KeepsEvidence
<1>2. VerdictHolds'
  <2> SUFFICES ASSUME verdict.class = "completed_verified", UNCHANGED verdict PROVE VerdictHolds'
    BY DEF KeepsVerdict, VerdictHolds
  <2>1. /\ verdict.basis # {} /\ verdict.basis \subseteq DOMAIN tests
        /\ \A i \in verdict.basis : tests[i].passed /\ tests[i].before = verdict.digest
                                      /\ tests[i].digest = verdict.digest
        /\ \A g \in Required : \E i \in verdict.basis : tests[i].asked = g
        /\ \A c \in Commands : \A i \in Latest(c) : tests[i].passed
    BY DEF VerdictInv, VerdictHolds
  <2>2. \A c \in Commands : Latest(c)' = Latest(c) /\ Latest(c) \subseteq DOMAIN tests
    BY LatestSame DEF Latest
  <2>3. \A c \in Commands : \A i \in Latest(c)' : tests'[i].passed
    BY <2>1, <2>2 DEF KeepsEvidence
  <2> QED
    BY <2>1, <2>3 DEF VerdictHolds, KeepsEvidence
<1>3. verdict'.class = "completed_verified" => Judged'
  BY DEF VerdictInv, KeepsVerdict
<1> QED
  BY <1>1, <1>2, <1>3 DEF VerdictInv

LEMMA NotJudged ==
  ASSUME agent.pc \notin {"certified", "ended", "deciding"} PROVE ~Judged
  BY DEF Judged

(* A step of the agent that is no record and no decision, ...              *)
LEMMA AgentKeeps ==
  ASSUME IInv, Editing \/ Testing \/ Claiming \/ GateRead, ~TestRecord
  PROVE  KeepsEvidence /\ KeepsVerdict
<1> USE DEF tree, evidence, claims, Records
<1>1. TypeOK
  BY DEF IInv
<1>2. ASSUME NEW c \in Sources, EditCheck(c) PROVE KeepsEvidence /\ KeepsVerdict
  BY <1>1, <1>2, StaleEvidence, NotJudged DEF EditCheck, KeepsVerdict
<1>3. CASE EditReplace
  BY <1>1, <1>3, StaleEvidence, NotJudged DEF EditReplace, KeepsVerdict
<1>4. CASE EditRecord
  BY <1>1, <1>4, StaleEvidence, NotJudged DEF EditRecord, KeepsVerdict
<1>5. ASSUME NEW c \in Commands, NEW g \in BOOLEAN, TestBegin(c, g) PROVE KeepsEvidence /\ KeepsVerdict
  BY <1>1, <1>5, StaleEvidence, NotJudged DEF TestBegin, KeepsVerdict
<1>6. CASE TestOpen
  BY <1>1, <1>6, StaleEvidence, NotJudged DEF TestOpen, KeepsVerdict
<1>7. CASE TestStart
  BY <1>1, <1>7, StaleEvidence, NotJudged DEF TestStart, KeepsVerdict
<1>8. CASE TestRefused
  <2>1. gates' = [gates EXCEPT ![agent.command] = 0] \/ UNCHANGED gates
    BY <1>8 DEF TestRefused
  <2> QED
    BY <1>1, <1>8, <2>1, GateForgotten, NotJudged DEF TestRefused, KeepsVerdict
<1>9. CASE TestAbort
  <2>1. gates' = [gates EXCEPT ![agent.command] = 0] \/ UNCHANGED gates
    BY <1>9 DEF TestAbort
  <2> QED
    BY <1>1, <1>9, <2>1, GateForgotten, NotJudged DEF TestAbort, KeepsVerdict
<1>10. ASSUME NEW outcome \in BOOLEAN, TestExit(outcome) PROVE KeepsEvidence /\ KeepsVerdict
  BY <1>1, <1>10, StaleEvidence, NotJudged DEF TestExit, KeepsVerdict
<1>11. ASSUME NEW claim, PlanRead(claim) PROVE KeepsEvidence /\ KeepsVerdict
  BY <1>1, <1>11, StaleEvidence, NotJudged DEF PlanRead, KeepsVerdict
<1>12. ASSUME NEW claim, CriterionRead(claim) PROVE KeepsEvidence /\ KeepsVerdict
  BY <1>1, <1>12, StaleEvidence, NotJudged DEF CriterionRead, KeepsVerdict
<1>13. CASE PlanCheck
  <2>1. InvalidateEvidence \/ UNCHANGED Records
    BY <1>13, RefreshOrSame DEF PlanCheck
  <2> QED
    BY <1>1, <1>13, <2>1, StaleEvidence, NotJudged DEF PlanCheck, KeepsVerdict
<1>14. CASE PlanAssign
  <2>1. KeepsEvidence
    <3>1. DOMAIN tests' = DOMAIN tests /\ UNCHANGED <<tests, gates, revision>> /\ revision \in Nat
      BY <1>1, <1>14 DEF PlanAssign, TypeOK
    <3> QED
      BY <3>1 DEF KeepsEvidence
  <2> QED
    BY <1>14, <2>1, NotJudged DEF PlanAssign, KeepsVerdict
<1>15. CASE CriterionRecord
  <2>1. InvalidateEvidence \/ UNCHANGED Records
    BY <1>15, RefreshOrSame DEF CriterionRecord
  <2> QED
    BY <1>1, <1>15, <2>1, StaleEvidence, NotJudged DEF CriterionRecord, KeepsVerdict
<1>16. CASE GateRead
  <2>1. agent' = [Idle EXCEPT !.pc = "deciding", !.before = source, !.gate = (agent.pc = "certified")]
    BY <1>16 DEF GateRead
  <2>2. agent'.pc = "deciding" /\ agent'.gate = (agent.pc = "certified")
    BY <2>1 DEF Idle
  <2>3. Judged => Judged'
    BY <1>16, <2>2 DEF GateRead, Judged
  <2> QED
    BY <1>1, <1>16, <2>3, StaleEvidence DEF GateRead, KeepsVerdict
<1> QED
  BY <1>2, <1>3, <1>4, <1>5, <1>6, <1>7, <1>8, <1>9, <1>10, <1>11, <1>12, <1>13, <1>14, <1>15, <1>16
  DEF Editing, Testing, Claiming

(* ... or of somebody else.                                                *)
LEMMA WriteJudged == ASSUME NEW c, Write(c), agent \in Call PROVE Judged => Judged'
  BY DEF Write, Judged, Call

LEMMA WritersKeep ==
  ASSUME IInv, (\E u \in Undoers : Undoing(u)) \/ (\E c \in Sources : OutsideWrite(c))
  PROVE  KeepsEvidence /\ KeepsVerdict
<1> USE DEF tree, evidence, claims, Records
<1>1. TypeOK /\ agent \in Call
  BY DEF IInv, TypeOK
<1>2. ASSUME NEW c \in Sources, OutsideWrite(c) PROVE KeepsEvidence /\ KeepsVerdict
  BY <1>1, <1>2, StaleEvidence, WriteJudged DEF OutsideWrite, KeepsVerdict
<1>3. ASSUME NEW u \in Undoers, UndoPick(u) PROVE KeepsEvidence /\ KeepsVerdict
  BY <1>1, <1>3, StaleEvidence DEF UndoPick, KeepsVerdict, Judged
<1>4. ASSUME NEW u \in Undoers, UndoCheck(u) PROVE KeepsEvidence /\ KeepsVerdict
  <2>1. UNCHANGED <<Records, gates, agent, verdict>>
    BY <1>4 DEF UndoCheck
  <2> QED
    BY <1>1, <2>1, StaleEvidence DEF KeepsVerdict, Judged
<1>5. ASSUME NEW u \in Undoers, UndoReplace(u) PROVE KeepsEvidence /\ KeepsVerdict
  BY <1>1, <1>5, StaleEvidence, WriteJudged DEF UndoReplace, KeepsVerdict
<1>6. ASSUME NEW u \in Undoers, UndoPop(u) PROVE KeepsEvidence /\ KeepsVerdict
  <2>1. UNCHANGED <<Records, gates, agent, verdict>>
    BY <1>6 DEF UndoPop
  <2> QED
    BY <1>1, <2>1, StaleEvidence DEF KeepsVerdict, Judged
<1>7. ASSUME NEW u \in Undoers, UndoInvalidate(u) PROVE KeepsEvidence /\ KeepsVerdict
  BY <1>1, <1>7, StaleEvidence DEF UndoInvalidate, KeepsVerdict, Judged
<1> QED
  BY <1>2, <1>3, <1>4, <1>5, <1>6, <1>7 DEF Undoing

(* A record adds one test, and says of it what was read around it.         *)
LEMMA RecordAdds ==
  ASSUME IInv, TestRecord
  PROVE  /\ DOMAIN tests' = 1 .. Len(tests) + 1 /\ DOMAIN tests = 1 .. Len(tests) /\ Len(tests) \in Nat
         /\ \A i \in DOMAIN tests : tests'[i] = tests[i]
         /\ tests'[Len(tests) + 1] =
              [command |-> Recorded[agent.command], asked |-> agent.command,
               passed |-> agent.passed, fresh |-> Fresh(agent),
               before |-> agent.before, digest |-> agent.after,
               revision |-> revision, seen |-> agent.seen]
<1>1. tests \in Seq(Test) /\ TypeOK' /\ IInv'
  BY RecordStep DEF IInv, TypeOK
<1>2. tests' \in Seq(Test)
  BY <1>1 DEF TypeOK
<1> QED
  BY <1>1, <1>2 DEF TestRecord

LEMMA RecordVerdict == ASSUME IInv, VerdictInv, TestRecord PROVE VerdictInv'
<1> DEFINE n == Len(tests) + 1
<1>1. agent.pc = "recording" /\ verdict.class # "completed_verified"
  BY DEF TestRecord, VerdictInv, Judged
<1>2. UNCHANGED verdict
  BY DEF TestRecord
<1>3. FreshSettled'
  <2> SUFFICES ASSUME NEW i \in DOMAIN tests', tests'[i].fresh PROVE tests'[i].before = tests'[i].digest
    BY DEF FreshSettled
  <2>1. CASE i = n
    <3>1. tests'[n].fresh = Fresh(agent) /\ tests'[n].before = agent.before
          /\ tests'[n].digest = agent.after
      BY RecordAdds
    <3> QED
      BY <2>1, <3>1 DEF Fresh
  <2>2. CASE i # n
    <3>1. i \in DOMAIN tests /\ tests'[i] = tests[i]
      BY <2>2, RecordAdds
    <3> QED
      BY <3>1 DEF VerdictInv, FreshSettled
  <2> QED
    BY <2>1, <2>2
<1>4. GatesRan'
  <2> SUFFICES ASSUME NEW g \in Required, gates'[g] # 0
               PROVE  gates'[g] \in DOMAIN tests' /\ tests'[gates'[g]].asked = g
    BY DEF GatesRan
  <2>1. tests'[n].asked = agent.command /\ n \in DOMAIN tests'
    BY RecordAdds
  <2>2. gates'[g] = gates[g] \/ (gates'[g] = n /\ g = agent.command)
    BY DEF TestRecord, IInv, TypeOK
  <2>3. gates[g] # 0 => gates[g] \in DOMAIN tests /\ tests[gates[g]].asked = g
    BY DEF VerdictInv, GatesRan
  <2>4. DOMAIN tests \subseteq DOMAIN tests' /\ \A i \in DOMAIN tests : tests'[i] = tests[i]
    BY RecordAdds
  <2> QED
    BY <2>1, <2>2, <2>3, <2>4
<1> QED
  BY <1>1, <1>2, <1>3, <1>4 DEF VerdictInv, VerdictHolds

(* The decision that calls the run verified looked at all of it.           *)
LEMMA DecisionVerdict == ASSUME IInv, VerdictInv, GateDecide PROVE VerdictInv'
<1> DEFINE digest == agent.before
           valid == Valid(agent.before)
<1>1. TypeOK /\ (InvalidateEvidence \/ UNCHANGED Records) /\ UNCHANGED <<gates, edits, criterion>>
  BY RefreshOrSame DEF GateDecide, IInv, tree
<1>2. KeepsEvidence /\ verified' \subseteq DOMAIN tests'
  BY <1>1, StaleEvidence, StaleKeeps
<1>3. GatesRan' /\ FreshSettled'
  BY <1>2 DEF VerdictInv, GatesRan, FreshSettled, KeepsEvidence
<1>4. verdict' = [class |-> Classified(valid), digest |-> digest, basis |-> valid]
      /\ agent' = [Idle EXCEPT !.pc = IF Classified(valid) = "blocked" \/ agent.gate
                                      THEN "ended" ELSE "certified"]
  BY DEF GateDecide
<1>5. agent'.pc \in {"ended", "certified"}
  BY <1>4 DEF Idle
<1>6. ASSUME verdict'.class = "completed_verified" PROVE VerdictHolds'
  <2>1. Acceptable(valid) /\ valid # {}
    BY <1>4, <1>6 DEF Classified
  <2>2. /\ valid \subseteq DOMAIN tests' /\ verdict'.basis = valid /\ verdict'.digest = digest
        /\ \A i \in valid : tests'[i].passed /\ tests'[i].fresh /\ tests'[i].digest = digest
    BY <1>2, <1>4 DEF Valid
  <2>3. \A i \in valid : tests'[i].before = digest
    BY <1>3, <2>2 DEF FreshSettled
  <2>4. ASSUME NEW g \in Required PROVE \E i \in valid : tests'[i].asked = g
    <3>1. gates[g] \in valid
      BY <2>1 DEF Acceptable
    <3>2. gates'[g] # 0 /\ gates'[g] = gates[g]
      <4>1. 0 \notin DOMAIN tests /\ DOMAIN tests' = DOMAIN tests
        BY <1>1, <1>2 DEF TypeOK, KeepsEvidence
      <4> QED
        BY <1>1, <2>2, <3>1, <4>1
    <3> QED
      BY <1>3, <3>1, <3>2 DEF GatesRan
  <2>5. ASSUME NEW c \in Commands, NEW i \in Latest(c)' PROVE tests'[i].passed
    <3>1. i \in Latest(c) /\ i \in DOMAIN tests
      BY <1>2, <2>5, LatestSame DEF Latest
    <3>2. tests[i].passed
      BY <2>1, <3>1 DEF Acceptable
    <3> QED
      BY <1>2, <3>1, <3>2 DEF KeepsEvidence
  <2> QED
    BY <2>1, <2>2, <2>3, <2>4, <2>5 DEF VerdictHolds
<1> QED
  BY <1>3, <1>5, <1>6 DEF VerdictInv, VerdictHolds, Judged

LEMMA VerdictStep == IInv /\ VerdictInv /\ [Next]_vars => VerdictInv'
<1> SUFFICES ASSUME IInv, VerdictInv, [Next]_vars PROVE VerdictInv'
  OBVIOUS
<1>1. CASE UNCHANGED vars
  <2>1. KeepsEvidence /\ KeepsVerdict
    BY <1>1, StaleEvidence DEF IInv, vars, Records, evidence, claims, KeepsVerdict, Judged
  <2> QED
    BY <2>1, VerdictKept
<1>2. CASE Next
  BY <1>2, AgentKeeps, WritersKeep, VerdictKept, RecordVerdict, DecisionVerdict DEF Next, Judging
<1> QED
  BY <1>1, <1>2

LEMMA VerdictInit == Init => VerdictInv
  BY DEF Init, VerdictInv, GatesRan, FreshSettled, VerdictHolds, Unjudged

(* Whoever writes beside the run, and however often: a run that is called  *)
(* verified has evidence that passed, for every required gate, read on the *)
(* source the gate read before and after, and no command's last run failed *)
(* (completion.py's evaluate).                                             *)
THEOREM VerdictsHaveEvidence == Spec => []VerdictHolds
<1>1. Init => IInv /\ VerdictInv
  BY StartsInductive, VerdictInit
<1>2. IInv /\ VerdictInv /\ [Next]_vars => IInv' /\ VerdictInv'
  BY StepsInductive, VerdictStep
<1>3. VerdictInv => VerdictHolds
  BY DEF VerdictInv
<1> QED
  BY <1>1, <1>2, <1>3, PTL DEF Spec

(* What a command saw, if one write at most goes unnoticed while it runs:  *)
(* an undo's between its replacement and its invalidation, or an editor's. *)
OneUnnoticed ==
  \/ MaxOutside = 0 /\ \A u, v \in Undoers : u = v
  \/ MaxOutside <= 1 /\ Undoers = {}
UndoneKnown ==
  \A u \in Undoers : undo[u].pc \in {"picked", "replacing", "replaced"} => undo[u].change \in changes
Unnoticed == outside > 0 \/ \E u \in Undoers : undo[u].pc \in {"replaced", "popped"}
Undisturbed ==
  /\ agent.pc = "opened" => source = agent.before
  /\ agent.pc = "running" => source = agent.before /\ agent.seen = {agent.before}
  /\ agent.pc = "recording" => agent.after = agent.before /\ agent.seen = {agent.before}
Disturbed ==
  /\ agent.pc \in {"opened", "running"} => source # agent.before
  /\ agent.pc = "recording" => agent.after # agent.before
TestWatched ==
  agent.pc \in {"opened", "running", "recording"} =>
    Undisturbed \/ revision > agent.revision \/ (Unnoticed /\ Disturbed)
SeenOnce == \A i \in DOMAIN tests : tests[i].fresh => tests[i].seen = {tests[i].digest}
BasisSeen ==
  verdict.class = "completed_verified" =>
    \A i \in verdict.basis : tests[i].seen = {verdict.digest}
RevisionRead ==
  agent.pc \in {"opening", "opened", "running", "recording"} => agent.revision <= revision
SeenInv == UndoneKnown /\ RevisionRead /\ TestWatched /\ SeenOnce /\ BasisSeen

TestPlaces == {"opening", "opened", "running", "recording"}

(* A step that leaves a test alone.                                        *)
Steady ==
  /\ agent'.pc \in TestPlaces => agent' = agent /\ source' = source
  /\ revision <= revision'
  /\ Unnoticed => Unnoticed' \/ revision < revision'

LEMMA SteadyKeeps ==
  ASSUME TypeOK, TypeOK', RevisionRead, TestWatched, Steady
  PROVE  RevisionRead' /\ TestWatched'
<1>1. /\ agent.revision \in Nat /\ revision \in Nat /\ revision' \in Nat
  BY DEF TypeOK, Call
<1>2. RevisionRead'
  BY <1>1 DEF RevisionRead, Steady, TestPlaces
<1>3. TestWatched'
  <2> SUFFICES ASSUME agent'.pc \in {"opened", "running", "recording"}, agent' = agent, source' = source
               PROVE  Undisturbed' \/ revision' > agent'.revision \/ (Unnoticed' /\ Disturbed')
    BY DEF Steady, TestPlaces, TestWatched
  <2>1. CASE Undisturbed
    BY <2>1 DEF Undisturbed
  <2>2. CASE revision > agent.revision
    BY <1>1, <2>2 DEF Steady
  <2>3. CASE Unnoticed /\ Disturbed
    <3>1. agent.revision <= revision
      BY DEF RevisionRead
    <3>2. CASE revision < revision'
      BY <1>1, <3>1, <3>2
    <3>3. CASE Unnoticed'
      BY <2>3, <3>3 DEF Disturbed
    <3> QED
      BY <2>3, <3>2, <3>3 DEF Steady
  <2> QED
    BY <2>1, <2>2, <2>3 DEF TestWatched
<1> QED
  BY <1>2, <1>3

LEMMA UnnoticedSame == ASSUME UNCHANGED <<outside, undo>> PROVE Unnoticed' <=> Unnoticed
  BY DEF Unnoticed

(* The agent's steps.                                                      *)
LEMMA AgentSteady ==
  ASSUME IInv, IInv', Editing \/ TestRefused \/ TestAbort \/ TestRecord \/ Claiming \/ Judging
  PROVE  Steady
<1> USE DEF tree, evidence, claims, Records, TestPlaces
<1>1. TypeOK /\ revision \in Nat
  BY DEF IInv, TypeOK
<1>2. revision <= revision' /\ UNCHANGED <<outside, undo>>
  <2>1. ASSUME NEW c \in Sources, EditCheck(c) PROVE revision <= revision' /\ UNCHANGED <<outside, undo>>
    BY <1>1, <2>1 DEF EditCheck
  <2>2. CASE EditReplace \/ EditRecord
    BY <1>1, <2>2 DEF EditReplace, EditRecord, InvalidateEvidence
  <2>3. CASE TestRefused \/ TestAbort \/ TestRecord
    BY <1>1, <2>3 DEF TestRefused, TestAbort, TestRecord
  <2>4. ASSUME NEW claim, PlanRead(claim) \/ CriterionRead(claim)
        PROVE  revision <= revision' /\ UNCHANGED <<outside, undo>>
    BY <1>1, <2>4 DEF PlanRead, CriterionRead
  <2>5. CASE PlanCheck \/ CriterionRecord \/ GateDecide
    <3>1. InvalidateEvidence \/ UNCHANGED Records
      BY <2>5, RefreshOrSame DEF PlanCheck, CriterionRecord, GateDecide
    <3> QED
      BY <1>1, <2>5, <3>1, StaleSees DEF PlanCheck, CriterionRecord, GateDecide
  <2>6. CASE PlanAssign \/ GateRead
    BY <1>1, <2>6 DEF PlanAssign, GateRead
  <2> QED
    BY <2>1, <2>2, <2>3, <2>4, <2>5, <2>6 DEF Editing, Claiming, Judging
<1>3. agent'.pc \notin TestPlaces
  <2>1. ASSUME NEW c \in Sources, EditCheck(c) PROVE agent'.pc \notin TestPlaces
    BY <2>1 DEF EditCheck, Idle
  <2>2. CASE EditReplace
    BY <1>1, <2>2 DEF EditReplace, TypeOK, Call
  <2>3. CASE EditRecord \/ TestRefused \/ TestAbort \/ TestRecord \/ PlanAssign \/ CriterionRecord
    BY <2>3, IdleCall DEF EditRecord, TestRefused, TestAbort, TestRecord, PlanAssign, CriterionRecord
  <2>4. ASSUME NEW claim, PlanRead(claim) \/ CriterionRead(claim) PROVE agent'.pc \notin TestPlaces
    BY <2>4 DEF PlanRead, CriterionRead, Idle
  <2>5. CASE PlanCheck
    BY <1>1, <2>5, IdleCall DEF PlanCheck, TypeOK, Call
  <2>6. CASE GateRead
    BY <2>6 DEF GateRead, Idle
  <2>7. CASE GateDecide
    BY <2>7 DEF GateDecide, Idle
  <2> QED
    BY <2>1, <2>2, <2>3, <2>4, <2>5, <2>6, <2>7 DEF Editing, Claiming, Judging
<1> QED
  BY <1>2, <1>3, UnnoticedSame DEF Steady

(* The steps of a test until its outcome is recorded.                      *)
LEMMA TestKeeps ==
  ASSUME TypeOK, RevisionRead, TestWatched,
         TestOpen \/ TestStart \/ (\E c \in Commands, g \in BOOLEAN : TestBegin(c, g))
           \/ (\E outcome \in BOOLEAN : TestExit(outcome))
  PROVE  RevisionRead' /\ TestWatched' /\ UNCHANGED changes /\ UNCHANGED undo
<1> USE DEF tree
<1>1. agent \in Call /\ revision \in Nat
  BY DEF TypeOK
<1>2. ASSUME NEW c \in Commands, NEW g \in BOOLEAN, TestBegin(c, g)
      PROVE  RevisionRead' /\ TestWatched' /\ UNCHANGED changes /\ UNCHANGED undo
  <2>1. agent'.pc = "opening" /\ agent'.revision = revision /\ UNCHANGED <<revision, changes, undo>>
    BY <1>2 DEF TestBegin, Idle
  <2> QED
    BY <1>1, <2>1 DEF RevisionRead, TestWatched
<1>3. CASE TestOpen
  <2>1. /\ agent.pc = "opening" /\ UNCHANGED <<source, revision, changes, undo>>
        /\ agent' = [agent EXCEPT !.pc = "opened", !.before = source]
    BY <1>3 DEF TestOpen
  <2>2. agent'.pc = "opened" /\ agent'.before = source /\ agent'.revision = agent.revision
    BY <1>1, <2>1 DEF Call
  <2> QED
    BY <2>1, <2>2 DEF RevisionRead, TestWatched, Undisturbed
<1>4. CASE TestStart
  <2>1. /\ agent.pc = "opened" /\ UNCHANGED <<source, revision, changes, undo, outside>>
        /\ agent' = [agent EXCEPT !.pc = "running", !.seen = {source}]
    BY <1>4 DEF TestStart
  <2>2. /\ agent'.pc = "running" /\ agent'.before = agent.before /\ agent'.seen = {source}
        /\ agent'.revision = agent.revision
    BY <1>1, <2>1 DEF Call
  <2>3. Unnoticed' <=> Unnoticed
    BY <2>1, UnnoticedSame
  <2> QED
    BY <2>1, <2>2, <2>3 DEF RevisionRead, TestWatched, Undisturbed, Disturbed
<1>5. ASSUME NEW outcome \in BOOLEAN, TestExit(outcome)
      PROVE  RevisionRead' /\ TestWatched' /\ UNCHANGED changes /\ UNCHANGED undo
  <2>1. /\ agent.pc = "running" /\ UNCHANGED <<source, revision, changes, undo, outside>>
        /\ agent' = [agent EXCEPT !.pc = "recording", !.after = source, !.passed = outcome]
    BY <1>5 DEF TestExit
  <2>2. /\ agent'.pc = "recording" /\ agent'.before = agent.before /\ agent'.after = source
        /\ agent'.seen = agent.seen /\ agent'.revision = agent.revision
    BY <1>1, <2>1 DEF Call
  <2>3. Unnoticed' <=> Unnoticed
    BY <2>1, UnnoticedSame
  <2> QED
    BY <2>1, <2>2, <2>3 DEF RevisionRead, TestWatched, Undisturbed, Disturbed
<1> QED
  BY <1>2, <1>3, <1>4, <1>5

(* A write that goes unnoticed is the only one.                            *)
LEMMA WriteWatched ==
  ASSUME TypeOK, RevisionRead, TestWatched, NEW c \in Sources, Write(c), ~Unnoticed, Unnoticed',
         UNCHANGED revision
  PROVE  RevisionRead' /\ TestWatched'
<1>1. agent \in Call
  BY DEF TypeOK
<1>2. /\ agent'.pc = agent.pc /\ agent'.before = agent.before /\ agent'.after = agent.after
      /\ agent'.revision = agent.revision /\ source' = c
      /\ agent'.seen = IF agent.pc = "running" THEN agent.seen \cup {c} ELSE agent.seen
  BY <1>1 DEF Write, Call
<1>3. RevisionRead'
  BY <1>2 DEF RevisionRead
<1>4. TestWatched'
  <2> SUFFICES ASSUME agent.pc \in {"opened", "running", "recording"}
               PROVE  Undisturbed' \/ revision' > agent'.revision \/ (Unnoticed' /\ Disturbed')
    BY <1>2 DEF TestWatched
  <2>1. CASE Undisturbed /\ c = agent.before
    BY <1>2, <2>1 DEF Undisturbed
  <2>2. CASE Undisturbed /\ c # agent.before /\ agent.pc # "recording"
    BY <1>2, <2>2 DEF Disturbed
  <2>3. CASE Undisturbed /\ agent.pc = "recording"
    BY <1>2, <2>3 DEF Undisturbed
  <2>4. CASE revision > agent.revision
    BY <1>2, <2>4
  <2> QED
    BY <2>1, <2>2, <2>3, <2>4 DEF TestWatched
<1> QED
  BY <1>3, <1>4

LEMMA OthersWatched ==
  ASSUME OneUnnoticed, IInv, IInv', RevisionRead, TestWatched, UndoneKnown,
         (\E u \in Undoers : Undoing(u)) \/ (\E c \in Sources : OutsideWrite(c))
  PROVE  RevisionRead' /\ TestWatched' /\ UndoneKnown'
<1> USE DEF tree, evidence, claims
<1>1. TypeOK /\ TypeOK' /\ agent \in Call /\ revision \in Nat /\ outside \in Nat
  BY DEF IInv, TypeOK
<1>2. ASSUME NEW c \in Sources, OutsideWrite(c) PROVE RevisionRead' /\ TestWatched' /\ UndoneKnown'
  <2>1. Undoers = {} /\ MaxOutside <= 1
    BY <1>1, <1>2, EvidenceConstants DEF OutsideWrite, OneUnnoticed
  <2>2. ~Unnoticed /\ Unnoticed'
    BY <1>1, <1>2, <2>1, EvidenceConstants DEF OutsideWrite, Unnoticed
  <2>3. Write(c) /\ UNCHANGED revision
    BY <1>2 DEF OutsideWrite
  <2>4. RevisionRead' /\ TestWatched'
    BY <1>1, <2>2, <2>3, WriteWatched
  <2> QED
    BY <2>1, <2>4 DEF UndoneKnown
<1>3. ASSUME NEW u \in Undoers, Undoing(u) PROVE RevisionRead' /\ TestWatched' /\ UndoneKnown'
  <2>1. (\A v \in Undoers : v = u) /\ outside = 0
    <3>1. MaxOutside = 0 /\ \A v, w \in Undoers : v = w
      BY DEF OneUnnoticed
    <3> QED
      BY <3>1 DEF IInv, TypeOK
  <2>2. undo[u] \in Undo /\ undo \in [Undoers -> Undo]
    BY <1>1 DEF TypeOK
  <2>3. CASE UndoPick(u)
    <3>1. PICK x \in changes : undo' = [undo EXCEPT ![u] = [pc |-> "picked", change |-> x]]
      BY <2>3 DEF UndoPick
    <3>2. UNCHANGED <<agent, source, revision, changes, outside>> /\ undo[u].pc = "idle"
      BY <2>3 DEF UndoPick, UndoAt
    <3>3. undo'[u].pc = "picked" /\ undo'[u].change = x
      BY <2>2, <3>1
    <3>4. UndoneKnown'
      BY <2>1, <3>2, <3>3 DEF UndoneKnown
    <3>5. ~Unnoticed
      BY <2>1, <3>2 DEF Unnoticed
    <3>6. Steady
      BY <1>1, <3>2, <3>5 DEF Steady
    <3> QED
      BY <1>1, <3>4, <3>6, SteadyKeeps
  <2>4. CASE UndoCheck(u)
    <3>1. UNCHANGED <<agent, source, revision, changes, outside>> /\ undo[u].pc = "picked"
      BY <2>4 DEF UndoCheck, UndoAt
    <3>2. undo'[u] = Resting \/ undo'[u].change = undo[u].change
      BY <2>2, <2>4, <3>1 DEF UndoCheck, UndoGoto, Undo, Resting
    <3>3. UndoneKnown'
      BY <2>1, <3>1, <3>2 DEF UndoneKnown, Resting
    <3>4. ~Unnoticed
      BY <2>1, <3>1 DEF Unnoticed
    <3>5. Steady
      BY <1>1, <3>1, <3>4 DEF Steady
    <3> QED
      BY <1>1, <3>3, <3>5, SteadyKeeps
  <2>5. CASE UndoReplace(u)
    <3>1. /\ undo[u].pc = "replacing" /\ UndoGoto(u, "replaced") /\ Write(undo[u].change.before)
          /\ UNCHANGED <<revision, changes, outside>>
      BY <2>5 DEF UndoReplace, UndoAt
    <3>2. undo'[u].pc = "replaced" /\ undo'[u].change = undo[u].change
      BY <2>2, <3>1 DEF UndoGoto, Undo, Resting
    <3>3. undo[u].change.before \in Sources
      BY <2>2, <3>1 DEF Undo, Resting, Change
    <3>4. ~Unnoticed /\ Unnoticed'
      BY <2>1, <3>1, <3>2 DEF Unnoticed
    <3>5. UndoneKnown'
      BY <2>1, <3>1, <3>2 DEF UndoneKnown
    <3> QED
      BY <1>1, <3>1, <3>3, <3>4, <3>5, WriteWatched
  <2>6. CASE UndoPop(u)
    <3>1. undo[u].pc = "replaced" /\ undo[u].change \in changes
      BY <2>6 DEF UndoPop, UndoAt, UndoneKnown
    <3>2. UndoGoto(u, "popped") /\ UNCHANGED <<agent, source, revision, outside>>
      BY <2>6, <3>1 DEF UndoPop
    <3>3. undo'[u].pc = "popped"
      BY <2>2, <3>1, <3>2 DEF UndoGoto, Undo, Resting
    <3>4. Unnoticed' /\ UndoneKnown'
      BY <2>1, <3>3 DEF Unnoticed, UndoneKnown
    <3>5. Steady
      BY <1>1, <3>2, <3>4 DEF Steady
    <3> QED
      BY <1>1, <3>4, <3>5, SteadyKeeps
  <2>7. CASE UndoInvalidate(u)
    <3>1. revision' = revision + 1 /\ UNCHANGED <<agent, source>>
      BY <2>7 DEF UndoInvalidate, InvalidateEvidence
    <3>2. undo'[u] = Resting
      BY <2>2, <2>7 DEF UndoInvalidate
    <3>3. UndoneKnown'
      BY <2>1, <3>2 DEF UndoneKnown, Resting
    <3>4. Steady
      BY <1>1, <3>1 DEF Steady
    <3> QED
      BY <1>1, <3>3, <3>4, SteadyKeeps
  <2> QED
    BY <1>3, <2>3, <2>4, <2>5, <2>6, <2>7 DEF Undoing
<1> QED
  BY <1>2, <1>3

(* Evidence is fresh only if its command saw one source.                   *)
LEMMA SeenKept ==
  ASSUME SeenOnce, KeepsEvidence
  PROVE  SeenOnce'
  BY DEF SeenOnce, KeepsEvidence

LEMMA BasisKept ==
  ASSUME VerdictInv, BasisSeen, KeepsEvidence, KeepsVerdict
  PROVE  BasisSeen'
  BY DEF VerdictInv, VerdictHolds, BasisSeen, KeepsEvidence, KeepsVerdict

LEMMA RecordSeen == ASSUME IInv, VerdictInv, TestWatched, SeenOnce, TestRecord PROVE SeenOnce' /\ BasisSeen'
<1> DEFINE n == Len(tests) + 1
<1>1. agent.pc = "recording" /\ verdict.class # "completed_verified" /\ UNCHANGED verdict
  BY DEF TestRecord, VerdictInv, Judged
<1>2. BasisSeen'
  BY <1>1 DEF BasisSeen
<1>3. SeenOnce'
  <2> SUFFICES ASSUME NEW i \in DOMAIN tests', tests'[i].fresh
               PROVE  tests'[i].seen = {tests'[i].digest}
    BY DEF SeenOnce
  <2>1. CASE i = n
    <3>1. tests'[n].fresh = Fresh(agent) /\ tests'[n].seen = agent.seen
          /\ tests'[n].digest = agent.after
      BY RecordAdds
    <3>2. Fresh(agent)
      BY <2>1, <3>1
    <3>3. agent.before = agent.after /\ agent.revision = revision /\ revision \in Nat
      BY <3>2 DEF Fresh, IInv, TypeOK
    <3>4. Undisturbed
      BY <1>1, <3>3 DEF TestWatched, Disturbed
    <3> QED
      BY <1>1, <2>1, <3>1, <3>3, <3>4 DEF Undisturbed
  <2>2. CASE i # n
    <3>1. i \in DOMAIN tests /\ tests'[i] = tests[i]
      BY <2>2, RecordAdds
    <3> QED
      BY <3>1 DEF SeenOnce
  <2> QED
    BY <2>1, <2>2
<1> QED
  BY <1>2, <1>3

LEMMA DecisionSeen == ASSUME IInv, SeenOnce, GateDecide PROVE SeenOnce' /\ BasisSeen'
<1>1. TypeOK /\ (InvalidateEvidence \/ UNCHANGED Records) /\ UNCHANGED gates
  BY RefreshOrSame DEF GateDecide, IInv
<1>2. KeepsEvidence /\ verified' \subseteq DOMAIN tests'
  BY <1>1, StaleEvidence, StaleKeeps
<1>3. SeenOnce'
  BY <1>2, SeenKept
<1>4. verdict'.digest = agent.before /\ verdict'.basis = Valid(agent.before)
  BY DEF GateDecide
<1>5. \A i \in Valid(agent.before) : i \in DOMAIN tests' /\ tests'[i].fresh /\ tests'[i].digest = agent.before
  BY <1>2 DEF Valid
<1> QED
  BY <1>3, <1>4, <1>5 DEF SeenOnce, BasisSeen

LEMMA EditorKnown ==
  ASSUME UndoneKnown, UNCHANGED undo, changes \subseteq changes' PROVE UndoneKnown'
  BY DEF UndoneKnown

LEMMA AgentKnown ==
  ASSUME Editing \/ Testing \/ Claiming \/ Judging
  PROVE  UNCHANGED undo /\ changes \subseteq changes'
<1> USE DEF tree
<1>1. CASE Editing
  BY <1>1 DEF Editing, EditCheck, EditReplace, EditRecord
<1>2. CASE Testing
  BY <1>2 DEF Testing, TestBegin, TestOpen, TestStart, TestRefused, TestExit, TestAbort, TestRecord
<1>3. CASE Claiming
  BY <1>3 DEF Claiming, PlanRead, PlanCheck, PlanAssign, CriterionRead, CriterionRecord
<1>4. CASE Judging
  BY <1>4 DEF Judging, GateRead, GateDecide
<1> QED
  BY <1>1, <1>2, <1>3, <1>4

LEMMA SeenStep ==
  ASSUME OneUnnoticed
  PROVE  IInv /\ VerdictInv /\ SeenInv /\ [Next]_vars => SeenInv'
<1> SUFFICES ASSUME IInv, VerdictInv, SeenInv, [Next]_vars PROVE SeenInv'
  OBVIOUS
<1>1. IInv' /\ TypeOK /\ TypeOK' /\ UndoneKnown /\ RevisionRead /\ TestWatched /\ SeenOnce /\ BasisSeen
  BY StepsInductive DEF SeenInv, IInv
<1>2. CASE UNCHANGED vars
  <2>1. KeepsEvidence /\ KeepsVerdict
    BY <1>1, <1>2, StaleEvidence DEF vars, Records, evidence, claims, KeepsVerdict, Judged
  <2>2. UNCHANGED <<undo, changes, agent, source, revision, outside>>
    BY <1>2 DEF vars, tree
  <2>3. Steady
    BY <1>1, <2>2, UnnoticedSame DEF Steady, TypeOK
  <2> QED
    BY <1>1, <2>1, <2>2, <2>3, SteadyKeeps, SeenKept, BasisKept, EditorKnown DEF SeenInv
<1>3. CASE (\E u \in Undoers : Undoing(u)) \/ (\E c \in Sources : OutsideWrite(c))
  BY <1>1, <1>3, OthersWatched, WritersKeep, SeenKept, BasisKept DEF SeenInv
<1>4. CASE Editing \/ Testing \/ Claiming \/ Judging
  <2>1. UndoneKnown'
    BY <1>1, <1>4, AgentKnown, EditorKnown
  <2>2. RevisionRead' /\ TestWatched'
    BY <1>1, <1>4, AgentSteady, SteadyKeeps, TestKeeps DEF Testing
  <2>3. SeenOnce' /\ BasisSeen'
    BY <1>1, <1>4, AgentKeeps, SeenKept, BasisKept, RecordSeen, DecisionSeen DEF Judging
  <2> QED
    BY <2>1, <2>2, <2>3 DEF SeenInv
<1> QED
  BY <1>2, <1>3, <1>4 DEF Next

LEMMA SeenInit == Init => SeenInv
  BY DEF Init, SeenInv, UndoneKnown, RevisionRead, TestWatched, SeenOnce, BasisSeen, Unjudged,
         Idle, Resting

(* With one undo thread and no outside editor, or an editor who writes     *)
(* once and no undo, a run that is called verified was tested on the source *)
(* the gate read, and its commands saw no other: a write beside a test      *)
(* changes the digest, or the revision before the next write.              *)
THEOREM VerifiedRunsAreTested ==
  ASSUME OneUnnoticed
  PROVE  Spec => []VerifiedIsTested
<1>1. Init => IInv /\ VerdictInv /\ SeenInv
  BY StartsInductive, VerdictInit, SeenInit
<1>2. IInv /\ VerdictInv /\ SeenInv /\ [Next]_vars => IInv' /\ VerdictInv' /\ SeenInv'
  BY StepsInductive, VerdictStep, SeenStep
<1>3. VerdictInv /\ SeenInv => VerifiedIsTested
  BY DEF VerdictInv, VerdictHolds, SeenInv, BasisSeen, VerifiedIsTested
<1> QED
  BY <1>1, <1>2, <1>3, PTL DEF Spec

-----------------------------------------------------------------------------
(* A completed step.  update_plan checks the evidence of the plan it is    *)
(* given, and replaces the plan later.                                     *)
Covered ==
  agent.pc = "assigning" /\ agent.claim.status = "done" => agent.claim.evidence \in verified
UndoLands == \E u \in Undoers : undo[u].pc = "popped" /\ undo'[u].pc = "idle"

(* What becomes of evidence and steps: nothing, more evidence, or all of   *)
(* it is stale and no step is done.                                        *)
EvidenceStands ==
  \/ step' = step /\ verified \subseteq verified'
  \/ verified' = {} /\ step'.status # "done"

LEMMA InvalidatedStands == ASSUME TypeOK, InvalidateEvidence PROVE verified' = {} /\ step'.status # "done"
  BY DEF InvalidateEvidence, Reopened, TypeOK, Claim
LEMMA RefreshedStands == ASSUME TypeOK, NEW d, RefreshEvidence(d) PROVE EvidenceStands
  BY InvalidatedStands DEF RefreshEvidence, EvidenceStands

LEMMA AgentStands ==
  ASSUME TypeOK, Editing \/ Testing \/ Claiming \/ Judging
  PROVE  /\ EvidenceStands \/ (PlanAssign /\ step' = agent.claim /\ verified' = verified)
         /\ agent'.pc # "assigning" \/ Covered'
<1>0. agent \in Call
  BY DEF TypeOK
<1>1. CASE Editing
  <2>1. agent'.pc # "assigning"
    <3>1. ASSUME NEW c \in Sources, EditCheck(c) PROVE agent'.pc = "replacing"
      BY <3>1 DEF EditCheck, Idle
    <3>2. CASE EditReplace
      BY <1>0, <3>2 DEF EditReplace, Call
    <3>3. CASE EditRecord
      BY <3>3, IdleCall DEF EditRecord
    <3> QED
      BY <1>1, <3>1, <3>2, <3>3 DEF Editing
  <2>2. EvidenceStands
    BY <1>1, InvalidatedStands DEF Editing, EditCheck, EditReplace, EditRecord, EvidenceStands,
       claims
  <2> QED
    BY <2>1, <2>2
<1>2. CASE Testing
  <2>1. agent'.pc # "assigning"
    <3>1. ASSUME NEW c, NEW g, TestBegin(c, g) PROVE agent'.pc = "opening"
      BY <3>1 DEF TestBegin, Idle
    <3>2. CASE TestRefused \/ TestAbort \/ TestRecord
      BY <3>2, IdleCall DEF TestRefused, TestAbort, TestRecord
    <3>3. CASE TestOpen
      BY <1>0, <3>3 DEF TestOpen, Call
    <3>4. CASE TestStart
      BY <1>0, <3>4 DEF TestStart, Call
    <3>5. ASSUME NEW outcome, TestExit(outcome) PROVE agent'.pc = "recording"
      BY <1>0, <3>5 DEF TestExit, Call
    <3> QED
      BY <1>2, <3>1, <3>2, <3>3, <3>4, <3>5 DEF Testing
  <2>2. EvidenceStands
    BY <1>2 DEF Testing, TestBegin, TestOpen, TestStart, TestRefused, TestAbort, TestExit, TestRecord,
       EvidenceStands, claims
  <2> QED
    BY <2>1, <2>2
<1>3. ASSUME NEW claim, PlanRead(claim) \/ CriterionRead(claim)
      PROVE  agent'.pc # "assigning" /\ EvidenceStands
  BY <1>3 DEF PlanRead, CriterionRead, Idle, EvidenceStands, claims
<1>4. CASE PlanCheck
  <2>1. EvidenceStands
    BY <1>4, RefreshedStands DEF PlanCheck
  <2>2. CASE agent.claim.status = "done" => agent.claim.evidence \in verified'
    <3>1. agent' = [agent EXCEPT !.pc = "assigning"]
      BY <1>4, <2>2 DEF PlanCheck
    <3>2. agent'.claim = agent.claim
      BY <3>1 DEF TypeOK, Call
    <3> QED
      BY <2>1, <2>2, <3>2 DEF Covered
  <2>3. CASE ~(agent.claim.status = "done" => agent.claim.evidence \in verified')
    <3>1. agent' = Idle
      BY <1>4, <2>3 DEF PlanCheck
    <3> QED
      BY <2>1, <3>1, IdleCall
  <2> QED
    BY <2>2, <2>3
<1>5. CASE PlanAssign
  BY <1>5, IdleCall DEF PlanAssign
<1>6. CASE CriterionRecord
  BY <1>6, IdleCall, RefreshedStands DEF CriterionRecord
<1>7. CASE GateRead
  BY <1>7 DEF GateRead, Idle, EvidenceStands, claims
<1>8. CASE GateDecide
  <2>1. agent'.pc \in {"ended", "certified"}
    BY <1>8 DEF GateDecide, Idle
  <2>2. EvidenceStands
    BY <1>8, RefreshedStands DEF GateDecide
  <2> QED
    BY <2>1, <2>2
<1> QED
  BY <1>1, <1>2, <1>3, <1>4, <1>5, <1>6, <1>7, <1>8 DEF Claiming, Judging

LEMMA WriteStands ==
  ASSUME TypeOK, NEW c, Write(c) PROVE agent'.pc = agent.pc /\ agent'.claim = agent.claim
  BY DEF Write, TypeOK, Call

LEMMA OthersStand ==
  ASSUME TypeOK, (\E u \in Undoers : Undoing(u)) \/ (\E c \in Sources : OutsideWrite(c))
  PROVE  /\ EvidenceStands
         /\ agent'.pc = agent.pc /\ agent'.claim = agent.claim
         /\ UndoLands \/ verified' = verified
<1>1. ASSUME NEW c \in Sources, OutsideWrite(c)
      PROVE  EvidenceStands /\ verified' = verified /\ agent'.pc = agent.pc /\ agent'.claim = agent.claim
  BY <1>1, WriteStands DEF OutsideWrite, EvidenceStands, claims
<1>2. ASSUME NEW u \in Undoers, UndoPick(u) \/ UndoCheck(u) \/ UndoPop(u)
      PROVE  EvidenceStands /\ verified' = verified /\ agent' = agent
  BY <1>2 DEF UndoPick, UndoCheck, UndoPop, EvidenceStands, claims
<1>3. ASSUME NEW u \in Undoers, UndoReplace(u)
      PROVE  EvidenceStands /\ verified' = verified /\ agent'.pc = agent.pc /\ agent'.claim = agent.claim
  BY <1>3, WriteStands DEF UndoReplace, EvidenceStands, claims
<1>4. ASSUME NEW u \in Undoers, UndoInvalidate(u)
      PROVE  EvidenceStands /\ UndoLands /\ agent' = agent
  <2>1. EvidenceStands
    BY <1>4, InvalidatedStands DEF UndoInvalidate, EvidenceStands
  <2>2. undo[u].pc = "popped" /\ undo'[u].pc = "idle"
    BY <1>4 DEF UndoInvalidate, UndoAt, TypeOK, Resting
  <2> QED
    BY <1>4, <2>1, <2>2 DEF UndoInvalidate, UndoLands
<1> QED
  BY <1>1, <1>2, <1>3, <1>4 DEF Undoing

(* A completed step loses its evidence only to an undo that lands while    *)
(* update_plan has checked a plan and not yet replaced it: an undo that    *)
(* invalidates the evidence of a plan under way, then the plan's           *)
(* replacement (run evidence_stale shows that this happens).               *)
LostToUndo ==
  /\ Covered /\ ~Covered' => UndoLands /\ agent.pc = "assigning"
  /\ DoneHasEvidence /\ ~DoneHasEvidence' => ~Covered /\ agent.pc = "assigning" /\ agent'.pc = "idle"

LEMMA LostStep == ASSUME TypeOK, [Next]_vars PROVE LostToUndo
<1>1. CASE UNCHANGED vars
  BY <1>1 DEF vars, LostToUndo, Covered, DoneHasEvidence, claims
<1>2. CASE Editing \/ Testing \/ Claiming \/ Judging
  <2>1. Covered'
    BY <1>2, AgentStands DEF Covered
  <2>2. CASE EvidenceStands
    BY <2>1, <2>2 DEF LostToUndo, DoneHasEvidence, EvidenceStands
  <2>3. CASE PlanAssign /\ step' = agent.claim /\ verified' = verified
    <3>1. agent.pc = "assigning" /\ agent'.pc = "idle"
      BY <2>3, IdleCall DEF PlanAssign
    <3> QED
      BY <2>1, <2>3, <3>1 DEF LostToUndo, DoneHasEvidence, Covered
  <2> QED
    BY <1>2, <2>2, <2>3, AgentStands
<1>3. CASE (\E u \in Undoers : Undoing(u)) \/ (\E c \in Sources : OutsideWrite(c))
  BY <1>3, OthersStand DEF LostToUndo, Covered, DoneHasEvidence, EvidenceStands
<1> QED
  BY <1>1, <1>2, <1>3 DEF Next

(* A step that is done on verified evidence stays so, whatever the agent,  *)
(* outside editors and undo threads do, but for an undo that lands between *)
(* the check and the replacement of update_plan (coding_runtime.py).       *)
THEOREM EvidenceIsLostToUndo == Spec => [][LostToUndo]_vars
<1>1. TypeOK /\ [Next]_vars => [LostToUndo]_vars
  BY LostStep
<1> QED
  BY <1>1, TypeCorrect, PTL DEF Spec

(* Without undo threads a completed step has evidence that nothing made    *)
(* stale, whatever outside editors write.                                  *)
THEOREM CompletedStepsAreCovered ==
  ASSUME Undoers = {}
  PROVE  Spec => []DoneHasEvidence
<1>1. Init => Covered /\ DoneHasEvidence
  BY DEF Init, Covered, DoneHasEvidence, Idle
<1>2. TypeOK /\ Covered /\ DoneHasEvidence /\ [Next]_vars => Covered' /\ DoneHasEvidence'
  BY LostStep DEF LostToUndo, UndoLands
<1> QED
  BY <1>1, <1>2, TypeCorrect, PTL DEF Spec

-----------------------------------------------------------------------------
(* The development server.  Its inductive invariant: every command but the *)
(* last has ended well; who is inside start or stop holds the lock, and a  *)
(* start that is about to create a server found none; and a command that   *)
(* runs has somebody who attends to it.                                    *)
Inside == {"port", "registering", "readiness", "reuse", "stop_start", "stop_reuse", "stop_last"}
Over(n) == \A k \in 1 .. n : commands[k] \in EndedWell
CommandsOK ==
  /\ \A n \in 1 .. MaxServers : commands[n] = "none" <=> n > server
  /\ \A n \in 1 .. MaxServers : n < server => commands[n] \in EndedWell
  /\ reported <= server /\ Over(reported)
CallsOK ==
  \A c \in Clients :
    /\ calls[c] \in Inside => startLock = c
    /\ calls[c] = "port" => Over(server)
Attended ==
  Running => \/ monitor # "none" \/ stopLock # "nobody"
             \/ \E c \in Clients : calls[c] \in {"registering", "stop_start"}
ServersIInv == ServersTypeOK /\ CommandsOK /\ CallsOK /\ Attended

(* What a command needs of a server that is there.                         *)
LEMMA ServerIs ==
  ASSUME ServersTypeOK, CommandsOK, server > 0
  PROVE  /\ server \in 1 .. MaxServers
         /\ commands[server] \in CommandStates \ {"none"}
         /\ MaxServers \in Nat
  BY ServerConstants DEF ServersTypeOK, CommandsOK

LEMMA SettledIs ==
  ASSUME ServersTypeOK, CommandsOK, NEW mode \in Supervised
  PROVE  Settled(mode) \in Supervised
<1>1. CASE ~Done
  BY <1>1 DEF Settled, Done, Stuck, EndedWell
<1>2. CASE Done
  <2>1. server > 0 /\ commands[server] \in EndedWell \cup {"stuck"}
    BY <1>2 DEF Done
  <2>. QED
    BY <1>2, <2>1 DEF Settled, Stuck, EndedWell, Supervised, Kept
<1>. QED
  BY <1>1, <1>2

(* A server that neither runs nor is stuck has ended well.                 *)
LEMMA QuietIsOver ==
  ASSUME ServersTypeOK, CommandsOK, ~Running, ~Stuck
  PROVE  Over(server)
<1>. SUFFICES ASSUME NEW n \in 1 .. server PROVE commands[n] \in EndedWell
  BY DEF Over
<1>1. n \in 1 .. MaxServers /\ server > 0 /\ server \in Nat
  BY ServerConstants DEF ServersTypeOK
<1>2. CASE n < server
  BY <1>1, <1>2 DEF CommandsOK
<1>3. CASE n = server
  BY <1>1, <1>3 DEF Running, Done, Stuck
<1>. QED
  BY <1>1, <1>2, <1>3

LEMMA StuckIsUncertain ==
  ASSUME Stuck, NEW mode
  PROVE  Settled(mode) = "uncertain" /\ ~Running
<1>1. Done
  BY DEF Stuck, Done
<1>. QED
  BY <1>1 DEF Settled, Running

-----------------------------------------------------------------------------
(* A step that starts, stops and tells nobody anything.                    *)
LEMMA OthersKeep ==
  ASSUME ServersIInv, UNCHANGED <<server, commands, reported>>
  PROVE  CommandsOK' /\ (Running' <=> Running) /\ (Stuck' <=> Stuck)
         /\ \A n : Over(n)' <=> Over(n)
  BY DEF ServersIInv, CommandsOK, Over, Running, Done, Stuck

(* A call goes to another place, and keeps the lock, takes it, or gives it *)
(* back.                                                                   *)
LEMMA CallGoes ==
  ASSUME ServersIInv, NEW c \in Clients, NEW place \in Waits \cup Stopping,
         calls' = [calls EXCEPT ![c] = place], UNCHANGED <<server, commands>>,
         \/ startLock' = startLock
         \/ startLock = "nobody" /\ startLock' = c
         \/ startLock' = "nobody" /\ startLock = c,
         place \in Inside => startLock' = c,
         place = "port" => Over(server)
  PROVE  /\ calls' \in [Clients -> Waits \cup Stopping]
         /\ startLock' \in Clients \cup {"nobody"}
         /\ CallsOK'
<1>1. calls' \in [Clients -> Waits \cup Stopping] /\ startLock' \in Clients \cup {"nobody"}
  BY DEF ServersIInv, ServersTypeOK, Goes
<1>2. ASSUME NEW d \in Clients
      PROVE  (calls[d] \in Inside => startLock = d)' /\ (calls[d] = "port" => Over(server))'
  <2>1. Over(server)' <=> Over(server)
    BY DEF Over
  <2>2. CASE d = c
    BY <2>1, <2>2 DEF ServersIInv, ServersTypeOK, Goes
  <2>3. CASE d # c
    <3>1. calls'[d] = calls[d]
      BY <2>3 DEF ServersIInv, ServersTypeOK, Goes
    <3>2. calls[d] \in Inside => startLock' = d
      BY <2>3, ServerConstants DEF ServersIInv, CallsOK
    <3>. QED
      BY <2>1, <3>1, <3>2 DEF ServersIInv, CallsOK
  <2>. QED
    BY <2>2, <2>3
<1>. QED
  BY <1>1, <1>2 DEF CallsOK

-----------------------------------------------------------------------------
LEMMA ServersStart == ServersInit => ServersIInv
<1>. SUFFICES ASSUME ServersInit PROVE ServersIInv
  OBVIOUS
<1>1. ServersTypeOK
  <2>1. supervised \in Supervised /\ calls \in [Clients -> Waits \cup Stopping]
    BY DEF ServersInit, Supervised, Waits
  <2>2. commands \in [1 .. MaxServers -> CommandStates]
    BY DEF ServersInit, CommandStates
  <2>3. server \in 0 .. MaxServers /\ reported \in 0 .. MaxServers
    BY ServerConstants DEF ServersInit
  <2>4. granted \in BOOLEAN /\ runCancelled \in BOOLEAN
    BY DEF ServersInit
  <2>. QED
    BY <2>1, <2>2, <2>3, <2>4 DEF ServersInit, ServersTypeOK
<1>2. CommandsOK /\ CallsOK
  <2>1. /\ server = 0 /\ reported = 0 /\ MaxServers \in Nat
        /\ \A n \in 1 .. MaxServers : commands[n] = "none"
        /\ \A c \in Clients : calls[c] = "idle"
    BY ServerConstants DEF ServersInit
  <2>2. Over(reported)
    BY <2>1 DEF Over
  <2>3. \A n \in 1 .. MaxServers : n > server /\ ~(n < server)
    BY <2>1
  <2>. QED
    BY <2>1, <2>2, <2>3 DEF CommandsOK, CallsOK, Inside
<1>3. Attended
  BY DEF ServersInit, Attended, Running
<1>. QED
  BY <1>1, <1>2, <1>3 DEF ServersIInv

(* Steps of a call that leave the servers alone.                           *)
LEMMA CallKeeps ==
  ASSUME ServersIInv, NEW c \in Clients, NEW place \in Waits \cup Stopping,
         calls' = [calls EXCEPT ![c] = place], UNCHANGED others, supervised' \in Supervised,
         \/ startLock' = startLock
         \/ startLock = "nobody" /\ startLock' = c
         \/ startLock' = "nobody" /\ startLock = c,
         place \in Inside => startLock' = c,
         place = "port" => Over(server),
         monitor' = monitor \/ (monitor' = "none" /\ ~Running),
         calls[c] \notin {"registering", "stop_start"} \/ place = "stop_start" \/ ~Running
  PROVE  ServersIInv'
<1>1. calls' \in [Clients -> Waits \cup Stopping] /\ startLock' \in Clients \cup {"nobody"} /\ CallsOK'
  BY CallGoes DEF others
<1>2. ServersTypeOK'
  BY <1>1 DEF ServersIInv, ServersTypeOK, others, environment
<1>3. CommandsOK' /\ (Running' <=> Running)
  BY OthersKeep DEF others
<1>4. Attended'
  <2>1. SUFFICES ASSUME Running, monitor' = "none", stopLock' = "nobody"
                 PROVE  \E d \in Clients : calls'[d] \in {"registering", "stop_start"}
    BY <1>3 DEF Attended
  <2>2. PICK d \in Clients : calls[d] \in {"registering", "stop_start"}
    BY <2>1 DEF ServersIInv, Attended, others
  <2>3. CASE d = c
    BY <2>1, <2>2, <2>3 DEF Goes, ServersIInv, ServersTypeOK
  <2>4. CASE d # c
    BY <2>2, <2>4 DEF Goes, ServersIInv, ServersTypeOK
  <2>. QED
    BY <2>3, <2>4
<1>. QED
  BY <1>1, <1>2, <1>3, <1>4 DEF ServersIInv

-----------------------------------------------------------------------------
LEMMA StartCalls ==
  ASSUME ServersIInv, NEW c \in Clients,
         StartServer(c) \/ LockStart(c) \/ RefusePort(c) \/ BecomeReady(c) \/ GiveUpStart(c)
  PROVE  ServersIInv'
<1>. USE DEF Waits, Stopping, Inside, others, Goes
<1>0. calls[c] \in Inside => startLock = c
  BY DEF ServersIInv, CallsOK
<1>s. supervised \in Supervised /\ Settled(supervised) \in Supervised
  BY SettledIs DEF ServersIInv, ServersTypeOK
<1>1. CASE StartServer(c)
  BY <1>1, <1>s, CallKeeps DEF StartServer
<1>2. CASE LockStart(c)
  <2>0. supervised' = Settled(supervised) /\ calls[c] = "start_lock" /\ UNCHANGED others
    BY <1>2 DEF LockStart
  <2>1. CASE Goes(c, "idle") /\ UNCHANGED <<startLock, monitor>>
    BY <1>s, <2>0, <2>1, CallKeeps
  <2>2. CASE Goes(c, "reuse") /\ startLock = "nobody" /\ startLock' = c /\ UNCHANGED monitor
    BY <1>s, <2>0, <2>2, CallKeeps
  <2>3. CASE supervised' # "uncertain" /\ ~Running /\ Goes(c, "port") /\ startLock = "nobody"
             /\ startLock' = c /\ monitor' = "none"
    <3>1. ~Stuck
      BY <2>0, <2>3, StuckIsUncertain
    <3>2. Over(server)
      BY <2>3, <3>1, QuietIsOver DEF ServersIInv
    <3>. QED
      BY <1>s, <2>0, <2>3, <3>2, CallKeeps
  <2>. QED
    BY <1>2, <2>1, <2>2, <2>3 DEF LockStart
<1>3. CASE RefusePort(c)
  BY <1>0, <1>3, <1>s, CallKeeps DEF RefusePort, Return, Unlock
<1>4. CASE BecomeReady(c)
  BY <1>0, <1>4, <1>s, CallKeeps DEF BecomeReady, Return, Unlock, Supervised
<1>5. CASE GiveUpStart(c)
  BY <1>0, <1>5, <1>s, CallKeeps DEF GiveUpStart
<1>. QED
  BY <1>1, <1>2, <1>3, <1>4, <1>5

LEMMA OtherCalls ==
  ASSUME ServersIInv, NEW c \in Clients,
         AskStatus(c) \/ ProbeAnswers(c) \/ ProbeDenied(c) \/ Stop(c) \/ LockStop(c) \/ Abandon(c)
  PROVE  ServersIInv'
<1>. USE DEF Waits, Stopping, Inside, others, Goes
<1>0. calls[c] \in Inside => startLock = c
  BY DEF ServersIInv, CallsOK
<1>s. supervised \in Supervised /\ Settled(supervised) \in Supervised
  BY SettledIs DEF ServersIInv, ServersTypeOK
<1>1. CASE AskStatus(c)
  BY <1>1, <1>s, CallKeeps DEF AskStatus
<1>2. CASE ProbeAnswers(c)
  BY <1>0, <1>2, <1>s, CallKeeps DEF ProbeAnswers, Return, Unlock
<1>3. CASE ProbeDenied(c)
  BY <1>0, <1>3, <1>s, CallKeeps DEF ProbeDenied, Supervised, Kept
<1>4. CASE Stop(c)
  BY <1>4, <1>s, CallKeeps DEF Stop, Supervised
<1>5. CASE LockStop(c)
  BY <1>5, <1>s, CallKeeps DEF LockStop
<1>6. CASE Abandon(c)
  BY <1>0, <1>6, <1>s, CallKeeps DEF Abandon, Return, Unlock
<1>. QED
  BY <1>1, <1>2, <1>3, <1>4, <1>5, <1>6

(* A server is created while the others have ended well.                   *)
LEMMA Creates ==
  ASSUME ServersIInv, NEW c \in Clients, CreateServer(c)
  PROVE  ServersIInv'
<1>0. /\ calls[c] = "port" /\ startLock = c /\ Over(server)
      /\ server \in 0 .. MaxServers /\ server + 1 \in 1 .. MaxServers
      /\ server' = server + 1 /\ commands' = [commands EXCEPT ![server + 1] = "created"]
      /\ calls' = [calls EXCEPT ![c] = "registering"]
      /\ supervised' = "starting"
      /\ UNCHANGED <<monitor, startLock, stopLock, reported, granted, runCancelled>>
  BY ServerConstants DEF CreateServer, Goes, environment, ServersIInv, ServersTypeOK, CallsOK, Inside
<1>1. ServersTypeOK'
  <2>1. commands' \in [1 .. MaxServers -> CommandStates]
    BY <1>0 DEF ServersIInv, ServersTypeOK, CommandStates
  <2>2. calls' \in [Clients -> Waits \cup Stopping] /\ supervised' \in Supervised
    BY <1>0 DEF ServersIInv, ServersTypeOK, Waits, Supervised
  <2>3. server' \in 0 .. MaxServers
    BY <1>0, ServerConstants
  <2>. QED
    BY <1>0, <2>1, <2>2, <2>3 DEF ServersIInv, ServersTypeOK
<1>2. CommandsOK'
  <2>1. ASSUME NEW n \in 1 .. MaxServers
        PROVE  (commands'[n] = "none" <=> n > server') /\ (n < server' => commands'[n] \in EndedWell)
    <3>1. CASE n = server + 1
      BY <1>0, <3>1 DEF ServersIInv, ServersTypeOK
    <3>2. CASE n # server + 1
      <4>1. commands'[n] = commands[n]
        BY <1>0, <3>2 DEF ServersIInv, ServersTypeOK
      <4>2. n > server <=> n > server + 1
        BY <1>0, <3>2
      <4>3. n < server + 1 => n \in 1 .. server
        BY <1>0
      <4>. QED
        BY <1>0, <4>1, <4>2, <4>3 DEF ServersIInv, CommandsOK, Over
    <3>. QED
      BY <3>1, <3>2
  <2>2. reported' <= server'
    BY <1>0 DEF ServersIInv, ServersTypeOK, CommandsOK
  <2>3. ASSUME NEW k \in 1 .. reported PROVE commands'[k] \in EndedWell
    <3>1. k \in 1 .. server /\ k # server + 1 /\ k \in 1 .. MaxServers
      BY <1>0, ServerConstants DEF ServersIInv, ServersTypeOK, CommandsOK
    <3>. QED
      BY <1>0, <3>1 DEF ServersIInv, ServersTypeOK, Over
  <2>. QED
    BY <1>0, <2>1, <2>2, <2>3 DEF CommandsOK, Over
<1>3. CallsOK'
  <2>1. ASSUME NEW d \in Clients
        PROVE  (calls'[d] \in Inside => startLock' = d) /\ calls'[d] # "port"
    BY <1>0 DEF ServersIInv, ServersTypeOK, CallsOK, Inside
  <2>. QED
    BY <2>1 DEF CallsOK
<1>4. Attended'
  BY <1>0 DEF Attended, ServersIInv, ServersTypeOK
<1>. QED
  BY <1>1, <1>2, <1>3, <1>4 DEF ServersIInv

LEMMA Monitors ==
  ASSUME ServersIInv, NEW c \in Clients, StartMonitor(c)
  PROVE  ServersIInv'
<1>1. /\ calls' = [calls EXCEPT ![c] = "readiness"] /\ monitor' = "watching" /\ startLock = c
      /\ UNCHANGED <<server, commands, stopLock, granted, runCancelled, reported, supervised, startLock>>
  BY DEF StartMonitor, Goes, others, environment, ServersIInv, CallsOK, Inside
<1>2. calls' \in [Clients -> Waits \cup Stopping] /\ startLock' \in Clients \cup {"nobody"} /\ CallsOK'
  BY <1>1, CallGoes DEF Goes, Waits, Inside
<1>3. ServersTypeOK'
  BY <1>1, <1>2 DEF ServersIInv, ServersTypeOK
<1>4. CommandsOK' /\ Attended'
  BY <1>1, OthersKeep DEF Attended
<1>. QED
  BY <1>2, <1>3, <1>4 DEF ServersIInv

-----------------------------------------------------------------------------
(* A command goes on, or is stopped, and what has ended well stays ended.  *)
LEMMA CommandGoes ==
  ASSUME ServersIInv, NEW n \in 1 .. MaxServers, NEW to \in CommandStates \ {"none"},
         commands[n] \notin EndedWell \cup {"none"},
         commands[n] = "stuck" => to \in EndedWell \cup {"stuck"},
         commands' = [commands EXCEPT ![n] = to],
         UNCHANGED <<supervised, server, monitor, calls, startLock, granted, runCancelled, reported>>,
         stopLock' \in Clients \cup {"nobody", "monitor"},
         stopLock' = "nobody" => stopLock = "nobody"
  PROVE  ServersIInv'
<1>1. server \in 1 .. MaxServers /\ n = server /\ reported \in 0 .. MaxServers
  BY ServerConstants DEF ServersIInv, ServersTypeOK, CommandsOK
<1>2. \A k \in 1 .. MaxServers : commands'[k] = IF k = n THEN to ELSE commands[k]
  BY DEF ServersIInv, ServersTypeOK
<1>3. ServersTypeOK'
  BY DEF ServersIInv, ServersTypeOK
<1>4. CommandsOK'
  <2>1. ASSUME NEW k \in 1 .. MaxServers
        PROVE  (commands'[k] = "none" <=> k > server) /\ (k < server => commands'[k] \in EndedWell)
    BY <1>1, <1>2 DEF ServersIInv, CommandsOK
  <2>2. ASSUME NEW k \in 1 .. reported PROVE commands'[k] \in EndedWell
    <3>1. k \in 1 .. MaxServers /\ commands[k] \in EndedWell
      BY <1>1, ServerConstants DEF ServersIInv, CommandsOK, Over
    <3>. QED
      BY <1>2, <3>1
  <2>. QED
    BY <2>1, <2>2 DEF ServersIInv, CommandsOK, Over
<1>5. CallsOK'
  <2>1. ~Over(server)
    BY <1>1 DEF Over
  <2>. QED
    BY <2>1 DEF ServersIInv, CallsOK
<1>6. Attended'
  <2>1. Running' => Running
    BY <1>1, <1>2 DEF Running, Done
  <2>. QED
    BY <2>1 DEF ServersIInv, Attended
<1>. QED
  BY <1>3, <1>4, <1>5, <1>6 DEF ServersIInv

LEMMA RunningIs ==
  ASSUME ServersIInv, Running
  PROVE  server \in 1 .. MaxServers /\ commands[server] \notin EndedWell \cup {"none", "stuck"}
<1>1. server > 0 /\ ~Done
  BY DEF Running
<1>. QED
  BY <1>1, ServerIs DEF ServersIInv, Done

LEMMA Cancels ==
  ASSUME ServersIInv, NEW actor \in Clients \cup {"monitor"}, CancelCommand(actor),
         UNCHANGED <<supervised, server, monitor, calls, startLock, reported, environment>>
  PROVE  ServersIInv'
<1>1. server \in 1 .. MaxServers /\ commands[server] \notin EndedWell \cup {"none", "stuck"}
  BY RunningIs DEF CancelCommand
<1>2. PICK to \in {"cancelled", "stopping"} : commands' = [commands EXCEPT ![server] = to]
  BY DEF CancelCommand
<1>3. stopLock' \in Clients \cup {"nobody", "monitor"} /\ stopLock' # "nobody"
  BY ServerConstants DEF CancelCommand
<1>4. to \in CommandStates \ {"none"}
  BY DEF CommandStates, EndedWell
<1>. QED
  BY <1>1, <1>2, <1>3, <1>4, CommandGoes DEF environment

LEMMA Executes ==
  ASSUME ServersIInv, NEW n \in 1 .. MaxServers, ExecuteCommand(n)
  PROVE  ServersIInv'
<1>1. PICK to \in RunsTo(commands[n]) : commands' = [commands EXCEPT ![n] = to]
  BY DEF ExecuteCommand
<1>2. to \in CommandStates \ {"none"} /\ commands[n] \notin EndedWell \cup {"none"}
      /\ (commands[n] = "stuck" => to \in EndedWell)
  BY DEF RunsTo, CommandStates, EndedWell
<1>3. UNCHANGED <<supervised, server, monitor, calls, startLock, granted, runCancelled, reported>>
      /\ stopLock' = stopLock /\ stopLock \in Clients \cup {"nobody", "monitor"}
  BY DEF ExecuteCommand, environment, ServersIInv, ServersTypeOK
<1>. QED
  BY <1>1, <1>2, <1>3, CommandGoes

-----------------------------------------------------------------------------
(* A command is over: who waited for it goes on, and may be told.          *)
LEMMA QuietKeeps ==
  ASSUME ServersIInv, ~Running, UNCHANGED <<server, commands>>,
         ServersTypeOK', CallsOK', reported' = reported \/ (reported' = server /\ ~Stuck)
  PROVE  ServersIInv'
<1>1. ~Running'
  BY DEF Running, Done
<1>2. CommandsOK'
  <2>1. Over(reported) /\ reported <= server /\ server \in Nat
    BY ServerConstants DEF ServersIInv, CommandsOK, ServersTypeOK
  <2>2. ~Stuck => Over(server)
    BY QuietIsOver DEF ServersIInv
  <2>3. reported' <= server' /\ Over(reported)'
    <3>1. CASE reported' = reported
      BY <2>1, <3>1 DEF Over
    <3>2. CASE reported' = server /\ ~Stuck
      BY <2>1, <2>2, <3>2 DEF Over
    <3>. QED
      BY <3>1, <3>2
  <2>. QED
    BY <2>3 DEF ServersIInv, CommandsOK
<1>. QED
  BY <1>1, <1>2 DEF ServersIInv, Attended

LEMMA Stops ==
  ASSUME ServersIInv, NEW c \in Clients, CommandStopped(c) \/ StopUnconfirmed(c)
  PROVE  ServersIInv'
<1>0. /\ calls[c] \in Stopping /\ ~Running
      /\ UNCHANGED <<server, commands, granted, runCancelled>> /\ stopLock' = "nobody"
  BY DEF CommandStopped, StopUnconfirmed, CommandOver, environment
<1>1. calls[c] \in Inside => startLock = c
  BY DEF ServersIInv, CallsOK
<1>2. Settled(supervised) \in Supervised /\ Final(Settled(supervised)) \in Supervised
  BY SettledIs DEF ServersIInv, ServersTypeOK, Final, Supervised
<1>3. PICK place \in {"stop_lock", "idle"} :
        /\ Goes(c, place)
        /\ \/ startLock' = startLock
           \/ startLock' = "nobody" /\ startLock = c
  BY DEF CommandStopped, StopUnconfirmed, Return, Unlock
<1>4. /\ calls' \in [Clients -> Waits \cup Stopping] /\ startLock' \in Clients \cup {"nobody"}
      /\ CallsOK'
  BY <1>0, <1>3, CallGoes DEF Goes, Waits, Inside
<1>5. supervised' \in Supervised /\ monitor' \in {"none", "watching", "stopping"}
  BY <1>2 DEF CommandStopped, StopUnconfirmed, ServersIInv, ServersTypeOK, Supervised, Kept
<1>6. reported' = reported \/ (reported' = server /\ ~Stuck)
  BY DEF CommandStopped, StopUnconfirmed
<1>7. ServersTypeOK'
  BY <1>0, <1>4, <1>5, <1>6 DEF ServersIInv, ServersTypeOK
<1>. QED
  BY <1>0, <1>4, <1>6, <1>7, QuietKeeps

LEMMA Watches ==
  ASSUME ServersIInv, Watch \/ MonitorStops \/ MonitorEnds
  PROVE  ServersIInv'
<1>0. Settled(supervised) \in Supervised
  BY SettledIs DEF ServersIInv, ServersTypeOK
<1>1. CASE Watch
  <2>1. /\ UNCHANGED <<server, commands, stopLock, granted, runCancelled, reported, calls, startLock>>
        /\ supervised' \in Supervised
        /\ monitor' = "stopping" \/ (monitor' = "none" /\ ~Running)
    BY <1>0, <1>1 DEF Watch, others, environment, Supervised, Kept
  <2>2. CommandsOK' /\ (Running' <=> Running) /\ \A n : Over(n)' <=> Over(n)
    BY <2>1, OthersKeep
  <2>3. ServersTypeOK'
    BY <2>1 DEF ServersIInv, ServersTypeOK
  <2>4. CallsOK'
    BY <2>1, <2>2 DEF ServersIInv, CallsOK, Over
  <2>5. Attended'
    BY <2>1, <2>2 DEF Attended
  <2>. QED
    BY <2>2, <2>3, <2>4, <2>5 DEF ServersIInv
<1>2. CASE MonitorStops
  BY <1>2, Cancels DEF MonitorStops, environment
<1>3. CASE MonitorEnds
  <2>1. /\ UNCHANGED <<server, commands, granted, runCancelled, reported, calls, startLock>>
        /\ supervised' \in Supervised /\ monitor' = "none" /\ stopLock' = "nobody" /\ ~Running
    BY <1>0, <1>3 DEF MonitorEnds, CommandOver, environment
  <2>2. ServersTypeOK'
    BY <2>1 DEF ServersIInv, ServersTypeOK
  <2>3. CallsOK'
    BY <2>1 DEF ServersIInv, CallsOK, Over
  <2>. QED
    BY <2>1, <2>2, <2>3, QuietKeeps
<1>. QED
  BY <1>1, <1>2, <1>3

LEMMA EnvironmentKeeps ==
  ASSUME ServersIInv, ChangeGrant \/ CancelServers \/ UNCHANGED serverVars
  PROVE  ServersIInv'
<1>1. /\ UNCHANGED <<supervised, server, commands, monitor, calls, startLock, stopLock, reported>>
      /\ granted' \in BOOLEAN /\ runCancelled' \in BOOLEAN
  BY DEF ChangeGrant, CancelServers, serverVars, ServersIInv, ServersTypeOK
<1>2. ServersTypeOK'
  BY <1>1 DEF ServersIInv, ServersTypeOK
<1>3. CommandsOK' /\ (Running' <=> Running)
  BY <1>1, OthersKeep
<1>4. CallsOK' /\ Attended'
  BY <1>1, <1>3 DEF ServersIInv, CallsOK, Over, Attended
<1>. QED
  BY <1>2, <1>3, <1>4 DEF ServersIInv

-----------------------------------------------------------------------------
LEMMA ServersInvariant == ServersSpec => []ServersIInv
<1>1. ASSUME ServersIInv, [ServersNext]_serverVars PROVE ServersIInv'
  <2>1. CASE UNCHANGED serverVars
    BY <1>1, <2>1, EnvironmentKeeps
  <2>2. ASSUME NEW c \in Clients,
               \/ StartServer(c) \/ LockStart(c) \/ RefusePort(c) \/ BecomeReady(c) \/ GiveUpStart(c)
        PROVE  ServersIInv'
    BY <1>1, <2>2, StartCalls
  <2>3. ASSUME NEW c \in Clients, CreateServer(c) \/ StartMonitor(c)
        PROVE  ServersIInv'
    BY <1>1, <2>3, Creates, Monitors
  <2>4. ASSUME NEW c \in Clients,
               \/ AskStatus(c) \/ ProbeAnswers(c) \/ ProbeDenied(c) \/ Stop(c) \/ LockStop(c)
               \/ Abandon(c)
        PROVE  ServersIInv'
    BY <1>1, <2>4, OtherCalls
  <2>5. ASSUME NEW c \in Clients, StopCommand(c) PROVE ServersIInv'
    BY <1>1, <2>5, Cancels DEF StopCommand, environment
  <2>6. ASSUME NEW c \in Clients, CommandStopped(c) \/ StopUnconfirmed(c) PROVE ServersIInv'
    BY <1>1, <2>6, Stops
  <2>7. CASE Watch \/ MonitorStops \/ MonitorEnds
    BY <1>1, <2>7, Watches
  <2>8. ASSUME NEW n \in 1 .. MaxServers, ExecuteCommand(n) PROVE ServersIInv'
    BY <1>1, <2>8, Executes
  <2>9. CASE ChangeGrant \/ CancelServers
    BY <1>1, <2>9, EnvironmentKeeps
  <2>. QED
    BY <1>1, <2>1, <2>2, <2>3, <2>4, <2>5, <2>6, <2>7, <2>8, <2>9 DEF ServersNext
<1>. QED
  BY <1>1, ServersStart, PTL DEF ServersSpec

(* The supervisor's variables keep their types.                            *)
THEOREM ServersTypeCorrect == ServersSpec => []ServersTypeOK
<1>1. ServersIInv => ServersTypeOK
  BY DEF ServersIInv
<1>. QED
  BY <1>1, ServersInvariant, PTL

(* However calls, cancellations, revocations and the end of the command    *)
(* are interleaved, there is at most one server process, and somebody ends *)
(* it or its uncertain end is reported.                                    *)
THEOREM ServersAttended == ServersSpec => []ProcessAttended
<1>1. ASSUME ServersIInv PROVE ProcessAttended
  <2>. SUFFICES ASSUME NEW n \in 1 .. MaxServers, ProcessRuns(n)
       PROVE  /\ n = server
              /\ \/ monitor # "none" \/ stopLock # "nobody" \/ Settled(supervised) = "uncertain"
                 \/ \E c \in Clients : calls[c] \in {"registering", "stop_start"}
    BY DEF ProcessAttended
  <2>1. n = server /\ server > 0
    BY <1>1, ServerConstants
    DEF ServersIInv, ServersTypeOK, CommandsOK, ProcessRuns, EndedWell
  <2>2. CASE commands[n] = "stuck"
    <3>1. Stuck
      BY <2>1, <2>2 DEF Stuck
    <3>. QED
      BY <2>1, <3>1, StuckIsUncertain
  <2>3. CASE commands[n] # "stuck"
    <3>1. Running
      BY <2>1, <2>3 DEF Running, Done, ProcessRuns, EndedWell
    <3>. QED
      BY <1>1, <2>1, <3>1 DEF ServersIInv, Attended
  <2>. QED
    BY <2>2, <2>3
<1>. QED
  BY <1>1, ServersInvariant, PTL

(* Nobody is told that a server is stopped whose process still runs, or    *)
(* will run.                                                               *)
THEOREM StoppedServersAreDown == ServersSpec => []StoppedIsDown
<1>1. ASSUME ServersIInv PROVE StoppedIsDown
  BY <1>1 DEF ServersIInv, CommandsOK, Over, StoppedIsDown, ProcessRuns, EndedWell
<1>. QED
  BY <1>1, ServersInvariant, PTL

-----------------------------------------------------------------------------
(* The pool of MCP servers.  The inductive invariant: who has the lock of a *)
(* connection is inside connect or disconnect, and only it replaces or ends *)
(* the client; a process that runs is the client of its connection, or of   *)
(* the task that has its lock and waits for its answers, and then the       *)
(* connection has no other to attend to.                                    *)
Live(k) == processes[k].state \in Alive /\ k \notin abandoned
Ending(t) == callers[t].at \in {"drop", "stop"}
Starts(t, k) == callers[t].at = "handshake" /\ callers[t].client = k /\ callers[t].of = processes[k].of

LinkInv(c) ==
  /\ links[c].status = "absent" => links[c].client = 0 /\ links[c].lock = "nobody"
  /\ links[c].client # 0 => processes[links[c].client].of = c
  /\ links[c].lock \in Tasks => callers[links[c].lock].of = c /\ callers[links[c].lock].at \in Locking
  /\ IsConnected(c) => links[c].status = "connected"

TaskInv(t) ==
  /\ callers[t].at # "idle" => callers[t].of # 0 /\ links[callers[t].of].status # "absent"
  /\ callers[t].at = "handshake" \/ Ending(t) => links[callers[t].of].lock = t
  /\ callers[t].at = "handshake" =>
       /\ callers[t].client # 0 /\ processes[callers[t].client].of = callers[t].of
       /\ links[callers[t].of].client # callers[t].client
       /\ links[callers[t].of].client # 0 => ~Live(links[callers[t].of].client)
  /\ Ending(t) =>
       /\ links[callers[t].of].client # 0
       /\ processes[links[callers[t].of].client].state \in {"closing", "lost", "down"}
  /\ callers[t].at = "drop" => callers[t].client = links[callers[t].of].client

ProcessInv(k) ==
  /\ processes[k].state = "none" <=> processes[k].of = 0
  /\ processes[k].state = "lost" => k \in abandoned
  /\ Live(k) => links[processes[k].of].client = k \/ \E t \in Tasks : Starts(t, k)
  /\ Live(k) /\ processes[k].state = "closing" =>
       /\ links[processes[k].of].client = k
       /\ \E t \in Tasks : links[processes[k].of].lock = t /\ Ending(t)

McpInv ==
  /\ McpTypeOK
  /\ \A c \in Links : LinkInv(c)
  /\ \A t \in Tasks : TaskInv(t)
  /\ \A k \in Servers : ProcessInv(k)
  /\ pool # 0 => links[pool].status # "absent"
  /\ registry # 0 => links[registry].status # "absent"

(* The records of connections and calls, and what steps make of them.      *)
LEMMA NoCallIs ==
  /\ NoCall \in CallStates
  /\ NoCall.at = "idle" /\ NoCall.of = 0 /\ NoCall.client = 0 /\ NoCall.op = "none"
  BY McpConstants DEF NoCall, CallStates, Locking, Ops

LEMMA CallIs ==
  ASSUME NEW call \in CallStates
  PROVE  /\ call.op \in Ops \cup {"none"} /\ call.of \in 0 .. MaxConnections
         /\ call.at \in Locking \cup {"idle", "call"} /\ call.client \in 0 .. MaxProcesses
         /\ call.again \in BOOLEAN /\ call.first \in BOOLEAN
  BY DEF CallStates

LEMMA LinkIs ==
  ASSUME NEW link \in LinkStates
  PROVE  /\ link.status \in Statuses /\ link.client \in 0 .. MaxProcesses
         /\ link.users \in SUBSET Sessions /\ link.lock \in Tasks \cup {"nobody"}
         /\ link.autostart \in BOOLEAN
  BY DEF LinkStates

LEMMA CreatedIs ==
  ASSUME NEW auto \in BOOLEAN
  PROVE  /\ Created(auto) \in LinkStates /\ Absent \in LinkStates
         /\ Created(auto).status = "configured" /\ Created(auto).client = 0
         /\ Created(auto).lock = "nobody"
         /\ Absent.status = "absent" /\ Absent.client = 0 /\ Absent.lock = "nobody"
<1>1. Absent \in LinkStates
  BY McpConstants DEF Absent, LinkStates, Statuses
<1>2. /\ Created(auto).status = "configured" /\ Created(auto).client = 0 /\ Created(auto).lock = "nobody"
      /\ Absent.status = "absent" /\ Absent.client = 0 /\ Absent.lock = "nobody"
  BY DEF Created, Absent
<1>3. Created(auto) \in LinkStates
  BY <1>1 DEF Created, LinkStates, Statuses
<1>. QED
  BY <1>1, <1>2, <1>3

LEMMA JoinedIs ==
  ASSUME NEW link \in LinkStates, NEW t \in Tasks
  PROVE  /\ Joined(link, t) \in LinkStates
         /\ Joined(link, t).status = link.status /\ Joined(link, t).client = link.client
         /\ Joined(link, t).lock = IF link.lock = "nobody" THEN t ELSE link.lock
  BY DEF Joined, LinkStates

LEMMA WaitingIs ==
  ASSUME NEW op \in Ops, NEW c \in Links, NEW place \in {"connect", "disconnect", "call"}
  PROVE  /\ Waiting(op, c, place) \in CallStates
         /\ Waiting(op, c, place).op = op /\ Waiting(op, c, place).of = c
         /\ Waiting(op, c, place).at = place /\ Waiting(op, c, place).client = 0
<1>. DEFINE first == links[c].lock = "nobody"
<1>1. first \in BOOLEAN
  OBVIOUS
<1>2. Waiting(op, c, place) = [NoCall EXCEPT !.op = op, !.of = c, !.at = place, !.first = first]
  BY DEF Waiting
<1>3. c \in 0 .. MaxConnections /\ place \in Locking \cup {"idle", "call"}
  BY McpConstants DEF Links, Locking
<1>. HIDE DEF first
<1>4. Waiting(op, c, place) \in CallStates
  BY <1>1, <1>2, <1>3, NoCallIs DEF CallStates
<1>5. /\ Waiting(op, c, place).op = op /\ Waiting(op, c, place).of = c
      /\ Waiting(op, c, place).at = place /\ Waiting(op, c, place).client = 0
  BY <1>2 DEF NoCall
<1>. QED
  BY <1>4, <1>5

LEMMA HeirIs ==
  ASSUME NEW c \in Links, NEW t \in Tasks, NEW u \in Heirs(c, t)
  PROVE  /\ u \in Tasks \cup {"nobody"}
         /\ u \in Tasks => u # t /\ callers[u].of = c /\ callers[u].at \in {"connect", "disconnect"}
  BY McpConstants DEF Heirs, Waiters

-----------------------------------------------------------------------------
(* What a step of a task, about one connection, does not disturb: the      *)
(* other tasks, connections and processes.                                 *)
Untouched(d, t) ==
  \/ links'[d] = links[d]
  \/ /\ links[d].status = "absent"
     /\ links'[d].status = "configured" /\ links'[d].client = 0
     /\ \/ links'[d].lock = "nobody"
        \/ links'[d].lock = t /\ callers'[t].of = d /\ callers'[t].at = "connect"
About(t, c) ==
  /\ callers' \in [Tasks -> CallStates]
  /\ callers[t].of \in {0, c}
  /\ \A u \in Tasks \ {t} :
       callers'[u] = callers[u] \/ (callers[u].at = "call" /\ callers'[u] = NoCall)
  /\ \A d \in Links \ {c} : Untouched(d, t)
  /\ \A k \in Servers :
       /\ processes[k].of \notin {0, c} => processes'[k] = processes[k]
       /\ processes[k].of = 0 => processes'[k] = processes[k] \/ processes'[k].of = c
       /\ processes[k].of = c => processes'[k].of = c
  /\ abandoned \subseteq abandoned'
  /\ links[c].status # "absent" => links'[c].status # "absent"
  /\ links[c].lock \in Tasks \ {t} =>
       /\ links'[c].lock = links[c].lock /\ links'[c].client = links[c].client
       /\ UNCHANGED processes
Elsewhere(t, c) ==
  /\ \A d \in Links \ {c} : LinkInv(d)'
  /\ \A u \in Tasks \ {t} : TaskInv(u)'
  /\ \A k \in Servers : processes'[k].of # c => ProcessInv(k)'

LEMMA ElsewhereKeeps ==
  ASSUME McpInv, NEW t \in Tasks, NEW c \in Links, About(t, c)
  PROVE  Elsewhere(t, c)
<1>0. /\ links \in [Links -> LinkStates] /\ processes \in [Servers -> ProcessStates]
      /\ callers \in [Tasks -> CallStates] /\ "nobody" \notin Tasks
      /\ \A x \in Tasks : callers[x].of \in 0 .. MaxConnections /\ callers[x].client \in 0 .. MaxProcesses
      /\ \A d \in Links : links[d].client \in 0 .. MaxProcesses
      /\ \A k \in Servers : processes[k].of \in 0 .. MaxConnections
      /\ \A n \in 0 .. MaxConnections : n # 0 => n \in Links
      /\ \A n \in 0 .. MaxProcesses : n # 0 => n \in Servers
  BY McpConstants DEF McpInv, McpTypeOK, LinkStates, ProcessStates, CallStates, Links, Servers
<1>1. ASSUME NEW d \in Links \ {c} PROVE LinkInv(d)'
  <2>0. LinkInv(d)
    BY DEF McpInv
  <2>1. CASE links'[d] = links[d]
    <3>1. links[d].client # 0 => processes'[links[d].client] = processes[links[d].client]
      BY <1>0, <2>0 DEF LinkInv, About, Links
    <3>2. ASSUME NEW u \in Tasks, links[d].lock = u PROVE callers'[u] = callers[u]
      <4>1. callers[u].of = d /\ callers[u].at # "call" /\ d # 0
        BY <1>0, <2>0, <3>2 DEF LinkInv, Locking, Links
      <4>. QED
        BY <4>1 DEF About
    <3>. QED
      BY <2>0, <2>1, <3>1, <3>2 DEF LinkInv, IsConnected
  <2>2. CASE links'[d] # links[d]
    BY <1>0, <2>2 DEF About, Untouched, LinkInv, IsConnected, Locking
  <2>. QED
    BY <2>1, <2>2
<1>2. ASSUME NEW u \in Tasks \ {t} PROVE TaskInv(u)'
  <2>0. TaskInv(u)
    BY DEF McpInv
  <2>1. CASE callers'[u] = NoCall
    BY <2>1, NoCallIs DEF TaskInv, Ending
  <2>2. CASE callers'[u] = callers[u]
    <3>. DEFINE d == callers[u].of
    <3>0. callers[u].at # "idle" => d \in Links
      BY <1>0, <2>0 DEF TaskInv
    <3>1. callers[u].at # "idle" => links'[d].status # "absent"
      BY <1>0, <2>0, <3>0 DEF TaskInv, About, Untouched
    <3>2. ASSUME callers[u].at = "handshake" \/ Ending(u)
          PROVE  /\ links'[d].lock = u /\ links'[d].client = links[d].client
                 /\ \A k \in Servers : processes[k].of = d => processes'[k] = processes[k]
      <4>1. links[d].lock = u /\ d \in Links /\ links[d].status # "absent"
        BY <2>0, <3>0, <3>2 DEF TaskInv, Ending
      <4>2. CASE d = c
        BY <4>1, <4>2 DEF About
      <4>3. CASE d # c
        BY <1>0, <4>1, <4>3 DEF About, Untouched, Links
      <4>. QED
        BY <4>2, <4>3
    <3>3. links[d].client # 0 /\ d \in Links
            => links[d].client \in Servers /\ processes[links[d].client].of = d
      BY <1>0 DEF McpInv, LinkInv
    <3>. QED
      BY <1>0, <2>0, <2>2, <3>0, <3>1, <3>2, <3>3 DEF TaskInv, Ending, Live, About
  <2>. QED
    BY <2>1, <2>2 DEF About
<1>3. ASSUME NEW k \in Servers, processes'[k].of # c PROVE ProcessInv(k)'
  <2>. DEFINE d == processes[k].of
  <2>0. ProcessInv(k)
    BY DEF McpInv
  <2>1. processes'[k] = processes[k] /\ d # c
    BY <1>3 DEF About
  <2>2. CASE d = 0
    BY <1>0, <2>0, <2>1, <2>2 DEF ProcessInv, Live, About, Alive
  <2>3. CASE d # 0
    <3>1. d \in Links \ {c}
      BY <1>0, <2>1, <2>3
    <3>2. links[d].client = k => links'[d].client = k
      <4>1. links[d].client = k => links[d].status # "absent"
        BY <1>0, <3>1 DEF McpInv, LinkInv, Servers
      <4>. QED
        BY <3>1, <4>1 DEF About, Untouched
    <3>3. ASSUME NEW u \in Tasks, callers[u].of = d, callers[u].at # "call"
          PROVE  callers'[u] = callers[u]
      BY <2>1, <2>3, <3>3 DEF About
    <3>4. ASSUME NEW u \in Tasks, links[d].lock = u
          PROVE  links'[d].lock = u
      BY <1>0, <3>1, <3>4 DEF About, Untouched, McpInv, LinkInv
    <3>5. ASSUME NEW u \in Tasks, Starts(u, k) PROVE Starts(u, k)'
      BY <2>1, <3>3, <3>5 DEF Starts
    <3>6. ASSUME NEW u \in Tasks, links[d].lock = u, Ending(u) PROVE Ending(u)'
      <4>1. callers[u].of = d
        BY <3>1, <3>6 DEF McpInv, LinkInv
      <4>. QED
        BY <3>3, <3>6, <4>1 DEF Ending
    <3>7. Live(k)' => Live(k)
      BY <2>1 DEF Live, About
    <3>8. processes[k].state = "lost" => k \in abandoned'
      BY <2>0 DEF ProcessInv, About
    <3>. QED
      BY <2>0, <2>1, <3>2, <3>4, <3>5, <3>6, <3>7, <3>8 DEF ProcessInv
  <2>. QED
    BY <2>2, <2>3
<1>. QED
  BY <1>1, <1>2, <1>3 DEF Elsewhere

(* What is left to show of a step.                                         *)
LEMMA MoveKeeps ==
  ASSUME McpInv, NEW t \in Tasks, NEW c \in Links, About(t, c),
         links' \in [Links -> LinkStates], processes' \in [Servers -> ProcessStates],
         abandoned' \subseteq Servers,
         pool' \in {0, pool} \cup {d \in Links : links'[d].status # "absent"},
         registry' \in {0, registry, c}, links'[c].status # "absent",
         LinkInv(c)', TaskInv(t)',
         \A k \in Servers : processes'[k].of = c => ProcessInv(k)'
  PROVE  McpInv'
<1>1. Elsewhere(t, c)
  BY ElsewhereKeeps
<1>2. \A d \in Links : links[d].status # "absent" => links'[d].status # "absent"
  BY DEF About, Untouched
<1>3. 0 \notin Links /\ Links \subseteq 0 .. MaxConnections /\ \A n \in 0 .. MaxConnections : n # 0 => n \in Links
  BY McpConstants DEF Links
<1>4. /\ pool \in {0} \cup Links /\ registry \in {0} \cup Links
      /\ pool # 0 => links[pool].status # "absent"
      /\ registry # 0 => links[registry].status # "absent"
  BY <1>3 DEF McpInv, McpTypeOK
<1>5. /\ pool' \in 0 .. MaxConnections /\ registry' \in 0 .. MaxConnections
      /\ pool' # 0 => links'[pool'].status # "absent"
      /\ registry' # 0 => links'[registry'].status # "absent"
  <2>1. pool' \in {0} \cup Links /\ (pool' # 0 => links'[pool'].status # "absent")
    BY <1>2, <1>4
  <2>2. registry' \in {0} \cup Links /\ (registry' # 0 => links'[registry'].status # "absent")
    BY <1>2, <1>4
  <2>3. 0 \in 0 .. MaxConnections
    BY McpConstants
  <2>. QED
    BY <1>3, <2>1, <2>2, <2>3
<1>6. McpTypeOK'
  BY <1>5 DEF McpTypeOK, About, McpInv
<1>. QED
  BY <1>1, <1>5, <1>6 DEF McpInv, Elsewhere

(* A task that waits, calls or is idle.                                    *)
LEMMA RestingCall ==
  ASSUME NEW t \in Tasks, callers'[t].at \in {"idle", "call", "connect", "disconnect"},
         callers'[t].at = "idle"
           \/ (callers'[t].of # 0 /\ links'[callers'[t].of].status # "absent")
  PROVE  TaskInv(t)'
  BY DEF TaskInv, Ending

(* The processes of a connection stay as they are.                         *)
LEMMA ProcessesStay ==
  ASSUME McpInv, NEW t \in Tasks, NEW c \in Links, About(t, c),
         UNCHANGED processes, links'[c].client = links[c].client,
         callers[t].at \notin {"handshake", "drop", "stop"}
  PROVE  \A k \in Servers : processes'[k].of = c => ProcessInv(k)'
<1>. SUFFICES ASSUME NEW k \in Servers, processes[k].of = c PROVE ProcessInv(k)'
  OBVIOUS
<1>1. ProcessInv(k)
  BY DEF McpInv
<1>2. ASSUME NEW u \in Tasks, callers[u].at \in {"handshake", "drop", "stop"}
      PROVE  callers'[u] = callers[u] /\ u # t
  BY <1>2 DEF About
<1>3. ASSUME NEW u \in Tasks, links[c].lock = u, Ending(u) PROVE links'[c].lock = u
  BY <1>2, <1>3 DEF About, Ending
<1>4. Live(k)' => Live(k)
  BY DEF Live, About
<1>5. k \in abandoned => k \in abandoned'
  BY DEF About
<1>6. ASSUME NEW u \in Tasks, Starts(u, k) PROVE Starts(u, k)'
  BY <1>2, <1>6 DEF Starts
<1>7. ASSUME NEW u \in Tasks, Ending(u) PROVE Ending(u)'
  BY <1>2, <1>7 DEF Ending
<1>. QED
  BY <1>1, <1>3, <1>4, <1>5, <1>6, <1>7 DEF ProcessInv

(* Steps of a task that does not have the lock of the connection: it may   *)
(* take it, to wait no longer.                                             *)
LEMMA AskKeeps ==
  ASSUME McpInv, NEW t \in Tasks, NEW c \in Links, NEW link \in LinkStates, NEW call \in CallStates,
         Proceeds(t, call), Changes(c, link), UNCHANGED processes,
         abandoned \subseteq abandoned', abandoned' \subseteq Servers,
         pool' \in {0, pool, c}, registry' \in {0, registry},
         callers[t].of \in {0, c}, links[c].lock # t,
         link.client = links[c].client,
         links[c].status # "absent" => link.status = links[c].status,
         links[c].status = "absent" => link.status = "configured",
         \/ link.lock = links[c].lock
         \/ links[c].lock = "nobody" /\ link.lock = t /\ call.at \in {"connect", "disconnect"},
         call.at \in {"idle", "call", "connect", "disconnect"},
         call.at = "idle" \/ call.of = c
  PROVE  McpInv'
<1>0. /\ links \in [Links -> LinkStates] /\ callers \in [Tasks -> CallStates] /\ "nobody" \notin Tasks
      /\ links' \in [Links -> LinkStates] /\ callers' \in [Tasks -> CallStates]
      /\ links'[c] = link /\ callers'[t] = call
      /\ \A d \in Links \ {c} : links'[d] = links[d]
      /\ \A u \in Tasks \ {t} : callers'[u] = callers[u]
      /\ c # 0 /\ link.status # "absent" /\ LinkInv(c)
  BY McpConstants DEF McpInv, McpTypeOK, Proceeds, Changes, Links
<1>1. About(t, c)
  BY <1>0 DEF About, Untouched
<1>2. TaskInv(t)'
  BY <1>0, RestingCall
<1>3. callers[t].at \notin {"handshake", "drop", "stop"}
  BY <1>0 DEF McpInv, TaskInv, Ending
<1>4. LinkInv(c)'
  <2>1. (links[c].status = "absent" => links[c].client = 0 /\ links[c].lock = "nobody")
    BY <1>0 DEF LinkInv
  <2>2. link.client # 0 => processes'[link.client].of = c
    BY <1>0 DEF LinkInv
  <2>3. link.lock \in Tasks => callers'[link.lock].of = c /\ callers'[link.lock].at \in Locking
    BY <1>0 DEF LinkInv, Locking
  <2>4. IsConnected(c)' => link.status = "connected"
    BY <1>0, <2>1 DEF LinkInv, IsConnected
  <2>. QED
    BY <1>0, <2>2, <2>3, <2>4 DEF LinkInv
<1>5. \A k \in Servers : processes'[k].of = c => ProcessInv(k)'
  BY <1>0, <1>1, <1>3, ProcessesStay
<1>6. processes' \in [Servers -> ProcessStates] /\ links'[c].status # "absent"
  BY <1>0 DEF McpInv, McpTypeOK
<1>. QED
  BY <1>0, <1>1, <1>2, <1>4, <1>5, <1>6, MoveKeeps

LEMMA IdleIs ==
  ASSUME McpInv, NEW t \in Tasks, callers[t] = NoCall
  PROVE  callers[t].of = 0 /\ \A c \in Links : links[c].lock # t
<1>1. callers[t].of = 0 /\ callers[t].at = "idle"
  BY NoCallIs
<1>2. ASSUME NEW c \in Links PROVE links[c].lock # t
  BY <1>1, McpConstants DEF McpInv, LinkInv, Locking
<1>. QED
  BY <1>1, <1>2

LEMMA InPool ==
  ASSUME McpInv
  PROVE  /\ pool # 0 => pool \in Links /\ links[pool].status # "absent"
         /\ registry # 0 => registry \in Links /\ links[registry].status # "absent"
         /\ \A c \in Links : links[c] \in LinkStates /\ c # 0
         /\ abandoned \subseteq Servers
  BY McpConstants DEF McpInv, McpTypeOK, Links

LEMMA AsksKeep ==
  ASSUME McpInv, NEW t \in Tasks, NEW op \in Ops, NEW place \in {"connect", "disconnect"},
         Asks(t, op, place), pool' \in {0, pool}, UNCHANGED servers
  PROVE  McpInv'
<1>1. pool \in Links /\ links[pool] \in LinkStates /\ abandoned \subseteq Servers
      /\ links[pool].status # "absent"
  BY InPool DEF Asks
<1>2. callers[t].of = 0 /\ links[pool].lock # t
  BY <1>1, IdleIs DEF Asks
<1>. DEFINE link == Joined(links[pool], t)  call == Waiting(op, pool, place)
<1>3. link \in LinkStates /\ link.status = links[pool].status /\ link.client = links[pool].client
      /\ link.lock = IF links[pool].lock = "nobody" THEN t ELSE links[pool].lock
  BY <1>1, JoinedIs
<1>4. call \in CallStates /\ call.at = place /\ call.of = pool
  BY <1>1, WaitingIs
<1>. HIDE DEF link, call
<1>5. Proceeds(t, call) /\ Changes(pool, link) /\ UNCHANGED <<processes, registry, abandoned>>
  BY DEF Asks, servers, link, call
<1>. QED
  BY <1>1, <1>2, <1>3, <1>4, <1>5, AskKeeps

LEMMA RequestsKeep ==
  ASSUME McpInv, NEW t \in Tasks,
         \/ ConnectServer(t) \/ DisconnectServer(t) \/ RestartServer(t) \/ RemoveServer(t)
         \/ AddServer(t) \/ UpdateServer(t)
         \/ \E s \in Sessions : AcquireForSession(t, s) \/ ReleaseForSession(t, s)
         \/ CallTool(t)
  PROVE  McpInv'
<1>1. CASE ConnectServer(t)
  BY <1>1, AsksKeep DEF ConnectServer, rest, Ops
<1>2. CASE DisconnectServer(t)
  BY <1>2, AsksKeep DEF DisconnectServer, rest, Ops
<1>3. CASE RestartServer(t)
  BY <1>3, AsksKeep DEF RestartServer, rest, Ops
<1>4. CASE RemoveServer(t)
  BY <1>4, AsksKeep DEF RemoveServer, Ops
<1>5. CASE AddServer(t)
  <2>1. CASE Asks(t, "add", "disconnect") /\ pool' = 0 /\ UNCHANGED servers
    BY <2>1, AsksKeep DEF Ops
  <2>2. ASSUME NEW c \in Spare, NEW auto \in BOOLEAN, callers[t] = NoCall, pool' = c, UNCHANGED servers,
               \/ /\ Proceeds(t, Waiting("add", c, "connect"))
                  /\ links' = [links EXCEPT ![c] = Joined(Created(auto), t)]
               \/ /\ Proceeds(t, NoCall)
                  /\ links' = [links EXCEPT ![c] = Created(auto)]
        PROVE  McpInv'
    <3>1. c \in Links /\ links[c].status = "absent" /\ links[c].lock # t /\ callers[t].of = 0
      BY <2>2, IdleIs DEF Spare
    <3>2. links[c].client = 0 /\ links[c].lock = "nobody" /\ links[c] \in LinkStates
      BY <3>1, InPool DEF McpInv, LinkInv
    <3>3. abandoned \subseteq Servers /\ abandoned' = abandoned /\ UNCHANGED <<processes, registry>>
      BY <2>2, InPool DEF servers
    <3>. DEFINE made == Created(auto)
    <3>4. made \in LinkStates /\ made.status = "configured" /\ made.client = 0 /\ made.lock = "nobody"
      BY CreatedIs
    <3>. HIDE DEF made
    <3>5. CASE Proceeds(t, Waiting("add", c, "connect")) /\ links' = [links EXCEPT ![c] = Joined(made, t)]
      <4>. DEFINE link == Joined(made, t)  call == Waiting("add", c, "connect")
      <4>1. link \in LinkStates /\ link.status = "configured" /\ link.client = 0 /\ link.lock = t
        BY <3>4, JoinedIs
      <4>2. call \in CallStates /\ call.at = "connect" /\ call.of = c
        BY <3>1, WaitingIs DEF Ops
      <4>. HIDE DEF link, call
      <4>3. Proceeds(t, call) /\ Changes(c, link)
        BY <3>5 DEF Changes, link, call
      <4>. QED
        BY <2>2, <3>1, <3>2, <3>3, <4>1, <4>2, <4>3, AskKeeps
    <3>6. CASE Proceeds(t, NoCall) /\ links' = [links EXCEPT ![c] = made]
      <4>1. Changes(c, made)
        BY <3>6 DEF Changes
      <4>. QED
        BY <2>2, <3>1, <3>2, <3>3, <3>4, <3>6, <4>1, NoCallIs, AskKeeps
    <3>. QED
      BY <2>2, <3>5, <3>6 DEF made
  <2>. QED
    BY <1>5, <2>1, <2>2 DEF AddServer, NewConnection
<1>6. CASE UpdateServer(t)
  <2>1. pool \in Links /\ links[pool] \in LinkStates /\ abandoned \subseteq Servers
        /\ links[pool].status # "absent"
    BY <1>6, InPool DEF UpdateServer
  <2>2. callers[t].of = 0 /\ links[pool].lock # t
    BY <1>6, <2>1, IdleIs DEF UpdateServer
  <2>. DEFINE link == Joined(links[pool], t)  waits == Waiting("update", pool, "disconnect")
              again == links[pool].status = "connected"
              call == [waits EXCEPT !.again = again]
  <2>3. link \in LinkStates /\ link.status = links[pool].status /\ link.client = links[pool].client
        /\ link.lock = IF links[pool].lock = "nobody" THEN t ELSE links[pool].lock
    BY <2>1, JoinedIs
  <2>4. again \in BOOLEAN /\ waits \in CallStates /\ waits.at = "disconnect" /\ waits.of = pool
    BY <2>1, WaitingIs DEF Ops
  <2>. HIDE DEF link, waits, again
  <2>5. call \in CallStates /\ call.at = "disconnect" /\ call.of = pool
    BY <2>4 DEF CallStates
  <2>. HIDE DEF call
  <2>6. Proceeds(t, call) /\ Changes(pool, link) /\ UNCHANGED <<pool, processes, registry, abandoned>>
    BY <1>6 DEF UpdateServer, rest, servers, link, call, waits, again
  <2>. QED
    BY <2>1, <2>2, <2>3, <2>5, <2>6, AskKeeps
<1>7. ASSUME NEW s \in Sessions, AcquireForSession(t, s) \/ ReleaseForSession(t, s) PROVE McpInv'
  <2>1. pool \in Links /\ links[pool] \in LinkStates /\ abandoned \subseteq Servers
        /\ links[pool].status # "absent"
    BY <1>7, InPool DEF AcquireForSession, ReleaseForSession
  <2>2. callers[t].of = 0 /\ links[pool].lock # t /\ callers[t] = NoCall
    BY <1>7, <2>1, IdleIs DEF AcquireForSession, ReleaseForSession
  <2>3. UNCHANGED <<pool, processes, registry, abandoned>>
    BY <1>7 DEF AcquireForSession, ReleaseForSession, rest, servers
  <2>4. ASSUME NEW users \in SUBSET Sessions, NEW place \in {"connect", "disconnect"}, NEW op \in Ops,
               \/ Changes(pool, [links[pool] EXCEPT !.users = users]) /\ UNCHANGED callers
               \/ /\ Changes(pool, Joined([links[pool] EXCEPT !.users = users], t))
                  /\ Proceeds(t, Waiting(op, pool, place))
        PROVE  McpInv'
    <3>. DEFINE counted == [links[pool] EXCEPT !.users = users]
    <3>1. counted \in LinkStates /\ counted.status = links[pool].status
          /\ counted.client = links[pool].client /\ counted.lock = links[pool].lock
      BY <2>1 DEF LinkStates
    <3>. HIDE DEF counted
    <3>2. CASE Changes(pool, counted) /\ UNCHANGED callers
      <4>1. Proceeds(t, NoCall)
        BY <2>2, <3>2 DEF Proceeds, McpInv, McpTypeOK
      <4>. QED
        BY <2>1, <2>2, <2>3, <3>1, <3>2, <4>1, NoCallIs, AskKeeps
    <3>3. CASE Changes(pool, Joined(counted, t)) /\ Proceeds(t, Waiting(op, pool, place))
      <4>. DEFINE link == Joined(counted, t)  call == Waiting(op, pool, place)
      <4>1. link \in LinkStates /\ link.status = links[pool].status /\ link.client = links[pool].client
            /\ link.lock = IF links[pool].lock = "nobody" THEN t ELSE links[pool].lock
        BY <3>1, JoinedIs
      <4>2. call \in CallStates /\ call.at = place /\ call.of = pool
        BY <2>1, WaitingIs
      <4>. HIDE DEF link, call
      <4>3. Proceeds(t, call) /\ Changes(pool, link)
        BY <3>3 DEF link, call
      <4>. QED
        BY <2>1, <2>2, <2>3, <4>1, <4>2, <4>3, AskKeeps
    <3>. QED
      BY <2>4, <3>2, <3>3 DEF counted
  <2>5. links[pool].users \in SUBSET Sessions
    BY <2>1, LinkIs
  <2>6. CASE AcquireForSession(t, s)
    <3>. DEFINE users == links[pool].users \cup {s}
    <3>1. \/ Changes(pool, [links[pool] EXCEPT !.users = users]) /\ UNCHANGED callers
          \/ /\ Changes(pool, Joined([links[pool] EXCEPT !.users = users], t))
             /\ Proceeds(t, Waiting("acquire", pool, "connect"))
      BY <2>6 DEF AcquireForSession
    <3>2. users \in SUBSET Sessions /\ "acquire" \in Ops
      BY <2>5 DEF Ops
    <3>. QED
      BY <2>4, <3>1, <3>2
  <2>7. CASE ReleaseForSession(t, s)
    <3>. DEFINE users == links[pool].users \ {s}
    <3>1. \/ Changes(pool, [links[pool] EXCEPT !.users = users]) /\ UNCHANGED callers
          \/ /\ Changes(pool, Joined([links[pool] EXCEPT !.users = users], t))
             /\ Proceeds(t, Waiting("release", pool, "disconnect"))
      BY <2>7 DEF ReleaseForSession
    <3>2. users \in SUBSET Sessions /\ "release" \in Ops
      BY <2>5 DEF Ops
    <3>. QED
      BY <2>4, <3>1, <3>2
  <2>. QED
    BY <1>7, <2>6, <2>7
<1>8. CASE CallTool(t)
  <2>1. registry \in Links /\ links[registry] \in LinkStates /\ abandoned \subseteq Servers
        /\ links[registry].status # "absent"
    BY <1>8, InPool DEF CallTool
  <2>2. callers[t].of = 0 /\ links[registry].lock # t
    BY <1>8, <2>1, IdleIs DEF CallTool
  <2>3. UNCHANGED <<pool, processes, registry, abandoned>>
    BY <1>8 DEF CallTool, rest, servers
  <2>4. CASE IsConnected(registry)
    <3>. DEFINE waits == Waiting("call", registry, "call")
                call == [waits EXCEPT !.client = links[registry].client]
    <3>1. waits \in CallStates /\ waits.at = "call" /\ waits.of = registry
      BY <2>1, WaitingIs DEF Ops
    <3>2. links[registry].client \in 0 .. MaxProcesses
      BY <2>1, LinkIs
    <3>. HIDE DEF waits
    <3>3. call \in CallStates /\ call.at = "call" /\ call.of = registry
      BY <3>1, <3>2 DEF CallStates
    <3>. HIDE DEF call
    <3>4. Proceeds(t, call) /\ Changes(registry, links[registry])
      BY <1>8, <2>4 DEF CallTool, Changes, call, waits, McpInv, McpTypeOK
    <3>. QED
      BY <2>1, <2>2, <2>3, <3>3, <3>4, AskKeeps
  <2>5. CASE ~IsConnected(registry)
    <3>. DEFINE link == Joined(links[registry], t)  call == Waiting("call", registry, "connect")
    <3>1. link \in LinkStates /\ link.status = links[registry].status /\ link.client = links[registry].client
          /\ link.lock = IF links[registry].lock = "nobody" THEN t ELSE links[registry].lock
      BY <2>1, JoinedIs
    <3>2. call \in CallStates /\ call.at = "connect" /\ call.of = registry
      BY <2>1, WaitingIs DEF Ops
    <3>. HIDE DEF link, call
    <3>3. Proceeds(t, call) /\ Changes(registry, link)
      BY <1>8, <2>5 DEF CallTool, link, call
    <3>. QED
      BY <2>1, <2>2, <2>3, <3>1, <3>2, <3>3, AskKeeps
  <2>. QED
    BY <2>4, <2>5
<1>. QED
  BY <1>1, <1>2, <1>3, <1>4, <1>5, <1>6, <1>7, <1>8

-----------------------------------------------------------------------------
(* What a task that has the lock of a connection knows.                    *)
LEMMA HolderIs ==
  ASSUME McpInv, NEW t \in Tasks, NEW place \in Locking, Holds(t, place)
  PROVE  /\ callers[t].of \in Links /\ callers[t].at = place
         /\ links[callers[t].of].lock = t /\ links[callers[t].of].status # "absent"
         /\ links[callers[t].of] \in LinkStates /\ callers[t] \in CallStates
         /\ 0 \notin Links /\ abandoned \subseteq Servers
<1>1. callers[t].of # 0 /\ links[callers[t].of].status # "absent" /\ callers[t] \in CallStates
  BY DEF Holds, McpInv, TaskInv, McpTypeOK, Locking
<1>2. callers[t].of \in Links /\ 0 \notin Links
  BY <1>1, CallIs, McpConstants DEF Links
<1>. QED
  BY <1>1, <1>2 DEF Holds, McpInv, McpTypeOK

(* It leaves the connection to another one, or waits for it once more.     *)
LEMMA LeaveKeeps ==
  ASSUME McpInv, NEW t \in Tasks, NEW c \in Links, About(t, c), NEW u \in Heirs(c, t),
         links' \in [Links -> LinkStates], processes' \in [Servers -> ProcessStates],
         abandoned' \subseteq Servers,
         pool' \in {0, pool} \cup {d \in Links : links'[d].status # "absent"},
         registry' \in {0, registry, c},
         \/ links'[c].lock = u
         \/ links'[c].lock = t /\ callers'[t].of = c /\ callers'[t].at = "connect",
         links'[c].status # "absent",
         links'[c].client # 0 => processes'[links'[c].client].of = c,
         IsConnected(c)' => links'[c].status = "connected",
         callers'[t].at \in {"idle", "call", "connect"},
         callers'[t].at = "idle" \/ (callers'[t].of # 0 /\ links'[callers'[t].of].status # "absent"),
         \A k \in Servers : processes'[k].of = c => ProcessInv(k)'
  PROVE  McpInv'
<1>1. TaskInv(t)'
  BY RestingCall
<1>2. links'[c].lock \in Tasks =>
        callers'[links'[c].lock].of = c /\ callers'[links'[c].lock].at \in Locking
  <2>1. u \in Tasks => u # t /\ callers[u].of = c /\ callers[u].at \in {"connect", "disconnect"}
    BY HeirIs
  <2>2. u \in Tasks => callers'[u] = callers[u]
    BY <2>1 DEF About
  <2>. QED
    BY <2>1, <2>2 DEF Locking
<1>3. LinkInv(c)'
  BY <1>2 DEF LinkInv
<1>. QED
  BY <1>1, <1>3, MoveKeeps

(* A connection without a client has no process that somebody could end.   *)
Ended(c) ==
  \A k \in Servers : processes[k].of = c =>
    /\ processes[k].state # "none"
    /\ processes[k].state = "lost" => k \in abandoned
    /\ ~Live(k)

LEMMA EndedIs ==
  ASSUME NEW c \in Links, Ended(c)'
  PROVE  \A k \in Servers : processes'[k].of = c => ProcessInv(k)'
  BY McpConstants DEF Ended, ProcessInv, Links

(* Only the client of a connection, or of the task that has its lock, is   *)
(* attended.                                                               *)
LEMMA OthersEnded ==
  ASSUME McpInv, NEW t \in Tasks, NEW c \in Links, links[c].lock = t,
         callers[t].at # "handshake", NEW k \in Servers, processes[k].of = c, links[c].client # k
  PROVE  ~Live(k)
<1>1. ASSUME NEW u \in Tasks, Starts(u, k) PROVE FALSE
  <2>1. links[c].lock = u
    BY <1>1 DEF Starts, McpInv, TaskInv
  <2>. QED
    BY <1>1, <2>1 DEF Starts
<1>. QED
  BY <1>1 DEF McpInv, ProcessInv

(* The steps of disconnect and of a failed connect that come to the end.   *)
LEMMA ClosedIs ==
  ASSUME McpInv, NEW t \in Tasks, NEW c \in Links, links[c].lock = t, callers[t].of = c,
         \/ callers[t].at \in {"drop", "stop"} /\ Closed(links[c].client)
         \/ callers[t].at = "disconnect" /\ links[c].client = 0 /\ UNCHANGED processes,
         UNCHANGED abandoned
  PROVE  /\ Ended(c)'
         /\ processes' \in [Servers -> ProcessStates]
         /\ \A k \in Servers : processes'[k].of = processes[k].of
         /\ \A k \in Servers : processes[k].of # c => processes'[k] = processes[k]
<1>. DEFINE client == links[c].client
<1>0. /\ processes \in [Servers -> ProcessStates] /\ c # 0
      /\ client # 0 => client \in Servers /\ processes[client].of = c
  BY McpConstants, InPool, LinkIs DEF McpInv, McpTypeOK, LinkInv, Servers, Links
<1>1. ASSUME NEW k \in Servers, processes[k].of = c, k # client
      PROVE  ~Live(k)
  <2>1. callers[t].at # "handshake"
    OBVIOUS
  <2>. QED
    BY <1>1, <2>1, OthersEnded
<1>2. ASSUME NEW k \in Servers, processes[k].of = c
      PROVE  processes[k].state # "none" /\ (processes[k].state = "lost" => k \in abandoned)
  BY <1>0, <1>2 DEF McpInv, ProcessInv
<1>3. CASE callers[t].at = "disconnect" /\ client = 0 /\ UNCHANGED processes
  <2>1. processes' = processes /\ abandoned' = abandoned
    BY <1>3
  <2>2. ASSUME NEW k \in Servers, processes'[k].of = c
        PROVE  processes'[k].state # "none" /\ (processes'[k].state = "lost" => k \in abandoned') /\ ~Live(k)'
    <3>1. k # client
      BY <1>3, McpConstants DEF Servers
    <3>. QED
      BY <1>1, <1>2, <2>1, <2>2, <3>1 DEF Live
  <2>. QED
    BY <1>0, <2>1, <2>2 DEF Ended
<1>4. CASE callers[t].at \in {"drop", "stop"} /\ Closed(client)
  <2>1. client # 0 /\ processes[client].state \in {"closing", "lost", "down"}
    BY <1>4 DEF McpInv, TaskInv, Ending
  <2>. DEFINE ends == IF processes[client].state = "closing" THEN "down" ELSE processes[client].state
  <2>2. client \in Servers /\ processes' = [processes EXCEPT ![client].state = ends]
    BY <1>0, <1>4, <2>1 DEF Closed
  <2>3. ends \in {"lost", "down"} /\ (ends = "lost" => processes[client].state = "lost")
    BY <2>1
  <2>. HIDE DEF ends
  <2>4. \A k \in Servers \ {client} : processes'[k] = processes[k]
    BY <1>0, <2>2
  <2>5. processes'[client].of = c /\ processes'[client].state = ends
    BY <1>0, <2>1, <2>2 DEF ProcessStates
  <2>6. processes' \in [Servers -> ProcessStates]
    BY <1>0, <2>2, <2>3 DEF ProcessStates, Alive
  <2>7. ASSUME NEW k \in Servers, processes'[k].of = c
        PROVE  processes'[k].state # "none" /\ (processes'[k].state = "lost" => k \in abandoned') /\ ~Live(k)'
    <3>1. CASE k = client
      BY <1>0, <1>2, <2>1, <2>3, <2>5, <3>1 DEF Live, Alive
    <3>2. CASE k # client
      BY <1>1, <1>2, <2>4, <2>7, <3>2 DEF Live
    <3>. QED
      BY <3>1, <3>2
  <2>. QED
    BY <1>0, <2>1, <2>4, <2>5, <2>6, <2>7 DEF Ended
<1>. QED
  BY <1>3, <1>4

LEMMA CallOverKeeps ==
  ASSUME McpInv, NEW t \in Tasks, CallOver(t)
  PROVE  McpInv'
<1>. DEFINE c == callers[t].of
<1>1. c \in Links /\ links[c].status # "absent" /\ links[c].lock # t /\ links[c] \in LinkStates
      /\ abandoned \subseteq Servers
  <2>1. c # 0 /\ links[c].status # "absent" /\ c \in 0 .. MaxConnections
    BY CallIs DEF CallOver, McpInv, TaskInv, McpTypeOK
  <2>2. c \in Links
    BY <2>1, McpConstants DEF Links
  <2>. QED
    BY <2>1, <2>2, InPool DEF CallOver, McpInv, LinkInv, Locking
<1>2. Proceeds(t, NoCall) /\ Changes(c, links[c]) /\ UNCHANGED <<pool, processes, registry, abandoned>>
  BY DEF CallOver, Changes, McpInv, McpTypeOK
<1>. QED
  BY <1>1, <1>2, NoCallIs, AskKeeps

LEMMA ImportKeeps ==
  ASSUME McpInv, ImportConfig
  PROVE  McpInv'
<1>1. PICK auto \in BOOLEAN :
        \/ pool # 0 /\ Changes(pool, [links[pool] EXCEPT !.autostart = auto]) /\ UNCHANGED pool
        \/ pool = 0 /\ \E c \in Spare : First(c) /\ Changes(c, Created(auto)) /\ pool' = c
  BY DEF ImportConfig
<1>2. callers' = callers /\ UNCHANGED <<processes, registry, abandoned>> /\ abandoned \subseteq Servers
  BY InPool DEF ImportConfig, servers
<1>3. ASSUME NEW c \in Links, NEW link \in LinkStates, Changes(c, link), pool' \in {pool, c},
             link.client = links[c].client, link.lock = links[c].lock, link.status # "absent",
             links[c].status # "absent" => link.status = links[c].status,
             links[c].status = "absent" => link.status = "configured"
      PROVE  McpInv'
  <2>0. /\ links \in [Links -> LinkStates] /\ links'[c] = link /\ links' \in [Links -> LinkStates]
        /\ \A d \in Links \ {c} : links'[d] = links[d]
        /\ 0 \notin Links /\ Links \subseteq 0 .. MaxConnections
    BY <1>3, McpConstants DEF Changes, McpInv, McpTypeOK, Links
  <2>1. ASSUME NEW d \in Links PROVE LinkInv(d)'
    BY <1>2, <1>3, <2>0 DEF McpInv, LinkInv, IsConnected
  <2>2. ASSUME NEW u \in Tasks PROVE TaskInv(u)'
    <3>0. callers[u].at # "idle" => callers[u].of \in Links
      BY McpConstants, CallIs DEF McpInv, TaskInv, McpTypeOK, Links
    <3>1. TaskInv(u)
      BY DEF McpInv
    <3>. QED
      BY <1>2, <1>3, <2>0, <3>0, <3>1 DEF TaskInv, Ending, Live
  <2>3. ASSUME NEW k \in Servers PROVE ProcessInv(k)'
    <3>0. ProcessInv(k) /\ processes[k] \in ProcessStates
      BY DEF McpInv, McpTypeOK
    <3>1. Live(k) => processes[k].of \in Links
      BY <3>0, McpConstants DEF ProcessInv, ProcessStates, Live, Alive, Links
    <3>. QED
      BY <1>2, <1>3, <2>0, <3>0, <3>1 DEF ProcessInv, Live, Starts, Ending
  <2>4. McpTypeOK'
    BY <1>2, <1>3, <2>0 DEF McpInv, McpTypeOK
  <2>5. pool' # 0 => links'[pool'].status # "absent"
    BY <1>3, <2>0, InPool
  <2>6. registry' # 0 => links'[registry'].status # "absent"
    BY <1>2, <1>3, <2>0, InPool
  <2>. QED
    BY <2>1, <2>2, <2>3, <2>4, <2>5, <2>6 DEF McpInv
<1>4. CASE pool # 0 /\ Changes(pool, [links[pool] EXCEPT !.autostart = auto]) /\ UNCHANGED pool
  <2>1. pool \in Links /\ links[pool] \in LinkStates /\ links[pool].status # "absent"
    BY <1>4, InPool
  <2>. DEFINE link == [links[pool] EXCEPT !.autostart = auto]
  <2>2. link \in LinkStates /\ link.client = links[pool].client /\ link.lock = links[pool].lock
        /\ link.status = links[pool].status
    BY <2>1 DEF LinkStates
  <2>. HIDE DEF link
  <2>3. Changes(pool, link)
    BY <1>4 DEF link
  <2>. QED
    BY <1>3, <1>4, <2>1, <2>2, <2>3
<1>5. CASE pool = 0 /\ \E c \in Spare : First(c) /\ Changes(c, Created(auto)) /\ pool' = c
  <2>1. PICK c \in Spare : Changes(c, Created(auto)) /\ pool' = c
    BY <1>5
  <2>2. c \in Links /\ links[c].status = "absent" /\ links[c].client = 0 /\ links[c].lock = "nobody"
    BY DEF Spare, McpInv, LinkInv
  <2>. QED
    BY <1>3, <2>1, <2>2, CreatedIs
<1>. QED
  BY <1>1, <1>4, <1>5

-----------------------------------------------------------------------------
(* A connection that is given to another task.                             *)
LEMMA GivenIs ==
  ASSUME NEW c \in Links, NEW t \in Tasks, NEW link \in LinkStates, NEW u \in Heirs(c, t)
  PROVE  /\ [link EXCEPT !.lock = u] \in LinkStates
         /\ [link EXCEPT !.lock = u].status = link.status
         /\ [link EXCEPT !.lock = u].client = link.client
         /\ [link EXCEPT !.lock = u].lock = u
<1>1. u \in Tasks \cup {"nobody"}
  BY HeirIs
<1>. QED
  BY <1>1 DEF LinkStates

Interrupts(t, k, call) == callers' = [Interrupted(k) EXCEPT ![t] = call]

(* A task that has the lock changes its connection and itself only, and    *)
(* may interrupt calls.                                                    *)
LEMMA HolderMoves ==
  ASSUME McpInv, NEW t \in Tasks, NEW c \in Links, NEW link \in LinkStates, NEW call \in CallStates,
         callers[t].of = c, links[c].lock = t, link.status # "absent",
         Changes(c, link), abandoned \subseteq abandoned',
         \/ Proceeds(t, call)
         \/ \E k \in Servers : Interrupts(t, k, call),
         \A k \in Servers :
           /\ processes[k].of \notin {0, c} => processes'[k] = processes[k]
           /\ processes[k].of = 0 => processes'[k] = processes[k] \/ processes'[k].of = c
           /\ processes[k].of = c => processes'[k].of = c
  PROVE  /\ About(t, c)
         /\ links' \in [Links -> LinkStates] /\ links'[c] = link /\ callers'[t] = call
<1>0. /\ links \in [Links -> LinkStates] /\ callers \in [Tasks -> CallStates] /\ "nobody" \notin Tasks
  BY McpConstants DEF McpInv, McpTypeOK
<1>1. /\ links' \in [Links -> LinkStates] /\ links'[c] = link
      /\ \A d \in Links \ {c} : links'[d] = links[d]
  BY <1>0 DEF Changes
<1>. DEFINE Moved(u) == callers'[u] = callers[u] \/ (callers[u].at = "call" /\ callers'[u] = NoCall)
<1>2. /\ callers' \in [Tasks -> CallStates] /\ callers'[t] = call
      /\ \A u \in Tasks \ {t} : Moved(u)
  <2>1. CASE Proceeds(t, call)
    BY <1>0, <2>1 DEF Proceeds
  <2>2. ASSUME NEW k \in Servers, Interrupts(t, k, call)
        PROVE  /\ callers' \in [Tasks -> CallStates] /\ callers'[t] = call
               /\ \A u \in Tasks \ {t} : Moved(u)
    BY <1>0, <2>2, NoCallIs DEF Interrupts, Interrupted
  <2>. QED
    BY <2>1, <2>2
<1>. QED
  BY <1>1, <1>2 DEF About, Untouched

(* The lock is left without anything done.                                 *)
LEMMA QuickLeaveKeeps ==
  ASSUME McpInv, NEW t \in Tasks, NEW place \in {"connect", "disconnect"}, Holds(t, place),
         NEW c \in Links, callers[t].of = c,
         NEW link \in LinkStates, link.client = links[c].client, link.status # "absent",
         link.client # 0 => link.status = links[c].status,
         Leaves(t, c, link),
         NEW call \in CallStates, Proceeds(t, call), UNCHANGED <<pool, processes>>,
         call.at = "idle" \/ (call.at = "call" /\ call.of = c),
         registry' \in {registry, c},
         abandoned \subseteq abandoned', abandoned' \subseteq Servers
  PROVE  McpInv'
<1>1. c \in Links /\ links[c].lock = t /\ 0 \notin Links /\ callers[t].at = place
  BY HolderIs DEF Locking
<1>2. PICK u \in Heirs(c, t) : Changes(c, [link EXCEPT !.lock = u])
  BY DEF Leaves
<1>. DEFINE given == [link EXCEPT !.lock = u]
<1>3. /\ given \in LinkStates /\ given.status = link.status /\ given.client = link.client
      /\ given.lock = u
  BY <1>1, GivenIs
<1>. HIDE DEF given
<1>4. About(t, c) /\ links' \in [Links -> LinkStates] /\ links'[c] = given /\ callers'[t] = call
  <2>1. Changes(c, given)
    BY <1>2 DEF given
  <2>. QED
    BY <1>1, <1>3, <2>1, HolderMoves
<1>5. \A k \in Servers : processes'[k].of = c => ProcessInv(k)'
  <2>1. links'[c].client = links[c].client
    BY <1>3, <1>4
  <2>. QED
    BY <1>1, <1>4, <2>1, ProcessesStay
<1>6. LinkInv(c)
  BY <1>1 DEF McpInv
<1>7. /\ links'[c].client # 0 => processes'[links'[c].client].of = c
      /\ IsConnected(c)' => links'[c].status = "connected"
  <2>1. links'[c].client = links[c].client /\ processes' = processes
    BY <1>3, <1>4
  <2>2. links[c].client # 0 => links'[c].status = links[c].status
    BY <1>3, <1>4
  <2>. QED
    BY <1>6, <2>1, <2>2 DEF LinkInv, IsConnected
<1>8. processes' \in [Servers -> ProcessStates]
  BY DEF McpInv, McpTypeOK
<1>9. callers'[t].at = "idle" \/ (callers'[t].of # 0 /\ links'[callers'[t].of].status # "absent")
  BY <1>1, <1>3, <1>4
<1>. QED
  BY <1>1, <1>3, <1>4, <1>5, <1>7, <1>8, <1>9, LeaveKeeps

(* A connection is left with nothing of it that has to be attended.        *)
LEMMA EndedLeaveKeeps ==
  ASSUME McpInv, NEW t \in Tasks, NEW place \in Locking, Holds(t, place),
         NEW c \in Links, callers[t].of = c,
         NEW link \in LinkStates, link.status # "absent",
         link.client \in {0, links[c].client},
         Leaves(t, c, link), Proceeds(t, NoCall), UNCHANGED <<pool, registry>>,
         abandoned \subseteq abandoned', abandoned' \subseteq Servers,
         processes' \in [Servers -> ProcessStates],
         \A k \in Servers : processes'[k].of = processes[k].of,
         \A k \in Servers : processes[k].of # c => processes'[k] = processes[k],
         link.client # 0 /\ processes'[link.client].state = "up" => link.status = "connected",
         Ended(c)'
  PROVE  McpInv'
<1>1. c \in Links /\ links[c].lock = t /\ 0 \notin Links /\ c # 0
  BY HolderIs
<1>2. PICK u \in Heirs(c, t) : Changes(c, [link EXCEPT !.lock = u])
  BY DEF Leaves
<1>. DEFINE given == [link EXCEPT !.lock = u]
<1>3. /\ given \in LinkStates /\ given.status = link.status /\ given.client = link.client
      /\ given.lock = u
  BY <1>1, GivenIs
<1>. HIDE DEF given
<1>4. About(t, c) /\ links' \in [Links -> LinkStates] /\ links'[c] = given /\ callers'[t] = NoCall
  <2>1. Changes(c, given)
    BY <1>2 DEF given
  <2>. QED
    BY <1>1, <1>3, <2>1, NoCallIs, HolderMoves
<1>5. \A k \in Servers : processes'[k].of = c => ProcessInv(k)'
  <2>1. \A k \in Servers : processes'[k].of = c =>
           processes'[k].state # "none" /\ (processes'[k].state = "lost" => k \in abandoned') /\ ~Live(k)'
    BY DEF Ended
  <2>. QED
    BY <1>1, <2>1 DEF ProcessInv
<1>6. /\ links[c].client # 0 => processes[links[c].client].of = c
      /\ links[c].client # 0 => links[c].client \in Servers
  BY <1>1, McpConstants, InPool, LinkIs DEF McpInv, LinkInv, Servers
<1>7. /\ links'[c].client # 0 => processes'[links'[c].client].of = c
      /\ IsConnected(c)' => links'[c].status = "connected"
  BY <1>3, <1>4, <1>6 DEF IsConnected
<1>8. callers'[t].at = "idle"
  BY <1>4, NoCallIs
<1>. QED
  BY <1>1, <1>3, <1>4, <1>5, <1>7, <1>8, LeaveKeeps

-----------------------------------------------------------------------------
(* A task that connects or disconnects may leave without a step of its own. *)
LEMMA ConnectedIs ==
  ASSUME McpInv, NEW t \in Tasks, NEW c \in Links, callers[t].of = c,
         NEW client \in 0 .. MaxProcesses, Connected(t, client)
  PROVE  \E call \in CallStates :
           /\ Proceeds(t, call)
           /\ call.at = "idle" \/ (call.at = "call" /\ call.of = c)
           /\ registry' \in {registry, c}
<1>0. callers[t] \in CallStates
  BY DEF McpInv, McpTypeOK
<1>1. CASE callers[t].op = "call"
  <2>. DEFINE call == [callers[t] EXCEPT !.at = "call", !.client = client, !.first = FALSE]
  <2>1. call \in CallStates /\ call.at = "call" /\ call.of = c
    BY <1>0 DEF CallStates
  <2>2. Proceeds(t, call) /\ UNCHANGED registry
    BY <1>1 DEF Connected
  <2>. QED
    BY <2>1, <2>2
<1>2. CASE callers[t].op # "call"
  BY <1>2, NoCallIs DEF Connected
<1>. QED
  BY <1>1, <1>2

LEMMA LeavesKeep ==
  ASSUME McpInv, NEW t \in Tasks, Reuse(t) \/ KeepServer(t)
  PROVE  McpInv'
<1>. DEFINE c == callers[t].of
<1>1. CASE Reuse(t)
  <2>1. /\ c \in Links /\ links[c] \in LinkStates /\ links[c].status # "absent"
        /\ abandoned \subseteq Servers
    BY <1>1, HolderIs DEF Reuse, Locking
  <2>2. links[c].client \in 0 .. MaxProcesses
    BY <2>1, LinkIs
  <2>3. PICK call \in CallStates :
           /\ Proceeds(t, call)
           /\ call.at = "idle" \/ (call.at = "call" /\ call.of = c)
           /\ registry' \in {registry, c}
    BY <1>1, <2>1, <2>2, ConnectedIs DEF Reuse
  <2>4. Holds(t, "connect") /\ Leaves(t, c, links[c]) /\ UNCHANGED <<pool, processes, abandoned>>
    BY <1>1 DEF Reuse
  <2>. QED
    BY <2>1, <2>3, <2>4, QuickLeaveKeeps
<1>2. CASE KeepServer(t)
  <2>1. /\ c \in Links /\ links[c] \in LinkStates /\ links[c].status # "absent"
        /\ abandoned \subseteq Servers
    BY <1>2, HolderIs DEF KeepServer, Locking
  <2>2. /\ Holds(t, "disconnect") /\ Leaves(t, c, links[c]) /\ Proceeds(t, NoCall)
        /\ UNCHANGED <<pool, processes, registry, abandoned>>
    BY <1>2 DEF KeepServer, rest, servers
  <2>. QED
    BY <2>1, <2>2, NoCallIs, QuickLeaveKeeps
<1>. QED
  BY <1>1, <1>2

(* A connection that is not reused has no process to attend to but one     *)
(* whose output has ended.                                                 *)
LEMMA NotReused ==
  ASSUME McpInv, NEW t \in Tasks, Holds(t, "connect"), NEW c \in Links, callers[t].of = c, ~Reused(c),
         NEW k \in Servers, processes[k].of = c, Live(k)
  PROVE  links[c].client = k /\ processes[k].state = "deaf"
<1>1. links[c].lock = t /\ callers[t].at = "connect"
  BY DEF Holds
<1>2. links[c].client = k
  BY <1>1, OthersEnded
<1>3. processes[k].state # "up"
  <2>1. k # 0
    BY McpConstants DEF Servers
  <2>. QED
    BY <1>2, <2>1 DEF Reused, IsConnected, McpInv, LinkInv
<1>4. processes[k].state # "closing"
  BY <1>1 DEF McpInv, ProcessInv, Ending
<1>5. processes[k].state # "lost"
  BY DEF McpInv, ProcessInv, Live
<1>. QED
  BY <1>2, <1>3, <1>4, <1>5 DEF Live, Alive

LEMMA StartKeeps ==
  ASSUME McpInv, NEW t \in Tasks, StartProcess(t)
  PROVE  McpInv'
<1>a. Holds(t, "connect") /\ ~Reused(callers[t].of) /\ UNCHANGED <<pool, registry>>
  BY DEF StartProcess
<1>b. PICK c \in Links, old \in 0 .. MaxProcesses :
        callers[t].of = c /\ links[c].client = old /\ links[c].lock = t /\ links[c] \in LinkStates
  BY <1>a, HolderIs, LinkIs DEF Locking
<1>0. Holds(t, "connect") /\ ~Reused(c)
  BY <1>a, <1>b
<1>1. /\ callers[t] \in CallStates
      /\ callers[t].at = "connect" /\ 0 \notin Links /\ abandoned \subseteq Servers /\ 0 \notin Servers
      /\ processes \in [Servers -> ProcessStates]
      /\ c \in 0 .. MaxConnections /\ Servers \subseteq 0 .. MaxProcesses
  BY <1>0, HolderIs, McpConstants DEF Locking, Servers, Links, McpInv, McpTypeOK
<1>2. PICK k \in Servers :
        /\ processes[k] = NoProcess
        /\ processes' = [processes EXCEPT ![k] = [state |-> "up", of |-> c]]
        /\ Proceeds(t, [callers[t] EXCEPT !.at = "handshake", !.client = k, !.first = FALSE])
  BY <1>b DEF StartProcess
<1>. DEFINE link == [links[c] EXCEPT !.status = "starting"]
            call == [callers[t] EXCEPT !.at = "handshake", !.client = k, !.first = FALSE]
<1>3. /\ link \in LinkStates /\ link.status = "starting" /\ link.client = old /\ link.lock = t
  BY <1>b DEF LinkStates, Statuses
<1>4. /\ call \in CallStates /\ call.at = "handshake" /\ call.client = k /\ call.of = c
  <2>1. k \in 0 .. MaxProcesses
    BY <1>1
  <2>. QED
    BY <1>1, <1>b, <2>1 DEF CallStates, Locking
<1>5. Changes(c, link) /\ Proceeds(t, call)
  BY <1>b, <1>2 DEF StartProcess, link, call
<1>. HIDE DEF link, call
<1>6. /\ processes[k].of = 0 /\ processes[k].state = "none"
      /\ processes'[k].of = c /\ processes'[k].state = "up"
      /\ \A j \in Servers \ {k} : processes'[j] = processes[j]
  BY <1>1, <1>2 DEF NoProcess
<1>7. processes' \in [Servers -> ProcessStates]
  <2>1. [state |-> "up", of |-> c] \in ProcessStates
    BY <1>1 DEF ProcessStates, Alive
  <2>. QED
    BY <1>1, <1>2, <2>1
<1>8. /\ abandoned \subseteq abandoned' /\ abandoned' \subseteq Servers
      /\ \A j \in Servers : j = old /\ processes[j].state = "deaf" => j \in abandoned'
  BY <1>1, <1>b DEF StartProcess
<1>9. /\ About(t, c) /\ links' \in [Links -> LinkStates] /\ links'[c] = link /\ callers'[t] = call
  BY <1>1, <1>b, <1>3, <1>4, <1>5, <1>6, <1>8, HolderMoves
<1>10. old # 0 => old \in Servers /\ processes[old].of = c
  BY <1>b, McpConstants DEF McpInv, LinkInv, Servers
<1>11. ASSUME NEW j \in Servers \ {k}, processes'[j].of = c PROVE ~Live(j)'
  <2>1. processes'[j] = processes[j] /\ processes[j].of = c
    BY <1>6, <1>11
  <2>2. Live(j)' => Live(j)
    BY <1>8, <2>1 DEF Live
  <2>3. Live(j) => j = old /\ processes[j].state = "deaf"
    BY <1>0, <1>b, <2>1, NotReused
  <2>. QED
    BY <1>8, <2>2, <2>3 DEF Live
<1>12. ASSUME NEW j \in Servers, processes'[j].of = c PROVE ProcessInv(j)'
  <2>1. CASE j = k
    <3>1. Starts(t, k)'
      BY <1>4, <1>6, <1>9 DEF Starts
    <3>. QED
      BY <1>1, <1>6, <2>1, <3>1 DEF ProcessInv
  <2>2. CASE j # k
    <3>1. processes'[j] = processes[j] /\ processes[j].of = c /\ ~Live(j)'
      BY <1>6, <1>11, <1>12, <2>2
    <3>2. processes[j].state # "none" /\ (processes[j].state = "lost" => j \in abandoned')
      BY <1>1, <1>8, <3>1 DEF McpInv, ProcessInv
    <3>. QED
      BY <1>1, <3>1, <3>2 DEF ProcessInv
  <2>. QED
    BY <2>1, <2>2
<1>13. LinkInv(c)'
  <2>1. old # 0 => processes'[old] = processes[old] /\ processes[old].state # "up"
    <3>1. old # 0 => old # k
      BY <1>1, <1>6, <1>10
    <3>2. old # 0 => processes[old].state # "up"
      BY <1>0, <1>b DEF Reused, IsConnected, McpInv, LinkInv
    <3>. QED
      BY <1>6, <1>10, <3>1, <3>2
  <2>. QED
    BY <1>3, <1>4, <1>9, <1>10, <2>1 DEF LinkInv, IsConnected, Locking
<1>14. TaskInv(t)'
  <2>1. k # 0 /\ k # old /\ c # 0
    BY <1>1, <1>6, <1>10
  <2>2. old # 0 => ~Live(old)'
    BY <1>6, <1>10, <1>11, <2>1
  <2>. QED
    BY <1>3, <1>4, <1>6, <1>9, <2>1, <2>2 DEF TaskInv, Ending
<1>15. links'[c].status # "absent"
  BY <1>3, <1>9
<1>. QED
  BY <1>a, <1>7, <1>8, <1>9, <1>12, <1>13, <1>14, <1>15, MoveKeeps

-----------------------------------------------------------------------------
(* While a task waits for the process it started, no other one of the      *)
(* connection has to be attended.                                          *)
LEMMA StarterIs ==
  ASSUME McpInv, NEW t \in Tasks, Holds(t, "handshake"), NEW c \in Links, callers[t].of = c
  PROVE  /\ links[c].lock = t /\ callers[t].at = "handshake"
         /\ callers[t].client \in Servers /\ processes[callers[t].client].of = c
         /\ links[c].client # callers[t].client
         /\ \A k \in Servers \ {callers[t].client} : processes[k].of = c => ~Live(k)
<1>1. /\ links[c].lock = t /\ callers[t].at = "handshake"
      /\ callers[t].client # 0 /\ processes[callers[t].client].of = c
      /\ links[c].client # callers[t].client
      /\ links[c].client # 0 => ~Live(links[c].client)
  BY DEF Holds, McpInv, TaskInv
<1>2. callers[t].client \in Servers
  BY <1>1, McpConstants, CallIs DEF McpInv, McpTypeOK, Servers
<1>3. ASSUME NEW k \in Servers \ {callers[t].client}, processes[k].of = c, Live(k) PROVE FALSE
  <2>1. links[c].client # k
    BY <1>1, <1>3, McpConstants DEF Servers
  <2>2. PICK u \in Tasks : Starts(u, k)
    BY <1>3, <2>1 DEF McpInv, ProcessInv
  <2>3. links[c].lock = u
    BY <1>3, <2>2 DEF Starts, McpInv, TaskInv
  <2>. QED
    BY <1>1, <2>2, <2>3 DEF Starts
<1>. QED
  BY <1>1, <1>2, <1>3

LEMMA HandshakeKeeps ==
  ASSUME McpInv, NEW t \in Tasks, Handshake(t)
  PROVE  McpInv'
<1>1. PICK c \in Links, k \in Servers :
        /\ callers[t].of = c /\ callers[t].client = k /\ links[c].lock = t /\ links[c] \in LinkStates
        /\ processes[k].of = c /\ c # 0 /\ abandoned \subseteq Servers
        /\ \A j \in Servers \ {k} : processes[j].of = c => ~Live(j)
  BY HolderIs, StarterIs DEF Handshake, Locking
<1>2. /\ processes[k].state = "up" /\ UNCHANGED <<pool, processes, abandoned>>
      /\ Leaves(t, c, [links[c] EXCEPT !.client = k, !.status = "connected"])
      /\ Connected(t, k)
  BY <1>1 DEF Handshake
<1>3. PICK u \in Heirs(c, t) :
        Changes(c, [links[c] EXCEPT !.client = k, !.status = "connected", !.lock = u])
  BY <1>2 DEF Leaves
<1>. DEFINE link == [links[c] EXCEPT !.client = k, !.status = "connected", !.lock = u]
<1>4. k \in 0 .. MaxProcesses /\ k # 0
  BY McpConstants DEF Servers
<1>5. link \in LinkStates /\ link.client = k /\ link.status = "connected" /\ link.lock = u
  <2>1. u \in Tasks \cup {"nobody"}
    BY HeirIs
  <2>. QED
    BY <1>1, <1>4, <2>1 DEF LinkStates, Statuses
<1>. HIDE DEF link
<1>6. PICK call \in CallStates :
        /\ Proceeds(t, call)
        /\ call.at = "idle" \/ (call.at = "call" /\ call.of = c)
        /\ registry' \in {registry, c}
  BY <1>1, <1>2, <1>4, ConnectedIs
<1>7. /\ About(t, c) /\ links' \in [Links -> LinkStates] /\ links'[c] = link /\ callers'[t] = call
  <2>1. Changes(c, link)
    BY <1>3 DEF link
  <2>. QED
    BY <1>1, <1>2, <1>5, <1>6, <2>1, HolderMoves
<1>8. ASSUME NEW j \in Servers, processes'[j].of = c PROVE ProcessInv(j)'
  <2>1. processes[j].state # "none" /\ (processes[j].state = "lost" => j \in abandoned)
        /\ (j # k => ~Live(j)) /\ (Live(j)' <=> Live(j))
    BY <1>1, <1>2, <1>8 DEF McpInv, ProcessInv, Live
  <2>. QED
    BY <1>1, <1>2, <1>5, <1>7, <1>8, <2>1 DEF ProcessInv
<1>9. /\ links'[c].client # 0 => processes'[links'[c].client].of = c
      /\ IsConnected(c)' => links'[c].status = "connected"
      /\ processes' \in [Servers -> ProcessStates]
      /\ callers'[t].at = "idle" \/ (callers'[t].of # 0 /\ links'[callers'[t].of].status # "absent")
  BY <1>1, <1>2, <1>5, <1>6, <1>7 DEF McpInv, McpTypeOK
<1>. QED
  BY <1>1, <1>2, <1>5, <1>6, <1>7, <1>8, <1>9, LeaveKeeps

(* A process is asked to end, by the task that has the lock.               *)
LEMMA ClosingKeeps ==
  ASSUME McpInv, NEW t \in Tasks, NEW c \in Links, NEW old \in Servers,
         links[c].client = old, links[c].lock = t, callers[t].of = c, Closing(old),
         NEW link \in LinkStates, Changes(c, link), link.client = old, link.lock = t,
         link.status # "absent",
         NEW call \in CallStates, Interrupts(t, old, call),
         call.of = c, call.at \in {"drop", "stop"}, call.at = "drop" => call.client = old,
         abandoned \subseteq abandoned', abandoned' \subseteq Servers, UNCHANGED <<pool, registry>>,
         \A k \in Servers \ {old} : processes[k].of = c /\ Live(k) => k \in abandoned'
  PROVE  McpInv'
<1>. DEFINE ends == IF processes[old].state \in {"up", "deaf"} THEN "closing" ELSE processes[old].state
<1>0. /\ processes \in [Servers -> ProcessStates] /\ old # 0 /\ c # 0
  BY McpConstants DEF McpInv, McpTypeOK, Servers, Links
<1>1. processes[old].of = c /\ processes[old].state # "none"
  BY <1>0 DEF McpInv, LinkInv, ProcessInv
<1>2. processes' = [processes EXCEPT ![old].state = ends]
  BY DEF Closing
<1>3. ends \in {"closing", "lost", "down"} /\ (ends = "lost" => processes[old].state = "lost")
  BY <1>0, <1>1 DEF ProcessStates, Alive
<1>. HIDE DEF ends
<1>4. /\ processes' \in [Servers -> ProcessStates]
      /\ processes'[old].of = c /\ processes'[old].state = ends
      /\ \A k \in Servers \ {old} : processes'[k] = processes[k]
  BY <1>0, <1>1, <1>2, <1>3 DEF ProcessStates, Alive
<1>5. /\ About(t, c) /\ links' \in [Links -> LinkStates] /\ links'[c] = link /\ callers'[t] = call
  <2>1. \A k \in Servers :
          /\ processes[k].of \notin {0, c} => processes'[k] = processes[k]
          /\ processes[k].of = 0 => processes'[k] = processes[k]
          /\ processes[k].of = c => processes'[k].of = c
    BY <1>0, <1>1, <1>4
  <2>. QED
    BY <2>1, HolderMoves
<1>6. Ending(t)'
  BY <1>5 DEF Ending
<1>7. ASSUME NEW k \in Servers, processes'[k].of = c PROVE ProcessInv(k)'
  <2>1. CASE k = old
    <3>1. ends = "lost" => old \in abandoned'
      BY <1>3 DEF McpInv, ProcessInv
    <3>. QED
      BY <1>0, <1>3, <1>4, <1>5, <1>6, <2>1, <3>1 DEF ProcessInv
  <2>2. CASE k # old
    <3>1. processes'[k] = processes[k] /\ processes[k].of = c
      BY <1>4, <1>7, <2>2
    <3>2. ~Live(k)' /\ processes[k].state # "none" /\ (processes[k].state = "lost" => k \in abandoned')
      BY <1>0, <2>2, <3>1 DEF Live, McpInv, ProcessInv
    <3>. QED
      BY <1>0, <3>1, <3>2 DEF ProcessInv
  <2>. QED
    BY <2>1, <2>2
<1>8. TaskInv(t)'
  BY <1>0, <1>3, <1>4, <1>5 DEF TaskInv, Ending
<1>9. LinkInv(c)'
  BY <1>0, <1>3, <1>4, <1>5 DEF LinkInv, IsConnected, Locking
<1>10. links'[c].status # "absent"
  BY <1>5
<1>. QED
  BY <1>4, <1>5, <1>7, <1>8, <1>9, <1>10, MoveKeeps

LEMMA FailKeeps ==
  ASSUME McpInv, NEW t \in Tasks, ConnectFails(t)
  PROVE  McpInv'
<1>1. Holds(t, "handshake") \/ (Holds(t, "connect") /\ ~Reused(callers[t].of))
  BY DEF ConnectFails
<1>2. PICK c \in Links, old \in 0 .. MaxProcesses :
        callers[t].of = c /\ links[c].client = old /\ links[c].lock = t /\ links[c] \in LinkStates
  BY <1>1, HolderIs, LinkIs DEF Locking
<1>3. /\ abandoned' = abandoned \cup ({callers[t].client} \cap Servers) /\ abandoned \subseteq Servers
      /\ UNCHANGED <<pool, registry>>
  BY InPool DEF ConnectFails
(* What has to be attended afterwards is what had lost its output.         *)
<1>4. ASSUME NEW k \in Servers, processes[k].of = c, Live(k)
      PROVE  k \in abandoned' \/ (k = old /\ Holds(t, "connect"))
  <2>1. CASE Holds(t, "handshake")
    BY <1>2, <1>3, <1>4, <2>1, StarterIs
  <2>2. CASE Holds(t, "connect") /\ ~Reused(c)
    BY <1>2, <1>4, <2>2, NotReused
  <2>. QED
    BY <1>1, <1>2, <2>1, <2>2
<1>. DEFINE link == [links[c] EXCEPT !.status = "error"]
<1>5. link \in LinkStates /\ link.status = "error" /\ link.client = old /\ link.lock = t
  BY <1>2 DEF LinkStates, Statuses
<1>6. CASE old = 0
  <2>1. UNCHANGED processes /\ Proceeds(t, NoCall) /\ Leaves(t, c, link)
    BY <1>2, <1>6 DEF ConnectFails
  <2>. HIDE DEF link
  <2>2. Ended(c)'
    <3>1. ASSUME NEW k \in Servers, processes'[k].of = c
          PROVE  processes'[k].state # "none" /\ (processes'[k].state = "lost" => k \in abandoned') /\ ~Live(k)'
      <4>1. processes'[k] = processes[k] /\ k # 0 /\ c # 0
        BY <2>1, McpConstants DEF Servers, Links
      <4>. QED
        BY <1>3, <1>4, <1>6, <3>1, <4>1 DEF Live, McpInv, ProcessInv
    <3>. QED
      BY <3>1 DEF Ended
  <2>3. processes' \in [Servers -> ProcessStates]
    BY <2>1 DEF McpInv, McpTypeOK
  <2>4. abandoned' \subseteq Servers /\ abandoned \subseteq abandoned'
    BY <1>3
  <2>5. \E place \in Locking : Holds(t, place)
    BY <1>1 DEF Locking
  <2>. QED
    BY <1>2, <1>3, <1>5, <1>6, <2>1, <2>2, <2>3, <2>4, <2>5, EndedLeaveKeeps
<1>7. CASE old # 0
  <2>. DEFINE call == [callers[t] EXCEPT !.at = "drop", !.client = old, !.first = FALSE]
  <2>1. /\ callers' = [Interrupted(old) EXCEPT ![t].at = "drop", ![t].client = old, ![t].first = FALSE]
        /\ Closing(old) /\ Changes(c, link)
    BY <1>2, <1>7 DEF ConnectFails
  <2>2. callers[t] \in CallStates /\ callers[t].at # "call" /\ callers \in [Tasks -> CallStates]
    BY <1>1 DEF Holds, McpInv, McpTypeOK
  <2>3. call \in CallStates /\ call.at = "drop" /\ call.client = old /\ call.of = c
    BY <1>2, <2>2 DEF CallStates, Locking
  <2>4. Interrupts(t, old, call)
    BY <2>1, <2>2 DEF Interrupts, Interrupted
  <2>. HIDE DEF call, link
  <2>5. old \in Servers
    BY <1>7, McpConstants DEF Servers
  <2>. QED
    BY <1>2, <1>3, <1>4, <1>5, <2>1, <2>3, <2>4, <2>5, ClosingKeeps
<1>. QED
  BY <1>6, <1>7

LEMMA StopKeeps ==
  ASSUME McpInv, NEW t \in Tasks, StopServer(t)
  PROVE  McpInv'
<1>1. PICK c \in Links, old \in 0 .. MaxProcesses :
        /\ callers[t].of = c /\ links[c].client = old /\ links[c].lock = t /\ links[c] \in LinkStates
        /\ callers[t].at = "disconnect" /\ callers[t] \in CallStates /\ abandoned \subseteq Servers
  BY HolderIs, LinkIs DEF StopServer, Locking
<1>. DEFINE link == [links[c] EXCEPT !.status = "disconnecting"]
            call == [callers[t] EXCEPT !.at = "stop", !.first = FALSE]
<1>2. /\ old # 0 /\ Changes(c, link) /\ Closing(old) /\ UNCHANGED <<pool, registry, abandoned>>
      /\ callers' = [Interrupted(old) EXCEPT ![t].at = "stop", ![t].first = FALSE]
  BY <1>1 DEF StopServer
<1>3. link \in LinkStates /\ link.status = "disconnecting" /\ link.client = old /\ link.lock = t
  BY <1>1 DEF LinkStates, Statuses
<1>4. call \in CallStates /\ call.at = "stop" /\ call.of = c
  BY <1>1 DEF CallStates, Locking
<1>5. Interrupts(t, old, call)
  <2>1. callers \in [Tasks -> CallStates]
    BY DEF McpInv, McpTypeOK
  <2>. QED
    BY <1>1, <1>2, <2>1 DEF Interrupts, Interrupted
<1>6. \A k \in Servers \ {old} : processes[k].of = c /\ Live(k) => k \in abandoned'
  BY <1>1, OthersEnded
<1>7. old \in Servers
  BY <1>2, McpConstants DEF Servers
<1>. HIDE DEF call, link
<1>. QED
  BY <1>1, <1>2, <1>3, <1>4, <1>5, <1>6, <1>7, ClosingKeeps

LEMMA DropKeeps ==
  ASSUME McpInv, NEW t \in Tasks, Dropped(t)
  PROVE  McpInv'
<1>1. PICK c \in Links :
        /\ callers[t].of = c /\ links[c].lock = t /\ links[c] \in LinkStates
        /\ callers[t].at = "drop" /\ links[c].status # "absent" /\ abandoned \subseteq Servers
  BY HolderIs DEF Dropped, Locking
<1>. DEFINE link == [links[c] EXCEPT !.client = 0]
<1>2. /\ Holds(t, "drop") /\ "drop" \in Locking
      /\ Closed(links[c].client) /\ Leaves(t, c, link) /\ Proceeds(t, NoCall)
      /\ UNCHANGED <<pool, registry, abandoned>>
  BY <1>1 DEF Dropped, Locking
<1>3. link \in LinkStates /\ link.status = links[c].status /\ link.client = 0
  BY <1>1, McpConstants DEF LinkStates
<1>. HIDE DEF link
<1>4. /\ Ended(c)' /\ processes' \in [Servers -> ProcessStates]
      /\ \A k \in Servers : processes'[k].of = processes[k].of
      /\ \A k \in Servers : processes[k].of # c => processes'[k] = processes[k]
  BY <1>1, <1>2, ClosedIs
<1>. QED
  BY <1>1, <1>2, <1>3, <1>4, EndedLeaveKeeps

-----------------------------------------------------------------------------
(* The connection is disconnected, and the task leaves or goes on.         *)
LEMMA DisconnectedKeeps ==
  ASSUME McpInv, NEW t \in Tasks, NEW c \in Links, callers[t].of = c, links[c].lock = t,
         Disconnected(t), Ended(c)', processes' \in [Servers -> ProcessStates],
         \A k \in Servers : processes'[k].of = processes[k].of,
         \A k \in Servers : processes[k].of # c => processes'[k] = processes[k]
  PROVE  McpInv'
<1>1. /\ links \in [Links -> LinkStates] /\ callers \in [Tasks -> CallStates] /\ "nobody" \notin Tasks
      /\ links[c] \in LinkStates /\ c # 0 /\ abandoned \subseteq Servers /\ 0 \notin Links
      /\ links[c].status # "absent" /\ callers[t].op \in Ops \cup {"none"}
  <2>1. c # 0 /\ 0 \notin Links
    BY McpConstants DEF Links
  <2>2. callers[t].at \in Locking
    BY DEF McpInv, LinkInv
  <2>. QED
    BY <2>1, <2>2, McpConstants, CallIs DEF McpInv, McpTypeOK, TaskInv, Locking
<1>2. PICK u \in Heirs(c, t) :
        LET left == [links EXCEPT ![c] = [links[c] EXCEPT !.client = 0, !.status = "disconnected", !.lock = u]] IN
        \/ Proceeds(t, NoCall) /\ links' = left /\ UNCHANGED pool
        \/ /\ Proceeds(t, [Waiting("restart", c, "connect") EXCEPT !.first = u = "nobody"])
           /\ links' = [left EXCEPT ![c] = Joined(@, t)] /\ UNCHANGED pool
        \/ \E op \in Ops, now \in BOOLEAN : NewConnection(t, op, now, left)
  <2>1. callers[t].again \in BOOLEAN /\ "update" \in Ops /\ "add" \in Ops
    BY <1>1, CallIs DEF Ops
  <2>. QED
    BY <2>1 DEF Disconnected
<1>3. registry' \in {0, registry} /\ UNCHANGED abandoned
  BY DEF Disconnected
<1>. DEFINE given == [links[c] EXCEPT !.client = 0, !.status = "disconnected", !.lock = u]
            left == [links EXCEPT ![c] = given]
<1>4. given \in LinkStates /\ given.client = 0 /\ given.status = "disconnected" /\ given.lock = u
  <2>1. u \in Tasks \cup {"nobody"} /\ 0 \in 0 .. MaxProcesses
    BY HeirIs, McpConstants
  <2>. QED
    BY <1>1, <2>1 DEF LinkStates, Statuses
<1>. HIDE DEF given
<1>5. left \in [Links -> LinkStates] /\ left[c] = given /\ \A d \in Links \ {c} : left[d] = links[d]
  BY <1>1, <1>4
<1>6. \A k \in Servers : processes'[k].of = c => ProcessInv(k)'
  BY EndedIs
<1>7. ASSUME NEW call \in CallStates, Proceeds(t, call),
             call.at = "idle" \/ (call.at = "connect" /\ call.of # 0 /\ links'[call.of].status # "absent"),
             links' \in [Links -> LinkStates], links'[c].client = 0, links'[c].status = "disconnected",
             links'[c].lock = u \/ (links'[c].lock = t /\ call.of = c /\ call.at = "connect"),
             \A d \in Links \ {c} : Untouched(d, t),
             pool' \in {pool} \cup {d \in Links : links'[d].status # "absent"}
      PROVE  McpInv'
  <2>1. /\ callers' \in [Tasks -> CallStates] /\ callers'[t] = call
        /\ \A v \in Tasks \ {t} : callers'[v] = callers[v]
    BY <1>1, <1>7 DEF Proceeds
  <2>2. About(t, c)
    BY <1>1, <1>3, <1>7, <2>1 DEF About
  <2>3. abandoned' \subseteq Servers /\ ~IsConnected(c)'
    BY <1>1, <1>3, <1>7 DEF IsConnected
  <2>. QED
    BY <1>3, <1>6, <1>7, <2>1, <2>2, <2>3, LeaveKeeps
<1>8. CASE Proceeds(t, NoCall) /\ links' = left /\ UNCHANGED pool
  <2>1. \A d \in Links \ {c} : Untouched(d, t)
    BY <1>5, <1>8 DEF Untouched
  <2>. QED
    BY <1>4, <1>5, <1>7, <1>8, <2>1, NoCallIs
<1>9. CASE /\ Proceeds(t, [Waiting("restart", c, "connect") EXCEPT !.first = u = "nobody"])
           /\ links' = [left EXCEPT ![c] = Joined(@, t)] /\ UNCHANGED pool
  <2>. DEFINE waits == Waiting("restart", c, "connect")  first == u = "nobody"
              call == [waits EXCEPT !.first = first]
  <2>1. waits \in CallStates /\ waits.at = "connect" /\ waits.of = c /\ first \in BOOLEAN
    BY WaitingIs DEF Ops
  <2>. HIDE DEF waits, first
  <2>2. call \in CallStates /\ call.at = "connect" /\ call.of = c
    BY <2>1 DEF CallStates
  <2>3. Proceeds(t, call)
    BY <1>9 DEF waits, first
  <2>. HIDE DEF call
  <2>4. /\ Joined(given, t) \in LinkStates /\ Joined(given, t).client = 0
        /\ Joined(given, t).status = "disconnected"
        /\ Joined(given, t).lock \in {u, t}
    BY <1>4, JoinedIs
  <2>5. /\ links' \in [Links -> LinkStates] /\ links'[c] = Joined(given, t)
        /\ \A d \in Links \ {c} : links'[d] = links[d]
    BY <1>5, <1>9, <2>4
  <2>6. \A d \in Links \ {c} : Untouched(d, t)
    BY <2>5 DEF Untouched
  <2>. QED
    BY <1>1, <1>7, <1>9, <2>2, <2>3, <2>4, <2>5, <2>6
<1>10. ASSUME NEW op \in Ops, NEW now \in BOOLEAN, NewConnection(t, op, now, left) PROVE McpInv'
  <2>1. PICK d \in Spare, auto \in BOOLEAN :
          /\ pool' = d
          /\ \/ /\ Proceeds(t, Waiting(op, d, "connect"))
                /\ links' = [left EXCEPT ![d] = Joined(Created(auto), t)]
             \/ /\ Proceeds(t, NoCall)
                /\ links' = [left EXCEPT ![d] = Created(auto)]
    BY <1>10 DEF NewConnection
  <2>2. d \in Links /\ links[d].status = "absent" /\ d # c /\ d # 0
    BY <1>1 DEF Spare
  <2>. DEFINE made == Created(auto)
  <2>3. made \in LinkStates /\ made.status = "configured" /\ made.client = 0 /\ made.lock = "nobody"
    BY CreatedIs
  <2>. HIDE DEF made
  <2>4. /\ Joined(made, t) \in LinkStates /\ Joined(made, t).status = "configured"
        /\ Joined(made, t).client = 0 /\ Joined(made, t).lock = t
    BY <2>3, JoinedIs
  <2>5. ASSUME NEW link \in {made, Joined(made, t)}, links' = [left EXCEPT ![d] = link]
        PROVE  /\ links' \in [Links -> LinkStates] /\ links'[d] = link /\ links'[c] = given
               /\ \A e \in Links \ {c, d} : links'[e] = links[e]
    BY <1>5, <2>2, <2>3, <2>4, <2>5
  <2>6. CASE Proceeds(t, Waiting(op, d, "connect")) /\ links' = [left EXCEPT ![d] = Joined(made, t)]
    <3>. DEFINE call == Waiting(op, d, "connect")
    <3>1. call \in CallStates /\ call.at = "connect" /\ call.of = d
      BY <2>2, WaitingIs
    <3>. HIDE DEF call
    <3>2. Proceeds(t, call)
      BY <2>6 DEF call
    <3>3. callers'[t] = call
      BY <1>1, <3>2 DEF Proceeds
    <3>4. \A e \in Links \ {c} : Untouched(e, t)
      BY <2>2, <2>4, <2>5, <2>6, <3>1, <3>3 DEF Untouched
    <3>. QED
      BY <1>4, <1>7, <2>1, <2>2, <2>4, <2>5, <2>6, <3>1, <3>2, <3>4
  <2>7. CASE Proceeds(t, NoCall) /\ links' = [left EXCEPT ![d] = made]
    <3>1. \A e \in Links \ {c} : Untouched(e, t)
      BY <2>2, <2>3, <2>5, <2>7 DEF Untouched
    <3>. QED
      BY <1>4, <1>7, <2>1, <2>2, <2>3, <2>5, <2>7, <3>1, NoCallIs
  <2>. QED
    BY <2>1, <2>6, <2>7 DEF made
<1>. QED
  BY <1>2, <1>8, <1>9, <1>10 DEF given

LEMMA StoppedKeeps ==
  ASSUME McpInv, NEW t \in Tasks, NothingToStop(t) \/ Stopped(t)
  PROVE  McpInv'
<1>1. \E place \in {"disconnect", "stop"} : Holds(t, place)
  BY DEF NothingToStop, Stopped
<1>2. PICK c \in Links : callers[t].of = c /\ links[c].lock = t
  BY <1>1, HolderIs DEF Locking
<1>3. /\ Disconnected(t) /\ UNCHANGED abandoned
      /\ \/ callers[t].at \in {"drop", "stop"} /\ Closed(links[c].client)
         \/ callers[t].at = "disconnect" /\ links[c].client = 0 /\ UNCHANGED processes
  BY <1>2 DEF NothingToStop, Stopped, Disconnected, Holds
<1>4. /\ Ended(c)' /\ processes' \in [Servers -> ProcessStates]
      /\ \A k \in Servers : processes'[k].of = processes[k].of
      /\ \A k \in Servers : processes[k].of # c => processes'[k] = processes[k]
  BY <1>2, <1>3, ClosedIs
<1>. QED
  BY <1>2, <1>3, <1>4, DisconnectedKeeps

LEMMA CancelKeeps ==
  ASSUME McpInv, NEW t \in Tasks, CancelRun(t)
  PROVE  McpInv'
<1>1. PICK c \in Links :
        /\ callers[t].of = c /\ links[c] \in LinkStates /\ links[c].status # "absent"
        /\ callers[t].at \in {"connect", "handshake", "drop"} /\ abandoned \subseteq Servers
        /\ callers[t].client \in 0 .. MaxProcesses /\ c # 0
  <2>1. callers[t].at \in {"connect", "handshake", "drop"}
    BY DEF CancelRun
  <2>2. callers[t].of # 0 /\ links[callers[t].of].status # "absent"
        /\ callers[t].of \in 0 .. MaxConnections /\ callers[t].client \in 0 .. MaxProcesses
    BY <2>1, CallIs DEF McpInv, TaskInv, McpTypeOK
  <2>3. callers[t].of \in Links
    BY <2>2, McpConstants DEF Links
  <2>. QED
    BY <2>1, <2>2, <2>3, InPool
<1>2. /\ Proceeds(t, NoCall) /\ UNCHANGED <<pool, registry>>
      /\ abandoned' = abandoned \cup ({callers[t].client} \cap Servers)
      /\ IF links[c].lock = t THEN Leaves(t, c, links[c]) ELSE UNCHANGED links
      /\ IF callers[t].at = "drop"
         THEN processes' = [processes EXCEPT ![callers[t].client].state = IF @ = "closing" THEN "lost" ELSE @]
         ELSE UNCHANGED processes
  BY <1>1 DEF CancelRun
<1>3. abandoned \subseteq abandoned' /\ abandoned' \subseteq Servers
  BY <1>1, <1>2
<1>4. processes \in [Servers -> ProcessStates] /\ LinkInv(c)
  BY DEF McpInv, McpTypeOK
<1>5. CASE links[c].lock # t
  <2>1. callers[t].at = "connect"
    BY <1>1, <1>5 DEF McpInv, TaskInv, Ending
  <2>2. Changes(c, links[c]) /\ UNCHANGED processes
    BY <1>2, <1>5, <2>1 DEF Changes, McpInv, McpTypeOK
  <2>. QED
    BY <1>1, <1>2, <1>3, <1>5, <2>2, NoCallIs, AskKeeps
<1>6. CASE links[c].lock = t /\ callers[t].at = "connect"
  <2>1. Holds(t, "connect") /\ UNCHANGED processes /\ Leaves(t, c, links[c])
    BY <1>1, <1>2, <1>6 DEF Holds
  <2>. QED
    BY <1>1, <1>2, <1>3, <2>1, NoCallIs, QuickLeaveKeeps
<1>7. CASE links[c].lock = t /\ callers[t].at = "handshake"
  <2>1. Holds(t, "handshake") /\ "handshake" \in Locking /\ UNCHANGED processes /\ Leaves(t, c, links[c])
    BY <1>1, <1>2, <1>7 DEF Holds, Locking
  <2>2. callers[t].client \in Servers
        /\ \A k \in Servers \ {callers[t].client} : processes[k].of = c => ~Live(k)
    BY <1>1, <2>1, StarterIs
  <2>3. ASSUME NEW k \in Servers, processes'[k].of = c
        PROVE  processes'[k].state # "none" /\ (processes'[k].state = "lost" => k \in abandoned') /\ ~Live(k)'
    <3>1. processes'[k] = processes[k] /\ processes[k].of = c
      BY <2>1, <2>3
    <3>2. processes[k].state # "none" /\ (processes[k].state = "lost" => k \in abandoned)
      BY <1>1, <3>1 DEF McpInv, ProcessInv
    <3>3. ~Live(k)'
      BY <1>2, <2>2, <3>1 DEF Live
    <3>. QED
      BY <1>3, <3>1, <3>2, <3>3
  <2>4. Ended(c)'
    BY <2>3 DEF Ended
  <2>5. links[c].client # 0 /\ processes'[links[c].client].state = "up" => links[c].status = "connected"
    BY <1>4, <2>1 DEF LinkInv, IsConnected
  <2>6. processes' \in [Servers -> ProcessStates] /\ \A k \in Servers : processes'[k] = processes[k]
    BY <1>4, <2>1
  <2>. QED
    BY <1>1, <1>2, <1>3, <2>1, <2>4, <2>5, <2>6, EndedLeaveKeeps
<1>8. CASE links[c].lock = t /\ callers[t].at = "drop"
  <2>1. PICK k \in Servers :
          /\ callers[t].client = k /\ links[c].client = k /\ processes[k].of = c
          /\ processes[k].state \in {"closing", "lost", "down"}
    <3>1. /\ links[c].client # 0 /\ callers[t].client = links[c].client
          /\ processes[links[c].client].state \in {"closing", "lost", "down"}
      BY <1>1, <1>8 DEF McpInv, TaskInv, Ending
    <3>2. callers[t].client \in Servers
      BY <1>1, <3>1, McpConstants DEF Servers
    <3>. QED
      BY <1>4, <3>1, <3>2 DEF LinkInv
  <2>. DEFINE ends == IF processes[k].state = "closing" THEN "lost" ELSE processes[k].state
  <2>2. processes' = [processes EXCEPT ![k].state = ends]
    BY <1>2, <1>8, <2>1
  <2>3. ends \in {"lost", "down"}
    BY <2>1
  <2>. HIDE DEF ends
  <2>4. /\ processes' \in [Servers -> ProcessStates]
        /\ processes'[k].of = c /\ processes'[k].state = ends
        /\ \A j \in Servers \ {k} : processes'[j] = processes[j]
    BY <1>4, <2>1, <2>2, <2>3 DEF ProcessStates, Alive
  <2>5. k \in abandoned'
    BY <1>2, <2>1
  <2>6. ASSUME NEW j \in Servers, processes'[j].of = c
        PROVE  processes'[j].state # "none" /\ (processes'[j].state = "lost" => j \in abandoned') /\ ~Live(j)'
    <3>1. CASE j = k
      BY <2>3, <2>4, <2>5, <3>1 DEF Live
    <3>2. CASE j # k
      <4>1. processes'[j] = processes[j] /\ processes[j].of = c
        BY <2>4, <2>6, <3>2
      <4>2. ~Live(j)
        BY <1>8, <2>1, <3>2, <4>1, OthersEnded
      <4>3. processes[j].state # "none" /\ (processes[j].state = "lost" => j \in abandoned)
        BY <1>1, <4>1 DEF McpInv, ProcessInv
      <4>. QED
        BY <1>3, <4>1, <4>2, <4>3 DEF Live
    <3>. QED
      BY <3>1, <3>2
  <2>7. Ended(c)'
    BY <2>6 DEF Ended
  <2>8. Holds(t, "drop") /\ "drop" \in Locking /\ Leaves(t, c, links[c])
    BY <1>1, <1>2, <1>8 DEF Holds, Locking
  <2>9. /\ \A j \in Servers : processes'[j].of = processes[j].of
        /\ \A j \in Servers : processes[j].of # c => processes'[j] = processes[j]
        /\ processes'[links[c].client].state # "up"
    BY <2>1, <2>3, <2>4
  <2>. QED
    BY <1>1, <1>2, <1>3, <2>4, <2>7, <2>8, <2>9, EndedLeaveKeeps
<1>. QED
  BY <1>1, <1>5, <1>6, <1>7, <1>8

(* A process that ends, or whose output does, is attended as before.       *)
LEMMA EndsKeep ==
  ASSUME McpInv, NEW k \in Servers, ServerEnds(k)
  PROVE  McpInv'
<1>1. PICK ends \in {"down", "deaf"} :
        /\ processes' = [processes EXCEPT ![k].state = ends]
        /\ processes[k].state \in Alive
        /\ ends = "deaf" => processes[k].state = "up"
  BY DEF ServerEnds, Alive
<1>2. processes \in [Servers -> ProcessStates] /\ UNCHANGED <<pool, links, registry, callers, abandoned>>
  BY DEF ServerEnds, McpInv, McpTypeOK
<1>3. /\ processes' \in [Servers -> ProcessStates]
      /\ processes'[k].of = processes[k].of /\ processes'[k].state = ends
      /\ \A j \in Servers \ {k} : processes'[j] = processes[j]
  BY <1>1, <1>2 DEF ProcessStates, Alive
<1>4. /\ \A j \in Servers : processes'[j].of = processes[j].of
      /\ \A j \in Servers : Live(j)' => Live(j)
      /\ \A j \in Servers : processes[j].state \in {"closing", "lost", "down"}
                              => processes'[j].state \in {"closing", "lost", "down"}
      /\ \A j \in Servers : processes'[j].state \in {"up", "closing", "lost", "none"}
                              => processes'[j].state = processes[j].state
      /\ \A j \in Servers : processes[j].state = "none" => processes'[j].state = "none"
  BY <1>1, <1>2, <1>3 DEF Live, Alive
<1>5. \A n \in 0 .. MaxProcesses : n # 0 => n \in Servers
  BY McpConstants DEF Servers
<1>6. ASSUME NEW c \in Links PROVE LinkInv(c)'
  <2>1. LinkInv(c) /\ (links[c].client # 0 => links[c].client \in Servers)
    BY <1>5, InPool, LinkIs DEF McpInv
  <2>. QED
    BY <1>2, <1>4, <2>1 DEF LinkInv, IsConnected
<1>7. ASSUME NEW t \in Tasks PROVE TaskInv(t)'
  <2>1. TaskInv(t) /\ callers[t] \in CallStates
    BY DEF McpInv, McpTypeOK
  <2>2. /\ callers[t].of # 0 => callers[t].of \in Links
        /\ callers[t].client # 0 => callers[t].client \in Servers
    BY <1>5, <2>1, CallIs, McpConstants DEF Links
  <2>3. callers[t].of # 0 /\ links[callers[t].of].client # 0 => links[callers[t].of].client \in Servers
    BY <1>5, <2>2, InPool, LinkIs
  <2>. QED
    BY <1>2, <1>4, <2>1, <2>2, <2>3 DEF TaskInv, Ending
<1>8. ASSUME NEW j \in Servers PROVE ProcessInv(j)'
  <2>1. ProcessInv(j)
    BY DEF McpInv
  <2>. QED
    BY <1>2, <1>4, <2>1 DEF ProcessInv, Starts, Ending
<1>. QED
  BY <1>2, <1>3, <1>6, <1>7, <1>8 DEF McpInv, McpTypeOK

LEMMA McpStart == McpInit => McpInv
<1>. SUFFICES ASSUME McpInit PROVE McpInv
  OBVIOUS
<1>1. PICK auto \in BOOLEAN : links = [c \in Links |-> IF c = 1 THEN Created(auto) ELSE Absent]
  BY DEF McpInit
<1>2. /\ \A c \in Links : links[c] \in LinkStates /\ links[c].client = 0 /\ links[c].lock = "nobody"
      /\ links \in [Links -> LinkStates]
      /\ 1 \in Links /\ links[1].status # "absent" /\ 1 \in 0 .. MaxConnections /\ 0 \in 0 .. MaxConnections
  BY <1>1, CreatedIs, McpConstants DEF Links
<1>3. /\ \A k \in Servers : processes[k] = NoProcess /\ processes[k].state = "none" /\ processes[k].of = 0
      /\ NoProcess \in ProcessStates
  BY <1>2 DEF McpInit, NoProcess, ProcessStates
<1>4. \A t \in Tasks : callers[t] = NoCall
  BY DEF McpInit
<1>5. McpTypeOK
  BY <1>2, <1>3, NoCallIs DEF McpInit, McpTypeOK
<1>6. ASSUME NEW c \in Links PROVE LinkInv(c)
  BY <1>2, McpConstants DEF LinkInv, IsConnected
<1>7. ASSUME NEW t \in Tasks PROVE TaskInv(t)
  BY <1>4, NoCallIs DEF TaskInv, Ending
<1>8. ASSUME NEW k \in Servers PROVE ProcessInv(k)
  BY <1>3 DEF ProcessInv, Live, Alive
<1>9. pool = 1 /\ registry = 0
  BY DEF McpInit
<1>. QED
  BY <1>2, <1>5, <1>6, <1>7, <1>8, <1>9 DEF McpInv

LEMMA McpInvariant == McpSpec => []McpInv
<1>1. ASSUME McpInv, [McpNext]_mcpVars PROVE McpInv'
  <2>1. CASE UNCHANGED mcpVars
    BY <1>1, <2>1 DEF mcpVars, McpInv, McpTypeOK, LinkInv, TaskInv, ProcessInv, IsConnected, Live,
                      Ending, Starts
  <2>2. ASSUME NEW t \in Tasks,
               \/ ConnectServer(t) \/ DisconnectServer(t) \/ RestartServer(t) \/ RemoveServer(t)
               \/ UpdateServer(t) \/ AddServer(t) \/ CallTool(t)
               \/ \E s \in Sessions : AcquireForSession(t, s) \/ ReleaseForSession(t, s)
        PROVE  McpInv'
    BY <1>1, <2>2, RequestsKeep
  <2>3. ASSUME NEW t \in Tasks, CallOver(t) PROVE McpInv'
    BY <1>1, <2>3, CallOverKeeps
  <2>4. ASSUME NEW t \in Tasks, Reuse(t) \/ KeepServer(t) PROVE McpInv'
    BY <1>1, <2>4, LeavesKeep
  <2>5. ASSUME NEW t \in Tasks, StartProcess(t) \/ Handshake(t) \/ ConnectFails(t) \/ Dropped(t)
        PROVE  McpInv'
    BY <1>1, <2>5, StartKeeps, HandshakeKeeps, FailKeeps, DropKeeps
  <2>6. ASSUME NEW t \in Tasks, StopServer(t) \/ NothingToStop(t) \/ Stopped(t) \/ CancelRun(t)
        PROVE  McpInv'
    BY <1>1, <2>6, StopKeeps, StoppedKeeps, CancelKeeps
  <2>7. CASE ImportConfig
    BY <1>1, <2>7, ImportKeeps
  <2>8. ASSUME NEW k \in Servers, ServerEnds(k) PROVE McpInv'
    BY <1>1, <2>8, EndsKeep
  <2>. QED
    BY <1>1, <2>1, <2>2, <2>3, <2>4, <2>5, <2>6, <2>7, <2>8 DEF McpNext
<1>. QED
  BY <1>1, McpStart, PTL DEF McpSpec

(* Whatever connects, restarts, updates, calls and stops at the same time, *)
(* a connection has one live process, which it or the task that starts it  *)
(* can end - except for what a failed start, a cancellation or a server    *)
(* without output leaves behind.                                           *)
THEOREM OneLiveProcess == McpSpec => []OneProcess
<1>1. ASSUME McpInv PROVE OneProcess
  <2>0. \A k \in Servers : processes[k].of = 0 <=> processes[k].state = "none"
    BY <1>1 DEF McpInv, ProcessInv
  <2>1. ASSUME NEW k \in Servers, Live(k)
        PROVE  \/ links[processes[k].of].client = k
               \/ \E t \in Tasks : Starts(t, k) /\ links[processes[k].of].lock = t
                                   /\ (links[processes[k].of].client # 0 => ~Live(links[processes[k].of].client))
    BY <1>1, <2>1 DEF McpInv, ProcessInv, TaskInv, Starts
  <2>2. ASSUME NEW j \in Servers, NEW k \in Servers, Live(j), Live(k), processes[j].of = processes[k].of
        PROVE  j = k
    <3>1. j # 0 /\ k # 0
      BY McpConstants DEF Servers
    <3>. QED
      BY <2>1, <2>2, <3>1 DEF Starts
  <2>3. ASSUME NEW k \in Servers, Live(k)
        PROVE  \/ links[processes[k].of].client = k
               \/ \E t \in Tasks : callers[t].of = processes[k].of /\ callers[t].client = k
                                   /\ Holds(t, "handshake")
    BY <2>1, <2>3 DEF Starts, Holds
  <2>. QED
    BY <2>2, <2>3 DEF OneProcess, Live
<1>. QED
  BY <1>1, McpInvariant, PTL
=============================================================================
