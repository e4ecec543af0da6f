------------------------- MODULE RunOwnershipProofs -------------------------
(***************************************************************************)
(* Proofs about RunOwnership, for any instances, runs, commands and number *)
(* of faults; where a theorem excludes a command, its statement says so.   *)
(***************************************************************************)
EXTENDS RunOwnership, FiniteSetTheorems, TLAPS

-----------------------------------------------------------------------------
(* Tasks and recovery tasks, and the moves between their places.           *)

Busy == Places \ {"idle", "inspected"}

LEMMA TaskOf ==
  ASSUME NEW pc \in Busy, NEW r \in Runs, NEW t \in Status
  PROVE  /\ [Idle EXCEPT !.pc = pc, !.run = r] \in Task
         /\ [Idle EXCEPT !.pc = "inspected", !.source = r, !.seen = t] \in Task
  BY DEF Idle, Task, Busy, Places, Owning, Status, Active, Ended

LEMMA IdleIsTask == Idle \in Task
  BY DEF Idle, Task, Places, Status

LEMMA TaskAt ==
  ASSUME NEW t \in Task, t.pc \in Busy, NEW pc \in Busy
  PROVE  [t EXCEPT !.pc = pc] \in Task
  BY DEF Task, Busy

LEMMA GotoType ==
  ASSUME exec \in [Instances -> Task], NEW p \in Instances, exec[p].pc \in Busy,
         NEW pc \in Busy, Goto(p, pc)
  PROVE  exec' \in [Instances -> Task]
<1>1. [exec[p] EXCEPT !.pc = pc] \in Task
  BY TaskAt
<1>2. exec' = [exec EXCEPT ![p] = [exec[p] EXCEPT !.pc = pc]]
  BY DEF Goto
<1> QED
  BY <1>1, <1>2

LEMMA RecoveryOf ==
  ASSUME NEW pc, pc \in {"journals", "cancel_recover", "reconcile_recover"},
         NEW r \in Runs, NEW runs \in SUBSET Runs
  PROVE  /\ Rest \in Recovery
         /\ [Rest EXCEPT !.pc = pc, !.run = r] \in Recovery
         /\ [Rest EXCEPT !.pc = pc, !.todo = runs] \in Recovery
  BY DEF Rest, Recovery, Cancelling

LEMMA RecoveryAt ==
  ASSUME NEW t \in Recovery, NEW todo \in SUBSET (Runs \cup Instances),
         NEW pc, pc \in {"startup", "cancel_list", "cancel_withdraw", "cancel_release", "reconcile_settle"}
  PROVE  /\ Rest \in Recovery
         /\ [t EXCEPT !.pc = pc] \in Recovery
         /\ [t EXCEPT !.todo = todo] \in Recovery
         /\ [t EXCEPT !.pc = pc, !.todo = todo] \in Recovery
  BY DEF Rest, Recovery, Cancelling
-----------------------------------------------------------------------------
(* Every step keeps every variable in its type.                            *)

LEMMA TypeInit == Init => TypeOK
<1>1. Rest \in Recovery
  BY DEF Rest, Recovery
<1>2. Idle \in Task
  BY IdleIsTask
<1> QED
  BY <1>1, <1>2, OwnershipConstants DEF Init, TypeOK, Status, Phases, OwnershipConstants

(* The executor's steps move its own task.                                 *)
LEMMA ExecType ==
  ASSUME TypeOK, NEW p \in Instances, Execute(p)
  PROVE  exec' \in [Instances -> Task]
<1>1. ASSUME NEW r \in Runs, CreateRun(p, r) PROVE exec' \in [Instances -> Task]
  BY <1>1, TaskOf DEF TypeOK, CreateRun, Places, Owning, At, Busy, Status
<1>2. ASSUME NEW r \in Runs, InspectSource(p, r) PROVE exec' \in [Instances -> Task]
  <2>1. "prepared" \in Busy /\ status[r] \in Status
    BY DEF TypeOK, Busy, Places, Owning
  <2>2. [Idle EXCEPT !.pc = "inspected", !.source = r, !.seen = status[r]] \in Task
    BY <2>1, TaskOf
  <2> QED
    BY <1>2, <2>2 DEF TypeOK, InspectSource
<1>3. ASSUME NEW r \in Runs, ReuseContinuation(p, r) PROVE exec' \in [Instances -> Task]
  BY <1>3, TaskOf DEF TypeOK, ReuseContinuation, Places, Owning, At, Busy
<1>4. ASSUME NEW r \in Runs, NewContinuation(p, r) PROVE exec' \in [Instances -> Task]
  <2>1. "prepared" \in Busy /\ "absent" \in Status
    BY DEF Busy, Places, Owning, Status
  <2>2. [Idle EXCEPT !.pc = "prepared", !.run = r] \in Task
    BY <2>1, TaskOf
  <2> QED
    BY <1>4, <2>2, IdleIsTask DEF TypeOK, NewContinuation
<1>5. ASSUME Abandon(p) PROVE exec' \in [Instances -> Task]
  BY <1>5, IdleIsTask DEF TypeOK, Abandon, Places, Owning, At, Busy
<1>6. ASSUME ClaimOwner(p) PROVE exec' \in [Instances -> Task]
  <2>1. CASE Claimable(exec[p].run)
    BY <1>6, <2>1, GotoType DEF TypeOK, ClaimOwner, Places, Owning, At, Busy
  <2>2. CASE ~Claimable(exec[p].run) /\ exec[p].pc = "created"
    <3>1. Goto(p, "refused")
      BY <1>6, <2>2 DEF ClaimOwner, Goto
    <3> QED
      BY <2>2, <3>1, GotoType DEF TypeOK, Places, Owning, Busy
  <2>3. CASE ~Claimable(exec[p].run) /\ exec[p].pc # "created"
    BY <1>6, <2>3, IdleIsTask DEF TypeOK, ClaimOwner
  <2> QED
    BY <2>1, <2>2, <2>3
<1>7. ASSUME MarkRunning(p) PROVE exec' \in [Instances -> Task]
  BY <1>7, GotoType DEF TypeOK, MarkRunning, Places, Owning, At, Busy
<1>8. ASSUME CheckLineage(p) PROVE exec' \in [Instances -> Task]
  BY <1>8, GotoType DEF TypeOK, CheckLineage, Places, Owning, At, Busy
<1>9. ASSUME Intend(p) PROVE exec' \in [Instances -> Task]
  BY <1>9, GotoType DEF TypeOK, Intend, Places, Owning, At, Busy
<1>10. ASSUME Dispatch(p) PROVE exec' \in [Instances -> Task]
  BY <1>10, GotoType DEF TypeOK, Dispatch, Places, Owning, At, Busy
<1>11. ASSUME Perform(p) PROVE exec' \in [Instances -> Task]
  BY <1>11, GotoType DEF TypeOK, Perform, Places, Owning, At, Busy
<1>12. ASSUME Stop(p) PROVE exec' \in [Instances -> Task]
  BY <1>12, GotoType DEF TypeOK, Stop, Places, Owning, At, Busy
<1>13. ASSUME Report(p) PROVE exec' \in [Instances -> Task]
  BY <1>13, GotoType DEF TypeOK, Report, Places, Owning, At, Busy
<1>14. ASSUME NEW o \in {"completed", "stopped"}, FinishRun(p, o) PROVE exec' \in [Instances -> Task]
  BY <1>14, GotoType DEF TypeOK, FinishRun, Places, Owning, At, Busy
<1>15. ASSUME ReleaseOwner(p) PROVE exec' \in [Instances -> Task]
  BY <1>15, IdleIsTask DEF TypeOK, ReleaseOwner, Places, Owning, At, Busy
<1>16. ASSUME SaveFails(p) PROVE exec' \in [Instances -> Task]
  BY <1>16, GotoType DEF TypeOK, SaveFails, Places, Owning, At, Busy
<1> QED
  BY <1>1, <1>2, <1>3, <1>4, <1>5, <1>6, <1>7, <1>8, <1>9, <1>10, <1>11, <1>12, <1>13, <1>14,
     <1>15, <1>16 DEF Execute

LEMMA PhaseType ==
  ASSUME phase \in [Runs -> [Instances -> Phases]], NEW r, NEW p \in Instances,
         NEW s \in Phases, Mark(r, p, s)
  PROVE  phase' \in [Runs -> [Instances -> Phases]]
<1>1. ASSUME NEW t \in Runs PROVE phase'[t] \in [Instances -> Phases]
  BY <1>1 DEF Mark
<1> QED
  BY <1>1 DEF Mark

LEMMA RecoverType ==
  ASSUME phase \in [Runs -> [Instances -> Phases]], NEW r, RecoverJournal(r)
  PROVE  phase' \in [Runs -> [Instances -> Phases]]
<1>1. ASSUME NEW t \in Runs PROVE phase'[t] \in [Instances -> Phases]
  BY <1>1 DEF RecoverJournal, Phases, LostPhase
<1> QED
  BY <1>1 DEF RecoverJournal

LEMMA RestType ==
  ASSUME ctrl \in [Instances -> Recovery], NEW p, CtrlRests(p)
  PROVE  ctrl' \in [Instances -> Recovery]
<1>1. Rest \in Recovery
  BY DEF Rest, Recovery
<1> QED
  BY <1>1 DEF CtrlRests

(* The store and the journal, whichever executor step wrote to them.       *)
LEMMA StoreType ==
  ASSUME TypeOK, NEW p \in Instances, Execute(p)
  PROVE  /\ status' \in [Runs -> Status]
         /\ lineage' \in [Runs -> SUBSET Runs]
         /\ claim' \in [Runs -> Runs \cup {None}]
         /\ owner' \in [Runs -> Instances \cup {None, Dead, Unreadable}]
         /\ phase' \in [Runs -> [Instances -> Phases]]
         /\ effects' \in SUBSET (Runs \X Instances)
         /\ faults' \in 0 .. MaxFaults
         /\ faults' = faults \/ faults' = faults + 1
         /\ UNCHANGED <<up, ctrl>>
<1> DEFINE Goal ==
         /\ status' \in [Runs -> Status]
         /\ lineage' \in [Runs -> SUBSET Runs]
         /\ claim' \in [Runs -> Runs \cup {None}]
         /\ owner' \in [Runs -> Instances \cup {None, Dead, Unreadable}]
         /\ phase' \in [Runs -> [Instances -> Phases]]
         /\ effects' \in SUBSET (Runs \X Instances)
         /\ faults' \in 0 .. MaxFaults
         /\ faults' = faults \/ faults' = faults + 1
         /\ UNCHANGED <<up, ctrl>>
<1>1. ASSUME NEW r \in Runs, CreateRun(p, r) PROVE Goal
  BY <1>1 DEF TypeOK, CreateRun, Status, Active
<1>2. ASSUME NEW r \in Runs, InspectSource(p, r) PROVE Goal
  BY <1>2 DEF TypeOK, InspectSource, store
<1>3. ASSUME NEW r \in Runs, ReuseContinuation(p, r) PROVE Goal
  BY <1>3 DEF TypeOK, ReuseContinuation, store
<1>4. ASSUME NEW r \in Runs, NewContinuation(p, r) PROVE Goal
  <2>1. exec[p].source \in Runs
    BY <1>4 DEF TypeOK, NewContinuation, At, Task
  <2> QED
    BY <1>4, <2>1 DEF TypeOK, NewContinuation, Status, Active
<1>5. ASSUME Abandon(p) PROVE Goal
  BY <1>5 DEF TypeOK, Abandon, store
<1>6. ASSUME ClaimOwner(p) PROVE Goal
  BY <1>6 DEF TypeOK, ClaimOwner
<1>7. ASSUME MarkRunning(p) PROVE Goal
  BY <1>7 DEF TypeOK, MarkRunning, Status, Active
<1>8. ASSUME CheckLineage(p) PROVE Goal
  BY <1>8 DEF TypeOK, CheckLineage, store
<1>9. ASSUME Intend(p) PROVE Goal
  BY <1>9, PhaseType DEF TypeOK, Intend, store, Phases
<1>10. ASSUME Dispatch(p) PROVE Goal
  BY <1>10, PhaseType DEF TypeOK, Dispatch, store, Phases
<1>11. ASSUME Perform(p) PROVE Goal
  <2>1. exec[p].run \in Runs
    BY <1>11 DEF TypeOK, Perform, At, Task
  <2> QED
    BY <1>11, <2>1 DEF TypeOK, Perform, store
<1>12. ASSUME Report(p) PROVE Goal
  BY <1>12, PhaseType DEF TypeOK, Report, store, Phases
<1>13. ASSUME Stop(p) PROVE Goal
  BY <1>13 DEF TypeOK, Stop, store
<1>14. ASSUME NEW o \in {"completed", "stopped"}, FinishRun(p, o) PROVE Goal
  BY <1>14 DEF TypeOK, FinishRun, Status, Ended
<1>15. ASSUME ReleaseOwner(p) PROVE Goal
  BY <1>15 DEF TypeOK, ReleaseOwner, Released
<1>16. ASSUME SaveFails(p) PROVE Goal
  BY <1>16, OwnershipConstants DEF TypeOK, SaveFails, store, OwnershipConstants
<1> QED
  BY <1>1, <1>2, <1>3, <1>4, <1>5, <1>6, <1>7, <1>8, <1>9, <1>10, <1>11, <1>12, <1>13, <1>14,
     <1>15, <1>16 DEF Execute

LEMMA TypeRecovery ==
  ASSUME TypeOK, NEW p \in Instances, Launch(p) \/ Startup(p) \/ Command(p) \/ Crash(p)
  PROVE  TypeOK'
<1>1. ASSUME Launch(p) PROVE TypeOK'
  <2>1. [ctrl[p] EXCEPT !.pc = "startup"] \in Recovery
    BY RecoveryAt DEF TypeOK
  <2> QED
    BY <1>1, <2>1 DEF TypeOK, Launch, store, CtrlGoto
<1>2. ASSUME RecoverRuns(p) PROVE TypeOK'
  <2>1. JournalsOf(Interrupted) \in SUBSET Runs
    BY DEF JournalsOf, Interrupted
  <2>2. [Rest EXCEPT !.pc = "journals", !.todo = JournalsOf(Interrupted)] \in Recovery
    BY <2>1 DEF Rest, Recovery
  <2> QED
    BY <1>2, <2>2 DEF TypeOK, RecoverRuns, Status, Ended
<1>3. ASSUME NEW r \in Runs, RecoverOneJournal(p, r) PROVE TypeOK'
  <2>1. ctrl[p].todo \ {r} \in SUBSET (Runs \cup Instances)
    BY DEF TypeOK, Recovery
  <2>2. [ctrl[p] EXCEPT !.todo = ctrl[p].todo \ {r}] \in Recovery
    BY <2>1, RecoveryAt DEF TypeOK
  <2> QED
    BY <1>3, <2>2, RecoverType DEF TypeOK, RecoverOneJournal, store
<1>4. ASSUME FinishStartup(p) PROVE TypeOK'
  BY <1>4, RestType DEF TypeOK, FinishStartup, store
<1>5. ASSUME NEW r \in Runs, CancelCheck(p, r) PROVE TypeOK'
  <2>1. [Rest EXCEPT !.pc = "cancel_recover", !.run = r] \in Recovery
    BY RecoveryOf
  <2> QED
    BY <1>5, <2>1 DEF TypeOK, CancelCheck, store
<1>6. ASSUME CancelRecover(p) PROVE TypeOK'
  <2>1. [ctrl[p] EXCEPT !.pc = "cancel_list"] \in Recovery
    BY RecoveryAt DEF TypeOK
  <2> QED
    BY <1>6, <2>1, RecoverType DEF TypeOK, CancelRecover, store, CtrlGoto
<1>7. ASSUME CancelList(p) PROVE TypeOK'
  <2> DEFINE listed == {q \in Instances : phase[ctrl[p].run][q] = "ready"}
  <2>1. listed \in SUBSET (Runs \cup Instances)
    OBVIOUS
  <2>2. [ctrl[p] EXCEPT !.pc = "cancel_withdraw", !.todo = listed] \in Recovery
    BY <2>1, RecoveryAt DEF TypeOK
  <2> QED
    BY <1>7, <2>2 DEF TypeOK, CancelList, store
<1>8. ASSUME NEW q \in Instances, CancelWithdraw(p, q) PROVE TypeOK'
  <2>1. ctrl[p].todo \ {q} \in SUBSET (Runs \cup Instances)
    BY DEF TypeOK, Recovery
  <2>2. [ctrl[p] EXCEPT !.todo = ctrl[p].todo \ {q}] \in Recovery
    BY <2>1, RecoveryAt DEF TypeOK
  <2>3. CASE phase[ctrl[p].run][q] \in {"ready", "dispatched"}
    <3>1. phase' \in [Runs -> [Instances -> Phases]]
      BY <1>8, <2>3, PhaseType DEF TypeOK, CancelWithdraw, Phases
    <3> QED
      BY <1>8, <2>2, <2>3, <3>1 DEF TypeOK, CancelWithdraw, store
  <2>4. CASE phase[ctrl[p].run][q] \notin {"ready", "dispatched"}
    BY <1>8, <2>4, RestType DEF TypeOK, CancelWithdraw, store
  <2> QED
    BY <2>3, <2>4
<1>9. ASSUME CancelFinish(p) PROVE TypeOK'
  <2>1. [ctrl[p] EXCEPT !.pc = "cancel_release"] \in Recovery
    BY RecoveryAt DEF TypeOK
  <2> QED
    BY <1>9, <2>1 DEF TypeOK, CancelFinish, CtrlGoto, Status, Ended
<1>10. ASSUME CancelRelease(p) PROVE TypeOK'
  BY <1>10, RestType DEF TypeOK, CancelRelease, Released
<1>11. ASSUME NEW r \in Runs, NEW q \in Instances, ReconcileCheck(p, r, q) PROVE TypeOK'
  <2>1. [Rest EXCEPT !.pc = "reconcile_recover", !.run = r, !.todo = {q}] \in Recovery
    BY DEF Rest, Recovery
  <2> QED
    BY <1>11, <2>1 DEF TypeOK, ReconcileCheck, store
<1>12. ASSUME ReconcileRecover(p) PROVE TypeOK'
  <2>1. [ctrl[p] EXCEPT !.pc = "reconcile_settle"] \in Recovery
    BY RecoveryAt DEF TypeOK
  <2> QED
    BY <1>12, <2>1, RecoverType DEF TypeOK, ReconcileRecover, store, CtrlGoto
<1>13. ASSUME NEW q \in Instances, ReconcileSettle(p, q) PROVE TypeOK'
  <2>1. phase' \in [Runs -> [Instances -> Phases]]
    BY <1>13, PhaseType DEF TypeOK, ReconcileSettle, Phases
  <2> QED
    BY <1>13, <2>1, RestType DEF TypeOK, ReconcileSettle, store
<1>14. ASSUME Crash(p) PROVE TypeOK'
  <2>1. exec' \in [Instances -> Task]
    BY <1>14, IdleIsTask DEF TypeOK, Crash
  <2>2. faults' \in 0 .. MaxFaults
    BY <1>14, OwnershipConstants DEF TypeOK, Crash, OwnershipConstants
  <2>3. owner' \in [Runs -> Instances \cup {None, Dead, Unreadable}]
    BY <1>14 DEF TypeOK, Crash
  <2> QED
    BY <1>14, <2>1, <2>2, <2>3, RestType DEF TypeOK, Crash
<1> QED
  BY <1>1, <1>2, <1>3, <1>4, <1>5, <1>6, <1>7, <1>8, <1>9, <1>10, <1>11, <1>12,
     <1>13, <1>14 DEF Startup, Command

LEMMA TypeStep == TypeOK /\ [Next]_vars => TypeOK'
<1> SUFFICES ASSUME TypeOK, [Next]_vars PROVE TypeOK'
  OBVIOUS
<1>1. CASE UNCHANGED vars
  BY <1>1 DEF TypeOK, vars
<1>2. ASSUME NEW p \in Instances, Execute(p) PROVE TypeOK'
  BY <1>2, ExecType, StoreType DEF TypeOK
<1>3. ASSUME NEW p \in Instances, Launch(p) \/ Startup(p) \/ Command(p) \/ Crash(p)
      PROVE  TypeOK'
  BY <1>3, TypeRecovery
<1> QED
  BY <1>1, <1>2, <1>3 DEF Next

(* The tables, tasks and recovery tasks keep their types, and a task past  *)
(* its preparation has a run.                                              *)
THEOREM TypeCorrect == Spec => []TypeOK
  BY TypeInit, TypeStep, PTL DEF Spec
-----------------------------------------------------------------------------
(* Ownership.  An executor owns its run, unless a cancel in its own process *)
(* took the row after the run had ended; and an ended run stays ended, so   *)
(* that no one else can claim it.                                           *)

EndedBeforeRelease ==
  \A p \in Instances, r \in Runs :
    ctrl[p].pc = "cancel_release" /\ ctrl[p].run = r => status[r] \in Ended

ExecutorsOwn ==
  \A p \in Instances, r \in Runs :
    Executes(p, r) => owner[r] = p \/ (owner[r] = None /\ status[r] \in Ended)

OwnerInv ==
  /\ TypeOK
  /\ OneExecutor
  /\ InterruptedIsOrphaned
  /\ ExecutorsOwn
  /\ EndedBeforeRelease

(* What a step does that takes no run over.                                 *)
Quiet ==
  /\ \A p \in Instances, r \in Runs : Executes(p, r)' => Executes(p, r)
  /\ \A r \in Runs : status[r] \in Ended => status'[r] \in Ended
  /\ \A r \in Runs : status'[r] = "interrupted" =>
       \/ status[r] = "interrupted"
       \/ ~Alive(r) /\ status[r] \notin Ended
  /\ \A r \in Runs :
       \/ owner'[r] = owner[r]
       \/ ~\E p \in Instances : Executes(p, r)'
       \/ owner'[r] = None /\ status'[r] \in Ended
  /\ EndedBeforeRelease'

LEMMA QuietKeeps == ASSUME OwnerInv, TypeOK', Quiet PROVE OwnerInv'
<1>1. OneExecutor'
  BY DEF OwnerInv, OneExecutor, Quiet
<1>2. ExecutorsOwn'
  BY DEF OwnerInv, ExecutorsOwn, Quiet
<1>3. InterruptedIsOrphaned'
  <2> SUFFICES ASSUME NEW r \in Runs, status'[r] = "interrupted",
                      NEW p \in Instances, Executes(p, r)'
               PROVE  FALSE
    BY DEF InterruptedIsOrphaned
  <2>1. Executes(p, r)
    BY DEF Quiet
  <2>2. status[r] # "interrupted"
    BY <2>1 DEF OwnerInv, InterruptedIsOrphaned
  <2>3. ~Alive(r) /\ status[r] \notin Ended
    BY <2>2 DEF Quiet
  <2> QED
    BY <2>1, <2>3 DEF OwnerInv, ExecutorsOwn, Alive
<1> QED
  BY <1>1, <1>2, <1>3 DEF OwnerInv, Quiet

LEMMA GotoQuiet ==
  ASSUME exec \in [Instances -> Task], NEW p \in Instances, NEW pc, Goto(p, pc),
         exec[p].pc \in Owning \/ pc \notin Owning
  PROVE  \A q \in Instances, r \in Runs : Executes(q, r)' => Executes(q, r)
  BY DEF Goto, Executes, Task

LEMMA IdleQuiet ==
  ASSUME exec \in [Instances -> Task], NEW p \in Instances, exec' = [exec EXCEPT ![p] = Idle]
  PROVE  \A q \in Instances, r \in Runs : Executes(q, r)' => Executes(q, r) /\ q # p
  BY DEF Executes, Idle, Owning

LEMMA ReleasedKeeps ==
  ASSUME TypeOK, NEW p \in Instances, NEW r, owner' = Released(p, r)
  PROVE  \A t \in Runs : owner'[t] = owner[t] \/ (t = r /\ owner[t] = p /\ owner'[t] = None)
<1> DEFINE left == IF owner[r] = p THEN None ELSE owner[r]
<1>1. owner' = [owner EXCEPT ![r] = left]
  BY DEF Released
<1>2. DOMAIN owner = Runs /\ owner = [t \in Runs |-> owner[t]]
  BY DEF TypeOK
<1> HIDE DEF left
<1>3. \A t \in Runs : owner'[t] = IF t = r THEN left ELSE owner[t]
  BY <1>1, <1>2
<1> QED
  BY <1>3 DEF left

LEMMA ExecuteQuiet ==
  ASSUME OwnerInv, NEW p \in Instances, Execute(p), ~ClaimOwner(p)
  PROVE  Quiet
<1> USE DEF OwnerInv, TypeOK, Quiet, Executes, Owning, EndedBeforeRelease, Ended
<1>1. ASSUME NEW r \in Runs, CreateRun(p, r) PROVE Quiet
  BY <1>1 DEF CreateRun, Idle
<1>2. ASSUME NEW r \in Runs, InspectSource(p, r) PROVE Quiet
  BY <1>2 DEF InspectSource, Idle, store
<1>3. ASSUME NEW r \in Runs, ReuseContinuation(p, r) PROVE Quiet
  BY <1>3 DEF ReuseContinuation, Idle, store
<1>4. ASSUME NEW r \in Runs, NewContinuation(p, r) PROVE Quiet
  BY <1>4 DEF NewContinuation, Idle
<1>5. ASSUME Abandon(p) PROVE Quiet
  BY <1>5 DEF Abandon, Idle, store
<1>6. ASSUME MarkRunning(p) PROVE Quiet
  <2>1. CASE status[exec[p].run] \in Ended
    BY <1>6, <2>1, GotoQuiet DEF MarkRunning, At
  <2>2. CASE status[exec[p].run] \notin Ended
    BY <1>6, <2>2, GotoQuiet DEF MarkRunning, At
  <2> QED
    BY <2>1, <2>2
<1>7. ASSUME CheckLineage(p) PROVE Quiet
  BY <1>7 DEF CheckLineage, At, Goto, store
<1>8. ASSUME Intend(p) PROVE Quiet
  BY <1>8 DEF Intend, At, Goto, store
<1>9. ASSUME Dispatch(p) PROVE Quiet
  <2>1. \A q \in Instances, r \in Runs : Executes(q, r)' => Executes(q, r)
    BY <1>9, GotoQuiet DEF Dispatch, At
  <2> QED
    BY <1>9, <2>1 DEF Dispatch, store
<1>10. ASSUME Perform(p) PROVE Quiet
  BY <1>10 DEF Perform, At, Goto, store
<1>11. ASSUME Report(p) PROVE Quiet
  <2>1. \A q \in Instances, r \in Runs : Executes(q, r)' => Executes(q, r)
    BY <1>11, GotoQuiet DEF Report, At
  <2> QED
    BY <1>11, <2>1 DEF Report, store
<1>12. ASSUME Stop(p) PROVE Quiet
  BY <1>12 DEF Stop, At, Goto, store
<1>13. ASSUME NEW o \in {"completed", "stopped"}, FinishRun(p, o) PROVE Quiet
  BY <1>13 DEF FinishRun, At, Goto
<1>14. ASSUME ReleaseOwner(p) PROVE Quiet
  <2>1. \A q \in Instances, t \in Runs : Executes(q, t)' => Executes(q, t) /\ q # p
    BY <1>14, IdleQuiet DEF ReleaseOwner
  <2>2. \A t \in Runs : owner'[t] = owner[t] \/ owner[t] = p
    BY <1>14, ReleasedKeeps DEF ReleaseOwner
  <2>3. ASSUME NEW t \in Runs, owner[t] = p, NEW q \in Instances, Executes(q, t)' PROVE FALSE
    <3>1. owner[t] = q \/ owner[t] = None
      BY <2>1, <2>3 DEF ExecutorsOwn
    <3> QED
      BY <2>1, <2>3, <3>1, OwnershipConstants DEF OwnershipConstants
  <2>4. \A t \in Runs : owner'[t] = owner[t] \/ ~\E q \in Instances : Executes(q, t)'
    BY <2>2, <2>3
  <2>5. UNCHANGED <<status, ctrl>>
    BY <1>14 DEF ReleaseOwner
  <2> QED
    BY <2>1, <2>4, <2>5
<1>15. ASSUME SaveFails(p) PROVE Quiet
  BY <1>15 DEF SaveFails, At, Goto, store
<1> QED
  BY <1>1, <1>2, <1>3, <1>4, <1>5, <1>6, <1>7, <1>8, <1>9, <1>10, <1>11, <1>12, <1>13, <1>14,
     <1>15 DEF Execute

LEMMA RecoveryQuiet ==
  ASSUME OwnerInv, NEW p \in Instances, Launch(p) \/ Startup(p) \/ Command(p) \/ Crash(p)
  PROVE  Quiet
<1> USE DEF OwnerInv, TypeOK, Quiet, Executes, Owning, EndedBeforeRelease, Ended
<1>1. ASSUME Launch(p) PROVE Quiet
  BY <1>1 DEF Launch, store, CtrlGoto
<1>2. ASSUME RecoverRuns(p) PROVE Quiet
  BY <1>2 DEF RecoverRuns, Interrupted, Active, Rest
<1>3. ASSUME NEW r \in Runs, RecoverOneJournal(p, r) PROVE Quiet
  BY <1>3 DEF RecoverOneJournal, store, CtrlAt
<1>4. ASSUME FinishStartup(p) PROVE Quiet
  BY <1>4 DEF FinishStartup, store, CtrlRests, Rest
<1>5. ASSUME NEW r \in Runs, CancelCheck(p, r) PROVE Quiet
  BY <1>5 DEF CancelCheck, store, Rest
<1>6. ASSUME CancelRecover(p) PROVE Quiet
  BY <1>6 DEF CancelRecover, store, CtrlGoto
<1>7. ASSUME CancelList(p) PROVE Quiet
  BY <1>7 DEF CancelList, store
<1>8. ASSUME NEW q \in Instances, CancelWithdraw(p, q) PROVE Quiet
  <2>1. UNCHANGED <<status, owner, exec>>
    BY <1>8 DEF CancelWithdraw, store
  <2>2. \A t \in Instances : ctrl'[t].pc = "cancel_release" => ctrl'[t] = ctrl[t]
    BY <1>8 DEF CancelWithdraw, CtrlAt, CtrlRests, Rest, Recovery
  <2> QED
    BY <2>1, <2>2
<1>9. ASSUME CancelFinish(p) PROVE Quiet
  BY <1>9 DEF CancelFinish, CtrlGoto
<1>10. ASSUME CancelRelease(p) PROVE Quiet
  <2>1. UNCHANGED <<status, exec>>
    BY <1>10 DEF CancelRelease
  <2>2. \A t \in Runs : owner'[t] = owner[t] \/ (owner'[t] = None /\ status'[t] \in Ended)
    <3> DEFINE c == ctrl[p].run
    <3>1. owner' = Released(p, c) /\ ctrl[p].pc = "cancel_release"
      BY <1>10 DEF CancelRelease, CtrlAt
    <3> HIDE DEF c
    <3>2. \A t \in Runs : owner'[t] = owner[t] \/ (t = c /\ owner'[t] = None)
      BY <3>1, ReleasedKeeps
    <3>3. c \in Runs => status[c] \in Ended
      BY <3>1 DEF c
    <3> QED
      BY <2>1, <3>2, <3>3
  <2>3. \A t \in Instances : ctrl'[t].pc = "cancel_release" => ctrl'[t] = ctrl[t]
    BY <1>10 DEF CancelRelease, CtrlRests, Rest
  <2> QED
    BY <2>1, <2>2, <2>3
<1>11. ASSUME NEW r \in Runs, NEW q \in Instances, ReconcileCheck(p, r, q) PROVE Quiet
  BY <1>11 DEF ReconcileCheck, store, Rest
<1>12. ASSUME ReconcileRecover(p) PROVE Quiet
  BY <1>12 DEF ReconcileRecover, store, CtrlGoto
<1>13. ASSUME NEW q \in Instances, ReconcileSettle(p, q) PROVE Quiet
  BY <1>13 DEF ReconcileSettle, store, CtrlRests, Rest
<1>14. ASSUME Crash(p) PROVE Quiet
  <2>1. \A q \in Instances, t \in Runs : Executes(q, t)' => Executes(q, t) /\ q # p
    BY <1>14, IdleQuiet DEF Crash
  <2>2. \A t \in Runs : owner'[t] = owner[t] \/ owner[t] = p
    BY <1>14 DEF Crash
  <2>3. ASSUME NEW t \in Runs, owner[t] = p, NEW q \in Instances, Executes(q, t)' PROVE FALSE
    <3>1. owner[t] = q \/ owner[t] = None
      BY <2>1, <2>3 DEF ExecutorsOwn
    <3> QED
      BY <2>1, <2>3, <3>1, OwnershipConstants DEF OwnershipConstants
  <2>4. \A t \in Instances : ctrl'[t].pc = "cancel_release" => ctrl'[t] = ctrl[t]
    BY <1>14 DEF Crash, CtrlRests, Rest
  <2> QED
    <3>1. \A t \in Runs : owner'[t] = owner[t] \/ ~\E q \in Instances : Executes(q, t)'
      BY <2>2, <2>3
    <3>2. UNCHANGED status
      BY <1>14 DEF Crash
    <3> QED
      BY <2>1, <2>4, <3>1, <3>2
<1> QED
  BY <1>1, <1>2, <1>3, <1>4, <1>5, <1>6, <1>7, <1>8, <1>9, <1>10, <1>11, <1>12, <1>13, <1>14 DEF Startup, Command

LEMMA ClaimKeeps == ASSUME OwnerInv, NEW p \in Instances, ClaimOwner(p), TypeOK' PROVE OwnerInv'
<1> DEFINE r == exec[p].run
<1>1. r \in Runs /\ exec[p] \in Task /\ exec[p].pc \notin Owning
  BY DEF OwnerInv, TypeOK, ClaimOwner, At, Task, Owning
<1>2. CASE Claimable(r)
  <2>1. ASSUME NEW q \in Instances, Executes(q, r) PROVE FALSE
    BY <1>1, <1>2, <2>1 DEF OwnerInv, ExecutorsOwn, Claimable, Alive, Active, Ended
  <2>2. exec' = [exec EXCEPT ![p].pc = "claimed"] /\ owner' = [owner EXCEPT ![r] = p]
    BY <1>2 DEF ClaimOwner, Goto
  <2>3. \A q \in Instances, t \in Runs : Executes(q, t)' => Executes(q, t) \/ (q = p /\ t = r)
    <3> SUFFICES ASSUME NEW q \in Instances, NEW t \in Runs, Executes(q, t)', q # p
                 PROVE  Executes(q, t)
      <4>1. exec'[p].run = r
        BY <1>1, <2>2 DEF OwnerInv, TypeOK, Task
      <4> QED
        BY <4>1 DEF Executes
    <3>1. exec'[q] = exec[q]
      BY <2>2 DEF OwnerInv, TypeOK
    <3> QED
      BY <3>1 DEF Executes
  <2>4. \A t \in Runs : owner'[t] = IF t = r THEN p ELSE owner[t]
    BY <2>2 DEF OwnerInv, TypeOK
  <2>5. UNCHANGED <<status, ctrl>>
    BY DEF ClaimOwner
  <2>6. OneExecutor'
    BY <1>1, <2>1, <2>3 DEF OwnerInv, OneExecutor
  <2>7. ExecutorsOwn'
    <3> SUFFICES ASSUME NEW q \in Instances, NEW t \in Runs, Executes(q, t)'
                 PROVE  owner'[t] = q \/ (owner'[t] = None /\ status'[t] \in Ended)
      BY DEF ExecutorsOwn
    <3>1. CASE q = p /\ t = r
      <4>1. owner'[r] = p
        BY <1>1, <2>4
      <4> QED
        BY <3>1, <4>1
    <3>2. CASE Executes(q, t) /\ t # r
      BY <2>4, <2>5, <3>2 DEF OwnerInv, ExecutorsOwn
    <3> QED
      BY <2>1, <2>3, <3>1, <3>2
  <2>8. InterruptedIsOrphaned'
    BY <1>1, <1>2, <2>3, <2>5 DEF OwnerInv, InterruptedIsOrphaned, Claimable, Active
  <2> QED
    BY <2>5, <2>6, <2>7, <2>8 DEF OwnerInv, EndedBeforeRelease
<1>3. CASE ~Claimable(r)
  <2>1. \A q \in Instances, t \in Runs : Executes(q, t)' => Executes(q, t)
    <3>1. CASE exec[p].pc = "created"
      <4>1. Goto(p, "refused")
        BY <1>3, <3>1 DEF ClaimOwner, Goto
      <4> QED
        BY <4>1, GotoQuiet DEF OwnerInv, TypeOK, Owning
    <3>2. CASE exec[p].pc # "created"
      BY <1>3, <3>2, IdleQuiet DEF ClaimOwner, OwnerInv, TypeOK
    <3> QED
      BY <3>1, <3>2
  <2>2. Quiet
    BY <1>3, <2>1 DEF OwnerInv, Quiet, ClaimOwner, EndedBeforeRelease
  <2> QED
    BY <2>2, QuietKeeps
<1> QED
  BY <1>2, <1>3

LEMMA OwnerStep == OwnerInv /\ [Next]_vars => OwnerInv'
<1> SUFFICES ASSUME OwnerInv, [Next]_vars PROVE OwnerInv'
  OBVIOUS
<1>1. TypeOK'
  BY TypeStep DEF OwnerInv
<1>2. CASE UNCHANGED vars
  BY <1>2 DEF vars, OwnerInv, TypeOK, OneExecutor, InterruptedIsOrphaned, ExecutorsOwn,
              EndedBeforeRelease, Executes
<1>3. ASSUME NEW p \in Instances, Execute(p) PROVE OwnerInv'
  BY <1>1, <1>3, ClaimKeeps, ExecuteQuiet, QuietKeeps
<1>4. ASSUME NEW p \in Instances, Launch(p) \/ Startup(p) \/ Command(p) \/ Crash(p)
      PROVE  OwnerInv'
  BY <1>1, <1>4, RecoveryQuiet, QuietKeeps
<1> QED
  BY <1>2, <1>3, <1>4 DEF Next

LEMMA OwnerInit == Init => OwnerInv
  BY TypeInit DEF Init, OwnerInv, OneExecutor, InterruptedIsOrphaned, ExecutorsOwn,
                  EndedBeforeRelease, Executes, Owning, Idle, Rest

(* A run has one executor at a time: claim_owner refuses a run whose owner  *)
(* may be alive, and one that ended.                                        *)
THEOREM RunsHaveOneExecutor == Spec => []OneExecutor
<1>1. OwnerInv => OneExecutor
  BY DEF OwnerInv
<1> QED
  BY <1>1, OwnerInit, OwnerStep, PTL DEF Spec

(* Start-up recovery interrupts no run somebody executes.                   *)
THEOREM RecoverySparesTheLive == Spec => []InterruptedIsOrphaned
<1>1. OwnerInv => InterruptedIsOrphaned
  BY DEF OwnerInv
<1> QED
  BY <1>1, OwnerInit, OwnerStep, PTL DEF Spec

-----------------------------------------------------------------------------
(* Continuations: the lineage of a run is its source and the lineage of    *)
(* its source, and the source is claimed by it.                            *)

SourceClaims ==
  \A r \in Runs : lineage[r] # {} =>
    \E s \in Runs : claim[s] = r /\ lineage[r] = {s} \cup lineage[s]
LineageOrdered ==
  \A r \in Runs : r \notin lineage[r] /\ \A s \in lineage[r] : lineage[s] \subseteq lineage[r]
AbsentApart ==
  \A r \in Runs : status[r] = "absent" => lineage[r] = {} /\ \A q \in Runs : r \notin lineage[q]
InspectedExists ==
  \A p \in Instances : exec[p].pc = "inspected" => exec[p].seen # "absent"

LineageInv == TypeOK /\ SourceClaims /\ LineageOrdered /\ AbsentApart /\ InspectedExists

LEMMA LineageInit == Init => LineageInv
  BY TypeInit DEF Init, LineageInv, SourceClaims, LineageOrdered, AbsentApart,
                  InspectedExists, Idle

(* What every step but the preparation of a continuation does.             *)
Unrelated ==
  /\ UNCHANGED <<lineage, claim>>
  /\ \A r \in Runs : status'[r] = "absent" => status[r] = "absent"
  /\ \A p \in Instances : exec'[p].pc = "inspected" =>
       exec'[p].seen # "absent" \/ (exec[p].pc = "inspected" /\ exec'[p].seen = exec[p].seen)

LEMMA UnrelatedKeeps ==
  ASSUME LineageInv, Unrelated, TypeOK'
  PROVE  LineageInv'
  BY DEF LineageInv, Unrelated, SourceClaims, LineageOrdered, AbsentApart, InspectedExists

LEMMA MovesUninspected ==
  ASSUME exec \in [Instances -> Task], NEW p \in Instances, NEW t, t.pc # "inspected",
         exec' = [exec EXCEPT ![p] = t]
  PROVE  \A q \in Instances : exec'[q].pc = "inspected" => exec'[q] = exec[q]
  OBVIOUS

LEMMA GoesUninspected ==
  ASSUME exec \in [Instances -> Task], NEW p \in Instances, NEW pc, pc # "inspected", Goto(p, pc)
  PROVE  \A q \in Instances : exec'[q].pc = "inspected" => exec'[q] = exec[q]
  BY DEF Goto, Task

LEMMA ExecuteUnrelated ==
  ASSUME LineageInv, NEW p \in Instances, Execute(p), \A r \in Runs : ~NewContinuation(p, r)
  PROVE  Unrelated
<1> USE DEF LineageInv, TypeOK, Unrelated
<1>1. ASSUME NEW r \in Runs, CreateRun(p, r) PROVE Unrelated
  BY <1>1 DEF CreateRun, Idle
<1>2. ASSUME NEW r \in Runs, InspectSource(p, r) PROVE Unrelated
  <2>1. status[r] # "absent"
    BY <1>2 DEF InspectSource, Eligible, IsPrepared, Resumable
  <2> QED
    BY <1>2, <2>1 DEF InspectSource, Idle, store
<1>3. ASSUME NEW r \in Runs, ReuseContinuation(p, r) PROVE Unrelated
  BY <1>3 DEF ReuseContinuation, Idle, store
<1>4. ASSUME Abandon(p) PROVE Unrelated
  BY <1>4 DEF Abandon, Idle, store
<1>5. ASSUME ClaimOwner(p) PROVE Unrelated
  <2>1. \A q \in Instances : exec'[q].pc = "inspected" => exec'[q] = exec[q]
    <3>1. CASE Goto(p, "claimed")
      BY <3>1, GoesUninspected
    <3>2. CASE exec' = [exec EXCEPT ![p] = [exec[p] EXCEPT !.pc = "refused"]]
      BY <3>2 DEF Task
    <3>3. CASE exec' = [exec EXCEPT ![p] = Idle]
      BY <3>3, MovesUninspected DEF Idle
    <3> QED
      BY <1>5, <3>1, <3>2, <3>3, Zenon DEF ClaimOwner
  <2> QED
    BY <1>5, <2>1 DEF ClaimOwner
<1>6. ASSUME MarkRunning(p) PROVE Unrelated
  <2>1. \A q \in Instances : exec'[q].pc = "inspected" => exec'[q] = exec[q]
    BY <1>6, GoesUninspected DEF MarkRunning
  <2> QED
    BY <1>6, <2>1 DEF MarkRunning
<1>7. ASSUME CheckLineage(p) PROVE Unrelated
  BY <1>7 DEF CheckLineage, Goto, store
<1>8. ASSUME Intend(p) PROVE Unrelated
  BY <1>8 DEF Intend, Goto, store
<1>9. ASSUME Dispatch(p) PROVE Unrelated
  <2>1. \A q \in Instances : exec'[q].pc = "inspected" => exec'[q] = exec[q]
    BY <1>9, GoesUninspected DEF Dispatch
  <2> QED
    BY <1>9, <2>1 DEF Dispatch, store
<1>10. ASSUME Perform(p) PROVE Unrelated
  BY <1>10 DEF Perform, Goto, store
<1>11. ASSUME Report(p) PROVE Unrelated
  <2>1. \A q \in Instances : exec'[q].pc = "inspected" => exec'[q] = exec[q]
    BY <1>11, GoesUninspected DEF Report
  <2> QED
    BY <1>11, <2>1 DEF Report, store
<1>12. ASSUME Stop(p) PROVE Unrelated
  BY <1>12 DEF Stop, Goto, store
<1>13. ASSUME NEW o \in {"completed", "stopped"}, FinishRun(p, o) PROVE Unrelated
  BY <1>13 DEF FinishRun, Goto
<1>14. ASSUME ReleaseOwner(p) PROVE Unrelated
  BY <1>14 DEF ReleaseOwner, Idle
<1>15. ASSUME SaveFails(p) PROVE Unrelated
  BY <1>15 DEF SaveFails, Goto, store
<1> QED
  BY <1>1, <1>2, <1>3, <1>4, <1>5, <1>6, <1>7, <1>8, <1>9, <1>10, <1>11, <1>12, <1>13, <1>14,
     <1>15 DEF Execute

LEMMA RecoveryUnrelated ==
  ASSUME LineageInv, NEW p \in Instances, Launch(p) \/ Startup(p) \/ Command(p) \/ Crash(p)
  PROVE  Unrelated
<1> USE DEF LineageInv, TypeOK, Unrelated
<1>1. CASE Launch(p)
  BY <1>1 DEF Launch, store
<1>2. CASE Startup(p)
  BY <1>2 DEF Startup, RecoverRuns, RecoverOneJournal, FinishStartup, store
<1>3. CASE Command(p)
  <2>1. ASSUME NEW r \in Runs, CancelCheck(p, r) PROVE Unrelated
    BY <2>1 DEF CancelCheck, store
  <2>2. ASSUME NEW r \in Runs, NEW q \in Instances, ReconcileCheck(p, r, q) PROVE Unrelated
    BY <2>2 DEF ReconcileCheck, store
  <2>3. ASSUME NEW q \in Instances, CancelWithdraw(p, q) PROVE Unrelated
    BY <2>3 DEF CancelWithdraw, store
  <2>4. ASSUME NEW q \in Instances, ReconcileSettle(p, q) PROVE Unrelated
    BY <2>4 DEF ReconcileSettle, store
  <2>5. CASE CancelRecover(p) \/ CancelList(p) \/ ReconcileRecover(p)
    BY <2>5 DEF CancelRecover, CancelList, ReconcileRecover, store
  <2>6. CASE CancelFinish(p)
    BY <2>6 DEF CancelFinish
  <2>7. CASE CancelRelease(p)
    BY <2>7 DEF CancelRelease
  <2> QED
    BY <1>3, <2>1, <2>2, <2>3, <2>4, <2>5, <2>6, <2>7 DEF Command
<1>4. CASE Crash(p)
  BY <1>4 DEF Crash, Idle
<1> QED
  BY <1>1, <1>2, <1>3, <1>4

(* A continuation is a run nobody knew of, and its source exists.          *)
LEMMA PrepareKeeps ==
  ASSUME LineageInv, TypeOK', NEW p \in Instances, NEW r \in Runs, NewContinuation(p, r)
  PROVE  LineageInv'
<1> DEFINE s == exec[p].source
<1>1. /\ s \in Runs /\ status[s] # "absent" /\ s # r
      /\ claim[s] = None
      /\ status[r] = "absent"
  BY DEF NewContinuation, Unclaimed, At, LineageInv, TypeOK, Task, InspectedExists
<1>2. /\ lineage' = [lineage EXCEPT ![r] = {s} \cup lineage[s]]
      /\ claim' = [claim EXCEPT ![s] = r]
      /\ status' = [status EXCEPT ![r] = "queued"]
  BY DEF NewContinuation
<1> HIDE DEF s
<1>3. /\ \A t \in Runs : lineage'[t] = IF t = r THEN {s} \cup lineage[s] ELSE lineage[t]
      /\ \A t \in Runs : claim'[t] = IF t = s THEN r ELSE claim[t]
      /\ \A t \in Runs : status'[t] = IF t = r THEN "queued" ELSE status[t]
      /\ \A t \in Runs : lineage[t] \subseteq Runs
  BY <1>1, <1>2 DEF LineageInv, TypeOK
<1>4. \A q \in Runs : r \notin lineage[q]
  BY <1>1 DEF LineageInv, AbsentApart
<1>5. SourceClaims'
  <2> SUFFICES ASSUME NEW t \in Runs, lineage'[t] # {}
               PROVE  \E u \in Runs : claim'[u] = t /\ lineage'[t] = {u} \cup lineage'[u]
    BY DEF SourceClaims
  <2>1. CASE t = r
    BY <1>1, <1>3, <2>1
  <2>2. CASE t # r
    <3>1. lineage[t] # {}
      BY <1>3, <2>2
    <3>2. PICK u \in Runs : claim[u] = t /\ lineage[t] = {u} \cup lineage[u]
      BY <3>1 DEF LineageInv, SourceClaims
    <3>3. u # s
      BY <1>1, <3>2, OwnershipConstants DEF OwnershipConstants
    <3>4. u # r
      BY <1>4, <3>2
    <3> QED
      BY <1>3, <2>2, <3>2, <3>3, <3>4
  <2> QED
    BY <2>1, <2>2
<1>6. LineageOrdered'
  <2> SUFFICES ASSUME NEW t \in Runs
               PROVE  t \notin lineage'[t] /\ \A u \in lineage'[t] : lineage'[u] \subseteq lineage'[t]
    BY DEF LineageOrdered
  <2>1. \A v \in Runs : \A u \in lineage[v] : u \in Runs /\ u # r /\ lineage'[u] \subseteq lineage[v]
    BY <1>3, <1>4 DEF LineageInv, LineageOrdered
  <2>2. CASE t = r
    BY <1>1, <1>3, <1>4, <2>1, <2>2
  <2>3. CASE t # r
    BY <1>3, <2>1, <2>3 DEF LineageInv, LineageOrdered
  <2> QED
    BY <2>2, <2>3
<1>7. AbsentApart'
  BY <1>1, <1>3 DEF LineageInv, AbsentApart
<1>8. InspectedExists'
  BY DEF NewContinuation, LineageInv, TypeOK, InspectedExists, Idle
<1> QED
  BY <1>5, <1>6, <1>7, <1>8 DEF LineageInv

LEMMA LineageStep == LineageInv /\ [Next]_vars => LineageInv'
<1> SUFFICES ASSUME LineageInv, [Next]_vars PROVE LineageInv'
  OBVIOUS
<1>1. TypeOK'
  BY TypeStep DEF LineageInv
<1>2. CASE UNCHANGED vars
  BY <1>1, <1>2, UnrelatedKeeps DEF vars, Unrelated
<1>3. ASSUME NEW p \in Instances, Execute(p) PROVE LineageInv'
  BY <1>1, <1>3, ExecuteUnrelated, UnrelatedKeeps, PrepareKeeps
<1>4. ASSUME NEW p \in Instances, Launch(p) \/ Startup(p) \/ Command(p) \/ Crash(p)
      PROVE  LineageInv'
  BY <1>1, <1>4, RecoveryUnrelated, UnrelatedKeeps
<1> QED
  BY <1>2, <1>3, <1>4 DEF Next

(* A source has one continuation: of two runs with one lineage, either the *)
(* sources are one, or each would be an ancestor of the other.             *)
THEOREM SourcesHaveOneContinuation == Spec => []OneContinuation
<1>1. LineageInv => OneContinuation
  <2> SUFFICES ASSUME LineageInv, NEW r \in Runs, NEW t \in Runs,
                      lineage[r] # {}, lineage[r] = lineage[t]
               PROVE  r = t
    BY DEF OneContinuation
  <2>1. PICK s \in Runs : claim[s] = r /\ lineage[r] = {s} \cup lineage[s]
    BY DEF LineageInv, SourceClaims
  <2>2. PICK u \in Runs : claim[u] = t /\ lineage[t] = {u} \cup lineage[u]
    BY DEF LineageInv, SourceClaims
  <2>3. s # u => s \in lineage[u] /\ u \in lineage[s]
    BY <2>1, <2>2
  <2>4. s = u
    BY <2>3 DEF LineageInv, LineageOrdered
  <2> QED
    BY <2>1, <2>2, <2>4
<1> QED
  BY <1>1, LineageInit, LineageStep, PTL DEF Spec

-----------------------------------------------------------------------------
(* Steps of runs, while nobody cancels one: a cancel withdraws what it     *)
(* listed as not dispatched although it was dispatched meanwhile, so that  *)
(* what follows is about the other commands, and start-up recovery.        *)

Reconciling == {"reconcile_recover", "reconcile_settle"}
Reconciles(c, r) == ctrl[c].pc \in Reconciling /\ ctrl[c].run = r
NobodyCancels == \A c \in Instances : ctrl[c].pc \notin Cancelling

NotStarted == {"absent", "queued"}
Working == {"owned", "cleared", "ready", "dispatched", "performed"}
Beginning == {"created", "prepared", "refused", "claimed"}

(* What a step of instance p does: to its executor's task, ...             *)
Goes(p, from, to) ==
  exec[p].pc \in from /\ exec'[p].pc = to /\ exec'[p].run = exec[p].run
Selects(p) ==
  LET r == exec'[p].run  s == exec'[p].source IN
  \/ exec'[p].pc = "created" /\ status[r] = "absent" /\ status'[r] = "running"
  \/ /\ exec'[p].pc = "inspected"
     /\ Eligible(s)
     /\ status[s] = "queued" /\ claim[s] = None => "prepare" \in Commands
  \/ /\ exec[p].pc = "inspected" /\ exec'[p].pc = "prepared"
     /\ claim'[exec[p].source] = r
     /\ status[r] \in NotStarted /\ status'[r] = "queued"
Works(p) ==
  LET r == exec[p].run IN
  \/ Goes(p, {"created", "prepared"}, "claimed") /\ Claimable(r) /\ owner'[r] = p
  \/ Goes(p, {"created"}, "refused")
  \/ Goes(p, {"claimed"}, "owned") /\ status'[r] = "running"
  \/ Goes(p, {"owned"}, "owned")
  \/ Goes(p, {"owned"}, "cleared") /\ ~Inherits(r) /\ UNCHANGED <<phase, lineage>>
  \/ Goes(p, {"cleared"}, "ready") /\ phase[r][p] = "none"
  \/ Goes(p, {"ready"}, "dispatched") /\ phase'[r][p] = "dispatched"
  \/ Goes(p, {"dispatched"}, "performed")
  \/ Goes(p, {"dispatched", "performed"}, "owned")
  \/ Goes(p, Owning, "finishing")
  \/ Goes(p, {"owned", "finishing", "refused"}, "releasing")
ExecChange(p) ==
  exec'[p] = exec[p] \/ exec'[p].pc = "idle" \/ Selects(p) \/ Works(p)

(* ... its recovery task, ...                                              *)
CtrlChange(p) ==
  \/ ctrl'[p] = ctrl[p]
  \/ ctrl'[p].pc \in {"idle", "startup"}
  \/ /\ ctrl[p].pc \in Reconciling /\ ctrl'[p].pc \in Reconciling
     /\ ctrl'[p].run = ctrl[p].run /\ ctrl'[p].todo = ctrl[p].todo
  \/ /\ ctrl'[p].pc \in Reconciling /\ ctrl'[p].run \in Runs
     /\ ~Alive(ctrl'[p].run)
     /\ \A q \in ctrl'[p].todo : phase[ctrl'[p].run][q] # "none"
     /\ \E q \in Instances : q \in ctrl'[p].todo
     /\ UNCHANGED exec
  \/ ctrl[p].pc = "journals" /\ ctrl'[p].pc = "journals" /\ ctrl'[p].todo \subseteq ctrl[p].todo
  \/ /\ ctrl'[p].pc = "journals" /\ ctrl'[p].todo = JournalsOf(Interrupted)
     /\ status' = [r \in Runs |-> IF r \in Interrupted THEN "interrupted" ELSE status[r]]
     /\ UNCHANGED exec

(* ... the journal: its own step, a lost dispatch, an inspected outcome, ... *)
OwnPhase(p, r) ==
  \/ /\ exec[p].pc = "cleared" /\ exec'[p].pc = "ready"
     /\ phase[r][p] = "none" /\ phase'[r][p] = "ready"
  \/ /\ exec[p].pc = "ready" /\ exec'[p].pc = "dispatched"
     /\ phase[r][p] = "ready" /\ phase'[r][p] = "dispatched"
  \/ /\ exec[p].pc \in {"dispatched", "performed"} /\ exec'[p].pc \in {"owned", "finishing"}
     /\ phase[r][p] = "dispatched"
     /\ phase'[r][p] # "ready" /\ (phase'[r][p] = "none" => exec[p].pc = "dispatched")
Recovering(p, r) ==
  \/ ctrl[p].pc = "journals" /\ r \in ctrl[p].todo
  \/ Reconciles(p, r)
PhaseChange(p, r, q) ==
  \/ phase'[r][q] = phase[r][q]
  \/ q = p /\ exec[p].run = r /\ OwnPhase(p, r)
  \/ phase[r][q] = "dispatched" /\ phase'[r][q] = "unknown" /\ Recovering(p, r)
  \/ /\ phase[r][q] = "unknown" /\ Reconciles(p, r) /\ q \in ctrl[p].todo
     /\ phase'[r][q] = IF <<r, q>> \in effects THEN "done" ELSE "none"

(* ... and to the workspace and the tables.                                *)
EffectChange(p, r, q) ==
  <<r, q>> \in effects' =>
    <<r, q>> \in effects \/ (q = p /\ exec[p].run = r /\ Goes(p, {"dispatched"}, "performed"))
OwnerChange(p, r) ==
  \/ owner'[r] = owner[r]
  \/ owner[r] = p /\ exec'[p].pc = "idle"
  \/ exec[p].run = r /\ exec'[p].pc = "claimed" /\ owner'[r] = p /\ ~Alive(r)
StatusChange(r) ==
  /\ status'[r] = "absent" => status[r] = "absent"
  /\ status'[r] \in NotStarted => status[r] \in NotStarted
  /\ status[r] \in Ended => status'[r] \in Ended
SourceChange(p, s) ==
  \/ claim'[s] = claim[s]
  \/ /\ claim[s] = None /\ exec[p].pc = "inspected" /\ exec[p].source = s
     /\ claim'[s] \in Runs /\ lineage'[claim'[s]] # {}
LineageChange(r) ==
  \/ lineage'[r] = lineage[r]
  \/ status[r] = "absent" /\ \E s \in Runs : lineage'[r] = {s} \cup lineage[s] /\ claim'[s] = r

Step(p) ==
  /\ \A q \in Instances : q # p => exec'[q] = exec[q] /\ ctrl'[q] = ctrl[q]
  /\ ExecChange(p)
  /\ CtrlChange(p)
  /\ \A r \in Runs, q \in Instances : PhaseChange(p, r, q) /\ EffectChange(p, r, q)
  /\ \A r \in Runs : OwnerChange(p, r) /\ StatusChange(r) /\ LineageChange(r)
  /\ \A s \in Runs : SourceChange(p, s)

LEMMA ExecIs ==
  ASSUME TypeOK, NEW p \in Instances, NEW t, exec' = [exec EXCEPT ![p] = t]
  PROVE  exec'[p] = t /\ \A q \in Instances : q # p => exec'[q] = exec[q]
  BY DEF TypeOK

LEMMA ExecGoes ==
  ASSUME TypeOK, NEW p \in Instances, NEW pc, Goto(p, pc)
  PROVE  /\ exec'[p].pc = pc /\ exec'[p].run = exec[p].run
         /\ \A q \in Instances : q # p => exec'[q] = exec[q]
  BY DEF TypeOK, Goto, Task

LEMMA CtrlIs ==
  ASSUME TypeOK, NEW p \in Instances, NEW t, ctrl' = [ctrl EXCEPT ![p] = t]
  PROVE  ctrl'[p] = t /\ \A q \in Instances : q # p => ctrl'[q] = ctrl[q]
  BY DEF TypeOK

LEMMA CtrlGoes ==
  ASSUME TypeOK, NEW p \in Instances, NEW pc, CtrlGoto(p, pc)
  PROVE  /\ ctrl'[p].pc = pc /\ ctrl'[p].run = ctrl[p].run /\ ctrl'[p].todo = ctrl[p].todo
         /\ \A q \in Instances : q # p => ctrl'[q] = ctrl[q]
  BY DEF TypeOK, CtrlGoto, Recovery

LEMMA MarkIs ==
  ASSUME TypeOK, NEW r, NEW p, NEW s, Mark(r, p, s)
  PROVE  \A t \in Runs, q \in Instances :
           phase'[t][q] = IF t = r /\ q = p THEN s ELSE phase[t][q]
  BY DEF TypeOK, Mark

LEMMA RecoverIs ==
  ASSUME TypeOK, NEW r, RecoverJournal(r)
  PROVE  \A t \in Runs, q \in Instances :
           phase'[t][q] = IF t = r /\ phase[t][q] = "dispatched" THEN "unknown" ELSE phase[t][q]
  BY DEF TypeOK, RecoverJournal, LostPhase

(* The parts a step leaves alone.                                          *)
LEMMA StatusKept == ASSUME UNCHANGED status PROVE \A r \in Runs : StatusChange(r)
  BY DEF StatusChange
LEMMA PhaseKept ==
  ASSUME UNCHANGED phase, NEW p PROVE \A r \in Runs, q \in Instances : PhaseChange(p, r, q)
  BY DEF PhaseChange
LEMMA EffectsKept ==
  ASSUME UNCHANGED effects, NEW p PROVE \A r \in Runs, q \in Instances : EffectChange(p, r, q)
  BY DEF EffectChange
LEMMA OwnerKept == ASSUME UNCHANGED owner, NEW p PROVE \A r \in Runs : OwnerChange(p, r)
  BY DEF OwnerChange
LEMMA LineageKept ==
  ASSUME UNCHANGED <<lineage, claim>>, NEW p
  PROVE  \A r \in Runs : LineageChange(r) /\ SourceChange(p, r)
  BY DEF LineageChange, SourceChange

(* A step of an executor, in parts.                                        *)
ExecStep(p) ==
  /\ \A q \in Instances : q # p => exec'[q] = exec[q]
  /\ ExecChange(p)
  /\ \A r \in Runs, q \in Instances : PhaseChange(p, r, q)
  /\ \A r \in Runs, q \in Instances : EffectChange(p, r, q)
  /\ \A r \in Runs : OwnerChange(p, r)
  /\ \A r \in Runs : StatusChange(r)
  /\ \A r \in Runs : LineageChange(r) /\ SourceChange(p, r)
  /\ UNCHANGED ctrl

LEMMA StepOfExec == ASSUME NEW p, ExecStep(p) PROVE Step(p)
  BY DEF ExecStep, Step, CtrlChange

LEMMA ExecutorSteps ==
  ASSUME TypeOK, NEW p \in Instances, Execute(p)
  PROVE  Step(p)
<1>1. ASSUME NEW r \in Runs, CreateRun(p, r) PROVE ExecStep(p)
  <2>1. exec'[p] = [Idle EXCEPT !.pc = "created", !.run = r]
        /\ \A q \in Instances : q # p => exec'[q] = exec[q]
    BY <1>1, ExecIs DEF CreateRun
  <2>2. exec'[p].pc = "created" /\ exec'[p].run = r
    BY <2>1 DEF Idle
  <2>3. status[r] = "absent" /\ \A t \in Runs : status'[t] = IF t = r THEN "running" ELSE status[t]
    BY <1>1 DEF CreateRun, TypeOK
  <2>4. ExecChange(p) /\ \A t \in Runs : StatusChange(t)
    BY <2>2, <2>3 DEF ExecChange, Selects, StatusChange, NotStarted, Ended
  <2> QED
    BY <1>1, <2>1, <2>4, PhaseKept, EffectsKept, OwnerKept, LineageKept DEF ExecStep, CreateRun
<1>2. ASSUME NEW r \in Runs, InspectSource(p, r) PROVE ExecStep(p)
  <2>1. exec'[p] = [Idle EXCEPT !.pc = "inspected", !.source = r, !.seen = status[r]]
        /\ \A q \in Instances : q # p => exec'[q] = exec[q]
    BY <1>2, ExecIs DEF InspectSource
  <2>2. exec'[p].pc = "inspected" /\ exec'[p].source = r
    BY <2>1 DEF Idle
  <2>3. Eligible(r) /\ (status[r] = "queued" /\ claim[r] = None => "prepare" \in Commands)
    BY <1>2 DEF InspectSource
  <2>4. ExecChange(p)
    BY <2>2, <2>3 DEF ExecChange, Selects
  <2> QED
    BY <1>2, <2>1, <2>4, PhaseKept, EffectsKept, OwnerKept, LineageKept, StatusKept
    DEF ExecStep, InspectSource, store
<1>3. ASSUME NEW r \in Runs, ReuseContinuation(p, r) PROVE ExecStep(p)
  <2>1. exec'[p] = [Idle EXCEPT !.pc = "prepared", !.run = r]
        /\ \A q \in Instances : q # p => exec'[q] = exec[q]
    BY <1>3, ExecIs DEF ReuseContinuation
  <2>2. exec'[p].pc = "prepared" /\ exec'[p].run = r
    BY <2>1 DEF Idle
  <2>3. exec[p].pc = "inspected" /\ claim[exec[p].source] = r /\ status[r] = "queued"
        /\ UNCHANGED <<status, claim>>
    BY <1>3 DEF ReuseContinuation, At, store
  <2>4. ExecChange(p)
    BY <2>2, <2>3 DEF ExecChange, Selects, NotStarted
  <2> QED
    BY <1>3, <2>1, <2>4, PhaseKept, EffectsKept, OwnerKept, LineageKept, StatusKept
    DEF ExecStep, ReuseContinuation, store
<1>4. ASSUME NEW r \in Runs, NewContinuation(p, r) PROVE ExecStep(p)
  <2> DEFINE s == exec[p].source
  <2> DEFINE next == IF exec[p].seen = "queued" THEN Idle ELSE [Idle EXCEPT !.pc = "prepared", !.run = r]
  <2>1. exec' = [exec EXCEPT ![p] = next] /\ exec[p].pc = "inspected"
    BY <1>4 DEF NewContinuation, At
  <2>2. next.pc = "idle" \/ (next.pc = "prepared" /\ next.run = r)
    BY DEF Idle
  <2>3. s \in Runs /\ claim[s] = None /\ status[r] = "absent"
    BY <1>4 DEF NewContinuation, Unclaimed, At, TypeOK, Task
  <2>4. /\ status' = [status EXCEPT ![r] = "queued"]
        /\ lineage' = [lineage EXCEPT ![r] = {s} \cup lineage[s]]
        /\ claim' = [claim EXCEPT ![s] = r]
    BY <1>4 DEF NewContinuation
  <2> HIDE DEF s, next
  <2>5. /\ \A t \in Runs : status'[t] = IF t = r THEN "queued" ELSE status[t]
        /\ \A t \in Runs : lineage'[t] = IF t = r THEN {s} \cup lineage[s] ELSE lineage[t]
        /\ \A t \in Runs : claim'[t] = IF t = s THEN r ELSE claim[t]
    BY <2>3, <2>4 DEF TypeOK
  <2>6. exec'[p] = next /\ \A q \in Instances : q # p => exec'[q] = exec[q]
    BY <2>1, ExecIs
  <2>7. ExecChange(p)
    <3>1. exec[p].source = s
      BY DEF s
    <3> QED
      BY <2>1, <2>2, <2>3, <2>5, <2>6, <3>1 DEF ExecChange, Selects, NotStarted
  <2>8. \A t \in Runs : StatusChange(t)
    BY <2>3, <2>5 DEF StatusChange, NotStarted, Ended
  <2>9. \A t \in Runs : LineageChange(t) /\ SourceChange(p, t)
    <3>1. exec[p].source = s
      BY DEF s
    <3> QED
      BY <2>1, <2>3, <2>5, <3>1 DEF LineageChange, SourceChange
  <2> QED
    BY <1>4, <2>6, <2>7, <2>8, <2>9, PhaseKept, EffectsKept, OwnerKept DEF ExecStep, NewContinuation
<1>5. ASSUME Abandon(p) PROVE ExecStep(p)
  <2>1. exec'[p] = Idle /\ \A q \in Instances : q # p => exec'[q] = exec[q]
    BY <1>5, ExecIs DEF Abandon
  <2>2. ExecChange(p)
    BY <2>1 DEF ExecChange, Idle
  <2> QED
    BY <1>5, <2>1, <2>2, PhaseKept, EffectsKept, OwnerKept, LineageKept, StatusKept
    DEF ExecStep, Abandon, store
<1>6. ASSUME ClaimOwner(p) PROVE ExecStep(p)
  <2> DEFINE r == exec[p].run
  <2>1. exec[p].pc \in {"created", "prepared"} /\ r \in Runs
    BY <1>6 DEF ClaimOwner, At, TypeOK, Task
  <2>2. /\ \A t \in Runs : OwnerChange(p, t)
        /\ ExecChange(p)
        /\ \A q \in Instances : q # p => exec'[q] = exec[q]
    <3>1. CASE Claimable(r)
      <4>1. Goto(p, "claimed") /\ owner' = [owner EXCEPT ![r] = p]
        BY <1>6, <3>1 DEF ClaimOwner
      <4>2. /\ exec'[p].pc = "claimed" /\ exec'[p].run = r
            /\ \A q \in Instances : q # p => exec'[q] = exec[q]
        BY <4>1, ExecGoes
      <4>3. \A t \in Runs : owner'[t] = IF t = r THEN p ELSE owner[t]
        BY <4>1, <2>1 DEF TypeOK
      <4>4. ~Alive(r)
        BY <3>1 DEF Claimable
      <4>5. \A t \in Runs : OwnerChange(p, t)
        BY <4>2, <4>3, <4>4 DEF OwnerChange
      <4>6. ExecChange(p)
        BY <2>1, <3>1, <4>2, <4>3 DEF ExecChange, Works, Goes
      <4> QED
        BY <4>2, <4>5, <4>6
    <3>2. CASE ~Claimable(r) /\ exec[p].pc = "created"
      <4>1. Goto(p, "refused") /\ UNCHANGED owner
        BY <1>6, <3>2 DEF ClaimOwner, Goto
      <4>2. /\ exec'[p].pc = "refused" /\ exec'[p].run = r
            /\ \A q \in Instances : q # p => exec'[q] = exec[q]
        BY <4>1, ExecGoes
      <4> QED
        BY <3>2, <4>1, <4>2, OwnerKept DEF ExecChange, Works, Goes
    <3>3. CASE ~Claimable(r) /\ exec[p].pc # "created"
      <4>1. exec' = [exec EXCEPT ![p] = Idle] /\ UNCHANGED owner
        BY <1>6, <3>3 DEF ClaimOwner
      <4>2. exec'[p] = Idle /\ \A q \in Instances : q # p => exec'[q] = exec[q]
        BY <4>1, ExecIs
      <4> QED
        BY <4>1, <4>2, OwnerKept DEF ExecChange, Idle
    <3> QED
      BY <3>1, <3>2, <3>3
  <2> QED
    BY <1>6, <2>2, PhaseKept, EffectsKept, LineageKept, StatusKept DEF ExecStep, ClaimOwner
<1>7. ASSUME MarkRunning(p) PROVE ExecStep(p)
  <2> DEFINE r == exec[p].run
  <2>1. exec[p].pc = "claimed" /\ r \in Runs
    BY <1>7 DEF MarkRunning, At, TypeOK, Task, Owning
  <2>2. CASE status[r] \in Ended
    <3>1. Goto(p, "finishing") /\ UNCHANGED status
      BY <1>7, <2>2 DEF MarkRunning
    <3>2. ExecChange(p) /\ \A q \in Instances : q # p => exec'[q] = exec[q]
      BY <2>1, <3>1, ExecGoes DEF ExecChange, Works, Goes, Owning
    <3> QED
      BY <1>7, <3>1, <3>2, PhaseKept, EffectsKept, OwnerKept, LineageKept, StatusKept
      DEF ExecStep, MarkRunning
  <2>3. CASE status[r] \notin Ended
    <3>1. Goto(p, "owned") /\ status' = [status EXCEPT ![r] = "running"]
      BY <1>7, <2>3 DEF MarkRunning
    <3>2. \A t \in Runs : status'[t] = IF t = r THEN "running" ELSE status[t]
      BY <3>1 DEF TypeOK
    <3>3. ExecChange(p) /\ \A q \in Instances : q # p => exec'[q] = exec[q]
      BY <2>1, <3>1, <3>2, ExecGoes DEF ExecChange, Works, Goes
    <3>4. \A t \in Runs : StatusChange(t)
      BY <2>3, <3>2 DEF StatusChange, NotStarted
    <3> QED
      BY <1>7, <3>3, <3>4, PhaseKept, EffectsKept, OwnerKept, LineageKept
      DEF ExecStep, MarkRunning
  <2> QED
    BY <2>2, <2>3
<1>8. ASSUME CheckLineage(p) PROVE ExecStep(p)
  <2> DEFINE pc == IF ~Settled(exec[p].run) THEN "finishing"
                   ELSE IF Inherits(exec[p].run) THEN "owned" ELSE "cleared"
  <2>1. exec[p].pc = "owned" /\ Goto(p, pc) /\ UNCHANGED <<phase, lineage>>
    BY <1>8 DEF CheckLineage, At, store
  <2>2. pc = "finishing" \/ pc = "owned" \/ (pc = "cleared" /\ ~Inherits(exec[p].run))
    OBVIOUS
  <2> HIDE DEF pc
  <2>3. ExecChange(p) /\ \A q \in Instances : q # p => exec'[q] = exec[q]
    BY <2>1, <2>2, ExecGoes DEF ExecChange, Works, Goes, Owning
  <2> QED
    BY <1>8, <2>3, PhaseKept, EffectsKept, OwnerKept, LineageKept, StatusKept
    DEF ExecStep, CheckLineage, store
<1>9. ASSUME Intend(p) PROVE ExecStep(p)
  <2> DEFINE r == exec[p].run
  <2>1. exec[p].pc = "cleared" /\ Goto(p, "ready") /\ Mark(r, p, "ready") /\ phase[r][p] = "none"
    BY <1>9 DEF Intend, At
  <2>2. exec'[p].pc = "ready" /\ exec'[p].run = r
        /\ \A q \in Instances : q # p => exec'[q] = exec[q]
    BY <2>1, ExecGoes
  <2>3. \A t \in Runs, q \in Instances :
          phase'[t][q] = IF t = r /\ q = p THEN "ready" ELSE phase[t][q]
    BY <2>1, MarkIs
  <2>4. ExecChange(p)
    BY <2>1, <2>2 DEF ExecChange, Works, Goes
  <2>5. \A t \in Runs, q \in Instances : PhaseChange(p, t, q)
    BY <2>1, <2>2, <2>3 DEF PhaseChange, OwnPhase
  <2> QED
    BY <1>9, <2>2, <2>4, <2>5, EffectsKept, OwnerKept, LineageKept, StatusKept
    DEF ExecStep, Intend, store
<1>10. ASSUME Dispatch(p) PROVE ExecStep(p)
  <2> DEFINE r == exec[p].run
  <2>1. exec[p].pc = "ready" /\ r \in Runs
    BY <1>10 DEF Dispatch, At, TypeOK, Task, Owning
  <2>2. CASE phase[r][p] = "ready"
    <3>1. Mark(r, p, "dispatched") /\ Goto(p, "dispatched")
      BY <1>10, <2>2 DEF Dispatch
    <3>2. exec'[p].pc = "dispatched" /\ exec'[p].run = r
          /\ \A q \in Instances : q # p => exec'[q] = exec[q]
      BY <3>1, ExecGoes
    <3>3. \A t \in Runs, q \in Instances :
            phase'[t][q] = IF t = r /\ q = p THEN "dispatched" ELSE phase[t][q]
      BY <3>1, MarkIs
    <3>4. ExecChange(p)
      BY <2>1, <3>2, <3>3 DEF ExecChange, Works, Goes
    <3>5. \A t \in Runs, q \in Instances : PhaseChange(p, t, q)
      BY <2>1, <2>2, <3>2, <3>3 DEF PhaseChange, OwnPhase
    <3> QED
      BY <1>10, <3>2, <3>4, <3>5, EffectsKept, OwnerKept, LineageKept, StatusKept
      DEF ExecStep, Dispatch, store
  <2>3. CASE phase[r][p] # "ready"
    <3>1. Goto(p, "finishing") /\ UNCHANGED phase
      BY <1>10, <2>3 DEF Dispatch
    <3>2. ExecChange(p) /\ \A q \in Instances : q # p => exec'[q] = exec[q]
      BY <2>1, <3>1, ExecGoes DEF ExecChange, Works, Goes, Owning
    <3> QED
      BY <1>10, <3>1, <3>2, PhaseKept, EffectsKept, OwnerKept, LineageKept, StatusKept
      DEF ExecStep, Dispatch, store
  <2> QED
    BY <2>2, <2>3
<1>11. ASSUME Perform(p) PROVE ExecStep(p)
  <2> DEFINE r == exec[p].run
  <2>1. exec[p].pc = "dispatched" /\ Goto(p, "performed") /\ effects' = effects \cup {<<r, p>>}
    BY <1>11 DEF Perform, At
  <2>2. exec'[p].pc = "performed" /\ exec'[p].run = r
        /\ \A q \in Instances : q # p => exec'[q] = exec[q]
    BY <2>1, ExecGoes
  <2>3. ExecChange(p) /\ Goes(p, {"dispatched"}, "performed")
    BY <2>1, <2>2 DEF ExecChange, Works, Goes
  <2>4. \A t \in Runs, q \in Instances : EffectChange(p, t, q)
    BY <2>1, <2>3 DEF EffectChange
  <2> QED
    BY <1>11, <2>2, <2>3, <2>4, PhaseKept, OwnerKept, LineageKept, StatusKept
    DEF ExecStep, Perform, store
<1>12. ASSUME Report(p) PROVE ExecStep(p)
  <2> DEFINE r == exec[p].run
             seen == IF exec[p].pc = "performed" THEN "done" ELSE "none"
  <2>1. exec[p].pc \in {"dispatched", "performed"} /\ r \in Runs
    BY <1>12 DEF Report, At, TypeOK, Task, Owning
  <2>2. CASE phase[r][p] = "dispatched"
    <3>1. PICK outcome \in {seen, "unknown"} :
            Mark(r, p, outcome) /\ Goto(p, IF outcome = "unknown" THEN "finishing" ELSE "owned")
      BY <1>12, <2>2 DEF Report
    <3> DEFINE pc == IF outcome = "unknown" THEN "finishing" ELSE "owned"
    <3>2. Goto(p, pc) /\ pc \in {"owned", "finishing"}
      BY <3>1
    <3> HIDE DEF pc
    <3>3. exec'[p].pc = pc /\ exec'[p].run = r
          /\ \A q \in Instances : q # p => exec'[q] = exec[q]
      BY <3>2, ExecGoes
    <3>4. \A t \in Runs, q \in Instances :
            phase'[t][q] = IF t = r /\ q = p THEN outcome ELSE phase[t][q]
      BY <3>1, MarkIs
    <3>5. outcome # "ready" /\ (outcome = "none" => exec[p].pc = "dispatched")
      BY <2>1
    <3>6. ExecChange(p)
      BY <2>1, <3>2, <3>3 DEF ExecChange, Works, Goes, Owning
    <3>7. \A t \in Runs, q \in Instances : PhaseChange(p, t, q)
      BY <2>1, <2>2, <3>2, <3>3, <3>4, <3>5 DEF PhaseChange, OwnPhase
    <3> QED
      BY <1>12, <3>3, <3>6, <3>7, EffectsKept, OwnerKept, LineageKept, StatusKept
      DEF ExecStep, Report, store
  <2>3. CASE phase[r][p] # "dispatched"
    <3>1. Goto(p, "finishing") /\ UNCHANGED phase
      BY <1>12, <2>3 DEF Report
    <3>2. ExecChange(p) /\ \A q \in Instances : q # p => exec'[q] = exec[q]
      BY <2>1, <3>1, ExecGoes DEF ExecChange, Works, Goes, Owning
    <3> QED
      BY <1>12, <3>1, <3>2, PhaseKept, EffectsKept, OwnerKept, LineageKept, StatusKept
      DEF ExecStep, Report, store
  <2> QED
    BY <2>2, <2>3
<1>13. ASSUME Stop(p) PROVE ExecStep(p)
  <2>1. ExecChange(p) /\ \A q \in Instances : q # p => exec'[q] = exec[q]
    BY <1>13, ExecGoes DEF Stop, ExecChange, Works, Goes, Owning
  <2> QED
    BY <1>13, <2>1, PhaseKept, EffectsKept, OwnerKept, LineageKept, StatusKept
    DEF ExecStep, Stop, store
<1>14. ASSUME NEW o \in {"completed", "stopped"}, FinishRun(p, o) PROVE ExecStep(p)
  <2>1. Goto(p, "releasing") /\ exec[p].pc \in {"owned", "finishing", "refused"}
        /\ status' = [status EXCEPT ![exec[p].run] = o]
    BY <1>14 DEF FinishRun, At
  <2>2. ExecChange(p) /\ \A q \in Instances : q # p => exec'[q] = exec[q]
    BY <2>1, ExecGoes DEF ExecChange, Works, Goes
  <2>3. \A t \in Runs : status'[t] \in {o, status[t]}
    BY <2>1 DEF TypeOK
  <2>4. \A t \in Runs : StatusChange(t)
    BY <2>3 DEF StatusChange, NotStarted, Ended
  <2> QED
    BY <1>14, <2>2, <2>4, PhaseKept, EffectsKept, OwnerKept, LineageKept DEF ExecStep, FinishRun
<1>15. ASSUME ReleaseOwner(p) PROVE ExecStep(p)
  <2>1. exec'[p] = Idle /\ \A q \in Instances : q # p => exec'[q] = exec[q]
    BY <1>15, ExecIs DEF ReleaseOwner
  <2>2. \A t \in Runs : owner'[t] = owner[t] \/ owner[t] = p
    BY <1>15, ReleasedKeeps DEF ReleaseOwner
  <2>3. ExecChange(p) /\ \A t \in Runs : OwnerChange(p, t)
    BY <2>1, <2>2 DEF ExecChange, OwnerChange, Idle
  <2> QED
    BY <1>15, <2>1, <2>3, PhaseKept, EffectsKept, LineageKept, StatusKept DEF ExecStep, ReleaseOwner
<1>16. ASSUME SaveFails(p) PROVE ExecStep(p)
  <2>1. Goto(p, "releasing") /\ exec[p].pc \in {"owned", "finishing", "refused"}
    BY <1>16 DEF SaveFails, At
  <2>2. ExecChange(p) /\ \A q \in Instances : q # p => exec'[q] = exec[q]
    BY <2>1, ExecGoes DEF ExecChange, Works, Goes
  <2> QED
    BY <1>16, <2>2, PhaseKept, EffectsKept, OwnerKept, LineageKept, StatusKept
    DEF ExecStep, SaveFails, store
<1>17. ExecStep(p)
  BY <1>1, <1>2, <1>3, <1>4, <1>5, <1>6, <1>7, <1>8, <1>9, <1>10, <1>11, <1>12, <1>13,
     <1>14, <1>15, <1>16 DEF Execute
<1> QED
  BY <1>17, StepOfExec

(* A step of recovery: no executor moves, no effect, no lineage.           *)
RecoveryStep(p) ==
  /\ UNCHANGED <<exec, owner, effects, lineage, claim>>
  /\ \A q \in Instances : q # p => ctrl'[q] = ctrl[q]
  /\ CtrlChange(p)
  /\ \A r \in Runs, q \in Instances : PhaseChange(p, r, q)
  /\ \A r \in Runs : StatusChange(r)

LEMMA StepOfRecovery == ASSUME NEW p, RecoveryStep(p) PROVE Step(p)
  BY EffectsKept, OwnerKept, LineageKept DEF RecoveryStep, Step, ExecChange

LEMMA RecoverySteps ==
  ASSUME TypeOK, "cancel" \notin Commands, NobodyCancels, NEW p \in Instances,
         Launch(p) \/ Startup(p) \/ Command(p) \/ Crash(p)
  PROVE  Step(p)
<1>1. ASSUME Launch(p) PROVE RecoveryStep(p)
  <2>1. ctrl'[p].pc = "startup" /\ \A q \in Instances : q # p => ctrl'[q] = ctrl[q]
    BY <1>1, CtrlGoes DEF Launch
  <2> QED
    BY <1>1, <2>1, PhaseKept, StatusKept DEF RecoveryStep, CtrlChange, Launch, store
<1>2. ASSUME RecoverRuns(p) PROVE RecoveryStep(p)
  <2>1. /\ ctrl'[p] = [Rest EXCEPT !.pc = "journals", !.todo = JournalsOf(Interrupted)]
        /\ \A q \in Instances : q # p => ctrl'[q] = ctrl[q]
    BY <1>2, CtrlIs DEF RecoverRuns
  <2>2. ctrl'[p].pc = "journals" /\ ctrl'[p].todo = JournalsOf(Interrupted)
    BY <2>1 DEF Rest
  <2>3. status' = [r \in Runs |-> IF r \in Interrupted THEN "interrupted" ELSE status[r]]
        /\ UNCHANGED <<lineage, claim, owner, phase, effects, exec>>
    BY <1>2 DEF RecoverRuns
  <2>4. CtrlChange(p)
    BY <2>2, <2>3 DEF CtrlChange
  <2>5. \A r \in Runs : StatusChange(r)
    BY <2>3 DEF StatusChange, NotStarted, Ended, Interrupted, Active
  <2> QED
    BY <2>1, <2>3, <2>4, <2>5, PhaseKept DEF RecoveryStep
<1>3. ASSUME NEW r \in Runs, RecoverOneJournal(p, r) PROVE RecoveryStep(p)
  <2>1. /\ ctrl'[p] = [ctrl[p] EXCEPT !.todo = ctrl[p].todo \ {r}]
        /\ \A q \in Instances : q # p => ctrl'[q] = ctrl[q]
    BY <1>3, CtrlIs DEF RecoverOneJournal
  <2>2. ctrl[p].pc = "journals" /\ r \in ctrl[p].todo /\ RecoverJournal(r)
    BY <1>3 DEF RecoverOneJournal, CtrlAt
  <2>3. ctrl'[p].pc = "journals" /\ ctrl'[p].todo = ctrl[p].todo \ {r}
    BY <2>1, <2>2 DEF TypeOK, Recovery
  <2>4. CtrlChange(p)
    BY <2>2, <2>3 DEF CtrlChange
  <2>5. \A t \in Runs, q \in Instances : PhaseChange(p, t, q)
    BY <2>2, RecoverIs DEF PhaseChange, Recovering
  <2> QED
    BY <1>3, <2>1, <2>4, <2>5, StatusKept DEF RecoveryStep, RecoverOneJournal, store
<1>4. ASSUME FinishStartup(p) PROVE RecoveryStep(p)
  <2>1. ctrl'[p] = Rest /\ \A q \in Instances : q # p => ctrl'[q] = ctrl[q]
    BY <1>4, CtrlIs DEF FinishStartup, CtrlRests
  <2> QED
    BY <1>4, <2>1, PhaseKept, StatusKept DEF RecoveryStep, CtrlChange, FinishStartup, store, Rest
<1>5. ASSUME NEW r \in Runs, CancelCheck(p, r) PROVE FALSE
  BY <1>5 DEF CancelCheck
<1>6. ASSUME CancelRecover(p) \/ CancelList(p) \/ CancelFinish(p) \/ CancelRelease(p)
             \/ \E q \in Instances : CancelWithdraw(p, q)
      PROVE  FALSE
  BY <1>6 DEF CancelRecover, CancelList, CancelFinish, CancelRelease, CancelWithdraw, CtrlAt,
              NobodyCancels, Cancelling
<1>7. ASSUME NEW r \in Runs, NEW q \in Instances, ReconcileCheck(p, r, q) PROVE RecoveryStep(p)
  <2>1. /\ ctrl'[p] = [Rest EXCEPT !.pc = "reconcile_recover", !.run = r, !.todo = {q}]
        /\ \A t \in Instances : t # p => ctrl'[t] = ctrl[t]
    BY <1>7, CtrlIs DEF ReconcileCheck
  <2>2. ctrl'[p].pc = "reconcile_recover" /\ ctrl'[p].run = r /\ ctrl'[p].todo = {q}
    BY <2>1 DEF Rest
  <2>3. CtrlChange(p)
    BY <1>7, <2>2 DEF CtrlChange, ReconcileCheck, Reconciling
  <2> QED
    BY <1>7, <2>1, <2>3, PhaseKept, StatusKept DEF RecoveryStep, ReconcileCheck, store
<1>8. ASSUME ReconcileRecover(p) PROVE RecoveryStep(p)
  <2>1. /\ ctrl'[p].pc = "reconcile_settle" /\ ctrl'[p].run = ctrl[p].run
        /\ ctrl'[p].todo = ctrl[p].todo
        /\ \A q \in Instances : q # p => ctrl'[q] = ctrl[q]
    BY <1>8, CtrlGoes DEF ReconcileRecover
  <2>2. ctrl[p].pc = "reconcile_recover" /\ RecoverJournal(ctrl[p].run)
    BY <1>8 DEF ReconcileRecover, CtrlAt
  <2>3. CtrlChange(p)
    BY <2>1, <2>2 DEF CtrlChange, Reconciling
  <2>4. \A t \in Runs, q \in Instances : PhaseChange(p, t, q)
    BY <2>2, RecoverIs DEF PhaseChange, Recovering, Reconciles, Reconciling
  <2> QED
    BY <1>8, <2>1, <2>3, <2>4, StatusKept DEF RecoveryStep, ReconcileRecover, store
<1>9. ASSUME NEW q \in Instances, ReconcileSettle(p, q) PROVE RecoveryStep(p)
  <2> DEFINE r == ctrl[p].run
             found == IF <<r, q>> \in effects THEN "done" ELSE "none"
  <2>1. ctrl'[p] = Rest /\ \A t \in Instances : t # p => ctrl'[t] = ctrl[t]
    BY <1>9, CtrlIs DEF ReconcileSettle, CtrlRests
  <2>2. Reconciles(p, r) /\ q \in ctrl[p].todo
    BY <1>9 DEF ReconcileSettle, CtrlAt, Reconciles, Reconciling
  <2>3. CASE phase[r][q] = "unknown"
    <3>1. Mark(r, q, found)
      BY <1>9, <2>3 DEF ReconcileSettle
    <3>2. \A t \in Runs, u \in Instances :
            phase'[t][u] = IF t = r /\ u = q THEN found ELSE phase[t][u]
      BY <3>1, MarkIs
    <3> QED
      BY <1>9, <2>1, <2>2, <2>3, <3>2, StatusKept
      DEF RecoveryStep, PhaseChange, CtrlChange, ReconcileSettle, store, Rest
  <2>4. CASE phase[r][q] # "unknown"
    BY <1>9, <2>1, <2>4, PhaseKept, StatusKept DEF RecoveryStep, CtrlChange, ReconcileSettle, store, Rest
  <2> QED
    BY <2>3, <2>4
<1>10. ASSUME Crash(p) PROVE Step(p)
  <2>1. exec'[p] = Idle /\ \A q \in Instances : q # p => exec'[q] = exec[q]
    BY <1>10, ExecIs DEF Crash
  <2>2. ctrl'[p] = Rest /\ \A q \in Instances : q # p => ctrl'[q] = ctrl[q]
    BY <1>10, CtrlIs DEF Crash, CtrlRests
  <2>3. \A t \in Runs : OwnerChange(p, t)
    BY <1>10, <2>1 DEF Crash, OwnerChange, Idle
  <2>4. ExecChange(p) /\ CtrlChange(p)
    BY <2>1, <2>2 DEF ExecChange, CtrlChange, Idle, Rest
  <2> QED
    BY <1>10, <2>1, <2>2, <2>3, <2>4, PhaseKept, EffectsKept, LineageKept, StatusKept DEF Step, Crash
<1> QED
  BY <1>1, <1>2, <1>3, <1>4, <1>5, <1>6, <1>7, <1>8, <1>9, <1>10, StepOfRecovery
  DEF Startup, Command

LEMMA StepsOf ==
  ASSUME TypeOK, "cancel" \notin Commands, NobodyCancels, Next
  PROVE  \E p \in Instances : Step(p)
  BY ExecutorSteps, RecoverySteps DEF Next

-----------------------------------------------------------------------------
(* The steps of a run.  Who executes it is named by its owner row.         *)
ExecutorsNamed == \A p \in Instances, r \in Runs : Executes(p, r) => owner[r] = p

(* A run that was not started has no steps, and nobody inspects them.      *)
UnstartedUntouched ==
  \A r \in Runs : status[r] \in NotStarted =>
    /\ \A p \in Instances : phase[r][p] = "none"
    /\ \A c \in Instances : ~Reconciles(c, r)
WorkersStarted ==
  \A p \in Instances, r \in Runs :
    exec[p].run = r /\ exec[p].pc \in Working => status[r] \notin NotStarted

(* An instance has no step in a run it has not begun to execute, and       *)
(* nobody inspects its step while it may write it.                         *)
StepsFresh ==
  \A p \in Instances, r \in Runs :
    exec[p].run = r /\ exec[p].pc \in Beginning => phase[r][p] = "none"
StepsAlone ==
  \A p, c \in Instances, r \in Runs :
    exec[p].run = r /\ exec[p].pc \in Beginning \cup Working /\ Reconciles(c, r)
      => p \notin ctrl[c].todo

(* A dispatch that is under way is on record, if only as a doubtful one,   *)
(* and it takes effect after it was recorded.                              *)
DispatchKnown ==
  \A p \in Instances, r \in Runs :
    exec[p].run = r /\ exec[p].pc \in {"dispatched", "performed"}
      => phase[r][p] \in {"dispatched", "unknown"}
EffectsLater ==
  \A p \in Instances, r \in Runs :
    exec[p].run = r /\ exec[p].pc \in {"ready", "dispatched"} => <<r, p>> \notin effects
EffectsDispatched ==
  \A r \in Runs, p \in Instances : <<r, p>> \in effects => phase[r][p] \notin {"none", "ready"}

StepInv ==
  /\ NobodyCancels /\ ExecutorsNamed /\ UnstartedUntouched /\ WorkersStarted
  /\ StepsFresh /\ StepsAlone /\ DispatchKnown /\ EffectsLater /\ EffectsDispatched

LEMMA StepInvInit == Init => StepInv
  BY DEF Init, StepInv, NobodyCancels, ExecutorsNamed, UnstartedUntouched, WorkersStarted,
     StepsFresh, StepsAlone, DispatchKnown, EffectsLater, EffectsDispatched, Executes, Owning,
     Idle, Rest, Cancelling, Reconciles, Reconciling, Working, Beginning

(* An executor at work was at work on that run, or just claimed it, ...    *)
LEMMA StillExecutes ==
  ASSUME TypeOK, TypeOK', NEW p \in Instances, Step(p), NEW q \in Instances, NEW r \in Runs,
         Executes(q, r)'
  PROVE  Executes(q, r) \/ (q = p /\ Claimable(r) /\ owner'[r] = p /\ exec'[p].pc = "claimed"
                              /\ exec[p].run = r /\ exec[p].pc \in {"created", "prepared"})
<1>1. CASE exec'[q] = exec[q]
  BY <1>1 DEF Executes
<1>2. CASE q = p /\ Selects(p)
  BY <1>2 DEF Selects, Executes, Owning
<1>3. CASE q = p /\ Works(p)
  BY <1>3 DEF Works, Goes, Executes, Owning
<1>4. CASE exec'[q].pc = "idle"
  BY <1>4 DEF Executes, Owning
<1> QED
  BY <1>1, <1>2, <1>3, <1>4 DEF Step, ExecChange

(* ... and one that begins was beginning, or chose a run that was not      *)
(* started.                                                                *)
LEMMA StillBegins ==
  ASSUME TypeOK, TypeOK', NEW p \in Instances, Step(p), NEW q \in Instances, NEW r \in Runs,
         exec'[q].run = r, exec'[q].pc \in Beginning
  PROVE  (exec[q].run = r /\ exec[q].pc \in Beginning) \/ status[r] \in NotStarted
<1>1. CASE exec'[q] = exec[q]
  BY <1>1
<1>2. CASE q = p /\ Selects(p)
  BY <1>2 DEF Selects, Beginning, NotStarted
<1>3. CASE q = p /\ Works(p)
  BY <1>3 DEF Works, Goes, Beginning
<1>4. CASE exec'[q].pc = "idle"
  BY <1>4 DEF Beginning
<1> QED
  BY <1>1, <1>2, <1>3, <1>4 DEF Step, ExecChange

LEMMA StillWorks ==
  ASSUME TypeOK, TypeOK', NEW p \in Instances, Step(p), NEW q \in Instances, NEW r \in Runs,
         exec'[q].run = r, exec'[q].pc \in Working
  PROVE  \/ exec[q].run = r /\ exec[q].pc \in Working
         \/ exec[q].run = r /\ exec[q].pc = "claimed" /\ status'[r] = "running"
<1>1. CASE exec'[q] = exec[q]
  BY <1>1
<1>2. CASE q = p /\ Selects(p)
  BY <1>2 DEF Selects, Working
<1>3. CASE q = p /\ Works(p)
  BY <1>3 DEF Works, Goes, Working
<1>4. CASE exec'[q].pc = "idle"
  BY <1>4 DEF Working
<1> QED
  BY <1>1, <1>2, <1>3, <1>4 DEF Step, ExecChange

LEMMA NobodyStarts ==
  ASSUME TypeOK, "cancel" \notin Commands, NobodyCancels, NEW p \in Instances, Step(p)
  PROVE  NobodyCancels'
  BY DEF NobodyCancels, Step, CtrlChange, Cancelling, Reconciling

LEMMA NamedKeeps ==
  ASSUME TypeOK, TypeOK', StepInv, NEW p \in Instances, Step(p)
  PROVE  ExecutorsNamed'
<1> SUFFICES ASSUME NEW q \in Instances, NEW r \in Runs, Executes(q, r)' PROVE owner'[r] = q
  BY DEF ExecutorsNamed
<1>1. CASE Executes(q, r)
  <2>1. owner[r] = q /\ Alive(r)
    BY <1>1 DEF StepInv, ExecutorsNamed, Alive
  <2>2. exec'[q].pc # "idle"
    BY DEF Executes, Owning
  <2> QED
    BY <2>1, <2>2 DEF Step, OwnerChange
<1> QED
  BY <1>1, StillExecutes

LEMMA UnstartedKeeps ==
  ASSUME TypeOK, TypeOK', StepInv, NEW p \in Instances, Step(p)
  PROVE  UnstartedUntouched'
<1> SUFFICES ASSUME NEW r \in Runs, status'[r] \in NotStarted
             PROVE  /\ \A q \in Instances : phase'[r][q] = "none"
                    /\ \A c \in Instances : ~Reconciles(c, r)'
  BY DEF UnstartedUntouched
<1>1. /\ \A q \in Instances : phase[r][q] = "none"
      /\ \A c \in Instances : ~Reconciles(c, r)
      /\ \A q \in Instances : ~(exec[q].run = r /\ exec[q].pc \in Working)
  BY DEF Step, StatusChange, StepInv, UnstartedUntouched, WorkersStarted
<1>2. ASSUME NEW q \in Instances PROVE phase'[r][q] = "none"
  <2>1. PhaseChange(p, r, q)
    BY DEF Step
  <2> QED
    BY <1>1, <2>1 DEF PhaseChange, OwnPhase, Working
<1>3. ASSUME NEW c \in Instances, Reconciles(c, r)' PROVE FALSE
  <2>1. c = p /\ CtrlChange(p)
    BY <1>1, <1>3 DEF Step, Reconciles
  <2> QED
    BY <1>1, <1>3, <2>1 DEF CtrlChange, Reconciles, Reconciling
<1> QED
  BY <1>2, <1>3

LEMMA WorkersKeep ==
  ASSUME TypeOK, TypeOK', StepInv, NEW p \in Instances, Step(p)
  PROVE  WorkersStarted'
<1> SUFFICES ASSUME NEW q \in Instances, NEW r \in Runs, exec'[q].run = r, exec'[q].pc \in Working
             PROVE  status'[r] \notin NotStarted
  BY DEF WorkersStarted
<1>1. CASE exec[q].run = r /\ exec[q].pc \in Working
  BY <1>1 DEF StepInv, WorkersStarted, Step, StatusChange
<1>2. CASE status'[r] = "running"
  BY <1>2 DEF NotStarted
<1> QED
  BY <1>1, <1>2, StillWorks

LEMMA FreshKeeps ==
  ASSUME TypeOK, TypeOK', StepInv, NEW p \in Instances, Step(p)
  PROVE  StepsFresh'
<1> SUFFICES ASSUME NEW q \in Instances, NEW r \in Runs, exec'[q].run = r, exec'[q].pc \in Beginning
             PROVE  phase'[r][q] = "none"
  BY DEF StepsFresh
<1>1. phase[r][q] = "none"
  BY StillBegins DEF StepInv, StepsFresh, UnstartedUntouched
<1>2. PhaseChange(p, r, q)
  BY DEF Step
<1> QED
  BY <1>1, <1>2 DEF PhaseChange, OwnPhase, Beginning

LEMMA AloneKeeps ==
  ASSUME TypeOK, TypeOK', StepInv, NEW p \in Instances, Step(p)
  PROVE  StepsAlone'
<1> SUFFICES ASSUME NEW q \in Instances, NEW c \in Instances, NEW r \in Runs, exec'[q].run = r,
                    exec'[q].pc \in Beginning \cup Working, Reconciles(c, r)'
             PROVE  q \notin ctrl'[c].todo
  BY DEF StepsAlone
<1>1. \/ exec[q].run = r /\ exec[q].pc \in Beginning \cup Working
      \/ status[r] \in NotStarted
  <2>1. CASE exec'[q].pc \in Beginning
    BY <2>1, StillBegins
  <2>2. CASE exec'[q].pc \in Working
    <3>1. "claimed" \in Beginning
      BY DEF Beginning
    <3> QED
      BY <2>2, <3>1, StillWorks
  <2> QED
    BY <2>1, <2>2
<1>2. CASE Reconciles(c, r) /\ ctrl'[c].todo = ctrl[c].todo
  BY <1>1, <1>2 DEF StepInv, StepsAlone, UnstartedUntouched
<1>3. CASE /\ ~Alive(r) /\ \A t \in ctrl'[c].todo : phase[r][t] # "none"
           /\ UNCHANGED exec
  <2>1. ~Executes(q, r)
    BY <1>3 DEF StepInv, ExecutorsNamed, Alive
  <2>2. exec[q].run = r /\ exec[q].pc \in Beginning
    BY <1>3, <2>1 DEF Executes, Owning, Working, Beginning
  <2>3. phase[r][q] = "none"
    BY <2>2 DEF StepInv, StepsFresh
  <2> QED
    BY <1>3, <2>3
<1>4. c # p => ctrl'[c] = ctrl[c]
  BY DEF Step
<1>5. CtrlChange(p)
  BY DEF Step
<1> QED
  BY <1>2, <1>3, <1>4, <1>5 DEF CtrlChange, Reconciles, Reconciling

LEMMA KnownKeeps ==
  ASSUME TypeOK, TypeOK', StepInv, NEW p \in Instances, Step(p)
  PROVE  DispatchKnown'
<1> SUFFICES ASSUME NEW q \in Instances, NEW r \in Runs, exec'[q].run = r,
                    exec'[q].pc \in {"dispatched", "performed"}
             PROVE  phase'[r][q] \in {"dispatched", "unknown"}
  BY DEF DispatchKnown
<1>1. \/ exec[q].run = r /\ exec[q].pc \in {"dispatched", "performed"}
      \/ phase'[r][q] = "dispatched"
  <2>1. CASE exec'[q] = exec[q]
    BY <2>1
  <2>2. CASE q = p /\ Selects(p)
    BY <2>2 DEF Selects
  <2>3. CASE q = p /\ Works(p)
    BY <2>3 DEF Works, Goes
  <2> QED
    BY <2>1, <2>2, <2>3 DEF Step, ExecChange
<1>2. ASSUME exec[q].run = r, exec[q].pc \in {"dispatched", "performed"}
      PROVE  phase'[r][q] \in {"dispatched", "unknown"}
  <2>1. phase[r][q] \in {"dispatched", "unknown"}
    BY <1>2 DEF StepInv, DispatchKnown
  <2>2. ~(Reconciles(p, r) /\ q \in ctrl[p].todo)
    BY <1>2 DEF StepInv, StepsAlone, Working
  <2>3. PhaseChange(p, r, q)
    BY DEF Step
  <2> QED
    BY <1>2, <2>1, <2>2, <2>3 DEF PhaseChange, OwnPhase
<1> QED
  BY <1>1, <1>2

LEMMA LaterKeeps ==
  ASSUME TypeOK, TypeOK', StepInv, NEW p \in Instances, Step(p)
  PROVE  EffectsLater'
<1> SUFFICES ASSUME NEW q \in Instances, NEW r \in Runs, exec'[q].run = r,
                    exec'[q].pc \in {"ready", "dispatched"}
             PROVE  <<r, q>> \notin effects'
  BY DEF EffectsLater
<1>1. \/ exec[q].run = r /\ exec[q].pc \in {"ready", "dispatched"}
      \/ exec[q].run = r /\ phase[r][q] = "none"
  <2>1. CASE exec'[q] = exec[q]
    BY <2>1
  <2>2. CASE q = p /\ Selects(p)
    BY <2>2 DEF Selects
  <2>3. CASE q = p /\ Works(p)
    BY <2>3 DEF Works, Goes
  <2> QED
    BY <2>1, <2>2, <2>3 DEF Step, ExecChange
<1>2. <<r, q>> \notin effects
  BY <1>1 DEF StepInv, EffectsLater, EffectsDispatched
<1>3. EffectChange(p, r, q)
  BY DEF Step
<1> QED
  BY <1>2, <1>3 DEF EffectChange, Goes

LEMMA EffectsKeep ==
  ASSUME TypeOK, TypeOK', StepInv, DispatchKnown', NEW p \in Instances, Step(p)
  PROVE  EffectsDispatched'
<1> SUFFICES ASSUME NEW r \in Runs, NEW q \in Instances, <<r, q>> \in effects'
             PROVE  phase'[r][q] \notin {"none", "ready"}
  BY DEF EffectsDispatched
<1>1. CASE <<r, q>> \in effects
  <2>1. phase[r][q] \notin {"none", "ready"}
    BY <1>1 DEF StepInv, EffectsDispatched
  <2>2. ~(exec[q].run = r /\ exec[q].pc = "dispatched")
    BY <1>1 DEF StepInv, EffectsLater
  <2>3. PhaseChange(p, r, q)
    BY DEF Step
  <2>4. phase[r][q] \in Phases /\ phase'[r][q] \in Phases
    BY DEF TypeOK
  <2>5. ~(q = p /\ exec[p].run = r /\ OwnPhase(p, r) /\ phase'[r][q] \in {"none", "ready"})
    BY <2>1, <2>2 DEF OwnPhase
  <2> QED
    BY <1>1, <2>1, <2>3, <2>5 DEF PhaseChange
<1>2. CASE <<r, q>> \notin effects
  <2>1. EffectChange(p, r, q)
    BY DEF Step
  <2>2. exec'[q].run = r /\ exec'[q].pc = "performed"
    BY <1>2, <2>1 DEF EffectChange, Goes
  <2> QED
    BY <2>2 DEF DispatchKnown
<1> QED
  BY <1>1, <1>2

LEMMA StepInvStep ==
  ASSUME "cancel" \notin Commands
  PROVE  TypeOK /\ StepInv /\ [Next]_vars => StepInv'
<1> SUFFICES ASSUME TypeOK, StepInv, [Next]_vars PROVE StepInv'
  OBVIOUS
<1>1. TypeOK'
  BY TypeStep
<1>2. CASE UNCHANGED vars
  BY <1>2 DEF vars, StepInv, NobodyCancels, ExecutorsNamed, UnstartedUntouched, WorkersStarted,
     StepsFresh, StepsAlone, DispatchKnown, EffectsLater, EffectsDispatched, Executes, Reconciles
<1>3. CASE Next
  <2>1. PICK p \in Instances : Step(p)
    BY <1>3, StepsOf DEF StepInv
  <2>2. NobodyCancels'
    BY <2>1, NobodyStarts DEF StepInv
  <2>3. DispatchKnown'
    BY <1>1, <2>1, KnownKeeps
  <2> QED
    BY <1>1, <2>1, <2>2, <2>3, NamedKeeps, UnstartedKeeps, WorkersKeep, FreshKeeps, AloneKeeps,
       LaterKeeps, EffectsKeep DEF StepInv
<1> QED
  BY <1>2, <1>3

(* No recovery but a cancel puts an effect on record as a failure: what    *)
(* took effect was dispatched first, its executor says "failed" before it  *)
(* performs only, and an inspection looks at the workspace.  (The commands  *)
(* of run ownership_recovery.)                                             *)
THEOREM EffectsAreRecorded ==
  ASSUME "cancel" \notin Commands
  PROVE  Spec => []EffectsRecorded
<1>1. Init => TypeOK /\ StepInv
  BY TypeInit, StepInvInit
<1>2. TypeOK /\ StepInv /\ [Next]_vars => TypeOK' /\ StepInv'
  BY TypeStep, StepInvStep
<1>3. StepInv => EffectsRecorded
  BY DEF StepInv, EffectsDispatched, EffectsRecorded
<1> QED
  BY <1>1, <1>2, <1>3, PTL DEF Spec

-----------------------------------------------------------------------------
(* The first run of a conversation.  What start-up is about to recover     *)
(* nobody executes, and nobody will, ...                                   *)
RecoveredEnded ==
  \A c \in Instances, r \in Runs : ctrl[c].pc = "journals" /\ r \in ctrl[c].todo =>
    status[r] \in Ended /\ \A p \in Instances : ~Executes(p, r)

(* ... and a run that continues nothing is its creator's alone.            *)
Has(p, r) == exec[p].run = r /\ exec[p].pc \in Busy
PresentRuns == \A p \in Instances, r \in Runs : Has(p, r) => status[r] # "absent"
PreparedContinues ==
  \A p \in Instances, r \in Runs : exec[p].run = r /\ exec[p].pc = "prepared" => lineage[r] # {}
ClaimsContinue == \A r, s \in Runs : claim[s] = r => lineage[r] # {}
FirstAlone ==
  \A p \in Instances, r \in Runs : Has(p, r) /\ lineage[r] = {} =>
    /\ \A q \in Instances : Has(q, r) => p = q
    /\ exec[p].pc # "releasing" =>
         /\ \A q \in Instances : q # p => phase[r][q] = "none"
         /\ \A c \in Instances : ~Reconciles(c, r)

FirstInv ==
  /\ RecoveredEnded /\ PresentRuns /\ PreparedContinues /\ ClaimsContinue /\ FirstAlone
  /\ FirstDispatchStands

LEMMA FirstInit == Init => FirstInv
  BY OwnershipConstants
  DEF Init, FirstInv, RecoveredEnded, PresentRuns, PreparedContinues, ClaimsContinue, FirstAlone,
      FirstDispatchStands, Has, Busy, Idle, Rest, OwnershipConstants

LEMMA RecoveredKeeps ==
  ASSUME TypeOK, TypeOK', StepInv, FirstInv, NEW p \in Instances, Step(p)
  PROVE  RecoveredEnded'
<1> SUFFICES ASSUME NEW c \in Instances, NEW r \in Runs, ctrl'[c].pc = "journals",
                    r \in ctrl'[c].todo
             PROVE  status'[r] \in Ended /\ \A q \in Instances : ~Executes(q, r)'
  BY DEF RecoveredEnded
<1>1. CASE ctrl[c].pc = "journals" /\ r \in ctrl[c].todo
  <2>1. status[r] \in Ended /\ \A q \in Instances : ~Executes(q, r)
    BY <1>1 DEF FirstInv, RecoveredEnded
  <2>2. ~Claimable(r)
    BY <2>1 DEF Claimable, Active, Ended
  <2>3. status'[r] \in Ended
    BY <2>1 DEF Step, StatusChange
  <2> QED
    BY <2>1, <2>2, <2>3, StillExecutes
<1>2. CASE /\ ctrl'[c].todo = JournalsOf(Interrupted) /\ UNCHANGED exec
           /\ status' = [t \in Runs |-> IF t \in Interrupted THEN "interrupted" ELSE status[t]]
  <2>1. ~Alive(r)
    BY <1>2 DEF JournalsOf, Interrupted
  <2>2. \A q \in Instances : ~Executes(q, r)
    BY <2>1 DEF StepInv, ExecutorsNamed, Alive
  <2>3. r \in Interrupted \/ status[r] \in Ended
    <3>1. CASE Lost(r) /\ r \notin Interrupted
      <4>1. PICK q \in Instances : phase[r][q] = "dispatched"
        BY <3>1 DEF Lost
      <4>2. ~Inert(r) /\ status[r] \notin NotStarted
        BY <4>1 DEF Inert, StepInv, UnstartedUntouched
      <4>3. status[r] \in Status
        BY DEF TypeOK
      <4> QED
        BY <2>1, <3>1, <4>2, <4>3 DEF Interrupted, Status, NotStarted
    <3> QED
      BY <1>2, <3>1 DEF JournalsOf
  <2>4. status'[r] \in Ended
    BY <1>2, <2>3 DEF Ended
  <2> QED
    BY <1>2, <2>2, <2>4 DEF Executes
<1>3. CtrlChange(p) /\ (c # p => ctrl'[c] = ctrl[c])
  BY DEF Step
<1> QED
  BY <1>1, <1>2, <1>3 DEF CtrlChange, Reconciling

(* Whoever has a run had it, or created it or prepared it.                 *)
LEMMA StillHas ==
  ASSUME TypeOK, TypeOK', NEW p \in Instances, Step(p), NEW q \in Instances, NEW r \in Runs,
         Has(q, r)'
  PROVE  \/ Has(q, r) /\ exec[q].pc # "releasing"
         \/ Has(q, r) /\ exec'[q] = exec[q]
         \/ q = p /\ exec'[q].pc = "created" /\ status[r] = "absent" /\ status'[r] = "running"
         \/ q = p /\ exec'[q].pc = "prepared" /\ status'[r] = "queued"
              /\ exec[q].pc = "inspected" /\ claim'[exec[q].source] = r
<1>1. CASE exec'[q] = exec[q]
  BY <1>1 DEF Has
<1>2. CASE q = p /\ Selects(p)
  BY <1>2 DEF Selects, Has, Busy
<1>3. CASE q = p /\ Works(p)
  BY <1>3 DEF Works, Goes, Has, Busy, Places, Owning
<1>4. CASE exec'[q].pc = "idle"
  BY <1>4 DEF Has, Busy
<1> QED
  BY <1>1, <1>2, <1>3, <1>4 DEF Step, ExecChange

LEMMA PresentKeeps ==
  ASSUME TypeOK, TypeOK', FirstInv, NEW p \in Instances, Step(p)
  PROVE  PresentRuns'
<1> SUFFICES ASSUME NEW q \in Instances, NEW r \in Runs, Has(q, r)' PROVE status'[r] # "absent"
  BY DEF PresentRuns
<1>1. CASE Has(q, r)
  BY <1>1 DEF FirstInv, PresentRuns, Step, StatusChange
<1> QED
  BY <1>1, StillHas

LEMMA ClaimsKeep ==
  ASSUME TypeOK, TypeOK', FirstInv, NEW p \in Instances, Step(p)
  PROVE  ClaimsContinue'
<1> SUFFICES ASSUME NEW r \in Runs, NEW s \in Runs, claim'[s] = r PROVE lineage'[r] # {}
  BY DEF ClaimsContinue
<1>1. SourceChange(p, s) /\ LineageChange(r)
  BY DEF Step
<1> QED
  BY <1>1 DEF SourceChange, LineageChange, FirstInv, ClaimsContinue

LEMMA PreparedKeeps ==
  ASSUME TypeOK, TypeOK', FirstInv, ClaimsContinue', NEW p \in Instances, Step(p)
  PROVE  PreparedContinues'
<1> SUFFICES ASSUME NEW q \in Instances, NEW r \in Runs, exec'[q].run = r, exec'[q].pc = "prepared"
             PROVE  lineage'[r] # {}
  BY DEF PreparedContinues
<1>1. CASE exec'[q] = exec[q]
  <2>1. lineage[r] # {}
    BY <1>1 DEF FirstInv, PreparedContinues
  <2>2. LineageChange(r)
    BY DEF Step
  <2> QED
    BY <2>1, <2>2 DEF LineageChange
<1>2. CASE q = p /\ Selects(p)
  <2>1. claim'[exec[p].source] = r /\ exec[p].source \in Runs
    BY <1>2 DEF Selects, TypeOK, Task
  <2> QED
    BY <2>1 DEF ClaimsContinue
<1>3. CASE q = p /\ Works(p)
  BY <1>3 DEF Works, Goes
<1> QED
  BY <1>1, <1>2, <1>3 DEF Step, ExecChange

LEMMA FirstKeeps ==
  ASSUME TypeOK, TypeOK', StepInv, FirstInv, ClaimsContinue', PreparedContinues',
         NEW p \in Instances, Step(p)
  PROVE  FirstAlone'
<1> SUFFICES ASSUME NEW q \in Instances, NEW r \in Runs, Has(q, r)', lineage'[r] = {}
             PROVE  /\ \A t \in Instances : Has(t, r)' => q = t
                    /\ exec'[q].pc # "releasing" =>
                         /\ \A t \in Instances : t # q => phase'[r][t] = "none"
                         /\ \A c \in Instances : ~Reconciles(c, r)'
  BY DEF FirstAlone
<1>1. lineage[r] = {}
  BY DEF Step, LineageChange
<1>2. \A t \in Instances : ~(exec'[t].run = r /\ exec'[t].pc = "prepared")
  BY DEF PreparedContinues
<1>3. \A t \in Instances : Has(t, r)' => exec'[t].run = r
  BY DEF Has
<1>4. CASE q = p /\ status[r] = "absent"
  <2>1. \A t \in Instances : ~Has(t, r)
    BY <1>4 DEF FirstInv, PresentRuns
  <2>2. \A t \in Instances : Has(t, r)' => t = p
    BY <2>1, StillHas
  <2>3. /\ \A t \in Instances : phase[r][t] = "none"
        /\ \A c \in Instances : ~Reconciles(c, r)
    BY <1>4 DEF StepInv, UnstartedUntouched, NotStarted
  <2>4. exec[p].run = r => exec[p].pc \notin Busy
    BY <2>1 DEF Has
  <2>5. ASSUME NEW t \in Instances PROVE phase'[r][t] = "none"
    <3>1. PhaseChange(p, r, t)
      BY DEF Step
    <3> QED
      BY <2>3, <2>4, <3>1 DEF PhaseChange, OwnPhase, Busy, Places, Owning
  <2>6. ASSUME NEW c \in Instances, Reconciles(c, r)' PROVE FALSE
    <3>1. c = p /\ CtrlChange(p)
      BY <2>3, <2>6 DEF Step, Reconciles
    <3> QED
      BY <2>3, <2>6, <3>1 DEF CtrlChange, Reconciles, Reconciling
  <2> QED
    BY <1>4, <2>2, <2>5, <2>6
<1>5. CASE Has(q, r) /\ (exec[q].pc # "releasing" \/ exec'[q] = exec[q])
  <2>1. /\ status[r] # "absent"
        /\ \A t \in Instances : Has(t, r) => q = t
    BY <1>1, <1>5 DEF FirstInv, PresentRuns, FirstAlone
  <2>2. \A t \in Instances : Has(t, r)' => q = t
    BY <1>2, <1>3, <2>1, StillHas
  <2>3. ASSUME exec'[q].pc # "releasing"
        PROVE  /\ \A t \in Instances : t # q => phase'[r][t] = "none"
               /\ \A c \in Instances : ~Reconciles(c, r)'
    <3>1. exec[q].pc # "releasing"
      BY <1>5, <2>3
    <3>2. /\ \A t \in Instances : t # q => phase[r][t] = "none"
          /\ \A c \in Instances : ~Reconciles(c, r)
      BY <1>1, <1>5, <3>1 DEF FirstInv, FirstAlone
    <3>3. ASSUME NEW t \in Instances, t # q PROVE phase'[r][t] = "none"
      <4>1. PhaseChange(p, r, t) /\ phase[r][t] = "none"
        BY <3>2, <3>3 DEF Step
      <4>2. ~(exec[t].run = r /\ exec[t].pc = "cleared")
        BY <2>1, <3>3 DEF Has, Busy, Places, Owning
      <4> QED
        BY <4>1, <4>2 DEF PhaseChange, OwnPhase
    <3>4. ASSUME NEW c \in Instances, Reconciles(c, r)' PROVE FALSE
      <4>1. c = p /\ CtrlChange(p)
        BY <3>2, <3>4 DEF Step, Reconciles
      <4>2. /\ ~Alive(r)
            /\ \E t \in Instances : t \in ctrl'[p].todo
            /\ \A t \in ctrl'[p].todo : phase[r][t] # "none"
        BY <3>2, <3>4, <4>1 DEF CtrlChange, Reconciles, Reconciling
      <4>3. phase[r][q] # "none"
        BY <3>2, <4>2
      <4>4. ~Executes(q, r)
        BY <4>2 DEF StepInv, ExecutorsNamed, Alive
      <4>5. exec[q].run = r /\ exec[q].pc \in Beginning
        BY <1>5, <3>1, <4>4 DEF Has, Busy, Places, Executes, Beginning
      <4> QED
        BY <4>3, <4>5 DEF StepInv, StepsFresh
    <3> QED
      BY <3>3, <3>4
  <2> QED
    BY <2>2, <2>3
<1> QED
  BY <1>2, <1>3, <1>4, <1>5, StillHas

LEMMA FirstStands ==
  ASSUME TypeOK, TypeOK', StepInv, FirstInv, NEW p \in Instances, Step(p)
  PROVE  FirstDispatchStands'
<1> SUFFICES ASSUME NEW q \in Instances, NEW r \in Runs, exec'[q].run = r, lineage'[r] = {},
                    exec'[q].pc \in {"dispatched", "performed"}
             PROVE  phase'[r][q] = "dispatched"
  BY DEF FirstDispatchStands
<1>1. lineage[r] = {}
  BY DEF Step, LineageChange
<1>2. \/ exec[q].run = r /\ exec[q].pc \in {"dispatched", "performed"}
      \/ phase'[r][q] = "dispatched"
  <2>1. CASE exec'[q] = exec[q]
    BY <2>1
  <2>2. CASE q = p /\ Selects(p)
    BY <2>2 DEF Selects
  <2>3. CASE q = p /\ Works(p)
    BY <2>3 DEF Works, Goes
  <2> QED
    BY <2>1, <2>2, <2>3 DEF Step, ExecChange
<1>3. ASSUME exec[q].run = r, exec[q].pc \in {"dispatched", "performed"}
      PROVE  phase'[r][q] = "dispatched"
  <2>1. phase[r][q] = "dispatched"
    BY <1>1, <1>3 DEF FirstInv, FirstDispatchStands
  <2>2. Has(q, r) /\ Executes(q, r) /\ exec[q].pc # "releasing"
    BY <1>3 DEF Has, Busy, Places, Executes, Owning
  <2>3. ~Recovering(p, r)
    BY <1>1, <2>2 DEF FirstInv, FirstAlone, RecoveredEnded, Recovering
  <2>4. PhaseChange(p, r, q)
    BY DEF Step
  <2> QED
    BY <1>3, <2>1, <2>3, <2>4 DEF PhaseChange, OwnPhase
<1> QED
  BY <1>2, <1>3

LEMMA FirstStep ==
  ASSUME "cancel" \notin Commands
  PROVE  TypeOK /\ StepInv /\ FirstInv /\ [Next]_vars => FirstInv'
<1> SUFFICES ASSUME TypeOK, StepInv, FirstInv, [Next]_vars PROVE FirstInv'
  OBVIOUS
<1>1. TypeOK'
  BY TypeStep
<1>2. CASE UNCHANGED vars
  BY <1>2 DEF vars, FirstInv, RecoveredEnded, PresentRuns, PreparedContinues, ClaimsContinue,
     FirstAlone, FirstDispatchStands, Has, Executes, Reconciles
<1>3. CASE Next
  <2>1. PICK p \in Instances : Step(p)
    BY <1>3, StepsOf DEF StepInv
  <2>2. ClaimsContinue'
    BY <1>1, <2>1, ClaimsKeep
  <2>3. PreparedContinues'
    BY <1>1, <2>1, <2>2, PreparedKeeps
  <2> QED
    BY <1>1, <2>1, <2>2, <2>3, RecoveredKeeps, PresentKeeps, FirstKeeps, FirstStands DEF FirstInv
<1> QED
  BY <1>2, <1>3

(* Start-up recovery and reconcile leave the dispatch of a first run alone *)
(* while its executor waits for the outcome: its owner is alive, and        *)
(* whatever they are writing of a run they judged dead can no longer be     *)
(* executed.                                                               *)
THEOREM FirstDispatchesStand ==
  ASSUME "cancel" \notin Commands
  PROVE  Spec => []FirstDispatchStands
<1>1. Init => TypeOK /\ StepInv /\ FirstInv
  BY TypeInit, StepInvInit, FirstInit
<1>2. TypeOK /\ StepInv /\ FirstInv /\ [Next]_vars => TypeOK' /\ StepInv' /\ FirstInv'
  BY TypeStep, StepInvStep, FirstStep
<1>3. FirstInv => FirstDispatchStands
  BY DEF FirstInv
<1> QED
  BY <1>1, <1>2, <1>3, PTL DEF Spec

(* The three marks differ.                                                 *)
LEMMA ThreeMarks == None # Dead /\ None # Unreadable /\ Dead # Unreadable
<1>1. Cardinality({}) = 0 /\ IsFiniteSet({})
  BY FS_EmptySet
<1>2. \A x : Cardinality({x}) = 1 /\ IsFiniteSet({x})
  BY FS_Singleton
<1>3. \A x, y : Cardinality({x, y}) <= 2
  <2> SUFFICES ASSUME NEW x, NEW y PROVE Cardinality({x, y}) <= 2
    OBVIOUS
  <2>1. {x, y} = {x} \cup {y}
    OBVIOUS
  <2>2. Cardinality({x} \cup {y}) = IF y \in {x} THEN Cardinality({x}) ELSE Cardinality({x}) + 1
    BY <1>2, FS_AddElement
  <2>3. Cardinality({x}) = 1
    BY <1>2
  <2> QED
    BY <2>1, <2>2, <2>3
<1>4. \A x, y : Cardinality({x, y}) # 3
  BY <1>3
<1>5. ASSUME None = Dead PROVE FALSE
  <2>1. {None, Dead, Unreadable} = {Dead, Unreadable}
    BY <1>5
  <2> QED
    BY <1>4, <2>1, OwnershipConstants DEF OwnershipConstants
<1>6. ASSUME None = Unreadable PROVE FALSE
  <2>1. {None, Dead, Unreadable} = {Dead, Unreadable}
    BY <1>6
  <2> QED
    BY <1>4, <2>1, OwnershipConstants DEF OwnershipConstants
<1>7. ASSUME Dead = Unreadable PROVE FALSE
  <2>1. {None, Dead, Unreadable} = {None, Dead}
    BY <1>7
  <2> QED
    BY <1>4, <2>1, OwnershipConstants DEF OwnershipConstants
<1> QED
  BY <1>5, <1>6, <1>7

-----------------------------------------------------------------------------
(* Restarts.  As long as no process died and no final save failed, a       *)
(* continuation that is running has an owner row, from its claim until it  *)
(* is over, by every command: nobody claims it then.                       *)
RunningOwned ==
  \A r \in Runs : faults = 0 /\ status[r] = "running" /\ lineage[r] # {} => owner[r] # None
ReleasingEnded ==
  \A p \in Instances, r \in Runs :
    faults = 0 /\ exec[p].run = r /\ exec[p].pc = "releasing" => status[r] \in Ended
CreatedFirst ==
  \A p \in Instances, r \in Runs :
    exec[p].run = r /\ exec[p].pc = "created" => status[r] # "absent" /\ lineage[r] = {}

RestartInv ==
  /\ RunningOwned /\ ReleasingEnded /\ CreatedFirst /\ PreparedContinues /\ ClaimsContinue

(* What a step does to running, owned and chosen runs.                     *)
RunsOn(r) ==
  /\ status'[r] = "running" =>
       \/ status[r] \in {"running", "absent"}
       \/ owner'[r] # None /\ \E p \in Instances : Executes(p, r) /\ exec'[p].pc = "owned"
  /\ faults' = 0 /\ owner'[r] = None => owner[r] = None \/ status'[r] \in Ended
  /\ status[r] \in Ended => status'[r] \in Ended
Chooses(p) ==
  LET r == exec'[p].run IN
  /\ faults' = 0 /\ exec'[p].pc = "releasing" =>
       exec'[p] = exec[p] \/ r \notin Runs \/ status'[r] \in Ended
  /\ exec'[p].pc = "created" => exec'[p] = exec[p] \/ (status[r] = "absent" /\ status'[r] = "running")
  /\ exec'[p].pc = "prepared" => exec'[p] = exec[p] \/ \E s \in Runs : claim'[s] = r
  /\ exec'[p].pc = "claimed" =>
       \/ exec'[p] = exec[p]
       \/ /\ exec[p].pc \in {"created", "prepared"} /\ exec[p].run = r
          /\ Claimable(r) /\ UNCHANGED status
Restful == (\A r \in Runs : RunsOn(r)) /\ (\A p \in Instances : Chooses(p))

(* Faults are counted.                                                     *)
LEMMA FaultsCount == ASSUME TypeOK, Next, faults' = 0 PROVE faults = 0
<1>1. faults \in Nat
  BY OwnershipConstants DEF TypeOK, OwnershipConstants
<1>2. ASSUME NEW p \in Instances, Execute(p) PROVE faults = 0
  <2>1. faults' = faults \/ faults' = faults + 1
    BY <1>2, StoreType
  <2> QED
    BY <1>1, <2>1
<1>3. ASSUME NEW p \in Instances, Launch(p) \/ Startup(p) PROVE faults' = faults
  BY <1>3 DEF Startup, Launch, RecoverRuns, RecoverOneJournal, FinishStartup
<1>4. ASSUME NEW p \in Instances, Command(p) PROVE faults' = faults
  BY <1>4 DEF Command, CancelCheck, CancelRecover, CancelList, CancelWithdraw, CancelFinish,
     CancelRelease, ReconcileCheck, ReconcileRecover, ReconcileSettle
<1>5. ASSUME NEW p \in Instances, Crash(p) PROVE faults' = faults + 1
  BY <1>5 DEF Crash
<1> QED
  BY <1>1, <1>2, <1>3, <1>4, <1>5 DEF Next

LEMMA SameRunsOn ==
  ASSUME \A r \in Runs : status'[r] = status[r] /\ owner'[r] = owner[r] PROVE \A r \in Runs : RunsOn(r)
  BY DEF RunsOn
LEMMA SameChoice == ASSUME UNCHANGED exec PROVE \A p \in Instances : Chooses(p)
  BY DEF Chooses

(* A move of a working executor's task.                                    *)
LEMMA GoesChoice ==
  ASSUME TypeOK, NEW p \in Instances, NEW pc, Goto(p, pc),
         pc \notin {"created", "prepared", "claimed", "releasing"}
  PROVE  \A q \in Instances : Chooses(q)
<1>1. exec'[p].pc = pc /\ \A q \in Instances : q # p => exec'[q] = exec[q]
  BY ExecGoes
<1> QED
  BY <1>1 DEF Chooses
LEMMA IdleChoice ==
  ASSUME TypeOK, NEW p \in Instances, exec' = [exec EXCEPT ![p] = Idle]
  PROVE  \A q \in Instances : Chooses(q)
<1>1. exec'[p] = Idle /\ \A q \in Instances : q # p => exec'[q] = exec[q]
  BY ExecIs
<1>2. exec'[p].pc = "idle"
  BY <1>1 DEF Idle
<1> QED
  BY <1>1, <1>2 DEF Chooses

LEMMA ExecuteRestful ==
  ASSUME OwnerInv, LineageInv, RestartInv, NEW p \in Instances, Execute(p)
  PROVE  Restful
<1>0. TypeOK
  BY DEF OwnerInv
<1>1. ASSUME NEW r \in Runs, CreateRun(p, r) PROVE Restful
  <2>0. /\ exec'[p] = [Idle EXCEPT !.pc = "created", !.run = r]
        /\ \A q \in Instances : q # p => exec'[q] = exec[q]
    BY <1>0, <1>1, ExecIs DEF CreateRun
  <2>1. /\ exec'[p].pc = "created" /\ exec'[p].run = r
        /\ \A q \in Instances : q # p => exec'[q] = exec[q]
    BY <2>0 DEF Idle
  <2>2. /\ status[r] = "absent" /\ UNCHANGED owner
        /\ \A t \in Runs : status'[t] = IF t = r THEN "running" ELSE status[t]
    BY <1>0, <1>1 DEF CreateRun, TypeOK
  <2>3. \A t \in Runs : RunsOn(t)
    BY <2>2 DEF RunsOn, Ended
  <2>4. \A q \in Instances : Chooses(q)
    BY <2>1, <2>2 DEF Chooses
  <2> QED
    BY <2>3, <2>4 DEF Restful
<1>2. ASSUME NEW r \in Runs, InspectSource(p, r) PROVE Restful
  <2>0. /\ exec'[p] = [Idle EXCEPT !.pc = "inspected", !.source = r, !.seen = status[r]]
        /\ \A q \in Instances : q # p => exec'[q] = exec[q]
    BY <1>0, <1>2, ExecIs DEF InspectSource
  <2>1. exec'[p].pc = "inspected" /\ \A q \in Instances : q # p => exec'[q] = exec[q]
    BY <2>0 DEF Idle
  <2>2. \A q \in Instances : Chooses(q)
    BY <2>1 DEF Chooses
  <2> QED
    BY <1>2, <2>2, SameRunsOn DEF Restful, InspectSource, store
<1>3. ASSUME NEW r \in Runs, ReuseContinuation(p, r) PROVE Restful
  <2>0. /\ exec'[p] = [Idle EXCEPT !.pc = "prepared", !.run = r]
        /\ \A q \in Instances : q # p => exec'[q] = exec[q]
    BY <1>0, <1>3, ExecIs DEF ReuseContinuation
  <2>1. /\ exec'[p].pc = "prepared" /\ exec'[p].run = r
        /\ \A q \in Instances : q # p => exec'[q] = exec[q]
    BY <2>0 DEF Idle
  <2>2. exec[p].source \in Runs /\ claim'[exec[p].source] = r
    BY <1>0, <1>3 DEF ReuseContinuation, At, TypeOK, Task, store
  <2>3. \A q \in Instances : Chooses(q)
    BY <2>1, <2>2 DEF Chooses
  <2> QED
    BY <1>3, <2>3, SameRunsOn DEF Restful, ReuseContinuation, store
<1>4. ASSUME NEW r \in Runs, NewContinuation(p, r) PROVE Restful
  <2> DEFINE next == IF exec[p].seen = "queued" THEN Idle ELSE [Idle EXCEPT !.pc = "prepared", !.run = r]
  <2>1. exec' = [exec EXCEPT ![p] = next]
    BY <1>4 DEF NewContinuation
  <2>2. next.pc = "idle" \/ (next.pc = "prepared" /\ next.run = r)
    BY DEF Idle
  <2> HIDE DEF next
  <2>3. exec'[p] = next /\ \A q \in Instances : q # p => exec'[q] = exec[q]
    BY <1>0, <2>1, ExecIs
  <2>4. PICK s \in Runs : claim'[s] = r
    BY <1>0, <1>4 DEF NewContinuation, At, TypeOK, Task
  <2>5. /\ UNCHANGED owner /\ status[r] = "absent"
        /\ \A t \in Runs : status'[t] = IF t = r THEN "queued" ELSE status[t]
    BY <1>0, <1>4 DEF NewContinuation, TypeOK
  <2>6. \A t \in Runs : RunsOn(t)
    BY <2>5 DEF RunsOn, Ended
  <2>7. \A q \in Instances : Chooses(q)
    BY <2>2, <2>3, <2>4 DEF Chooses
  <2> QED
    BY <2>6, <2>7 DEF Restful
<1>5. ASSUME Abandon(p) PROVE Restful
  BY <1>0, <1>5, IdleChoice, SameRunsOn DEF Restful, Abandon, store
<1>6. ASSUME ClaimOwner(p) PROVE Restful
  <2> DEFINE r == exec[p].run
  <2>1. exec[p].pc \in {"created", "prepared"} /\ r \in Runs /\ UNCHANGED status
    BY <1>0, <1>6 DEF ClaimOwner, At, TypeOK, Task
  <2>2. CASE Claimable(r)
    <3>1. Goto(p, "claimed") /\ owner' = [owner EXCEPT ![r] = p]
      BY <1>6, <2>2 DEF ClaimOwner
    <3>2. /\ exec'[p].pc = "claimed" /\ exec'[p].run = r
          /\ \A q \in Instances : q # p => exec'[q] = exec[q]
      BY <1>0, <3>1, ExecGoes
    <3>3. \A t \in Runs : owner'[t] = IF t = r THEN p ELSE owner[t]
      BY <1>0, <3>1, <2>1 DEF TypeOK
    <3>4. p # None
      BY OwnershipConstants DEF OwnershipConstants
    <3>5. \A t \in Runs : RunsOn(t)
      BY <2>1, <3>3, <3>4 DEF RunsOn
    <3>6. \A q \in Instances : Chooses(q)
      BY <2>1, <2>2, <3>2 DEF Chooses
    <3> QED
      BY <3>5, <3>6 DEF Restful
  <2>3. CASE ~Claimable(r)
    <3>1. UNCHANGED owner
      BY <1>6, <2>3 DEF ClaimOwner
    <3>2. \A q \in Instances : Chooses(q)
      <4>1. CASE exec[p].pc = "created"
        <5>1. Goto(p, "refused")
          BY <1>6, <2>3, <4>1 DEF ClaimOwner, Goto
        <5> QED
          BY <1>0, <5>1, GoesChoice
      <4>2. CASE exec[p].pc # "created"
        BY <1>0, <1>6, <2>3, <4>2, IdleChoice DEF ClaimOwner
      <4> QED
        BY <4>1, <4>2
    <3> QED
      BY <2>1, <3>1, <3>2, SameRunsOn DEF Restful
  <2> QED
    BY <2>2, <2>3
<1>7. ASSUME MarkRunning(p) PROVE Restful
  <2> DEFINE r == exec[p].run
  <2>1. exec[p].pc = "claimed" /\ r \in Runs /\ Executes(p, r) /\ UNCHANGED owner
    BY <1>0, <1>7 DEF MarkRunning, At, TypeOK, Task, Owning, Executes
  <2>2. CASE status[r] \in Ended
    BY <1>0, <1>7, <2>1, <2>2, GoesChoice, SameRunsOn DEF Restful, MarkRunning
  <2>3. CASE status[r] \notin Ended
    <3>1. Goto(p, "owned") /\ status' = [status EXCEPT ![r] = "running"]
      BY <1>7, <2>3 DEF MarkRunning
    <3>2. exec'[p].pc = "owned"
      BY <1>0, <3>1, ExecGoes
    <3>3. \A t \in Runs : status'[t] = IF t = r THEN "running" ELSE status[t]
      BY <1>0, <3>1 DEF TypeOK
    <3>4. owner'[r] # None
      BY <2>1, <2>3, OwnershipConstants DEF OwnerInv, ExecutorsOwn, OwnershipConstants
    <3>5. \A t \in Runs : RunsOn(t)
      BY <2>1, <2>3, <3>2, <3>3, <3>4 DEF RunsOn
    <3>6. \A q \in Instances : Chooses(q)
      BY <1>0, <3>1, GoesChoice
    <3> QED
      BY <3>5, <3>6 DEF Restful
  <2> QED
    BY <2>2, <2>3
<1>8. ASSUME CheckLineage(p) PROVE Restful
  <2> DEFINE pc == IF ~Settled(exec[p].run) THEN "finishing"
                   ELSE IF Inherits(exec[p].run) THEN "owned" ELSE "cleared"
  <2>1. Goto(p, pc)
    BY <1>8 DEF CheckLineage
  <2>2. pc \notin {"created", "prepared", "claimed", "releasing"}
    OBVIOUS
  <2> HIDE DEF pc
  <2> QED
    BY <1>0, <1>8, <2>1, <2>2, GoesChoice, SameRunsOn DEF Restful, CheckLineage, store
<1>9. ASSUME Intend(p) PROVE Restful
  BY <1>0, <1>9, GoesChoice, SameRunsOn DEF Restful, Intend, store
<1>10. ASSUME Dispatch(p) PROVE Restful
  BY <1>0, <1>10, GoesChoice, SameRunsOn DEF Restful, Dispatch, store
<1>11. ASSUME Perform(p) PROVE Restful
  BY <1>0, <1>11, GoesChoice, SameRunsOn DEF Restful, Perform, store
<1>12. ASSUME Report(p) PROVE Restful
  <2>1. Goto(p, "finishing") \/ Goto(p, "owned")
    BY <1>12 DEF Report
  <2> QED
    BY <1>0, <1>12, <2>1, GoesChoice, SameRunsOn DEF Restful, Report, store
<1>13. ASSUME Stop(p) PROVE Restful
  BY <1>0, <1>13, GoesChoice, SameRunsOn DEF Restful, Stop, store
<1>14. ASSUME NEW o \in {"completed", "stopped"}, FinishRun(p, o) PROVE Restful
  <2> DEFINE r == exec[p].run
  <2>1. r \in Runs /\ status' = [status EXCEPT ![r] = o] /\ Goto(p, "releasing") /\ UNCHANGED owner
    BY <1>0, <1>14 DEF FinishRun, At, TypeOK, Task, Owning
  <2>2. \A t \in Runs : status'[t] = IF t = r THEN o ELSE status[t]
    BY <1>0, <2>1 DEF TypeOK
  <2>3. /\ exec'[p].pc = "releasing" /\ exec'[p].run = r
        /\ \A q \in Instances : q # p => exec'[q] = exec[q]
    BY <1>0, <2>1, ExecGoes
  <2>4. o \in Ended /\ o # "running"
    BY DEF Ended
  <2>5. \A t \in Runs : RunsOn(t)
    BY <2>1, <2>2, <2>4 DEF RunsOn
  <2>6. \A q \in Instances : Chooses(q)
    BY <2>1, <2>2, <2>3, <2>4 DEF Chooses
  <2> QED
    BY <2>5, <2>6 DEF Restful
<1>15. ASSUME ReleaseOwner(p) PROVE Restful
  <2> DEFINE r == exec[p].run
  <2>1. exec[p].pc = "releasing" /\ r \in Runs /\ UNCHANGED status /\ owner' = Released(p, r)
    BY <1>0, <1>15 DEF ReleaseOwner, At, TypeOK, Task, Owning
  <2>2. \A t \in Runs : owner'[t] = owner[t] \/ t = r
    BY <1>0, <2>1, ReleasedKeeps
  <2>3. faults' = 0 => status[r] \in Ended
    BY <1>15, <2>1 DEF ReleaseOwner, RestartInv, ReleasingEnded
  <2>4. \A t \in Runs : RunsOn(t)
    BY <2>1, <2>2, <2>3 DEF RunsOn
  <2>5. \A q \in Instances : Chooses(q)
    BY <1>0, <1>15, IdleChoice DEF ReleaseOwner
  <2> QED
    BY <2>4, <2>5 DEF Restful
<1>16. ASSUME SaveFails(p) PROVE Restful
  <2>1. Goto(p, "releasing") /\ UNCHANGED <<status, owner>> /\ faults' # 0
    BY <1>0, <1>16, OwnershipConstants DEF SaveFails, store, TypeOK, OwnershipConstants
  <2>2. exec'[p].pc = "releasing" /\ \A q \in Instances : q # p => exec'[q] = exec[q]
    BY <1>0, <2>1, ExecGoes
  <2>3. \A q \in Instances : Chooses(q)
    BY <2>1, <2>2 DEF Chooses
  <2> QED
    BY <2>1, <2>3, SameRunsOn DEF Restful
<1> QED
  BY <1>1, <1>2, <1>3, <1>4, <1>5, <1>6, <1>7, <1>8, <1>9, <1>10, <1>11, <1>12, <1>13,
     <1>14, <1>15, <1>16 DEF Execute

LEMMA RecoveryRestful ==
  ASSUME OwnerInv, NEW p \in Instances, Launch(p) \/ Startup(p) \/ Command(p) \/ Crash(p)
  PROVE  Restful
<1>0. TypeOK
  BY DEF OwnerInv
<1>1. CASE UNCHANGED <<status, owner, exec>>
  BY <1>1, SameRunsOn, SameChoice DEF Restful
<1>2. CASE RecoverRuns(p)
  <2>1. /\ UNCHANGED <<owner, exec>>
        /\ \A r \in Runs : status'[r] = IF r \in Interrupted THEN "interrupted" ELSE status[r]
    BY <1>2 DEF RecoverRuns
  <2>2. \A r \in Runs : RunsOn(r)
    BY <2>1 DEF RunsOn, Ended
  <2> QED
    BY <2>1, <2>2, SameChoice DEF Restful
<1>3. CASE CancelFinish(p)
  <2>1. /\ UNCHANGED <<owner, exec>>
        /\ \A r \in Runs : status'[r] \in {status[r], "stopped"}
    BY <1>0, <1>3 DEF CancelFinish, TypeOK
  <2>2. \A r \in Runs : RunsOn(r)
    BY <2>1 DEF RunsOn, Ended
  <2> QED
    BY <2>1, <2>2, SameChoice DEF Restful
<1>4. CASE CancelRelease(p)
  <2>1. UNCHANGED <<status, exec>> /\ owner' = Released(p, ctrl[p].run)
    BY <1>4 DEF CancelRelease
  <2>2. ctrl[p].pc = "cancel_release"
    BY <1>4 DEF CancelRelease, CtrlAt
  <2>3. \A t \in Runs : owner'[t] = owner[t] \/ status[t] \in Ended
    BY <1>0, <2>1, <2>2, ReleasedKeeps DEF OwnerInv, EndedBeforeRelease
  <2>4. \A r \in Runs : RunsOn(r)
    BY <2>1, <2>3 DEF RunsOn
  <2> QED
    BY <2>1, <2>4, SameChoice DEF Restful
<1>5. CASE Crash(p)
  <2>1. PICK left \in {Dead, Unreadable} :
          owner' = [r \in Runs |-> IF owner[r] = p THEN left ELSE owner[r]]
    BY <1>5 DEF Crash
  <2>2. left # None
    BY ThreeMarks
  <2>3. \A r \in Runs : RunsOn(r)
    BY <1>5, <2>1, <2>2 DEF RunsOn, Crash
  <2> QED
    BY <1>0, <1>5, <2>3, IdleChoice DEF Restful, Crash
<1>6. \/ UNCHANGED <<status, owner, exec>>
      \/ RecoverRuns(p) \/ CancelFinish(p) \/ CancelRelease(p) \/ Crash(p)
  BY DEF Launch, Startup, Command, RecoverOneJournal, FinishStartup, CancelCheck, CancelRecover,
     CancelList, CancelWithdraw, ReconcileCheck, ReconcileRecover, ReconcileSettle, store
<1> QED
  BY <1>1, <1>2, <1>3, <1>4, <1>5, <1>6

(* The tables' links: a lineage is given once, to a run nobody knew of.    *)
Links ==
  /\ \A r \in Runs : lineage'[r] = lineage[r] \/ (status[r] = "absent" /\ status'[r] = "queued")
  /\ \A s \in Runs : claim'[s] = claim[s] \/ (claim'[s] \in Runs => lineage'[claim'[s]] # {})
  /\ \A r \in Runs : status'[r] = "absent" => status[r] = "absent"

LEMMA StepsLink ==
  ASSUME LineageInv, NEW p \in Instances,
         Execute(p) \/ Launch(p) \/ Startup(p) \/ Command(p) \/ Crash(p)
  PROVE  Links
<1>1. CASE Unrelated
  BY <1>1 DEF Unrelated, Links
<1>2. ASSUME NEW r \in Runs, NewContinuation(p, r) PROVE Links
  <2> DEFINE s == exec[p].source
  <2>1. s \in Runs /\ status[r] = "absent"
    BY <1>2 DEF NewContinuation, At, LineageInv, TypeOK, Task
  <2>2. /\ lineage' = [lineage EXCEPT ![r] = {s} \cup lineage[s]]
        /\ claim' = [claim EXCEPT ![s] = r]
        /\ status' = [status EXCEPT ![r] = "queued"]
    BY <1>2 DEF NewContinuation
  <2> HIDE DEF s
  <2>3. /\ \A t \in Runs : lineage'[t] = IF t = r THEN {s} \cup lineage[s] ELSE lineage[t]
        /\ \A t \in Runs : claim'[t] = IF t = s THEN r ELSE claim[t]
        /\ \A t \in Runs : status'[t] = IF t = r THEN "queued" ELSE status[t]
    BY <2>1, <2>2 DEF LineageInv, TypeOK
  <2> QED
    BY <2>1, <2>3 DEF Links
<1> QED
  BY <1>1, <1>2, ExecuteUnrelated, RecoveryUnrelated

LEMMA RestartKeeps ==
  ASSUME OwnerInv, LineageInv, RestartInv, TypeOK', Restful, Links, faults' = 0 => faults = 0
  PROVE  RestartInv'
<1>1. RunningOwned'
  <2> SUFFICES ASSUME NEW r \in Runs, faults' = 0, status'[r] = "running", lineage'[r] # {}
               PROVE  owner'[r] # None
    BY DEF RunningOwned
  <2>1. RunsOn(r) /\ lineage'[r] = lineage[r]
    BY DEF Restful, Links
  <2>2. status[r] # "absent"
    BY <2>1 DEF LineageInv, AbsentApart
  <2> QED
    BY <2>1, <2>2 DEF RunsOn, RestartInv, RunningOwned, Ended
<1>2. ReleasingEnded'
  BY DEF ReleasingEnded, Restful, Chooses, RunsOn, RestartInv
<1>3. CreatedFirst'
  <2> SUFFICES ASSUME NEW p \in Instances, NEW r \in Runs, exec'[p].run = r, exec'[p].pc = "created"
               PROVE  status'[r] # "absent" /\ lineage'[r] = {}
    BY DEF CreatedFirst
  <2>1. Chooses(p)
    BY DEF Restful
  <2>2. CASE exec'[p] = exec[p]
    BY <2>2 DEF RestartInv, CreatedFirst, Links
  <2>3. CASE status[r] = "absent" /\ status'[r] = "running"
    <3>1. lineage[r] = {}
      BY <2>3 DEF LineageInv, AbsentApart
    <3> QED
      BY <2>3, <3>1 DEF Links
  <2> QED
    BY <2>1, <2>2, <2>3 DEF Chooses
<1>4. ClaimsContinue'
  <2> SUFFICES ASSUME NEW r \in Runs, NEW s \in Runs, claim'[s] = r PROVE lineage'[r] # {}
    BY DEF ClaimsContinue
  <2>1. CASE claim'[s] = claim[s]
    <3>1. lineage[r] # {}
      BY <2>1 DEF RestartInv, ClaimsContinue
    <3>2. status[r] # "absent"
      BY <3>1 DEF LineageInv, AbsentApart
    <3> QED
      BY <3>1, <3>2 DEF Links
  <2> QED
    BY <2>1 DEF Links
<1>5. PreparedContinues'
  <2> SUFFICES ASSUME NEW p \in Instances, NEW r \in Runs, exec'[p].run = r, exec'[p].pc = "prepared"
               PROVE  lineage'[r] # {}
    BY DEF PreparedContinues
  <2>1. CASE exec'[p] = exec[p]
    <3>1. lineage[r] # {}
      BY <2>1 DEF RestartInv, PreparedContinues
    <3>2. status[r] # "absent"
      BY <3>1 DEF LineageInv, AbsentApart
    <3> QED
      BY <3>1, <3>2 DEF Links
  <2> QED
    BY <1>4, <2>1 DEF Restful, Chooses, ClaimsContinue
<1> QED
  BY <1>1, <1>2, <1>3, <1>4, <1>5 DEF RestartInv

RestartsInv == OwnerInv /\ LineageInv /\ RestartInv

LEMMA RestartsInit == Init => RestartsInv
<1>1. Init => RestartInv
  BY OwnershipConstants
  DEF Init, RestartInv, RunningOwned, ReleasingEnded, CreatedFirst, PreparedContinues,
      ClaimsContinue, Idle, OwnershipConstants
<1> QED
  BY <1>1, OwnerInit, LineageInit DEF RestartsInv

LEMMA RestartsRest ==
  ASSUME RestartsInv, Next PROVE Restful /\ Links
  BY ExecuteRestful, RecoveryRestful, StepsLink DEF RestartsInv, Next

LEMMA RestartsStep == RestartsInv /\ [Next]_vars => RestartsInv'
<1> SUFFICES ASSUME RestartsInv, [Next]_vars PROVE RestartsInv'
  OBVIOUS
<1>1. OwnerInv' /\ LineageInv'
  BY OwnerStep, LineageStep DEF RestartsInv
<1>2. CASE UNCHANGED vars
  BY <1>1, <1>2 DEF vars, RestartsInv, RestartInv, RunningOwned, ReleasingEnded, CreatedFirst,
     PreparedContinues, ClaimsContinue
<1>3. CASE Next
  <2>1. TypeOK'
    BY <1>1 DEF OwnerInv
  <2> QED
    BY <1>1, <1>3, <2>1, RestartsRest, RestartKeeps, FaultsCount DEF RestartsInv, OwnerInv
<1> QED
  BY <1>2, <1>3

(* Before the first death no owner row is a dead one's.                    *)
OwnersLive == faults = 0 => \A r \in Runs : owner[r] \notin {Dead, Unreadable}
NotConsumed == faults = 0 => ConsumedNotRestarted

LEMMA LiveOwners ==
  ASSUME TypeOK, TypeOK', OwnersLive, Next
  PROVE  OwnersLive'
<1> SUFFICES ASSUME faults' = 0, NEW r \in Runs PROVE owner'[r] \notin {Dead, Unreadable}
  BY DEF OwnersLive
<1>1. faults = 0 /\ owner[r] \notin {Dead, Unreadable}
  BY FaultsCount DEF OwnersLive
<1>2. \A p \in Instances : p \notin {Dead, Unreadable} /\ None \notin {Dead, Unreadable}
  BY ThreeMarks, OwnershipConstants DEF OwnershipConstants
<1>3. CASE UNCHANGED owner
  BY <1>1, <1>3
<1>4. ASSUME NEW p \in Instances, ClaimOwner(p) PROVE owner'[r] \notin {Dead, Unreadable}
  BY <1>1, <1>2, <1>4 DEF ClaimOwner, TypeOK
<1>5. ASSUME NEW p \in Instances, NEW s, owner' = Released(p, s) PROVE owner'[r] \notin {Dead, Unreadable}
  BY <1>1, <1>2, <1>5, ReleasedKeeps
<1>6. ASSUME NEW p \in Instances, Crash(p) PROVE FALSE
  BY <1>1, <1>6 DEF Crash
<1>7. \/ UNCHANGED owner
      \/ \E p \in Instances : ClaimOwner(p) \/ Crash(p) \/ \E s : owner' = Released(p, s)
  <2>1. ASSUME NEW p \in Instances, Execute(p)
        PROVE  UNCHANGED owner \/ ClaimOwner(p) \/ owner' = Released(p, exec[p].run)
    BY <2>1 DEF Execute, CreateRun, InspectSource, ReuseContinuation,
       NewContinuation, Abandon, MarkRunning, CheckLineage, Intend, Dispatch, Perform,
       Report, Stop, FinishRun, SaveFails, ReleaseOwner, store
  <2>2. ASSUME NEW p \in Instances, Launch(p) \/ Startup(p) \/ Command(p)
        PROVE  UNCHANGED owner \/ owner' = Released(p, ctrl[p].run)
    BY <2>2 DEF Startup, Command, Launch, RecoverRuns, RecoverOneJournal, FinishStartup,
       CancelCheck, CancelRecover, CancelList, CancelWithdraw, CancelFinish, CancelRelease,
       ReconcileCheck, ReconcileRecover, ReconcileSettle, store
  <2> QED
    BY <2>1, <2>2 DEF Next
<1> QED
  BY <1>3, <1>4, <1>5, <1>6, <1>7

LEMMA ConsumedStep ==
  ASSUME RestartsInv, RestartsInv', OwnersLive, NotConsumed, Next
  PROVE  NotConsumed'
<1>0. TypeOK /\ TypeOK' /\ Restful /\ Links
  BY RestartsRest DEF RestartsInv, OwnerInv
<1> SUFFICES ASSUME faults' = 0, NEW p \in Instances, exec'[p].pc = "claimed",
                    lineage'[exec'[p].run] # {}
             PROVE  status'[exec'[p].run] # "running"
  BY DEF NotConsumed, ConsumedNotRestarted
<1>1. PICK r \in Runs : exec'[p].run = r
  BY <1>0 DEF TypeOK, Task
<1>2. faults = 0
  BY <1>0, FaultsCount
<1>3. /\ lineage'[r] = lineage[r] \/ (status[r] = "absent" /\ status'[r] = "queued")
      /\ RunsOn(r) /\ Chooses(p)
  BY <1>0 DEF Links, Restful
<1>4. CASE exec'[p] = exec[p] /\ lineage[r] # {}
  <2>1. status[r] # "running" /\ status[r] # "absent" /\ Executes(p, r)
    BY <1>1, <1>2, <1>4 DEF NotConsumed, ConsumedNotRestarted, Executes, Owning, RestartsInv,
       LineageInv, AbsentApart
  <2>2. ASSUME NEW q \in Instances, Executes(q, r), exec'[q].pc = "owned" PROVE FALSE
    <3>1. q = p
      BY <2>1, <2>2 DEF RestartsInv, OwnerInv, OneExecutor
    <3> QED
      BY <2>2, <3>1
  <2> QED
    BY <1>1, <1>3, <2>1, <2>2 DEF RunsOn
<1>5. CASE exec'[p] # exec[p] /\ lineage[r] # {}
  <2>1. exec[p].pc \in {"created", "prepared"} /\ exec[p].run = r /\ Claimable(r) /\ UNCHANGED status
    BY <1>1, <1>3, <1>5 DEF Chooses
  <2>2. owner[r] = None
    BY <1>0, <1>2, <2>1 DEF OwnersLive, Claimable, Alive, TypeOK
  <2>3. status[r] # "running"
    BY <1>2, <1>5, <2>2 DEF RestartsInv, RestartInv, RunningOwned
  <2> QED
    BY <1>1, <2>1, <2>3
<1> QED
  BY <1>1, <1>3, <1>4, <1>5

(* As long as no process died and no final save failed, a consumed         *)
(* continuation is not started again, whatever commands are given: this is *)
(* what ConsumedNotRestarted (see run ownership_consumed) leaves of        *)
(* docs/DURABLE_EXECUTION.md:105.                                          *)
THEOREM NoRestartWithoutFault == Spec => [](faults = 0 => ConsumedNotRestarted)
<1>1. Init => RestartsInv /\ OwnersLive /\ NotConsumed
  <2>1. Init => OwnersLive /\ NotConsumed
    BY ThreeMarks DEF Init, OwnersLive, NotConsumed, ConsumedNotRestarted, Idle
  <2> QED
    BY <2>1, RestartsInit
<1>2. RestartsInv /\ OwnersLive /\ NotConsumed /\ [Next]_vars
        => RestartsInv' /\ OwnersLive' /\ NotConsumed'
  <2> SUFFICES ASSUME RestartsInv, OwnersLive, NotConsumed, [Next]_vars
               PROVE  RestartsInv' /\ OwnersLive' /\ NotConsumed'
    OBVIOUS
  <2>1. RestartsInv' /\ TypeOK /\ TypeOK'
    BY RestartsStep DEF RestartsInv, OwnerInv
  <2>2. CASE UNCHANGED vars
    BY <2>1, <2>2 DEF vars, OwnersLive, NotConsumed, ConsumedNotRestarted
  <2> QED
    BY <2>1, <2>2, LiveOwners, ConsumedStep
<1>3. NotConsumed => (faults = 0 => ConsumedNotRestarted)
  BY DEF NotConsumed
<1> QED
  BY <1>1, <1>2, <1>3, PTL DEF Spec

-----------------------------------------------------------------------------
(* Dispatches before the first fault: of any run, a continuation too.      *)
TouchedOwned ==
  \A r \in Runs :
    faults = 0 /\ owner[r] = None /\ (\E q \in Instances : phase[r][q] # "none")
      => status[r] \in Ended
ReconciledEnded ==
  \A c \in Instances, r \in Runs : faults = 0 /\ Reconciles(c, r) =>
    status[r] \in Ended /\ \A p \in Instances : ~Executes(p, r)
DispatchStands == faults = 0 => LiveDispatchStands

DispatchInv == OwnersLive /\ TouchedOwned /\ ReconciledEnded /\ DispatchStands

LEMMA TouchedKeeps ==
  ASSUME TypeOK, TypeOK', StepInv, TouchedOwned, Restful, Next, NEW p \in Instances, Step(p)
  PROVE  TouchedOwned'
<1> SUFFICES ASSUME faults' = 0, NEW r \in Runs, owner'[r] = None, NEW q \in Instances,
                    phase'[r][q] # "none"
             PROVE  status'[r] \in Ended
  BY DEF TouchedOwned
<1>0. faults = 0
  BY FaultsCount
<1>1. RunsOn(r) /\ PhaseChange(p, r, q)
  BY DEF Restful, Step
<1>2. CASE owner[r] # None
  BY <1>1, <1>2 DEF RunsOn
<1>3. CASE owner[r] = None /\ phase[r][q] # "none"
  BY <1>0, <1>1, <1>3 DEF TouchedOwned, RunsOn
<1>4. CASE owner[r] = None /\ phase[r][q] = "none"
  <2>1. exec[p].run = r /\ exec[p].pc = "cleared"
    BY <1>1, <1>4 DEF PhaseChange, OwnPhase
  <2>2. owner[r] = p
    BY <2>1 DEF StepInv, ExecutorsNamed, Executes, Owning
  <2> QED
    BY <1>4, <2>2, OwnershipConstants DEF OwnershipConstants
<1> QED
  BY <1>2, <1>3, <1>4

LEMMA ReconciledKeeps ==
  ASSUME TypeOK, TypeOK', StepInv, OwnersLive, TouchedOwned, ReconciledEnded, Next,
         NEW p \in Instances, Step(p)
  PROVE  ReconciledEnded'
<1> SUFFICES ASSUME NEW c \in Instances, NEW r \in Runs, faults' = 0, Reconciles(c, r)'
             PROVE  status'[r] \in Ended /\ \A q \in Instances : ~Executes(q, r)'
  BY DEF ReconciledEnded
<1>1. faults = 0
  BY FaultsCount
<1>2. status[r] \in Ended /\ \A q \in Instances : ~Executes(q, r)
  <2>1. CASE Reconciles(c, r)
    BY <1>1, <2>1 DEF ReconciledEnded
  <2>2. CASE ~Alive(r) /\ \E q \in Instances : phase[r][q] # "none"
    <3>1. owner[r] = None
      BY <1>1, <2>2 DEF OwnersLive, Alive, TypeOK
    <3>2. \A q \in Instances : ~Executes(q, r)
      BY <2>2 DEF StepInv, ExecutorsNamed, Alive
    <3> QED
      BY <1>1, <2>2, <3>1, <3>2 DEF TouchedOwned
  <2>3. CtrlChange(p) /\ (c # p => ctrl'[c] = ctrl[c])
    BY DEF Step
  <2> QED
    BY <2>1, <2>2, <2>3 DEF CtrlChange, Reconciles, Reconciling
<1>3. ~Claimable(r)
  BY <1>2 DEF Claimable, Active, Ended
<1>4. status'[r] \in Ended
  BY <1>2 DEF Step, StatusChange
<1> QED
  BY <1>2, <1>3, <1>4, StillExecutes

LEMMA StandsKeeps ==
  ASSUME TypeOK, TypeOK', StepInv, FirstInv, DispatchInv, Next, NEW p \in Instances, Step(p)
  PROVE  DispatchStands'
<1> SUFFICES ASSUME faults' = 0, NEW q \in Instances, NEW r \in Runs, exec'[q].run = r,
                    exec'[q].pc \in {"dispatched", "performed"}
             PROVE  phase'[r][q] = "dispatched"
  BY DEF DispatchStands, LiveDispatchStands
<1>1. faults = 0
  BY FaultsCount
<1>2. \/ exec[q].run = r /\ exec[q].pc \in {"dispatched", "performed"}
      \/ phase'[r][q] = "dispatched"
  <2>1. CASE exec'[q] = exec[q]
    BY <2>1
  <2>2. CASE q = p /\ Selects(p)
    BY <2>2 DEF Selects
  <2>3. CASE q = p /\ Works(p)
    BY <2>3 DEF Works, Goes
  <2> QED
    BY <2>1, <2>2, <2>3 DEF Step, ExecChange
<1>3. ASSUME exec[q].run = r, exec[q].pc \in {"dispatched", "performed"}
      PROVE  phase'[r][q] = "dispatched"
  <2>1. phase[r][q] = "dispatched"
    BY <1>1, <1>3 DEF DispatchInv, DispatchStands, LiveDispatchStands
  <2>2. Executes(q, r)
    BY <1>3 DEF Executes, Owning
  <2>3. ~Recovering(p, r)
    BY <1>1, <2>2 DEF FirstInv, RecoveredEnded, DispatchInv, ReconciledEnded, Recovering
  <2>4. PhaseChange(p, r, q)
    BY DEF Step
  <2> QED
    BY <1>3, <2>1, <2>3, <2>4 DEF PhaseChange, OwnPhase
<1> QED
  BY <1>2, <1>3

(* As long as no process died and no final save failed, the journal holds  *)
(* every dispatch for the executor that waits for its outcome, also of a   *)
(* continuation: what start-up and reconcile recover is over.  (Without    *)
(* cancel, which withdraws a step that was dispatched after it was listed: *)
(* run ownership_cancel_live.)                                             *)
THEOREM DispatchesStandWithoutFault ==
  ASSUME "cancel" \notin Commands
  PROVE  Spec => [](faults = 0 => LiveDispatchStands)
<1> DEFINE All == RestartsInv /\ StepInv /\ FirstInv /\ DispatchInv
<1>1. Init => All
  <2>1. Init => DispatchInv
    BY ThreeMarks DEF Init, DispatchInv, OwnersLive, TouchedOwned, ReconciledEnded, DispatchStands,
       LiveDispatchStands, Reconciles, Reconciling, Rest, Idle
  <2> QED
    BY <2>1, RestartsInit, StepInvInit, FirstInit
<1>2. All /\ [Next]_vars => All'
  <2> SUFFICES ASSUME All, [Next]_vars PROVE All'
    OBVIOUS
  <2>1. RestartsInv' /\ TypeOK /\ TypeOK'
    BY RestartsStep DEF RestartsInv, OwnerInv
  <2>2. StepInv' /\ FirstInv'
    BY <2>1, StepInvStep, FirstStep
  <2>3. CASE UNCHANGED vars
    <3>1. DispatchInv'
      BY <2>3 DEF vars, DispatchInv, OwnersLive, TouchedOwned, ReconciledEnded, DispatchStands,
         LiveDispatchStands, Reconciles, Executes
    <3> QED
      BY <2>1, <2>2, <3>1
  <2>4. CASE Next
    <3>1. PICK p \in Instances : Step(p)
      BY <2>1, <2>4, StepsOf DEF StepInv
    <3>2. Restful
      BY <2>4, RestartsRest
    <3>3. OwnersLive' /\ TouchedOwned' /\ ReconciledEnded' /\ DispatchStands'
      BY <2>1, <2>4, <3>1, <3>2, LiveOwners, TouchedKeeps, ReconciledKeeps, StandsKeeps
      DEF DispatchInv
    <3> QED
      BY <2>1, <2>2, <3>3 DEF DispatchInv
  <2> QED
    BY <2>3, <2>4
<1>3. All => (faults = 0 => LiveDispatchStands)
  BY DEF DispatchInv, DispatchStands
<1> QED
  BY <1>1, <1>2, <1>3, PTL DEF Spec

-----------------------------------------------------------------------------
(* One effect.  A run that was continued is over: nobody executes it, and  *)
(* its steps stay as they are, so that what a continuation inherits from    *)
(* them stays true.                                                        *)
Over(s) ==
  /\ status[s] \in Ended
  /\ \A p \in Instances : ~Executes(p, s) /\ phase[s][p] \notin {"dispatched", "unknown"}
SourcesOver ==
  \A s \in Runs :
    (claim[s] # None \/ \E p \in Instances : exec[p].pc = "inspected" /\ exec[p].source = s)
      => Over(s)
AncestorsClaimed == \A r \in Runs : \A s \in lineage[r] : claim[s] # None
NothingInherited ==
  \A p \in Instances, r \in Runs :
    exec[p].run = r /\ exec[p].pc \in {"cleared", "ready", "dispatched"} => ~Inherits(r)

EffectInv == SourcesOver /\ AncestorsClaimed /\ NothingInherited /\ OneEffect

LEMMA EffectInit == Init => EffectInv
  BY DEF Init, EffectInv, SourcesOver, AncestorsClaimed, NothingInherited, OneEffect, Idle

LEMMA StaysOver ==
  ASSUME TypeOK, TypeOK', NEW p \in Instances, Step(p), NEW s \in Runs, Over(s)
  PROVE  Over(s)' /\ \A q \in Instances : phase'[s][q] = phase[s][q]
<1>1. status'[s] \in Ended
  BY DEF Over, Step, StatusChange
<1>2. \A q \in Instances : ~Executes(q, s)'
  <2>1. ~Claimable(s)
    BY DEF Over, Claimable, Active, Ended
  <2> QED
    BY <2>1, StillExecutes DEF Over
<1>3. ASSUME NEW q \in Instances PROVE phase'[s][q] = phase[s][q]
  <2>1. PhaseChange(p, s, q)
    BY DEF Step
  <2>2. ~Executes(q, s) /\ phase[s][q] \notin {"dispatched", "unknown"}
    BY DEF Over
  <2> QED
    BY <2>1, <2>2 DEF PhaseChange, OwnPhase, Executes, Owning
<1> QED
  BY <1>1, <1>2, <1>3 DEF Over

LEMMA OverKeeps ==
  ASSUME TypeOK, TypeOK', StepInv, EffectInv, "prepare" \notin Commands,
         NEW p \in Instances, Step(p)
  PROVE  SourcesOver'
<1> SUFFICES ASSUME NEW s \in Runs,
                    claim'[s] # None
                      \/ \E q \in Instances : exec'[q].pc = "inspected" /\ exec'[q].source = s
             PROVE  Over(s)'
  BY DEF SourcesOver
<1>1. CASE Over(s)
  BY <1>1, StaysOver
<1>2. CASE claim[s] # None
  BY <1>1, <1>2 DEF EffectInv, SourcesOver
<1>3. CASE \E q \in Instances : exec[q].pc = "inspected" /\ exec[q].source = s
  BY <1>1, <1>3 DEF EffectInv, SourcesOver
<1>4. CASE /\ claim[s] = None
           /\ ~\E q \in Instances : exec[q].pc = "inspected" /\ exec[q].source = s
  <2>1. claim'[s] = None
    BY <1>4 DEF Step, SourceChange
  <2>2. PICK q \in Instances : exec'[q].pc = "inspected" /\ exec'[q].source = s
    BY <2>1
  <2>3. q = p /\ ExecChange(p) /\ exec'[p] # exec[p]
    BY <1>4, <2>2 DEF Step
  <2>4. Eligible(s) /\ status[s] # "queued"
    BY <1>4, <2>2, <2>3 DEF ExecChange, Selects, Works, Goes
  <2>5. ~Alive(s) /\ status[s] \in Ended
        /\ \A t \in Instances : phase[s][t] \notin {"dispatched", "unknown"}
    BY <2>4 DEF Eligible, IsPrepared, Resumable, Ended
  <2>6. \A t \in Instances : ~Executes(t, s)
    BY <2>5 DEF StepInv, ExecutorsNamed, Alive
  <2> QED
    BY <1>1, <2>5, <2>6 DEF Over
<1> QED
  BY <1>2, <1>3, <1>4

LEMMA AncestorsKeep ==
  ASSUME TypeOK, TypeOK', EffectInv, NEW p \in Instances, Step(p)
  PROVE  AncestorsClaimed'
<1>1. ASSUME NEW s \in Runs, claim[s] # None PROVE claim'[s] # None
  BY <1>1 DEF Step, SourceChange
<1>2. ASSUME NEW r \in Runs, NEW s \in lineage'[r] PROVE claim'[s] # None
  <2>1. LineageChange(r) /\ \A t \in Runs : lineage[t] \subseteq Runs
    BY DEF Step, TypeOK
  <2> QED
    BY <1>1, <1>2, <2>1, OwnershipConstants
    DEF LineageChange, EffectInv, AncestorsClaimed, OwnershipConstants
<1> QED
  BY <1>2 DEF AncestorsClaimed

LEMMA AncestorsOver ==
  ASSUME TypeOK, EffectInv, NEW r \in Runs, NEW s \in lineage[r]
  PROVE  s \in Runs /\ Over(s)
  BY DEF TypeOK, EffectInv, AncestorsClaimed, SourcesOver

LEMMA NothingKeeps ==
  ASSUME TypeOK, TypeOK', StepInv, EffectInv, NEW p \in Instances, Step(p)
  PROVE  NothingInherited'
<1> SUFFICES ASSUME NEW q \in Instances, NEW r \in Runs, exec'[q].run = r,
                    exec'[q].pc \in {"cleared", "ready", "dispatched"}
             PROVE  ~Inherits(r)'
  BY DEF NothingInherited
<1>1. \/ exec[q].run = r /\ exec[q].pc \in {"cleared", "ready", "dispatched"}
      \/ ~Inherits(r) /\ UNCHANGED <<phase, lineage>> /\ exec[q].run = r /\ exec[q].pc = "owned"
  <2>1. CASE exec'[q] = exec[q]
    BY <2>1
  <2>2. CASE q = p /\ Selects(p)
    BY <2>2 DEF Selects
  <2>3. CASE q = p /\ Works(p)
    BY <2>3 DEF Works, Goes
  <2> QED
    BY <2>1, <2>2, <2>3 DEF Step, ExecChange
<1>2. ~Inherits(r)
  BY <1>1 DEF EffectInv, NothingInherited
<1>3. lineage'[r] = lineage[r]
  <2>1. status[r] # "absent"
    BY <1>1 DEF StepInv, WorkersStarted, Working, NotStarted
  <2> QED
    BY <2>1 DEF Step, LineageChange
<1>4. \A s \in lineage[r] : \A t \in Instances : phase'[s][t] = phase[s][t]
  BY AncestorsOver, StaysOver
<1> QED
  BY <1>2, <1>3, <1>4 DEF Inherits

LEMMA OneKeeps ==
  ASSUME TypeOK, TypeOK', StepInv, EffectInv, NEW p \in Instances, Step(p)
  PROVE  OneEffect'
<1> SUFFICES ASSUME NEW r \in Runs, NEW s \in lineage'[r], NEW t \in Instances, NEW q \in Instances,
                    <<r, t>> \in effects', <<s, q>> \in effects'
             PROVE  FALSE
  BY DEF OneEffect
<1>1. EffectChange(p, r, t) /\ LineageChange(r)
  BY DEF Step
<1>2. status[r] # "absent"
  <2>1. CASE <<r, t>> \in effects
    BY <2>1 DEF StepInv, EffectsDispatched, UnstartedUntouched, NotStarted
  <2>2. CASE exec[t].run = r /\ exec[t].pc = "dispatched"
    BY <2>2 DEF StepInv, WorkersStarted, Working, NotStarted
  <2> QED
    BY <1>1, <2>1, <2>2 DEF EffectChange, Goes
<1>3. s \in lineage[r]
  BY <1>1, <1>2 DEF LineageChange
<1>4. s \in Runs /\ Over(s)
  BY <1>3, AncestorsOver
<1>5. <<s, q>> \in effects
  <2>1. EffectChange(p, s, q)
    BY <1>4 DEF Step
  <2>2. ~Executes(q, s)
    BY <1>4 DEF Over
  <2> QED
    BY <2>1, <2>2 DEF EffectChange, Goes, Executes, Owning
<1>6. phase[s][q] = "done"
  <2>1. phase[s][q] \notin {"none", "ready"}
    BY <1>4, <1>5 DEF StepInv, EffectsDispatched
  <2>2. phase[s][q] \notin {"dispatched", "unknown"} /\ phase[s][q] \in Phases
    BY <1>4 DEF Over, TypeOK
  <2> QED
    BY <2>1, <2>2 DEF Phases
<1>7. <<r, t>> \notin effects
  BY <1>3, <1>5 DEF EffectInv, OneEffect
<1>8. exec[t].run = r /\ exec[t].pc = "dispatched"
  BY <1>1, <1>7 DEF EffectChange, Goes
<1> QED
  BY <1>3, <1>4, <1>6, <1>8 DEF EffectInv, NothingInherited, Inherits

LEMMA EffectStep ==
  ASSUME "cancel" \notin Commands, "prepare" \notin Commands
  PROVE  TypeOK /\ StepInv /\ EffectInv /\ [Next]_vars => EffectInv'
<1> SUFFICES ASSUME TypeOK, StepInv, EffectInv, [Next]_vars PROVE EffectInv'
  OBVIOUS
<1>1. TypeOK'
  BY TypeStep
<1>2. CASE UNCHANGED vars
  BY <1>2 DEF vars, EffectInv, SourcesOver, AncestorsClaimed, NothingInherited, OneEffect, Over,
     Executes, Inherits
<1>3. CASE Next
  <2>1. PICK p \in Instances : Step(p)
    BY <1>3, StepsOf DEF StepInv
  <2> QED
    BY <1>1, <2>1, OverKeeps, AncestorsKeep, NothingKeeps, OneKeeps DEF EffectInv
<1> QED
  BY <1>2, <1>3

(* The mutation that a chain of continuations shares is performed in one   *)
(* of its runs: an ancestor that performed it has it on record as done when *)
(* it is continued, and an executor that finds it done in an ancestor does  *)
(* not perform it.  (The commands of run ownership_recovery; with           *)
(* "prepare", a queued continuation is continued although it may still run.) *)
THEOREM MutationsHappenOnce ==
  ASSUME "cancel" \notin Commands, "prepare" \notin Commands
  PROVE  Spec => []OneEffect
<1>1. Init => TypeOK /\ StepInv /\ EffectInv
  BY TypeInit, StepInvInit, EffectInit
<1>2. TypeOK /\ StepInv /\ EffectInv /\ [Next]_vars => TypeOK' /\ StepInv' /\ EffectInv'
  BY TypeStep, StepInvStep, EffectStep
<1>3. EffectInv => OneEffect
  BY DEF EffectInv
<1> QED
  BY <1>1, <1>2, <1>3, PTL DEF Spec

-----------------------------------------------------------------------------
(* The journal is used as LogicalSteps allows, by every command.           *)

Call == \E r \in Runs : Journal!Crash(r) \/ \E s \in Instances : Journal!Step(r, s)
Uses == Call \/ UNCHANGED phase

LEMMA MarkCalls ==
  ASSUME NEW r \in Runs, NEW p \in Instances, NEW s \in Phases, Mark(r, p, s),
         <<phase[r][p], s>> \in Journal!Moves
  PROVE  Uses
<1>1. s \in Journal!Phases
  BY DEF Phases, Journal!Phases
<1>2. Journal!Step(r, p)
  BY <1>1 DEF Mark, Journal!Step
<1> QED
  BY <1>2 DEF Uses, Call

LEMMA RecoverCalls == ASSUME NEW r \in Runs, RecoverJournal(r) PROVE Uses
<1>1. Journal!Crash(r)
  BY DEF RecoverJournal, LostPhase, Journal!Crash
<1> QED
  BY <1>1 DEF Uses, Call

LEMMA ExecutorUses == ASSUME TypeOK, NEW p \in Instances, Execute(p) PROVE Uses
<1> DEFINE r == exec[p].run
<1>1. exec[p].pc \notin {"idle", "inspected"} => r \in Runs
  BY DEF TypeOK, Task
<1>2. CASE Intend(p)
  <2>1. r \in Runs /\ Mark(r, p, "ready") /\ phase[r][p] = "none"
    BY <1>1, <1>2 DEF Intend, At
  <2> QED
    BY <2>1, MarkCalls DEF Phases, Journal!Moves
<1>3. CASE Dispatch(p)
  <2>1. r \in Runs /\ (UNCHANGED phase \/ (Mark(r, p, "dispatched") /\ phase[r][p] = "ready"))
    BY <1>1, <1>3 DEF Dispatch, At
  <2> QED
    BY <2>1, MarkCalls DEF Phases, Journal!Moves, Uses
<1>4. CASE Report(p)
  <2>1. r \in Runs
    BY <1>1, <1>4 DEF Report, At
  <2>2. UNCHANGED phase \/ (phase[r][p] = "dispatched"
                              /\ \E o \in {"done", "none", "unknown"} : Mark(r, p, o))
    BY <1>4 DEF Report
  <2> QED
    BY <2>1, <2>2, MarkCalls DEF Phases, Journal!Moves, Uses
<1>5. CASE UNCHANGED phase
  BY <1>5 DEF Uses
<1>6. Intend(p) \/ Dispatch(p) \/ Report(p) \/ UNCHANGED phase
  BY DEF Execute, CreateRun, InspectSource, ReuseContinuation, NewContinuation, Abandon, ClaimOwner,
     MarkRunning, CheckLineage, Perform, Stop, FinishRun, SaveFails, ReleaseOwner
<1> QED
  BY <1>2, <1>3, <1>4, <1>5, <1>6

LEMMA RecoveryUses ==
  ASSUME TypeOK, NEW p \in Instances, Launch(p) \/ Startup(p) \/ Command(p) \/ Crash(p)
  PROVE  Uses
<1> DEFINE r == ctrl[p].run
<1>2. ASSUME NEW t \in Runs, RecoverOneJournal(p, t) PROVE Uses
  BY <1>2, RecoverCalls DEF RecoverOneJournal
<1>3. ASSUME r \notin Runs, CancelRecover(p) \/ ReconcileRecover(p) PROVE UNCHANGED phase
  <2>1. RecoverJournal(r)
    BY <1>3 DEF CancelRecover, ReconcileRecover
  <2> QED
    BY <1>3, <2>1 DEF RecoverJournal, TypeOK
<1>4. ASSUME r \in Runs, CancelRecover(p) \/ ReconcileRecover(p) PROVE Uses
  BY <1>4, RecoverCalls DEF CancelRecover, ReconcileRecover
<1>5. ASSUME NEW q \in Instances, NEW s \in Phases, r \notin Runs, Mark(r, q, s) PROVE UNCHANGED phase
  BY <1>5 DEF Mark, TypeOK
<1>6. ASSUME NEW q \in Instances, CancelWithdraw(p, q) PROVE Uses
  <2>1. UNCHANGED phase \/ (Mark(r, q, "none") /\ phase[r][q] \in {"ready", "dispatched"})
    BY <1>6 DEF CancelWithdraw
  <2>2. "none" \in Phases /\ (phase[r][q] \in {"ready", "dispatched"}
                                => <<phase[r][q], "none">> \in Journal!Moves)
    BY DEF Phases, Journal!Moves
  <2> QED
    BY <1>5, <2>1, <2>2, MarkCalls DEF Uses
<1>7. ASSUME NEW q \in Instances, ReconcileSettle(p, q) PROVE Uses
  <2>1. UNCHANGED phase \/ (phase[r][q] = "unknown" /\ \E o \in {"done", "none"} : Mark(r, q, o))
    BY <1>7 DEF ReconcileSettle
  <2>2. \A o \in {"done", "none"} :
          o \in Phases /\ (phase[r][q] = "unknown" => <<phase[r][q], o>> \in Journal!Moves)
    BY DEF Phases, Journal!Moves
  <2> QED
    BY <1>5, <2>1, <2>2, MarkCalls DEF Uses
<1>8. \/ UNCHANGED phase
      \/ \E t \in Runs : RecoverOneJournal(p, t)
      \/ CancelRecover(p) \/ ReconcileRecover(p)
      \/ \E q \in Instances : CancelWithdraw(p, q) \/ ReconcileSettle(p, q)
  BY DEF Launch, Startup, Command, Crash, RecoverRuns, FinishStartup, CancelCheck, CancelList,
     CancelFinish, CancelRelease, ReconcileCheck
<1> QED
  BY <1>2, <1>3, <1>4, <1>6, <1>7, <1>8 DEF Uses

(* Each change of a step's phase is a move the journal promises to make,   *)
(* and recovery makes every dispatched step of the run unknown at once.     *)
THEOREM JournalIsUsed == Spec => JournalUsed
<1>1. Init => Journal!Init
  BY DEF Init, Journal!Init
<1>2. TypeOK /\ [Next]_vars => [Journal!Next]_phase
  <2> SUFFICES ASSUME TypeOK, [Next]_vars PROVE [Journal!Next]_phase
    OBVIOUS
  <2>1. Uses
    BY ExecutorUses, RecoveryUses DEF Next, vars, Uses
  <2> QED
    BY <2>1 DEF Uses, Call, Journal!Next
<1> QED
  BY <1>1, <1>2, TypeCorrect, PTL DEF Spec, JournalUsed, Journal!Spec
-----------------------------------------------------------------------------
(* Lost dispatches.  The safety half of LostIsFound: a dispatch whose      *)
(* owner died is in the list of a start-up that goes on, or an instance    *)
(* has yet to read the journals, so that there is always somebody left to  *)
(* make it an unknown outcome, whatever dies and whatever is commanded.    *)
Attended(r) ==
  \E p \in Instances : \/ p \notin up
                       \/ ctrl[p].pc = "startup"
                       \/ ctrl[p].pc = "journals" /\ r \in ctrl[p].todo
LostIsAttended ==
  \A r \in Runs, q \in Instances :
    phase[r][q] = "dispatched" /\ owner[r] = Dead => Attended(r)

(* Nobody dispatches for a dead owner, and only a death leaves one.        *)
LEMMA LostBefore ==
  ASSUME OwnerInv, OwnerInv', NEW p \in Instances, Execute(p) \/ Command(p),
         NEW r \in Runs, NEW q \in Instances, phase'[r][q] = "dispatched", owner'[r] = Dead
  PROVE  phase[r][q] = "dispatched" /\ owner[r] = Dead
<1>1. TypeOK /\ p # Dead /\ None # Dead /\ Dead \notin Instances
  BY OwnershipConstants, ThreeMarks DEF OwnerInv
<1>2. owner[r] = Dead
  <2>1. CASE Execute(p)
    <3>1. owner' = owner \/ owner' = [owner EXCEPT ![exec[p].run] = p] \/ owner' = Released(p, exec[p].run)
      BY <2>1 DEF Execute, CreateRun, InspectSource, ReuseContinuation, NewContinuation, Abandon,
         ClaimOwner, MarkRunning, CheckLineage, Intend, Dispatch, Perform, Report, Stop, FinishRun,
         SaveFails, ReleaseOwner, store
    <3> QED BY <1>1, <3>1 DEF TypeOK, Released
  <2>2. CASE Command(p)
    <3>1. owner' = owner \/ owner' = Released(p, ctrl[p].run)
      BY <2>2 DEF Command, CancelCheck, CancelRecover, CancelList, CancelWithdraw, CancelFinish,
         CancelRelease, ReconcileCheck, ReconcileRecover, ReconcileSettle, store
    <3> QED BY <1>1, <3>1 DEF TypeOK, Released
  <2> QED BY <2>1, <2>2
<1>3. phase[r][q] = "dispatched"
  <2>1. CASE Dispatch(p)
    <3>1. CASE r = exec[p].run /\ q = p /\ Goto(p, "dispatched")
      <4>1. exec'[p].run = r /\ exec'[p].pc = "dispatched"
        BY <1>1, <3>1, ExecGoes
      <4>2. Executes(p, r)'
        BY <4>1 DEF Executes, Owning
      <4> QED BY <1>1, <4>2 DEF OwnerInv, ExecutorsOwn
    <3>2. phase' = phase \/ (Mark(exec[p].run, p, "dispatched") /\ Goto(p, "dispatched"))
      BY <2>1 DEF Dispatch
    <3> QED BY <1>1, <3>1, <3>2, MarkIs
  <2>2. CASE Intend(p) \/ Report(p)
    <3>1. phase' = phase \/ \E s \in {"ready", "none", "done", "unknown"} : Mark(exec[p].run, p, s)
      BY <2>2 DEF Intend, Report
    <3> QED BY <1>1, <3>1, MarkIs
  <2>3. CASE Execute(p) /\ ~Dispatch(p) /\ ~Intend(p) /\ ~Report(p)
    BY <2>3 DEF Execute, CreateRun, InspectSource, ReuseContinuation, NewContinuation, Abandon,
       ClaimOwner, MarkRunning, CheckLineage, Perform, Stop, FinishRun, SaveFails, ReleaseOwner
  <2>4. CASE Command(p)
    <3>1. \/ phase' = phase \/ RecoverJournal(ctrl[p].run)
          \/ \E s \in {"done", "none"}, t \in Instances : Mark(ctrl[p].run, t, s)
      BY <2>4 DEF Command, CancelCheck, CancelRecover, CancelList, CancelWithdraw, CancelFinish,
         CancelRelease, ReconcileCheck, ReconcileRecover, ReconcileSettle
    <3> QED BY <1>1, <3>1, MarkIs, RecoverIs
  <2> QED BY <2>1, <2>2, <2>3, <2>4
<1> QED BY <1>2, <1>3

LEMMA LostKeeps ==
  ASSUME OwnerInv, OwnerInv', LostIsAttended, Next
  PROVE  LostIsAttended'
<1> SUFFICES ASSUME NEW r \in Runs, NEW q \in Instances, phase'[r][q] = "dispatched", owner'[r] = Dead
             PROVE  Attended(r)'
  BY DEF LostIsAttended
<1>0. TypeOK
  BY DEF OwnerInv
<1>1. PICK p \in Instances : Execute(p) \/ Launch(p) \/ Startup(p) \/ Command(p) \/ Crash(p)
  BY DEF Next
<1>2. CASE Execute(p)
  <2>1. up' = up /\ ctrl' = ctrl
    BY <1>2 DEF Execute, CreateRun, InspectSource, ReuseContinuation, NewContinuation, Abandon,
       ClaimOwner, MarkRunning, CheckLineage, Intend, Dispatch, Perform, Report, Stop, FinishRun,
       SaveFails, ReleaseOwner
  <2>2. Attended(r)
    BY <1>2, LostBefore DEF LostIsAttended
  <2> QED BY <2>1, <2>2 DEF Attended
<1>3. CASE Launch(p)
  <2>1. ctrl'[p].pc = "startup"
    BY <1>0, <1>3, CtrlGoes DEF Launch
  <2> QED BY <2>1 DEF Attended
<1>4. CASE Crash(p)
  <2>1. p \notin up'
    BY <1>4 DEF Crash
  <2> QED BY <2>1 DEF Attended
<1>5. CASE RecoverRuns(p)
  <2>1. phase[r][q] = "dispatched" /\ owner[r] = Dead
    BY <1>5 DEF RecoverRuns
  <2>2. ~Alive(r)
    BY <2>1, OwnershipConstants, ThreeMarks DEF Alive
  <2>3. r \in JournalsOf(Interrupted)
    BY <2>1, <2>2 DEF JournalsOf, Lost
  <2>4. ctrl'[p] = [Rest EXCEPT !.pc = "journals", !.todo = JournalsOf(Interrupted)]
    BY <1>0, <1>5, CtrlIs DEF RecoverRuns
  <2>5. ctrl'[p].pc = "journals" /\ ctrl'[p].todo = JournalsOf(Interrupted)
    BY <2>4 DEF Rest
  <2> QED BY <2>3, <2>5 DEF Attended
<1>6. ASSUME NEW s \in Runs, RecoverOneJournal(p, s) PROVE Attended(r)'
  <2>1. r # s /\ phase[r][q] = "dispatched" /\ owner[r] = Dead
    BY <1>0, <1>6, RecoverIs DEF RecoverOneJournal, store
  <2>2. PICK w \in Instances : \/ w \notin up \/ ctrl[w].pc = "startup"
                               \/ ctrl[w].pc = "journals" /\ r \in ctrl[w].todo
    BY <2>1 DEF LostIsAttended, Attended
  <2>3. up' = up /\ ctrl' = [ctrl EXCEPT ![p].todo = @ \ {s}] /\ ctrl \in [Instances -> Recovery]
    BY <1>0, <1>6 DEF RecoverOneJournal, TypeOK
  <2>4. ctrl'[w].pc = ctrl[w].pc /\ (r \in ctrl[w].todo => r \in ctrl'[w].todo)
    BY <2>1, <2>3 DEF Recovery
  <2> QED BY <2>2, <2>3, <2>4 DEF Attended
<1>7. CASE FinishStartup(p) \/ Command(p)
  <2>1. phase[r][q] = "dispatched" /\ owner[r] = Dead
    BY <1>7, LostBefore DEF FinishStartup, store
  <2>2. PICK w \in Instances : \/ w \notin up \/ ctrl[w].pc = "startup"
                               \/ ctrl[w].pc = "journals" /\ r \in ctrl[w].todo
    BY <2>1 DEF LostIsAttended, Attended
  <2>3. p \in up /\ up' = up
    BY <1>7 DEF FinishStartup, Command, CancelCheck, CancelRecover, CancelList, CancelWithdraw,
       CancelFinish, CancelRelease, ReconcileCheck, ReconcileRecover, ReconcileSettle, CtrlAt
  <2>4. ctrl[p].pc \notin {"startup", "journals"} \/ (ctrl[p].pc = "journals" /\ ctrl[p].todo = {})
    BY <1>7 DEF FinishStartup, Command, CancelCheck, CancelRecover, CancelList, CancelWithdraw,
       CancelFinish, CancelRelease, ReconcileCheck, ReconcileRecover, ReconcileSettle, CtrlAt
  <2>5. w # p
    BY <2>2, <2>3, <2>4
  <2>6. ctrl'[w] = ctrl[w]
    <3>1. \E t : ctrl' = [ctrl EXCEPT ![p] = t]
      BY <1>7 DEF FinishStartup, Command, CancelCheck, CancelRecover, CancelList, CancelWithdraw,
         CancelFinish, CancelRelease, ReconcileCheck, ReconcileRecover, ReconcileSettle, CtrlRests,
         CtrlGoto
    <3> QED BY <1>0, <2>5, <3>1 DEF TypeOK
  <2> QED BY <2>2, <2>3, <2>6 DEF Attended
<1> QED BY <1>1, <1>2, <1>3, <1>4, <1>5, <1>6, <1>7 DEF Startup

(* Start-up recovery overlooks no dispatch whose owner died                *)
(* (recover_interrupted(), coding_sessions.py), with every command and any *)
(* number of deaths: while there is one, an instance is down, about to     *)
(* read the journals, or has the run's journal in its list.                *)
THEOREM LostDispatchesAreAttended == Spec => []LostIsAttended
<1>1. Init => LostIsAttended
  BY DEF Init, LostIsAttended
<1>2. OwnerInv /\ OwnerInv' /\ LostIsAttended /\ [Next]_vars => LostIsAttended'
  <2>1. ASSUME LostIsAttended, UNCHANGED vars PROVE LostIsAttended'
    BY <2>1 DEF LostIsAttended, Attended, vars, store
  <2> QED BY <2>1, LostKeeps
<1> QED
  BY <1>1, <1>2, OwnerInit, OwnerStep, PTL DEF Spec
=============================================================================
