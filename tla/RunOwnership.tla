---------------------------- MODULE RunOwnership ----------------------------
(***************************************************************************)
(* Several application instances over one project database: who executes a *)
(* coding run, what a starting instance recovers, how an ended run is      *)
(* continued, and the recovery commands users give meanwhile               *)
(* (firik_agent/projects/coding_sessions.py and resume.py, as ui/          *)
(* coding_bridge.py drives them).                                          *)
(*                                                                         *)
(* Each action is one committed SQLite transaction, or one read of a call  *)
(* that reads first and writes in a later transaction.  A call that raises *)
(* leaves the database alone and ends its task.  An instance is a process  *)
(* with one executor task and one recovery task, which interleave freely.  *)
(*                                                                         *)
(* Every run of a conversation wants the same mutating operation done.  An *)
(* executor identifies its step by its own model request, so the steps of  *)
(* a run that matter are those of its executors: one for each instance.    *)
(* The journal is used through what LogicalSteps promises of it.           *)
(***************************************************************************)
EXTENDS Naturals, FiniteSets

CONSTANTS
  Instances,   \* application processes, restarted under the same name
  Runs,        \* run identities
  Commands,    \* the recovery commands users give
  MaxFaults,   \* bound on process deaths and failed final saves
  None, Dead, Unreadable

ASSUME OwnershipConstants ==
  /\ {None, Dead, Unreadable} \cap (Instances \cup Runs) = {}
  /\ Cardinality({None, Dead, Unreadable}) = 3
  /\ Commands \subseteq {"cancel", "reconcile", "prepare"}
  /\ MaxFaults \in Nat

VARIABLES
  status,      \* coding_sessions.status
  lineage,     \* the runs reached through resumed_from
  claim,       \* coding_resume_claims: source -> continuation
  owner,       \* coding_run_owners
  phase,       \* the journal's phases of a run's mutating steps
  effects,     \* the steps that took effect in the workspace
  up,          \* live processes
  exec,        \* the executor task of each instance
  ctrl,        \* the recovery task of each instance
  faults

store == <<status, lineage, claim, owner>>
vars == <<status, lineage, claim, owner, phase, effects, up, exec, ctrl, faults>>

-----------------------------------------------------------------------------
(* "running" stands for every active status but queued, "stopped" for      *)
(* failed, cancelled and blocked.                                          *)
Active == {"queued", "running"}
Ended == {"completed", "stopped", "interrupted"}
Resumable == {"stopped", "interrupted"}
Status == {"absent"} \cup Active \cup Ended

Phases == {"none", "ready", "dispatched", "unknown", "done"}

(* An executor task: its place in the code, its run, and while it prepares *)
(* a continuation the source run and the source status it inspected.       *)
Idle == [pc |-> "idle", run |-> None, source |-> None, seen |-> "absent"]
Owning == {"claimed", "owned", "cleared", "ready", "dispatched", "performed", "finishing"}
Places == {"idle", "inspected", "prepared", "created", "refused", "releasing"} \cup Owning
Task ==
  { t \in [pc : Places, run : Runs \cup {None}, source : Runs \cup {None}, seen : Status] :
      /\ t.pc = "inspected" => t.source \in Runs
      /\ t.pc \notin {"idle", "inspected"} => t.run \in Runs }

(* A recovery task: its place, its run, and the journals (at start-up) or  *)
(* steps (of a cancel) it has yet to write.                                *)
Rest == [pc |-> "idle", run |-> None, todo |-> {}]
Cancelling == {"cancel_recover", "cancel_list", "cancel_withdraw", "cancel_release"}
Recovery ==
  [ pc : {"idle", "startup", "journals", "reconcile_recover", "reconcile_settle"} \cup Cancelling,
    run : Runs \cup {None}, todo : SUBSET (Runs \cup Instances) ]

TypeOK ==
  /\ status \in [Runs -> Status]
  /\ lineage \in [Runs -> SUBSET Runs]
  /\ claim \in [Runs -> Runs \cup {None}]
  /\ owner \in [Runs -> Instances \cup {None, Dead, Unreadable}]
  /\ phase \in [Runs -> [Instances -> Phases]]
  /\ effects \in SUBSET (Runs \X Instances)
  /\ up \in SUBSET Instances
  /\ exec \in [Instances -> Task]
  /\ ctrl \in [Instances -> Recovery]
  /\ faults \in 0 .. MaxFaults

Init ==
  /\ status = [r \in Runs |-> "absent"]
  /\ lineage = [r \in Runs |-> {}]
  /\ claim = [r \in Runs |-> None]
  /\ owner = [r \in Runs |-> None]
  /\ phase = [r \in Runs |-> [p \in Instances |-> "none"]]
  /\ effects = {}
  /\ up = {}
  /\ exec = [p \in Instances |-> Idle]
  /\ ctrl = [p \in Instances |-> Rest]
  /\ faults = 0

-----------------------------------------------------------------------------
(* _owner_alive: a row of a dead process is known dead, unless its pid is  *)
(* taken by a process that cannot be told apart, or its host is away.      *)
Alive(r) == owner[r] \in Instances \cup {Unreadable}

(* What a continuation may inherit from: no ancestor is active or live.    *)
Settled(r) == \A s \in lineage[r] : status[s] \in Ended /\ ~Alive(s)

(* inspect: resume_eligible, for the parts of the report modelled here.    *)
IsPrepared(r) == status[r] = "queued" /\ \E s \in Runs : claim[s] = r
Eligible(r) ==
  /\ ~Alive(r)
  /\ status[r] \in Resumable \/ IsPrepared(r)
  /\ \A p \in Instances : phase[r][p] \notin {"dispatched", "unknown"}

At(p, pc) == p \in up /\ exec[p].pc = pc
Goto(p, pc) == exec' = [exec EXCEPT ![p].pc = pc]
CtrlAt(p, pc) == p \in up /\ ctrl[p].pc = pc
CtrlGoto(p, pc) == ctrl' = [ctrl EXCEPT ![p].pc = pc]
CtrlRests(p) == ctrl' = [ctrl EXCEPT ![p] = Rest]

(* The journal calls, as LogicalSteps has them.                            *)
LostAsFailed == "none"
LostAsReady == "ready"
LostPhase == "unknown"
Mark(r, p, s) == phase' = [phase EXCEPT ![r][p] = s]
RecoverJournal(r) ==
  phase' = [phase EXCEPT ![r] =
    [p \in Instances |-> IF @[p] = "dispatched" THEN LostPhase ELSE @[p]]]

-----------------------------------------------------------------------------
(* The executor: _coding_stream_async of one prompt.                       *)

Accepting(p) == At(p, "idle") /\ ctrl[p].pc \notin {"startup", "journals"}

(* create_run: a run of a new prompt, active and without an owner.         *)
CreateRun(p, r) ==
  /\ Accepting(p)
  /\ status[r] = "absent"
  /\ status' = [status EXCEPT ![r] = "running"]
  /\ exec' = [exec EXCEPT ![p] = [Idle EXCEPT !.pc = "created", !.run = r]]
  /\ UNCHANGED <<lineage, claim, owner, phase, effects, up, ctrl, faults>>

(* prepare_resume up to its transaction.  The desktop continues a prepared *)
(* run through its source; the command line may prepare it once more.      *)
InspectSource(p, s) ==
  /\ Accepting(p)
  /\ Eligible(s)
  /\ status[s] = "queued" /\ claim[s] = None => "prepare" \in Commands
  /\ exec' = [exec EXCEPT ![p] =
                [Idle EXCEPT !.pc = "inspected", !.source = s, !.seen = status[s]]]
  /\ UNCHANGED <<store, phase, effects, up, ctrl, faults>>

(* The transaction of prepare_resume: the unused continuation the source   *)
(* has, or a new one, if the source did not change since.                  *)
ReuseContinuation(p, r) ==
  /\ At(p, "inspected")
  /\ claim[exec[p].source] = r
  /\ status[r] = "queued"
  /\ exec' = [exec EXCEPT ![p] = [Idle EXCEPT !.pc = "prepared", !.run = r]]
  /\ UNCHANGED <<store, phase, effects, up, ctrl, faults>>

UnclaimedOrSpent(s) == claim[s] \notin {r \in Runs : status[r] \in Active}
Unclaimed(s) == claim[s] = None
NewContinuation(p, r) ==
  LET s == exec[p].source IN
  /\ At(p, "inspected")
  /\ Unclaimed(s)
  /\ status[s] = exec[p].seen
  /\ status[r] = "absent"
  /\ status' = [status EXCEPT ![r] = "queued"]
  /\ lineage' = [lineage EXCEPT ![r] = {s} \cup lineage[s]]
  /\ claim' = [claim EXCEPT ![s] = r]
  /\ exec' = [exec EXCEPT ![p] = IF @.seen = "queued" THEN Idle
                                 ELSE [Idle EXCEPT !.pc = "prepared", !.run = r]]
  /\ UNCHANGED <<owner, phase, effects, up, ctrl, faults>>

(* The command line only prepares; any of these steps may raise.           *)
Abandon(p) ==
  /\ At(p, "inspected") \/ At(p, "prepared")
  /\ exec' = [exec EXCEPT ![p] = Idle]
  /\ UNCHANGED <<store, phase, effects, up, ctrl, faults>>

(* claim_owner.                                                            *)
ClaimableUnchecked(r) == status[r] \in Active
Claimable(r) == status[r] \in Active /\ ~Alive(r)
ClaimOwner(p) ==
  LET r == exec[p].run IN
  /\ At(p, "created") \/ At(p, "prepared")
  /\ IF Claimable(r)
     THEN owner' = [owner EXCEPT ![r] = p] /\ Goto(p, "claimed")
     ELSE /\ UNCHANGED owner
          /\ exec' = [exec EXCEPT ![p] =
               IF @.pc = "created" THEN [@ EXCEPT !.pc = "refused"] ELSE Idle]
  /\ UNCHANGED <<status, lineage, claim, phase, effects, up, ctrl, faults>>

(* update_run(status="running") raises for a run that ended.               *)
MarkRunning(p) ==
  LET r == exec[p].run IN
  /\ At(p, "claimed")
  /\ IF status[r] \in Ended
     THEN Goto(p, "finishing") /\ UNCHANGED status
     ELSE Goto(p, "owned") /\ status' = [status EXCEPT ![r] = "running"]
  /\ UNCHANGED <<lineage, claim, owner, phase, effects, up, ctrl, faults>>

(* inherited_completed_tool before a mutation of a continuation: an        *)
(* inherited outcome is reused, a doubtful ancestor ends the run.  An      *)
(* executor asks for the mutation until it is done.                        *)
InheritsFromCompleted(r) ==
  \E s \in lineage[r], p \in Instances : status[s] = "completed" /\ phase[s][p] = "done"
Inherits(r) == \E s \in lineage[r], p \in Instances : phase[s][p] = "done"
CheckLineage(p) ==
  LET r == exec[p].run IN
  /\ At(p, "owned")
  /\ phase[r][p] # "done"
  /\ Goto(p, IF ~Settled(r) THEN "finishing" ELSE IF Inherits(r) THEN "owned" ELSE "cleared")
  /\ UNCHANGED <<store, phase, effects, up, ctrl, faults>>

(* begin, then dispatching and running.                                    *)
Intend(p) ==
  LET r == exec[p].run IN
  /\ At(p, "cleared")
  /\ phase[r][p] = "none"
  /\ Mark(r, p, "ready")
  /\ Goto(p, "ready")
  /\ UNCHANGED <<store, effects, up, ctrl, faults>>

Dispatch(p) ==
  LET r == exec[p].run IN
  /\ At(p, "ready")
  /\ IF phase[r][p] = "ready" THEN Mark(r, p, "dispatched") /\ Goto(p, "dispatched")
                              ELSE Goto(p, "finishing") /\ UNCHANGED phase
  /\ UNCHANGED <<store, effects, up, ctrl, faults>>

(* The operation takes effect, as far as the workspace is concerned.       *)
Perform(p) ==
  /\ At(p, "dispatched")
  /\ effects' = effects \cup {<<exec[p].run, p>>}
  /\ Goto(p, "performed")
  /\ UNCHANGED <<store, phase, up, ctrl, faults>>

(* durable_finish: what the executor saw, or that it cannot tell.          *)
Report(p) ==
  LET r == exec[p].run
      seen == IF exec[p].pc = "performed" THEN "done" ELSE "none" IN
  /\ At(p, "dispatched") \/ At(p, "performed")
  /\ IF phase[r][p] = "dispatched"
     THEN \E outcome \in {seen, "unknown"} :
            /\ Mark(r, p, outcome)
            /\ Goto(p, IF outcome = "unknown" THEN "finishing" ELSE "owned")
     ELSE Goto(p, "finishing") /\ UNCHANGED phase
  /\ UNCHANGED <<store, effects, up, ctrl, faults>>

(* An exception, or the user, ends the run between two calls.              *)
Stop(p) ==
  /\ exec[p].pc \in {"claimed", "owned", "cleared", "ready"}
  /\ p \in up
  /\ Goto(p, "finishing")
  /\ UNCHANGED <<store, phase, effects, up, ctrl, faults>>

(* finalize_run: persist_snapshot with the terminal status.                *)
FinishRun(p, outcome) ==
  LET r == exec[p].run IN
  /\ At(p, "owned") \/ At(p, "finishing") \/ At(p, "refused")
  /\ outcome \in (IF At(p, "owned") THEN {"completed", "stopped"} ELSE {"stopped"})
  /\ status' = [status EXCEPT ![r] = outcome]
  /\ Goto(p, "releasing")
  /\ UNCHANGED <<lineage, claim, owner, phase, effects, up, ctrl, faults>>

(* The journal is written before the status; when that or the save itself  *)
(* raises, the run stays active and its owner is released all the same.    *)
SaveFails(p) ==
  /\ At(p, "owned") \/ At(p, "finishing") \/ At(p, "refused")
  /\ faults < MaxFaults
  /\ faults' = faults + 1
  /\ Goto(p, "releasing")
  /\ UNCHANGED <<store, phase, effects, up, ctrl>>

(* release_owner deletes the row only with a token of this process.        *)
Released(p, r) == [owner EXCEPT ![r] = IF @ = p THEN None ELSE @]
ReleaseOwner(p) ==
  /\ At(p, "releasing")
  /\ owner' = Released(p, exec[p].run)
  /\ exec' = [exec EXCEPT ![p] = Idle]
  /\ UNCHANGED <<status, lineage, claim, phase, effects, up, ctrl, faults>>

-----------------------------------------------------------------------------
(* The application starts and recovers before it accepts a prompt.         *)

Launch(p) ==
  /\ p \notin up
  /\ up' = up \cup {p}
  /\ CtrlGoto(p, "startup")
  /\ UNCHANGED <<store, phase, effects, exec, faults>>

(* recover_interrupted, its transaction.  A continuation that was prepared *)
(* but never claimed is inert.                                             *)
Inert(r) ==
  /\ IsPrepared(r) /\ owner[r] = None
  /\ \A p \in Instances : phase[r][p] \in {"none", "ready"}
InterruptedWithOwner == {r \in Runs : status[r] \in Active /\ ~Inert(r)}
Interrupted == {r \in Runs : status[r] \in Active /\ ~Alive(r) /\ ~Inert(r)}

Lost(r) == \E p \in Instances : phase[r][p] = "dispatched"
JournalsOfInterrupted(runs) == runs
JournalsWithDispatch(runs) == runs \cup {r \in Runs : Lost(r)}
JournalsOf(runs) == runs \cup {r \in Runs : Lost(r) /\ ~Alive(r)}

RecoverRuns(p) ==
  /\ CtrlAt(p, "startup")
  /\ status' = [r \in Runs |-> IF r \in Interrupted THEN "interrupted" ELSE status[r]]
  /\ ctrl' = [ctrl EXCEPT ![p] =
                [Rest EXCEPT !.pc = "journals", !.todo = JournalsOf(Interrupted)]]
  /\ UNCHANGED <<lineage, claim, owner, phase, effects, up, exec, faults>>

(* Then one transaction for each journal.                                  *)
RecoverOneJournal(p, r) ==
  /\ CtrlAt(p, "journals")
  /\ r \in ctrl[p].todo
  /\ RecoverJournal(r)
  /\ ctrl' = [ctrl EXCEPT ![p].todo = @ \ {r}]
  /\ UNCHANGED <<store, effects, up, exec, faults>>

FinishStartup(p) ==
  /\ CtrlAt(p, "journals")
  /\ ctrl[p].todo = {}
  /\ CtrlRests(p)
  /\ UNCHANGED <<store, phase, effects, up, exec, faults>>

-----------------------------------------------------------------------------
(* DurableResumeController.cancel.                                         *)

CancelCheck(p, r) ==
  /\ "cancel" \in Commands
  /\ CtrlAt(p, "idle")
  /\ status[r] \notin {"absent", "completed"}
  /\ ~Alive(r)
  /\ ctrl' = [ctrl EXCEPT ![p] = [Rest EXCEPT !.pc = "cancel_recover", !.run = r]]
  /\ UNCHANGED <<store, phase, effects, up, exec, faults>>

CancelRecover(p) ==
  /\ CtrlAt(p, "cancel_recover")
  /\ RecoverJournal(ctrl[p].run)
  /\ CtrlGoto(p, "cancel_list")
  /\ UNCHANGED <<store, effects, up, exec, faults>>

(* list_steps, then the transition of the undispatched steps it listed.    *)
CancelList(p) ==
  /\ CtrlAt(p, "cancel_list")
  /\ ctrl' = [ctrl EXCEPT ![p].pc = "cancel_withdraw",
                ![p].todo = {q \in Instances : phase[ctrl[p].run][q] = "ready"}]
  /\ UNCHANGED <<store, phase, effects, up, exec, faults>>

CancelWithdraw(p, q) ==
  LET r == ctrl[p].run IN
  /\ CtrlAt(p, "cancel_withdraw")
  /\ q \in ctrl[p].todo
  /\ IF phase[r][q] \in {"ready", "dispatched"}
     THEN Mark(r, q, "none") /\ ctrl' = [ctrl EXCEPT ![p].todo = @ \ {q}]
     ELSE CtrlRests(p) /\ UNCHANGED phase
  /\ UNCHANGED <<store, effects, up, exec, faults>>

(* finish_run: update_run, then release_owner without a token.             *)
CancelFinish(p) ==
  /\ CtrlAt(p, "cancel_withdraw")
  /\ ctrl[p].todo = {}
  /\ status' = [status EXCEPT ![ctrl[p].run] = "stopped"]
  /\ CtrlGoto(p, "cancel_release")
  /\ UNCHANGED <<lineage, claim, owner, phase, effects, up, exec, faults>>

CancelRelease(p) ==
  /\ CtrlAt(p, "cancel_release")
  /\ owner' = Released(p, ctrl[p].run)
  /\ CtrlRests(p)
  /\ UNCHANGED <<status, lineage, claim, phase, effects, up, exec, faults>>

(* DurableResumeController.reconcile, of a step the user knows of, which   *)
(* is no model output to be accepted.                                      *)
ReconcileCheck(p, r, q) ==
  /\ "reconcile" \in Commands
  /\ CtrlAt(p, "idle")
  /\ phase[r][q] # "none"
  /\ ~Alive(r)
  /\ ctrl' = [ctrl EXCEPT ![p] =
                [Rest EXCEPT !.pc = "reconcile_recover", !.run = r, !.todo = {q}]]
  /\ UNCHANGED <<store, phase, effects, up, exec, faults>>

ReconcileRecover(p) ==
  /\ CtrlAt(p, "reconcile_recover")
  /\ RecoverJournal(ctrl[p].run)
  /\ CtrlGoto(p, "reconcile_settle")
  /\ UNCHANGED <<store, effects, up, exec, faults>>

(* The evidence tells what happened in the workspace.                      *)
ReconcileSettle(p, q) ==
  LET r == ctrl[p].run IN
  /\ CtrlAt(p, "reconcile_settle")
  /\ q \in ctrl[p].todo
  /\ IF phase[r][q] = "unknown"
     THEN Mark(r, q, IF <<r, q>> \in effects THEN "done" ELSE "none")
     ELSE UNCHANGED phase
  /\ CtrlRests(p)
  /\ UNCHANGED <<store, effects, up, exec, faults>>

-----------------------------------------------------------------------------
(* A process dies: its tasks are gone, its owner rows stay behind.         *)
Crash(p) ==
  /\ p \in up
  /\ faults < MaxFaults
  /\ faults' = faults + 1
  /\ up' = up \ {p}
  /\ exec' = [exec EXCEPT ![p] = Idle]
  /\ CtrlRests(p)
  /\ \E left \in {Dead, Unreadable} :
       owner' = [r \in Runs |-> IF owner[r] = p THEN left ELSE owner[r]]
  /\ UNCHANGED <<status, lineage, claim, phase, effects>>

Execute(p) ==
  \/ \E r \in Runs : CreateRun(p, r) \/ InspectSource(p, r)
                       \/ ReuseContinuation(p, r) \/ NewContinuation(p, r)
  \/ Abandon(p) \/ ClaimOwner(p) \/ MarkRunning(p) \/ CheckLineage(p)
  \/ Intend(p) \/ Dispatch(p) \/ Perform(p) \/ Report(p) \/ Stop(p)
  \/ \E outcome \in {"completed", "stopped"} : FinishRun(p, outcome)
  \/ SaveFails(p) \/ ReleaseOwner(p)

Startup(p) ==
  RecoverRuns(p) \/ FinishStartup(p) \/ \E r \in Runs : RecoverOneJournal(p, r)

Command(p) ==
  \/ \E r \in Runs : CancelCheck(p, r) \/ \E q \in Instances : ReconcileCheck(p, r, q)
  \/ \E q \in Instances : CancelWithdraw(p, q) \/ ReconcileSettle(p, q)
  \/ CancelRecover(p) \/ CancelList(p) \/ CancelFinish(p) \/ CancelRelease(p)
  \/ ReconcileRecover(p)

Next == \E p \in Instances :
  Execute(p) \/ Launch(p) \/ Startup(p) \/ Command(p) \/ Crash(p)

Spec == Init /\ [][Next]_vars

(* A user starts the application again, and its start-up code runs.        *)
FairSpec ==
  Spec /\ \A p \in Instances : WF_vars(Launch(p)) /\ WF_vars(Startup(p))

-----------------------------------------------------------------------------
Executes(p, r) == exec[p].run = r /\ exec[p].pc \in Owning

(* A run has one executor at a time, across instances (claim_owner).       *)
OneExecutor ==
  \A p, q \in Instances, r \in Runs : Executes(p, r) /\ Executes(q, r) => p = q

(* Recovery interrupts no run that a live executor owns.                   *)
InterruptedIsOrphaned ==
  \A r \in Runs : status[r] = "interrupted" => ~\E p \in Instances : Executes(p, r)

(* A source run has one continuation, whoever prepares it, and when.       *)
OneContinuation ==
  \A r, s \in Runs : lineage[r] # {} /\ lineage[r] = lineage[s] => r = s

(* The mutation that a chain of continuations shares takes effect in one   *)
(* of its runs only: what an ancestor completed is inherited, what it left *)
(* uncertain is inspected first.                                           *)
OneEffect ==
  \A r \in Runs : \A s \in lineage[r], p, q \in Instances :
    ~({<<r, p>>, <<s, q>>} \subseteq effects)

(* While an executor waits for the outcome of what it dispatched, the      *)
(* journal holds the dispatch for it: docs/DURABLE_EXECUTION.md:123, "must *)
(* not recover a known live executor as interrupted".                      *)
LiveDispatchStands ==
  \A p \in Instances, r \in Runs :
    exec[p].run = r /\ exec[p].pc \in {"dispatched", "performed"}
      => phase[r][p] = "dispatched"

(* What start-up recovery and reconcile keep of it: of a run that is no    *)
(* continuation, which nobody else can claim once its executor is gone.    *)
FirstDispatchStands ==
  \A p \in Instances, r \in Runs :
    exec[p].run = r /\ lineage[r] = {} /\ exec[p].pc \in {"dispatched", "performed"}
      => phase[r][p] = "dispatched"

(* A mutation that took effect is never on record as one that failed or    *)
(* was withdrawn: resume.py:530, "Cancellation cannot turn uncertain       *)
(* effects into confirmed failures".                                       *)
EffectsRecorded ==
  \A r \in Runs, p \in Instances : <<r, p>> \in effects => phase[r][p] # "none"

(* docs/DURABLE_EXECUTION.md:105: "A consumed continuation is not started  *)
(* again": whoever claims one finds it queued, or ended.                   *)
ConsumedNotRestarted ==
  \A p \in Instances :
    exec[p].pc = "claimed" /\ lineage[exec[p].run] # {} => status[exec[p].run] # "running"

(* A dispatch whose owner died does not stay one, unless another executor  *)
(* takes the run over: some start-up makes it an unknown outcome.          *)
LostIsFound ==
  \A r \in Runs, p \in Instances :
    phase[r][p] = "dispatched" /\ owner[r] = Dead
      ~> phase[r][p] # "dispatched" \/ owner[r] # Dead

(* The journal is used as LogicalSteps allows.                             *)
Journal == INSTANCE LogicalSteps WITH Steps <- Instances
JournalUsed == Journal!Spec
=============================================================================
