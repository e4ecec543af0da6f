--------------------------- MODULE CodingEvidence ---------------------------
(***************************************************************************)
(* What a coding run may call verified: the evidence its test commands     *)
(* leave, what makes that evidence stale, and the gate that classifies the *)
(* run (firik_agent/projects/coding_runtime.py, core/completion.py).       *)
(*                                                                         *)
(* The agent's tools run one after the other on the event loop; the undo   *)
(* button of the user interface and whoever edits the project outside the  *)
(* program write the same files meanwhile, from their own threads.  An     *)
(* action is what happens between two points at which the others can step  *)
(* in: a read of the files, a replacement, an update of the run's records. *)
(* The source tree is one value, its digest: files are not told apart.     *)
(* The run is in an implementing mode, and its operations are all allowed. *)
(***************************************************************************)
EXTENDS Naturals, Sequences, FiniteSets

CONSTANTS
  Sources,      \* versions of the source tree
  Commands,     \* test commands, with the directory they run in, as a tool call words them
  Recorded,     \* the record of each: redacted (safe_text), the directory normalized
  Required,     \* the commands of the required quality gates
  Undoers,      \* undo threads
  MaxRepairs,   \* max_repair_cycles
  MaxTests, MaxEdits, MaxOutside,  \* bounds
  Nothing

ASSUME EvidenceConstants ==
  /\ Required \subseteq Commands
  /\ Recorded \in [Commands -> Commands]
  /\ MaxRepairs \in Nat /\ MaxTests \in Nat /\ MaxEdits \in Nat /\ MaxOutside \in Nat
  /\ Nothing \notin Sources \cup Commands

VARIABLES
  source,     \* the source tree
  changes,    \* _changes: the edits that can be undone, told apart by their id
  revision,   \* workspace_revision
  edits,      \* how many entries control.changes has
  outside,    \* writes of outside editors so far
  tests,      \* the evidence of kind "test" in control.verifications
  verified,   \* _verified_evidence
  step,       \* the plan's step
  criterion,  \* the latest evidence of kind "criterion"
  gates,      \* the evidence of the latest result of a quality gate
  repairs,    \* repair_cycles
  failed,     \* _failed_actions
  state,      \* "blocked", or any lifecycle state that is not
  agent,      \* the tool call of the agent
  undo,       \* the undo threads
  verdict     \* what the latest gate said

tree == <<source, changes, edits, outside>>
evidence == <<tests, gates, repairs, failed>>
claims == <<step, criterion>>
vars == <<tree, revision, evidence, verified, claims, state, agent, undo, verdict>>

-----------------------------------------------------------------------------
Change == [id : Nat, before : Sources, after : Sources]

(* A test's command is the recorded one; what was asked for is history.    *)
Test == [command : Commands, asked : Commands, passed : BOOLEAN, fresh : BOOLEAN, before : Sources,
         digest : Sources, revision : Nat, seen : SUBSET Sources]
Claim == [status : {"none", "pending", "done"}, evidence : Nat]

(* A tool call: its place, the command and whether a quality gate runs it, *)
(* the revision and source it read first, the source it read last or will  *)
(* write, the sources its command may have run on, and what it claims.     *)
Idle == [pc |-> "idle", command |-> Nothing, gate |-> FALSE, revision |-> 0,
         before |-> Nothing, after |-> Nothing, seen |-> {}, passed |-> FALSE,
         claim |-> [status |-> "none", evidence |-> 0]]
Places == {"idle", "replacing", "replaced", "opening", "opened", "running", "recording",
           "planning", "assigning", "judging", "certified", "deciding", "ended"}
Call == [pc : Places, command : Commands \cup {Nothing}, gate : BOOLEAN, revision : Nat,
         before : Sources \cup {Nothing}, after : Sources \cup {Nothing},
         seen : SUBSET Sources, passed : BOOLEAN, claim : Claim]

Resting == [pc |-> "idle", change |-> Nothing]
Undo == {Resting} \cup
        [pc : {"picked", "replacing", "replaced", "popped"}, change : Change]

Unjudged == [class |-> "none", digest |-> Nothing, basis |-> {}]
Classes == {"none", "completed_verified", "completed_unverified", "blocked"}

TypeOK ==
  /\ source \in Sources
  /\ changes \subseteq Change
  /\ revision \in Nat /\ edits \in 0 .. MaxEdits /\ outside \in 0 .. MaxOutside
  /\ tests \in Seq(Test)
  /\ verified \subseteq DOMAIN tests
  /\ step \in Claim /\ criterion \in Claim
  /\ gates \in [Required -> Nat]
  /\ repairs \in 0 .. MaxRepairs
  /\ failed \subseteq Commands \X Sources
  /\ state \in {"working", "blocked"}
  /\ agent \in Call
  /\ undo \in [Undoers -> Undo]
  /\ verdict \in [class : Classes, digest : Sources \cup {Nothing}, basis : SUBSET Nat]

Init ==
  /\ source \in Sources
  /\ changes = {} /\ edits = 0 /\ outside = 0
  /\ revision = 0
  /\ tests = <<>> /\ verified = {}
  /\ step = [status |-> "none", evidence |-> 0]
  /\ criterion = [status |-> "none", evidence |-> 0]
  /\ gates = [g \in Required |-> 0]
  /\ repairs = 0 /\ failed = {}
  /\ state = "working"
  /\ agent = Idle
  /\ undo = [u \in Undoers |-> Resting]
  /\ verdict = Unjudged

-----------------------------------------------------------------------------
(* Somebody else than the agent writes: a command that runs may see it.    *)
Write(c) ==
  /\ source' = c
  /\ agent' = IF agent.pc = "running" THEN [agent EXCEPT !.seen = @ \cup {c}] ELSE agent

(* _invalidate_evidence: a completed step is pending again.                *)
Reopened(claim) == IF claim.status = "done" THEN [claim EXCEPT !.status = "pending"] ELSE claim
InvalidateEvidence ==
  /\ revision' = revision + 1
  /\ verified' = {}
  /\ tests' = [i \in DOMAIN tests |-> [tests[i] EXCEPT !.fresh = FALSE]]
  /\ step' = Reopened(step)

(* refresh_evidence, once the files are read.                              *)
RefreshEvidence(digest) ==
  IF \E i \in verified : tests[i].digest # digest
  THEN InvalidateEvidence
  ELSE UNCHANGED <<revision, verified, tests, step>>

-----------------------------------------------------------------------------
(* A file change of the agent: _replace compares, then replaces; _record.  *)

EditCheck(c) ==
  /\ agent.pc = "idle"
  /\ step.status # "none"
  /\ edits < MaxEdits
  /\ c # source
  /\ agent' = [Idle EXCEPT !.pc = "replacing", !.before = source, !.after = c]
  /\ UNCHANGED <<tree, revision, evidence, verified, claims, state, undo, verdict>>

EditReplace ==
  /\ agent.pc = "replacing"
  /\ source' = agent.after
  /\ agent' = [agent EXCEPT !.pc = "replaced"]
  /\ UNCHANGED <<changes, edits, outside, revision, evidence, verified, claims, state, undo, verdict>>

EditRecord ==
  /\ agent.pc = "replaced"
  /\ changes' = changes \cup {[id |-> edits, before |-> agent.before, after |-> agent.after]}
  /\ edits' = edits + 1
  /\ InvalidateEvidence
  /\ state' = "working"
  /\ agent' = Idle
  /\ UNCHANGED <<source, outside, gates, repairs, failed, criterion, undo, verdict>>

(* undo_file and undo_change, in a thread of the user interface.           *)
UndoAt(u, pc) == undo[u].pc = pc
UndoGoto(u, pc) == undo' = [undo EXCEPT ![u].pc = pc]

UndoPick(u) ==
  /\ UndoAt(u, "idle")
  /\ \E x \in changes :
       /\ \A y \in changes : y.id <= x.id
       /\ undo' = [undo EXCEPT ![u] = [pc |-> "picked", change |-> x]]
  /\ UNCHANGED <<tree, revision, evidence, verified, claims, state, agent, verdict>>

UndoCheck(u) ==
  /\ UndoAt(u, "picked")
  /\ IF source = undo[u].change.after
     THEN UndoGoto(u, "replacing")
     ELSE undo' = [undo EXCEPT ![u] = Resting]
  /\ UNCHANGED <<tree, revision, evidence, verified, claims, state, agent, verdict>>

UndoReplace(u) ==
  /\ UndoAt(u, "replacing")
  /\ Write(undo[u].change.before)
  /\ UndoGoto(u, "replaced")
  /\ UNCHANGED <<changes, edits, outside, revision, evidence, verified, claims, state, verdict>>

(* The change may be gone: another thread undid it.  That raises.          *)
UndoPop(u) ==
  /\ UndoAt(u, "replaced")
  /\ IF undo[u].change \in changes
     THEN UndoGoto(u, "popped")
     ELSE undo' = [undo EXCEPT ![u] = Resting]
  /\ changes' = changes \ {undo[u].change}
  /\ UNCHANGED <<source, edits, outside, revision, evidence, verified, claims, state, agent, verdict>>

UndoInvalidate(u) ==
  /\ UndoAt(u, "popped")
  /\ InvalidateEvidence
  /\ undo' = [undo EXCEPT ![u] = Resting]
  /\ UNCHANGED <<tree, gates, repairs, failed, criterion, state, agent, verdict>>

(* An editor, a terminal, a checkout: nothing tells the run.               *)
OutsideWrite(c) ==
  /\ outside < MaxOutside
  /\ c # source
  /\ outside' = outside + 1
  /\ Write(c)
  /\ UNCHANGED <<changes, edits, revision, evidence, verified, claims, state, undo, verdict>>

-----------------------------------------------------------------------------
(* run_tests, called by the agent or, for a quality gate, by               *)
(* run_quality_gate.                                                       *)

TestBegin(c, g) ==
  /\ agent.pc = "idle"
  /\ Len(tests) < MaxTests
  /\ g => c \in Required
  /\ agent' = [Idle EXCEPT !.pc = "opening", !.command = c, !.gate = g, !.revision = revision]
  /\ UNCHANGED <<tree, revision, evidence, verified, claims, state, undo, verdict>>

(* The digest before.                                                      *)
TestOpen ==
  /\ agent.pc = "opening"
  /\ agent' = [agent EXCEPT !.pc = "opened", !.before = source]
  /\ UNCHANGED <<tree, revision, evidence, verified, claims, state, undo, verdict>>

(* permit_verification: it is given the command as it is worded, while     *)
(* _failed_actions has commands as they are recorded.                      *)
PermittedOnceMore(command, digest) == repairs <= MaxRepairs /\ <<command, digest>> \notin failed
PermittedAgain(command, digest) == repairs < MaxRepairs
Permitted(command, digest) == repairs < MaxRepairs /\ <<command, digest>> \notin failed

TestStart ==
  /\ agent.pc = "opened"
  /\ Permitted(agent.command, agent.before)
  /\ state' = "working"
  /\ agent' = [agent EXCEPT !.pc = "running", !.seen = {source}]
  /\ UNCHANGED <<tree, revision, evidence, verified, claims, undo, verdict>>

TestRefused ==
  /\ agent.pc = "opened"
  /\ ~Permitted(agent.command, agent.before)
  /\ state' = "blocked"
  /\ gates' = IF agent.gate THEN [gates EXCEPT ![agent.command] = 0] ELSE gates
  /\ agent' = Idle
  /\ UNCHANGED <<tree, revision, tests, repairs, failed, verified, claims, undo, verdict>>

(* The command exits, then the digest after is read: what changes between  *)
(* is taken for something the command saw.                                 *)
TestExit(outcome) ==
  /\ agent.pc = "running"
  /\ agent' = [agent EXCEPT !.pc = "recording", !.after = source, !.passed = outcome]
  /\ UNCHANGED <<tree, revision, evidence, verified, claims, state, undo, verdict>>

(* run_command raises: nothing is recorded but the quality gate's failure. *)
TestAbort ==
  /\ agent.pc = "running"
  /\ gates' = IF agent.gate THEN [gates EXCEPT ![agent.command] = 0] ELSE gates
  /\ agent' = Idle
  /\ UNCHANGED <<tree, revision, tests, repairs, failed, verified, claims, state, undo, verdict>>

FreshByRevision(a) == a.revision = revision
Fresh(a) == a.before = a.after /\ a.revision = revision

(* The evidence, observe_verification, and the result of the quality gate. *)
TestRecord ==
  LET fresh == Fresh(agent)
      sound == agent.passed /\ fresh
      command == Recorded[agent.command]
      entry == [command |-> command, asked |-> agent.command,
                passed |-> agent.passed, fresh |-> fresh, before |-> agent.before, digest |-> agent.after,
                revision |-> revision, seen |-> agent.seen] IN
  /\ agent.pc = "recording"
  /\ tests' = Append(tests, entry)
  /\ verified' = IF sound THEN verified \cup {Len(tests) + 1} ELSE verified
  /\ IF sound
     THEN UNCHANGED <<repairs, failed>> /\ state' = "working"
     ELSE /\ repairs' = repairs + 1
          /\ failed' = failed \cup {<<command, agent.after>>}
          /\ state' = IF repairs' < MaxRepairs THEN "working" ELSE "blocked"
  /\ gates' = IF agent.gate THEN [gates EXCEPT ![agent.command] = Len(tests) + 1] ELSE gates
  /\ agent' = Idle
  /\ UNCHANGED <<tree, revision, claims, undo, verdict>>

-----------------------------------------------------------------------------
(* update_plan, in a thread: it refreshes the evidence, checks the steps   *)
(* against it, and replaces the plan.                                      *)

PlanRead(claim) ==
  /\ agent.pc = "idle"
  /\ agent' = [Idle EXCEPT !.pc = "planning", !.before = source, !.claim = claim]
  /\ UNCHANGED <<tree, revision, evidence, verified, claims, state, undo, verdict>>

PlanCheck ==
  /\ agent.pc = "planning"
  /\ RefreshEvidence(agent.before)
  /\ agent' = IF agent.claim.status = "done" => agent.claim.evidence \in verified'
              THEN [agent EXCEPT !.pc = "assigning"] ELSE Idle
  /\ UNCHANGED <<tree, gates, repairs, failed, criterion, state, undo, verdict>>

PlanAssign ==
  /\ agent.pc = "assigning"
  /\ step' = agent.claim
  /\ state' = "working"
  /\ agent' = Idle
  /\ UNCHANGED <<tree, revision, evidence, verified, criterion, undo, verdict>>

(* record_verification: a criterion that passed needs evidence, too.       *)
CriterionRead(claim) ==
  /\ agent.pc = "idle"
  /\ agent' = [Idle EXCEPT !.pc = "judging", !.before = source, !.claim = claim]
  /\ UNCHANGED <<tree, revision, evidence, verified, claims, state, undo, verdict>>

CriterionRecord ==
  /\ agent.pc = "judging"
  /\ RefreshEvidence(agent.before)
  /\ criterion' = IF agent.claim.status = "done" => agent.claim.evidence \in verified'
                  THEN agent.claim ELSE criterion
  /\ agent' = Idle
  /\ UNCHANGED <<tree, gates, repairs, failed, state, undo, verdict>>

-----------------------------------------------------------------------------
(* completion_gate: evidence that counts, and CompletionController's       *)
(* evaluate.  A run that passes is judged a second time, when its stream   *)
(* has ended.                                                              *)

Valid(digest) ==
  { i \in verified' : /\ tests'[i].passed /\ tests'[i].fresh
                      /\ tests'[i].revision = revision' /\ tests'[i].digest = digest }

(* A newer run of the same command settles the failure of an older one.    *)
Latest(c) == {i \in DOMAIN tests : tests[i].command = c /\ \A j \in DOMAIN tests :
                                     tests[j].command = c => j <= i}

Acceptable(valid) ==
  /\ state # "blocked"
  /\ step'.status # "none" => (step'.status = "done" /\ step'.evidence \in valid)
  /\ \A g \in Required : gates[g] \in valid /\ tests[gates[g]].command = g
  /\ \A c \in Commands : \A i \in Latest(c) : tests[i].passed
  /\ criterion.status # "none" => (criterion.status = "done" /\ criterion.evidence \in valid)
  /\ edits > 0 => valid # {}

Classified(valid) ==
  IF ~Acceptable(valid) THEN "blocked"
  ELSE IF valid # {} /\ (edits > 0 => (step'.status # "none" \/ Required # {}))
       THEN "completed_verified" ELSE "completed_unverified"

GateRead ==
  /\ agent.pc \in {"idle", "certified"}
  /\ agent' = [Idle EXCEPT !.pc = "deciding", !.before = source, !.gate = (agent.pc = "certified")]
  /\ UNCHANGED <<tree, revision, evidence, verified, claims, state, undo, verdict>>

GateDecide ==
  LET valid == Valid(agent.before)
      class == Classified(valid) IN
  /\ agent.pc = "deciding"
  /\ RefreshEvidence(agent.before)
  /\ verdict' = [class |-> class, digest |-> agent.before, basis |-> valid]
  /\ state' = IF class = "blocked" THEN "blocked" ELSE "working"
  /\ agent' = [Idle EXCEPT !.pc = IF class = "blocked" \/ agent.gate THEN "ended" ELSE "certified"]
  /\ UNCHANGED <<tree, gates, repairs, failed, criterion, undo>>

-----------------------------------------------------------------------------
Editing == EditReplace \/ EditRecord \/ \E c \in Sources : EditCheck(c)
Undoing(u) == UndoPick(u) \/ UndoCheck(u) \/ UndoReplace(u) \/ UndoPop(u) \/ UndoInvalidate(u)
Testing ==
  \/ \E c \in Commands, g \in BOOLEAN : TestBegin(c, g)
  \/ TestOpen \/ TestStart \/ TestRefused \/ TestAbort \/ TestRecord
  \/ \E outcome \in BOOLEAN : TestExit(outcome)
Claims ==
  {[status |-> "pending", evidence |-> 0]} \cup
  {[status |-> "done", evidence |-> i] : i \in DOMAIN tests}
Claiming ==
  \/ \E claim \in Claims : PlanRead(claim) \/ CriterionRead(claim)
  \/ PlanCheck \/ PlanAssign \/ CriterionRecord
Judging == GateRead \/ GateDecide

Next ==
  \/ Editing \/ Testing \/ Claiming \/ Judging
  \/ \E u \in Undoers : Undoing(u)
  \/ \E c \in Sources : OutsideWrite(c)

Spec == Init /\ [][Next]_vars

-----------------------------------------------------------------------------
(* A run that is called verified was tested, and on the source the gate    *)
(* read: no run of the commands it counts saw another one, every required  *)
(* quality gate is among them as it is worded, and no command's last run   *)
(* failed, commands told apart by their record (completion.py's evaluate, over everything that can make evidence       *)
(* stale).  What goes unnoticed is a source that is changed while a        *)
(* command runs and put back before it exits, by an outside editor or by   *)
(* two undo threads that have not yet invalidated the evidence.            *)
VerifiedIsTested ==
  verdict.class = "completed_verified" =>
    /\ verdict.basis # {}
    /\ \A i \in verdict.basis : tests[i].passed /\ tests[i].seen = {verdict.digest}
    /\ \A g \in Required : \E i \in verdict.basis : tests[i].asked = g
    /\ \A c \in Commands : \A i \in Latest(c) : tests[i].passed

(* docs/ADAPTIVE_RECOVERY.md:222, "Repair is bounded to three failed       *)
(* verification cycles".                                                   *)
RepairsBounded == Cardinality({i \in DOMAIN tests : ~tests[i].passed}) <= MaxRepairs

(* docs/ADAPTIVE_RECOVERY.md:223, "an identical failed command/cwd/        *)
(* workspace hash is not executed again with the same workspace hash", of  *)
(* a command that is worded like the record of the failure.  One that is   *)
(* not (a secret in it is redacted, its directory is "src/" for "src")     *)
(* runs again on the same hash: what failed is never found under its name. *)
NoBlindRepeat ==
  \A i, j \in DOMAIN tests :
    i < j /\ tests[j].asked = tests[i].command /\ ~tests[i].passed
      => tests[j].before # tests[i].digest

(* docs/CODING_COCKPIT.md:57, "Tamamlanan adıma güncel gerçek kanıt        *)
(* gerekir": a completed step has evidence that nothing made stale yet.    *)
DoneHasEvidence == step.status = "done" => step.evidence \in verified
=============================================================================
