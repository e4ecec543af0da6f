# A verification project for firik-agent

firik-agent is a desktop coding agent: a Python process (or several of them) that
runs an LLM loop on an asyncio event loop, executes tools on a workspace, and keeps
everything durable in one SQLite file.  Here are TLA+ models of its control core,
TLC configurations that check them on small instances, and TLAPS proofs about them
for every instance.

All source paths below are relative to `src/firik_agent/`, all documents to
`src/docs/`.

1. [The system](#1-the-system)
2. [The modules](#2-the-modules)
3. [The runs](#3-the-runs)
4. [Where the code disagrees with its documentation](#4-where-the-code-disagrees-with-its-documentation)
5. [The proofs](#5-the-proofs)
6. [What is not modelled](#6-what-is-not-modelled)
7. [Plan](#7-plan)

Run everything from this directory:

    tlasany M.tla                              parse a module
    tlc -workers 2 -config X.cfg MCModule.tla  check a run (section 3)
    tlapm XProofs.tla                          check the proofs of a component

## 1. The system

A *coding run* is one prompt executed in a project.  An application instance
(`ui/coding_bridge.py`) creates the run in the session store, claims its ownership,
drives the agent loop (`core/agent.py`), whose tool calls go to the coding tools
(`projects/coding_runtime.py`), and finally closes the children the run started,
stores its status and releases the ownership.  Everything that must survive a death
of the process is committed to SQLite before it is acted upon: the intent to execute
something, its dispatch, its outcome.  A later instance recovers what a dead one left
behind, and the user can inspect it, reconcile it, cancel it, or continue the run in
a new one.  The run's agent may spawn child agents, which share its budget, and which
write, if they write, to workspaces of their own.

### Components

| Component | State | Operations | What is hard | What makes it correct |
| --- | --- | --- | --- | --- |
| **Execution journal** `projects/execution_journal.py` | rows of attempts, an event log for each run | begin, transition, recover_interrupted, reconcile, compact | death between intent, dispatch and outcome; duplicate and late outcomes; retries | one open attempt of a step; outcomes are never replaced; the log is the history of the rows |
| **Sessions and ownership** `projects/coding_sessions.py` | statuses, owner rows, live tokens of each process | create_run, claim_owner, release_owner, update_run, finish_run, recover_interrupted | several instances, death, restart, calls of several transactions | one executor for a run; recovery touches nothing that is alive |
| **Durable resume** `projects/resume.py`, `ui/coding_recovery.py`, `projects/recovery_cli.py` | continuations, resume claims | inspect, prepare_resume, cancel, reconcile, inherited_completed_tool | a check in one transaction, a write in a later one | one continuation of a run; a mutation is not repeated by it |
| **Coding tools and evidence** `projects/coding_runtime.py` | files, undo history, revision, evidence, plan, gates | edits, undo, run_tests, quality gates, update_plan, record_verification, completion gate | undo threads and outside editors write while tests run | what is called verified was tested, and on the present source |
| **Completion control** `core/completion.py` | repair cycles, failed commands | permit, observe, evaluate | bounds across interleavings | bounded repair, no blind repetition |
| **Subagents** `projects/subagents.py`, `projects/specialists.py` | jobs, tasks, permits, reservations | spawn, _run, reserve, report, cancel, close | cancellation at every suspension; dependencies over a semaphore; close during a spawn | recorded outcomes agree; dependencies come first; nothing outlives the run; everything ends |
| **Isolated workspaces** `projects/isolated_workspaces.py` | worktrees, proposals, review state | create, propose_merge, review, integrate, rollback, reconcile, cleanup | a merge that fails half way, or dies; stale reviews | all of a merge or none; only what was reviewed is merged |
| **Agent loop and request recovery** `core/agent.py`, `core/recovery.py`, `core/failures.py` | turn, attempts, budgets | request, stream, tool call, retry | a request that may have arrived is sent again; budgets across retries | no repeated effect; limits hold |
| **Live control and approvals** `projects/coding_runtime.py:312-656` | paused, cancelled, policies, pending approvals | pause, resume, cancel, request_approval, decide_approval | decisions that race cancellation; policies that tighten meanwhile | a decision is used once, and only by its request |
| **Coding run lifecycle** `ui/coding_bridge.py`, `ui/coding_actions.py` | the active run | start, finalize_run, undo, steer | order of closing, saving and releasing | a run is saved before it is released |
| **Checkpoints** `projects/checkpoints.py` | snapshots of files | create, preview, restore | partial restore, changed files | restore all or nothing |
| **Execution backends** `core/execution.py`, `core/shell.py` | processes, containers | execute, terminate, clean up | timeouts, orphans | no process survives its timeout |
| **Development servers** `projects/dev_servers.py` | the one server of a run: its state, command, monitor | start, status, stop, watch | two locks, and a status without them; a process whose end cannot be confirmed | one server process, which somebody ends; stopped means stopped |
| **Voice** `voice/*.py` | capture and speech generations | press, release, transcribe, speak, stop | late results of an older generation | no result reaches another session |
| **MCP connections** `mcp/*.py` | the connection under a name, its client, its users, the registered tools | connect, disconnect, restart, add, update, remove, acquire, release, call | callers that wait for one lock while the connection is replaced; failure half way through connecting | one live process of a connection, which somebody can end |
| **Browser sessions** `browser/*.py` | contexts by owner | open, act, close | owners that end | a context serves its owner only |
| **Project store** `projects/db.py` | SQLite file | transactions, migrations | concurrent writers | BEGIN IMMEDIATE is atomic (assumed by every module here) |
| **Scheduler and project management** `projects/scheduler.py`, `projects/pm_service.py` | due checks | run, trigger, stop, start | throttle, stop that gives up | at most ten checks an hour, one loop |
| **Runtime** `core/runtime.py` | one event loop in a thread | submit, close | | its fairness is what the liveness properties assume |
| **Context and compaction** `core/compaction.py`, `core/session.py`, `projects/context_builder.py` | messages | append, compact | tool calls and results stay paired | sequential |
| **Git tools**, **Cockpit projections**, **Self-improvement**, **Harness and benchmarks**, **Providers and API**, **Computer use**, **Plugins and skills**, **Screens and command line** | | | | see section 6 |

### How they interact

* bridge → sessions: `create_run`, `claim_owner`, `update_run("running")`, terminal
  status, `release_owner`: four separate transactions, in this order (`RunOwnership`).
* agent loop → journal: `begin`, `dispatching`, `running`, outcome, around every
  request and every tool call (`ExecutionJournal`; `RunOwnership` uses it for the one
  mutation that a chain of continuations shares).
* start-up → sessions → journal: one transaction interrupts runs, then one for each
  journal that has to be recovered.
* recovery screen and command line → resume → journal, sessions: `inspect`, then a
  write in a later transaction.
* coding tools ↔ undo threads ↔ the file system: no lock is held between a read of the
  files and the use of what was read (`CodingEvidence`).
* subagents → journal, budget of the run, workspaces: a child's journal row and status
  are written at different suspension points (`Subagents`).

## 2. The modules

| Module | Models | Composition |
| --- | --- | --- |
| `LogicalSteps` | what a logical step of a run promises: the abstract specification of the journal | |
| `ExecutionJournal` | the journal: rows, events, capacity, compaction | implements `LogicalSteps` (`Refines`) |
| `RunOwnership` | instances, ownership, start-up recovery, continuations, cancel, reconcile | uses the journal as `LogicalSteps` has it (`JournalUsed`) |
| `CodingEvidence` | edits, undo, outside writes, tests, plan, gates, completion | |
| `Subagents` | spawning, life, budget, cancellation and closing of children | |
| `AgentRun` | the agent's loop: requests, their recovery, budgets, tool attempts over prompts and deaths | |
| `LiveControl` | pause, cancellation, policy and approvals, between the event loop and the screen | |
| `IsolatedWorkspaces` | worktrees, proposals, reviews, the merge and its rollback | |
| `Checkpoints` | snapshots of the source, their restoring, its backup and rollback | |
| `VoiceSessions` | capture, transcription and speech of several tabs that share two devices | |
| `DevServers` | the supervisor of a run's development server, on the host backend | |
| `McpConnections` | the pool of MCP servers under one name | |
| `MCCodingEvidence` | | `CodingEvidence`, with what goes on beside a run, or `DevServers`, or `McpConnections` |
| `MCTurnParts` | | `AgentRun` and `LiveControl` beside each other |
| `MCContentParts` | | `IsolatedWorkspaces` to `VoiceSessions` beside each other |
| other `MC…` | symmetry, bounds, the view of the journal | extends the module |
| `…Proofs` | theorems | extends the module and TLAPS |

### LogicalSteps and ExecutionJournal

`LogicalSteps` knows a phase for each logical step (nothing open, ready, dispatched,
unknown, done) and what may follow: a step that is done stays done, an unknown one is
settled by an inspection only, and never by a repetition.  `ExecutionJournal` keeps
what the code keeps: `rows` is `coding_execution_steps` by attempt, `events` is
`coding_run_events` in sequence order, `status` the little of `coding_sessions` that
the journal looks at.  Each public method is one `BEGIN IMMEDIATE` transaction under
the store's lock, so an action is one committed call.  A call that raises, or that
dies before its commit, rolls back and is a stuttering step: that is where death
between intent, dispatch and outcome is covered.  A report may be delivered twice, late
(after `recover_interrupted`), or with another payload.  `None` is SQL NULL.  An input
stands for everything `begin` compares when an identity is repeated, a result for the
stored payload; compaction replaces a payload by its digest, and a digest by the
digest of a digest, which the code does, too.

The refinement mapping (`LogicalPhase`) reads a step's phase from the states of its
attempts: done if one completed, unknown or dispatched or ready if one is, and nothing
open if all of them failed or were cancelled.  Two attempts that are open, or a completed one
beside an open one, are "contested", which is no phase of `LogicalSteps`: that the journal
refines it therefore includes that a step is attempted once at a time.

### RunOwnership

An action is one committed transaction, or one read of a call that reads first and
writes in a later transaction; this is the granularity at which two instances on one
SQLite file interleave.  Each instance is a process with an executor task (one prompt
at a time: create or prepare, claim, mark running, check the lineage, intend, dispatch,
perform, report, finish, release) and a recovery task (start-up, cancel, reconcile).
A process may die between any two actions; what it owned is then `Dead`, or
`Unreadable` where the code cannot tell (its pid is reused by something it cannot
distinguish, or the host is another one) and treats the owner as alive.  The final save may fail, or
the journal write before it (`SaveFails`): the run then stays active, and its owner is released all
the same.  Deaths and failed saves are the faults that `MaxFaults` bounds.  An owner's
liveness is read inside the transaction that uses it, as the code does.

All runs of a conversation want the same mutation, and `effects` is the truth about
which steps took effect in the workspace, which no transaction can read; only
`ReconcileSettle` looks at it, for the evidence a reconciliation demands.  "running"
stands for every active status but queued, "stopped" for failed, cancelled and blocked.

### CodingEvidence

Tools of one agent run one after the other, but most of them await a thread or a
process, and the undo button and any editor outside write the same files meanwhile.  An
action is what happens between two points where they can step in: a read of the files,
a replacement, an update of the run's records.  The source tree is one value, its
digest, because `run_tests`, `refresh_evidence` and the gate use exactly this.
A command stands for its wording and the directory it is to run in; `Recorded` is what a record makes
of both (`safe_text` redacts, the directory is normalized), which may be the record of another wording.  A permission
looks at the wording, everything later at the record.
`tests[i].seen` and `tests[i].asked` are history: the sources a command may have run on while it
ran, and how it was worded.  An edit, its undo and evidence that becomes stale are told apart by the change's
identity and the workspace revision, as in the code.

### Subagents

An action is what a child's asyncio task does between two points at which it really
suspends: awaiting a future that is already done does not suspend, so that the `finally` block of a
child that has nothing to clean up is one action.  That of a worker, which waits for threads, is not, nor is
that of a child that may have opened a browser (`Opened`: it is granted browser tools, and a request of it
was sent): a cancellation arrives before the outcome is recorded, or the closing of the browser raises.
`task.cancel()` only marks a task (`interrupt`), and the exception arrives at its next
suspension; a task that is cancelled before its first step never takes one.  The permit
of the semaphore is held exactly while `task[c] = "working"`.  A request reserves its
bound before it is sent; what a provider reports beyond it is booked later, in one piece
(`_record_usage`; `MaxExcess` bounds how much for one request) and is then compared with the run's budget
and with what the profile allows an agent (`AgentBudget`), not with the budget of the assignment.  `Spawners` says who may spawn: the run's
own agent, whose tool call is over before the run is closed, or the user, from the screen, whose
call is not.

### AgentRun

One conversation, and in it one turn after another.  An action is what the loop does
between two awaits, or the saving of one row: `place` is where it is.  A logical request
(`_request_with_recovery`) is one or more attempts; what becomes of an attempt is a class
and a phase of the failure (`core/failures.py`), and `accepted` counts how often the
provider took the request, which the code cannot know when an answer is lost; `returned` counts
those of them that the provider itself gave back with an error inside an accepted answer
(`providers/_chat.py:93`, 147).
`Action` is `decide()` of `core/recovery.py`, in its order of tests.  A tool attempt is in the
messages from its announcement on, and on disk (`saved`) from the next save; `Crash` goes
back to what was saved.  `open` counts the dispatches of an operation whose outcome
nobody learned, over turns and deaths; only the tool itself can close one.  A tool's
arguments are part of the operation, which is therefore what the code calls a fingerprint.
`stopped` and `late` may become true at any moment, and are looked at where the
code looks.  Coding runs (`durable`) and ordinary chats share the loop and differ in what they
may repeat.

### LiveControl

Each caller is a tool call on the event loop, in `authorize()` or `request_approval()`: an action
is one line that reads or writes what the screen's thread may change, since that thread
is not stopped by the loop.  `cancel()` of the screen is two actions, because it sets the stop
event and lifts the pause afterwards; a spoken stop sets the token of its request and lifts no
pause.  `policy` stands for the effective decision on what the callers ask for.
`firstAnswer` is a history variable.

### IsolatedWorkspaces

Every public method holds one lock on the repository; what interferes is agents in their
worktrees, the user in the target, and the death of the process.  An action is
therefore one look at a file, one replacement of a file, one saved record, or the comparison of what the method
has seen by then.  `propose_merge`, `resolve_overlaps` and `integrate` begin with `Look`, which reads HEAD, and
look at their own worktree and at those of all others file after file (`LookAt`, in the order of `InTurn`) while the agents
go on; what they compute (`Overlaps`, `Mergeable`, `Unchanged`, …) is computed from `seen`, not from the worktrees.
A merge then reads what it will replace, file after file (`BackUpFile`), saves "integrating" (`StartMerge`), and looks at each
file once more before it replaces it.  That the target is clean and HEAD as it was (`Integrate`) is one action:
what the user writes to different files commutes.  `target`, `head` and
`headTree` are the user's checkout, `tree[w]` and `base[w]` a worktree; git's merge of a
patch is `Mergeable` and `Merged`, file by file.  `author` (whose content stands in a file),
`lost`, `raced` and `applied` are history variables.  `MarkReviewed`, `CollectPatch` and `SaveResolution`
write their states over whatever stood there, as the code does.

### Checkpoints

Like a merge, a restore compares, backs up, and publishes file after file, but its lock holds
off only other restores, the agent and every editor may write at any time (`EditSource`), and its
history is a row in SQLite instead of a record.  `Opaque` stands for all contents that a
snapshot leaves out (binary, secret, too large); `Publishes` has the guards of the system
calls used: a new file is linked and does not replace one, a deletion needs the file.
A publication may fail before or after the file changed.  `_replace` compares a file with what is expected
(`CompareFile`, `RollbackFile`) and replaces it in a later action (`PublishFile`, `UnpublishFile`), so that an edit may come
between them.  In a row `took` is history: what each replacement, or its reversal, really found in the
file, and whether somebody edited it since the comparison (`raced`); `put` are the files that are as they were published, and
`broke` the one whose own publication failed after it happened.

### VoiceSessions

A controller for each tab, two devices, and three kinds of actors: calls of the screen, of which
each is one action as only the screen begins anything; the threads that record and speak,
each action from one lock of theirs to the next; the event loop that transcribes, and delivers
what was posted (`Deliver`).  A call is a function from what a controller sees (`World`) to what it
leaves, composed as the methods call each other: `Speaks` may have to stop speaking, which
may resume the conversation, which begins a capture.  `number` in a thread and `generation` in a
transcript or a post are what the code compares; cancellation events are set only together with a
new number, and are not modelled beside it.  The pieces from which a call is composed are one action although
the code gives its lock back between some of them (`_begin_capture`, `speak`): nothing is compared
between them that another thread changes.  `pc` says where a thread is: waiting for a lock of
`CaptureCoordinator`, holding it before the device (`begin`), using it, or past it.
`origin` is a history variable.

### DevServers

Tools of a run, its end and the shutdown of the application (`Clients`) call `start`, `status` and
`stop` on one event loop; an action is what a task does from one wait to the next, and `calls`
says at which wait it is.  `startLock` is `_lock`, which `start` and the second half of `stop` hold,
and `stopLock` is `_backend_stop_lock`, held while somebody ends the command.  `status`, the first
half of `stop` and the monitor work without the first.  `commands` is the record the host backend
keeps of each command: `cancel_command` (`core/execution.py:452`) waits for the command's task,
so that a second cancellation of the caller reaches a task that is ending already and changes nothing,
and the ten seconds `_stop_command` allows for it are spent after the task is done.  "stuck" is a
command that ended while its process could not be killed; that process may still end by itself.
Callers may be cancelled at a wait (`Abandon`), but where the code shields what they
wait for.  `Settled` is `_settle`, which every reader of the state calls first, so that what
counts is the state a reader will find, and not the one that is stored.
Logs, command lines, ports, workspaces (made with a server and given up with it) and Docker, which `start` refuses,
are left out; the bounded lifetime ends a server at any time ("expired").
`reported` is a history variable: the last server whose stop was confirmed to a caller.

### McpConnections

The pool keeps a connection for each name; one name is modelled, because connections of
different names share nothing but the registry, where their tools have different names.  Tasks (the settings
screen, chats, coding runs) run on one event loop, and an action is what a task does from one
wait to the next: for the lock of the connection, for the process that starts and answers
(`handshake`), or for one that ends (`drop`, `stop`).  Updating or adding a server puts another
connection object under the name while tasks may still wait for the lock of the first, which is why
`callers[t].of` says which connection a task has in its hands.  A free `asyncio.Lock` is taken without a wait:
who finds it free (`first`) goes on before anybody else.  A server's process is "up", "deaf" (its
output has ended, so that `is_connected` is false while the process lives), "closing" or
"lost".  `abandoned` is a history variable: the processes that a failed start, a cancelled
one, or a reconnection beside a deaf process left without an owner.

### MCTurnParts and MCContentParts

The five modules from `AgentRun` to `VoiceSessions` are checked by two runs: one for the two that must
come to an end (`MCTurnParts`), one for the three that keep what users and agents made (`MCContentParts`).
The specification of each run is the sum of its modules: `part` is
chosen at the start, one part moves, and the others stay as they are.  This is *no*
composition: the parts do not interact, and none is claimed to.  It is as if there
were five runs; for each property of a part, the other parts are
irrelevant.  Three conditions, `SmallWorkspaces`, `SmallCheckpoints` and `SmallVoice`, keep bounds
together that are each small, but need not be reached all at once.

## 3. The runs

Deadlock is not checked: all of these systems may legitimately stop, when every run,
step or child has ended, or a bound is reached.  Properties that must eventually come
true are stated as such.

| Run | Question | Instance |
| --- | --- | --- |
| `journal` | Is the journal a correct history, whatever order calls arrive in, and does it implement `LogicalSteps`? | 1 run, 2 steps, 3 attempts, 2 payloads, `MaxSteps` 2 |
| `ownership_commands` | One executor, spared by start-up recovery, and one continuation? | 2 live instances, 3 runs, of which 2 exist while users cancel |
| `ownership_recovery` | Is the journal right about every effect and dispatch, no effect repeated by a continuation, and is a lost dispatch found? | 2 instances; 2 runs and 1 fault, or 1 run and 3 faults (a fault is a death or a failed final save) |
| `evidence` | Does an undo or an outside editor, at any moment, leave a claim that is not tested?  Are repairs bounded and not blind? | 2 sources, 1 required command, another one, and one that is recorded as the first, 2 repairs; beside an undo thread 2 edits and 2 runs of the required command, beside an outside write 1 edit and 3 runs |
| `evidence` (servers) | Is a server process the only one and attended to, and a stop that was confirmed true? | 2 clients, 2 servers, calls without bound |
| `evidence` (connections) | Has a connection one live process at most, and has every live process somebody who can end it? | 2 tasks, 1 session, 2 connections, 2 processes, calls without bound |
| `subagents` | Are dependencies, recorded outcomes, budget and closing right, and does every child end? | a worker, a reader and a reader with browser tools, 2 permits, 1 token, 1 token in excess |
| `run_turns` (agent) | Is a request taken once, no uncertain operation repeated, and does every turn end? | 2 operations, 1 of them remote, 2 call identities, 2 calls in a response, 2 requests, 1 retry of a request and of a run, 1 iteration |
| `run_turns` (control) | Does an approval belong to its request, and does a cancellation end every wait? | 2 callers, 1 approval each |
| `run_content` (workspaces) | Is a merge of reviewed content only, undone completely or said not to be, and is nothing lost that its agent or the user wrote elsewhere? | 2 files; 1 workspace with 1 proposal: 2 edits of the agent, 2 of the user, 1 fault, these and the versions in use at most 6 together; 2 workspaces with 2 proposals: 2 versions, 2 edits or faults, of them 1 of the user |
| `run_content` (checkpoints) | Is what a restore replaced in its backup, and is its status true? | 2 paths, 4 contents, 3 checkpoints, 3 edits, both together at most 5 |
| `run_content` (voice) | Does a text reach only the session it was spoken in, and always somebody?  Is the microphone one tab's, and given back?  Do threads never wait for each other? | 2 tabs, 2 sessions, 2 threads of a tab, 1 waiting sentence, 4 generations and tickets of a tab |
| `ownership_cancel_live`, `ownership_consumed`, `evidence_stale`, `subagents_lost`, `subagents_user` | counterexamples, section 4 | |

### Why these bounds

* `journal`: with `MaxSteps` 2 a run holds two attempts, a retry of one step or two
  steps, and the third identity is the one the limit refuses.  Two payloads tell a
  duplicate from a contradiction.  One run: no call touches two runs.  Longer chains of
  retries are left to the theorems, which hold for any number.  Attempts, steps and
  payloads are symmetric, and the view forgets how events of different attempts are
  interleaved in the log, as no property compares them.
* `ownership_*`: two instances are the contention the code guards against, and three
  runs are a source, its continuation, and the continuation of that, or a second one
  if it could exist.  While somebody cancels two suffice (`FewCancelled`).  One fault suffices to leave a continuation to an instance that
  prepared it before it was consumed, and two runs to have one (`FewFaults`).  More faults are
  checked with a single run, which can be lost, recovered and taken over: three let both
  instances, and a restarted one, die.  Longer chains together with faults exceed what can be
  enumerated; `ownership_commands` has no faults.
* `evidence`: two sources suffice to leave a source and come back to it, two
  commands for one that is required and one that is not (or, instead, for one whose record is that of the
  first: `OneSpelling`), and two repairs leave room for one failure and the refusal after the second.  Undo and outside writes are
  behaviours apart (`beside` in `MCCodingEvidence`), because together, and already with
  `MaxOutside` 2, an outside editor could change a source and put it back while one command
  runs; that would go unnoticed by the code, which compares a digest before with a digest after, and
  `VerifiedIsTested` is stated without it.  One undo thread, for the same reason (section 4, *Evidence*).
* `evidence`, servers: the part is chosen by `beside`, like undo and editor, and the evidence does not
  move.  Two clients and the monitor are the three that may want to end one command, and two servers are one and its
  successor, which must wait for the end of the first; grants and cancellations are not bounded.
* `evidence`, connections: two tasks are a caller and one that restarts, updates, releases or removes
  the server meanwhile; two connections are one and the one that takes its place, two processes
  one and its successor.  Where a second connection exists, nothing was abandoned, nobody uses the first and
  both start alike (`SmallPool`).
* `subagents`: three children make a chain, a fork and a join of dependencies, and with
  two permits a child waits for one.  One token makes the second request, or the
  excess of the first, one too many: every report in excess ends its child there, and larger budgets are left to
  `BudgetHolds`.  The reader with browser tools may linger like the worker, the other reader does not.
* `run_turns`, agent: two requests and one retry let a retry meet the limit of
  requests, and the summary of a compaction take the last one; two operations let a
  call follow an uncertain one of the same and of another operation in one response, and a
  remote one has its own error paths.  With `RepeatedFailures` 1 one failure is too many.
  Prompts and deaths are not bounded at all.
* `run_turns`, control: two callers share the events and the policy, and nothing else; one
  approval each, as requests are never used again.  Answers, pauses, policies are not bounded.
* `run_content`, workspaces: two workspaces are rivals of each other, and two proposals may
  belong to one or to both.  Two files are the least with which a merge can fail half
  way.  Edits by agent and user and a fault can each come at every step of looking, merging and rolling back.
  With one workspace up to two edits of the user let one interfere with a merge and the other with its rollback; with
  two, edits and faults together are at most two (`SmallWorkspaces`), which is a competing edit and something that
  happens during the merge.  Workspaces that failed, are interrupted or are missing have no part in that.
* `run_content`, checkpoints: three checkpoints are one, the backup of a first restore, and a
  second backup; with two checkpoints there may be three edits: the one that gives a restore of two files
  something to do, one that makes the second file fail, and one that meets the rollback of the first ("changed meanwhile").
* `run_content`, voice: a capture or a reply takes two of the four turns, so that one tab can have
  an outdated and a live thread of a device, and what the older one brings late.  Two
  threads reach the limit of threads (the code has 4), one sentence that of the queue (8).  Two
  tabs share only devices and lease: where both are used they have five turns together (a live
  capture, an outdated one, and what cancelled it), and neither changes its session nor waits for
  an agent.

### Properties

*Journal.* `EventsMatchRows`: the log is the history of the rows.
`OnlyInspectionSettles`: what became unknown is settled by a reconciliation event
only.
`HistoryKept` (action property): no call rebinds an identity or replaces a terminal
outcome.  `Refines`: it implements `LogicalSteps`, and an attempt of a step is begun only once
the one before failed or was cancelled.

*Ownership.* `OneExecutor`, `InterruptedIsOrphaned`, `OneContinuation`, `OneEffect`
(the mutation takes effect in one run of a chain), `FirstDispatchStands` (the journal
holds the dispatch of a live executor, of a run that is no continuation), `EffectsRecorded` (what took effect is never
on record as failed or withdrawn), `LostIsFound` (liveness: the dispatch of a dead
owner is found by some start-up), `JournalUsed` (calls stay within `LogicalSteps`).
The last five are checked without the command `cancel` (and `JournalUsed` is proved with it), in chains of two runs; of longer
ones `MutationsHappenOnce` proves `OneEffect`.  `LiveDispatchStands`, which is `FirstDispatchStands` for all runs, is what `cancel` and `reconcile` break (section 4).

*Evidence.* `VerifiedIsTested` (what the run is verified for was tested, on the present
source, by a command that saw no other), `RepairsBounded`, `NoBlindRepeat` (what failed is not run again on
the same source, of commands that are worded like the record of the failure; section 4 has the others).

*Servers.* `ProcessAttended`: at most the last server has a process, and while it has, the monitor, a
stop, or the start that made it is there to end it, or whoever asks is told that its end is
uncertain.  `StoppedIsDown`: a stop that was confirmed stays true, whatever is started, watched or asked
meanwhile.

*Connections.* `OneProcess`: but for what is `abandoned`, a connection has one live process at most, and
each is the connection's own or that of the task that is starting it, whoever connects, restarts,
calls, updates and stops at the same time.

*Subagents.* `DependenciesRecorded`, `OutcomesAgree`, `ExcessBounded` (beyond the token
budget goes only what providers report in excess), `ClosedIsQuiet`, `SomebodyGoesOn` (absence of
deadlock: as long as a child is open, the task of one can take a step of its own), and `ChildrenEnd`
(liveness).

*Agent.* `AcceptedOnce`: whatever is retried, a provider takes (and bills) a logical request
once, but for those it gave back itself, with a rejection and before any output: a loss, a doubt, a
partial or an unreadable answer is never followed by another sending.
`UnknownNotRepeated`: no operation is dispatched while the outcome of an earlier dispatch is
unknown, over responses, turns and deaths.  `TurnEnds` (liveness): a turn
ends, also when nobody answers.

*Control.* `FirstAnswerCounts`: a caller acts on the first answer its request was
given, and the journal has completed approvals of answered requests only.
`WithdrawnIsForgotten`: nothing pending and no answer is left of a request that nobody waits
for.  `StopEndsWaiting` (liveness): a cancellation, by whatever way, ends the waiting of
every caller.

*Workspaces.* `LostOnlyInWindow`: an edit of the user is overwritten only between the last
look at the file and its replacement (the window the code cannot close without the
user's editor taking part).  `UndoneLeavesNothing`: all or nothing, or the files are named.
`OnlyReviewedContent`: what a merge wrote is what the reviewer saw, which needs every
comparison that `integrate` makes again.  `NoLostUpdate`: what a merge is about to replace is the version its
agent started from, so that no content that came to the target later is overwritten by work that did not know
it, but in that window.
`IgnoredIsIntegrated`: a workspace that is no rival any more, as it is integrated, has
been.

*Checkpoints.* `BackedUp`: what a restore, or its rollback, really found in a file it replaced is in the
backup, or is what the restore itself had put there, wherever it stopped; only an edit of an existing file between
its last comparison and its replacement is in neither (the window between `checkpoints.py:407` and 409).
`StatusIsTrue`: a row that says completed or rolled back is right about the files, but for
the exception of section 4.

*Voice.* `TextArrives`: a text the screen will accept was spoken in the session that is
shown, and a controller that waits for a text, and meanwhile refuses to listen or to speak,
has one coming.  `MicrophoneOwned`: the lease is held exactly while a capture that nobody cancelled
is under way, whatever older captures do when they end; both devices are in use only where
both sides may.  `ThreadsMove` (absence of deadlock): threads with one lock that wait for the
other device never wait for each other.

### Fairness

`RunOwnership!FairSpec`: weak fairness of `Launch` and of the start-up code.  The user
starts the application again, and its start-up, which is sequential code that waits for
nothing but the database, runs.  Nothing is assumed of executors, users' commands or
faults.  Faults are bounded, so that some start-up is not cut short.

`Subagents!FairSpec`: weak fairness of what each child's task does by itself, and of the
end of a close.  The event loop runs every task that is ready; a task that works is
ended by its time limit (`asyncio.wait_for` in `_run`), if by nothing else.  Nothing is assumed of
providers, of cancellation, or of the user.  A child that waits for a permit needs no
strong fairness, because a finite set of children works, and each of them once.

`AgentRun!AgentFairness`: weak fairness of what the loop does by itself, taken together
(it is one coroutine), and of time.  `max_elapsed` of the run passes, and each wait for a
provider or a tool is a loop of short waits with a checkpoint in it (`recovery.py:62`).  Providers, tools
and the user do nothing they do not want to.

`LiveControl!ControlFairness`: weak fairness of each caller.  `checkpoint()` and
`request_approval()` wait in steps (`asyncio.sleep`), so that the loop gives each caller its
turn again.  Nobody has to press a button, and a run that is paused may stay so
if nobody cancels.

`MCTurnParts!MCFairness` is the sum of these two, each where its part moves.

The other modules state no liveness: their calls are made by an agent or a user who may stop
calling.

### Sensitivity

For each property of a passing run `PROJECT.json` names a mutant: a definition changed
the way a plausible bug would change it (a dropped guard, a missing reset, a wrong
state in a table), with which the property fails on the same instance.  The mutated
forms stand before the definitions they mutate (`AllowedLateReport`, `Unclaimed` and
`UnclaimedOrSpent`, `FreeEarly`, `SafeWhenLost`, `CheckNothing`, …) and nothing else uses them.

## 4. Where the code disagrees with its documentation

| Run | What happens | Against |
| --- | --- | --- |
| `ownership_cancel_live` | `cancel()` asks for a live executor in one transaction (`resume.py:527`) and marks the run's dispatches lost in a later one; a run claimed in between loses a live dispatch, and its own report is refused. | `DURABLE_EXECUTION.md:123-124` "must not recover a known live executor as interrupted" |
| `ownership_consumed` | a continuation that somebody prepared while it was queued can be claimed by them after another instance started it and died (`coding_sessions.py:288`) | `DURABLE_EXECUTION.md:105` "A consumed continuation is not started again" |
| `evidence_stale` | `update_plan` checks a step's evidence (`coding_runtime.py:1866`) and stores the plan later (1905); an undo in between invalidates the evidence of the old plan only | `CODING_COCKPIT.md:57` "Tamamlanan adıma güncel gerçek kanıt gerekir." |
| `subagents_lost` | a cancellation while the workspace of a completed child is collected (`subagents.py:695`) or its browser is closed (`subagents.py:685`), or a browser that does not confirm its end, leaves `_run` before `durable_finish` | `DURABLE_EXECUTION.md:21` "child outcome and delivery are recorded separately" |
| `subagents_user` | a spawn from the screen waits for its workspace while the run closes, and registers its child afterwards (`subagents.py:612`) | `CODING_AGENT_2.md:94` "Ana çalışma bittiğinde veya durdurulduğunda açık çocuklar iptal edilir." |

The completion gate does not rely on the plan alone, so that `evidence_stale` does not
lead to a run that is wrongly called verified: `VerifiedIsTested` holds in the same
instance, and in a larger one.

More that was noticed and has no run of its own:

*Journal and children.* A second compaction digests a digest and refuses the identical outcome
(`execution_journal.py:363`); `integrate_changes` opens its attempt with a side
effect the journal does not know (`subagents.py:456`, `execution_journal.py:199-201`), and a
second cancellation, while it waits for the thread that merges, leaves the attempt running
(`subagents.py:468`); a message to a child that ends before its next request was "queued" and is
never delivered (`subagents.py:862`); a child whose changes leave its paths turns from unknown into failed
(`subagents.py:703`).

*Ownership.* `reconcile()` has the gap of `cancel()`: it asks for a live executor
(`resume.py:431`) and marks the dispatches lost in a later transaction (`resume.py:442`).  The run
must be claimed in between although it has attempts already, which takes a continuation that
was consumed by an executor that died (`ownership_consumed`) or could not save its end; it is why `FirstDispatchStands`
is stated of runs that are no continuation.

*One effect.* A continuation may be continued itself while it is still queued: the command line
prepares (`recovery_cli.py`) a continuation of it, the queued one runs all the same, takes effect, and is
stopped with its outcome unknown.  The executor of the second continuation asks
`inherited_completed_tool` (`resume.py:386`), which looks for completed steps of ancestors and
not for unknown ones, and performs the mutation again.  TLC finds `OneEffect` violated as soon as
`Commands` contains "prepare"; `MutationsHappenOnce` is therefore stated without it.

*Evidence.* "An identical failed command/cwd/workspace hash is not executed again with the same workspace hash"
(`ADAPTIVE_RECOVERY.md:222-224`) does not hold of every command.  `permit_verification` is given the command and the directory as
the tool call words them (`coding_runtime.py:1669`), but what failed is remembered as it was recorded, with secrets
redacted and the directory normalized (`coding_runtime.py:1509`, `completion.py:70-73`), so that a command with a token in it, or
one in `src/` instead of `src`, is permitted again, until the repair cycles are used up.  TLC finds it at once when
`NoBlindRepeat` compares `asked` with `asked`.  For the same reason two commands whose records are alike settle each other's failures.

An undo replaces the file first and makes the evidence stale afterwards (`undo_change`,
`coding_runtime.py:1448` and 1455), so that two undo threads can undo a change and its reversal while
one command runs, both between the two, and the command's result counts although it saw the other
source: with two `Undoers` TLC finds `VerifiedIsTested` violated.  The screen offers an undo only
while no run is busy (`coding_workspace.py:1488`), which leaves to it only threads that were started
before and are still at it.

*Requests.* `ADAPTIVE_RECOVERY.md:29` promises an overloaded provider a "bounded backoff"; in a
coding run the request counts as one of unknown outcome, and is never retried
(`agent.py:1027-1053`).  "Usage or empty frames are not visible output, but do prove that a provider
accepted the request" (`agent.py:953`), yet a rate limit or an overflow that is reported in a stream after
such frames (`providers/_chat.py:147-154`) counts as a confirmed rejection (`agent.py:1027-1031`) and the
request is sent again (`recovery.py:204-216`): taken twice, and perhaps billed twice, which is why
`AcceptedOnce` excepts what was given back.  A complete response that is over the budget is journalled as unknown.
A request cancelled in flight ends a coding run as failed or blocked and not as
cancelled.  Calls that were never dispatched, since the turn was cancelled
before their turn came, are marked as unknown for good by `repair_tool_history`.

*Control.* A second answer that comes after the first was taken is accepted by the screen and
has no effect.  A policy tightened from allow to ask does not reach callers that have decided
already (`coding_runtime.py:542`).  `resume` and `set_state` after a cancellation overwrite
the state that is shown.

*Voice.* A conversation nobody paused can go on without listening: `sync_agent_state` that says busy
and later idle (`controller.py:205`) resumes nothing, and neither does `_resume_if_needed` when another
tab has the microphone (`controller.py:255`).  Speaking a text during a review discards the review
(`_invalidate_locked` in `speak`).

*Workspaces and checkpoints.* `mark_reviewed` sets a proposal that is integrated, or rolled back,
to reviewed again, and `collect_patch` a record in whatever state; neither allows an unreviewed
merge, because `integrate` compares everything again.  But it compares competing worktrees with what was resolved (`isolated_workspaces.py:629`)
while their agents may be at work, and starts later (654): what they write in between
competes with the merge and nobody has resolved it.  A file whose own publication fails after it
happened is not rolled back although the restore says so (`broke` in `Checkpoints`), and when
the status cannot be saved it stays "applying".

*Connections.* `release_for_session` decides before it waits for the lock, and `disconnect`
(`mcp/connection.py:108`) keeps a server that is used again only if it starts by itself, although a
release only comes where it does not: a server that another session acquired meanwhile is
stopped, and connected again by the next call.  A process whose handshake or list of tools fails, or whose
starting is cancelled, is kept by nobody (`mcp/connection.py:86`; `HARNESS_AUDIT.md:41` says so).  A task
that waits for the lock while the server is removed or updated starts the removed connection again, and nothing in
the pool can stop it any more.  A disconnection cancels the calls that wait for an answer,
which looks to a run as if it were cancelled itself.

*Outside the models.* The scheduler's throttle looks
at finished checks only, and a `start` after a `stop` that gave up revives the old loop
(`scheduler.py:66`, `102`).

## 5. The proofs

Assumptions are the named ones of the modules: `JournalConstants`,
`OwnershipConstants`, `EvidenceConstants`, `SubagentConstants`, `AgentConstants`,
`ControlConstants`, `WorkspaceConstants`, `CheckpointConstants`, `ServerConstants`, `McpConstants`,
`VoiceConstants` (types and distinctness of the constants; TLC evaluates each in its runs).  Nothing else is assumed, except
where a theorem says so.  All constants are arbitrary: any number of runs, instances,
attempts, commands, undo threads, children, callers, workspaces, files, checkpoints, servers,
connections, tabs, threads, faults, and any budgets.  What eight theorems assume in addition:

* `EffectsAreRecorded`, `FirstDispatchesStand` and `DispatchesStandWithoutFault`: nobody gives the
  command `cancel`, which withdraws what it listed as ready even if it was dispatched
  meanwhile (`ownership_cancel_live`).
* `MutationsHappenOnce`: nor `prepare`, from the command line (section 4, *One effect*).
* `VerifiedRunsAreTested`: `OneUnnoticed`, at most one undo thread and no outside write, or one outside
  write and no undo; section 4 says what two do, and `VerdictsHaveEvidence` needs neither.
* `ClosedRunsAreQuiet`: only the agent spawns (`subagents_user`).
* `PlainReadersAreRecorded`: no child has a workspace to collect or is granted browser tools (`subagents_lost`).
* `CompletedStepsAreCovered`: no undo thread (`evidence_stale`).

The last three, `DispatchesStandWithoutFault` and `NoRestartWithoutFault` are the other side of a counterexample of
section 4: without what TLC used in it (a second spawner, something to clean up, an undo, a `cancel` or a fault, a fault)
the property holds, so that nothing else leads to its violation.

| Module | Theorem | Shows |
| --- | --- | --- |
| `ExecutionJournalProofs` | `TypeCorrect` | `TypeOK` (proved only) |
| | `OneOpenAttempt` | `OnlyNewestOpen` (proved only; `Refines` contains it) |
| | `HistoryIsKept` | `HistoryKept`, an action property |
| | `LogIsHistory` | `EventsMatchRows` |
| | `InspectionsSettle` | `OnlyInspectionSettles` |
| | `JournalRefines` | `Refines`: the journal implements `LogicalSteps` |
| `RunOwnershipProofs` | `TypeCorrect` | `TypeOK` (proved only) |
| | `RunsHaveOneExecutor` | `OneExecutor` |
| | `RecoverySparesTheLive` | `InterruptedIsOrphaned` |
| | `SourcesHaveOneContinuation` | `OneContinuation` |
| | `JournalIsUsed` | `JournalUsed`, a refinement, with every command |
| | `EffectsAreRecorded` | `EffectsRecorded`, without `cancel` |
| | `FirstDispatchesStand` | `FirstDispatchStands`, without `cancel` |
| | `MutationsHappenOnce` | `OneEffect`, without `cancel` and `prepare` |
| | `NoRestartWithoutFault` | `ConsumedNotRestarted`, as long as nothing died and every final save succeeded |
| | `DispatchesStandWithoutFault` | `LiveDispatchStands`, as long as nothing died and every final save succeeded, without `cancel` |
| | `LostDispatchesAreAttended` | `LostIsAttended` (proved only), the safety half of `LostIsFound` |
| `CodingEvidenceProofs` | `TypeCorrect` | `TypeOK` (proved only) |
| | `RepairsAreBounded` | `RepairsBounded` |
| | `FailuresAreNotRepeated` | `NoBlindRepeat`, whatever records make of commands |
| | `VerdictsHaveEvidence` | `VerdictHolds` (proved only): what a verdict rests on, whoever writes meanwhile |
| | `VerifiedRunsAreTested` | `VerifiedIsTested`, under `OneUnnoticed` |
| | `EvidenceIsLostToUndo` | `LostToUndo`, an action property (proved only): what can take the evidence of a completed step |
| | `CompletedStepsAreCovered` | `DoneHasEvidence`, without undo |
| | `ServersTypeCorrect` | `ServersTypeOK` (proved only) |
| | `ServersAttended` | `ProcessAttended` |
| | `StoppedServersAreDown` | `StoppedIsDown` |
| | `OneLiveProcess` | `OneProcess` |
| `SubagentsProofs` | `TypeCorrect` | `TypeOK` (proved only) |
| | `OutcomesStandTogether` | `OutcomesAgree` |
| | `DependenciesFinish` | `DependenciesRecorded` |
| | `ClosedRunsAreQuiet` | `ClosedIsQuiet`, if only the agent spawns |
| | `BudgetHolds` | `ExcessBounded` |
| | `ChildrenOnlyAdvance` | `OnlyAdvances`, an action property (proved only): the safety half of `ChildrenEnd` |
| | `NoChildrenDeadlock` | `SomebodyGoesOn` |
| | `OutcomesMissedAtCleanup` | `MissedAtCleanup` (proved only): which outcomes the database misses |
| | `PlainReadersAreRecorded` | `OutcomeRecorded`, without workers and browser tools |
| `AgentRunProofs` | `AgentTypeCorrect` | `AgentTypeOK` |
| | `RequestsAcceptedOnce` | `AcceptedOnce` |
| | `UnknownsAreNotRepeated` | `UnknownNotRepeated` |
| | `LateTurnsRunOut` | `RunsOut` and the bound on `StepsLeft` (proved only): the safety half of `TurnEnds` |
| `LiveControlProofs` | `ControlTypeCorrect` | `LiveControlTypeOK` |
| | `FirstAnswersCount` | `FirstAnswerCounts` |
| | `WithdrawnAreForgotten` | `WithdrawnIsForgotten` |
| | `StoppedCallersRunOut` | `StoppedRunOut`, an action property (proved only): the safety half of `StopEndsWaiting` |
| | `VoiceTypeCorrect` | `VoiceTypeOK` |
| | `MicrophoneIsOwned` | `MicrophoneOwned` |
| | `TextsArrive` | `TextArrives` |
| | `ThreadsNeverDeadlock` | `SomebodyProceeds` (proved only): `ThreadsMove` with guards in place of ENABLED |
| `IsolatedWorkspacesProofs` | `WorkspacesTypeCorrect` | `WorkspacesTypeOK` |
| | `EditsAreKept` | `LostOnlyInWindow` |
| | `UndoneMergesLeaveNothing` | `UndoneLeavesNothing` |
| | `ReviewedContentOnly` | `OnlyReviewedContent` |
| | `IgnoredWorkIsMerged` | `IgnoredIsIntegrated` |
| | `UpdatesAreKept` | `NoLostUpdate` |
| `CheckpointsProofs` | `CheckpointsTypeCorrect` | `CheckpointsTypeOK` |
| | `RestoresAreBackedUp` | `BackedUp` |
| | `StatusesAreTrue` | `StatusIsTrue` |

*Journal.* `NewestInv` adds to the types what rowids say of age (`RowidsByAge`):
"newest" is by rowid, and `OnlyNewestOpen` is not inductive
without it.  With it, the phase of a step depends on one row, and the refinement is a
lemma for each kind of action: a call changes the phase of at most one logical step, in a way
`LogicalSteps` allows; `recover_interrupted`, which changes many rows, maps to the
abstract action that makes all dispatches of a run unknown.  For the log every call that
writes is shown to append one event for each row it changes (`Appended`), with the next version
and, if it settles what was uncertain, as a reconciliation (`Reports`); that `EventsMatchRows` and
`OnlyInspectionSettles` survive such a step is one lemma (`AppendKeepsLog`), whatever the call.
The second needs the first, because the predecessor of a new event has to be the row's state.

*Ownership.* `OneExecutor` is not inductive: `OwnerInv` adds that an executor past its
claim is named by the owner row, or that its run has ended and has no owner any more
(`ExecutorsOwn`).  The second case is a `cancel()` given to the executor's own process,
whose `finish_run` deletes the row of a live executor with the token of that process;
no second executor follows from it, because that command stores the end of the run
before it releases (`EndedBeforeRelease`) and only active runs can be claimed.
`InterruptedIsOrphaned` is part of it, as start-up recovery reads the owner in the
transaction that interrupts.
`OneContinuation` is about lineages only, and so is `LineageInv`: a lineage is the source, which
has claimed the run, with the lineage of the source (`SourceClaims`); lineages are transitive and
without circles (`LineageOrdered`), because a new continuation is a run nobody's lineage has yet
(`AbsentApart`).  Two runs with one lineage but two sources would make each source an
ancestor of the other.

The three about effects share a summary of the step of an instance (`Step(p)`: what may become of its
executor, of its recovery, and of each run's phases, effects, owner, status and source), which
every action is shown to satisfy once; the invariants are then kept by the summary and not action by action.
`StepInv` follows a step from its intent to its outcome: an executor that is about to
dispatch has the step to itself (`StepsAlone`), one that waits for an outcome finds it dispatched or unknown
(`DispatchKnown`), and what took effect was dispatched (`EffectsDispatched`).  `FirstInv` says that a
run without a lineage is in one instance's hands from its creation to its end (`FirstAlone`), and that what start-up has
interrupted and will recover has ended and is executed by nobody (`RecoveredEnded`).  `EffectInv` says that
a run that was continued is over (`SourcesOver`: no executor, and nothing dispatched or unknown), so that what a
continuation read of its ancestors stays true (`NothingInherited`).  `JournalUsed` needs no invariant but the
types, for each call's guard is a guard of `LogicalSteps`.

`RestartInv` says that as long as nothing died and no final save failed a continuation that is running has an owner
row (`RunningOwned`): its executor claims it before it marks it running, and no release takes the row before the run has ended
(`ReleasingEnded`), whatever is commanded; and such an owner is alive (`OwnersLive`), so that nobody claims the run again.
A death leaves a row that can be taken over, and a failed save no row at all.  Before the first fault, too, a run that has
attempts and no owner has ended (`TouchedOwned`), so that `reconcile`, which looks for an owner first, finds ended runs
only, which nobody claims while it goes on (`ReconciledEnded`): the gap of section 4 needs a fault.
`LostIsAttended` is an invariant by itself once `ExecutorsOwn` excludes a dispatch for a dead owner: a death
leaves an instance that has to start again, a start-up lists every dispatch that is lost when it reads, and it
does not end before its list is empty.

*Evidence.* `RepairsBounded` counts entries of a sequence, so that the invariant
compares their number with `repairs` (`FailuresCounted`), and `CallOK` carries the
permit from the start of a command to its record: there is still room for a repair, and
no failure is recorded under its wording for the source it was started on.  `NoBlindRepeat` needs, in
addition, that every failure on record is in `failed` (`FailuresKnown`).
`VerdictInv` holds whoever writes: a verdict rests on passed commands whose source was the verdict's before and
after, each required one among them, with no later failure of the same command.  That such a command saw no
*other* source while it ran is `SeenInv`, and needs `OneUnnoticed`: as long as a command runs, the source
and what it saw are as they were (`Undisturbed`), or the revision has moved, or the one write that is not announced
has happened and cannot be taken back (`Disturbed`), so that the second digest differs.
For a completed step every action is summarised by what it does to evidence and step (`EvidenceStands`: more evidence, or
none and no step that is done), and the replacement of the plan is the exception: what it stores was
`Covered` when it was checked, and only an undo that lands meanwhile takes that away.

*Servers.* `ServersIInv` says that every command but the last has ended well, and the last one, too,
when a start that holds the lock is about to create another (`CommandsOK`, `CallsOK`); for this, who is inside
`start` or the second half of `stop` has to hold `_lock`.  `Attended` is the rest of `ProcessAttended`: a
running command has its monitor, somebody in `_stop_command`, or the start.  A start may be refused
as uncertain only because `_settle` comes first: that is where a process that did not die is
found (`StuckIsUncertain`), and without it (`NeverStuck`) the second server is created.

*Connections.* `McpInv` says for each connection, task and process who has it: a task that is starting, dropping or
stopping holds the lock of the connection it has in its hands; a client in place is a process of this
connection; a live process that was not abandoned is the client in place, or the one somebody is starting
(`ProcessInv`), and one that is closing is so by the task that holds the lock.  What a
step does to other connections, tasks and processes is one lemma (`ElsewhereKeeps`), and so is handing the
lock over (`LeaveKeeps`).

*Subagents.* `RecordsOK` ties the journal row of a child to where its task is: it is open
until the task's last step, and afterwards it says what the status says, unless the task ended in an
exception.  That makes `OutcomesAgree` inductive.
`DependenciesRecorded` needs `SpawnOK` (the child somebody is spawning has no task
yet) and that an ended child never changes again.  `ClosedRunsAreQuiet` needs that
`close()` saw every job there is (`CloseInv`), which only holds if no spawn
goes on meanwhile: the assumption `"user" \notin Spawners` is what `subagents_user`
shows to be needed.
`ExcessBounded` alone is not inductive, as it does not know how many excesses are still to come.  `BudgetInv` counts
them: at most `MaxParallel` children work, only they have requests in progress (`InFlight`), and once
the budget is exceeded nothing more is reserved, while each report takes a request away with its child: the total
and the excess the requests in progress may still report are together within the bound.

`ChildrenOnlyAdvance` numbers the places of `_run` (`Turn`); `NoChildrenDeadlock` takes the
open child that was spawned first: it depends on children that were spawned before it, all of which have ended, so
that it goes on, or waits for a permit that a working child has.  For
`OutcomesMissedAtCleanup` `RowFollows` keeps with a child's row what its task has yet to write, and says that
only a child with something to clean up (`Lingers`) ends without it.

*Agent.* The specification of each of the four theorem modules `AgentRunProofs` to `CheckpointsProofs` is that of its part (or parts)
alone (`AgentSpec`, …), so that neither `MCTurnParts` nor `MCContentParts` is part of any proof.  `LoopOK` says what
`accepted` may be at each `place` (`TakenOnce`: a request that was taken and not given back succeeded, or failed in
a way that is not retried), and that a recovery under way is within the limits
(`RecoveryAllowed`).  `ToolOK` relates the history `open` to what the code
can see: an operation with an open dispatch has an attempt in the messages, and on disk,
that is uncertain, or is known from earlier turns (`DispatchesKnown`), and the call that
is being made is the one that was announced (`CurrentCall`).
`LateTurnsRunOut` is a variant: `StepsLeft` counts four steps for each call without a result and a few for the
rest of the loop, and when the time is over every step lowers it or ends the turn, because nothing that would
raise it (a retry, a summary, a request, a dispatch) is begun.  It speaks of all steps, those of provider, tool and
user included, so that the liveness that is left to TLC is that the loop is not stuck and takes steps at all.

*Control.* `CallerOK` says of every place of a caller whether its request is pending, decided or
answered; `Unasked` that nothing is known of identities that were not used yet.  Both
properties need both.  `StepsOf` is the variant of a caller after a cancellation.

*Voice.* A call is a composition of functions on worlds, and so is its proof: `Leads(w, u)` says what a world `u`
that a call passes through has to do with the world `w` it began in (either the generation and the
session are the same, nothing more is awaited, and a transcription that goes on still does; or the generation is a
later one and nothing is awaited; new threads are new).  Each piece (`Outdated`, `Enters`, `BeginsCapture`,
`Speaks`, …) is shown to lead on, and each call follows.  `OwnOK` is `MicrophoneOwned` with
what keeps it: generations of captures are not in the future and not shared, and the present one
records for the present session.  `OnePlace` is what `TextArrives` needs: what was spoken in a generation is with
the capture, with one transcription, or in one posted text; without it a second transcription of the same generation could
take the state that the first one's text has to find (`TranscriptOK`), and the controller would wait
forever.  Steps of threads and of the event loop are summarised as `ThreadsSound`: generations do not go back
(`TurnsOn`), and a thread is one that was there or belongs to a generation to come (`Descends`).

*Workspaces.* `AuthorsOK` is the core: a file whose content a merge wrote has the content of that
merge, which differs from HEAD as long as HEAD is the one the proposal was made for.  So a
proposal that is merged once more starts with a clean target, and hence with no file of its
own; `LookingOK` carries this over the looking, while agents and the user go on.  `WindowOK` says that between the last look and
a replacement the file is as it was found or is in `raced`; `RecordingOK` that what is about to be recorded as integrated is in
`applied`.  `MergingOK` is what `NoLostUpdate` needs: the files a merge changes (`Differing`) are those where HEAD has the version
the agent started from, because a patch that could be merged finds its old or its new version, and one
that is there already is not written.

*Checkpoints.* `RowOK` follows each row of a restore: what it replaced is what had been compared, or was edited since
(`Accounted`), its backup holds what was expected (`Kept`), and what is still published agrees with its
status.  `JobOK` says that the job which has the lock belongs to the last row, what it
has published is in the row (`Follows`), and that a file it has compared is as it was compared until somebody edits it
(`Compared`).  A job that dies leaves its row to nobody, and `RowOK` does not depend on it.

*Only model-checked.*  Liveness (`LostIsFound`, `ChildrenEnd`, `TurnEnds`, `StopEndsWaiting`) and
`ThreadsMove`, which speaks of ENABLED: the proof system used here has no support for either.  What of them is not
liveness is proved, as the table says: variants and bounds on how often anything can still happen, and that somebody
is not blocked.  What is left to TLC is that a guard that holds enables its action, and that
fairness then makes it happen.  The recorded counterexamples of section 4 are TLC's, too.  No module uses
RECURSIVE operators; where a proof needs an induction over the natural numbers (the order in which children
are spawned), it takes a least element of a set of them.

## 6. What is not modelled

* *Inside the modelled components.* Sanitizing, truncation and hashing of payloads; the
  workspace manifest, whose comparison only makes fewer runs resumable; display
  states; progress snapshots, which store the end of a run that is being stopped while its executor still owns it (`ui/coding_bridge.py:251`:
  `inspect`, `cancel` and `reconcile` look at the owner, too); the acceptance of a model output that was lost
  (`resume.py:434-440`); reading tools; pausing, messages, monetary budgets and `wait()` of
  children, and the exception of a child that `close()` raises once more, which ends the run as failed; policies of an agent's retry that got stricter; links and file modes in
  worktrees and checkpoints; hunks of a file; a SQLite commit that fails, but where a
  row of `AgentRun`, `LiveControl` or `Checkpoints` cannot be saved.
* *Voice.* Settings, muting, pausing of the speaker, the buffer that cuts a streamed reply into
  sentences, levels, signal processing, providers; intent routing and summaries.
* *Connections.* `test()`, renaming and duplicating a server, the list of its tools, servers that are reached
  without a process.
* *Planned:* the scheduler, browser contexts (section 7).
* *External:* git, SQLite, the file system's primitives, model providers, MCP servers,
  browsers, audio, the operating system.  What callers see of them is a result, a
  failure, or an unknown outcome, and the modules have these.
* *Without control state worth a model:* cockpit projections, context building and
  retrieval, git tools (one command each), computer-use adapters, plugin loading,
  wording of voice summaries, harness comparison, benchmarks, widgets and
  command-line parsing.
* *A development of its own:* self-improvement (candidates, evaluation, adoption).

## 7. Plan

Done: the journal, ownership, evidence, children, the agent loop with the recovery of
requests, live control, workspaces, checkpoints, voice sessions, development servers and MCP connections.  What remains, most important first:

1. The composition of the agent loop with live control: `AgentRun` has a flag for a cancellation
   and none for a pause, `LiveControl` callers without a loop.
2. Undo of an ended run, and the snapshots of one that is being stopped, in `RunOwnership`; messages, pausing and monetary budgets in
   `Subagents`.
3. Small modules of two actors each: the scheduler, owners of browser contexts.
4. Worth proving: what a continuation that was restarted after a fault may find
   (`LiveDispatchStands` with faults, without `reconcile`); the refinement of `AgentRun`'s
   tool attempts to `LogicalSteps`.
