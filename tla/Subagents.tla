------------------------------ MODULE Subagents ------------------------------
(***************************************************************************)
(* The specialists one coding run starts, waits for, cancels and closes    *)
(* (firik_agent/projects/subagents.py).  Each child is an asyncio task; an *)
(* action is what a task does between two points at which it really        *)
(* suspends.  Cancelling a task only marks it: the exception arrives at    *)
(* its next suspension.                                                    *)
(*                                                                         *)
(* Left out: pausing, messages, monetary budgets, a journal that refuses a *)
(* write, and what wait() tells the run's agent of a child that has ended. *)
(* That the closing of an execution raises is left out as well, because    *)
(* close_execution catches what its parts raise.                           *)
(***************************************************************************)
EXTENDS Naturals, FiniteSets

CONSTANTS
  Children,      \* child identities
  Workers,       \* those that get an isolated workspace
  Browsing,      \* the others that are granted browser tools
  Spawners,      \* who may spawn: "agent", the run itself, or "user", from the screen
  MaxChildren, MaxParallel, TokenBudget,  \* SubagentLimits
  ChildBudget,   \* the token budget of an assignment
  AgentBudget,   \* per_agent_token_budget: one number, or {} if the profile sets none
  Sizes,         \* tokens a request may reserve
  MaxExcess,     \* bound: tokens a provider reports beyond the reserved ones
  Nobody

ASSUME SubagentConstants ==
  /\ Workers \subseteq Children /\ Browsing \subseteq Children \ Workers
  /\ Spawners \subseteq {"agent", "user"}
  /\ MaxChildren \in Nat /\ MaxParallel \in Nat \ {0}
  /\ TokenBudget \in Nat /\ ChildBudget \in Nat /\ MaxExcess \in Nat
  /\ AgentBudget \subseteq Nat
  /\ Sizes \subseteq Nat \ {0}
  /\ Nobody \notin Children

VARIABLES
  task,        \* where the child's _run is
  status,      \* job["status"]
  deps,        \* job["depends_on"]
  row,         \* the state of the child's journal row
  interrupt,   \* the children whose task was told to cancel
  raised,      \* the children whose task has ended in an exception
  unresolved,  \* the children in control.unresolved_operations
  flight,      \* the child's request in progress: what it reserved, and the excess so far
  reserved,    \* what the requests of the child have reserved together
  total,       \* _reserved_tokens
  spawning,    \* the holder of _spawn_lock
  stopped,     \* control.cancel_event
  run,         \* what has become of the run
  listed       \* the jobs close() saw

childVars == <<task, status, row, interrupt, raised, unresolved>>
tokenVars == <<flight, reserved, total>>
runVars == <<spawning, stopped, run, listed>>
vars == <<childVars, tokenVars, runVars, deps>>

Tasks == {"none", "created", "depending", "queued", "working", "collecting", "over"}
Outcomes == {"completed", "failed", "cancelled", "outcome_unknown"}
Statuses == {"none", "waiting", "running"} \cup Outcomes
Rows == {"none", "dispatching", "running", "completed", "failed", "outcome_unknown"}

NoRequest == [size |-> 0, excess |-> 0]
NoSpawn == [pc |-> "idle", by |-> "nobody", child |-> Nobody, deps |-> {}]

TypeOK ==
  /\ task \in [Children -> Tasks]
  /\ status \in [Children -> Statuses]
  /\ deps \in [Children -> SUBSET Children]
  /\ row \in [Children -> Rows]
  /\ interrupt \subseteq Children /\ raised \subseteq Children /\ unresolved \subseteq Children
  /\ flight \in [Children -> [size : Sizes \cup {0}, excess : 0 .. MaxExcess]]
  /\ reserved \in [Children -> Nat]
  /\ total \in Nat
  /\ spawning \in {NoSpawn} \cup
       [pc : {"asking", "preparing"}, by : Spawners, child : Children, deps : SUBSET Children]
  /\ stopped \in BOOLEAN
  /\ run \in {"open", "closing", "closed"}
  /\ listed \subseteq Children

Init ==
  /\ task = [c \in Children |-> "none"] /\ status = [c \in Children |-> "none"]
  /\ deps = [c \in Children |-> {}]
  /\ row = [c \in Children |-> "none"]
  /\ interrupt = {} /\ raised = {} /\ unresolved = {}
  /\ flight = [c \in Children |-> NoRequest]
  /\ reserved = [c \in Children |-> 0]
  /\ total = 0
  /\ spawning = NoSpawn /\ stopped = FALSE /\ run = "open" /\ listed = {}

Jobs == {c \in Children : task[c] # "none"}
Over(c) == task[c] = "over"
Open == {c \in Jobs : ~Over(c)}

-----------------------------------------------------------------------------
(* spawn, under _spawn_lock.                                               *)

(* The checks before the user is asked.                                    *)
HasRoom(ds) ==
  /\ Cardinality(Jobs) < MaxChildren
  /\ ds = {} => Cardinality({c \in Open : status[c] = "running"}) < MaxParallel

Spawn(by, c, ds) ==
  /\ spawning = NoSpawn
  /\ run = "open" /\ ~stopped
  /\ task[c] = "none"
  /\ ds \subseteq Jobs
  /\ HasRoom(ds)
  /\ spawning' = [pc |-> "asking", by |-> by, child |-> c, deps |-> ds]
  /\ UNCHANGED <<childVars, tokenVars, deps, stopped, run, listed>>

(* The intent is committed before the task exists.                         *)
Register(c, ds) ==
  /\ task' = [task EXCEPT ![c] = "created"]
  /\ status' = [status EXCEPT ![c] = IF ds = {} THEN "running" ELSE "waiting"]
  /\ deps' = [deps EXCEPT ![c] = ds]
  /\ row' = [row EXCEPT ![c] = "dispatching"]
  /\ spawning' = NoSpawn
  /\ UNCHANGED <<interrupt, raised, unresolved, tokenVars, stopped, run, listed>>

(* Authorized, and still enabled: a child without a workspace starts.      *)
SpawnReader ==
  /\ spawning.pc = "asking"
  /\ spawning.child \notin Workers
  /\ run = "open" /\ ~stopped
  /\ Register(spawning.child, spawning.deps)

(* A worker's workspace is created in a thread.                            *)
SpawnWorker ==
  /\ spawning.pc = "asking"
  /\ spawning.child \in Workers
  /\ run = "open" /\ ~stopped
  /\ spawning' = [spawning EXCEPT !.pc = "preparing"]
  /\ UNCHANGED <<childVars, tokenVars, deps, stopped, run, listed>>

SpawnPrepared ==
  /\ spawning.pc = "preparing"
  /\ Register(spawning.child, spawning.deps)

(* Denied, disabled meanwhile, or no workspace; the agent's call may also  *)
(* be cancelled.                                                           *)
SpawnFailed ==
  /\ spawning.pc # "idle"
  /\ spawning' = NoSpawn
  /\ UNCHANGED <<childVars, tokenVars, deps, stopped, run, listed>>

-----------------------------------------------------------------------------
(* _run.                                                                   *)

Goto(c, place) == task' = [task EXCEPT ![c] = place]

(* A task that is cancelled before its first step never takes one: only    *)
(* the canceller, or wait, notes it.                                       *)
Start(c) ==
  /\ task[c] = "created" /\ c \notin interrupt
  /\ Goto(c, "depending")
  /\ row' = [row EXCEPT ![c] = "running"]
  /\ UNCHANGED <<status, interrupt, raised, unresolved, tokenVars, runVars, deps>>

NeverStarted(c) ==
  /\ task[c] = "created" /\ c \in interrupt
  /\ Goto(c, "over")
  /\ status' = [status EXCEPT ![c] = "cancelled"]
  /\ raised' = raised \cup {c}
  /\ UNCHANGED <<row, interrupt, unresolved, tokenVars, runVars, deps>>

(* The try block is left with an outcome, and the permit is returned.      *)
Leave(c, outcome) ==
  /\ Goto(c, "collecting")
  /\ status' = [status EXCEPT ![c] = outcome]
  /\ flight' = [flight EXCEPT ![c] = NoRequest]
  /\ interrupt' = interrupt \ {c}
  /\ UNCHANGED <<row, raised, unresolved, runVars, deps>>

(* A dependency's task is awaited to its end, which passes on what it has  *)
(* raised, and must have completed.                                        *)
SatisfiedEarly(d) == status[d] = "completed"
Satisfied(d) == Over(d) /\ d \notin raised /\ status[d] = "completed"

DependenciesMet(c) ==
  /\ task[c] = "depending" /\ c \notin interrupt
  /\ \A d \in deps[c] : Satisfied(d)
  /\ Goto(c, "queued")
  /\ UNCHANGED <<status, row, interrupt, raised, unresolved, tokenVars, runVars, deps>>

DependencyFailed(c) ==
  /\ task[c] = "depending" /\ c \notin interrupt
  /\ \E d \in deps[c] : Over(d) /\ ~Satisfied(d)
  /\ Leave(c, "failed")
  /\ UNCHANGED <<reserved, total>>

(* The semaphore, then a checkpoint of the run.                            *)
FreeEarly(c) ==
  Cardinality({d \in Children \ {c} : task[d] \in {"depending", "working"}}) < MaxParallel
Free(c) == Cardinality({d \in Children \ {c} : task[d] = "working"}) < MaxParallel

Work(c) ==
  /\ task[c] = "queued" /\ c \notin interrupt
  /\ Free(c)
  /\ ~stopped
  /\ Goto(c, "working")
  /\ status' = [status EXCEPT ![c] = "running"]
  /\ UNCHANGED <<row, interrupt, raised, unresolved, tokenVars, runVars, deps>>

(* Every model request reserves its bound before it is sent.               *)
AffordableAlone(c, n) == reserved[c] + n <= ChildBudget
Affordable(c, n) == total + n <= TokenBudget /\ reserved[c] + n <= ChildBudget

Reserve(c, n) ==
  /\ task[c] = "working" /\ c \notin interrupt
  /\ flight[c] = NoRequest
  /\ ~stopped
  /\ Affordable(c, n)
  /\ flight' = [flight EXCEPT ![c] = [size |-> n, excess |-> 0]]
  /\ reserved' = [reserved EXCEPT ![c] = @ + n]
  /\ total' = total + n
  /\ UNCHANGED <<childVars, runVars, deps>>

(* A report of usage beyond the reservation is booked in one piece.  One   *)
(* that exceeds the run's budget, or what the profile allows an agent, ends *)
(* the child; the budget of its assignment is not looked at.  Its request  *)
(* is then still open in the journal, so that the failure counts as        *)
(* uncertain.                                                              *)
Report(c, n) ==
  LET over == \/ total + n > TokenBudget
              \/ \E budget \in AgentBudget : reserved[c] + n > budget IN
  /\ task[c] = "working" /\ c \notin interrupt
  /\ flight[c] # NoRequest /\ flight[c].excess + n <= MaxExcess
  /\ reserved' = [reserved EXCEPT ![c] = @ + n]
  /\ total' = total + n
  /\ IF over
     THEN \E outcome \in {"failed", "outcome_unknown"} : Leave(c, outcome)
     ELSE /\ flight' = [flight EXCEPT ![c].excess = @ + n]
          /\ UNCHANGED <<childVars, runVars, deps>>

Answered(c) ==
  /\ task[c] = "working" /\ c \notin interrupt
  /\ flight[c] # NoRequest
  /\ flight' = [flight EXCEPT ![c] = NoRequest]
  /\ UNCHANGED <<childVars, reserved, total, runVars, deps>>

(* A result, an error, an unaffordable request, or the time limit.         *)
Finish(c, outcome) ==
  /\ task[c] = "working" /\ c \notin interrupt
  /\ outcome = "completed" => flight[c] = NoRequest
  /\ outcome = "cancelled" => stopped
  /\ Leave(c, outcome)
  /\ UNCHANGED <<reserved, total>>

(* CancelledError, from cancel(), close() or a checkpoint of the run.      *)
Cancelled(c) ==
  /\ \/ task[c] \in {"depending", "queued", "working"} /\ c \in interrupt
     \/ task[c] = "queued" /\ Free(c) /\ stopped
  /\ Leave(c, "cancelled")
  /\ UNCHANGED <<reserved, total>>

(* The finally block.  Cleaning up after a child suspends its task if it   *)
(* has a workspace, or may have a browser open: a tool is called only when *)
(* a request has been answered.                                            *)
Opened(c) == c \in Browsing /\ reserved[c] > 0
Lingers(c) == c \in Workers \/ Opened(c)

(* Changes outside its paths make a worker failed, whatever it was.        *)
Collected(c) == {status[c]} \cup IF c \in Workers THEN {"failed"} ELSE {}

UncertainIfUnknown(s) == s = "outcome_unknown"
Uncertain(s) == s \in {"cancelled", "outcome_unknown"}

(* The row's state: a child that was stopped has an unknown outcome.       *)
RowOf(s) == IF s = "cancelled" THEN "outcome_unknown" ELSE s

Record(c, s) ==
  /\ task[c] = "collecting"
  /\ s \in Collected(c)
  /\ Lingers(c) => c \notin interrupt
  /\ Goto(c, "over")
  /\ status' = [status EXCEPT ![c] = s]
  /\ unresolved' = IF Uncertain(s) THEN unresolved \cup {c} ELSE unresolved
  /\ row' = [row EXCEPT ![c] = RowOf(s)]
  /\ UNCHANGED <<interrupt, raised, tokenVars, runVars, deps>>

(* What leaves the block before the outcome is recorded: a cancellation    *)
(* while a browser, an execution or a thread is waited for, or a browser   *)
(* that does not confirm that it is closed.                                *)
Missed(c) ==
  /\ task[c] = "collecting"
  /\ Goto(c, "over")
  /\ raised' = raised \cup {c}
  /\ UNCHANGED <<row, interrupt, unresolved, tokenVars, runVars, deps>>

CollectingCancelled(c) ==
  /\ Lingers(c) /\ c \in interrupt
  /\ Missed(c)
  /\ \E s \in Collected(c) : status' = [status EXCEPT ![c] = s]

BrowserNotClosed(c) ==
  /\ Opened(c) /\ c \notin interrupt
  /\ Missed(c)
  /\ UNCHANGED status

-----------------------------------------------------------------------------
(* cancel and close.                                                       *)

(* With nothing to clean up the finally block runs to its end at once.     *)
Interruptible == {c \in Open : task[c] = "collecting" => Lingers(c)}

(* By the agent or the user; the canceller waits for the task's end.       *)
Cancel(c) ==
  /\ run # "closed"
  /\ c \in Interruptible
  /\ interrupt' = interrupt \cup {c}
  /\ UNCHANGED <<task, status, row, raised, unresolved, tokenVars, runVars, deps>>

(* The user stops the run: the agent's tool call is cancelled.             *)
Stop ==
  /\ run = "open" /\ ~stopped
  /\ stopped' = TRUE
  /\ spawning' = IF spawning.by = "agent" THEN NoSpawn ELSE spawning
  /\ UNCHANGED <<childVars, tokenVars, deps, run, listed>>

(* finalize_run: the agent has answered, failed or been stopped.           *)
Close ==
  /\ run = "open" /\ spawning.by # "agent"
  /\ run' = "closing"
  /\ listed' = Jobs
  /\ interrupt' = interrupt \cup Interruptible
  /\ UNCHANGED <<task, status, row, raised, unresolved, tokenVars, deps, spawning, stopped>>

AllEndedUnawaited == TRUE
AllEnded == \A c \in listed : Over(c)

Closed ==
  /\ run = "closing"
  /\ AllEnded
  /\ run' = "closed"
  /\ UNCHANGED <<childVars, tokenVars, deps, spawning, stopped, listed>>

-----------------------------------------------------------------------------
Spawning ==
  \/ \E by \in Spawners, c \in Children, ds \in SUBSET Jobs : Spawn(by, c, ds)
  \/ SpawnReader \/ SpawnWorker \/ SpawnPrepared \/ SpawnFailed

(* What a child's task does by itself, if nobody interferes.               *)
Advance(c) ==
  \/ Start(c) \/ NeverStarted(c) \/ DependenciesMet(c) \/ DependencyFailed(c) \/ Work(c)
  \/ \E outcome \in Outcomes : Finish(c, outcome)
  \/ Cancelled(c)
  \/ \E s \in Outcomes : Record(c, s)
  \/ CollectingCancelled(c) \/ BrowserNotClosed(c)

Requesting(c) ==
  \/ \E n \in 1 .. MaxExcess : Report(c, n)
  \/ Answered(c)
  \/ \E n \in Sizes : Reserve(c, n)

Next ==
  \/ Spawning
  \/ \E c \in Children : Advance(c) \/ Requesting(c) \/ Cancel(c)
  \/ Stop \/ Close \/ Closed

Spec == Init /\ [][Next]_vars

(* The event loop runs every task that is ready, the time limit ends the   *)
(* work of a child, and a closing run goes on when its children are over.  *)
FairSpec == Spec /\ (\A c \in Children : WF_vars(Advance(c))) /\ WF_vars(Closed)

-----------------------------------------------------------------------------
(* docs/SANDBOXED_EXECUTION.md:103, "Declared dependencies finish before a *)
(* dependent run begins": they have ended, and their completion is on      *)
(* record, before a dependent may take a permit.                           *)
DependenciesRecorded ==
  \A c \in Children : task[c] \in {"queued", "working"} =>
    \A d \in deps[c] : Over(d) /\ row[d] = "completed"

(* What the journal says a child came to is what the run was told, and an  *)
(* unknown outcome is one the run has to resolve.                          *)
OutcomesAgree ==
  \A c \in Children :
    /\ row[c] \in {"completed", "failed"} => (status[c] = row[c] /\ c \notin unresolved)
    /\ row[c] = "outcome_unknown" => (status[c] \in {"cancelled", "outcome_unknown"} /\ c \in unresolved)
    /\ c \in unresolved => row[c] = "outcome_unknown"

(* Beyond the token budget goes only what the providers report in excess   *)
(* for the requests that were in progress (_reserve_request,               *)
(* _record_usage).                                                         *)
ExcessBounded == total <= TokenBudget + MaxParallel * MaxExcess

(* docs/CODING_AGENT_2.md:94, "Ana çalışma bittiğinde veya durdurulduğunda *)
(* açık çocuklar iptal edilir": when the run is closed no child goes on.   *)
ClosedIsQuiet == run = "closed" => Open = {}

(* docs/DURABLE_EXECUTION.md:21, "child outcome and delivery are recorded  *)
(* separately": what an ended child is reported to have come to is in the  *)
(* journal.                                                                *)
OutcomeRecorded ==
  \A c \in Children : (Over(c) /\ status[c] \in {"completed", "failed"}) => row[c] = status[c]

(* Children wait for dependencies and for permits, and never all for each  *)
(* other: while any is open, the task of one can go on by itself (_run     *)
(* takes its permit only when its dependencies are over).                  *)
GoesOn(c) ==
  /\ task[c] = "depending" =>
       \/ c \in interrupt \/ \A d \in deps[c] : Over(d)
       \/ \E d \in deps[c] : Over(d) /\ ~Satisfied(d)
  /\ task[c] = "queued" => (c \in interrupt \/ Free(c))
SomebodyGoesOn == Open # {} => \E c \in Open : GoesOn(c)

(* Every child that is spawned ends: children that wait for others do not  *)
(* keep the others from working.                                           *)
ChildrenEnd == <>[](Open = {})
=============================================================================
