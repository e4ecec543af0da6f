-------------------------- MODULE ExecutionJournal --------------------------
(***************************************************************************)
(* The durable execution journal of firik_agent/projects/                  *)
(* execution_journal.py: execution intents and outcomes kept in SQLite,    *)
(* one row per attempt, one event per state change.                        *)
(*                                                                         *)
(* Every public method is one BEGIN IMMEDIATE transaction under the store  *)
(* lock, so an action here is one committed call.  A call that raises      *)
(* JournalConflict, or that an exception or a process death cuts before    *)
(* the commit, rolls back: it is a stuttering step.                        *)
(*                                                                         *)
(* Data: an input stands for everything begin() compares when an attempt   *)
(* identity is repeated except run, step and parent (operation,            *)
(* fingerprint, agent, side effect, permissions, revision); a result for   *)
(* the sanitised outcome payload.                                          *)
(***************************************************************************)
EXTENDS Naturals, Sequences, FiniteSets

CONSTANTS
  Runs,        \* run identities (coding_sessions.id)
  Steps,       \* logical step identities
  Attempts,    \* attempt identities
  Inputs,      \* what an attempt identity is bound to
  Results,     \* outcome payloads
  None,        \* SQL NULL, JSON null
  MaxSteps     \* max_steps_per_run

ASSUME JournalConstants ==
  /\ None \notin Runs \cup Steps \cup Attempts \cup Inputs \cup Results
  /\ IsFiniteSet(Attempts)
  /\ MaxSteps \in Nat \ {0}

VARIABLES
  rows,        \* coding_execution_steps, by attempt_id
  events,      \* coding_run_events of each run, in sequence order
  status       \* coding_sessions.status of each run

vars == <<rows, events, status>>

-----------------------------------------------------------------------------
(* States and the transition table.                                        *)

Terminal   == {"completed", "failed", "cancelled"}
Uncertain  == {"outcome_unknown", "needs_reconciliation"}
Dispatched == {"dispatching", "running"}
Pending    == {"created", "planned", "ready"}
States     == Pending \cup Dispatched \cup Uncertain \cup Terminal

(* The attempts of a step that let begin commit another one.               *)
RetryableIfSettled == Terminal
Retryable == {"failed", "cancelled"}

(* The transition table; its two variants differ in one state each: what a *)
(* late report may settle, and what a ready intent may skip.               *)
TransitionTable(fromReady, fromUnknown) ==
  [ s \in States |->
      CASE s = "created" -> {"planned", "ready", "cancelled", "failed"}
        [] s = "planned" -> {"ready", "cancelled", "failed"}
        [] s = "ready"   -> fromReady
        [] s = "dispatching" -> {"running"} \cup Terminal \cup Uncertain
        [] s = "running" -> Terminal \cup Uncertain
        [] s = "outcome_unknown" -> fromUnknown
        [] OTHER -> {} ]

FromReady == Dispatched \cup {"cancelled", "failed", "needs_reconciliation"}

AllowedLateReport == TransitionTable(FromReady, {"needs_reconciliation", "completed"})
Allowed == TransitionTable(FromReady, {"needs_reconciliation"})

(* A run is closed once its status is completed, failed or cancelled, and  *)
(* open otherwise; compact tells no more of a status than that.            *)
RunStatus == {"open", "closed"}

(* A stored result: the payload itself (digests 0), its SHA-256 marker     *)
(* (digests 1), or the marker of a marker (digests 2 and up, all alike).   *)
Stored == [body : Results \cup {None}, digests : 0 .. 2]
NoResult == [body |-> None, digests |-> 0]

Row ==
  [ run : Runs \cup {None}, step : Steps \cup {None}, parent : Steps \cup {None},
    input : Inputs \cup {None}, state : States \cup {"absent"}, version : Nat,
    result : Stored, rowid : Nat ]

NoRow ==
  [ run |-> None, step |-> None, parent |-> None, input |-> None,
    state |-> "absent", version |-> 0, result |-> NoResult, rowid |-> 0 ]

Event ==
  [ attempt : Attempts, state : States, version : Nat,
    kind : {"execution_step", "execution_reconciled"} ]

-----------------------------------------------------------------------------
Exists(a) == rows[a].state # "absent"

RowsOf(r) == {a \in Attempts : Exists(a) /\ rows[a].run = r}

(* The earlier attempts of a logical step.                                 *)
AttemptsOf(r, s) == {a \in RowsOf(r) : rows[a].step = s}

EventOf(a, row, kind) ==
  [attempt |-> a, state |-> row.state, version |-> row.version, kind |-> kind]

(* _event: sequence is MAX(sequence) + 1 of the run, so an append.         *)
LogNothing(r, event) == events' = events
Log(r, event) == events' = [events EXCEPT ![r] = Append(@, event)]

(* max_steps_per_run blocks new intents.                                   *)
HasCapacity(r) == Cardinality(RowsOf(r)) < MaxSteps

(* Only an uncertain attempt can be reconciled.                            *)
ReconcilableWhenStopped(row) == row.state \in Uncertain \cup {"failed", "cancelled"}
Reconcilable(row) == row.state \in Uncertain

(* compact leaves runs alone that are open or have unfinished attempts.    *)
Compactable(r) ==
  status[r] = "closed" /\ \A a \in RowsOf(r) : rows[a].state \in Terminal

(* The state of a dispatch whose outcome the process did not live to see.  *)
LostState == "outcome_unknown"

(* The row _transition writes: a None result leaves the stored one.        *)
Moved(row, s, res) ==
  [row EXCEPT !.state = s, !.version = @ + 1,
              !.result = IF res = None THEN @ ELSE [body |-> res, digests |-> 0]]

(* A repeated state is a duplicate delivery: accepted, without any write,  *)
(* unless it carries a result other than the stored payload or the one     *)
(* whose digest the compacted row holds.                                   *)
Agrees(row, res) ==
  \/ res = None
  \/ row.result.body = res /\ row.result.digests <= 1

-----------------------------------------------------------------------------
Init ==
  /\ rows = [a \in Attempts |-> NoRow]
  /\ events = [r \in Runs |-> << >>]
  /\ status = [r \in Runs |-> "open"]

(* begin: commit a ready intent under a fresh attempt identity.  Under a   *)
(* known identity begin returns the row or raises, and writes nothing.     *)
Begin(r, s, a, p, i) ==
  /\ ~Exists(a)
  /\ \A b \in AttemptsOf(r, s) : rows[b].state \in Retryable
  /\ p = None \/ AttemptsOf(r, p) # {}
  /\ HasCapacity(r)
  /\ LET row == [ run |-> r, step |-> s, parent |-> p, input |-> i,
                  state |-> "ready", version |-> 0, result |-> NoResult,
                  rowid |-> Cardinality(RowsOf(r)) + 1 ]
     IN  /\ rows' = [rows EXCEPT ![a] = row]
         /\ Log(r, EventOf(a, row, "execution_step"))
  /\ UNCHANGED status

(* _transition with reconciled = FALSE or TRUE, one row of one run.        *)
Move(r, a, s, res, kind) ==
  LET row == Moved(rows[a], s, res)
  IN  /\ rows' = [rows EXCEPT ![a] = row]
      /\ Log(r, EventOf(a, row, kind))
      /\ UNCHANGED status

Transition(r, a, s, res) ==
  /\ a \in RowsOf(r)
  /\ s \in Allowed[rows[a].state]
  /\ Move(r, a, s, res, "execution_step")

(* reconcile: an inspected outcome, with evidence, of an uncertain attempt.*)
Reconcile(r, a, outcome, res) ==
  /\ outcome \in Terminal
  /\ a \in RowsOf(r)
  /\ Reconcilable(rows[a])
  /\ Move(r, a, outcome, res, "execution_reconciled")

(* recover_interrupted: every dispatching or running row of the run, in    *)
(* one transaction.  The query has no ORDER BY: any order of the events.   *)
RecoverInterrupted(r) ==
  LET lost == {a \in RowsOf(r) : rows[a].state \in Dispatched}
      row(a) == Moved(rows[a], LostState, None)
  IN  /\ lost # {}
      /\ rows' = [a \in Attempts |-> IF a \in lost THEN row(a) ELSE rows[a]]
      /\ \E order \in [1 .. Cardinality(lost) -> lost] :
           /\ \A a \in lost : \E k \in 1 .. Cardinality(lost) : order[k] = a
           /\ \A j, k \in 1 .. Cardinality(lost) : order[j] = order[k] => j = k
           /\ events' = [events EXCEPT ![r] =
                @ \o [k \in 1 .. Cardinality(lost) |->
                        EventOf(order[k], row(order[k]), "execution_step")]]
      /\ UNCHANGED status

(* compact: digest the results of a finished run but its keep newest ones. *)
Compact(r, keep) ==
  LET bodies == {a \in RowsOf(r) : rows[a].result.body # None}
      newer(a) == {b \in bodies : rows[b].rowid > rows[a].rowid}
      dropped == {a \in bodies : Cardinality(newer(a)) >= keep}
  IN  /\ Compactable(r)
      /\ rows' = [a \in Attempts |->
                    IF a \in dropped
                    THEN [rows[a] EXCEPT !.result.digests = IF @ < 2 THEN @ + 1 ELSE 2]
                    ELSE rows[a]]
      /\ UNCHANGED <<events, status>>

(* CodingSessionStore.update_run, the one other writer compact depends on. *)
(* It keeps terminal runs terminal, but interrupted and blocked runs are   *)
(* terminal and open: a closed run may open again in that sense.           *)
UpdateRun(r) ==
  /\ status' = [status EXCEPT ![r] = IF @ = "open" THEN "closed" ELSE "open"]
  /\ UNCHANGED <<rows, events>>

Next ==
  \/ \E r \in Runs, a \in Attempts :
       \/ \E s \in Steps, p \in Steps \cup {None}, i \in Inputs : Begin(r, s, a, p, i)
       \/ \E s \in States, res \in Results \cup {None} : Transition(r, a, s, res)
       \/ \E s \in Terminal, res \in Results \cup {None} : Reconcile(r, a, s, res)
  \/ \E r \in Runs : RecoverInterrupted(r) \/ UpdateRun(r)
  \/ \E r \in Runs, keep \in 0 .. MaxSteps : Compact(r, keep)

Spec == Init /\ [][Next]_vars

-----------------------------------------------------------------------------
TypeOK ==
  /\ rows \in [Attempts -> Row]
  /\ events \in [Runs -> Seq(Event)]
  /\ status \in [Runs -> RunStatus]

(* Of the attempts of a logical step only the newest may be anything but   *)
(* failed or cancelled: a completed, unfinished or unknown step never      *)
(* acquires another attempt (begin, lines 212-215).                        *)
OnlyNewestOpen ==
  \A r \in Runs, s \in Steps : \A a, b \in AttemptsOf(r, s) :
    a # b => \/ rows[a].rowid < rows[b].rowid /\ rows[a].state \in {"failed", "cancelled"}
             \/ rows[b].rowid < rows[a].rowid /\ rows[b].state \in {"failed", "cancelled"}

(* The events of a run are the history of its rows: each event is of an    *)
(* attempt of the run, an attempt's versions increase along the log, and   *)
(* its current version and state are the last it logged (_event inside     *)
(* every transaction that writes a row).                                   *)
EventsMatchRows ==
  \A r \in Runs :
    /\ \A k \in DOMAIN events[r] :
         LET e == events[r][k] IN
         /\ e.attempt \in RowsOf(r)
         /\ e.version <= rows[e.attempt].version
         /\ e.version = rows[e.attempt].version => e.state = rows[e.attempt].state
    /\ \A j, k \in DOMAIN events[r] :
         j < k /\ events[r][j].attempt = events[r][k].attempt
           => events[r][j].version < events[r][k].version
    /\ \A a \in RowsOf(r) : \E k \in DOMAIN events[r] :
         events[r][k].attempt = a /\ events[r][k].version = rows[a].version

(* In the log a settled outcome that follows an uncertain state of the     *)
(* same attempt is a reconciliation, and nothing else is one: only         *)
(* reconcile() resolves an unknown outcome.                                *)
OnlyInspectionSettles ==
  \A r \in Runs : \A j, k \in DOMAIN events[r] :
    LET before == events[r][j]
        after  == events[r][k]
    IN  before.attempt = after.attempt /\ after.version = before.version + 1
          => ((before.state \in Uncertain /\ after.state \in Terminal)
                <=> after.kind = "execution_reconciled")

Identity(row) == <<row.run, row.step, row.parent, row.input, row.rowid>>

(* What an attempt identity is bound to never changes, and a terminal      *)
(* outcome with its payload is never replaced, by any later call.          *)
HistoryKept ==
  [][\A a \in Attempts : Exists(a) =>
       /\ Exists(a)'
       /\ Identity(rows'[a]) = Identity(rows[a])
       /\ rows[a].state \in Terminal =>
            /\ rows'[a].state = rows[a].state
            /\ rows'[a].result.body = rows[a].result.body]_vars

(* The phase of a logical step whose attempts are in the given states.     *)
PhaseIn(states) ==
  CASE "completed" \in states -> "done"
    [] states \cap Uncertain # {} -> "unknown"
    [] states \cap Dispatched # {} -> "dispatched"
    [] states \cap Pending # {} -> "ready"
    [] OTHER -> "none"

StatesOf(r, s) == {rows[a].state : a \in AttemptsOf(r, s)}

(* Two attempts of a step that both count: no phase says where it is.      *)
Contested(r, s) ==
  \E a, b \in AttemptsOf(r, s) :
    a # b /\ {rows[a].state, rows[b].state} \cap {"failed", "cancelled"} = {}

LogicalPhase ==
  [r \in Runs |-> [s \in Steps |->
     IF Contested(r, s) THEN "contested" ELSE PhaseIn(StatesOf(r, s))]]

Abstract == INSTANCE LogicalSteps WITH phase <- LogicalPhase

(* The journal keeps the promise of LogicalSteps, and a step is never      *)
(* contested: what is completed, unfinished or unknown gets no other       *)
(* attempt that counts (begin, lines 212-215).                             *)
Refines == Abstract!Spec
=============================================================================
