-------------------------- MODULE SubagentsProofs --------------------------
(***************************************************************************)
(* Proofs about Subagents, for any children, spawners and limits.          *)
(***************************************************************************)
EXTENDS Subagents, FiniteSetTheorems, WellFoundedInduction, TLAPS

-----------------------------------------------------------------------------
(* The inductive invariant.                                                *)

OpenRows == {"none", "dispatching", "running"}

(* A child's outcome is recorded in its last step, together with what the  *)
(* run has to resolve; only a task that ends in an exception skips that.   *)
ChildOK(c) ==
  /\ ~Over(c) => (row[c] \in OpenRows /\ c \notin unresolved)
  /\ task[c] = "collecting" => status[c] \in Outcomes
  /\ (Over(c) /\ c \notin raised) => row[c] = RowOf(status[c])
RecordsOK == \A c \in Children : ChildOK(c)

(* The child somebody is spawning has no task yet.                         *)
SpawnOK == spawning.pc # "idle" => task[spawning.child] = "none"

IInv == TypeOK /\ OutcomesAgree /\ RecordsOK /\ SpawnOK /\ DependenciesRecorded

(* What a step may do to a child that has ended, and to its dependents.    *)
OverStays == \A c \in Children : Over(c) => (Over(c)' /\ row'[c] = row[c])
DepsStay == \A c \in Children :
  task'[c] \in {"queued", "working"} => (task[c] \in {"queued", "working"} /\ deps'[c] = deps[c])

-----------------------------------------------------------------------------
(* Dependencies stay recorded in a step that lets nobody past them.        *)

LEMMA DependenciesStay ==
  ASSUME TypeOK, DependenciesRecorded, OverStays, DepsStay
  PROVE  DependenciesRecorded'
<1> SUFFICES ASSUME NEW c \in Children, task'[c] \in {"queued", "working"}, NEW d \in deps'[c]
             PROVE  Over(d)' /\ row'[d] = "completed"
  BY DEF DependenciesRecorded
<1>1. task[c] \in {"queued", "working"} /\ d \in deps[c]
  BY DEF DepsStay
<1>2. d \in Children
  BY <1>1 DEF TypeOK
<1>3. Over(d) /\ row[d] = "completed"
  BY <1>1 DEF DependenciesRecorded
<1> QED BY <1>2, <1>3 DEF OverStays

(* Leaving the try block of _run.                                          *)
LEMMA LeaveKeeps ==
  ASSUME IInv, NEW c \in Children, NEW outcome \in Outcomes, Leave(c, outcome),
         task[c] \in {"depending", "queued", "working"},
         reserved' \in [Children -> Nat], total' \in Nat
  PROVE  IInv'
<1> USE DEF childVars, runVars
<1>1. TypeOK'
  <2>1. task' \in [Children -> Tasks] /\ status' \in [Children -> Statuses]
    BY DEF IInv, TypeOK, Leave, Goto, Tasks, Statuses
  <2>2. flight' \in [Children -> [size : Sizes \cup {0}, excess : 0 .. MaxExcess]]
    <3>1. NoRequest \in [size : Sizes \cup {0}, excess : 0 .. MaxExcess]
      BY SubagentConstants DEF NoRequest
    <3> QED BY <3>1 DEF IInv, TypeOK, Leave
  <2>3. interrupt' \subseteq Children
    BY DEF IInv, TypeOK, Leave
  <2> QED BY <2>1, <2>2, <2>3 DEF IInv, TypeOK, Leave
<1>2. \A d \in Children : d # c => (task'[d] = task[d] /\ status'[d] = status[d]
                                     /\ (d \in raised' <=> d \in raised))
  BY DEF IInv, TypeOK, Leave, Goto
<1>3. task'[c] = "collecting" /\ status'[c] = outcome /\ row' = row /\ unresolved' = unresolved
      /\ deps' = deps /\ spawning' = spawning
  BY DEF IInv, TypeOK, Leave, Goto
<1>4. OutcomesAgree'
  BY <1>2, <1>3 DEF IInv, OutcomesAgree, RecordsOK, ChildOK, OpenRows, Over
<1>5. RecordsOK'
  BY <1>2, <1>3 DEF IInv, RecordsOK, ChildOK, Over, RowOf
<1>6. SpawnOK'
  <2> SUFFICES ASSUME spawning.pc # "idle" PROVE task'[spawning.child] = "none"
    BY <1>3 DEF SpawnOK
  <2>1. spawning.child \in Children /\ task[spawning.child] = "none"
    BY DEF IInv, TypeOK, SpawnOK, NoSpawn
  <2> QED BY <2>1, <1>2
<1>7. DependenciesRecorded'
  <2>1. OverStays /\ DepsStay
    BY <1>2, <1>3 DEF OverStays, DepsStay, Over
  <2> QED BY <2>1, DependenciesStay DEF IInv
<1> QED BY <1>1, <1>4, <1>5, <1>6, <1>7 DEF IInv

(* A step of one child that is neither spawned nor leaving, and of what it *)
(* has recorded.                                                           *)
LEMMA ChildStepKeeps ==
  ASSUME IInv, NEW c \in Children, ~Over(c), task[c] # "none",
         NEW place \in Tasks \ {"none"}, Goto(c, place),
         NEW s \in Statuses, status' = [status EXCEPT ![c] = s],
         NEW r \in Rows, row' = [row EXCEPT ![c] = r],
         unresolved' = unresolved \/ unresolved' = unresolved \cup {c},
         raised' = raised \/ raised' = raised \cup {c},
         UNCHANGED <<interrupt, tokenVars, runVars, deps>>,
         ChildOK(c)',
         r \in {"completed", "failed"} => (s = r /\ c \notin unresolved'),
         r = "outcome_unknown" => (s \in {"cancelled", "outcome_unknown"} /\ c \in unresolved'),
         c \in unresolved' => r = "outcome_unknown",
         place \in {"queued", "working"} =>
           \A d \in deps[c] : Over(d) /\ row[d] = "completed"
  PROVE  IInv'
<1> USE DEF tokenVars, runVars
<1>1. TypeOK'
  BY DEF IInv, TypeOK, Goto
<1>2. \A d \in Children : d # c =>
        (task'[d] = task[d] /\ status'[d] = status[d] /\ row'[d] = row[d]
         /\ (d \in unresolved' <=> d \in unresolved) /\ (d \in raised' <=> d \in raised))
  BY DEF IInv, TypeOK, Goto
<1>3. task'[c] = place /\ status'[c] = s /\ row'[c] = r
  BY DEF IInv, TypeOK, Goto
<1>4. OutcomesAgree'
  BY <1>2, <1>3 DEF IInv, OutcomesAgree
<1>5. RecordsOK'
  <2> SUFFICES ASSUME NEW d \in Children, d # c PROVE ChildOK(d)'
    BY DEF RecordsOK
  <2> QED BY <1>2 DEF IInv, RecordsOK, ChildOK, Over, RowOf
<1>6. SpawnOK'
  <2> SUFFICES ASSUME spawning.pc # "idle" PROVE task'[spawning.child] = "none"
    BY DEF SpawnOK
  <2>1. spawning.child \in Children /\ task[spawning.child] = "none"
    BY DEF IInv, TypeOK, SpawnOK, NoSpawn
  <2> QED BY <2>1, <1>2
<1>7. DependenciesRecorded'
  <2> SUFFICES ASSUME NEW e \in Children, task'[e] \in {"queued", "working"}, NEW d \in deps[e]
               PROVE  Over(d)' /\ row'[d] = "completed"
    BY DEF DependenciesRecorded
  <2>1. d \in Children
    BY DEF IInv, TypeOK
  <2>2. Over(d) /\ row[d] = "completed"
    BY <1>2, <1>3 DEF IInv, DependenciesRecorded
  <2> QED BY <2>1, <2>2, <1>2 DEF Over
<1> QED BY <1>1, <1>4, <1>5, <1>6, <1>7 DEF IInv
-----------------------------------------------------------------------------
(* The steps of a child's task.                                            *)

LEMMA InitInvariant == Init => IInv
<1> SUFFICES ASSUME Init PROVE IInv
  OBVIOUS
<1>1. TypeOK
  <2>1. NoRequest \in [size : Sizes \cup {0}, excess : 0 .. MaxExcess]
    BY SubagentConstants DEF NoRequest
  <2> QED BY <2>1 DEF Init, TypeOK, Tasks, Statuses, Rows
<1> QED BY <1>1 DEF Init, IInv, OutcomesAgree, RecordsOK, ChildOK, OpenRows, Over, SpawnOK,
                    NoSpawn, DependenciesRecorded

LEMMA EnterKeeps ==
  ASSUME IInv, NEW c \in Children,
         Start(c) \/ NeverStarted(c) \/ DependenciesMet(c) \/ Work(c)
  PROVE  IInv'
<1> USE DEF Tasks, Statuses, Rows, Outcomes
<1>0. status[c] \in Statuses /\ row[c] \in Rows /\ status = [status EXCEPT ![c] = status[c]]
      /\ row = [row EXCEPT ![c] = row[c]]
  BY DEF IInv, TypeOK
<1>a. ~Over(c) => (row[c] \in OpenRows /\ c \notin unresolved)
  BY DEF IInv, RecordsOK, ChildOK
<1>1. CASE Start(c)
  <2>1. task'[c] = "depending" /\ row'[c] = "running"
    BY <1>1 DEF Start, Goto, IInv, TypeOK
  <2>2. ChildOK(c)'
    BY <1>1, <2>1, <1>a DEF Start, ChildOK, Over, OpenRows
  <2>3. /\ status' = [status EXCEPT ![c] = status[c]] /\ row' = [row EXCEPT ![c] = "running"]
        /\ Goto(c, "depending") /\ unresolved' = unresolved /\ c \notin unresolved' /\ raised' = raised
        /\ UNCHANGED <<interrupt, tokenVars, runVars, deps>> /\ ~Over(c) /\ task[c] # "none"
    BY <1>0, <1>1, <1>a DEF Start, Over, tokenVars, runVars
  <2>4. "depending" \in Tasks \ {"none"} /\ "running" \in Rows
    OBVIOUS
  <2> QED BY <1>0, <2>2, <2>3, <2>4, ChildStepKeeps
<1>2. CASE NeverStarted(c)
  <2>1. task'[c] = "over" /\ c \in raised'
    BY <1>2 DEF NeverStarted, Goto, IInv, TypeOK
  <2>2. ChildOK(c)'
    BY <1>2, <2>1 DEF ChildOK, Over
  <2>3. /\ status' = [status EXCEPT ![c] = "cancelled"] /\ row' = [row EXCEPT ![c] = row[c]]
        /\ Goto(c, "over") /\ unresolved' = unresolved /\ raised' = raised \cup {c}
        /\ row[c] \in OpenRows /\ c \notin unresolved'
        /\ UNCHANGED <<interrupt, tokenVars, runVars, deps>> /\ ~Over(c) /\ task[c] # "none"
    BY <1>0, <1>2, <1>a DEF NeverStarted, Over, tokenVars, runVars
  <2>4. "over" \in Tasks \ {"none"} /\ "cancelled" \in Statuses
    OBVIOUS
  <2> QED BY <1>0, <2>2, <2>3, <2>4, ChildStepKeeps DEF OpenRows
<1>3. CASE DependenciesMet(c)
  <2>1. task'[c] = "queued"
    BY <1>3 DEF DependenciesMet, Goto, IInv, TypeOK
  <2>2. ChildOK(c)'
    BY <1>3, <2>1, <1>a DEF DependenciesMet, ChildOK, Over
  <2>3. ASSUME NEW d \in deps[c] PROVE Over(d) /\ row[d] = "completed"
    <3>1. Over(d) /\ status[d] = "completed" /\ d \notin raised
      BY <1>3 DEF DependenciesMet, Satisfied
    <3>2. d \in Children
      BY DEF IInv, TypeOK
    <3> QED BY <3>1, <3>2 DEF IInv, RecordsOK, ChildOK, RowOf
  <2> QED BY <1>3, <1>0, <1>a, <2>2, <2>3, ChildStepKeeps
          DEF DependenciesMet, Over, OpenRows, tokenVars, runVars
<1>4. CASE Work(c)
  <2>1. task'[c] = "working"
    BY <1>4 DEF Work, Goto, IInv, TypeOK
  <2>2. ChildOK(c)'
    BY <1>4, <2>1, <1>a DEF Work, ChildOK, Over
  <2>3. \A d \in deps[c] : Over(d) /\ row[d] = "completed"
    BY <1>4 DEF Work, IInv, DependenciesRecorded
  <2> QED BY <1>4, <1>0, <1>a, <2>2, <2>3, ChildStepKeeps
          DEF Work, Over, OpenRows, tokenVars, runVars
<1> QED BY <1>1, <1>2, <1>3, <1>4

LEMMA FinallyKeeps ==
  ASSUME IInv, NEW c \in Children,
         (\E s \in Outcomes : Record(c, s)) \/ CollectingCancelled(c) \/ BrowserNotClosed(c)
  PROVE  IInv'
<1> USE DEF Tasks, Statuses, Rows, Outcomes
<1>0. row[c] \in Rows /\ row = [row EXCEPT ![c] = row[c]]
  BY DEF IInv, TypeOK
<1>1. ASSUME NEW s \in Outcomes, Record(c, s) PROVE IInv'
  <2>1. task'[c] = "over" /\ status'[c] = s /\ row'[c] = RowOf(s)
    BY <1>1 DEF Record, Goto, IInv, TypeOK
  <2>2. ChildOK(c)'
    BY <2>1 DEF ChildOK, Over, RowOf
  <2>3. RowOf(s) \in Rows /\ c \notin unresolved
    BY <1>1 DEF RowOf, Record, IInv, RecordsOK, ChildOK, Over
  <2>4. RowOf(s) = "outcome_unknown" <=> Uncertain(s)
    BY DEF RowOf, Uncertain
  <2>5. /\ RowOf(s) \in {"completed", "failed"} => (s = RowOf(s) /\ c \notin unresolved')
        /\ RowOf(s) = "outcome_unknown" => (s \in {"cancelled", "outcome_unknown"} /\ c \in unresolved')
        /\ c \in unresolved' => RowOf(s) = "outcome_unknown"
    BY <1>1, <2>3, <2>4 DEF Record, RowOf, Uncertain
  <2>6. ~Over(c) /\ task[c] # "none" /\ "over" \in Tasks \ {"none"} /\ s \in Statuses
    BY <1>1 DEF Record, Over
  <2>7. /\ Goto(c, "over")
        /\ status' = [status EXCEPT ![c] = s] /\ row' = [row EXCEPT ![c] = RowOf(s)]
        /\ unresolved' = unresolved \/ unresolved' = unresolved \cup {c}
        /\ raised' = raised
        /\ UNCHANGED <<interrupt, tokenVars, runVars, deps>>
    BY <1>1 DEF Record, tokenVars, runVars
  <2> QED BY <2>2, <2>3, <2>5, <2>6, <2>7, ChildStepKeeps
<1>2. ASSUME Missed(c), NEW s \in Statuses, status' = [status EXCEPT ![c] = s] PROVE IInv'
  <2>1. task'[c] = "over" /\ c \in raised'
    BY <1>2 DEF Missed, Goto, IInv, TypeOK
  <2>2. ChildOK(c)'
    BY <2>1 DEF ChildOK, Over
  <2>3. row[c] \in OpenRows /\ c \notin unresolved
    BY <1>2 DEF Missed, IInv, RecordsOK, ChildOK, Over
  <2>4. /\ Goto(c, "over") /\ row' = [row EXCEPT ![c] = row[c]] /\ unresolved' = unresolved
        /\ raised' = raised \cup {c}
        /\ UNCHANGED <<interrupt, tokenVars, runVars, deps>>
        /\ ~Over(c) /\ task[c] # "none"
    BY <1>0, <1>2 DEF Missed, tokenVars, runVars, Over
  <2>5. "over" \in Tasks \ {"none"}
    OBVIOUS
  <2> QED BY <1>0, <1>2, <2>1, <2>2, <2>3, <2>4, <2>5, ChildStepKeeps DEF OpenRows
<1>3. CASE CollectingCancelled(c)
  <2>1. PICK s \in Collected(c) : status' = [status EXCEPT ![c] = s]
    BY <1>3 DEF CollectingCancelled
  <2>2. s \in Statuses
    BY <2>1 DEF Collected, IInv, TypeOK
  <2> QED BY <1>2, <1>3, <2>1, <2>2 DEF CollectingCancelled
<1>4. CASE BrowserNotClosed(c)
  <2>1. status[c] \in Statuses /\ status' = [status EXCEPT ![c] = status[c]]
    BY <1>4 DEF BrowserNotClosed, IInv, TypeOK
  <2> QED BY <1>2, <1>4, <2>1 DEF BrowserNotClosed
<1> QED BY <1>1, <1>3, <1>4

LEMMA AdvanceKeeps ==
  ASSUME IInv, NEW c \in Children, Advance(c)
  PROVE  IInv'
<1> USE DEF Outcomes
<1>0. reserved \in [Children -> Nat] /\ total \in Nat
  BY DEF IInv, TypeOK
<1>1. CASE DependencyFailed(c)
  BY <1>0, <1>1, LeaveKeeps DEF DependencyFailed
<1>2. ASSUME NEW outcome \in Outcomes, Finish(c, outcome) PROVE IInv'
  BY <1>0, <1>2, LeaveKeeps DEF Finish
<1>3. CASE Cancelled(c)
  BY <1>0, <1>3, LeaveKeeps DEF Cancelled
<1> QED BY <1>1, <1>2, <1>3, EnterKeeps, FinallyKeeps DEF Advance

(* A step that leaves the children's records alone.                        *)
LEMMA RecordsStay ==
  ASSUME IInv, UNCHANGED <<task, status, row, raised, unresolved, deps>>
  PROVE  OutcomesAgree' /\ RecordsOK' /\ DependenciesRecorded'
<1>1. OutcomesAgree'
  BY DEF IInv, OutcomesAgree
<1>2. RecordsOK'
  BY DEF IInv, RecordsOK, ChildOK, Over, RowOf
<1>3. DependenciesRecorded'
  BY DEF IInv, DependenciesRecorded, Over
<1> QED BY <1>1, <1>2, <1>3

LEMMA RequestingKeeps ==
  ASSUME IInv, NEW c \in Children, Requesting(c)
  PROVE  IInv'
<1>0. flight[c] \in [size : Sizes \cup {0}, excess : 0 .. MaxExcess] /\ reserved[c] \in Nat
      /\ total \in Nat /\ MaxExcess \in Nat /\ Sizes \subseteq Nat
  BY SubagentConstants DEF IInv, TypeOK
<1>1. ASSUME UNCHANGED <<childVars, runVars, deps>>,
             NEW f \in [size : Sizes \cup {0}, excess : 0 .. MaxExcess],
             flight' = [flight EXCEPT ![c] = f],
             reserved' \in [Children -> Nat], total' \in Nat
      PROVE  IInv'
  <2>1. TypeOK'
    BY <1>1 DEF IInv, TypeOK, childVars, runVars
  <2>2. SpawnOK'
    BY <1>1 DEF IInv, SpawnOK, childVars, runVars
  <2> QED BY <1>1, <2>1, <2>2, RecordsStay DEF IInv, childVars
<1>2. CASE Answered(c)
  <2>1. NoRequest \in [size : Sizes \cup {0}, excess : 0 .. MaxExcess]
    BY <1>0 DEF NoRequest
  <2> QED BY <1>1, <1>2, <2>1 DEF Answered, IInv, TypeOK
<1>3. ASSUME NEW n \in Sizes, Reserve(c, n) PROVE IInv'
  <2>1. [size |-> n, excess |-> 0] \in [size : Sizes \cup {0}, excess : 0 .. MaxExcess]
    BY <1>0
  <2>2. reserved' \in [Children -> Nat] /\ total' \in Nat
    BY <1>0, <1>3 DEF Reserve, IInv, TypeOK
  <2> QED BY <1>1, <1>3, <2>1, <2>2 DEF Reserve
<1>4. ASSUME NEW n \in 1 .. MaxExcess, Report(c, n) PROVE IInv'
  <2>1. reserved' \in [Children -> Nat] /\ total' \in Nat
    BY <1>0, <1>4 DEF Report, IInv, TypeOK
  <2>2. ASSUME NEW outcome \in {"failed", "outcome_unknown"}, Leave(c, outcome) PROVE IInv'
    BY <1>4, <2>1, <2>2, LeaveKeeps DEF Report, Outcomes
  <2>3. ASSUME flight' = [flight EXCEPT ![c].excess = @ + n], UNCHANGED <<childVars, runVars, deps>>
        PROVE  IInv'
    <3>1. flight' = [flight EXCEPT ![c] = [flight[c] EXCEPT !.excess = @ + n]]
      BY <2>3
    <3>2. [flight[c] EXCEPT !.excess = @ + n] \in [size : Sizes \cup {0}, excess : 0 .. MaxExcess]
      BY <1>0, <1>4 DEF Report
    <3> QED BY <1>1, <2>1, <2>3, <3>1, <3>2
  <2> QED BY <1>4, <2>2, <2>3 DEF Report
<1> QED BY <1>2, <1>3, <1>4 DEF Requesting

-----------------------------------------------------------------------------
(* The steps of the run.                                                   *)

LEMMA RegisterKeeps ==
  ASSUME IInv, spawning.pc # "idle", Register(spawning.child, spawning.deps)
  PROVE  IInv'
<1> DEFINE c == spawning.child
<1> DEFINE ds == spawning.deps
<1>0. c \in Children /\ ds \subseteq Children /\ task[c] = "none"
  BY DEF IInv, TypeOK, SpawnOK, NoSpawn
<1>1. TypeOK'
  BY <1>0 DEF Register, IInv, TypeOK, Tasks, Statuses, Rows, tokenVars
<1>2. /\ task'[c] = "created" /\ row'[c] = "dispatching"
      /\ \A d \in Children : d # c => (task'[d] = task[d] /\ status'[d] = status[d]
                                        /\ row'[d] = row[d] /\ deps'[d] = deps[d])
      /\ raised' = raised /\ unresolved' = unresolved /\ spawning' = NoSpawn
  BY <1>0 DEF Register, IInv, TypeOK
<1>3. c \notin unresolved
  BY <1>0 DEF IInv, RecordsOK, ChildOK, Over
<1>4. OutcomesAgree'
  BY <1>2, <1>3 DEF IInv, OutcomesAgree
<1>5. RecordsOK'
  BY <1>2, <1>3 DEF IInv, RecordsOK, ChildOK, Over, OpenRows, RowOf
<1>6. SpawnOK'
  BY <1>2 DEF SpawnOK, NoSpawn
<1>7. OverStays /\ DepsStay
  BY <1>0, <1>2 DEF OverStays, DepsStay, Over
<1> QED BY <1>1, <1>4, <1>5, <1>6, <1>7, DependenciesStay DEF IInv

LEMMA SpawningKeeps ==
  ASSUME IInv, Spawning
  PROVE  IInv'
<1>1. ASSUME NEW by \in Spawners, NEW c \in Children, NEW ds \in SUBSET Jobs, Spawn(by, c, ds)
      PROVE  IInv'
  <2>1. ds \subseteq Children
    BY DEF Jobs
  <2>2. TypeOK'
    BY <1>1, <2>1 DEF Spawn, IInv, TypeOK, childVars, tokenVars
  <2>3. SpawnOK'
    BY <1>1 DEF Spawn, SpawnOK, childVars
  <2> QED BY <1>1, <2>2, <2>3, RecordsStay DEF Spawn, IInv, childVars
<1>2. CASE SpawnReader
  BY <1>2, RegisterKeeps DEF SpawnReader
<1>3. CASE SpawnPrepared
  BY <1>3, RegisterKeeps DEF SpawnPrepared
<1>4. CASE SpawnWorker
  <2>0. spawning \in [pc : {"asking", "preparing"}, by : Spawners, child : Children, deps : SUBSET Children]
    BY <1>4 DEF SpawnWorker, IInv, TypeOK, NoSpawn
  <2>1. TypeOK'
    BY <1>4, <2>0 DEF SpawnWorker, IInv, TypeOK, childVars, tokenVars
  <2>2. SpawnOK'
    BY <1>4, <2>0 DEF SpawnWorker, IInv, SpawnOK, childVars
  <2> QED BY <1>4, <2>1, <2>2, RecordsStay DEF SpawnWorker, IInv, childVars
<1>5. CASE SpawnFailed
  <2>1. TypeOK' /\ SpawnOK'
    BY <1>5 DEF SpawnFailed, IInv, TypeOK, SpawnOK, NoSpawn, childVars, tokenVars
  <2> QED BY <1>5, <2>1, RecordsStay DEF SpawnFailed, IInv, childVars
<1> QED BY <1>1, <1>2, <1>3, <1>4, <1>5 DEF Spawning

LEMMA ControlKeeps ==
  ASSUME IInv, (\E c \in Children : Cancel(c)) \/ Stop \/ Close \/ Closed
  PROVE  IInv'
<1>0. Interruptible \subseteq Children /\ Jobs \subseteq Children
  BY DEF Interruptible, Open, Jobs
<1>1. UNCHANGED <<task, status, row, raised, unresolved, deps>>
  BY DEF Cancel, Stop, Close, Closed, childVars
<1>2. TypeOK'
  BY <1>0 DEF Cancel, Stop, Close, Closed, IInv, TypeOK, NoSpawn, childVars, tokenVars, runVars
<1>3. SpawnOK'
  BY DEF Cancel, Stop, Close, Closed, IInv, SpawnOK, NoSpawn, childVars, runVars
<1> QED BY <1>1, <1>2, <1>3, RecordsStay DEF IInv

LEMMA StepInvariant == IInv /\ [Next]_vars => IInv'
<1> SUFFICES ASSUME IInv, [Next]_vars PROVE IInv'
  OBVIOUS
<1>1. CASE UNCHANGED vars
  <2>1. TypeOK' /\ SpawnOK'
    BY <1>1 DEF vars, childVars, tokenVars, runVars, IInv, TypeOK, SpawnOK
  <2> QED BY <1>1, <2>1, RecordsStay DEF vars, childVars, IInv
<1> QED BY <1>1, SpawningKeeps, AdvanceKeeps, RequestingKeeps, ControlKeeps DEF Next

LEMMA Invariance == Spec => []IInv
BY InitInvariant, StepInvariant, PTL DEF Spec

-----------------------------------------------------------------------------
(* The variables of Subagents keep their types.                            *)
THEOREM TypeCorrect == Spec => []TypeOK
<1>1. IInv => TypeOK
  BY DEF IInv
<1> QED BY <1>1, Invariance, PTL

(* No interleaving of cancellations, collections and closing records an    *)
(* outcome the run was not told of, or hides an unknown one from it        *)
(* (_run's finally block).                                                 *)
THEOREM OutcomesStandTogether == Spec => []OutcomesAgree
<1>1. IInv => OutcomesAgree
  BY DEF IInv
<1> QED BY <1>1, Invariance, PTL

(* A dependent takes a permit only when what it depends on has ended and   *)
(* is recorded as completed (_run awaits the dependencies' tasks).         *)
THEOREM DependenciesFinish == Spec => []DependenciesRecorded
<1>1. IInv => DependenciesRecorded
  BY DEF IInv
<1> QED BY <1>1, Invariance, PTL

-----------------------------------------------------------------------------
(* Closing a run: with no spawn in progress, close() has seen every child. *)

CloseInv ==
  /\ spawning = NoSpawn \/ spawning.by = "agent"
  /\ run # "open" => (spawning = NoSpawn /\ Jobs \subseteq listed)
  /\ ClosedIsQuiet

LEMMA CloseStep ==
  ASSUME "user" \notin Spawners, IInv, CloseInv, [Next]_vars
  PROVE  CloseInv'
<1>0. Spawners \subseteq {"agent"} /\ NoSpawn.pc = "idle"
  BY SubagentConstants DEF NoSpawn
<1>1. CASE Spawning
  <2>1. run = "open" /\ run' = "open"
    BY <1>0, <1>1 DEF Spawning, Spawn, SpawnReader, SpawnWorker, SpawnPrepared, SpawnFailed,
                      Register, CloseInv, IInv, TypeOK
  <2>2. spawning' = NoSpawn \/ spawning'.by = "agent"
    <3>1. ASSUME NEW by \in Spawners, NEW c \in Children, NEW ds \in SUBSET Jobs, Spawn(by, c, ds)
          PROVE  spawning'.by = "agent"
      BY <1>0, <3>1 DEF Spawn
    <3>2. CASE SpawnReader \/ SpawnPrepared \/ SpawnFailed
      BY <3>2 DEF SpawnReader, SpawnPrepared, SpawnFailed, Register
    <3>3. CASE SpawnWorker
      <4>1. spawning # NoSpawn
        BY <1>0, <3>3 DEF SpawnWorker
      <4>2. spawning \in [pc : {"asking", "preparing"}, by : Spawners, child : Children, deps : SUBSET Children]
        BY <4>1 DEF IInv, TypeOK
      <4> QED BY <3>3, <4>1, <4>2 DEF SpawnWorker, CloseInv
    <3> QED BY <1>1, <3>1, <3>2, <3>3 DEF Spawning
  <2> QED BY <2>1, <2>2 DEF CloseInv, ClosedIsQuiet
<1>2. ASSUME UNCHANGED <<spawning, run, listed>>, Jobs' = Jobs, Open' \subseteq Open
      PROVE  CloseInv'
  BY <1>2 DEF CloseInv, ClosedIsQuiet
<1>3. ASSUME NEW c \in Children, Advance(c) \/ Requesting(c) PROVE CloseInv'
  <2>1. UNCHANGED <<spawning, run, listed>>
    BY <1>3 DEF Advance, Requesting, Start, NeverStarted, DependenciesMet, DependencyFailed, Work,
         Finish, Cancelled, Record, CollectingCancelled, BrowserNotClosed, Missed, Report, Answered, Reserve,
         Leave, runVars
  <2>2. task' = task \/ (task[c] \notin {"none", "over"} /\ \E place \in Tasks \ {"none"} : Goto(c, place))
    BY <1>3 DEF Advance, Requesting, Start, NeverStarted, DependenciesMet, DependencyFailed, Work,
         Finish, Cancelled, Record, CollectingCancelled, BrowserNotClosed, Missed, Report, Answered, Reserve,
         Leave, childVars, Tasks
  <2>3. Jobs' = Jobs /\ Open' \subseteq Open
    BY <2>2 DEF Jobs, Open, Over, Goto, IInv, TypeOK
  <2> QED BY <1>2, <2>1, <2>3
<1>4. ASSUME NEW c \in Children, Cancel(c) PROVE CloseInv'
  BY <1>2, <1>4 DEF Cancel, runVars, Jobs, Open, Over
<1>5. CASE Stop
  BY <1>5 DEF Stop, CloseInv, ClosedIsQuiet, childVars
<1>6. CASE Close
  <2>1. spawning = NoSpawn /\ spawning' = spawning /\ run' = "closing" /\ listed' = Jobs /\ Jobs' = Jobs
    BY <1>6 DEF Close, CloseInv, Jobs
  <2> QED BY <2>1 DEF CloseInv, ClosedIsQuiet
<1>7. CASE Closed
  <2>1. Open = {} /\ Open' = Open /\ Jobs' = Jobs
    BY <1>7 DEF Closed, AllEnded, CloseInv, Open, Jobs, Over, childVars
  <2> QED BY <1>7, <2>1 DEF Closed, CloseInv, ClosedIsQuiet
<1>8. CASE UNCHANGED vars
  BY <1>2, <1>8 DEF vars, childVars, runVars, Jobs, Open, Over
<1> QED BY <1>1, <1>3, <1>4, <1>5, <1>6, <1>7, <1>8 DEF Next

(* If only the run's agent spawns, no child outlives the closing of the    *)
(* run (close; a spawn from the screen escapes it).                        *)
THEOREM ClosedRunsAreQuiet ==
  ASSUME "user" \notin Spawners
  PROVE  Spec => []ClosedIsQuiet
<1>1. Init => CloseInv
  BY DEF Init, CloseInv, ClosedIsQuiet, NoSpawn
<1>2. IInv /\ CloseInv /\ [Next]_vars => CloseInv'
  BY CloseStep
<1>3. CloseInv => ClosedIsQuiet
  BY DEF CloseInv
<1> QED BY <1>1, <1>2, <1>3, Invariance, PTL DEF Spec

-----------------------------------------------------------------------------
(* The token budget.  A permit is held by every child with a request in    *)
(* progress.  Once the budget is exceeded nothing more is reserved, and a  *)
(* child that still reports usage leaves with it: each request in progress *)
(* can add its excess once.                                                *)

Working == {c \in Children : task[c] = "working"}
InFlight == {c \in Children : flight[c] # NoRequest}

BudgetInv ==
  /\ IsFiniteSet(Working) /\ Cardinality(Working) <= MaxParallel
  /\ InFlight \subseteq Working
  /\ total > TokenBudget =>
       total + Cardinality(InFlight) * MaxExcess <= TokenBudget + MaxParallel * MaxExcess

LEMMA Fewer == \A a, b, m \in Nat : a <= b => (a * m \in Nat /\ b * m \in Nat /\ a * m <= b * m)
<1> SUFFICES ASSUME NEW a \in Nat, NEW b \in Nat, NEW m \in Nat, a <= b
             PROVE  a * m \in Nat /\ b * m \in Nat /\ a * m <= b * m
  OBVIOUS
<1>1. PICK k \in Nat : b = a + k
  <2>1. b - a \in Nat /\ b = a + (b - a)
    OBVIOUS
  <2> QED BY <2>1
<1>2. b * m = a * m + k * m
  BY <1>1
<1>3. a * m \in Nat /\ k * m \in Nat
  BY <1>1
<1> QED BY <1>2, <1>3

(* The budget of the requests in progress, when a set of children is in    *)
(* flight that all hold permits.                                           *)
LEMMA FlightsBounded ==
  ASSUME NEW W, IsFiniteSet(W), Cardinality(W) <= MaxParallel, NEW F, F \subseteq W
  PROVE  /\ IsFiniteSet(F) /\ Cardinality(F) \in Nat /\ Cardinality(F) <= MaxParallel
         /\ Cardinality(F) * MaxExcess \in Nat /\ MaxParallel * MaxExcess \in Nat
         /\ Cardinality(F) * MaxExcess <= MaxParallel * MaxExcess
<1>1. IsFiniteSet(F) /\ Cardinality(F) <= Cardinality(W)
  BY FS_Subset
<1>2. Cardinality(F) \in Nat /\ Cardinality(W) \in Nat
  BY <1>1, FS_CardinalityType
<1>3. MaxParallel \in Nat /\ MaxExcess \in Nat
  BY SubagentConstants
<1>4. Cardinality(F) <= MaxParallel
  BY <1>1, <1>2, <1>3
<1> QED BY <1>1, <1>2, <1>3, <1>4, Fewer

(* A step that starts no work, sends no request and books nothing.         *)
LEMMA BudgetStays ==
  ASSUME TypeOK, BudgetInv, Working' \subseteq Working, InFlight' \subseteq InFlight,
         InFlight' \subseteq Working', total' = total
  PROVE  BudgetInv'
<1>1. IsFiniteSet(Working') /\ Cardinality(Working') <= Cardinality(Working)
  BY FS_Subset DEF BudgetInv
<1>2. Cardinality(Working') \in Nat /\ Cardinality(Working) \in Nat
  BY <1>1, FS_CardinalityType DEF BudgetInv
<1>3. Cardinality(Working') <= MaxParallel
  BY <1>1, <1>2, SubagentConstants DEF BudgetInv
<1>4. IsFiniteSet(InFlight) /\ Cardinality(InFlight) * MaxExcess \in Nat
  BY FlightsBounded DEF BudgetInv
<1>5. Cardinality(InFlight') <= Cardinality(InFlight)
  BY <1>4, FS_Subset
<1>6. Cardinality(InFlight') \in Nat /\ Cardinality(InFlight) \in Nat
  BY <1>4, FS_Subset, FS_CardinalityType
<1>7. Cardinality(InFlight') * MaxExcess \in Nat
      /\ Cardinality(InFlight') * MaxExcess <= Cardinality(InFlight) * MaxExcess
  BY <1>5, <1>6, SubagentConstants, Fewer
<1>8. total \in Nat /\ TokenBudget \in Nat /\ MaxParallel * MaxExcess \in Nat
  BY SubagentConstants, Fewer DEF TypeOK
<1>9. total' > TokenBudget =>
        total' + Cardinality(InFlight') * MaxExcess <= TokenBudget + MaxParallel * MaxExcess
  <2> SUFFICES ASSUME total > TokenBudget
               PROVE  total + Cardinality(InFlight') * MaxExcess <= TokenBudget + MaxParallel * MaxExcess
    OBVIOUS
  <2>1. total + Cardinality(InFlight) * MaxExcess <= TokenBudget + MaxParallel * MaxExcess
    BY DEF BudgetInv
  <2> QED BY <2>1, <1>4, <1>7, <1>8
<1> QED BY <1>1, <1>3, <1>9 DEF BudgetInv

LEMMA LeaveBudget ==
  ASSUME TypeOK, BudgetInv, NEW c \in Children, NEW outcome \in Outcomes, Leave(c, outcome)
  PROVE  Working' = Working \ {c} /\ InFlight' = InFlight \ {c}
<1>1. task' = [task EXCEPT ![c] = "collecting"] /\ flight' = [flight EXCEPT ![c] = NoRequest]
  BY DEF Leave, Goto
<1> QED BY <1>1 DEF TypeOK, Working, InFlight

LEMMA BudgetAdvance ==
  ASSUME TypeOK, BudgetInv, NEW c \in Children, Advance(c)
  PROVE  BudgetInv'
<1>0. InFlight \subseteq Working
  BY DEF BudgetInv
<1>1. ASSUME NEW outcome \in Outcomes, Leave(c, outcome), total' = total
      PROVE  BudgetInv'
  <2>1. Working' = Working \ {c} /\ InFlight' = InFlight \ {c}
    BY <1>1, LeaveBudget
  <2> QED BY <1>0, <1>1, <2>1, BudgetStays
<1>2. CASE DependencyFailed(c) \/ Cancelled(c) \/ \E outcome \in Outcomes : Finish(c, outcome)
  BY <1>1, <1>2 DEF DependencyFailed, Cancelled, Finish, Outcomes
<1>3. CASE Start(c) \/ NeverStarted(c) \/ DependenciesMet(c) \/ CollectingCancelled(c)
           \/ BrowserNotClosed(c) \/ \E s \in Outcomes : Record(c, s)
  <2>1. task[c] # "working" /\ flight' = flight /\ total' = total
        /\ \E place \in {"depending", "queued", "over"} : task' = [task EXCEPT ![c] = place]
    BY <1>3 DEF Start, NeverStarted, DependenciesMet, CollectingCancelled, BrowserNotClosed, Missed, Record,
                Goto, tokenVars
  <2>2. Working' = Working /\ InFlight' = InFlight
    BY <2>1 DEF TypeOK, Working, InFlight
  <2> QED BY <1>0, <2>1, <2>2, BudgetStays
<1>4. CASE Work(c)
  <2>1. /\ task[c] = "queued" /\ task' = [task EXCEPT ![c] = "working"]
        /\ flight' = flight /\ total' = total
    BY <1>4 DEF Work, Goto, tokenVars
  <2>2. c \notin Working /\ Working' = Working \cup {c} /\ InFlight' = InFlight
    BY <2>1 DEF TypeOK, Working, InFlight
  <2>3. Cardinality(Working) < MaxParallel
    <3>1. {d \in Children \ {c} : task[d] = "working"} = Working
      BY <2>1 DEF Working
    <3> QED BY <1>4, <3>1 DEF Work, Free
  <2>4. IsFiniteSet(Working') /\ Cardinality(Working') = Cardinality(Working) + 1
    BY <2>2, FS_AddElement DEF BudgetInv
  <2>5. Cardinality(Working) \in Nat /\ MaxParallel \in Nat
    BY FS_CardinalityType, SubagentConstants DEF BudgetInv
  <2>6. Cardinality(Working') <= MaxParallel
    BY <2>3, <2>4, <2>5
  <2> QED BY <1>0, <2>1, <2>2, <2>4, <2>6 DEF BudgetInv
<1> QED BY <1>2, <1>3, <1>4 DEF Advance

LEMMA BudgetReport ==
  ASSUME TypeOK, BudgetInv, NEW c \in Children, NEW n \in 1 .. MaxExcess, Report(c, n)
  PROVE  BudgetInv'
<1>0. InFlight \subseteq Working /\ c \in InFlight /\ total' = total + n
  BY DEF BudgetInv, Report, InFlight
<1>1. /\ total \in Nat /\ TokenBudget \in Nat /\ MaxExcess \in Nat /\ n \in Nat /\ n <= MaxExcess
      /\ MaxParallel \in Nat
  BY SubagentConstants DEF TypeOK
<1>2. ASSUME NEW outcome \in {"failed", "outcome_unknown"}, Leave(c, outcome)
      PROVE  BudgetInv'
  <2>1. Working' = Working \ {c} /\ InFlight' = InFlight \ {c}
    BY <1>2, LeaveBudget DEF Outcomes
  <2>2. IsFiniteSet(Working') /\ Cardinality(Working') <= MaxParallel
    <3>1. IsFiniteSet(Working') /\ Cardinality(Working') <= Cardinality(Working)
      BY <2>1, FS_Subset DEF BudgetInv
    <3>2. Cardinality(Working') \in Nat /\ Cardinality(Working) \in Nat
      BY <3>1, FS_CardinalityType DEF BudgetInv
    <3> QED BY <1>1, <3>1, <3>2 DEF BudgetInv
  <2>3. /\ IsFiniteSet(InFlight) /\ Cardinality(InFlight) \in Nat
        /\ Cardinality(InFlight) * MaxExcess \in Nat /\ MaxParallel * MaxExcess \in Nat
        /\ Cardinality(InFlight) * MaxExcess <= MaxParallel * MaxExcess
    BY FlightsBounded DEF BudgetInv
  <2>4. Cardinality(InFlight') \in Nat /\ Cardinality(InFlight) = Cardinality(InFlight') + 1
    <3>1. IsFiniteSet(InFlight') /\ c \notin InFlight' /\ InFlight = InFlight' \cup {c}
      BY <1>0, <2>1, <2>3, FS_Subset
    <3> QED BY <3>1, FS_AddElement, FS_CardinalityType
  <2>5. Cardinality(InFlight) * MaxExcess = Cardinality(InFlight') * MaxExcess + MaxExcess
        /\ Cardinality(InFlight') * MaxExcess \in Nat
    BY <1>1, <2>4
  <2>6. total + Cardinality(InFlight) * MaxExcess <= TokenBudget + MaxParallel * MaxExcess
    BY <1>1, <2>3 DEF BudgetInv
  <2>7. total' + Cardinality(InFlight') * MaxExcess <= TokenBudget + MaxParallel * MaxExcess
    BY <1>0, <1>1, <2>3, <2>5, <2>6
  <2> QED BY <1>0, <2>1, <2>2, <2>7 DEF BudgetInv
<1>3. ASSUME flight' = [flight EXCEPT ![c].excess = @ + n], task' = task, total' <= TokenBudget
      PROVE  BudgetInv'
  <2>1. \A d \in Children : d # c => flight'[d] = flight[d]
    BY <1>3 DEF TypeOK
  <2>2. Working' = Working /\ InFlight' \subseteq Working
    BY <1>0, <1>3, <2>1 DEF Working, InFlight
  <2> QED BY <1>0, <1>1, <1>3, <2>2 DEF BudgetInv
<1>4. CASE total + n > TokenBudget \/ \E budget \in AgentBudget : reserved[c] + n > budget
  BY <1>2, <1>4 DEF Report
<1>5. CASE ~(total + n > TokenBudget \/ \E budget \in AgentBudget : reserved[c] + n > budget)
  BY <1>0, <1>1, <1>3, <1>5 DEF Report, childVars
<1> QED BY <1>4, <1>5

LEMMA BudgetRequesting ==
  ASSUME TypeOK, BudgetInv, NEW c \in Children, Requesting(c)
  PROVE  BudgetInv'
<1>0. InFlight \subseteq Working
  BY DEF BudgetInv
<1>1. CASE Answered(c)
  <2>1. task' = task /\ flight' = [flight EXCEPT ![c] = NoRequest] /\ total' = total
    BY <1>1 DEF Answered, childVars
  <2>2. Working' = Working /\ InFlight' \subseteq InFlight
    BY <2>1 DEF TypeOK, Working, InFlight
  <2> QED BY <1>0, <2>1, <2>2, BudgetStays
<1>2. ASSUME NEW n \in Sizes, Reserve(c, n) PROVE BudgetInv'
  <2>1. /\ task[c] = "working" /\ task' = task /\ total' = total + n /\ total + n <= TokenBudget
        /\ flight' = [flight EXCEPT ![c] = [size |-> n, excess |-> 0]]
    BY <1>2 DEF Reserve, Affordable, childVars
  <2>2. \A d \in Children : d # c => flight'[d] = flight[d]
    BY <2>1 DEF TypeOK
  <2>3. Working' = Working /\ InFlight' \subseteq Working
    BY <1>0, <2>1, <2>2 DEF Working, InFlight
  <2>4. ~(total' > TokenBudget)
    BY <2>1, SubagentConstants DEF TypeOK
  <2> QED BY <2>3, <2>4 DEF BudgetInv
<1> QED BY <1>1, <1>2, BudgetReport DEF Requesting

LEMMA BudgetStep ==
  ASSUME TypeOK, SpawnOK, BudgetInv, [Next]_vars
  PROVE  BudgetInv'
<1>0. InFlight \subseteq Working
  BY DEF BudgetInv
<1>1. ASSUME task' = task, flight' = flight, total' = total PROVE BudgetInv'
  <2>1. Working' = Working /\ InFlight' = InFlight
    BY <1>1 DEF Working, InFlight
  <2> QED BY <1>0, <1>1, <2>1, BudgetStays
<1>2. ASSUME spawning.pc # "idle", Register(spawning.child, spawning.deps) PROVE BudgetInv'
  <2>1. /\ task[spawning.child] = "none" /\ task' = [task EXCEPT ![spawning.child] = "created"]
        /\ flight' = flight /\ total' = total
    BY <1>2 DEF SpawnOK, Register, tokenVars
  <2>2. Working' = Working /\ InFlight' = InFlight
    BY <2>1 DEF TypeOK, Working, InFlight
  <2> QED BY <1>0, <2>1, <2>2, BudgetStays
<1>3. CASE Spawning
  BY <1>1, <1>2, <1>3 DEF Spawning, Spawn, SpawnReader, SpawnWorker, SpawnPrepared, SpawnFailed,
                          childVars, tokenVars
<1>4. CASE (\E c \in Children : Cancel(c)) \/ Stop \/ Close \/ Closed \/ UNCHANGED vars
  BY <1>1, <1>4 DEF Cancel, Stop, Close, Closed, vars, childVars, tokenVars
<1> QED BY <1>3, <1>4, BudgetAdvance, BudgetRequesting DEF Next

(* Beyond the token budget goes at most the excess of one request for each *)
(* permit, however many children and requests there are                    *)
(* (_reserve_request, _record_usage, the semaphore of _run).               *)
THEOREM BudgetHolds == Spec => []ExcessBounded
<1>1. Init => BudgetInv
  <2> SUFFICES ASSUME Init PROVE BudgetInv
    OBVIOUS
  <2>1. Working = {} /\ InFlight = {} /\ total = 0
    BY DEF Init, Working, InFlight
  <2>2. IsFiniteSet({}) /\ Cardinality({}) = 0
    BY FS_EmptySet
  <2> QED BY <2>1, <2>2, SubagentConstants DEF BudgetInv
<1>2. IInv /\ BudgetInv /\ [Next]_vars => BudgetInv'
  BY BudgetStep DEF IInv
<1>3. IInv /\ BudgetInv => ExcessBounded
  <2> SUFFICES ASSUME TypeOK, BudgetInv PROVE ExcessBounded
    BY DEF IInv
  <2>1. Cardinality(InFlight) * MaxExcess \in Nat /\ MaxParallel * MaxExcess \in Nat
    BY FlightsBounded DEF BudgetInv
  <2>2. total \in Nat /\ TokenBudget \in Nat
    BY SubagentConstants DEF TypeOK
  <2>3. CASE total > TokenBudget
    <3>1. total + Cardinality(InFlight) * MaxExcess <= TokenBudget + MaxParallel * MaxExcess
      BY <2>3 DEF BudgetInv
    <3> QED BY <2>1, <2>2, <3>1 DEF ExcessBounded
  <2>4. CASE total <= TokenBudget
    BY <2>1, <2>2, <2>4 DEF ExcessBounded
  <2> QED BY <2>2, <2>3, <2>4
<1> QED BY <1>1, <1>2, <1>3, Invariance, PTL DEF Spec

-----------------------------------------------------------------------------
(* A child's task goes one way through _run: nobody sends it back, and     *)
(* each step of its own takes it further.                                  *)

Turn == [none |-> 0, created |-> 1, depending |-> 2, queued |-> 3, working |-> 4,
         collecting |-> 5, over |-> 6]

OnlyAdvances ==
  \A c \in Children : /\ Turn[task[c]] <= Turn[task'[c]]
                      /\ Advance(c) => Turn[task[c]] < Turn[task'[c]]

LEMMA Turns ==
  /\ Turn["none"] = 0 /\ Turn["created"] = 1 /\ Turn["depending"] = 2 /\ Turn["queued"] = 3
  /\ Turn["working"] = 4 /\ Turn["collecting"] = 5 /\ Turn["over"] = 6
BY DEF Turn

LEMMA AdvanceGoesOn ==
  ASSUME TypeOK, NEW c \in Children, Advance(c)
  PROVE  /\ Turn[task[c]] < Turn[task'[c]]
         /\ \A d \in Children : d # c => task'[d] = task[d]
         /\ task[c] # "none" /\ task'[c] # "none"
         /\ deps' = deps /\ spawning' = spawning
<1>1. ASSUME NEW place \in Tasks, Goto(c, place)
      PROVE  task'[c] = place /\ \A d \in Children : d # c => task'[d] = task[d]
  BY <1>1 DEF TypeOK, Goto
<1>2. CASE Start(c) \/ NeverStarted(c) \/ DependenciesMet(c) \/ Work(c)
  BY <1>1, <1>2, Turns DEF Start, NeverStarted, DependenciesMet, Work, Tasks, runVars
<1>3. CASE DependencyFailed(c) \/ Cancelled(c) \/ \E outcome \in Outcomes : Finish(c, outcome)
  BY <1>1, <1>3, Turns DEF DependencyFailed, Cancelled, Finish, Leave, Tasks, runVars
<1>4. CASE (\E s \in Outcomes : Record(c, s)) \/ CollectingCancelled(c) \/ BrowserNotClosed(c)
  BY <1>1, <1>4, Turns DEF Record, CollectingCancelled, BrowserNotClosed, Missed, Tasks, runVars
<1> QED BY <1>2, <1>3, <1>4 DEF Advance

(* What the other steps do to the tasks: a report may end a child's work,  *)
(* and a spawn creates a task.                                             *)
LEMMA RequestingGoesOn ==
  ASSUME TypeOK, NEW c \in Children, Requesting(c)
  PROVE  /\ \/ task' = task
            \/ /\ task[c] = "working" /\ task'[c] = "collecting"
               /\ \A d \in Children : d # c => task'[d] = task[d]
         /\ deps' = deps /\ spawning' = spawning
<1>1. CASE Answered(c) \/ \E n \in Sizes : Reserve(c, n)
  BY <1>1 DEF Answered, Reserve, childVars, runVars
<1>2. ASSUME NEW n \in 1 .. MaxExcess, Report(c, n)
      PROVE  /\ \/ task' = task
                \/ /\ task[c] = "working" /\ task'[c] = "collecting"
                   /\ \A d \in Children : d # c => task'[d] = task[d]
             /\ deps' = deps /\ spawning' = spawning
  BY <1>2 DEF Report, Leave, Goto, TypeOK, childVars, runVars
<1> QED BY <1>1, <1>2 DEF Requesting

LEMMA RegisterGoesOn ==
  ASSUME IInv, spawning.pc # "idle", Register(spawning.child, spawning.deps)
  PROVE  /\ spawning.child \in Children /\ spawning.deps \subseteq Children
         /\ task[spawning.child] = "none" /\ task'[spawning.child] = "created"
         /\ deps'[spawning.child] = spawning.deps /\ spawning' = NoSpawn
         /\ \A d \in Children : d # spawning.child => (task'[d] = task[d] /\ deps'[d] = deps[d])
<1>1. spawning.child \in Children /\ spawning.deps \subseteq Children /\ task[spawning.child] = "none"
  BY DEF IInv, TypeOK, SpawnOK, NoSpawn
<1> QED BY <1>1 DEF Register, IInv, TypeOK

LEMMA SpawningGoesOn ==
  ASSUME IInv, Spawning
  PROVE  \/ spawning.pc # "idle" /\ Register(spawning.child, spawning.deps)
         \/ /\ task' = task /\ deps' = deps
            /\ \/ spawning' = NoSpawn
               \/ spawning.pc # "idle" /\ spawning'.deps = spawning.deps
               \/ spawning'.deps \subseteq Jobs
<1>1. ASSUME NEW by \in Spawners, NEW c \in Children, NEW ds \in SUBSET Jobs, Spawn(by, c, ds)
      PROVE  task' = task /\ deps' = deps /\ spawning'.deps \subseteq Jobs
  BY <1>1 DEF Spawn, childVars
<1>2. CASE SpawnReader \/ SpawnPrepared
  BY <1>2 DEF SpawnReader, SpawnPrepared
<1>3. CASE SpawnWorker
  <2>1. spawning \in [pc : {"asking", "preparing"}, by : Spawners, child : Children, deps : SUBSET Children]
    BY <1>3 DEF SpawnWorker, IInv, TypeOK, NoSpawn
  <2> QED BY <1>3, <2>1 DEF SpawnWorker, childVars
<1>4. CASE SpawnFailed
  BY <1>4 DEF SpawnFailed, childVars
<1> QED BY <1>1, <1>2, <1>3, <1>4 DEF Spawning

LEMMA AdvanceStep ==
  ASSUME IInv, [Next]_vars
  PROVE  OnlyAdvances
<1>0. TypeOK /\ \A c \in Children : Turn[task[c]] \in Nat
  BY Turns DEF IInv, TypeOK, Tasks
<1>a. \A c \in Children : Turn[task'[c]] \in Nat
  <2>1. IInv'
    BY StepInvariant
  <2>2. \A c \in Children : task'[c] \in Tasks
    BY <2>1 DEF IInv, TypeOK
  <2> QED BY <2>2, Turns DEF Tasks
<1> SUFFICES ASSUME NEW c \in Children
             PROVE  /\ Turn[task[c]] <= Turn[task'[c]]
                    /\ Advance(c) => Turn[task[c]] < Turn[task'[c]]
  BY DEF OnlyAdvances
<1>1. Advance(c) => Turn[task[c]] < Turn[task'[c]]
  BY <1>0, AdvanceGoesOn
<1>2. task'[c] = task[c] => Turn[task[c]] <= Turn[task'[c]]
  BY <1>0
<1>3. ASSUME NEW d \in Children, Advance(d) PROVE Turn[task[c]] <= Turn[task'[c]]
  <2>1. CASE c = d
    <3>1. Turn[task[c]] < Turn[task'[c]]
      BY <1>0, <1>3, <2>1, AdvanceGoesOn
    <3> QED BY <1>0, <1>a, <3>1
  <2>2. CASE c # d
    BY <1>0, <1>2, <1>3, <2>2, AdvanceGoesOn
  <2> QED BY <2>1, <2>2
<1>4. ASSUME NEW d \in Children, Requesting(d) PROVE Turn[task[c]] <= Turn[task'[c]]
  <2>1. task'[c] = task[c] \/ (task[c] = "working" /\ task'[c] = "collecting")
    BY <1>0, <1>4, RequestingGoesOn
  <2> QED BY <1>2, <2>1, Turns
<1>5. ASSUME Spawning PROVE Turn[task[c]] <= Turn[task'[c]]
  <2>1. task'[c] = task[c] \/ (task[c] = "none" /\ task'[c] = "created")
    <3>1. CASE spawning.pc # "idle" /\ Register(spawning.child, spawning.deps)
      BY <3>1, RegisterGoesOn
    <3>2. CASE task' = task
      BY <3>2
    <3> QED BY <1>5, <3>1, <3>2, SpawningGoesOn
  <2> QED BY <1>2, <2>1, Turns
<1>6. ASSUME (\E d \in Children : Cancel(d)) \/ Stop \/ Close \/ Closed \/ UNCHANGED vars
      PROVE  Turn[task[c]] <= Turn[task'[c]]
  <2>1. task' = task
    BY <1>6 DEF Cancel, Stop, Close, Closed, vars, childVars
  <2> QED BY <1>2, <2>1
<1>7. Turn[task[c]] <= Turn[task'[c]]
  BY <1>3, <1>4, <1>5, <1>6 DEF Next
<1> QED BY <1>1, <1>7

(* A child takes five steps of its own at most, and nothing that others do *)
(* takes one of them back (_run).                                          *)
THEOREM ChildrenOnlyAdvance == Spec => [][OnlyAdvances]_vars
<1>1. IInv /\ [Next]_vars => [OnlyAdvances]_vars
  BY AdvanceStep
<1> QED BY <1>1, Invariance, PTL DEF Spec

-----------------------------------------------------------------------------
(* Nobody waits for ever.  Children that depend on each other were spawned *)
(* one after the other, so that the dependencies have an order.            *)

(* The numbers below n rank what was spawned, dependencies first.          *)
Ranked(rank, n) ==
  /\ \A c \in Jobs : rank[c] < n
  /\ \A c \in Children : \A d \in deps[c] : rank[d] < rank[c]

OrderInv ==
  /\ \A c \in Children : deps[c] \subseteq Jobs
  /\ spawning.pc # "idle" => spawning.deps \subseteq Jobs
  /\ \E rank \in [Children -> Nat], n \in Nat : Ranked(rank, n)

(* The least element of a set of numbers.                                  *)
LEMMA LessThanIsWellFounded == IsWellFoundedOn({pair \in Nat \X Nat : pair[1] < pair[2]}, Nat)
BY NatLessThanWellFounded DEF OpToRel

LEMMA LeastNumber ==
  \A S \in SUBSET Nat : S # {} => \E n \in S : \A m \in S : n <= m
<1> SUFFICES ASSUME NEW S \in SUBSET Nat, S # {}
             PROVE  \E n \in S : \A m \in S : n <= m
  OBVIOUS
<1> DEFINE Less == {pair \in Nat \X Nat : pair[1] < pair[2]}
<1>1. PICK n \in S : \A m \in S : ~ (<<m, n>> \in Less)
  <2> HIDE DEF Less
  <2>1. IsWellFoundedOn(Less, Nat)
    BY LessThanIsWellFounded DEF Less
  <2> QED BY <2>1, WFMin
<1>2. ASSUME NEW m \in S PROVE n <= m
  <2>1. m \in Nat /\ n \in Nat /\ <<m, n>> \notin Less
    BY <1>1
  <2>2. m < n => <<m, n>> \in Less
    BY <2>1
  <2> QED BY <2>1, <2>2
<1> QED BY <1>2

(* A step that spawns nobody leaves the order as it is.                    *)
LEMMA OrderStays ==
  ASSUME OrderInv, deps' = deps, Jobs' = Jobs,
         \/ spawning' = NoSpawn
         \/ spawning.pc # "idle" /\ spawning'.deps = spawning.deps
         \/ spawning'.deps \subseteq Jobs
         \/ spawning' = spawning
  PROVE  OrderInv'
<1>1. (\A c \in Children : deps[c] \subseteq Jobs)'
  BY DEF OrderInv
<1>2. (spawning.pc # "idle" => spawning.deps \subseteq Jobs)'
  BY DEF OrderInv, NoSpawn
<1>3. PICK rank \in [Children -> Nat], n \in Nat : Ranked(rank, n)
  BY DEF OrderInv
<1>4. Ranked(rank, n)'
  BY <1>3 DEF Ranked
<1> QED BY <1>1, <1>2, <1>4 DEF OrderInv

LEMMA OrderRegister ==
  ASSUME IInv, OrderInv, spawning.pc # "idle", Register(spawning.child, spawning.deps)
  PROVE  OrderInv'
<1>0. PICK c \in Children :
        /\ spawning.deps \subseteq Children
        /\ task[c] = "none" /\ task'[c] = "created"
        /\ deps'[c] = spawning.deps /\ spawning' = NoSpawn
        /\ \A d \in Children : d # c => (task'[d] = task[d] /\ deps'[d] = deps[d])
  BY RegisterGoesOn
<1>1. c \notin Jobs /\ Jobs' = Jobs \cup {c} /\ spawning.deps \subseteq Jobs
  BY <1>0 DEF Jobs, OrderInv
<1>2. PICK rank \in [Children -> Nat], n \in Nat : Ranked(rank, n)
  BY DEF OrderInv
<1>3. Jobs \subseteq Children /\ \A d \in Jobs : rank[d] \in Nat /\ rank[d] < n
  BY <1>2 DEF Ranked, Jobs
<1> DEFINE after == [rank EXCEPT ![c] = n]
<1>4. after \in [Children -> Nat] /\ n + 1 \in Nat /\ after[c] = n
      /\ \A d \in Children : d # c => after[d] = rank[d]
  BY <1>0
<1> HIDE DEF after
<1>5. \A d \in Jobs' : after[d] < n + 1
  <2>1. \A d \in Jobs : after[d] \in Nat /\ after[d] < n
    BY <1>1, <1>3, <1>4
  <2> QED BY <1>1, <1>4, <2>1
<1>6. ASSUME NEW e \in Children, NEW d \in deps'[e] PROVE after[d] < after[e]
  <2>1. CASE e = c
    BY <1>0, <1>1, <1>3, <1>4, <2>1
  <2>2. CASE e # c
    <3>1. d \in deps[e] /\ d \in Jobs
      BY <1>0, <2>2 DEF OrderInv
    <3>2. rank[d] < rank[e] /\ after[d] = rank[d] /\ after[e] = rank[e]
      BY <1>1, <1>2, <1>3, <1>4, <2>2, <3>1 DEF Ranked
    <3> QED BY <3>2
  <2> QED BY <2>1, <2>2
<1>7. Ranked(after, n + 1)'
  BY <1>5, <1>6 DEF Ranked
<1>8. (\A e \in Children : deps[e] \subseteq Jobs)'
  BY <1>0, <1>1 DEF OrderInv
<1>9. (spawning.pc # "idle" => spawning.deps \subseteq Jobs)'
  BY <1>0 DEF NoSpawn
<1> QED BY <1>4, <1>7, <1>8, <1>9 DEF OrderInv

LEMMA OrderStep ==
  ASSUME IInv, OrderInv, [Next]_vars
  PROVE  OrderInv'
<1>0. TypeOK
  BY DEF IInv
<1>1. ASSUME NEW c \in Children, Advance(c) PROVE OrderInv'
  <2>1. Jobs' = Jobs /\ deps' = deps /\ spawning' = spawning
    BY <1>0, <1>1, AdvanceGoesOn DEF Jobs
  <2> QED BY <2>1, OrderStays
<1>2. ASSUME NEW c \in Children, Requesting(c) PROVE OrderInv'
  <2>1. Jobs' = Jobs /\ deps' = deps /\ spawning' = spawning
    BY <1>0, <1>2, RequestingGoesOn DEF Jobs
  <2> QED BY <2>1, OrderStays
<1>3. CASE Spawning
  <2>1. task' = task => Jobs' = Jobs
    BY DEF Jobs
  <2> QED BY <1>3, <2>1, SpawningGoesOn, OrderStays, OrderRegister
<1>4. CASE (\E c \in Children : Cancel(c)) \/ Stop \/ Close \/ Closed \/ UNCHANGED vars
  <2>1. /\ task' = task /\ deps' = deps
        /\ spawning' = spawning \/ spawning' = NoSpawn
    BY <1>4 DEF Cancel, Stop, Close, Closed, vars, childVars, runVars
  <2>2. Jobs' = Jobs
    BY <2>1 DEF Jobs
  <2> QED BY <2>1, <2>2, OrderStays
<1> QED BY <1>1, <1>2, <1>3, <1>4 DEF Next

LEMMA OrderInit == Init => OrderInv
<1> SUFFICES ASSUME Init PROVE OrderInv
  OBVIOUS
<1>1. Jobs = {} /\ \A c \in Children : deps[c] = {}
  BY DEF Init, Jobs
<1>2. [c \in Children |-> 0] \in [Children -> Nat] /\ Ranked([c \in Children |-> 0], 0)
  BY <1>1 DEF Ranked
<1> QED BY <1>1, <1>2 DEF OrderInv, Init, NoSpawn

(* The first of the open children that has not begun to work waits for     *)
(* nobody but those that work, and these wait for nobody.                  *)
LEMMA OrderGoesOn == IInv /\ OrderInv => SomebodyGoesOn
<1> SUFFICES ASSUME IInv, OrderInv, Open # {} PROVE \E c \in Open : GoesOn(c)
  BY DEF SomebodyGoesOn
<1>1. PICK rank \in [Children -> Nat], n \in Nat : Ranked(rank, n)
  BY DEF OrderInv
<1>2. Open \subseteq Children
  BY DEF Open, Jobs
<1>3. PICK c \in Open : \A d \in Open : rank[c] <= rank[d]
  <2>1. {rank[d] : d \in Open} \in SUBSET Nat /\ {rank[d] : d \in Open} # {}
    BY <1>2
  <2>2. PICK m \in {rank[d] : d \in Open} : \A k \in {rank[d] : d \in Open} : m <= k
    BY <2>1, LeastNumber
  <2>3. \A d \in Open : m <= rank[d]
    BY <2>2
  <2> QED BY <2>2, <2>3
<1>4. CASE task[c] = "depending"
  <2>1. ASSUME NEW d \in deps[c] PROVE Over(d)
    <3>1. d \in Jobs /\ rank[d] < rank[c]
      BY <1>1, <1>2, <1>3 DEF OrderInv, Ranked
    <3>2. rank[d] \in Nat /\ rank[c] \in Nat /\ d \notin Open
      BY <1>2, <1>3, <3>1 DEF Jobs
    <3> QED BY <3>1, <3>2 DEF Open
  <2> QED BY <1>3, <1>4, <2>1 DEF GoesOn
<1>5. CASE task[c] = "queued" /\ ~Free(c)
  <2>1. {d \in Children \ {c} : task[d] = "working"} # {}
    <3> SUFFICES ASSUME {d \in Children \ {c} : task[d] = "working"} = {} PROVE FALSE
      OBVIOUS
    <3>1. Cardinality({d \in Children \ {c} : task[d] = "working"}) = 0
      BY FS_EmptySet
    <3> QED BY <1>5, <3>1, SubagentConstants DEF Free
  <2>2. PICK d \in Children : task[d] = "working"
    BY <2>1
  <2>3. d \in Open /\ GoesOn(d)
    BY <2>2 DEF Open, Jobs, Over, GoesOn
  <2> QED BY <2>3
<1>6. CASE task[c] # "depending" /\ (task[c] = "queued" => Free(c))
  BY <1>3, <1>6 DEF GoesOn
<1> QED BY <1>4, <1>5, <1>6

(* However children depend on each other, wait for permits, and are        *)
(* cancelled: as long as one is open, the task of one can take a step of   *)
(* its own (_run, the semaphore).                                          *)
THEOREM NoChildrenDeadlock == Spec => []SomebodyGoesOn
<1>1. IInv /\ OrderInv /\ [Next]_vars => OrderInv'
  BY OrderStep
<1> QED BY <1>1, OrderInit, OrderGoesOn, Invariance, PTL DEF Spec

-----------------------------------------------------------------------------
(* Where an outcome can get lost on its way to the journal.                *)

(* The row of a child follows its task, until the outcome is recorded.     *)
(* What ends without that has never started, or was to be cleaned up       *)
(* after: a worker, or a child that may have opened a browser.             *)
RowFollows(c) ==
  /\ task[c] \in {"depending", "queued", "working", "collecting"} => row[c] = "running"
  /\ (Over(c) /\ row[c] \in OpenRows /\ status[c] # "cancelled") =>
       (row[c] = "running" /\ c \in raised /\ Lingers(c))
RowsFollow == \A c \in Children : RowFollows(c)

(* An outcome that is reported and not on record is that of a child whose  *)
(* task has ended in an exception while it was cleaned up after, and its   *)
(* row still says running.                                                 *)
MissedAtCleanup == \A c \in Children :
  (Over(c) /\ status[c] \in {"completed", "failed"} /\ row[c] # status[c]) =>
    (row[c] = "running" /\ c \in raised /\ Lingers(c))

(* What a step may do to the row of a child, and to what it goes by.       *)
LEMMA RowStays ==
  ASSUME NEW c \in Children, RowFollows(c), task'[c] = task[c], status'[c] = status[c], row'[c] = row[c],
         c \in raised => c \in raised', Lingers(c) => Lingers(c)'
  PROVE  RowFollows(c)'
BY DEF RowFollows, Over

(* A child that has made requests does not unmake them.                    *)
LEMMA LingersStays ==
  ASSUME TypeOK, [Next]_vars, NEW c \in Children, Lingers(c)
  PROVE  Lingers(c)'
<1>1. ASSUME reserved'[c] = reserved[c] PROVE Lingers(c)'
  BY <1>1 DEF Lingers, Opened
<1>2. ASSUME NEW d \in Children, NEW n \in Nat, reserved' = [reserved EXCEPT ![d] = @ + n]
      PROVE  Lingers(c)'
  <2>1. reserved[c] \in Nat /\ (reserved'[c] = reserved[c] \/ reserved'[c] = reserved[c] + n)
    BY <1>2 DEF TypeOK
  <2> QED BY <2>1 DEF Lingers, Opened
<1>3. ASSUME NEW d \in Children, Requesting(d) PROVE Lingers(c)'
  <2>1. ASSUME NEW n \in 1 .. MaxExcess, Report(d, n) PROVE Lingers(c)'
    <3>1. n \in Nat /\ reserved' = [reserved EXCEPT ![d] = @ + n]
      BY <2>1, SubagentConstants DEF Report
    <3> QED BY <1>2, <3>1
  <2>2. ASSUME NEW n \in Sizes, Reserve(d, n) PROVE Lingers(c)'
    BY <1>2, <2>2, SubagentConstants DEF Reserve
  <2> QED BY <1>1, <1>3, <2>1, <2>2 DEF Requesting, Answered
<1>4. ASSUME NEW d \in Children, Advance(d) PROVE reserved' = reserved
  BY <1>4 DEF Advance, Start, NeverStarted, DependenciesMet, DependencyFailed, Work, Finish, Cancelled,
       Record, CollectingCancelled, BrowserNotClosed, Missed, tokenVars
<1>5. ASSUME Spawning PROVE reserved' = reserved
  BY <1>5 DEF Spawning, Spawn, SpawnReader, SpawnWorker, SpawnPrepared, SpawnFailed, Register, tokenVars
<1>6. ASSUME (\E d \in Children : Cancel(d)) \/ Stop \/ Close \/ Closed \/ UNCHANGED vars
      PROVE  reserved' = reserved
  BY <1>6 DEF Cancel, Stop, Close, Closed, vars, tokenVars
<1> QED BY <1>1, <1>3, <1>4, <1>5, <1>6 DEF Next

(* A step of one child leaves the rows of the others as they are.          *)
LEMMA RowOfOthers ==
  ASSUME TypeOK, RowsFollow, [Next]_vars, raised \subseteq raised', NEW c \in Children, RowFollows(c)',
         \A d \in Children : d # c => (task'[d] = task[d] /\ status'[d] = status[d] /\ row'[d] = row[d])
  PROVE  RowsFollow'
<1>1. ASSUME NEW d \in Children, d # c PROVE RowFollows(d)'
  <2>1. Lingers(d) => Lingers(d)'
    BY LingersStays
  <2> QED BY <1>1, <2>1, RowStays DEF RowsFollow
<1> QED BY <1>1 DEF RowsFollow

LEMMA RowOfLeaving ==
  ASSUME TypeOK, RowsFollow, [Next]_vars, NEW c \in Children, NEW outcome \in Outcomes, Leave(c, outcome),
         task[c] \in {"depending", "queued", "working"}
  PROVE  RowsFollow'
<1>1. /\ task'[c] = "collecting" /\ row' = row /\ raised' = raised
      /\ \A d \in Children : d # c => (task'[d] = task[d] /\ status'[d] = status[d])
  BY DEF TypeOK, Leave, Goto
<1>2. RowFollows(c)'
  BY <1>1 DEF RowsFollow, RowFollows, Over
<1> QED BY <1>1, <1>2, RowOfOthers

LEMMA RowOfAdvance ==
  ASSUME TypeOK, RowsFollow, [Next]_vars, NEW c \in Children, Advance(c)
  PROVE  RowsFollow'
<1>1. CASE DependencyFailed(c) \/ Cancelled(c) \/ \E outcome \in Outcomes : Finish(c, outcome)
  BY <1>1, RowOfLeaving DEF DependencyFailed, Cancelled, Finish, Outcomes
<1>2. CASE Start(c) \/ NeverStarted(c) \/ DependenciesMet(c) \/ Work(c)
  <2>1. /\ \A d \in Children : d # c => (task'[d] = task[d] /\ status'[d] = status[d] /\ row'[d] = row[d])
        /\ raised \subseteq raised'
    BY <1>2 DEF TypeOK, Start, NeverStarted, DependenciesMet, Work, Goto
  <2>2. \/ task'[c] \in {"depending", "queued", "working"} /\ row'[c] = "running"
        \/ task'[c] = "over" /\ status'[c] = "cancelled"
    BY <1>2 DEF TypeOK, RowsFollow, RowFollows, Start, NeverStarted, DependenciesMet, Work, Goto
  <2>3. RowFollows(c)'
    BY <2>2 DEF RowFollows, Over
  <2> QED BY <2>1, <2>3, RowOfOthers
<1>3. ASSUME NEW s \in Outcomes, Record(c, s) PROVE RowsFollow'
  <2>1. /\ \A d \in Children : d # c => (task'[d] = task[d] /\ status'[d] = status[d] /\ row'[d] = row[d])
        /\ raised' = raised
        /\ task'[c] = "over" /\ row'[c] = RowOf(s)
    BY <1>3 DEF TypeOK, Record, Goto
  <2>2. RowOf(s) \notin OpenRows
    BY DEF RowOf, OpenRows, Outcomes
  <2>3. RowFollows(c)'
    BY <2>1, <2>2 DEF RowFollows, Over
  <2> QED BY <2>1, <2>3, RowOfOthers
<1>4. CASE CollectingCancelled(c) \/ BrowserNotClosed(c)
  <2>1. Missed(c) /\ Lingers(c) /\ \A d \in Children : d # c => status'[d] = status[d]
    BY <1>4 DEF TypeOK, CollectingCancelled, BrowserNotClosed, Lingers
  <2>2. /\ \A d \in Children : d # c => task'[d] = task[d]
        /\ raised' = raised \cup {c}
        /\ task[c] = "collecting" /\ task'[c] = "over" /\ row' = row
    BY <2>1 DEF TypeOK, Missed, Goto
  <2>3. Lingers(c)'
    BY <2>1, LingersStays
  <2>4. RowFollows(c)'
    BY <2>2, <2>3 DEF RowsFollow, RowFollows, Over
  <2> QED BY <2>1, <2>2, <2>4, RowOfOthers
<1> QED BY <1>1, <1>2, <1>3, <1>4 DEF Advance

LEMMA RowStep ==
  ASSUME IInv, RowsFollow, [Next]_vars
  PROVE  RowsFollow'
<1>0. TypeOK
  BY DEF IInv
<1>1. ASSUME UNCHANGED <<task, status, row, raised>> PROVE RowsFollow'
  <2>1. ASSUME NEW d \in Children PROVE RowFollows(d)'
    <3>1. Lingers(d) => Lingers(d)'
      BY <1>0, LingersStays
    <3> QED BY <1>1, <3>1, RowStays DEF RowsFollow
  <2> QED BY <2>1 DEF RowsFollow
<1>2. ASSUME NEW c \in Children, Requesting(c) PROVE RowsFollow'
  <2>1. ASSUME NEW n \in 1 .. MaxExcess, Report(c, n) PROVE RowsFollow'
    BY <1>0, <1>1, <2>1, RowOfLeaving DEF Report, Outcomes, childVars
  <2> QED BY <1>1, <1>2, <2>1 DEF Requesting, Answered, Reserve, childVars
<1>3. ASSUME spawning.pc # "idle", Register(spawning.child, spawning.deps) PROVE RowsFollow'
  <2>1. PICK c \in Children : c = spawning.child /\ task'[c] = "created"
    BY <1>3, RegisterGoesOn
  <2>2. /\ \A d \in Children : d # c => (task'[d] = task[d] /\ status'[d] = status[d] /\ row'[d] = row[d])
        /\ raised' = raised
    BY <1>0, <1>3, <2>1 DEF TypeOK, Register
  <2>3. RowFollows(c)'
    BY <2>1 DEF RowFollows, Over
  <2> QED BY <1>0, <2>2, <2>3, RowOfOthers
<1>4. CASE Spawning
  BY <1>1, <1>3, <1>4 DEF Spawning, Spawn, SpawnReader, SpawnPrepared, SpawnWorker, SpawnFailed, childVars
<1>5. CASE (\E c \in Children : Cancel(c)) \/ Stop \/ Close \/ Closed \/ UNCHANGED vars
  BY <1>1, <1>5 DEF Cancel, Stop, Close, Closed, vars, childVars
<1> QED BY <1>0, <1>2, <1>4, <1>5, RowOfAdvance DEF Next

LEMMA RowsInvariant == Spec => [](IInv /\ RowsFollow)
<1>1. Init => RowsFollow
  BY DEF Init, RowsFollow, RowFollows, Over
<1>2. IInv /\ RowsFollow /\ [Next]_vars => RowsFollow'
  BY RowStep
<1> QED BY <1>1, <1>2, Invariance, PTL DEF Spec

(* A child that is reported as completed or failed is on record as that,   *)
(* unless its task ended in an exception while something of it was cleaned *)
(* up: its workspace, its execution, or a browser it may have opened.      *)
(* Then its row still says running (_run's finally block awaits all of     *)
(* them before it records).                                                *)
THEOREM OutcomesMissedAtCleanup == Spec => []MissedAtCleanup
<1>1. IInv /\ RowsFollow => MissedAtCleanup
  <2> SUFFICES ASSUME IInv, RowsFollow, NEW c \in Children,
                      Over(c), status[c] \in {"completed", "failed"}, row[c] # status[c]
               PROVE  row[c] = "running" /\ c \in raised /\ Lingers(c)
    BY DEF MissedAtCleanup
  <2>1. row[c] \in OpenRows
    BY DEF IInv, TypeOK, Rows, OutcomesAgree, OpenRows
  <2> QED BY <2>1 DEF RowsFollow, RowFollows
<1> QED BY <1>1, RowsInvariant, PTL

(* If no child has a workspace to collect or is granted browser tools,     *)
(* every outcome that is reported is on record: nothing suspends _run      *)
(* between the report and the record.                                      *)
THEOREM PlainReadersAreRecorded ==
  ASSUME Workers = {}, Browsing = {}
  PROVE  Spec => []OutcomeRecorded
<1>1. MissedAtCleanup => OutcomeRecorded
  BY DEF MissedAtCleanup, OutcomeRecorded, Lingers, Opened
<1> QED BY <1>1, OutcomesMissedAtCleanup, PTL
=============================================================================
