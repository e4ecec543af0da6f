----------------------- MODULE ExecutionJournalProofs -----------------------
(***************************************************************************)
(* Theorems about the execution journal, for every set of runs, steps,     *)
(* attempts, inputs and results and every capacity.                        *)
(***************************************************************************)
EXTENDS ExecutionJournal, FiniteSetTheorems, SequenceTheorems, TLAPS

(* The named guards and the state of a lost dispatch, by what they say.    *)
USE DEF Retryable, HasCapacity, Reconcilable, Compactable, LostState

(* The row a transition writes is well typed and keeps its identity.       *)
LEMMA MovedType ==
  ASSUME NEW row \in Row, NEW s \in States, NEW res \in Results \cup {None}
  PROVE  /\ Moved(row, s, res) \in Row
         /\ Identity(Moved(row, s, res)) = Identity(row)
         /\ Moved(row, s, res).state = s
         /\ Moved(row, s, res).version = row.version + 1
<1> DEFINE result == IF res = None THEN row.result ELSE [body |-> res, digests |-> 0]
<1>1. result \in Stored
  <2>1. CASE res = None
    BY <2>1 DEF Row
  <2>2. CASE res # None
    <3>1. 0 \in 0 .. 2
      OBVIOUS
    <3> QED BY <2>2, <3>1 DEF Stored
  <2> QED BY <2>1, <2>2
<1>2. Moved(row, s, res) = [row EXCEPT !.state = s, !.version = row.version + 1,
                                       !.result = result]
  BY DEF Moved
<1>3. row.version + 1 \in Nat
  BY DEF Row
<1> HIDE DEF result
<1> QED BY <1>1, <1>2, <1>3 DEF Row, Identity

LEMMA EventType ==
  ASSUME NEW a \in Attempts, NEW row \in Row, row.state # "absent",
         NEW kind \in {"execution_step", "execution_reconciled"}
  PROVE  /\ EventOf(a, row, kind) \in Event
         /\ EventOf(a, row, kind).attempt = a
         /\ EventOf(a, row, kind).state = row.state
         /\ EventOf(a, row, kind).version = row.version
         /\ EventOf(a, row, kind).kind = kind
BY DEF EventOf, Event, Row

LEMMA NoRowType == NoRow \in Row
BY DEF NoRow, Row, Stored, NoResult

LEMMA RowsFinite ==
  ASSUME NEW r \in Runs
  PROVE  IsFiniteSet(RowsOf(r)) /\ Cardinality(RowsOf(r)) \in Nat
BY JournalConstants, FS_Subset, FS_CardinalityType DEF RowsOf

-----------------------------------------------------------------------------
(* Type correctness.                                                       *)

LEMMA MoveType ==
  ASSUME TypeOK, NEW r \in Runs, NEW a \in Attempts, NEW s \in States,
         NEW res \in Results \cup {None},
         NEW kind \in {"execution_step", "execution_reconciled"},
         Move(r, a, s, res, kind)
  PROVE  TypeOK'
<1>1. rows[a] \in Row
  BY DEF TypeOK
<1>2. Moved(rows[a], s, res) \in Row /\ Moved(rows[a], s, res).state = s
  BY <1>1, MovedType
<1>3. s # "absent"
  BY DEF States, Pending, Dispatched, Uncertain, Terminal
<1>4. EventOf(a, Moved(rows[a], s, res), kind) \in Event
  BY <1>2, <1>3, EventType
<1>5. rows' \in [Attempts -> Row]
  BY <1>2 DEF Move, TypeOK
<1>6. events' \in [Runs -> Seq(Event)]
  BY <1>4 DEF Move, Log, TypeOK
<1> QED BY <1>5, <1>6 DEF TypeOK, Move

(* The rows a recovery loses, and the batch of events it appends.          *)
Lost(r) == {a \in RowsOf(r) : rows[a].state \in Dispatched}

Batch(order, n) ==
  [k \in 1 .. n |-> EventOf(order[k], Moved(rows[order[k]], LostState, None),
                            "execution_step")]

LEMMA RecoverShape ==
  ASSUME TypeOK, NEW r \in Runs, RecoverInterrupted(r)
  PROVE  /\ rows' = [a \in Attempts |->
                       IF a \in Lost(r) THEN Moved(rows[a], LostState, None)
                                        ELSE rows[a]]
         /\ \A a \in Lost(r) : /\ Moved(rows[a], LostState, None) \in Row
                                /\ a \in Attempts /\ rows[a] \in Row
         /\ \E n \in Nat : \E order \in [1 .. n -> Lost(r)] :
              /\ \A a \in Lost(r) : \E k \in 1 .. n : order[k] = a
              /\ \A j, k \in 1 .. n : order[j] = order[k] => j = k
              /\ Batch(order, n) \in Seq(Event)
              /\ events' = [events EXCEPT ![r] = @ \o Batch(order, n)]
<1> DEFINE lost == Lost(r)
           row(a) == Moved(rows[a], LostState, None)
<1>1. \A a \in lost : /\ row(a) \in Row /\ row(a).state = "outcome_unknown"
                      /\ a \in Attempts /\ rows[a] \in Row
  BY MovedType DEF TypeOK, Lost, RowsOf, States, Uncertain
<1>2. Cardinality(lost) \in Nat
  BY RowsFinite, FS_Subset, FS_CardinalityType DEF Lost
<1>3. PICK order \in [1 .. Cardinality(lost) -> lost] :
        /\ \A a \in lost : \E k \in 1 .. Cardinality(lost) : order[k] = a
        /\ \A j, k \in 1 .. Cardinality(lost) : order[j] = order[k] => j = k
        /\ events' = [events EXCEPT ![r] =
                        @ \o [k \in 1 .. Cardinality(lost) |->
                                EventOf(order[k], row(order[k]), "execution_step")]]
  BY Zenon DEF RecoverInterrupted, Lost
<1>4. rows' = [a \in Attempts |-> IF a \in lost THEN row(a) ELSE rows[a]]
  BY Zenon DEF RecoverInterrupted, Lost
<1>5. \A k \in 1 .. Cardinality(lost) :
        EventOf(order[k], row(order[k]), "execution_step") \in Event
  BY <1>1, EventType
<1>6. Batch(order, Cardinality(lost)) \in Seq(Event)
  BY <1>2, <1>5 DEF Batch
<1> QED BY <1>1, <1>2, <1>3, <1>4, <1>6 DEF Batch

(* Compaction touches nothing of a row but the digests of its result.      *)
LEMMA CompactShape ==
  ASSUME TypeOK, NEW r \in Runs, NEW keep \in 0 .. MaxSteps, Compact(r, keep)
  PROVE  /\ rows' \in [Attempts -> Row]
         /\ \A a \in Attempts :
              /\ Identity(rows'[a]) = Identity(rows[a])
              /\ rows'[a].state = rows[a].state
              /\ rows'[a].version = rows[a].version
              /\ rows'[a].result.body = rows[a].result.body
              /\ rows'[a] # rows[a] => a \in RowsOf(r) /\ rows[a].state \in Terminal
<1> DEFINE bump(row) == [row EXCEPT !.result.digests = IF @ < 2 THEN @ + 1 ELSE 2]
<1>1. ASSUME NEW row \in Row
      PROVE  /\ bump(row) \in Row
             /\ Identity(bump(row)) = Identity(row)
             /\ bump(row).state = row.state
             /\ bump(row).version = row.version
             /\ bump(row).result.body = row.result.body
  BY DEF Row, Stored, Identity
<1>2. PICK dropped \in SUBSET RowsOf(r) :
        rows' = [a \in Attempts |-> IF a \in dropped THEN bump(rows[a]) ELSE rows[a]]
  BY DEF Compact
<1>3. \A a \in RowsOf(r) : rows[a].state \in Terminal
  BY DEF Compact
<1> HIDE DEF bump
<1> QED BY <1>1, <1>2, <1>3 DEF TypeOK

LEMMA TypeNext == TypeOK /\ [Next]_vars => TypeOK'
<1> SUFFICES ASSUME TypeOK, [Next]_vars PROVE TypeOK'
  OBVIOUS
<1>1. ASSUME NEW r \in Runs, NEW s \in Steps, NEW a \in Attempts,
             NEW p \in Steps \cup {None}, NEW i \in Inputs, Begin(r, s, a, p, i)
      PROVE  TypeOK'
  <2> DEFINE row == [ run |-> r, step |-> s, parent |-> p, input |-> i,
                      state |-> "ready", version |-> 0, result |-> NoResult,
                      rowid |-> Cardinality(RowsOf(r)) + 1 ]
  <2>1. row \in Row /\ row.state = "ready"
    BY RowsFinite DEF Row, NoResult, Stored, States, Pending
  <2>2. EventOf(a, row, "execution_step") \in Event
    BY <2>1, EventType
  <2>3. rows' = [rows EXCEPT ![a] = row] /\ Log(r, EventOf(a, row, "execution_step"))
    BY <1>1 DEF Begin
  <2> HIDE DEF row
  <2>4. rows' \in [Attempts -> Row]
    BY <2>1, <2>3 DEF TypeOK
  <2>5. events' \in [Runs -> Seq(Event)]
    BY <2>2, <2>3 DEF TypeOK, Log
  <2> QED BY <1>1, <2>4, <2>5 DEF TypeOK, Begin
<1>2. ASSUME NEW r \in Runs, NEW a \in Attempts, NEW s \in States,
             NEW res \in Results \cup {None}, Transition(r, a, s, res)
      PROVE  TypeOK'
  BY <1>2, MoveType DEF Transition
<1>3. ASSUME NEW r \in Runs, NEW a \in Attempts, NEW s \in Terminal,
             NEW res \in Results \cup {None}, Reconcile(r, a, s, res)
      PROVE  TypeOK'
  <2>1. s \in States
    BY DEF States
  <2> QED BY <1>3, <2>1, MoveType DEF Reconcile
<1>4. ASSUME NEW r \in Runs, RecoverInterrupted(r)
      PROVE  TypeOK'
  <2>1. rows' \in [Attempts -> Row]
    <3>1. /\ rows' = [a \in Attempts |->
                        IF a \in Lost(r) THEN Moved(rows[a], LostState, None)
                                         ELSE rows[a]]
          /\ \A a \in Lost(r) : Moved(rows[a], LostState, None) \in Row
      BY <1>4, RecoverShape
    <3> QED BY <3>1 DEF TypeOK
  <2>2. events' \in [Runs -> Seq(Event)]
    <3>1. PICK n \in Nat : \E order \in [1 .. n -> Lost(r)] :
            /\ Batch(order, n) \in Seq(Event)
            /\ events' = [events EXCEPT ![r] = @ \o Batch(order, n)]
      BY <1>4, RecoverShape
    <3>. PICK order \in [1 .. n -> Lost(r)] :
            /\ Batch(order, n) \in Seq(Event)
            /\ events' = [events EXCEPT ![r] = @ \o Batch(order, n)]
      BY <3>1
    <3>2. events[r] \o Batch(order, n) \in Seq(Event)
      BY DEF TypeOK
    <3> QED BY <3>2 DEF TypeOK
  <2> QED BY <1>4, <2>1, <2>2 DEF TypeOK, RecoverInterrupted
<1>5. ASSUME NEW r \in Runs, NEW keep \in 0 .. MaxSteps, Compact(r, keep)
      PROVE  TypeOK'
  BY <1>5, CompactShape DEF TypeOK, Compact
<1>6. ASSUME NEW r \in Runs, UpdateRun(r)
      PROVE  TypeOK'
  BY <1>6 DEF UpdateRun, TypeOK, RunStatus
<1>7. CASE UNCHANGED vars
  BY <1>7 DEF TypeOK, vars
<1> QED BY <1>1, <1>2, <1>3, <1>4, <1>5, <1>6, <1>7 DEF Next

(* The journal's rows, events and run statuses are always well typed.      *)
THEOREM TypeCorrect == Spec => []TypeOK
<1>1. Init => TypeOK
  BY NoRowType DEF Init, TypeOK, RunStatus
<1> QED BY <1>1, TypeNext, PTL DEF Spec

-----------------------------------------------------------------------------
(* What no call disturbs.                                                  *)

(* A row that exists stays where it is, and one that is settled keeps its  *)
(* outcome, in every step; only a Begin adds a row.                        *)
KeepsPlace ==
  \A a \in Attempts :
    /\ Exists(a)' = Exists(a)
    /\ Identity(rows'[a]) = Identity(rows[a])

KeepsOutcomes ==
  \A a \in Attempts : rows[a].state \in Terminal =>
    /\ rows'[a].state = rows[a].state
    /\ rows'[a].result.body = rows[a].result.body

LEMMA MoveKeeps ==
  ASSUME TypeOK, NEW r \in Runs, NEW a \in Attempts, NEW s \in States,
         NEW res \in Results \cup {None},
         NEW kind \in {"execution_step", "execution_reconciled"},
         a \in RowsOf(r), rows[a].state \notin Terminal,
         Move(r, a, s, res, kind)
  PROVE  KeepsPlace /\ KeepsOutcomes
<1>1. /\ Moved(rows[a], s, res).state = s
      /\ Identity(Moved(rows[a], s, res)) = Identity(rows[a])
  BY MovedType DEF TypeOK
<1>2. \A b \in Attempts : rows'[b] = IF b = a THEN Moved(rows[a], s, res) ELSE rows[b]
  BY DEF Move, TypeOK
<1>3. s # "absent" /\ rows[a].state # "absent"
  BY DEF States, Pending, Dispatched, Uncertain, Terminal, RowsOf, Exists
<1> QED BY <1>1, <1>2, <1>3 DEF KeepsPlace, KeepsOutcomes, Exists

LEMMA AllowedIsOpen ==
  ASSUME NEW s \in States, NEW t \in Allowed[s]
  PROVE  s \notin Terminal /\ t \in States
BY DEF Allowed, TransitionTable, FromReady, States, Pending, Dispatched, Uncertain, Terminal

LEMMA StepKeeps ==
  ASSUME TypeOK, [Next]_vars
  PROVE  /\ KeepsOutcomes
         /\ \/ KeepsPlace
            \/ \E r \in Runs, s \in Steps, a \in Attempts, p \in Steps \cup {None},
                 i \in Inputs : Begin(r, s, a, p, i)
<1>1. ASSUME NEW r \in Runs, NEW s \in Steps, NEW a \in Attempts,
             NEW p \in Steps \cup {None}, NEW i \in Inputs, Begin(r, s, a, p, i)
      PROVE  KeepsOutcomes
  <2>1. \A b \in Attempts : b # a => rows'[b] = rows[b]
    BY <1>1 DEF Begin, TypeOK
  <2>2. rows[a].state \notin Terminal
    BY <1>1 DEF Begin, Exists, Terminal
  <2> QED BY <2>1, <2>2 DEF KeepsOutcomes
<1>2. ASSUME NEW r \in Runs, NEW a \in Attempts, NEW s \in States,
             NEW res \in Results \cup {None}, Transition(r, a, s, res)
      PROVE  KeepsPlace /\ KeepsOutcomes
  <2>1. rows[a].state \in States
    BY <1>2 DEF Transition, RowsOf, Exists, TypeOK, Row
  <2> QED BY <1>2, <2>1, AllowedIsOpen, MoveKeeps DEF Transition
<1>3. ASSUME NEW r \in Runs, NEW a \in Attempts, NEW s \in Terminal,
             NEW res \in Results \cup {None}, Reconcile(r, a, s, res)
      PROVE  KeepsPlace /\ KeepsOutcomes
  <2>1. s \in States /\ rows[a].state \notin Terminal
    BY <1>3 DEF Reconcile, States, Uncertain, Terminal
  <2> QED BY <1>3, <2>1, MoveKeeps DEF Reconcile
<1>4. ASSUME NEW r \in Runs, RecoverInterrupted(r)
      PROVE  KeepsPlace /\ KeepsOutcomes
  <2>1. \A a \in Attempts :
          rows'[a] = IF a \in Lost(r) THEN Moved(rows[a], LostState, None)
                                      ELSE rows[a]
    BY <1>4, RecoverShape
  <2>2. ASSUME NEW a \in Lost(r)
        PROVE  /\ Moved(rows[a], LostState, None).state = "outcome_unknown"
               /\ Identity(Moved(rows[a], LostState, None)) = Identity(rows[a])
               /\ rows[a].state # "absent" /\ rows[a].state \notin Terminal
    <3>1. rows[a] \in Row /\ "outcome_unknown" \in States /\ None \in Results \cup {None}
      BY DEF Lost, RowsOf, TypeOK, States, Uncertain
    <3>2. rows[a].state # "absent" /\ rows[a].state \notin Terminal
      BY DEF Lost, Dispatched, Terminal
    <3> QED BY <3>1, <3>2, MovedType
  <2> QED BY <2>1, <2>2 DEF KeepsPlace, KeepsOutcomes, Exists
<1>5. ASSUME NEW r \in Runs, NEW keep \in 0 .. MaxSteps, Compact(r, keep)
      PROVE  KeepsPlace /\ KeepsOutcomes
  BY <1>5, CompactShape DEF KeepsPlace, KeepsOutcomes, Exists
<1>6. ASSUME NEW r \in Runs, UpdateRun(r)
      PROVE  KeepsPlace /\ KeepsOutcomes
  BY <1>6 DEF UpdateRun, KeepsPlace, KeepsOutcomes, Exists
<1>7. CASE UNCHANGED vars
  BY <1>7 DEF vars, KeepsPlace, KeepsOutcomes, Exists
<1> QED BY <1>1, <1>2, <1>3, <1>4, <1>5, <1>6, <1>7, Zenon DEF Next

(* What an attempt is bound to never changes and a terminal outcome is     *)
(* never replaced, whatever calls follow.                                  *)
THEOREM HistoryIsKept == Spec => HistoryKept
<1> DEFINE Kept == \A a \in Attempts : Exists(a) =>
             /\ Exists(a)'
             /\ Identity(rows'[a]) = Identity(rows[a])
             /\ rows[a].state \in Terminal =>
                  /\ rows'[a].state = rows[a].state
                  /\ rows'[a].result.body = rows[a].result.body
<1>1. TypeOK /\ [Next]_vars => [Kept]_vars
  <2> SUFFICES ASSUME TypeOK, [Next]_vars PROVE Kept
    OBVIOUS
  <2>1. ASSUME NEW r \in Runs, NEW s \in Steps, NEW a \in Attempts,
               NEW p \in Steps \cup {None}, NEW i \in Inputs, Begin(r, s, a, p, i)
        PROVE  Kept
    BY <2>1, StepKeeps DEF Begin, KeepsOutcomes, Exists, TypeOK
  <2>2. CASE KeepsPlace
    BY <2>2, StepKeeps DEF KeepsPlace, KeepsOutcomes
  <2> QED BY <2>1, <2>2, StepKeeps
<1> QED BY <1>1, TypeCorrect, PTL DEF Spec, HistoryKept

-----------------------------------------------------------------------------
(* Rows of a run are numbered by age, and within capacity.                 *)

RowidsByAge ==
  \A r \in Runs : \A a \in RowsOf(r) :
    /\ rows[a].rowid \in 1 .. Cardinality(RowsOf(r))
    /\ \A b \in RowsOf(r) : a # b => rows[a].rowid # rows[b].rowid

LEMMA RowsKept ==
  ASSUME KeepsPlace, NEW r \in Runs
  PROVE  /\ RowsOf(r)' = RowsOf(r)
         /\ \A a \in Attempts : rows'[a].rowid = rows[a].rowid /\ rows'[a].step = rows[a].step
         /\ \A s \in Steps : AttemptsOf(r, s)' = AttemptsOf(r, s)
BY DEF KeepsPlace, RowsOf, Identity, Exists, AttemptsOf

LEMMA RowsBegun ==
  ASSUME TypeOK, NEW r \in Runs, NEW s \in Steps, NEW a \in Attempts,
         NEW p \in Steps \cup {None}, NEW i \in Inputs, Begin(r, s, a, p, i)
  PROVE  /\ RowsOf(r)' = RowsOf(r) \cup {a}
         /\ \A q \in Runs : a \notin RowsOf(q) /\ (q # r => RowsOf(q)' = RowsOf(q))
         /\ \A q \in Runs, t \in Steps :
              AttemptsOf(q, t)' = IF q = r /\ t = s THEN AttemptsOf(r, s) \cup {a}
                                                  ELSE AttemptsOf(q, t)
         /\ Cardinality(RowsOf(r)') = Cardinality(RowsOf(r)) + 1
         /\ \A b \in Attempts \ {a} : rows'[b] = rows[b]
         /\ rows'[a].rowid = Cardinality(RowsOf(r)) + 1
         /\ rows'[a].state = "ready" /\ rows'[a].step = s /\ rows'[a].version = 0
<1>1. /\ \A b \in Attempts \ {a} : rows'[b] = rows[b]
      /\ rows'[a].state = "ready" /\ rows'[a].run = r /\ rows'[a].step = s
      /\ rows'[a].rowid = Cardinality(RowsOf(r)) + 1 /\ rows'[a].version = 0
      /\ rows[a].state = "absent"
  BY DEF Begin, TypeOK, Exists
<1>2. /\ RowsOf(r)' = RowsOf(r) \cup {a}
      /\ \A q \in Runs : a \notin RowsOf(q) /\ (q # r => RowsOf(q)' = RowsOf(q))
  BY <1>1 DEF RowsOf, Exists
<1>3. \A q \in Runs, t \in Steps :
         AttemptsOf(q, t)' = IF q = r /\ t = s THEN AttemptsOf(r, s) \cup {a}
                                             ELSE AttemptsOf(q, t)
  BY <1>1 DEF AttemptsOf, RowsOf, Exists
<1>4. Cardinality(RowsOf(r)') = Cardinality(RowsOf(r)) + 1
  BY <1>2, RowsFinite, FS_AddElement
<1> QED BY <1>1, <1>2, <1>3, <1>4

NewestInv == TypeOK /\ RowidsByAge /\ OnlyNewestOpen

LEMMA NewestNext == NewestInv /\ [Next]_vars => NewestInv'
<1> SUFFICES ASSUME NewestInv, [Next]_vars PROVE NewestInv'
  OBVIOUS
<1> USE DEF NewestInv
<1>1. TypeOK'
  BY TypeNext
<1>2. ASSUME NEW r \in Runs, NEW s \in Steps, NEW a \in Attempts,
             NEW p \in Steps \cup {None}, NEW i \in Inputs, Begin(r, s, a, p, i)
      PROVE  RowidsByAge' /\ OnlyNewestOpen'
  <2> DEFINE n == Cardinality(RowsOf(r))
  <2>1. n \in Nat
    BY RowsFinite
  <2>2. /\ RowsOf(r)' = RowsOf(r) \cup {a} /\ Cardinality(RowsOf(r)') = n + 1
        /\ \A q \in Runs : a \notin RowsOf(q) /\ (q # r => RowsOf(q)' = RowsOf(q))
        /\ \A b \in Attempts \ {a} : rows'[b] = rows[b]
        /\ rows'[a].rowid = n + 1
    BY <1>2, RowsBegun
  <2>3. \A q \in Runs : RowsOf(q) \subseteq Attempts
    BY DEF RowsOf
  <2> HIDE DEF n
  <2>4. RowidsByAge'
    <3> SUFFICES ASSUME NEW q \in Runs, NEW b \in RowsOf(q)'
                 PROVE  /\ rows'[b].rowid \in 1 .. Cardinality(RowsOf(q)')
                        /\ \A c \in RowsOf(q)' : b # c => rows'[b].rowid # rows'[c].rowid
      BY DEF RowidsByAge
    <3>1. CASE q = r
      <4>1. \A c \in RowsOf(r) : rows'[c] = rows[c] /\ rows[c].rowid \in 1 .. n
        BY <2>2, <2>3 DEF RowidsByAge, n
      <4> QED BY <3>1, <4>1, <2>1, <2>2 DEF RowidsByAge
    <3>2. CASE q # r
      BY <3>2, <2>2, <2>3 DEF RowidsByAge
    <3> QED BY <3>1, <3>2
  <2>5. OnlyNewestOpen'
    <3>1. \A q \in Runs, t \in Steps :
             AttemptsOf(q, t)' = IF q = r /\ t = s THEN AttemptsOf(r, s) \cup {a}
                                                 ELSE AttemptsOf(q, t)
      BY <1>2, RowsBegun
    <3>. \A b \in AttemptsOf(r, s) : rows[b].state \in {"failed", "cancelled"}
      BY <1>2 DEF Begin
    <3>2. \A q \in Runs, t \in Steps : \A b \in AttemptsOf(q, t) :
             rows'[b] = rows[b] /\ b \in RowsOf(q)
      BY <2>2, <2>3 DEF AttemptsOf
    <3>3. \A b \in AttemptsOf(r, s) : rows[b].rowid < n + 1
      BY <2>1 DEF RowidsByAge, AttemptsOf, n
    <3> SUFFICES ASSUME NEW q \in Runs, NEW t \in Steps,
                        NEW b \in AttemptsOf(q, t)', NEW c \in AttemptsOf(q, t)', b # c
                 PROVE  \/ /\ rows'[b].rowid < rows'[c].rowid
                           /\ rows'[b].state \in {"failed", "cancelled"}
                        \/ /\ rows'[c].rowid < rows'[b].rowid
                           /\ rows'[c].state \in {"failed", "cancelled"}
      BY DEF OnlyNewestOpen
    <3>4. CASE b # a /\ c # a
      <4>1. b \in AttemptsOf(q, t) /\ c \in AttemptsOf(q, t)
        BY <3>1, <3>4
      <4> QED BY <3>2, <4>1 DEF OnlyNewestOpen
    <3>5. CASE b = a \/ c = a
      <4>1. q = r /\ t = s
        BY <3>1, <3>2, <3>5, <2>2
      <4> QED BY <3>1, <3>2, <3>3, <3>5, <4>1, <2>2
    <3> QED BY <3>4, <3>5
  <2> QED BY <2>4, <2>5
<1>3. CASE KeepsPlace
  <2>1. \A r \in Runs : /\ RowsOf(r)' = RowsOf(r)
                        /\ \A s \in Steps : AttemptsOf(r, s)' = AttemptsOf(r, s)
    BY <1>3, RowsKept
  <2>2. \A r \in Runs : \A a \in RowsOf(r) : rows'[a].rowid = rows[a].rowid
    BY <1>3, RowsKept DEF RowsOf
  <2>3. RowidsByAge'
    BY <2>1, <2>2 DEF RowidsByAge
  <2>4. \A a \in Attempts : rows[a].state \in {"failed", "cancelled"} =>
                            rows'[a].state = rows[a].state
    BY StepKeeps DEF KeepsOutcomes, Terminal
  <2>5. OnlyNewestOpen'
    BY <2>1, <2>2, <2>4 DEF OnlyNewestOpen, AttemptsOf, RowsOf
  <2> QED BY <1>1, <2>3, <2>5
<1> QED BY <1>1, <1>2, <1>3, StepKeeps

LEMMA NewestAlways == Spec => []NewestInv
<1>1. Init => NewestInv
  <2> SUFFICES ASSUME Init PROVE NewestInv
    OBVIOUS
  <2>1. TypeOK
    BY NoRowType DEF Init, TypeOK, RunStatus
  <2>2. \A r \in Runs : RowsOf(r) = {}
    BY DEF Init, RowsOf, Exists, NoRow
  <2> QED BY <2>1, <2>2, FS_EmptySet, JournalConstants
          DEF NewestInv, RowidsByAge, OnlyNewestOpen, AttemptsOf
<1> QED BY <1>1, NewestNext, PTL DEF Spec

(* A completed, unfinished or unknown logical step never acquires another  *)
(* attempt.                                                                *)
THEOREM OneOpenAttempt == Spec => []OnlyNewestOpen
<1>1. NewestInv => OnlyNewestOpen
  BY DEF NewestInv
<1> QED BY <1>1, NewestAlways, PTL

-----------------------------------------------------------------------------
(* The event log.                                                          *)

(* What is told of a row in the log, or changes it: not compaction.        *)
SameHistory(a) ==
  /\ Exists(a)' = Exists(a) /\ rows'[a].run = rows[a].run
  /\ rows'[a].state = rows[a].state /\ rows'[a].version = rows[a].version

(* An event of the present step: the first of an attempt, or the next one, *)
(* and a reconciliation where it settles what was uncertain.               *)
Reports(r, e) ==
  LET a == e.attempt IN
  /\ a \in Attempts /\ a \in RowsOf(r)'
  /\ e.version = rows'[a].version /\ e.state = rows'[a].state
  /\ Exists(a) =>
       /\ a \in RowsOf(r) /\ e.version = rows[a].version + 1
       /\ (rows[a].state \in Uncertain /\ e.state \in Terminal)
            <=> e.kind = "execution_reconciled"

(* A step appends one event for each row it changes, and nothing else.     *)
Appended(r, new) ==
  /\ new \in Seq(Event)
  /\ events' = [events EXCEPT ![r] = @ \o new]
  /\ \A k \in 1 .. Len(new) : Reports(r, new[k])
  /\ \A j, k \in 1 .. Len(new) : new[j].attempt = new[k].attempt => j = k
  /\ \A a \in Attempts : SameHistory(a) \/ \E k \in 1 .. Len(new) : new[k].attempt = a

(* The two properties of the log of a run, of what stands at some places.  *)
LogOK(r, places) ==
  /\ \A k \in places :
       LET e == events[r][k] IN
       /\ e.attempt \in RowsOf(r)
       /\ e.version <= rows[e.attempt].version
       /\ e.version = rows[e.attempt].version => e.state = rows[e.attempt].state
  /\ \A j, k \in places :
       j < k /\ events[r][j].attempt = events[r][k].attempt
         => events[r][j].version < events[r][k].version
  /\ \A a \in RowsOf(r) : \E k \in places :
       events[r][k].attempt = a /\ events[r][k].version = rows[a].version

Inspected(before, after) ==
  before.attempt = after.attempt /\ after.version = before.version + 1
    => ((before.state \in Uncertain /\ after.state \in Terminal)
          <=> after.kind = "execution_reconciled")
InspectedOK(r, places) == \A j, k \in places : Inspected(events[r][j], events[r][k])

LEMMA LogPlaces ==
  ASSUME TypeOK
  PROVE  /\ EventsMatchRows <=> \A r \in Runs : LogOK(r, 1 .. Len(events[r]))
         /\ OnlyInspectionSettles <=> \A r \in Runs : InspectedOK(r, 1 .. Len(events[r]))
<1>1. \A r \in Runs : DOMAIN events[r] = 1 .. Len(events[r])
  BY DEF TypeOK
<1>2. EventsMatchRows <=> \A r \in Runs : LogOK(r, DOMAIN events[r])
  BY Zenon DEF EventsMatchRows, LogOK
<1>3. OnlyInspectionSettles <=> \A r \in Runs : InspectedOK(r, DOMAIN events[r])
  BY Zenon DEF OnlyInspectionSettles, InspectedOK, Inspected
<1> QED BY <1>1, <1>2, <1>3

(* The rows and the events of a run before and after a step.               *)
LEMMA AppendedLog ==
  ASSUME TypeOK, NEW r \in Runs, NEW new, Appended(r, new)
  PROVE  /\ \A q \in Runs : q # r => events'[q] = events[q]
         /\ Len(events[r]) \in Nat /\ Len(new) \in Nat
         /\ Len(events'[r]) = Len(events[r]) + Len(new)
         /\ \A k \in 1 .. Len(events[r]) : events'[r][k] = events[r][k]
         /\ \A k \in 1 .. Len(new) : events'[r][Len(events[r]) + k] = new[k]
         /\ \A k \in 1 .. Len(events'[r]) :
              \/ k \in 1 .. Len(events[r])
              \/ \E i \in 1 .. Len(new) : k = Len(events[r]) + i
<1>1. events[r] \in Seq(Event) /\ new \in Seq(Event)
  BY DEF TypeOK, Appended
<1>2. events' = [events EXCEPT ![r] = events[r] \o new]
  BY DEF Appended
<1>3. events'[r] = events[r] \o new /\ \A q \in Runs : q # r => events'[q] = events[q]
  BY <1>2 DEF TypeOK
<1>4. /\ Len(events[r]) \in Nat /\ Len(new) \in Nat
      /\ Len(events[r] \o new) = Len(events[r]) + Len(new)
  BY <1>1
<1>5. \A k \in 1 .. Len(events[r]) + Len(new) :
        \/ k \in 1 .. Len(events[r])
        \/ \E i \in 1 .. Len(new) : k = Len(events[r]) + i
  <2> SUFFICES ASSUME NEW k \in 1 .. Len(events[r]) + Len(new), k \notin 1 .. Len(events[r])
               PROVE  \E i \in 1 .. Len(new) : k = Len(events[r]) + i
    OBVIOUS
  <2>1. k - Len(events[r]) \in 1 .. Len(new) /\ k = Len(events[r]) + (k - Len(events[r]))
    BY <1>4
  <2> QED BY <2>1
<1> QED BY <1>1, <1>3, <1>4, <1>5

LEMMA AppendedRows ==
  ASSUME TypeOK, NEW r \in Runs, NEW new, Appended(r, new), NEW q \in Runs
  PROVE  /\ RowsOf(q) \subseteq RowsOf(q)'
         /\ \A a \in RowsOf(q)' : SameHistory(a) => a \in RowsOf(q)
         /\ \A a \in RowsOf(q)' :
              ~SameHistory(a) => q = r /\ \E k \in 1 .. Len(new) : new[k].attempt = a
<1>1. ASSUME NEW a \in Attempts, ~SameHistory(a)
      PROVE  /\ a \in RowsOf(r)' /\ \E k \in 1 .. Len(new) : new[k].attempt = a
             /\ Exists(a) => a \in RowsOf(r)
  BY <1>1 DEF Appended, Reports
<1> QED BY <1>1 DEF RowsOf, SameHistory

LogInv == TypeOK /\ EventsMatchRows /\ OnlyInspectionSettles

(* A step that appends what it does keeps the log true.                    *)
LEMMA AppendKeepsLog ==
  ASSUME LogInv, TypeOK', NEW r \in Runs, NEW new, Appended(r, new)
  PROVE  EventsMatchRows' /\ OnlyInspectionSettles'
<1> USE DEF LogInv
<1> DEFINE n == Len(events[r])
           m == Len(new)
           old(k) == events[r][k]
           now(k) == events'[r][k]
<1>1. /\ \A q \in Runs : q # r => events'[q] = events[q]
      /\ n \in Nat /\ m \in Nat /\ Len(events'[r]) = n + m
      /\ \A k \in 1 .. n : now(k) = old(k)
      /\ \A k \in 1 .. m : now(n + k) = new[k]
      /\ \A k \in 1 .. n + m : k \in 1 .. n \/ \E i \in 1 .. m : k = n + i
  BY AppendedLog
<1>2. \A q \in Runs : LogOK(q, 1 .. Len(events[q])) /\ InspectedOK(q, 1 .. Len(events[q]))
  BY LogPlaces
<1>3. \A q \in Runs :
        /\ RowsOf(q) \subseteq RowsOf(q)' /\ RowsOf(q)' \subseteq Attempts
        /\ \A a \in RowsOf(q)' : SameHistory(a) => a \in RowsOf(q)
        /\ \A a \in RowsOf(q)' :
             ~SameHistory(a) => q = r /\ \E k \in 1 .. m : new[k].attempt = a
  BY AppendedRows DEF RowsOf
<1>4. \A q \in Runs : \A k \in 1 .. Len(events[q]) :
        /\ events[q][k] \in Event
        /\ events[q][k].attempt \in RowsOf(q) /\ events[q][k].attempt \in Attempts
        /\ events[q][k].version \in Nat
  <2>1. \A q \in Runs : \A k \in 1 .. Len(events[q]) : events[q][k] \in Event
    BY DEF TypeOK
  <2>2. \A q \in Runs : \A k \in 1 .. Len(events[q]) : events[q][k].attempt \in RowsOf(q)
    BY <1>2 DEF LogOK
  <2> QED BY <2>1, <2>2 DEF Event
<1>5. \A a \in Attempts : rows[a].version \in Nat /\ rows'[a].version \in Nat
  BY DEF TypeOK, Row
<1>6. ASSUME NEW q \in Runs, q # r
      PROVE  LogOK(q, 1 .. Len(events[q]))' /\ InspectedOK(q, 1 .. Len(events[q]))'
  <2>1. events'[q] = events[q]
    BY <1>1, <1>6
  <2>2. RowsOf(q)' = RowsOf(q) /\ \A a \in RowsOf(q) : SameHistory(a)
    BY <1>3, <1>6
  <2>3. LogOK(q, 1 .. Len(events[q]))'
    BY <1>2, <2>1, <2>2 DEF LogOK, SameHistory
  <2>4. InspectedOK(q, 1 .. Len(events[q]))'
    BY <1>2, <2>1 DEF InspectedOK
  <2> QED BY <2>3, <2>4
(* An event that was there is older than an event of its attempt that is   *)
(* new, and is the last one before if it is its predecessor.               *)
<1>7. ASSUME NEW j \in 1 .. n, NEW i \in 1 .. m, old(j).attempt = new[i].attempt
      PROVE  old(j).version < new[i].version /\ Inspected(old(j), new[i])
  <2> DEFINE a == new[i].attempt
  <2>1. a \in RowsOf(r) /\ Exists(a) /\ a \in Attempts
    BY <1>4, <1>7 DEF RowsOf
  <2>2. /\ new[i].version = rows[a].version + 1
        /\ (rows[a].state \in Uncertain /\ new[i].state \in Terminal)
             <=> new[i].kind = "execution_reconciled"
    BY <2>1 DEF Appended, Reports
  <2>3. /\ old(j).version <= rows[a].version
        /\ old(j).version = rows[a].version => old(j).state = rows[a].state
    BY <1>2, <1>7 DEF LogOK
  <2>4. old(j).version < new[i].version
    BY <1>4, <1>5, <2>1, <2>2, <2>3
  <2>5. new[i].version = old(j).version + 1 => old(j).state = rows[a].state
    BY <1>4, <1>5, <2>1, <2>2, <2>3
  <2> QED BY <2>2, <2>4, <2>5 DEF Inspected
<1>8. \A i \in 1 .. m :
        /\ new[i].attempt \in RowsOf(r)' /\ new[i].attempt \in Attempts
        /\ new[i].version = rows'[new[i].attempt].version
        /\ new[i].state = rows'[new[i].attempt].state
        /\ new[i].version \in Nat
  BY <1>5 DEF Appended, Reports
<1>9. \A i, k \in 1 .. m : new[i].attempt = new[k].attempt => i = k
  BY DEF Appended
<1>10. ASSUME NEW k \in 1 .. n
       PROVE  /\ old(k).attempt \in RowsOf(r)'
              /\ old(k).version <= rows'[old(k).attempt].version
              /\ old(k).version = rows'[old(k).attempt].version
                   => old(k).state = rows'[old(k).attempt].state
  <2> DEFINE a == old(k).attempt
  <2>1. a \in RowsOf(r) /\ a \in RowsOf(r)'
    BY <1>3, <1>4
  <2>2. /\ old(k).version <= rows[a].version
        /\ old(k).version = rows[a].version => old(k).state = rows[a].state
    BY <1>2 DEF LogOK
  <2>3. CASE SameHistory(a)
    BY <2>1, <2>2, <2>3 DEF SameHistory
  <2>4. CASE ~SameHistory(a)
    <3>1. PICK i \in 1 .. m : new[i].attempt = a
      BY <1>3, <2>1, <2>4
    <3>2. old(k).version < rows'[a].version
      BY <1>7, <1>8, <3>1
    <3> QED BY <1>4, <1>5, <1>8, <3>1, <3>2, <2>1
  <2> QED BY <2>3, <2>4
<1> HIDE DEF n, m, old, now
<1>11. \A k \in 1 .. n + m :
         /\ now(k).attempt \in RowsOf(r)'
         /\ now(k).version <= rows'[now(k).attempt].version
         /\ now(k).version = rows'[now(k).attempt].version
              => now(k).state = rows'[now(k).attempt].state
  <2> SUFFICES ASSUME NEW k \in 1 .. n + m
               PROVE  /\ now(k).attempt \in RowsOf(r)'
                      /\ now(k).version <= rows'[now(k).attempt].version
                      /\ now(k).version = rows'[now(k).attempt].version
                           => now(k).state = rows'[now(k).attempt].state
    OBVIOUS
  <2>1. CASE k \in 1 .. n
    BY <2>1, <1>1, <1>10
  <2>2. CASE \E i \in 1 .. m : k = n + i
    <3>1. PICK i \in 1 .. m : k = n + i
      BY <2>2
    <3> QED BY <3>1, <1>1, <1>8
  <2> QED BY <2>1, <2>2, <1>1
<1>12. ASSUME NEW j \in 1 .. n + m, NEW k \in 1 .. n + m, now(j).attempt = now(k).attempt
       PROVE  (j < k => now(j).version < now(k).version) /\ Inspected(now(j), now(k))
  <2>1. CASE j \in 1 .. n /\ k \in 1 .. n
    <3>1. now(j) = old(j) /\ now(k) = old(k)
      BY <2>1, <1>1
    <3> QED BY <1>2, <1>12, <2>1, <3>1 DEF LogOK, InspectedOK, n, old
  <2>2. ASSUME j \in 1 .. n, NEW i \in 1 .. m, k = n + i
        PROVE  (j < k => now(j).version < now(k).version) /\ Inspected(now(j), now(k))
    <3>1. now(j) = old(j) /\ now(k) = new[i]
      BY <2>2, <1>1
    <3> QED BY <1>7, <1>12, <2>2, <3>1
  <2>3. ASSUME NEW i \in 1 .. m, j = n + i, k \in 1 .. n
        PROVE  (j < k => now(j).version < now(k).version) /\ Inspected(now(j), now(k))
    <3>1. now(j) = new[i] /\ now(k) = old(k) /\ ~(j < k)
      BY <2>3, <1>1
    <3>2. old(k).version < new[i].version /\ new[i].version \in Nat
      BY <1>7, <1>8, <1>12, <2>3, <3>1
    <3>3. old(k).version \in Nat
      BY <1>4, <2>3 DEF n, old
    <3>4. old(k).version # new[i].version + 1
      BY <3>2, <3>3
    <3> QED BY <3>1, <3>4 DEF Inspected
  <2>4. ASSUME NEW i \in 1 .. m, NEW l \in 1 .. m, j = n + i, k = n + l
        PROVE  (j < k => now(j).version < now(k).version) /\ Inspected(now(j), now(k))
    <3>1. now(j) = new[i] /\ now(k) = new[l]
      BY <2>4, <1>1
    <3>2. i = l
      BY <1>9, <1>12, <3>1
    <3>3. ~(j < k) /\ now(k).version \in Nat /\ now(j) = now(k)
      BY <1>1, <1>8, <2>4, <3>1, <3>2
    <3>4. now(k).version # now(k).version + 1
      BY <3>3
    <3> QED BY <3>3, <3>4 DEF Inspected
  <2> QED BY <2>1, <2>2, <2>3, <2>4, <1>1
<1>13. ASSUME NEW a \in RowsOf(r)'
       PROVE  \E k \in 1 .. n + m : now(k).attempt = a /\ now(k).version = rows'[a].version
  <2>1. CASE SameHistory(a)
    <3>1. PICK k \in 1 .. n : old(k).attempt = a /\ old(k).version = rows[a].version
      BY <1>2, <1>3, <1>13, <2>1 DEF LogOK, n, old
    <3>2. k \in 1 .. n + m /\ now(k) = old(k) /\ rows'[a].version = rows[a].version
      BY <1>1, <2>1, <3>1 DEF SameHistory
    <3> QED BY <3>1, <3>2
  <2>2. CASE ~SameHistory(a)
    <3>1. PICK i \in 1 .. m : new[i].attempt = a
      BY <1>3, <1>13, <2>2
    <3>2. n + i \in 1 .. n + m /\ now(n + i) = new[i]
      BY <1>1, <3>1
    <3> QED BY <1>8, <3>1, <3>2
  <2> QED BY <2>1, <2>2
<1>14. LogOK(r, 1 .. Len(events[r]))' /\ InspectedOK(r, 1 .. Len(events[r]))'
  <2>1. LogOK(r, 1 .. Len(events[r]))'
    BY <1>1, <1>11, <1>12, <1>13 DEF LogOK, now
  <2>2. InspectedOK(r, 1 .. Len(events[r]))'
    <3> SUFFICES ASSUME NEW j \in 1 .. n + m, NEW k \in 1 .. n + m
                 PROVE  Inspected(now(j), now(k))
      BY <1>1 DEF InspectedOK, now
    <3> QED BY <1>12 DEF Inspected
  <2> QED BY <2>1, <2>2
<1>15. \A q \in Runs : LogOK(q, DOMAIN events[q])' /\ InspectedOK(q, DOMAIN events[q])'
  <2>1. \A q \in Runs : DOMAIN events'[q] = 1 .. Len(events'[q])
    BY DEF TypeOK
  <2> QED BY <1>6, <1>14, <2>1
<1>16. EventsMatchRows'
  BY <1>15, Zenon DEF EventsMatchRows, LogOK
<1>17. OnlyInspectionSettles'
  BY <1>15, Zenon DEF OnlyInspectionSettles, InspectedOK, Inspected
<1> QED BY <1>16, <1>17

(* The step of one row, and what it may say of the row.                    *)
LEMMA MoveAppends ==
  ASSUME TypeOK, NEW r \in Runs, NEW a \in RowsOf(r), NEW s \in States,
         NEW res \in Results \cup {None},
         NEW kind \in {"execution_step", "execution_reconciled"},
         Move(r, a, s, res, kind),
         (rows[a].state \in Uncertain /\ s \in Terminal) <=> kind = "execution_reconciled"
  PROVE  \E new : Appended(r, new)
<1> DEFINE row == Moved(rows[a], s, res)
           e == EventOf(a, row, kind)
           new == <<e>>
<1>1. /\ a \in Attempts /\ rows[a] \in Row /\ rows[a].run = r /\ Exists(a)
      /\ s # "absent"
  BY DEF RowsOf, TypeOK, States, Pending, Dispatched, Uncertain, Terminal
<1>2. /\ row \in Row /\ row.state = s /\ row.version = rows[a].version + 1
      /\ row.run = rows[a].run
  BY <1>1, MovedType DEF Identity
<1>3. /\ e \in Event /\ e.attempt = a /\ e.state = s /\ e.kind = kind
      /\ e.version = rows[a].version + 1
  BY <1>1, <1>2, EventType
<1>4. rows' = [rows EXCEPT ![a] = row] /\ events' = [events EXCEPT ![r] = Append(@, e)]
  BY DEF Move, Log
<1> HIDE DEF row, e
<1>5. rows'[a] = row /\ \A b \in Attempts : b # a => rows'[b] = rows[b]
  BY <1>1, <1>4 DEF TypeOK
<1>6. new \in Seq(Event) /\ Len(new) = 1 /\ new[1] = e
  BY <1>3
<1>7. events' = [events EXCEPT ![r] = @ \o new]
  <2>1. Append(events[r], e) = events[r] \o new
    BY <1>3, AppendIsConcat DEF TypeOK
  <2> QED BY <1>4, <2>1
<1>8. Reports(r, e)
  BY <1>1, <1>2, <1>3, <1>5 DEF Reports, RowsOf, Exists
<1>9. \A b \in Attempts : SameHistory(b) \/ b = a
  BY <1>5 DEF SameHistory, Exists
<1> HIDE DEF new
<1>10. Appended(r, new)
  BY <1>3, <1>6, <1>7, <1>8, <1>9 DEF Appended
<1> QED BY <1>10

LEMMA BeginAppends ==
  ASSUME TypeOK, NEW r \in Runs, NEW s \in Steps, NEW a \in Attempts,
         NEW p \in Steps \cup {None}, NEW i \in Inputs, Begin(r, s, a, p, i)
  PROVE  \E new : Appended(r, new)
<1> DEFINE row == [ run |-> r, step |-> s, parent |-> p, input |-> i,
                    state |-> "ready", version |-> 0, result |-> NoResult,
                    rowid |-> Cardinality(RowsOf(r)) + 1 ]
           e == EventOf(a, row, "execution_step")
           new == <<e>>
<1>1. row \in Row /\ row.state = "ready" /\ row.version = 0 /\ row.run = r
  BY RowsFinite DEF Row, NoResult, Stored, States, Pending
<1>2. ~Exists(a)
  BY DEF Begin
<1>3. rows' = [rows EXCEPT ![a] = row] /\ events' = [events EXCEPT ![r] = Append(@, e)]
  BY DEF Begin, Log
<1> HIDE DEF row
<1>4. e \in Event /\ e.attempt = a /\ e.state = "ready" /\ e.version = 0
  BY <1>1, EventType
<1> HIDE DEF e
<1>5. rows'[a] = row /\ \A b \in Attempts : b # a => rows'[b] = rows[b]
  BY <1>3 DEF TypeOK
<1>6. new \in Seq(Event) /\ Len(new) = 1 /\ new[1] = e
  BY <1>4
<1>7. events' = [events EXCEPT ![r] = @ \o new]
  <2>1. Append(events[r], e) = events[r] \o new
    BY <1>4, AppendIsConcat DEF TypeOK
  <2> QED BY <1>3, <2>1
<1>8. Reports(r, e)
  BY <1>1, <1>2, <1>4, <1>5 DEF Reports, RowsOf, Exists
<1>9. \A b \in Attempts : SameHistory(b) \/ b = a
  BY <1>5 DEF SameHistory, Exists
<1> HIDE DEF new
<1>10. Appended(r, new)
  BY <1>4, <1>6, <1>7, <1>8, <1>9 DEF Appended
<1> QED BY <1>10

LEMMA RecoverAppends ==
  ASSUME TypeOK, NEW r \in Runs, RecoverInterrupted(r)
  PROVE  \E new : Appended(r, new)
<1>0. PICK n \in Nat : \E order \in [1 .. n -> Lost(r)] :
        /\ \A a \in Lost(r) : \E k \in 1 .. n : order[k] = a
        /\ \A j, k \in 1 .. n : order[j] = order[k] => j = k
        /\ Batch(order, n) \in Seq(Event)
        /\ events' = [events EXCEPT ![r] = @ \o Batch(order, n)]
  BY RecoverShape
<1>1. PICK order \in [1 .. n -> Lost(r)] :
        /\ \A a \in Lost(r) : \E k \in 1 .. n : order[k] = a
        /\ \A j, k \in 1 .. n : order[j] = order[k] => j = k
        /\ Batch(order, n) \in Seq(Event)
        /\ events' = [events EXCEPT ![r] = @ \o Batch(order, n)]
  BY <1>0
<1>2. \A a \in Attempts :
        rows'[a] = IF a \in Lost(r) THEN Moved(rows[a], LostState, None) ELSE rows[a]
  BY RecoverShape
<1> DEFINE new == Batch(order, n)
<1>3. ASSUME NEW a \in Lost(r)
      PROVE  /\ a \in Attempts /\ a \in RowsOf(r) /\ Exists(a) /\ rows[a].run = r
             /\ rows[a].state \notin Uncertain
             /\ rows'[a] \in Row /\ rows'[a].state = "outcome_unknown"
             /\ rows'[a].run = r /\ rows'[a].version = rows[a].version + 1
  <2>1. rows[a] \in Row /\ "outcome_unknown" \in States /\ None \in Results \cup {None}
    BY DEF Lost, RowsOf, TypeOK, States, Uncertain
  <2>2. /\ a \in Attempts /\ a \in RowsOf(r) /\ Exists(a) /\ rows[a].run = r
        /\ rows[a].state \notin Uncertain
    BY DEF Lost, RowsOf, Dispatched, Uncertain
  <2> QED BY <1>2, <2>1, <2>2, MovedType DEF Identity
<1>4. ASSUME NEW k \in 1 .. n
      PROVE  /\ order[k] \in Lost(r)
             /\ new[k] = EventOf(order[k], rows'[order[k]], "execution_step")
             /\ new[k].attempt = order[k] /\ new[k].state = "outcome_unknown"
             /\ new[k].version = rows'[order[k]].version /\ new[k].kind = "execution_step"
  <2>1. order[k] \in Lost(r)
    OBVIOUS
  <2>2. new[k] = EventOf(order[k], rows'[order[k]], "execution_step")
    BY <1>2, <1>3, <2>1 DEF Batch
  <2> QED BY <1>3, <2>1, <2>2, EventType
<1>5. Len(new) = n
  BY DEF Batch
<1> HIDE DEF new
<1>6. \A k \in 1 .. n : Reports(r, new[k])
  <2> SUFFICES ASSUME NEW k \in 1 .. n PROVE Reports(r, new[k])
    OBVIOUS
  <2>1. order[k] \in RowsOf(r)'
    BY <1>3, <1>4 DEF RowsOf, Exists
  <2>2. "outcome_unknown" \notin Terminal
    BY DEF Terminal
  <2> QED BY <1>3, <1>4, <2>1, <2>2 DEF Reports
<1>7. \A j, k \in 1 .. n : new[j].attempt = new[k].attempt => j = k
  BY <1>1, <1>4
<1>8. \A a \in Attempts : SameHistory(a) \/ \E k \in 1 .. n : new[k].attempt = a
  <2> SUFFICES ASSUME NEW a \in Attempts, ~SameHistory(a)
               PROVE  \E k \in 1 .. n : new[k].attempt = a
    OBVIOUS
  <2>1. a \in Lost(r)
    BY <1>2 DEF SameHistory, Exists
  <2> QED BY <1>1, <1>4, <2>1
<1>9. Appended(r, new)
  BY <1>1, <1>5, <1>6, <1>7, <1>8 DEF Appended, new
<1> QED BY <1>9

LEMMA LogNext == LogInv /\ [Next]_vars => LogInv'
<1> SUFFICES ASSUME LogInv, [Next]_vars PROVE LogInv'
  OBVIOUS
<1>1. TypeOK /\ TypeOK'
  BY TypeNext DEF LogInv
<1>2. ASSUME NEW r \in Runs, \E new : Appended(r, new)
      PROVE  LogInv'
  BY <1>1, <1>2, AppendKeepsLog DEF LogInv
<1>3. ASSUME UNCHANGED events, \A a \in Attempts : SameHistory(a)
      PROVE  LogInv'
  <2>1. \A r \in Runs : RowsOf(r)' = RowsOf(r)
    BY <1>3 DEF RowsOf, SameHistory
  <2>2. \A r \in Runs : \A a \in RowsOf(r) : a \in Attempts
    BY DEF RowsOf
  <2>3. \A r \in Runs : LogOK(r, DOMAIN events[r])
    BY Zenon DEF LogInv, EventsMatchRows, LogOK
  <2>4. \A r \in Runs : LogOK(r, DOMAIN events[r])'
    BY <1>3, <2>1, <2>2, <2>3 DEF LogOK, SameHistory
  <2>5. EventsMatchRows'
    BY <2>4, Zenon DEF EventsMatchRows, LogOK
  <2>6. OnlyInspectionSettles'
    BY <1>3 DEF LogInv, OnlyInspectionSettles
  <2> QED BY <1>1, <2>5, <2>6 DEF LogInv
<1>4. ASSUME NEW r \in Runs, NEW s \in Steps, NEW a \in Attempts,
             NEW p \in Steps \cup {None}, NEW i \in Inputs, Begin(r, s, a, p, i)
      PROVE  LogInv'
  BY <1>1, <1>2, <1>4, BeginAppends
(* What is uncertain may only become more so.                              *)
<1>5. ASSUME NEW r \in Runs, NEW a \in Attempts, NEW s \in States,
             NEW res \in Results \cup {None}, Transition(r, a, s, res)
      PROVE  LogInv'
  <2>1. /\ a \in RowsOf(r) /\ s \in Allowed[rows[a].state] /\ rows[a].state \in States
        /\ Move(r, a, s, res, "execution_step")
    BY <1>1, <1>5 DEF Transition, RowsOf, Exists, TypeOK, Row
  <2>2. ~(rows[a].state \in Uncertain /\ s \in Terminal)
    BY <2>1 DEF Allowed, TransitionTable, FromReady, States, Pending, Dispatched,
                Uncertain, Terminal
  <2> QED BY <1>1, <1>2, <2>1, <2>2, MoveAppends
<1>6. ASSUME NEW r \in Runs, NEW a \in Attempts, NEW s \in Terminal,
             NEW res \in Results \cup {None}, Reconcile(r, a, s, res)
      PROVE  LogInv'
  <2>1. /\ a \in RowsOf(r) /\ rows[a].state \in Uncertain /\ s \in States
        /\ Move(r, a, s, res, "execution_reconciled")
    BY <1>6 DEF Reconcile, States
  <2> QED BY <1>1, <1>2, <2>1, MoveAppends
<1>7. ASSUME NEW r \in Runs, RecoverInterrupted(r)
      PROVE  LogInv'
  BY <1>1, <1>2, <1>7, RecoverAppends
<1>8. ASSUME NEW r \in Runs, NEW keep \in 0 .. MaxSteps, Compact(r, keep)
      PROVE  LogInv'
  <2>1. \A a \in Attempts : SameHistory(a)
    BY <1>1, <1>8, CompactShape DEF SameHistory, Exists, Identity
  <2> QED BY <1>3, <1>8, <2>1 DEF Compact
<1>9. ASSUME NEW r \in Runs, UpdateRun(r)
      PROVE  LogInv'
  BY <1>3, <1>9 DEF UpdateRun, SameHistory, Exists
<1>10. CASE UNCHANGED vars
  BY <1>3, <1>10 DEF vars, SameHistory, Exists
<1> QED BY <1>4, <1>5, <1>6, <1>7, <1>8, <1>9, <1>10, Zenon DEF Next

LEMMA LogAlways == Spec => []LogInv
<1>1. Init => LogInv
  <2> SUFFICES ASSUME Init PROVE LogInv
    OBVIOUS
  <2>1. TypeOK
    BY NoRowType DEF Init, TypeOK, RunStatus
  <2>2. \A r \in Runs : RowsOf(r) = {} /\ DOMAIN events[r] = {}
    BY DEF Init, RowsOf, Exists, NoRow
  <2> QED BY <2>1, <2>2 DEF LogInv, EventsMatchRows, OnlyInspectionSettles
<1> QED BY <1>1, LogNext, PTL DEF Spec

(* The event log of a run is the history of its rows, whatever calls are   *)
(* made, repeated or refused.                                              *)
THEOREM LogIsHistory == Spec => []EventsMatchRows
<1>1. LogInv => EventsMatchRows
  BY DEF LogInv
<1> QED BY <1>1, LogAlways, PTL

(* What was unknown is settled by a reconciliation, and only what was      *)
(* unknown is: no late report and no recovery resolves it.                 *)
THEOREM InspectionsSettle == Spec => []OnlyInspectionSettles
<1>1. LogInv => OnlyInspectionSettles
  BY DEF LogInv
<1> QED BY <1>1, LogAlways, PTL

-----------------------------------------------------------------------------
(* The journal implements LogicalSteps.                                    *)

Abandoned == {"failed", "cancelled"}

(* No step is contested where only the newest attempt may count.           *)
LEMMA NotContested ==
  ASSUME OnlyNewestOpen
  PROVE  LogicalPhase = [r \in Runs |-> [s \in Steps |-> PhaseIn(StatesOf(r, s))]]
BY DEF LogicalPhase, Contested, OnlyNewestOpen

LEMMA NotContestedNext ==
  ASSUME OnlyNewestOpen'
  PROVE  LogicalPhase' = [r \in Runs |-> [s \in Steps |-> PhaseIn(StatesOf(r, s)')]]
BY DEF LogicalPhase, Contested, OnlyNewestOpen

LEMMA PhaseOfAbandoned ==
  ASSUME NEW S, S \subseteq Abandoned
  PROVE  PhaseIn(S) = "none"
BY DEF PhaseIn, Abandoned, Uncertain, Dispatched, Pending

(* A step with one attempt that is not abandoned is where that attempt is. *)
LEMMA PhaseOfOpen ==
  ASSUME NEW S, NEW x \in S, S \subseteq {x} \cup Abandoned
  PROVE  PhaseIn(S) = PhaseIn({x})
BY DEF PhaseIn, Abandoned, Uncertain, Dispatched, Pending

LEMMA PhaseOfOne ==
  ASSUME NEW x
  PROVE  /\ x = "completed" => PhaseIn({x}) = "done"
         /\ x \in Uncertain => PhaseIn({x}) = "unknown"
         /\ x \in Dispatched => PhaseIn({x}) = "dispatched"
         /\ x \in Pending => PhaseIn({x}) = "ready"
         /\ x \in Abandoned => PhaseIn({x}) = "none"
BY DEF PhaseIn, Abandoned, Uncertain, Dispatched, Pending

(* A transition moves the phase of its step as LogicalSteps allows.        *)
LEMMA AllowedMoves ==
  ASSUME NEW x \in States, NEW y \in States,
         \/ y \in Allowed[x]
         \/ x \in Uncertain /\ y \in Terminal
  PROVE  \/ PhaseIn({y}) = PhaseIn({x})
         \/ <<PhaseIn({x}), PhaseIn({y})>> \in Abstract!Moves
<1>1. CASE x \in Uncertain /\ y \in Terminal
  BY <1>1, PhaseOfOne DEF Terminal, Abandoned, Abstract!Moves
<1>2. CASE y \in Allowed[x]
  <2>1. CASE x \in Pending
    BY <1>2, <2>1, PhaseOfOne
       DEF Allowed, TransitionTable, FromReady, States, Pending, Dispatched, Uncertain, Terminal, Abandoned, Abstract!Moves
  <2>2. CASE x \in Dispatched
    BY <1>2, <2>2, PhaseOfOne
       DEF Allowed, TransitionTable, FromReady, States, Pending, Dispatched, Uncertain, Terminal, Abandoned, Abstract!Moves
  <2>3. CASE x \in Uncertain
    BY <1>2, <2>3, PhaseOfOne
       DEF Allowed, TransitionTable, FromReady, States, Pending, Dispatched, Uncertain, Terminal, Abandoned, Abstract!Moves
  <2>4. CASE x \in Terminal
    BY <1>2, <2>4, AllowedIsOpen
  <2> QED BY <2>1, <2>2, <2>3, <2>4 DEF States
<1> QED BY <1>1, <1>2

LEMMA PhaseIsPhase ==
  ASSUME NEW S
  PROVE  PhaseIn(S) \in Abstract!Phases
BY DEF PhaseIn, Abstract!Phases

(* One attempt of a step, the only one not abandoned, moves from x to y.   *)
LEMMA MoveRefines ==
  ASSUME NewestInv, OnlyNewestOpen', KeepsPlace, NEW r \in Runs, NEW a \in RowsOf(r),
         NEW y \in States,
         \/ y \in Allowed[rows[a].state]
         \/ rows[a].state \in Uncertain /\ y \in Terminal,
         rows'[a].state = y,
         \A b \in Attempts \ {a} : rows'[b] = rows[b]
  PROVE  [Abstract!Next]_LogicalPhase
<1>0. /\ LogicalPhase = [q \in Runs |-> [t \in Steps |-> PhaseIn(StatesOf(q, t))]]
      /\ LogicalPhase' = [q \in Runs |-> [t \in Steps |-> PhaseIn(StatesOf(q, t)')]]
  BY NotContested, NotContestedNext DEF NewestInv
<1> DEFINE x == rows[a].state
<1>1. x \in States
  BY DEF NewestInv, TypeOK, RowsOf, Exists, Row
<1>2. \/ PhaseIn({y}) = PhaseIn({x})
      \/ <<PhaseIn({x}), PhaseIn({y})>> \in Abstract!Moves
  BY <1>1, AllowedMoves
<1>3. x \notin Abandoned
  BY <1>1, AllowedIsOpen DEF Abandoned, Terminal, Uncertain
<1>4. \A q \in Runs, t \in Steps : /\ AttemptsOf(q, t)' = AttemptsOf(q, t)
                                  /\ AttemptsOf(q, t) \subseteq Attempts
  BY RowsKept DEF AttemptsOf, RowsOf
<1>5. \A q \in Runs, t \in Steps :
        a \notin AttemptsOf(q, t) => StatesOf(q, t)' = StatesOf(q, t)
  BY <1>4 DEF StatesOf
<1>6. \A q \in Runs, t \in Steps : a \in AttemptsOf(q, t) => q = r /\ t = rows[a].step
  BY DEF AttemptsOf, RowsOf
<1>7. CASE rows[a].step \in Steps
  <2> PICK s \in Steps : s = rows[a].step
    BY <1>7
  <2>1. a \in AttemptsOf(r, s)
    BY DEF AttemptsOf
  <2>2. \A b \in AttemptsOf(r, s) : b # a => rows[b].state \in Abandoned
    BY <1>3, <1>7, <2>1 DEF NewestInv, OnlyNewestOpen, Abandoned
  <2>3. StatesOf(r, s) \subseteq {x} \cup Abandoned /\ x \in StatesOf(r, s)
    BY <2>1, <2>2 DEF StatesOf
  <2>4. StatesOf(r, s)' \subseteq {y} \cup Abandoned /\ y \in StatesOf(r, s)'
    BY <1>4, <1>7, <2>1, <2>2 DEF StatesOf
  <2>5. PhaseIn(StatesOf(r, s)) = PhaseIn({x}) /\ PhaseIn(StatesOf(r, s)') = PhaseIn({y})
    BY <2>3, <2>4, PhaseOfOpen
  <2> HIDE DEF x
  <2>6. \A q \in Runs, t \in Steps : q # r \/ t # s =>
          PhaseIn(StatesOf(q, t)') = PhaseIn(StatesOf(q, t))
    BY <1>5, <1>6
  <2>7. LogicalPhase' = [LogicalPhase EXCEPT ![r][s] = PhaseIn({y})]
    <3> DEFINE old(q, t) == PhaseIn(StatesOf(q, t))
               new(q, t) == PhaseIn(StatesOf(q, t)')
               next == [q \in Runs |-> [t \in Steps |-> new(q, t)]]
               changed == [LogicalPhase EXCEPT ![r][s] = PhaseIn({y})]
    <3>1. new(r, s) = PhaseIn({y}) /\ \A q \in Runs, t \in Steps : q # r \/ t # s => new(q, t) = old(q, t)
      BY <2>5, <2>6
    <3>2. LogicalPhase = [q \in Runs |-> [t \in Steps |-> old(q, t)]] /\ LogicalPhase' = next
      BY <1>0
    <3> HIDE DEF old, new
    <3>3. \A q \in Runs : next[q] = changed[q]
      BY <3>1, <3>2
    <3>4. next = [q \in Runs |-> next[q]] /\ changed = [q \in Runs |-> changed[q]]
      BY <3>2
    <3> HIDE DEF next, changed
    <3>5. next = changed
      BY <3>3, <3>4
    <3> QED BY <3>2, <3>5 DEF changed
  <2>8. LogicalPhase[r][s] = PhaseIn({x})
    BY <1>0, <1>7, <2>5
  <2>9. CASE PhaseIn({y}) = PhaseIn({x})
    <3>1. LogicalPhase' = LogicalPhase
      BY <1>0, <1>7, <2>5, <2>6, <2>9
    <3> QED BY <3>1
  <2>10. CASE <<PhaseIn({x}), PhaseIn({y})>> \in Abstract!Moves
    <3>1. Abstract!Step(r, s)
      BY <2>7, <2>8, <2>10, PhaseIsPhase DEF Abstract!Step
    <3> QED BY <3>1, <1>7 DEF Abstract!Next
  <2> QED BY <1>2, <2>9, <2>10
<1>8. CASE rows[a].step \notin Steps
  BY <1>0, <1>5, <1>6, <1>8
<1> QED BY <1>7, <1>8

(* Where no state of any attempt changes, no phase does.                   *)
LEMMA StillRefines ==
  ASSUME OnlyNewestOpen, OnlyNewestOpen', KeepsPlace,
         \A a \in Attempts : rows'[a].state = rows[a].state
  PROVE  LogicalPhase' = LogicalPhase
<1>1. \A q \in Runs, t \in Steps : /\ AttemptsOf(q, t)' = AttemptsOf(q, t)
                                  /\ AttemptsOf(q, t) \subseteq Attempts
  BY RowsKept DEF AttemptsOf, RowsOf
<1>2. \A q \in Runs, t \in Steps : StatesOf(q, t)' = StatesOf(q, t)
  BY <1>1 DEF StatesOf
<1> QED BY <1>2, NotContested, NotContestedNext

(* An intent opens a step whose earlier attempts are all abandoned.        *)
LEMMA BeginRefines ==
  ASSUME NewestInv, OnlyNewestOpen', NEW r \in Runs, NEW s \in Steps, NEW a \in Attempts,
         NEW p \in Steps \cup {None}, NEW i \in Inputs, Begin(r, s, a, p, i)
  PROVE  Abstract!Next
<1>. TypeOK /\ OnlyNewestOpen
  BY DEF NewestInv
<1>1. /\ \A q \in Runs, t \in Steps :
           AttemptsOf(q, t)' = IF q = r /\ t = s THEN AttemptsOf(r, s) \cup {a}
                                               ELSE AttemptsOf(q, t)
      /\ \A q \in Runs : a \notin RowsOf(q)
      /\ \A b \in Attempts \ {a} : rows'[b] = rows[b]
      /\ rows'[a].state = "ready"
  BY RowsBegun
<1>2. \A q \in Runs, t \in Steps : AttemptsOf(q, t) \subseteq Attempts \ {a}
  BY <1>1 DEF AttemptsOf, RowsOf
<1>3. \A q \in Runs, t \in Steps :
        q # r \/ t # s => PhaseIn(StatesOf(q, t)') = PhaseIn(StatesOf(q, t))
  <2> SUFFICES ASSUME NEW q \in Runs, NEW t \in Steps, q # r \/ t # s
               PROVE  StatesOf(q, t)' = StatesOf(q, t)
    OBVIOUS
  <2>1. AttemptsOf(q, t)' = AttemptsOf(q, t)
    BY <1>1
  <2>2. \A b \in AttemptsOf(q, t) : rows'[b] = rows[b]
    BY <1>1, <1>2
  <2> QED BY <2>1, <2>2 DEF StatesOf
<1>4. StatesOf(r, s) \subseteq Abandoned
  BY DEF Begin, Retryable, StatesOf, Abandoned
<1>5. StatesOf(r, s)' \subseteq {"ready"} \cup Abandoned /\ "ready" \in StatesOf(r, s)'
  BY <1>1, <1>2, <1>4 DEF StatesOf
<1>6. PhaseIn(StatesOf(r, s)) = "none" /\ PhaseIn(StatesOf(r, s)') = "ready"
  BY <1>4, <1>5, PhaseOfAbandoned, PhaseOfOpen, PhaseOfOne DEF Pending
<1> DEFINE old(q, t) == PhaseIn(StatesOf(q, t))
           new(q, t) == PhaseIn(StatesOf(q, t)')
           next == [q \in Runs |-> [t \in Steps |-> new(q, t)]]
           changed == [LogicalPhase EXCEPT ![r][s] = "ready"]
<1>7. new(r, s) = "ready" /\ \A q \in Runs, t \in Steps : q # r \/ t # s => new(q, t) = old(q, t)
  BY <1>3, <1>6
<1>8. LogicalPhase = [q \in Runs |-> [t \in Steps |-> old(q, t)]] /\ LogicalPhase' = next
  BY NotContested, NotContestedNext
<1>9. LogicalPhase[r][s] = "none"
  BY <1>6, NotContested
<1> HIDE DEF old, new
<1>10. \A q \in Runs : next[q] = changed[q]
  BY <1>7, <1>8
<1>11. next = [q \in Runs |-> next[q]] /\ changed = [q \in Runs |-> changed[q]]
  BY <1>8
<1> HIDE DEF next, changed
<1>12. LogicalPhase' = [LogicalPhase EXCEPT ![r][s] = "ready"]
  BY <1>8, <1>10, <1>11 DEF changed
<1>13. Abstract!Step(r, s)
  BY <1>9, <1>12 DEF Abstract!Step, Abstract!Moves, Abstract!Phases
<1> QED BY <1>13 DEF Abstract!Next

(* A recovery is a crash of the run: its dispatched steps are unknown at   *)
(* once and no other step moves.                                           *)
LEMMA RecoverRefines ==
  ASSUME NewestInv, OnlyNewestOpen', KeepsPlace, NEW r \in Runs, RecoverInterrupted(r)
  PROVE  Abstract!Next
<1>1. \A a \in Attempts :
        rows'[a] = IF a \in Lost(r) THEN Moved(rows[a], LostState, None) ELSE rows[a]
  BY RecoverShape DEF NewestInv
<1>2. \A a \in Lost(r) : rows'[a].state = "outcome_unknown"
  <2> SUFFICES ASSUME NEW a \in Lost(r) PROVE rows'[a].state = "outcome_unknown"
    OBVIOUS
  <2>1. rows[a] \in Row /\ "outcome_unknown" \in States /\ None \in Results \cup {None}
    BY DEF Lost, RowsOf, NewestInv, TypeOK, States, Uncertain
  <2>2. a \in Attempts
    BY DEF Lost, RowsOf
  <2> QED BY <1>1, <2>1, <2>2, MovedType
<1>3. \A q \in Runs, t \in Steps : /\ AttemptsOf(q, t)' = AttemptsOf(q, t)
                                  /\ AttemptsOf(q, t) \subseteq Attempts
  BY RowsKept DEF AttemptsOf, RowsOf
<1>4. ASSUME NEW q \in Runs, NEW t \in Steps
      PROVE  PhaseIn(StatesOf(q, t)') =
               IF q = r /\ PhaseIn(StatesOf(q, t)) = "dispatched"
               THEN "unknown" ELSE PhaseIn(StatesOf(q, t))
  <2>1. CASE \E a \in AttemptsOf(q, t) : a \in Lost(r)
    <3> PICK a \in AttemptsOf(q, t) : a \in Lost(r)
      BY <2>1
    <3>1. q = r /\ rows[a].state \in Dispatched /\ rows[a].state \notin Abandoned
      BY DEF AttemptsOf, RowsOf, Lost, Dispatched, Abandoned
    <3>2. \A b \in AttemptsOf(q, t) : b # a => rows[b].state \in Abandoned
      BY <3>1 DEF NewestInv, OnlyNewestOpen, Abandoned
    <3>3. \A b \in AttemptsOf(q, t) : b # a => b \notin Lost(r)
      BY <3>2 DEF Lost, Abandoned, Dispatched
    <3>4. /\ StatesOf(q, t) \subseteq {rows[a].state} \cup Abandoned
          /\ rows[a].state \in StatesOf(q, t)
      BY <3>2 DEF StatesOf
    <3>5. /\ StatesOf(q, t)' \subseteq {"outcome_unknown"} \cup Abandoned
          /\ "outcome_unknown" \in StatesOf(q, t)'
      BY <1>1, <1>2, <1>3, <3>2, <3>3 DEF StatesOf
    <3>6. PhaseIn(StatesOf(q, t)) = "dispatched"
      BY <3>1, <3>4, PhaseOfOpen, PhaseOfOne
    <3>7. PhaseIn(StatesOf(q, t)') = "unknown"
      BY <3>5, PhaseOfOpen, PhaseOfOne DEF Uncertain
    <3> QED BY <3>1, <3>6, <3>7
  <2>2. CASE \A a \in AttemptsOf(q, t) : a \notin Lost(r)
    <3>1. StatesOf(q, t)' = StatesOf(q, t)
      BY <1>1, <1>3, <2>2 DEF StatesOf
    <3>2. q = r => StatesOf(q, t) \cap Dispatched = {}
      BY <2>2 DEF StatesOf, Lost, AttemptsOf
    <3>3. q = r => PhaseIn(StatesOf(q, t)) # "dispatched"
      BY <3>2 DEF PhaseIn
    <3> QED BY <3>1, <3>3
  <2> QED BY <2>1, <2>2
<1> DEFINE old(q, t) == PhaseIn(StatesOf(q, t))
           new(q, t) == PhaseIn(StatesOf(q, t)')
           next == [q \in Runs |-> [t \in Steps |-> new(q, t)]]
           crashed == [LogicalPhase EXCEPT ![r] =
                        [t \in Steps |-> IF @[t] = "dispatched" THEN "unknown" ELSE @[t]]]
<1>5. \A q \in Runs, t \in Steps :
        new(q, t) = IF q = r /\ old(q, t) = "dispatched" THEN "unknown" ELSE old(q, t)
  BY <1>4
<1>6. LogicalPhase = [q \in Runs |-> [t \in Steps |-> old(q, t)]] /\ LogicalPhase' = next
  BY NotContested, NotContestedNext DEF NewestInv
<1> HIDE DEF old, new
<1>7. \A q \in Runs : next[q] = crashed[q]
  BY <1>5, <1>6
<1>8. next = [q \in Runs |-> next[q]] /\ crashed = [q \in Runs |-> crashed[q]]
  BY <1>6
<1> HIDE DEF next, crashed
<1>9. LogicalPhase' = crashed
  BY <1>6, <1>7, <1>8
<1>10. Abstract!Crash(r)
  BY <1>9 DEF Abstract!Crash, crashed
<1> QED BY <1>10 DEF Abstract!Next

LEMMA StepRefines ==
  NewestInv /\ NewestInv' /\ [Next]_vars => [Abstract!Next]_LogicalPhase
<1> SUFFICES ASSUME NewestInv, NewestInv', [Next]_vars PROVE [Abstract!Next]_LogicalPhase
  OBVIOUS
<1>0. TypeOK
  BY DEF NewestInv
<1>. OnlyNewestOpen /\ OnlyNewestOpen'
  BY DEF NewestInv
<1>1. ASSUME NEW r \in Runs, NEW s \in Steps, NEW a \in Attempts,
             NEW p \in Steps \cup {None}, NEW i \in Inputs, Begin(r, s, a, p, i)
      PROVE  Abstract!Next
  BY <1>0, <1>1, BeginRefines
<1>2. ASSUME KeepsPlace,
             NEW r \in Runs, NEW a \in Attempts, NEW s \in States,
             NEW res \in Results \cup {None}, Transition(r, a, s, res)
      PROVE  [Abstract!Next]_LogicalPhase
  <2>1. /\ a \in RowsOf(r) /\ s \in Allowed[rows[a].state]
        /\ rows' = [rows EXCEPT ![a] = Moved(rows[a], s, res)]
    BY <1>2 DEF Transition, Move
  <2>2. rows'[a].state = s /\ \A b \in Attempts \ {a} : rows'[b] = rows[b]
    BY <1>0, <2>1, MovedType DEF TypeOK
  <2> QED BY <1>2, <2>1, <2>2, MoveRefines
<1>3. ASSUME KeepsPlace,
             NEW r \in Runs, NEW a \in Attempts, NEW s \in Terminal,
             NEW res \in Results \cup {None}, Reconcile(r, a, s, res)
      PROVE  [Abstract!Next]_LogicalPhase
  <2>1. /\ a \in RowsOf(r) /\ rows[a].state \in Uncertain /\ s \in States
        /\ rows' = [rows EXCEPT ![a] = Moved(rows[a], s, res)]
    BY <1>3 DEF Reconcile, Move, States
  <2>2. rows'[a].state = s /\ \A b \in Attempts \ {a} : rows'[b] = rows[b]
    BY <1>0, <2>1, MovedType DEF TypeOK
  <2> QED BY <1>3, <2>1, <2>2, MoveRefines
<1>4. ASSUME KeepsPlace, NEW r \in Runs, RecoverInterrupted(r)
      PROVE  Abstract!Next
  BY <1>4, RecoverRefines
<1>5. ASSUME KeepsPlace, NEW r \in Runs, NEW keep \in 0 .. MaxSteps, Compact(r, keep)
      PROVE  LogicalPhase' = LogicalPhase
  BY <1>0, <1>5, CompactShape, StillRefines
<1>6. ASSUME KeepsPlace, NEW r \in Runs, UpdateRun(r)
      PROVE  LogicalPhase' = LogicalPhase
  BY <1>6, StillRefines DEF UpdateRun
<1>7. ASSUME KeepsPlace, UNCHANGED vars
      PROVE  LogicalPhase' = LogicalPhase
  BY <1>7, StillRefines DEF vars
<1>8. CASE KeepsPlace
  <2>1. CASE Next
    <3>1. ASSUME NEW r \in Runs, NEW s \in Steps, NEW a \in Attempts,
                 NEW p \in Steps \cup {None}, NEW i \in Inputs, Begin(r, s, a, p, i)
          PROVE  [Abstract!Next]_LogicalPhase
      BY <3>1, <1>1
    <3>2. ASSUME NEW r \in Runs, NEW a \in Attempts, NEW s \in States,
                 NEW res \in Results \cup {None}, Transition(r, a, s, res)
          PROVE  [Abstract!Next]_LogicalPhase
      BY <3>2, <1>2, <1>8
    <3>3. ASSUME NEW r \in Runs, NEW a \in Attempts, NEW s \in Terminal,
                 NEW res \in Results \cup {None}, Reconcile(r, a, s, res)
          PROVE  [Abstract!Next]_LogicalPhase
      BY <3>3, <1>3, <1>8
    <3>4. ASSUME NEW r \in Runs, RecoverInterrupted(r) \/ UpdateRun(r)
          PROVE  [Abstract!Next]_LogicalPhase
      BY <3>4, <1>4, <1>6, <1>8
    <3>5. ASSUME NEW r \in Runs, NEW keep \in 0 .. MaxSteps, Compact(r, keep)
          PROVE  [Abstract!Next]_LogicalPhase
      BY <3>5, <1>5, <1>8
    <3> QED BY <2>1, <3>1, <3>2, <3>3, <3>4, <3>5, Zenon DEF Next
  <2>2. CASE UNCHANGED vars
    BY <2>2, <1>7, <1>8
  <2> QED BY <2>1, <2>2
<1>9. CASE ~KeepsPlace
  BY <1>0, <1>1, <1>9, StepKeeps
<1> QED BY <1>8, <1>9

(* The journal implements LogicalSteps: dispatch only from an intent, done *)
(* for good, unknown until inspected, and all dispatched steps of a run    *)
(* lost together.                                                          *)
THEOREM JournalRefines == Spec => Refines
<1>1. Init => Abstract!Init
  <2> SUFFICES ASSUME Init PROVE Abstract!Init
    OBVIOUS
  <2>1. \A r \in Runs, s \in Steps : StatesOf(r, s) = {}
    BY DEF Init, StatesOf, AttemptsOf, RowsOf, Exists, NoRow
  <2>2. \A r \in Runs, s \in Steps : PhaseIn(StatesOf(r, s)) = "none"
    BY <2>1, PhaseOfAbandoned
  <2>3. OnlyNewestOpen
    BY DEF Init, OnlyNewestOpen, AttemptsOf, RowsOf, Exists, NoRow
  <2> QED BY <2>2, <2>3, NotContested DEF Abstract!Init
<1> QED BY <1>1, StepRefines, NewestAlways, PTL DEF Spec, Refines, Abstract!Spec
=============================================================================
