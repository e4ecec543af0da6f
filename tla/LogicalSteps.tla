---------------------------- MODULE LogicalSteps ----------------------------
(***************************************************************************)
(* What the execution journal promises its callers about a logical step of *)
(* a run, with no attempts, rows or events in sight: a step is dispatched  *)
(* only from a committed intent, a done step is done for good, an unknown  *)
(* step is settled by inspection alone, and a crash makes every dispatched *)
(* step of the run unknown at once, and no other step.                     *)
(***************************************************************************)
CONSTANTS Runs, Steps

VARIABLE phase    \* phase[r][s], the phase of step s of run r

Phases == {"none", "ready", "dispatched", "unknown", "done"}

TypeOK == phase \in [Runs -> [Steps -> Phases]]

Init == phase = [r \in Runs |-> [s \in Steps |-> "none"]]

(* The phase moves one call may make on one step.                          *)
Moves ==
  { <<"none", "ready">>,                                   \* an intent
    <<"ready", "dispatched">>, <<"ready", "none">>,        \* dispatch, withdrawal
    <<"dispatched", "done">>, <<"dispatched", "none">>,    \* a reported outcome
    <<"ready", "unknown">>, <<"dispatched", "unknown">>,   \* a doubted outcome
    <<"unknown", "done">>, <<"unknown", "none">> }         \* an inspected outcome

Step(r, s) ==
  \E p \in Phases :
    /\ <<phase[r][s], p>> \in Moves
    /\ phase' = [phase EXCEPT ![r][s] = p]

Crash(r) ==
  phase' = [phase EXCEPT ![r] =
    [s \in Steps |-> IF @[s] = "dispatched" THEN "unknown" ELSE @[s]]]

Next == \E r \in Runs : Crash(r) \/ \E s \in Steps : Step(r, s)

Spec == Init /\ [][Next]_phase

(* A done step is never dispatched again.                                  *)
DoneIsFinal ==
  [][\A r \in Runs, s \in Steps : phase[r][s] = "done" => phase'[r][s] = "done"]_phase
=============================================================================
