------------------------- MODULE MCExecutionJournal -------------------------
(***************************************************************************)
(* The journal on small instances: Journal.cfg.                            *)
(***************************************************************************)
EXTENDS ExecutionJournal, TLC

Symmetry == Permutations(Attempts) \cup Permutations(Steps) \cup Permutations(Results)

(* How the events of different attempts interleave guards no action, and   *)
(* no property compares events of different attempts: states that differ   *)
(* in nothing else are explored once.                                      *)
LogView ==
  <<rows, status,
    [a \in Attempts |->
       [r \in Runs |-> SelectSeq(events[r], LAMBDA e : e.attempt = a)]]>>
=============================================================================
