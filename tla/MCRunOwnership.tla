--------------------------- MODULE MCRunOwnership ---------------------------
(***************************************************************************)
(* Instances and runs on small instances: Ownership*.cfg.                  *)
(***************************************************************************)
EXTENDS RunOwnership, TLC

(* More than one fault only where there is one run.                        *)
FewFaults == faults' > 1 => Cardinality({r \in Runs : status'[r] # "absent"}) <= 1

(* Two runs suffice while somebody cancels.                                *)
FewCancelled ==
  (\E p \in Instances : ctrl'[p].pc \in Cancelling) =>
    Cardinality({r \in Runs : status'[r] # "absent"}) <= 2

Symmetry == Permutations(Instances) \cup Permutations(Runs)
=============================================================================
