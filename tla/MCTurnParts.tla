----------------------------- MODULE MCTurnParts ------------------------------
(***************************************************************************)
(* The two parts of a run that must come to an end, checked beside each    *)
(* other: a behaviour moves one of them, and the other stays as it starts. *)
(***************************************************************************)
EXTENDS AgentRun, LiveControl

VARIABLE part

MCInit ==
  /\ part \in {"agent", "control"}
  /\ AgentInit /\ (part # "agent" => durable)
  /\ ControlInit /\ (part # "control" => policy = "ask")

MCNext ==
  \/ part = "agent" /\ AgentNext /\ UNCHANGED <<part, controlVars>>
  \/ part = "control" /\ ControlNext /\ UNCHANGED <<part, agentVars>>

(* AgentFairness and ControlFairness, looked at where they matter.         *)
MCFairness ==
  /\ WF_agentVars(part = "agent" /\ (Loop \/ Request \/ Recover \/ CallTools))
  /\ WF_agentVars(part = "agent" /\ TimePasses)
  /\ \A c \in Callers : WF_controlVars(part = "control" /\ CallerStep(c))
MCSpec == MCInit /\ [][MCNext]_<<part, agentVars, controlVars>> /\ MCFairness

=============================================================================
