---------------------------- MODULE MCContentParts ----------------------------
(***************************************************************************)
(* Three parts that keep what users and agents made, checked beside each   *)
(* other: a behaviour moves one of them, and the others stay as they start.*)
(***************************************************************************)
EXTENDS IsolatedWorkspaces, Checkpoints, VoiceSessions

VARIABLE part

Parts == <<workspaceVars, checkpointVars, voiceVars>>
Move(name, step, others) == part = name /\ step /\ UNCHANGED <<part, others>>

FirstConversation == CHOOSE s \in Conversations : TRUE
MCInit ==
  /\ part \in {"workspaces", "checkpoints", "voice"}
  /\ WorkspacesInit
  /\ CheckpointsInit /\ (part # "checkpoints" => source = [p \in SourcePaths |-> Absent])
  /\ VoiceInit
  /\ \A v \in Voices :
       voice[v].session = FirstConversation /\ (part # "voice" => ~voice[v].duplex)

(* Bounds that hold together: most behaviours need few of each.  Values   *)
(* that are alike are used in one order.                                   *)
InOrder(values, used) == used # {} => (CHOOSE v \in values : TRUE) \in used
SmallWorkspaces ==
  LET made == {w \in Workspaces : record'[w].state # "none"}
      proposed == {p \in Proposals : proposals'[p] # NoProposal}
      touched == {f \in Files : \/ target'[f] # Original
                                \/ \E w \in Workspaces : tree'[w][f] # Original}
      used == UNION {{target'[f], headTree'[f]} \cup {tree'[w][f] : w \in Workspaces} : f \in Files}
      events == agentEdits' + userEdits' + mergeFaults'
      states == {record'[w].state : w \in made}
      many(some) == Cardinality(some) > 1 IN
  /\ InOrder(Workspaces, made) /\ InOrder(Proposals, proposed)
  /\ InOrder(Versions \ {Original}, used \ {Original})
  /\ agentEdits + userEdits = 0 => InOrder(Files, touched)
  /\ ~many(made) => ~many(proposed) /\ events + Cardinality(used) <= 6
  /\ many(made) =>
       /\ Cardinality(used) <= 2 /\ events <= 2 /\ userEdits' <= 1
       /\ states \cap {"creation_failed_retained", "creation_interrupted_retained", "missing_retained"} = {}
  /\ many(made) /\ many(proposed) =>
       states \subseteq {"ready", "conflict", "awaiting_review", "integrated"}
  /\ "changes_collected" \in states => many(made) /\ events = agentEdits'
SmallCheckpoints == Len(checkpoints') + sourceEdits' <= 5
(* Two tabs share only the devices: what concerns one of them happens while *)
(* it is alone.  An outdated capture beside another tab's costs one more.   *)
SmallVoice ==
  LET turns(v) == voice'[v].generation + voice'[v].ticket
      used == {v \in Voices : turns(v) > 0}
      plain(its) == /\ ~its.busy /\ ~its.closed /\ ~its.review /\ its.queue = 0
                    /\ its.session = FirstConversation IN
  /\ InOrder(Voices, used)
  /\ \A v \in Voices : voice'[v] # voice[v] => v \in used
  /\ Cardinality(used) > 1 =>
       /\ \A u, v \in Voices : u # v => turns(u) + turns(v) <= MaxTurns + 1
       /\ transcripts' = {} /\ \A v \in Voices : plain(voice'[v])

MCNext ==
  \/ Move("workspaces", WorkspacesNext /\ SmallWorkspaces, <<checkpointVars, voiceVars>>)
  \/ Move("checkpoints", CheckpointsNext /\ SmallCheckpoints, <<workspaceVars, voiceVars>>)
  \/ Move("voice", VoiceNext /\ SmallVoice, <<workspaceVars, checkpointVars>>)
MCSpec == MCInit /\ [][MCNext]_<<part, Parts>>

=============================================================================
