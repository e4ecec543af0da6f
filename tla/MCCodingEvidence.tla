--------------------------- MODULE MCCodingEvidence ---------------------------
(* Three parts of a coding run's tools, side by side.                       *)
(*                                                                          *)
(* The evidence, with a small source tree and few test commands.  Beside    *)
(* the run, either the user undoes changes or an outside editor writes:     *)
(* together they can put a source back unnoticed, as VerifiedIsTested says  *)
(* of the editor.  The instance is smaller where the other does not need    *)
(* it: beside an undo, two runs of one command; beside the editor, one edit. *)
(*                                                                          *)
(* The development server, where nothing else happens.  And the pool of MCP *)
(* servers, without what a failure may leave behind where another connection *)
(* takes the place of the first.                                            *)
EXTENDS CodingEvidence, DevServers, McpConnections, TLC

CONSTANT Spelled  \* the commands that are recorded as one of Required

Records == [c \in Commands |-> IF c \in Spelled THEN CHOOSE g \in Required : TRUE ELSE c]

VARIABLE beside

Small ==
  /\ Len(tests) = 2 => agent'.command = Nothing
  /\ agent'.command \in Required \cup {Nothing}

Asked == {tests'[i].asked : i \in DOMAIN tests'} \cup ({agent'.command} \ {Nothing})
OneSpelling == Asked \subseteq Required \cup Spelled \/ Asked \subseteq Commands \ Spelled

SmallPool ==
  LET replaced == \E c \in Links \ {1} : links'[c].status # "absent" IN
  replaced => /\ abandoned' = {} /\ links'[1].users = {}
              /\ \A c \in Links : links'[c].autostart = links'[1].autostart

MCInit ==
  /\ beside \in {"undo", "editor", "servers", "connections"}
  /\ Init /\ ServersInit
  /\ McpInit /\ (beside # "connections" => links[1].autostart)
MCNext ==
  /\ UNCHANGED beside
  /\ \/ /\ beside = "servers"
        /\ ServersNext /\ UNCHANGED <<vars, mcpVars>>
     \/ /\ beside = "connections"
        /\ McpNext /\ SmallPool /\ UNCHANGED <<vars, serverVars>>
     \/ /\ beside \in {"undo", "editor"}
        /\ Next /\ UNCHANGED <<serverVars, mcpVars>>
        /\ beside = "undo" => outside' = outside /\ Small
        /\ beside = "editor" => undo' = undo /\ edits' <= 1 /\ OneSpelling
MCSpec == MCInit /\ [][MCNext]_<<vars, serverVars, mcpVars, beside>>

Symmetry ==
  Permutations(Sources) \cup Permutations(Undoers) \cup Permutations(Commands \ (Required \cup Spelled))
    \cup Permutations(Clients)
=============================================================================
