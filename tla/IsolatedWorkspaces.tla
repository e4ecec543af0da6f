-------------------------- MODULE IsolatedWorkspaces --------------------------
(***************************************************************************)
(* Worktrees of child agents, and the reviewed merge of their work into    *)
(* the user's checkout (firik_agent/projects/isolated_workspaces.py).      *)
(* Every method holds one lock on the repository, so that only agents (in  *)
(* their worktrees), the user (in the target) and the death of the process *)
(* step in between: an action is one look at a file, one write of a file,  *)
(* one saved record, or the comparison of what a method has seen by then.  *)
(*                                                                         *)
(* A file is the unit in which git finds a conflict, a missing file is one *)
(* of its versions, and a patch digest is the set of its changes.  Left    *)
(* out: modes, links, ignored files, size limits, a worktree filled in     *)
(* part, and the identity of the reviewer, who is not the agent.           *)
(***************************************************************************)
EXTENDS Naturals

CONSTANTS
  Workspaces, Proposals, Files, Versions,
  Original,        \* the version of every file at the start
  User,            \* whoever writes to the target by hand
  MaxAgentEdits,   \* bound: edits and commits of all agents
  MaxUserEdits,    \* bound: edits, commits and discards of the user
  MaxMergeFaults   \* bound: failing writes, failing saves and deaths

ASSUME WorkspaceConstants ==
  /\ Original \in Versions
  /\ User \notin Proposals
  /\ MaxAgentEdits \in Nat /\ MaxUserEdits \in Nat /\ MaxMergeFaults \in Nat

VARIABLES
  target, head, headTree,  \* the user's files, HEAD and its tree
  base, tree, exists, wrev, \* worktree: base commit, files, its directory, commits on top
  record,                  \* the saved record of a workspace
  proposals,               \* the saved proposals
  method,                  \* the method that holds the lock
  author,                  \* history: whose content stands in a target file
  lost, raced,             \* history: files with overwritten edits; edited just before a write
  applied,                 \* history: proposals saved as integrated
  agentEdits, userEdits, mergeFaults

targetVars == <<target, head, headTree, author, lost, raced>>
treeVars == <<base, tree, exists, wrev>>
savedVars == <<record, proposals, applied>>
mergeBounds == <<agentEdits, userEdits, mergeFaults>>
workspaceVars == <<targetVars, treeVars, savedVars, method, mergeBounds>>

Trees == [Files -> Versions]
Changes == [file : Files, old : Versions, new : Versions]
Competitors == [workspace : Workspaces, patch : SUBSET Changes, wrev : Nat]
RecordStates == {"none", "creating", "ready", "creation_failed_retained",
  "creation_interrupted_retained", "missing_retained", "changes_collected", "conflict",
  "awaiting_review", "integrated", "destroyed"}
ProposalStates == {"conflict", "awaiting_review", "reviewed", "integrating", "integrated",
  "rolled_back", "rollback_pending", "interrupted"}

NoProposal == [state |-> "none"]
ProposalRecords ==
  [workspace : Workspaces, patch : SUBSET Changes, wrev : Nat, target : Nat,
   merged : Trees, mergeable : BOOLEAN, overlaps : SUBSET Competitors,
   resolved : SUBSET Competitors, conflicts : BOOLEAN,
   state : ProposalStates, pending : SUBSET Files]

NoMethod == [pc |-> "idle"]
Methods ==
  {NoMethod}
  \cup [pc : {"adding", "filled", "destroying"}, workspace : Workspaces]
  \cup [pc : {"recording"}, proposal : Proposals]
  \cup [pc : {"looking"}, why : {"propose", "resolve", "integrate"}, proposal : Proposals,
        workspace : Workspaces, todo : SUBSET (Workspaces \X Files),
        seen : [Workspaces -> Trees], revs : [Workspaces -> Nat], head : Nat, on : Trees]
  \cup [pc : {"backup", "check", "write", "undo", "restore"}, proposal : Proposals, todo : SUBSET Files,
        written : SUBSET Files, pending : SUBSET Files, file : Files \cup {"none"},
        backup : Trees, desired : Trees]

WorkspacesTypeOK ==
  /\ target \in Trees /\ head \in Nat /\ headTree \in Trees
  /\ base \in [Workspaces -> Trees] /\ tree \in [Workspaces -> Trees]
  /\ exists \in [Workspaces -> BOOLEAN] /\ wrev \in [Workspaces -> Nat]
  /\ record \in [Workspaces -> [state : RecordStates, patch : SUBSET Changes]]
  /\ proposals \in [Proposals -> {NoProposal} \cup ProposalRecords]
  /\ method \in Methods
  /\ author \in [Files -> {User} \cup Proposals]
  /\ lost \subseteq Files /\ raced \subseteq Files /\ applied \subseteq Proposals
  /\ agentEdits \in Nat /\ userEdits \in Nat /\ mergeFaults \in Nat

WorkspacesInit ==
  LET start == [f \in Files |-> Original] IN
  /\ target = start /\ head = 0 /\ headTree = start
  /\ base = [w \in Workspaces |-> start] /\ tree = [w \in Workspaces |-> start]
  /\ exists = [w \in Workspaces |-> FALSE] /\ wrev = [w \in Workspaces |-> 0]
  /\ record = [w \in Workspaces |-> [state |-> "none", patch |-> {}]]
  /\ proposals = [p \in Proposals |-> NoProposal]
  /\ method = NoMethod
  /\ author = [f \in Files |-> User] /\ lost = {} /\ raced = {} /\ applied = {}
  /\ agentEdits = 0 /\ userEdits = 0 /\ mergeFaults = 0

-----------------------------------------------------------------------------
(* Patches and merges, as git computes them.                               *)

PatchOf(w, files) == {[file |-> f, old |-> base[w][f], new |-> files[f]] :
                        f \in {g \in Files : base[w][g] # files[g]}}
Paths(patch) == {c.file : c \in patch}

(* AppliedAnyway (for mutation): a patch is put on whatever stands there.  *)
AppliedAnyway(on, patch) == TRUE
Mergeable(on, patch) == \A c \in patch : on[c.file] \in {c.old, c.new}
Merged(on, patch) ==
  [f \in Files |-> IF \E c \in patch : c.file = f
                   THEN (CHOOSE c \in patch : c.file = f).new ELSE on[f]]

SaveRecord(w, state) == record' = [record EXCEPT ![w].state = state]
SaveState(p, state) == proposals' = [proposals EXCEPT ![p].state = state]

-----------------------------------------------------------------------------
(* A workspace: its record is saved before its worktree is made.           *)

CreateWorkspace(w) ==
  /\ method = NoMethod /\ record[w].state = "none"
  /\ SaveRecord(w, "creating")
  /\ base' = [base EXCEPT ![w] = headTree]
  /\ method' = [pc |-> "adding", workspace |-> w]
  /\ UNCHANGED <<targetVars, tree, exists, wrev, proposals, applied, mergeBounds>>

FillWorkspace ==
  /\ method.pc = "adding"
  /\ exists' = [exists EXCEPT ![method.workspace] = TRUE]
  /\ tree' = [tree EXCEPT ![method.workspace] = base[method.workspace]]
  /\ method' = [method EXCEPT !.pc = "filled"]
  /\ UNCHANGED <<targetVars, base, wrev, savedVars, mergeBounds>>

WorkspaceReady ==
  /\ method.pc = "filled"
  /\ SaveRecord(method.workspace, "ready")
  /\ method' = NoMethod
  /\ UNCHANGED <<targetVars, treeVars, proposals, applied, mergeBounds>>

(* Whatever went wrong, nothing that was made is taken away.               *)
CreationFails ==
  /\ method.pc \in {"adding", "filled"} /\ mergeFaults < MaxMergeFaults
  /\ SaveRecord(method.workspace, "creation_failed_retained")
  /\ method' = NoMethod /\ mergeFaults' = mergeFaults + 1
  /\ UNCHANGED <<targetVars, treeVars, proposals, applied, agentEdits, userEdits>>

(* Only a worktree without work goes.                                      *)
DestroyWorkspace(w) ==
  /\ method = NoMethod /\ record[w].state # "none" /\ exists[w]
  /\ tree[w] = base[w] /\ wrev[w] = 0
  /\ exists' = [exists EXCEPT ![w] = FALSE]
  /\ method' = [pc |-> "destroying", workspace |-> w]
  /\ UNCHANGED <<targetVars, base, tree, wrev, savedVars, mergeBounds>>

WorkspaceDestroyed ==
  /\ method.pc = "destroying"
  /\ SaveRecord(method.workspace, "destroyed")
  /\ method' = NoMethod
  /\ UNCHANGED <<targetVars, treeVars, proposals, applied, mergeBounds>>

DestroyMissing(w) ==
  /\ method = NoMethod /\ record[w].state # "none" /\ ~exists[w]
  /\ SaveRecord(w, "missing_retained")
  /\ UNCHANGED <<targetVars, treeVars, proposals, applied, method, mergeBounds>>

-----------------------------------------------------------------------------
(* A method looks at a worktree and at those that compete with it, file    *)
(* after file (_collect, _overlaps), while their agents go on working.  A  *)
(* resolution begins with the others, the other methods with their own.    *)

Rivals(w) == {v \in Workspaces \ {w} :
                record[v].state \notin {"none", "destroyed", "missing_retained"} /\ exists[v]}

Look(why, p, w) ==
  /\ method = NoMethod /\ exists[w]
  /\ method' = [pc |-> "looking", why |-> why, proposal |-> p, workspace |-> w,
                todo |-> ({w} \cup Rivals(w)) \X Files,
                seen |-> base, revs |-> [v \in Workspaces |-> 0],
                head |-> head, on |-> headTree]

Its(w) == {w} \X Files
InTurn(w) ==
  IF method.why = "resolve" THEN w = method.workspace => method.todo \subseteq Its(w)
  ELSE w # method.workspace => method.todo \cap Its(method.workspace) = {}

LookAt(w, f) ==
  /\ method.pc = "looking" /\ <<w, f>> \in method.todo /\ InTurn(w)
  /\ method' = [method EXCEPT !.todo = @ \ {<<w, f>>}, !.seen[w][f] = tree[w][f],
       !.revs[w] = IF Its(w) \subseteq method.todo THEN wrev[w] ELSE @]
  /\ UNCHANGED <<targetVars, treeVars, savedVars, mergeBounds>>

Looked(why) == method.pc = "looking" /\ method.why = why /\ method.todo = {}
Collected(w) == PatchOf(w, method.seen[w])

(* Work of others on the same files; work that has been merged as it is    *)
(* does not count.                                                         *)
Overlaps(w) ==
  {[workspace |-> v, patch |-> Collected(v), wrev |-> method.revs[v]] :
     v \in {v \in Rivals(w) :
            /\ ~(record[v].state = "integrated" /\ record[v].patch = Collected(v))
            /\ Paths(Collected(v)) \cap Paths(Collected(w)) # {}}}

-----------------------------------------------------------------------------
(* Proposal and review.                                                    *)

ProposeMerge(p, w) ==
  /\ record[w].state # "none" /\ proposals[p] = NoProposal
  /\ Look("propose", p, w)
  /\ UNCHANGED <<targetVars, treeVars, savedVars, mergeBounds>>

SaveProposal ==
  LET w == method.workspace
      patch == Collected(w)
      mergeable == Mergeable(method.on, patch)
      conflicts == ~mergeable \/ Overlaps(w) # {} IN
  /\ Looked("propose")
  /\ proposals' = [proposals EXCEPT ![method.proposal] =
       [workspace |-> w, patch |-> patch, wrev |-> method.revs[w], target |-> method.head,
        merged |-> Merged(method.on, patch), mergeable |-> mergeable, overlaps |-> Overlaps(w),
        resolved |-> {}, conflicts |-> conflicts,
        state |-> IF conflicts THEN "conflict" ELSE "awaiting_review", pending |-> {}]]
  /\ method' = [pc |-> "recording", proposal |-> method.proposal]
  /\ UNCHANGED <<targetVars, treeVars, record, applied, mergeBounds>>

(* The workspace's record is saved after the proposal's, here and at the   *)
(* end of a merge.                                                         *)
RecordProposal ==
  LET q == proposals[method.proposal] IN
  /\ method.pc = "recording"
  /\ record' = [record EXCEPT ![q.workspace] =
       [state |-> q.state, patch |-> IF q.state = "integrated" THEN q.patch ELSE @.patch]]
  /\ method' = NoMethod
  /\ UNCHANGED <<targetVars, treeVars, proposals, applied, mergeBounds>>

(* Looking at competing work forgets that it was integrated: it competes   *)
(* again.                                                                  *)
CollectPatch(w) ==
  /\ method = NoMethod /\ record[w].state # "none" /\ exists[w]
  /\ SaveRecord(w, "changes_collected")
  /\ UNCHANGED <<targetVars, treeVars, proposals, applied, method, mergeBounds>>

(* The reviewer acknowledges the competing versions the proposal names, if *)
(* they are still there; the review of the proposal itself starts again.   *)
ResolveOverlaps(p) ==
  /\ proposals[p] # NoProposal
  /\ Look("resolve", p, proposals[p].workspace)
  /\ UNCHANGED <<targetVars, treeVars, savedVars, mergeBounds>>

SaveResolution ==
  LET p == method.proposal
      q == proposals[p] IN
  /\ Looked("resolve")
  /\ IF Overlaps(q.workspace) = q.overlaps /\ Collected(q.workspace) = q.patch
     THEN proposals' = [proposals EXCEPT ![p].resolved = q.overlaps, ![p].conflicts = ~q.mergeable,
            ![p].state = IF q.mergeable THEN "awaiting_review" ELSE "conflict"]
     ELSE UNCHANGED proposals
  /\ method' = NoMethod
  /\ UNCHANGED <<targetVars, treeVars, record, applied, mergeBounds>>

MarkReviewed(p) ==
  /\ method = NoMethod /\ proposals[p] # NoProposal
  /\ ~proposals[p].conflicts
  /\ SaveState(p, "reviewed")
  /\ UNCHANGED <<targetVars, treeVars, record, applied, method, mergeBounds>>

-----------------------------------------------------------------------------
(* The merge: everything is compared again, then file after file.          *)

(* SameTarget (for mutation): the agent's work is not compared again.      *)
SameTarget(q) == Mergeable(method.on, Collected(q.workspace))
Unchanged(q) ==
  /\ Collected(q.workspace) = q.patch /\ method.revs[q.workspace] = q.wrev
  /\ Mergeable(method.on, q.patch) /\ Merged(method.on, q.patch) = q.merged

RivalsResolved(q) == Overlaps(q.workspace) \subseteq q.resolved

Integrate(p) ==
  /\ proposals[p].state = "reviewed" /\ ~proposals[p].conflicts
  /\ target = headTree /\ head = proposals[p].target
  /\ Look("integrate", p, proposals[p].workspace)
  /\ UNCHANGED <<targetVars, treeVars, savedVars, mergeBounds>>

Differing(from, to) == {f \in Files : from[f] # to[f]}

CompareReviewed ==
  LET q == proposals[method.proposal]
      desired == Merged(method.on, Collected(q.workspace)) IN
  /\ Looked("integrate")
  /\ method' = IF Unchanged(q) /\ RivalsResolved(q)
               THEN [pc |-> "backup", proposal |-> method.proposal, written |-> {}, pending |-> {},
                     todo |-> Differing(method.on, desired), file |-> "none",
                     backup |-> method.on, desired |-> desired]
               ELSE NoMethod
  /\ UNCHANGED <<targetVars, treeVars, savedVars, mergeBounds>>

BackUpFile(f) ==
  /\ method.pc = "backup" /\ f \in method.todo
  /\ method' = IF target[f] = method.backup[f] THEN [method EXCEPT !.todo = @ \ {f}] ELSE NoMethod
  /\ UNCHANGED <<targetVars, treeVars, savedVars, mergeBounds>>

StartMerge ==
  /\ method.pc = "backup" /\ method.todo = {}
  /\ SaveState(method.proposal, "integrating")
  /\ method' = [method EXCEPT !.pc = "check", !.todo = Differing(method.backup, method.desired)]
  /\ UNCHANGED <<targetVars, treeVars, record, applied, mergeBounds>>

(* CheckNothing (for mutation): a file is written without another look.    *)
CheckNothing(f) ==
  /\ method.pc = "check" /\ f \in method.todo
  /\ method' = [method EXCEPT !.pc = "write", !.file = f]
  /\ UNCHANGED <<targetVars, treeVars, savedVars, mergeBounds>>

(* Each file is read again, and written by an atomic replacement.          *)
CheckFile(f) ==
  /\ method.pc = "check" /\ f \in method.todo
  /\ target[f] = method.backup[f]
  /\ method' = [method EXCEPT !.pc = "write", !.file = f]
  /\ UNCHANGED <<targetVars, treeVars, savedVars, mergeBounds>>

ConcurrentEdit(f) ==
  /\ method.pc = "check" /\ f \in method.todo
  /\ target[f] # method.backup[f]
  /\ method' = [method EXCEPT !.pc = "undo"]
  /\ UNCHANGED <<targetVars, treeVars, savedVars, mergeBounds>>

Put(f, content, found, who) ==
  /\ target' = [target EXCEPT ![f] = content]
  /\ author' = [author EXCEPT ![f] = who]
  /\ lost' = IF target[f] = found THEN lost ELSE lost \cup {f}
  /\ UNCHANGED <<head, headTree, raced>>

WriteFile ==
  /\ method.pc = "write"
  /\ Put(method.file, method.desired[method.file], method.backup[method.file], method.proposal)
  /\ method' = [method EXCEPT !.pc = "check", !.todo = @ \ {method.file}, !.written = @ \cup {method.file}]
  /\ UNCHANGED <<treeVars, savedVars, mergeBounds>>

WriteFails ==
  /\ method.pc = "write" /\ mergeFaults < MaxMergeFaults
  /\ method' = [method EXCEPT !.pc = "undo"]
  /\ mergeFaults' = mergeFaults + 1
  /\ UNCHANGED <<targetVars, treeVars, savedVars, agentEdits, userEdits>>

(* RecordFirst (for mutation): the workspace's record is saved first, and  *)
(* the process dies.                                                       *)
RecordFirst ==
  LET q == proposals[method.proposal] IN
  /\ method.pc = "check" /\ method.todo = {}
  /\ record' = [record EXCEPT ![q.workspace] = [state |-> "integrated", patch |-> q.patch]]
  /\ method' = NoMethod
  /\ UNCHANGED <<targetVars, treeVars, proposals, applied, mergeBounds>>

Integrated ==
  /\ method.pc = "check" /\ method.todo = {}
  /\ SaveState(method.proposal, "integrated")
  /\ applied' = applied \cup {method.proposal}
  /\ method' = [pc |-> "recording", proposal |-> method.proposal]
  /\ UNCHANGED <<targetVars, treeVars, record, mergeBounds>>

-----------------------------------------------------------------------------
(* The rollback, of what still is as the merge wrote it.                   *)

UndoCheck(f) ==
  /\ method.pc = "undo" /\ f \in method.written
  /\ target[f] = method.desired[f]
  /\ method' = [method EXCEPT !.pc = "restore", !.file = f]
  /\ UNCHANGED <<targetVars, treeVars, savedVars, mergeBounds>>

UndoSkips(f) ==
  /\ method.pc = "undo" /\ f \in method.written
  /\ target[f] # method.desired[f]
  /\ method' = [method EXCEPT !.written = @ \ {f}, !.pending = @ \cup {f}]
  /\ UNCHANGED <<targetVars, treeVars, savedVars, mergeBounds>>

RestoreFile ==
  /\ method.pc = "restore"
  /\ Put(method.file, method.backup[method.file], method.desired[method.file], User)
  /\ method' = [method EXCEPT !.pc = "undo", !.written = @ \ {method.file}]
  /\ UNCHANGED <<treeVars, savedVars, mergeBounds>>

(* Forgotten (for mutation): a file that cannot be restored is not listed. *)
Forgotten ==
  /\ method.pc = "restore" /\ mergeFaults < MaxMergeFaults
  /\ method' = [method EXCEPT !.pc = "undo", !.written = @ \ {method.file}]
  /\ mergeFaults' = mergeFaults + 1
  /\ UNCHANGED <<targetVars, treeVars, savedVars, agentEdits, userEdits>>

RestoreFails ==
  /\ method.pc = "restore" /\ mergeFaults < MaxMergeFaults
  /\ method' = [method EXCEPT !.pc = "undo", !.written = @ \ {method.file}, !.pending = @ \cup {method.file}]
  /\ mergeFaults' = mergeFaults + 1
  /\ UNCHANGED <<targetVars, treeVars, savedVars, agentEdits, userEdits>>

RolledBack ==
  /\ method.pc = "undo" /\ method.written = {}
  /\ proposals' = [proposals EXCEPT ![method.proposal].pending = method.pending,
       ![method.proposal].state = IF method.pending = {} THEN "rolled_back" ELSE "rollback_pending"]
  /\ method' = NoMethod
  /\ UNCHANGED <<targetVars, treeVars, record, applied, mergeBounds>>

-----------------------------------------------------------------------------
(* The process dies, a file changes while it is read, or a record cannot   *)
(* be saved: the method ends where it is, and what it saved so far stays.  *)
MethodDies ==
  /\ method # NoMethod /\ mergeFaults < MaxMergeFaults
  /\ method' = NoMethod /\ mergeFaults' = mergeFaults + 1
  /\ UNCHANGED <<targetVars, treeVars, savedVars, agentEdits, userEdits>>

(* Nothing is retried or deleted.                                          *)
ReconcileWorkspaces ==
  /\ method = NoMethod
  /\ record' = [w \in Workspaces |->
       IF record[w].state \notin {"none", "destroyed"} /\ ~exists[w]
         THEN [record[w] EXCEPT !.state = "missing_retained"]
       ELSE IF record[w].state = "creating"
         THEN [record[w] EXCEPT !.state = "creation_interrupted_retained"]
       ELSE record[w]]
  /\ proposals' = [p \in Proposals |->
       IF proposals[p].state = "integrating" THEN [proposals[p] EXCEPT !.state = "interrupted"]
       ELSE proposals[p]]
  /\ UNCHANGED <<targetVars, treeVars, applied, method, mergeBounds>>

-----------------------------------------------------------------------------
(* Agents and the user.                                                    *)

AtWork(w) == exists[w] /\ record[w].state \notin
  {"creating", "creation_failed_retained", "creation_interrupted_retained", "missing_retained"}

AgentEdits(w, f, v) ==
  /\ AtWork(w) /\ agentEdits < MaxAgentEdits
  /\ v # tree[w][f]
  /\ tree' = [tree EXCEPT ![w][f] = v]
  /\ agentEdits' = agentEdits + 1
  /\ UNCHANGED <<targetVars, base, exists, wrev, savedVars, method, userEdits, mergeFaults>>

AgentCommits(w) ==
  /\ AtWork(w) /\ agentEdits < MaxAgentEdits
  /\ wrev' = [wrev EXCEPT ![w] = @ + 1]
  /\ agentEdits' = agentEdits + 1
  /\ UNCHANGED <<targetVars, base, exists, tree, savedVars, method, userEdits, mergeFaults>>

UserEdits(f, v) ==
  /\ userEdits < MaxUserEdits /\ v # target[f]
  /\ target' = [target EXCEPT ![f] = v]
  /\ author' = [author EXCEPT ![f] = User]
  /\ raced' = IF method.pc \in {"write", "restore"} /\ method.file = f THEN raced \cup {f} ELSE raced
  /\ userEdits' = userEdits + 1
  /\ UNCHANGED <<head, headTree, lost, treeVars, savedVars, method, agentEdits, mergeFaults>>

(* What the user commits is the user's.                                    *)
UserCommits ==
  /\ userEdits < MaxUserEdits /\ target # headTree
  /\ head' = head + 1 /\ headTree' = target
  /\ author' = [f \in Files |-> User]
  /\ userEdits' = userEdits + 1
  /\ UNCHANGED <<target, lost, raced, treeVars, savedVars, method, agentEdits, mergeFaults>>

(* The user takes everything back that is not committed.                   *)
UserDiscards ==
  /\ userEdits < MaxUserEdits /\ target # headTree
  /\ target' = headTree
  /\ author' = [f \in Files |-> User]
  /\ raced' = IF method.pc \in {"write", "restore"} /\ target[method.file] # headTree[method.file]
              THEN raced \cup {method.file} ELSE raced
  /\ userEdits' = userEdits + 1
  /\ UNCHANGED <<head, headTree, lost, treeVars, savedVars, method, agentEdits, mergeFaults>>

WorkspacesNext ==
  \/ \E w \in Workspaces : CreateWorkspace(w) \/ DestroyWorkspace(w) \/ DestroyMissing(w)
                          \/ CollectPatch(w)
  \/ FillWorkspace \/ WorkspaceReady \/ CreationFails \/ WorkspaceDestroyed
  \/ \E p \in Proposals, w \in Workspaces : ProposeMerge(p, w)
  \/ \E w \in Workspaces, f \in Files : LookAt(w, f)
  \/ SaveProposal \/ RecordProposal \/ SaveResolution
  \/ CompareReviewed \/ StartMerge \/ \E f \in Files : BackUpFile(f)
  \/ \E p \in Proposals : ResolveOverlaps(p) \/ MarkReviewed(p) \/ Integrate(p)
  \/ \E f \in Files : CheckFile(f) \/ ConcurrentEdit(f) \/ UndoCheck(f) \/ UndoSkips(f)
  \/ WriteFile \/ WriteFails \/ Integrated
  \/ RestoreFile \/ RestoreFails \/ RolledBack
  \/ MethodDies \/ ReconcileWorkspaces
  \/ \E w \in Workspaces, f \in Files, v \in Versions : AgentEdits(w, f, v)
  \/ \E w \in Workspaces : AgentCommits(w)
  \/ \E f \in Files, v \in Versions : UserEdits(f, v)
  \/ UserCommits \/ UserDiscards

WorkspacesSpec == WorkspacesInit /\ [][WorkspacesNext]_workspaceVars

-----------------------------------------------------------------------------
(* An edit of the user is overwritten only if it was made between the last *)
(* look at that very file and its replacement, by a merge or a rollback:   *)
(* integrate compares each file with its backup, and a rollback with what  *)
(* it wrote.                                                               *)
LostOnlyInWindow == lost \subseteq raced

(* A merge is all or nothing, or says what is left: a proposal that ended  *)
(* rolled back left no content of its own in the target, and one that      *)
(* could not restore everything names the files (rollback_pending).        *)
UndoneLeavesNothing ==
  \A p \in Proposals :
    proposals[p].state \in {"rolled_back", "rollback_pending"} =>
      {f \in Files : author[f] = p} \subseteq proposals[p].pending

(* What a merge has put into the target is the result the reviewer saw,    *)
(* whatever agents, users and rivals did since the review.                 *)
OnlyReviewedContent ==
  \A f \in Files : author[f] # User => target[f] = proposals[author[f]].merged[f]

(* What a merge is about to replace in the target is the version that its  *)
(* agent started from: no content that came later, by a commit, by another *)
(* merge or by hand, is overwritten by work that did not know it, but in   *)
(* the moment between the look at a file and its replacement.              *)
NoLostUpdate ==
  method.pc = "write" /\ method.file \notin raced =>
    target[method.file] = base[proposals[method.proposal].workspace][method.file]

(* A workspace whose record says integrated, and which is therefore no     *)
(* rival of others while it stays as it was, has really been merged in     *)
(* that version: the proposal is saved before the record.                  *)
IgnoredIsIntegrated ==
  \A w \in Workspaces :
    record[w].state = "integrated" =>
      \E p \in applied : proposals[p].workspace = w /\ proposals[p].patch = record[w].patch
=============================================================================
