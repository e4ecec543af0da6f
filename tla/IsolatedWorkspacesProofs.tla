------------------------ MODULE IsolatedWorkspacesProofs ------------------------
(***************************************************************************)
(* Proofs about IsolatedWorkspaces, for any workspaces, proposals, files   *)
(* and versions, and any number of edits and faults.                       *)
(***************************************************************************)
EXTENDS IsolatedWorkspaces, TLAPS

-----------------------------------------------------------------------------
(* The inductive invariant.                                                *)

TargetType ==
  /\ target \in Trees /\ head \in Nat /\ headTree \in Trees
  /\ author \in [Files -> {User} \cup Proposals]
  /\ lost \subseteq Files /\ raced \subseteq Files
TreeType ==
  /\ base \in [Workspaces -> Trees] /\ tree \in [Workspaces -> Trees]
  /\ exists \in [Workspaces -> BOOLEAN] /\ wrev \in [Workspaces -> Nat]
RecordType ==
  /\ record \in [Workspaces -> [state : RecordStates, patch : SUBSET Changes]]
  /\ applied \subseteq Proposals
ProposalType == proposals \in [Proposals -> {NoProposal} \cup ProposalRecords]
BoundType == agentEdits \in Nat /\ userEdits \in Nat /\ mergeFaults \in Nat

Merging == {"backup", "check", "write", "undo", "restore"}
MergeMethods ==
  [pc : Merging, proposal : Proposals, todo : SUBSET Files, written : SUBSET Files,
   pending : SUBSET Files, file : Files \cup {"none"}, backup : Trees, desired : Trees]
LookMethods ==
  [pc : {"looking"}, why : {"propose", "resolve", "integrate"}, proposal : Proposals,
   workspace : Workspaces, todo : SUBSET (Workspaces \X Files),
   seen : [Workspaces -> Trees], revs : [Workspaces -> Nat], head : Nat, on : Trees]

(* A proposal names a HEAD that is not younger than the present one.       *)
ProposalsOK ==
  \A p \in Proposals : proposals[p] # NoProposal => proposals[p].target <= head

(* What a merge wrote differs from HEAD until the user commits: a proposal *)
(* that is merged again starts without files of its own.                   *)
AuthorsOK ==
  \A f \in Files : author[f] # User =>
    /\ proposals[author[f]] # NoProposal
    /\ target[f] = proposals[author[f]].merged[f]
    /\ head = proposals[author[f]].target => target[f] # headTree[f]

AppliedOK == \A p \in applied : proposals[p] # NoProposal

RecordingOK ==
  method.pc = "recording" =>
    /\ proposals[method.proposal] # NoProposal
    /\ proposals[method.proposal].state \in {"conflict", "awaiting_review", "integrated"}
    /\ proposals[method.proposal].state = "integrated" => method.proposal \in applied

(* A method that looks has read HEAD before; a merge is of a reviewed      *)
(* proposal, and starts without files of its own.                          *)
LookingOK ==
  method.pc = "looking" =>
    /\ method.head <= head
    /\ head = method.head => method.on = headTree
    /\ method.why = "propose" => proposals[method.proposal] = NoProposal
    /\ method.why # "propose" =>
         /\ proposals[method.proposal] # NoProposal
         /\ proposals[method.proposal].workspace = method.workspace
    /\ method.why = "integrate" =>
         /\ proposals[method.proposal].state = "reviewed"
         /\ proposals[method.proposal].target = method.head
         /\ \A f \in Files : author[f] # method.proposal

(* What a merge replaces is as it was when the agent began.                *)
MergingOK ==
  method.pc \in Merging =>
    /\ proposals[method.proposal].state = IF method.pc = "backup" THEN "reviewed" ELSE "integrating"
    /\ method.desired = proposals[method.proposal].merged
    /\ head = proposals[method.proposal].target => method.backup = headTree
    /\ method.todo \subseteq Differing(method.backup, method.desired)
    /\ \A f \in Differing(method.backup, method.desired) :
         method.backup[f] = base[proposals[method.proposal].workspace][f]
    /\ \A f \in Files : author[f] = method.proposal => f \in method.written \cup method.pending

(* Between the last look at a file and its replacement.                    *)
WindowOK ==
  /\ method.pc = "write" =>
       /\ method.file \in method.todo
       /\ target[method.file] = method.backup[method.file] \/ method.file \in raced
  /\ method.pc = "restore" =>
       /\ method.file \in method.written
       /\ target[method.file] = method.desired[method.file] \/ method.file \in raced

Types == TargetType /\ TreeType /\ RecordType /\ ProposalType /\ BoundType /\ method \in Methods
IInv ==
  /\ Types
  /\ ProposalsOK /\ AuthorsOK /\ AppliedOK /\ RecordingOK /\ LookingOK /\ MergingOK /\ WindowOK
  /\ LostOnlyInWindow /\ UndoneLeavesNothing /\ IgnoredIsIntegrated

-----------------------------------------------------------------------------
(* What the records of methods and proposals are.                          *)

LEMMA MethodIs ==
  ASSUME method \in Methods
  PROVE  /\ method.pc \in Merging => method \in MergeMethods
         /\ method.pc = "looking" => method \in LookMethods
         /\ method.pc = "recording" => method \in [pc : {"recording"}, proposal : Proposals]
         /\ method.pc \in {"adding", "filled", "destroying"} =>
              method \in [pc : {"adding", "filled", "destroying"}, workspace : Workspaces]
         /\ method = NoMethod => method.pc = "idle"
         /\ method.pc = "idle" => method = NoMethod
  BY DEF Methods, NoMethod, Merging, MergeMethods, LookMethods

LEMMA MergeMethodIs ==
  ASSUME NEW m \in MergeMethods
  PROVE  m \in Methods
  BY DEF Methods, Merging, MergeMethods

LEMMA LookMethodIs ==
  ASSUME NEW m \in LookMethods
  PROVE  m \in Methods /\ m.pc = "looking"
  BY DEF Methods, LookMethods

LEMMA ProposalIs ==
  ASSUME ProposalType, NEW p \in Proposals
  PROVE  /\ proposals[p] # NoProposal => proposals[p] \in ProposalRecords
         /\ proposals[p].state # "none" => proposals[p] # NoProposal
         /\ proposals[p] # NoProposal => proposals[p].state \in ProposalStates
  BY DEF ProposalType, NoProposal, ProposalRecords, ProposalStates

LEMMA RecordIsNot == \A q \in ProposalRecords : q # NoProposal /\ q.state # "none"
  BY DEF ProposalRecords, NoProposal, ProposalStates

LEMMA AuthorIs ==
  ASSUME TargetType, NEW f \in Files, author[f] # User
  PROVE  author[f] \in Proposals
  BY DEF TargetType

LEMMA PatchIs ==
  ASSUME TreeType, NEW w \in Workspaces, NEW files \in Trees
  PROVE  PatchOf(w, files) \in SUBSET Changes
<1> SUFFICES ASSUME NEW f \in Files
             PROVE  [file |-> f, old |-> base[w][f], new |-> files[f]] \in Changes
  BY DEF PatchOf
<1>1. base[w][f] \in Versions /\ files[f] \in Versions
  BY DEF TreeType, Trees
<1> QED
  BY <1>1 DEF Changes

LEMMA CollectedIs ==
  ASSUME TreeType, method \in LookMethods, NEW w \in Workspaces
  PROVE  Collected(w) \in SUBSET Changes
<1>1. method.seen[w] \in Trees
  BY DEF LookMethods
<1> QED
  BY <1>1, PatchIs DEF Collected

LEMMA MergedIs ==
  ASSUME NEW on \in Trees, NEW patch \in SUBSET Changes
  PROVE  Merged(on, patch) \in Trees
<1> SUFFICES ASSUME NEW f \in Files
             PROVE  (IF \E c \in patch : c.file = f
                     THEN (CHOOSE c \in patch : c.file = f).new ELSE on[f]) \in Versions
  BY DEF Merged, Trees
<1>1. CASE \E c \in patch : c.file = f
  <2> DEFINE d == CHOOSE c \in patch : c.file = f
  <2>1. d \in patch
    BY <1>1
  <2>2. d.new \in Versions
    BY <2>1 DEF Changes
  <2> QED
    BY <1>1, <2>2
<1>2. CASE ~ \E c \in patch : c.file = f
  BY <1>2 DEF Trees
<1> QED
  BY <1>1, <1>2

LEMMA OverlapsAre ==
  ASSUME TreeType, method \in LookMethods, NEW w
  PROVE  Overlaps(w) \in SUBSET Competitors
<1> SUFFICES ASSUME NEW v \in Workspaces
             PROVE  [workspace |-> v, patch |-> Collected(v), wrev |-> method.revs[v]] \in Competitors
  BY DEF Overlaps, Rivals
<1>1. Collected(v) \in SUBSET Changes
  BY CollectedIs
<1>2. method.revs[v] \in Nat
  BY DEF LookMethods
<1> QED
  BY <1>1, <1>2 DEF Competitors

(* Where a patch that can be merged changes anything, it finds the version *)
(* that it was made from.                                                  *)
LEMMA MergesAreUpdates ==
  ASSUME NEW on \in Trees, NEW w, NEW files, Mergeable(on, PatchOf(w, files)),
         NEW f \in Differing(on, Merged(on, PatchOf(w, files)))
  PROVE  on[f] = base[w][f]
<1> DEFINE patch == PatchOf(w, files)
           changed == \E c \in patch : c.file = f
<1>1. Merged(on, patch)[f] = IF changed THEN (CHOOSE c \in patch : c.file = f).new ELSE on[f]
  BY DEF Merged, Differing
<1>2. changed
  BY <1>1 DEF Differing
<1>3. PICK d \in patch : d.file = f /\ d = CHOOSE c \in patch : c.file = f
  BY <1>2
<1>4. on[f] # d.new
  BY <1>1, <1>2, <1>3 DEF Differing
<1>5. on[d.file] \in {d.old, d.new}
  BY <1>3 DEF Mergeable
<1>6. d.old = base[w][d.file]
  <2>1. d \in PatchOf(w, files)
    BY <1>3
  <2>2. PICK g \in Files : d = [file |-> g, old |-> base[w][g], new |-> files[g]]
    BY <2>1 DEF PatchOf
  <2> QED
    BY <2>2
<1> QED
  BY <1>3, <1>4, <1>5, <1>6

-----------------------------------------------------------------------------
(* What a step leaves alone.                                               *)

LEMMA SavedKept ==
  ASSUME IInv, UNCHANGED <<targetVars, savedVars>>
  PROVE  /\ TargetType' /\ RecordType' /\ ProposalType'
         /\ ProposalsOK' /\ AuthorsOK' /\ AppliedOK'
         /\ LostOnlyInWindow' /\ UndoneLeavesNothing' /\ IgnoredIsIntegrated'
  BY DEF IInv, Types, targetVars, savedVars, TargetType, RecordType, ProposalType, ProposalsOK,
         AuthorsOK, AppliedOK, LostOnlyInWindow, UndoneLeavesNothing, IgnoredIsIntegrated

LEMMA MethodKept ==
  ASSUME IInv, UNCHANGED <<targetVars, proposals, applied, method, base>>
  PROVE  RecordingOK' /\ LookingOK' /\ MergingOK' /\ WindowOK' /\ (method \in Methods)'
  BY DEF IInv, Types, targetVars, RecordingOK, LookingOK, MergingOK, WindowOK

LEMMA NoMerge ==
  ASSUME method'.pc \notin Merging \cup {"recording", "looking"}
  PROVE  RecordingOK' /\ LookingOK' /\ MergingOK' /\ WindowOK'
  BY DEF RecordingOK, LookingOK, MergingOK, WindowOK, Merging

LEMMA RecordSaved ==
  ASSUME IInv, NEW w \in Workspaces, NEW s \in RecordStates \ {"integrated"},
         SaveRecord(w, s), UNCHANGED <<targetVars, proposals, applied>>
  PROVE  /\ TargetType' /\ RecordType' /\ ProposalType'
         /\ ProposalsOK' /\ AuthorsOK' /\ AppliedOK'
         /\ LostOnlyInWindow' /\ UndoneLeavesNothing' /\ IgnoredIsIntegrated'
<1> USE DEF IInv, Types
<1>1. TargetType' /\ ProposalType' /\ ProposalsOK' /\ AuthorsOK' /\ AppliedOK'
      /\ LostOnlyInWindow' /\ UndoneLeavesNothing'
  BY DEF targetVars, TargetType, ProposalType, ProposalsOK, AuthorsOK, AppliedOK,
         LostOnlyInWindow, UndoneLeavesNothing
<1>2. record \in [Workspaces -> [state : RecordStates, patch : SUBSET Changes]]
  BY DEF RecordType
<1>3. record' = [record EXCEPT ![w] = [record[w] EXCEPT !.state = s]]
  BY DEF SaveRecord
<1>4. [record[w] EXCEPT !.state = s] \in [state : RecordStates, patch : SUBSET Changes]
      /\ [record[w] EXCEPT !.state = s].state = s
  BY <1>2
<1>5. RecordType'
  BY <1>2, <1>3, <1>4 DEF RecordType
<1>6. \A v \in Workspaces : record'[v].state = "integrated" => v # w /\ record'[v] = record[v]
  BY <1>2, <1>3, <1>4
<1>7. IgnoredIsIntegrated'
  BY <1>6 DEF IgnoredIsIntegrated
<1> QED
  BY <1>1, <1>5, <1>7

(* A step that changes what proposals say of their state, and nothing of   *)
(* the work they stand for.                                                *)
SameWork(p) ==
  /\ proposals'[p] # NoProposal
  /\ proposals'[p].workspace = proposals[p].workspace
  /\ proposals'[p].patch = proposals[p].patch
  /\ proposals'[p].target = proposals[p].target
  /\ proposals'[p].merged = proposals[p].merged

LEMMA WorkKept ==
  ASSUME IInv, UNCHANGED targetVars,
         \A p \in Proposals : proposals[p] # NoProposal => SameWork(p),
         applied \subseteq applied'
  PROVE  /\ TargetType' /\ AuthorsOK' /\ LostOnlyInWindow'
         /\ applied' = applied => AppliedOK'
         /\ record' = record => IgnoredIsIntegrated'
<1> USE DEF IInv, Types
<1>1. TargetType' /\ LostOnlyInWindow'
  BY DEF targetVars, TargetType, LostOnlyInWindow
<1>2. AuthorsOK'
  <2> SUFFICES ASSUME NEW f \in Files, author[f] # User
               PROVE  /\ proposals'[author[f]] # NoProposal
                      /\ target[f] = proposals'[author[f]].merged[f]
                      /\ head = proposals'[author[f]].target => target[f] # headTree[f]
    BY DEF AuthorsOK, targetVars
  <2>1. author[f] \in Proposals
    BY AuthorIs
  <2>2. SameWork(author[f])
    BY <2>1 DEF AuthorsOK
  <2> QED
    BY <2>2 DEF AuthorsOK, SameWork
<1>3. applied' = applied => AppliedOK'
  BY DEF AppliedOK, SameWork, RecordType
<1>4. ASSUME record' = record PROVE IgnoredIsIntegrated'
  <2> SUFFICES ASSUME NEW w \in Workspaces, record[w].state = "integrated"
               PROVE  \E p \in applied' : proposals'[p].workspace = w
                                          /\ proposals'[p].patch = record[w].patch
    BY <1>4 DEF IgnoredIsIntegrated
  <2>1. PICK p \in applied : proposals[p].workspace = w /\ proposals[p].patch = record[w].patch
    BY DEF IgnoredIsIntegrated
  <2>2. p \in Proposals /\ SameWork(p)
    BY <2>1 DEF AppliedOK, RecordType
  <2> QED
    BY <2>1, <2>2 DEF SameWork
<1> QED
  BY <1>1, <1>2, <1>3, <1>4

-----------------------------------------------------------------------------
(* Agents and the user.                                                    *)

LEMMA AgentStep ==
  ASSUME IInv, \/ \E w \in Workspaces, f \in Files, v \in Versions : AgentEdits(w, f, v)
               \/ \E w \in Workspaces : AgentCommits(w)
  PROVE  IInv'
<1>1. UNCHANGED <<targetVars, savedVars, method>>
  BY DEF AgentEdits, AgentCommits
<1>2. TreeType' /\ BoundType'
  <2>1. ASSUME NEW w \in Workspaces, NEW f \in Files, NEW v \in Versions, AgentEdits(w, f, v)
        PROVE  TreeType' /\ BoundType'
    <3>1. tree' \in [Workspaces -> Trees]
      BY <2>1 DEF AgentEdits, IInv, Types, TreeType, Trees
    <3> QED
      BY <2>1, <3>1 DEF AgentEdits, IInv, Types, TreeType, BoundType
  <2>2. ASSUME NEW w \in Workspaces, AgentCommits(w)
        PROVE  TreeType' /\ BoundType'
    BY <2>2 DEF AgentCommits, IInv, Types, TreeType, BoundType
  <2> QED
    BY <2>1, <2>2
<1>3. UNCHANGED <<proposals, applied, base>>
  BY <1>1 DEF savedVars, AgentEdits, AgentCommits
<1> QED
  BY <1>1, <1>2, <1>3, SavedKept, MethodKept DEF IInv, Types

(* A step of the user: files change hands, and a file that is edited in    *)
(* its window is on record as such.                                        *)
LEMMA UserSteps ==
  ASSUME IInv,
         target' \in Trees, author' \in [Files -> {User} \cup Proposals],
         headTree' \in Trees, raced' \subseteq Files, raced \subseteq raced',
         \/ head' = head /\ headTree' = headTree
         \/ head' = head + 1 /\ \A f \in Files : author'[f] = User,
         \A f \in Files : author'[f] = User \/ (author'[f] = author[f] /\ target'[f] = target[f]),
         method.pc \in {"write", "restore"} =>
           target'[method.file] = target[method.file] \/ method.file \in raced',
         BoundType',
         UNCHANGED <<lost, treeVars, savedVars, method>>
  PROVE  IInv'
<1> USE DEF IInv, Types, savedVars, treeVars
<1>1. head \in Nat /\ head' \in Nat /\ head <= head'
  BY DEF TargetType
<1>2. Types'
  BY <1>1 DEF TargetType, TreeType, RecordType, ProposalType
<1>3. \A p \in Proposals : proposals[p] # NoProposal => proposals[p].target \in Nat
  BY ProposalIs DEF ProposalRecords
<1>4. ProposalsOK' /\ AppliedOK' /\ IgnoredIsIntegrated' /\ RecordingOK'
  BY <1>1, <1>3 DEF ProposalsOK, AppliedOK, IgnoredIsIntegrated, RecordingOK
<1>5. \A f \in Files : author'[f] # User => author'[f] = author[f] /\ target'[f] = target[f]
                                            /\ head' = head /\ headTree' = headTree
  OBVIOUS
<1>6. AuthorsOK'
  <2> SUFFICES ASSUME NEW f \in Files, author'[f] # User
               PROVE  /\ proposals[author'[f]] # NoProposal
                      /\ target'[f] = proposals[author'[f]].merged[f]
                      /\ head' = proposals[author'[f]].target => target'[f] # headTree'[f]
    BY DEF AuthorsOK
  <2> QED
    BY <1>5 DEF AuthorsOK
<1>7. LostOnlyInWindow'
  BY DEF LostOnlyInWindow
<1>8. UndoneLeavesNothing'
  BY <1>5, WorkspaceConstants DEF UndoneLeavesNothing
<1>9. MergingOK'
  <2> SUFFICES ASSUME method.pc \in Merging
               PROVE  /\ head' = proposals[method.proposal].target => method.backup = headTree'
                      /\ \A f \in Files : author'[f] = method.proposal =>
                           f \in method.written \cup method.pending
    BY DEF MergingOK
  <2>1. method.proposal \in Proposals /\ proposals[method.proposal] # NoProposal
    BY MethodIs, ProposalIs DEF MergeMethods, MergingOK
  <2>2. proposals[method.proposal].target <= head /\ proposals[method.proposal].target \in Nat
    BY <1>3, <2>1 DEF ProposalsOK
  <2>3. head' = proposals[method.proposal].target => head' = head /\ headTree' = headTree
    BY <1>1, <2>2
  <2> QED
    BY <1>5, <2>1, <2>3, WorkspaceConstants DEF MergingOK
<1>10. WindowOK'
  BY DEF WindowOK
<1>11. LookingOK'
  <2> SUFFICES ASSUME method.pc = "looking"
               PROVE  /\ method.head <= head'
                      /\ head' = method.head => method.on = headTree'
                      /\ method.why = "integrate" => \A f \in Files : author'[f] # method.proposal
    BY DEF LookingOK
  <2>1. method.head \in Nat /\ method.proposal \in Proposals
    BY MethodIs DEF LookMethods
  <2>2. method.head <= head
    BY DEF LookingOK
  <2>3. head' = method.head => head' = head /\ headTree' = headTree
    BY <1>1, <2>1, <2>2
  <2> QED
    BY <1>1, <1>5, <2>1, <2>2, <2>3, WorkspaceConstants DEF LookingOK
<1> QED
  BY <1>2, <1>4, <1>6, <1>7, <1>8, <1>9, <1>10, <1>11

LEMMA WindowFile ==
  ASSUME IInv, method.pc \in {"write", "restore"}
  PROVE  method.file \in Files
<1>1. method \in MergeMethods
  BY MethodIs DEF IInv, Types, Merging
<1> QED
  BY <1>1 DEF IInv, WindowOK, MergeMethods

LEMMA UserStep ==
  ASSUME IInv, \/ \E f \in Files, v \in Versions : UserEdits(f, v)
               \/ UserCommits \/ UserDiscards
  PROVE  IInv'
<1> USE DEF IInv, Types
<1>1. ASSUME NEW f \in Files, NEW v \in Versions, UserEdits(f, v) PROVE IInv'
  <2> USE <1>1 DEF UserEdits
  <2>1. target' \in Trees /\ author' \in [Files -> {User} \cup Proposals]
    BY DEF TargetType, Trees
  <2>2. \A g \in Files : author'[g] = User \/ (author'[g] = author[g] /\ target'[g] = target[g])
    BY DEF TargetType, Trees
  <2>3. method.pc \in {"write", "restore"} =>
          target'[method.file] = target[method.file] \/ method.file \in raced'
    BY WindowFile DEF TargetType, Trees
  <2>4. headTree' \in Trees /\ raced' \subseteq Files /\ raced \subseteq raced' /\ BoundType'
    BY DEF TargetType, BoundType
  <2> QED
    BY <2>1, <2>2, <2>3, <2>4, UserSteps
<1>2. ASSUME UserCommits PROVE IInv'
  <2> USE <1>2 DEF UserCommits
  <2>1. author' \in [Files -> {User} \cup Proposals] /\ \A g \in Files : author'[g] = User
    OBVIOUS
  <2>2. target' \in Trees /\ headTree' \in Trees /\ raced' \subseteq Files /\ raced \subseteq raced'
        /\ BoundType'
    BY DEF TargetType, BoundType
  <2> QED
    BY <2>1, <2>2, UserSteps
<1>3. ASSUME UserDiscards PROVE IInv'
  <2> USE <1>3 DEF UserDiscards
  <2>1. author' \in [Files -> {User} \cup Proposals] /\ \A g \in Files : author'[g] = User
    OBVIOUS
  <2>2. method.pc \in {"write", "restore"} =>
          target'[method.file] = target[method.file] \/ method.file \in raced'
    OBVIOUS
  <2>3. raced' \subseteq Files
    BY WindowFile DEF TargetType
  <2>4. target' \in Trees /\ headTree' \in Trees /\ raced \subseteq raced' /\ BoundType'
    BY DEF TargetType, BoundType
  <2> QED
    BY <2>1, <2>2, <2>3, <2>4, UserSteps
<1> QED
  BY <1>1, <1>2, <1>3

-----------------------------------------------------------------------------
(* Workspaces.                                                             *)

LEMMA OtherMethod ==
  ASSUME NEW w \in Workspaces, NEW pc \in {"adding", "filled", "destroying"}
  PROVE  [pc |-> pc, workspace |-> w] \in Methods
  BY DEF Methods

LEMMA NoMethodIs == NoMethod \in Methods /\ NoMethod.pc = "idle"
  BY DEF Methods, NoMethod

(* A step that saves a workspace's record, in one of its other states.     *)
LEMMA RecordStep ==
  ASSUME IInv, NEW w \in Workspaces, NEW s \in RecordStates \ {"integrated"}, SaveRecord(w, s),
         UNCHANGED <<targetVars, proposals, applied>>, TreeType', BoundType',
         \/ method' \in Methods /\ method'.pc \notin Merging \cup {"recording", "looking"}
         \/ method' = method /\ base' = base
  PROVE  IInv'
<1>1. CASE method' \in Methods /\ method'.pc \notin Merging \cup {"recording", "looking"}
  BY <1>1, RecordSaved, NoMerge DEF IInv, Types
<1>2. CASE method' = method /\ base' = base
  BY <1>2, RecordSaved, MethodKept DEF IInv, Types
<1> QED
  BY <1>1, <1>2

LEMMA WorkspaceSteps ==
  ASSUME IInv,
         \/ \E w \in Workspaces : CreateWorkspace(w) \/ DestroyWorkspace(w) \/ DestroyMissing(w)
                                  \/ CollectPatch(w)
         \/ FillWorkspace \/ WorkspaceReady \/ CreationFails \/ WorkspaceDestroyed
  PROVE  IInv'
<1> USE DEF IInv, Types
<1>0. method.pc \in {"adding", "filled", "destroying"} => method.workspace \in Workspaces
  BY MethodIs
<1>s. {"creating", "ready", "creation_failed_retained", "destroyed", "missing_retained",
       "changes_collected"} \subseteq RecordStates \ {"integrated"}
  BY DEF RecordStates
<1>1. ASSUME NEW w \in Workspaces, CreateWorkspace(w) PROVE IInv'
  <2> USE <1>1 DEF CreateWorkspace
  <2>1. TreeType' /\ BoundType'
    BY DEF TreeType, BoundType, mergeBounds, TargetType
  <2>2. method' \in Methods /\ method'.pc \notin Merging \cup {"recording", "looking"}
    BY OtherMethod DEF Merging
  <2> QED
    BY <2>1, <2>2, <1>s, RecordStep
<1>2. ASSUME NEW w \in Workspaces, DestroyWorkspace(w) PROVE IInv'
  <2> USE <1>2 DEF DestroyWorkspace
  <2>1. TreeType' /\ BoundType'
    BY DEF TreeType, BoundType, mergeBounds
  <2>2. method' \in Methods /\ method'.pc \notin Merging \cup {"recording", "looking"}
    BY OtherMethod DEF Merging
  <2> QED
    BY <2>1, <2>2, SavedKept, NoMerge
<1>3. ASSUME NEW w \in Workspaces, DestroyMissing(w) PROVE IInv'
  <2> USE <1>3 DEF DestroyMissing
  <2>1. TreeType' /\ BoundType' /\ base' = base
    BY DEF TreeType, BoundType, mergeBounds, treeVars
  <2> QED
    BY <2>1, <1>s, RecordStep
<1>4. ASSUME NEW w \in Workspaces, CollectPatch(w) PROVE IInv'
  <2> USE <1>4 DEF CollectPatch
  <2>1. TreeType' /\ BoundType' /\ base' = base
    BY DEF TreeType, BoundType, mergeBounds, treeVars
  <2> QED
    BY <2>1, <1>s, RecordStep
<1>5. ASSUME FillWorkspace PROVE IInv'
  <2> USE <1>5 DEF FillWorkspace
  <2>1. TreeType' /\ BoundType'
    BY <1>0 DEF TreeType, BoundType, mergeBounds
  <2>2. method' = [pc |-> "filled", workspace |-> method.workspace]
    BY MethodIs
  <2>3. method' \in Methods /\ method'.pc \notin Merging \cup {"recording", "looking"}
    BY <1>0, <2>2, OtherMethod DEF Merging
  <2> QED
    BY <2>1, <2>3, SavedKept, NoMerge
<1>6. ASSUME WorkspaceReady \/ CreationFails \/ WorkspaceDestroyed PROVE IInv'
  <2> USE <1>6 DEF WorkspaceReady, CreationFails, WorkspaceDestroyed
  <2>1. TreeType' /\ BoundType'
    BY DEF TreeType, BoundType, mergeBounds, treeVars
  <2>2. method' \in Methods /\ method'.pc \notin Merging \cup {"recording", "looking"}
    BY NoMethodIs DEF Merging
  <2>3. \E s \in RecordStates \ {"integrated"} : SaveRecord(method.workspace, s)
    BY <1>s
  <2>4. UNCHANGED <<targetVars, proposals, applied>>
    OBVIOUS
  <2> QED
    BY <1>0, <2>1, <2>2, <2>3, <2>4, RecordStep
<1> QED
  BY <1>1, <1>2, <1>3, <1>4, <1>5, <1>6

-----------------------------------------------------------------------------
(* Proposals.                                                              *)

(* A proposal whose state and review are saved.                            *)
LEMMA ProposalSaved ==
  ASSUME IInv, NEW p \in Proposals, proposals[p] # NoProposal,
         NEW new \in ProposalRecords, proposals' = [proposals EXCEPT ![p] = new],
         new.workspace = proposals[p].workspace, new.patch = proposals[p].patch,
         new.target = proposals[p].target, new.merged = proposals[p].merged,
         new.state \in {"rolled_back", "rollback_pending"} =>
           \A f \in Files : author[f] = p => f \in new.pending,
         UNCHANGED <<targetVars, record>>, applied \subseteq applied'
  PROVE  /\ TargetType' /\ ProposalType' /\ ProposalsOK' /\ AuthorsOK'
         /\ LostOnlyInWindow' /\ UndoneLeavesNothing' /\ IgnoredIsIntegrated'
         /\ applied' = applied => AppliedOK' /\ RecordType'
         /\ proposals'[p] = new
<1> USE DEF IInv, Types
<1>1. proposals'[p] = new /\ \A o \in Proposals : o # p => proposals'[o] = proposals[o]
  BY DEF ProposalType
<1>2. ProposalType'
  BY DEF ProposalType
<1>3. \A o \in Proposals : proposals[o] # NoProposal => SameWork(o)
  BY <1>1, RecordIsNot DEF SameWork
<1>4. ProposalsOK'
  BY <1>1 DEF ProposalsOK, targetVars
<1>5. UndoneLeavesNothing'
  <2> SUFFICES ASSUME NEW o \in Proposals,
                      proposals'[o].state \in {"rolled_back", "rollback_pending"},
                      NEW f \in Files, author[f] = o
               PROVE  f \in proposals'[o].pending
    BY DEF UndoneLeavesNothing, targetVars
  <2> QED
    BY <1>1 DEF UndoneLeavesNothing
<1>6. applied' = applied => RecordType'
  BY DEF RecordType
<1> QED
  BY <1>1, <1>2, <1>3, <1>4, <1>5, <1>6, WorkKept

LEMMA RecordingMethod ==
  ASSUME NEW p \in Proposals
  PROVE  [pc |-> "recording", proposal |-> p] \in Methods
  BY DEF Methods

LEMMA RecordProposalStep ==
  ASSUME IInv, RecordProposal
  PROVE  IInv'
<1> USE DEF IInv, Types
<1> DEFINE p == method.proposal
           q == proposals[p]
           row == [state |-> q.state,
                   patch |-> IF q.state = "integrated" THEN q.patch ELSE record[q.workspace].patch]
<1>1. /\ method.pc = "recording" /\ method' = NoMethod
      /\ record' = [record EXCEPT ![q.workspace] = row]
      /\ UNCHANGED <<targetVars, treeVars, proposals, applied, mergeBounds>>
  BY DEF RecordProposal
<1>2. p \in Proposals /\ q # NoProposal /\ q \in ProposalRecords
  BY <1>1, MethodIs, ProposalIs DEF RecordingOK
<1>3. TargetType' /\ TreeType' /\ BoundType' /\ ProposalType' /\ ProposalsOK' /\ AuthorsOK'
      /\ AppliedOK' /\ LostOnlyInWindow' /\ UndoneLeavesNothing'
  BY <1>1 DEF targetVars, treeVars, mergeBounds, TargetType, TreeType, BoundType, ProposalType,
       ProposalsOK, AuthorsOK, AppliedOK, LostOnlyInWindow, UndoneLeavesNothing
<1>4. RecordingOK' /\ LookingOK' /\ MergingOK' /\ WindowOK' /\ (method \in Methods)'
  BY <1>1, NoMethodIs, NoMerge DEF Merging
<1>5. q.state \in RecordStates /\ q.workspace \in Workspaces /\ q.patch \in SUBSET Changes
  BY <1>1, <1>2 DEF RecordingOK, RecordStates, ProposalRecords
<1>6. row \in [state : RecordStates, patch : SUBSET Changes]
  BY <1>5 DEF RecordType
<1>7. row.state = "integrated" => p \in applied /\ row.patch = q.patch
  BY <1>1 DEF RecordingOK
<1> HIDE DEF row
<1>8. RecordType'
  BY <1>1, <1>6 DEF RecordType
<1>9. record'[q.workspace] = row /\ \A v \in Workspaces : v # q.workspace => record'[v] = record[v]
  BY <1>1, <1>5 DEF RecordType
<1>10. IgnoredIsIntegrated'
  <2> SUFFICES ASSUME NEW w \in Workspaces, record'[w].state = "integrated"
               PROVE  \E o \in applied : proposals[o].workspace = w
                                         /\ proposals[o].patch = record'[w].patch
    BY <1>1 DEF IgnoredIsIntegrated
  <2>1. CASE w = q.workspace
    BY <2>1, <1>7, <1>9
  <2>2. CASE w # q.workspace
    BY <2>2, <1>9 DEF IgnoredIsIntegrated
  <2> QED
    BY <2>1, <2>2
<1> QED
  BY <1>3, <1>4, <1>8, <1>10

-----------------------------------------------------------------------------
(* The merge.                                                              *)

LEMMA StateSaved ==
  ASSUME IInv, NEW p \in Proposals, proposals[p] # NoProposal,
         NEW s \in {"reviewed", "integrating", "integrated"}, SaveState(p, s),
         UNCHANGED <<targetVars, record>>, applied \subseteq applied'
  PROVE  /\ TargetType' /\ ProposalType' /\ ProposalsOK' /\ AuthorsOK'
         /\ LostOnlyInWindow' /\ UndoneLeavesNothing' /\ IgnoredIsIntegrated'
         /\ applied' = applied => AppliedOK' /\ RecordType'
         /\ proposals'[p].state = s /\ SameWork(p)
<1> DEFINE q == proposals[p]
           new == [q EXCEPT !.state = s]
<1>1. q \in ProposalRecords
  BY ProposalIs DEF IInv, Types
<1>2. proposals' = [proposals EXCEPT ![p] = new]
  BY DEF SaveState, IInv, Types, ProposalType
<1>3. new \in ProposalRecords
  BY <1>1 DEF ProposalRecords, ProposalStates
<1>4. new.workspace = q.workspace /\ new.patch = q.patch /\ new.target = q.target
      /\ new.merged = q.merged /\ new.state = s
  BY <1>1 DEF ProposalRecords
<1> HIDE DEF new
<1>5. /\ TargetType' /\ ProposalType' /\ ProposalsOK' /\ AuthorsOK'
      /\ LostOnlyInWindow' /\ UndoneLeavesNothing' /\ IgnoredIsIntegrated'
      /\ applied' = applied => AppliedOK' /\ RecordType'
      /\ proposals'[p] = new
  BY <1>2, <1>3, <1>4, ProposalSaved
<1>6. SameWork(p)
  BY <1>3, <1>4, <1>5, RecordIsNot DEF SameWork
<1> QED
  BY <1>4, <1>5, <1>6

LEMMA ReviewStep ==
  ASSUME IInv, NEW p \in Proposals, MarkReviewed(p)
  PROVE  IInv'
<1> USE DEF IInv, Types
<1>1. /\ proposals[p] # NoProposal /\ SaveState(p, "reviewed")
      /\ method = NoMethod /\ method' = method
      /\ UNCHANGED <<targetVars, record, applied, treeVars, mergeBounds>>
  BY DEF MarkReviewed
<1>2. /\ TargetType' /\ ProposalType' /\ ProposalsOK' /\ AuthorsOK' /\ AppliedOK' /\ RecordType'
      /\ LostOnlyInWindow' /\ UndoneLeavesNothing' /\ IgnoredIsIntegrated'
  BY <1>1, StateSaved
<1>3. RecordingOK' /\ LookingOK' /\ MergingOK' /\ WindowOK' /\ (method \in Methods)'
  BY <1>1, NoMethodIs, NoMerge DEF Merging
<1>4. TreeType' /\ BoundType'
  BY <1>1 DEF TreeType, BoundType, treeVars, mergeBounds
<1> QED
  BY <1>2, <1>3, <1>4

-----------------------------------------------------------------------------
(* A method looks at worktrees.                                            *)

LEMMA LookBegins ==
  ASSUME IInv, NEW p \in Proposals, NEW w \in Workspaces,
         NEW why \in {"propose", "resolve", "integrate"}, Look(why, p, w)
  PROVE  /\ method' \in LookMethods /\ method'.why = why
         /\ method'.proposal = p /\ method'.workspace = w
         /\ method'.head = head /\ method'.on = headTree
<1> DEFINE todo == ({w} \cup Rivals(w)) \X Files
           revs == [v \in Workspaces |-> 0]
<1>1. method' = [pc |-> "looking", why |-> why, proposal |-> p, workspace |-> w, todo |-> todo,
                 seen |-> base, revs |-> revs, head |-> head, on |-> headTree]
  BY DEF Look
<1>2. todo \in SUBSET (Workspaces \X Files) /\ revs \in [Workspaces -> Nat]
  BY DEF Rivals
<1>3. base \in [Workspaces -> Trees] /\ head \in Nat /\ headTree \in Trees
  BY DEF IInv, Types, TreeType, TargetType
<1> HIDE DEF todo, revs
<1> QED
  BY <1>1, <1>2, <1>3 DEF LookMethods

(* A step that begins a look, or goes on with it.                          *)
LEMMA LookingStep ==
  ASSUME IInv, method' \in LookMethods, LookingOK', BoundType',
         UNCHANGED <<targetVars, treeVars, savedVars>>
  PROVE  IInv'
<1>1. method'.pc = "looking" /\ method' \in Methods
  BY LookMethodIs
<1>2. RecordingOK' /\ MergingOK' /\ WindowOK'
  BY <1>1 DEF RecordingOK, MergingOK, WindowOK, Merging
<1>3. TreeType'
  BY DEF IInv, Types, TreeType, treeVars
<1> QED
  BY <1>1, <1>2, <1>3, SavedKept DEF IInv, Types

(* What one look at a file notes.                                          *)
LEMMA LookAtIs ==
  ASSUME NEW w, NEW f, LookAt(w, f)
  PROVE  /\ method' = [method EXCEPT !.todo = @ \ {<<w, f>>},
              !.seen = [method.seen EXCEPT ![w] = [method.seen[w] EXCEPT ![f] = tree[w][f]]],
              !.revs = [method.revs EXCEPT ![w] =
                          IF Its(w) \subseteq method.todo THEN wrev[w] ELSE method.revs[w]]]
         /\ UNCHANGED <<targetVars, treeVars, savedVars, mergeBounds>>
BY DEF LookAt

LEMMA LookSteps ==
  ASSUME IInv,
         \/ \E p \in Proposals, w \in Workspaces : ProposeMerge(p, w)
         \/ \E p \in Proposals : ResolveOverlaps(p) \/ Integrate(p)
         \/ \E w \in Workspaces, f \in Files : LookAt(w, f)
  PROVE  IInv'
<1> USE DEF IInv, Types
<1>n. head \in Nat
  BY DEF TargetType
<1>1. ASSUME NEW p \in Proposals, NEW w \in Workspaces, ProposeMerge(p, w) PROVE IInv'
  <2>1. Look("propose", p, w) /\ proposals[p] = NoProposal
        /\ UNCHANGED <<targetVars, treeVars, savedVars, mergeBounds>>
    BY <1>1 DEF ProposeMerge
  <2>2. LookingOK' /\ BoundType' /\ method' \in LookMethods
    BY <1>n, <2>1, LookBegins DEF LookingOK, BoundType, targetVars, savedVars, mergeBounds
  <2> QED
    BY <2>1, <2>2, LookingStep
<1>2. ASSUME NEW p \in Proposals, ResolveOverlaps(p) PROVE IInv'
  <2>1. Look("resolve", p, proposals[p].workspace) /\ proposals[p] # NoProposal
        /\ UNCHANGED <<targetVars, treeVars, savedVars, mergeBounds>>
    BY <1>2 DEF ResolveOverlaps
  <2>2. proposals[p].workspace \in Workspaces
    BY <2>1, ProposalIs DEF ProposalRecords
  <2>3. LookingOK' /\ BoundType' /\ method' \in LookMethods
    BY <1>n, <2>1, <2>2, LookBegins DEF LookingOK, BoundType, targetVars, savedVars, mergeBounds
  <2> QED
    BY <2>1, <2>3, LookingStep
<1>3. ASSUME NEW p \in Proposals, Integrate(p) PROVE IInv'
  <2>1. /\ Look("integrate", p, proposals[p].workspace) /\ proposals[p].state = "reviewed"
        /\ target = headTree /\ head = proposals[p].target
        /\ UNCHANGED <<targetVars, treeVars, savedVars, mergeBounds>>
    BY <1>3 DEF Integrate
  <2>2. proposals[p] # NoProposal
    BY <2>1, ProposalIs
  <2>3. proposals[p].workspace \in Workspaces
    BY <2>2, ProposalIs DEF ProposalRecords
  <2>4. \A f \in Files : author[f] # p
    BY <2>1, WorkspaceConstants DEF AuthorsOK
  <2>5. LookingOK' /\ BoundType' /\ method' \in LookMethods
    BY <1>n, <2>1, <2>2, <2>3, <2>4, LookBegins
    DEF LookingOK, BoundType, targetVars, savedVars, mergeBounds
  <2> QED
    BY <2>1, <2>5, LookingStep
<1>4. ASSUME NEW w \in Workspaces, NEW f \in Files, LookAt(w, f) PROVE IInv'
  <2>1. method \in LookMethods /\ method.pc = "looking"
    BY <1>4, MethodIs DEF LookAt
  <2> DEFINE left == method.todo \ {<<w, f>>}
             files == [method.seen[w] EXCEPT ![f] = tree[w][f]]
             seen == [method.seen EXCEPT ![w] = files]
             rev == IF Its(w) \subseteq method.todo THEN wrev[w] ELSE method.revs[w]
             revs == [method.revs EXCEPT ![w] = rev]
  <2>2. method' = [method EXCEPT !.todo = left, !.seen = seen, !.revs = revs]
        /\ UNCHANGED <<targetVars, treeVars, savedVars, mergeBounds>>
    BY <1>4, LookAtIs
  <2>3. left \in SUBSET (Workspaces \X Files)
    BY <2>1 DEF LookMethods
  <2>4. files \in Trees
    BY <2>1 DEF LookMethods, TreeType, Trees
  <2>5. rev \in Nat
    BY <2>1 DEF LookMethods, TreeType
  <2> HIDE DEF files, rev
  <2>6. seen \in [Workspaces -> Trees] /\ revs \in [Workspaces -> Nat]
    BY <2>1, <2>4, <2>5 DEF LookMethods
  <2> HIDE DEF left, seen, revs
  <2>7. /\ method' \in LookMethods /\ method'.why = method.why
        /\ method'.proposal = method.proposal /\ method'.workspace = method.workspace
        /\ method'.head = method.head /\ method'.on = method.on
    BY <2>1, <2>2, <2>3, <2>6 DEF LookMethods
  <2>8. LookingOK' /\ BoundType'
    BY <2>1, <2>2, <2>7 DEF LookingOK, BoundType, targetVars, savedVars, mergeBounds
  <2> QED
    BY <2>2, <2>7, <2>8, LookingStep
<1> QED
  BY <1>1, <1>2, <1>3, <1>4

LEMMA SaveProposalStep ==
  ASSUME IInv, SaveProposal
  PROVE  IInv'
<1> USE DEF IInv, Types
<1> DEFINE p == method.proposal
           w == method.workspace
           patch == Collected(w)
           over == Overlaps(w)
           able == Mergeable(method.on, patch)
           merged == Merged(method.on, patch)
           new == [workspace |-> w, patch |-> patch, wrev |-> method.revs[w], target |-> method.head,
                   merged |-> merged, mergeable |-> able, overlaps |-> over,
                   resolved |-> {}, conflicts |-> ~able \/ over # {},
                   state |-> IF ~able \/ over # {} THEN "conflict" ELSE "awaiting_review",
                   pending |-> {}]
<1>1. /\ method.pc = "looking" /\ method.why = "propose"
      /\ proposals' = [proposals EXCEPT ![p] = new]
      /\ method' = [pc |-> "recording", proposal |-> p]
      /\ UNCHANGED <<targetVars, treeVars, record, applied, mergeBounds>>
  BY DEF SaveProposal, Looked
<1>m. method \in LookMethods
  BY <1>1, MethodIs
<1>p. p \in Proposals /\ proposals[p] = NoProposal /\ w \in Workspaces /\ method.head <= head
  BY <1>1, <1>m DEF LookingOK, LookMethods
<1>2. new \in ProposalRecords
  <2>1. patch \in SUBSET Changes /\ over \in SUBSET Competitors
    BY <1>m, <1>p, CollectedIs, OverlapsAre
  <2>2. method.on \in Trees /\ method.revs[w] \in Nat /\ method.head \in Nat
    BY <1>m, <1>p DEF LookMethods
  <2> HIDE DEF patch, over
  <2>3. merged \in Trees
    BY <2>1, <2>2, MergedIs
  <2>4. able \in BOOLEAN
    BY DEF Mergeable
  <2> HIDE DEF able, merged
  <2>5. (~able \/ over # {}) \in BOOLEAN
        /\ (IF ~able \/ over # {} THEN "conflict" ELSE "awaiting_review") \in ProposalStates
    BY DEF ProposalStates
  <2> QED
    BY <1>p, <2>1, <2>2, <2>3, <2>4, <2>5 DEF ProposalRecords
<1>3. new.target = method.head /\ new.state \in {"conflict", "awaiting_review"}
  OBVIOUS
<1> HIDE DEF new
<1>4. proposals'[p] = new /\ \A o \in Proposals : o # p => proposals'[o] = proposals[o]
  BY <1>1, <1>p DEF ProposalType
<1>5. ProposalType'
  BY <1>1, <1>2 DEF ProposalType
<1>6. \A o \in Proposals : proposals[o] # NoProposal => o # p /\ SameWork(o)
  BY <1>p, <1>4 DEF SameWork
<1>7. TargetType' /\ AuthorsOK' /\ LostOnlyInWindow' /\ AppliedOK' /\ IgnoredIsIntegrated'
  BY <1>1, <1>6, WorkKept
<1>8. ProposalsOK'
  BY <1>1, <1>p, <1>3, <1>4 DEF ProposalsOK, targetVars
<1>9. UndoneLeavesNothing'
  BY <1>1, <1>3, <1>4 DEF UndoneLeavesNothing, targetVars
<1>10. RecordingOK'
  BY <1>1, <1>2, <1>3, <1>4, RecordIsNot DEF RecordingOK
<1>11. LookingOK' /\ MergingOK' /\ WindowOK' /\ (method \in Methods)'
  BY <1>1, <1>p, RecordingMethod DEF LookingOK, MergingOK, WindowOK, Merging
<1>12. TreeType' /\ BoundType' /\ RecordType'
  BY <1>1 DEF TreeType, BoundType, RecordType, treeVars, mergeBounds
<1> QED
  BY <1>5, <1>7, <1>8, <1>9, <1>10, <1>11, <1>12

LEMMA SaveResolutionStep ==
  ASSUME IInv, SaveResolution
  PROVE  IInv'
<1> USE DEF IInv, Types
<1> DEFINE p == method.proposal
           q == proposals[p]
           new == [q EXCEPT !.resolved = q.overlaps, !.conflicts = ~q.mergeable,
                     !.state = IF q.mergeable THEN "awaiting_review" ELSE "conflict"]
<1>1. /\ method.pc = "looking" /\ method.why = "resolve" /\ method' = NoMethod
      /\ proposals' = [proposals EXCEPT ![p].resolved = q.overlaps, ![p].conflicts = ~q.mergeable,
              ![p].state = IF q.mergeable THEN "awaiting_review" ELSE "conflict"]
           \/ UNCHANGED proposals
      /\ UNCHANGED <<targetVars, treeVars, record, applied, mergeBounds>>
  BY DEF SaveResolution, Looked
<1>2. p \in Proposals /\ q # NoProposal
  BY <1>1, MethodIs DEF LookingOK, LookMethods
<1>3. q \in ProposalRecords
  BY <1>2, ProposalIs
<1>4. RecordingOK' /\ LookingOK' /\ MergingOK' /\ WindowOK' /\ (method \in Methods)'
  BY <1>1, NoMethodIs, NoMerge DEF Merging
<1>5. TreeType' /\ BoundType'
  BY <1>1 DEF TreeType, BoundType, treeVars, mergeBounds
<1>6. CASE UNCHANGED proposals
  <2>1. UNCHANGED <<targetVars, savedVars>>
    BY <1>1, <1>6 DEF savedVars
  <2> QED
    BY <1>4, <1>5, <2>1, SavedKept
<1>7. CASE proposals' = [proposals EXCEPT ![p].resolved = q.overlaps, ![p].conflicts = ~q.mergeable,
              ![p].state = IF q.mergeable THEN "awaiting_review" ELSE "conflict"]
  <2>1. proposals' = [proposals EXCEPT ![p] = new]
    BY <1>2, <1>7 DEF ProposalType
  <2>2. new \in ProposalRecords
    BY <1>3 DEF ProposalRecords, ProposalStates
  <2>3. new.workspace = q.workspace /\ new.patch = q.patch /\ new.target = q.target
        /\ new.merged = q.merged /\ new.state \in {"awaiting_review", "conflict"}
    BY <1>3 DEF ProposalRecords
  <2> HIDE DEF new
  <2>4. /\ TargetType' /\ ProposalType' /\ ProposalsOK' /\ AuthorsOK' /\ AppliedOK' /\ RecordType'
        /\ LostOnlyInWindow' /\ UndoneLeavesNothing' /\ IgnoredIsIntegrated'
    BY <1>1, <1>2, <2>1, <2>2, <2>3, ProposalSaved
  <2> QED
    BY <1>4, <1>5, <2>4
<1> QED
  BY <1>1, <1>6, <1>7

-----------------------------------------------------------------------------
(* The merge itself.                                                       *)

LEMMA CompareStep ==
  ASSUME IInv, CompareReviewed
  PROVE  IInv'
<1> USE DEF IInv, Types
<1> DEFINE p == method.proposal
           q == proposals[p]
           w == q.workspace
           desired == Merged(method.on, Collected(w))
           todo == Differing(method.on, desired)
           next == [pc |-> "backup", proposal |-> p, written |-> {}, pending |-> {},
                    todo |-> todo, file |-> "none", backup |-> method.on, desired |-> desired]
<1>1. /\ method.pc = "looking" /\ method.why = "integrate"
      /\ method' = IF Unchanged(q) /\ RivalsResolved(q) THEN next ELSE NoMethod
      /\ UNCHANGED <<targetVars, treeVars, savedVars, mergeBounds>>
  BY DEF CompareReviewed, Looked
<1>2. method \in LookMethods
  BY <1>1, MethodIs
<1>3. /\ p \in Proposals /\ q # NoProposal /\ q.state = "reviewed" /\ q.target = method.head
      /\ head = method.head => method.on = headTree
      /\ \A f \in Files : author[f] # p
  BY <1>1, <1>2 DEF LookingOK, LookMethods
<1>4. TreeType' /\ BoundType'
  BY <1>1 DEF TreeType, BoundType, treeVars, mergeBounds
<1>5. CASE ~(Unchanged(q) /\ RivalsResolved(q))
  <2>1. method' = NoMethod
    BY <1>1, <1>5, Zenon
  <2>2. RecordingOK' /\ LookingOK' /\ MergingOK' /\ WindowOK' /\ (method \in Methods)'
    BY <2>1, NoMethodIs, NoMerge DEF Merging
  <2> QED
    BY <1>1, <1>4, <2>2, SavedKept
<1>6. CASE Unchanged(q) /\ RivalsResolved(q)
  <2>1. method' = next
    BY <1>1, <1>6, Zenon
  <2>2. Collected(w) = q.patch /\ Mergeable(method.on, Collected(w)) /\ desired = q.merged
    BY <1>6 DEF Unchanged
  <2>3. method.on \in Trees /\ q.merged \in Trees
    BY <1>2, <1>3, ProposalIs DEF LookMethods, ProposalRecords
  <2>4. \A f \in todo : method.on[f] = base[w][f]
    BY <2>2, <2>3, MergesAreUpdates DEF Collected
  <2>5. todo \subseteq Files
    BY DEF Differing
  <2> HIDE DEF desired
  <2>6. todo = Differing(method.on, desired)
    OBVIOUS
  <2> HIDE DEF todo
  <2>7. /\ method'.pc = "backup" /\ method'.proposal = p /\ method'.written = {}
        /\ method'.pending = {} /\ method'.todo = todo /\ method'.backup = method.on
        /\ method'.desired = desired
    BY <2>1
  <2>8. method' \in MergeMethods
    BY <1>3, <2>1, <2>2, <2>3, <2>5 DEF MergeMethods, Merging
  <2>9. MergingOK'
    BY <1>1, <1>3, <2>2, <2>4, <2>6, <2>7 DEF MergingOK, targetVars, treeVars, savedVars
  <2>10. RecordingOK' /\ LookingOK' /\ WindowOK' /\ method' \in Methods
    BY <2>7, <2>8, MergeMethodIs DEF RecordingOK, LookingOK, WindowOK
  <2> QED
    BY <1>1, <1>4, <2>9, <2>10, SavedKept
<1> QED
  BY <1>5, <1>6

LEMMA StartStep ==
  ASSUME IInv, StartMerge
  PROVE  IInv'
<1> USE DEF IInv, Types
<1> DEFINE p == method.proposal
           todo == Differing(method.backup, method.desired)
<1>1. /\ method.pc = "backup" /\ SaveState(p, "integrating")
      /\ method' = [method EXCEPT !.pc = "check", !.todo = todo]
      /\ UNCHANGED <<targetVars, treeVars, record, applied, mergeBounds>>
  BY DEF StartMerge
<1>2. method \in MergeMethods /\ method.pc \in Merging
  BY <1>1, MethodIs DEF Merging
<1>3. p \in Proposals /\ proposals[p] # NoProposal
  BY <1>1, <1>2, ProposalIs DEF MergingOK, MergeMethods
<1>4. /\ TargetType' /\ ProposalType' /\ ProposalsOK' /\ AuthorsOK' /\ AppliedOK' /\ RecordType'
      /\ LostOnlyInWindow' /\ UndoneLeavesNothing' /\ IgnoredIsIntegrated'
      /\ proposals'[p].state = "integrating" /\ SameWork(p)
  BY <1>1, <1>3, StateSaved
<1>5. todo \subseteq Files
  BY DEF Differing
<1>t. todo = Differing(method.backup, method.desired)
  OBVIOUS
<1> HIDE DEF todo
<1>6. /\ method' \in MergeMethods /\ method'.pc = "check" /\ method'.proposal = p
      /\ method'.desired = method.desired /\ method'.backup = method.backup
      /\ method'.todo = todo /\ method'.written = method.written /\ method'.pending = method.pending
  BY <1>1, <1>2, <1>5 DEF MergeMethods, Merging
<1>7. MergingOK'
  BY <1>1, <1>2, <1>4, <1>6, <1>t DEF MergingOK, SameWork, targetVars, treeVars
<1>8. RecordingOK' /\ LookingOK' /\ WindowOK' /\ method' \in Methods
  BY <1>6, MergeMethodIs DEF RecordingOK, LookingOK, WindowOK
<1>9. TreeType' /\ BoundType'
  BY <1>1 DEF TreeType, BoundType, treeVars, mergeBounds
<1> QED
  BY <1>4, <1>7, <1>8, <1>9

(* A step of a merge that only moves the method on.                        *)
LEMMA MethodMoves ==
  ASSUME IInv, method.pc \in Merging, method' \in MergeMethods,
         method'.proposal = method.proposal, method'.desired = method.desired,
         method'.backup = method.backup, method'.todo \subseteq method.todo,
         method'.pc = "backup" <=> method.pc = "backup",
         method.written \cup method.pending \subseteq method'.written \cup method'.pending,
         WindowOK', BoundType', UNCHANGED <<targetVars, treeVars, savedVars>>
  PROVE  IInv'
<1>1. /\ TargetType' /\ RecordType' /\ ProposalType' /\ ProposalsOK' /\ AuthorsOK' /\ AppliedOK'
      /\ LostOnlyInWindow' /\ UndoneLeavesNothing' /\ IgnoredIsIntegrated'
  BY SavedKept
<1>2. MergingOK'
  BY DEF IInv, MergingOK, targetVars, treeVars, savedVars
<1>3. RecordingOK' /\ LookingOK'
  BY DEF RecordingOK, LookingOK, MergeMethods, Merging
<1>4. TreeType' /\ method' \in Methods
  BY MergeMethodIs DEF IInv, Types, TreeType, treeVars
<1> QED
  BY <1>1, <1>2, <1>3, <1>4 DEF IInv, Types

LEMMA MoveSteps ==
  ASSUME IInv,
         \/ \E f \in Files : CheckFile(f) \/ ConcurrentEdit(f) \/ UndoCheck(f) \/ UndoSkips(f)
                              \/ BackUpFile(f)
         \/ WriteFails \/ RestoreFails
  PROVE  IInv'
<1>m. method.pc \in Merging => method \in MergeMethods
  BY MethodIs DEF IInv, Types
<1>1. ASSUME NEW f \in Files, CheckFile(f) PROVE IInv'
  <2> USE <1>1 DEF CheckFile
  <2>1. method.pc \in Merging /\ method \in MergeMethods
    BY <1>m DEF Merging
  <2>2. method' = [method EXCEPT !.pc = "write", !.file = f] /\ "write" \in Merging
    BY DEF Merging
  <2>3. method' \in MergeMethods /\ method'.pc = "write" /\ method'.file = f
        /\ method'.proposal = method.proposal /\ method'.desired = method.desired
        /\ method'.backup = method.backup /\ method'.todo = method.todo
        /\ method'.written = method.written /\ method'.pending = method.pending
    BY <2>1, <2>2 DEF MergeMethods
  <2>4. WindowOK' /\ BoundType'
    BY <2>3 DEF WindowOK, targetVars, BoundType, mergeBounds, IInv, Types
  <2> QED
    BY <2>1, <2>3, <2>4, MethodMoves
<1>2. ASSUME NEW f \in Files, ConcurrentEdit(f) PROVE IInv'
  <2> USE <1>2 DEF ConcurrentEdit
  <2>1. method.pc \in Merging /\ method \in MergeMethods
    BY <1>m DEF Merging
  <2>2. method' = [method EXCEPT !.pc = "undo"] /\ "undo" \in Merging
    BY DEF Merging
  <2>3. method' \in MergeMethods /\ method'.pc = "undo"
        /\ method'.proposal = method.proposal /\ method'.desired = method.desired
        /\ method'.backup = method.backup /\ method'.todo = method.todo
        /\ method'.written = method.written /\ method'.pending = method.pending
    BY <2>1, <2>2 DEF MergeMethods
  <2>4. WindowOK' /\ BoundType'
    BY <2>3 DEF WindowOK, BoundType, mergeBounds, IInv, Types
  <2> QED
    BY <2>1, <2>3, <2>4, MethodMoves
<1>3. ASSUME NEW f \in Files, UndoCheck(f) PROVE IInv'
  <2> USE <1>3 DEF UndoCheck
  <2>1. method.pc \in Merging /\ method \in MergeMethods
    BY <1>m DEF Merging
  <2>2. method' = [method EXCEPT !.pc = "restore", !.file = f] /\ "restore" \in Merging
    BY DEF Merging
  <2>3. method' \in MergeMethods /\ method'.pc = "restore" /\ method'.file = f
        /\ method'.proposal = method.proposal /\ method'.desired = method.desired
        /\ method'.backup = method.backup /\ method'.todo = method.todo
        /\ method'.written = method.written /\ method'.pending = method.pending
    BY <2>1, <2>2 DEF MergeMethods
  <2>4. WindowOK' /\ BoundType'
    BY <2>3 DEF WindowOK, targetVars, BoundType, mergeBounds, IInv, Types
  <2> QED
    BY <2>1, <2>3, <2>4, MethodMoves
<1>4. ASSUME NEW f \in Files, UndoSkips(f) PROVE IInv'
  <2> USE <1>4 DEF UndoSkips
  <2>1. method.pc \in Merging /\ method \in MergeMethods
    BY <1>m DEF Merging
  <2>2. method' = [method EXCEPT !.written = @ \ {f}, !.pending = @ \cup {f}]
    OBVIOUS
  <2> DEFINE w == method.written \ {f}
             n == method.pending \cup {f}
  <2>w. w \in SUBSET Files /\ n \in SUBSET Files
    BY <2>1 DEF MergeMethods
  <2>s. method.written \cup method.pending \subseteq w \cup n
    OBVIOUS
  <2>e. method' = [method EXCEPT !.pc = "undo", !.written = w, !.pending = n]
    BY <2>1, <2>2 DEF MergeMethods
  <2> HIDE DEF w, n
  <2>3. method' \in MergeMethods /\ method'.pc = "undo"
        /\ method'.proposal = method.proposal /\ method'.desired = method.desired
        /\ method'.backup = method.backup /\ method'.todo = method.todo
        /\ method'.written = w /\ method'.pending = n
    BY <2>1, <2>e, <2>w DEF MergeMethods, Merging
  <2>4. WindowOK' /\ BoundType'
    BY <2>3 DEF WindowOK, BoundType, mergeBounds, IInv, Types
  <2> QED
    BY <2>1, <2>3, <2>4, <2>s, MethodMoves
<1>5. ASSUME WriteFails PROVE IInv'
  <2> USE <1>5 DEF WriteFails
  <2>1. method.pc \in Merging /\ method \in MergeMethods
    BY <1>m DEF Merging
  <2>2. method' = [method EXCEPT !.pc = "undo"] /\ "undo" \in Merging
    BY DEF Merging
  <2>3. method' \in MergeMethods /\ method'.pc = "undo"
        /\ method'.proposal = method.proposal /\ method'.desired = method.desired
        /\ method'.backup = method.backup /\ method'.todo = method.todo
        /\ method'.written = method.written /\ method'.pending = method.pending
    BY <2>1, <2>2 DEF MergeMethods
  <2>4. WindowOK' /\ BoundType'
    BY <2>3 DEF WindowOK, BoundType, IInv, Types
  <2> QED
    BY <2>1, <2>3, <2>4, MethodMoves
<1>6. ASSUME RestoreFails PROVE IInv'
  <2> USE <1>6 DEF RestoreFails
  <2> DEFINE f == method.file
  <2>1. method.pc \in Merging /\ method \in MergeMethods /\ f \in Files
    BY <1>m, WindowFile DEF Merging
  <2>2. method' = [method EXCEPT !.pc = "undo", !.written = @ \ {f}, !.pending = @ \cup {f}]
        /\ "undo" \in Merging
    BY DEF Merging
  <2> DEFINE w == method.written \ {f}
             n == method.pending \cup {f}
  <2>w. w \in SUBSET Files /\ n \in SUBSET Files
    BY <2>1 DEF MergeMethods
  <2>s. method.written \cup method.pending \subseteq w \cup n
    OBVIOUS
  <2>e. method' = [method EXCEPT !.pc = "undo", !.written = w, !.pending = n]
    BY <2>1, <2>2 DEF MergeMethods
  <2> HIDE DEF w, n
  <2>3. method' \in MergeMethods /\ method'.pc = "undo"
        /\ method'.proposal = method.proposal /\ method'.desired = method.desired
        /\ method'.backup = method.backup /\ method'.todo = method.todo
        /\ method'.written = w /\ method'.pending = n
    BY <2>1, <2>e, <2>w DEF MergeMethods, Merging
  <2>4. WindowOK' /\ BoundType'
    BY <2>3 DEF WindowOK, BoundType, IInv, Types
  <2> QED
    BY <2>1, <2>3, <2>4, <2>s, MethodMoves
<1>7. ASSUME NEW f \in Files, BackUpFile(f) PROVE IInv'
  <2> USE <1>7 DEF BackUpFile
  <2>1. method.pc = "backup" /\ method.pc \in Merging /\ method \in MergeMethods
    BY <1>m DEF Merging
  <2> DEFINE left == method.todo \ {f}
  <2>2. method' = [method EXCEPT !.todo = left] \/ method' = NoMethod
    OBVIOUS
  <2>3. left \in SUBSET Files /\ left \subseteq method.todo
    BY <2>1 DEF MergeMethods
  <2> HIDE DEF left
  <2>4. BoundType' /\ TreeType'
    BY DEF BoundType, mergeBounds, TreeType, treeVars, IInv, Types
  <2>5. CASE method' = [method EXCEPT !.todo = left]
    <3>1. method' \in MergeMethods /\ method'.pc = "backup"
          /\ method'.proposal = method.proposal /\ method'.desired = method.desired
          /\ method'.backup = method.backup /\ method'.todo = left
          /\ method'.written = method.written /\ method'.pending = method.pending
      BY <2>1, <2>3, <2>5 DEF MergeMethods
    <3>2. WindowOK'
      BY <3>1 DEF WindowOK
    <3> QED
      BY <2>1, <2>3, <2>4, <3>1, <3>2, MethodMoves
  <2>6. CASE method' = NoMethod
    <3>1. RecordingOK' /\ LookingOK' /\ MergingOK' /\ WindowOK' /\ (method \in Methods)'
      BY <2>6, NoMethodIs, NoMerge DEF Merging
    <3> QED
      BY <2>4, <3>1, SavedKept DEF IInv, Types
  <2> QED
    BY <2>2, <2>5, <2>6
<1> QED
  BY <1>1, <1>2, <1>3, <1>4, <1>5, <1>6, <1>7

(* A file is replaced, by a merge or by its rollback.                      *)
LEMMA WriteStep ==
  ASSUME IInv, WriteFile
  PROVE  IInv'
<1> USE DEF IInv, Types
<1> DEFINE f == method.file
           p == method.proposal
           rest == method.todo \ {f}
           done == method.written \cup {f}
<1>1. method.pc = "write" /\ method \in MergeMethods
  BY MethodIs DEF WriteFile, Merging
<1>2. f \in Files /\ f \in method.todo /\ p \in Proposals
  BY <1>1 DEF WindowOK, MergeMethods
<1>3. /\ target' = [target EXCEPT ![f] = method.desired[f]]
      /\ author' = [author EXCEPT ![f] = p]
      /\ lost' = IF target[f] = method.backup[f] THEN lost ELSE lost \cup {f}
      /\ UNCHANGED <<head, headTree, raced, treeVars, savedVars, mergeBounds>>
  BY DEF WriteFile, Put
<1>w. rest \subseteq Files /\ done \subseteq Files
  BY <1>1, <1>2 DEF MergeMethods
<1>4. method' = [method EXCEPT !.pc = "check", !.todo = rest, !.written = done]
  BY DEF WriteFile
<1>d. rest \subseteq method.todo /\ method.written \cup {f} \subseteq done
  OBVIOUS
<1> HIDE DEF rest, done
<1>5. method' \in MergeMethods /\ method'.pc = "check" /\ method'.proposal = p
      /\ method'.desired = method.desired /\ method'.backup = method.backup
      /\ method'.todo = rest /\ method'.written = done /\ method'.pending = method.pending
  BY <1>1, <1>4, <1>w DEF MergeMethods, Merging
<1>6. /\ proposals[p].state = "integrating" /\ method.desired = proposals[p].merged
      /\ head = proposals[p].target => method.backup = headTree
      /\ method.todo \subseteq Differing(method.backup, method.desired)
      /\ method.backup[f] # method.desired[f]
  BY <1>1, <1>2 DEF MergingOK, Merging, Differing
<1>7. proposals[p] # NoProposal
  BY <1>2, <1>6, ProposalIs
<1>8. TargetType'
  <2>1. method.desired[f] \in Versions
    BY <1>1, <1>2 DEF MergeMethods, Trees
  <2> QED
    BY <1>2, <1>3, <2>1 DEF TargetType, Trees
<1>9. /\ target'[f] = method.desired[f] /\ author'[f] = p
      /\ \A g \in Files : g # f => target'[g] = target[g] /\ author'[g] = author[g]
  BY <1>2, <1>3 DEF TargetType, Trees
<1>10. AuthorsOK'
  <2> SUFFICES ASSUME NEW g \in Files, author'[g] # User
               PROVE  /\ proposals[author'[g]] # NoProposal
                      /\ target'[g] = proposals[author'[g]].merged[g]
                      /\ head = proposals[author'[g]].target => target'[g] # headTree[g]
    BY <1>3 DEF AuthorsOK, savedVars
  <2>1. CASE g = f
    BY <2>1, <1>6, <1>7, <1>9
  <2>2. CASE g # f
    BY <2>2, <1>9 DEF AuthorsOK
  <2> QED
    BY <2>1, <2>2
<1>11. UndoneLeavesNothing'
  <2> SUFFICES ASSUME NEW o \in Proposals,
                      proposals[o].state \in {"rolled_back", "rollback_pending"},
                      NEW g \in Files, author'[g] = o
               PROVE  g \in proposals[o].pending
    BY <1>3 DEF UndoneLeavesNothing, savedVars
  <2>1. g # f
    BY <1>6, <1>9
  <2> QED
    BY <2>1, <1>9 DEF UndoneLeavesNothing
<1>12. LostOnlyInWindow'
  BY <1>1, <1>3 DEF LostOnlyInWindow, WindowOK
<1>13. MergingOK'
  <2>1. \A g \in Files : author'[g] = p => g \in done \cup method.pending
    BY <1>1, <1>9, <1>d DEF MergingOK, Merging
  <2>2. \A g \in Differing(method.backup, method.desired) :
          method.backup[g] = base[proposals[p].workspace][g]
    BY <1>1 DEF MergingOK, Merging
  <2> QED
    BY <1>3, <1>5, <1>6, <1>d, <2>1, <2>2 DEF MergingOK, treeVars, savedVars
<1>14. RecordingOK' /\ LookingOK' /\ WindowOK' /\ method' \in Methods
  BY <1>5, MergeMethodIs DEF RecordingOK, LookingOK, WindowOK
<1>15. TreeType' /\ RecordType' /\ ProposalType' /\ BoundType' /\ ProposalsOK' /\ AppliedOK'
       /\ IgnoredIsIntegrated'
  BY <1>3 DEF treeVars, savedVars, mergeBounds, TreeType, RecordType, ProposalType, BoundType,
       ProposalsOK, AppliedOK, IgnoredIsIntegrated
<1> QED
  BY <1>8, <1>10, <1>11, <1>12, <1>13, <1>14, <1>15

LEMMA RestoreStep ==
  ASSUME IInv, RestoreFile
  PROVE  IInv'
<1> USE DEF IInv, Types
<1> DEFINE f == method.file
           left == method.written \ {f}
<1>1. method.pc = "restore" /\ method \in MergeMethods
  BY MethodIs DEF RestoreFile, Merging
<1>2. f \in Files
  BY <1>1, WindowFile
<1>3. /\ target' = [target EXCEPT ![f] = method.backup[f]]
      /\ author' = [author EXCEPT ![f] = User]
      /\ lost' = IF target[f] = method.desired[f] THEN lost ELSE lost \cup {f}
      /\ UNCHANGED <<head, headTree, raced, treeVars, savedVars, mergeBounds>>
  BY DEF RestoreFile, Put
<1>w. left \subseteq Files
  BY <1>1 DEF MergeMethods
<1>4. method' = [method EXCEPT !.pc = "undo", !.written = left]
  BY DEF RestoreFile
<1>d. method.written \subseteq left \cup {f}
  OBVIOUS
<1> HIDE DEF left
<1>5. method' \in MergeMethods /\ method'.pc = "undo" /\ method'.proposal = method.proposal
      /\ method'.desired = method.desired /\ method'.backup = method.backup
      /\ method'.todo = method.todo /\ method'.written = left /\ method'.pending = method.pending
  BY <1>1, <1>4, <1>w DEF MergeMethods, Merging
<1>6. TargetType'
  <2>1. method.backup[f] \in Versions
    BY <1>1, <1>2 DEF MergeMethods, Trees
  <2> QED
    BY <1>2, <1>3, <2>1 DEF TargetType, Trees
<1>7. /\ author'[f] = User
      /\ \A g \in Files : g # f => target'[g] = target[g] /\ author'[g] = author[g]
  BY <1>2, <1>3 DEF TargetType, Trees
<1>8. AuthorsOK'
  <2> SUFFICES ASSUME NEW g \in Files, author'[g] # User
               PROVE  /\ proposals[author'[g]] # NoProposal
                      /\ target'[g] = proposals[author'[g]].merged[g]
                      /\ head = proposals[author'[g]].target => target'[g] # headTree[g]
    BY <1>3 DEF AuthorsOK, savedVars
  <2> QED
    BY <1>7 DEF AuthorsOK
<1>9. UndoneLeavesNothing'
  <2> SUFFICES ASSUME NEW o \in Proposals,
                      proposals[o].state \in {"rolled_back", "rollback_pending"},
                      NEW g \in Files, author'[g] = o
               PROVE  g \in proposals[o].pending
    BY <1>3 DEF UndoneLeavesNothing, savedVars
  <2> QED
    BY <1>7, WorkspaceConstants DEF UndoneLeavesNothing
<1>10. LostOnlyInWindow'
  BY <1>1, <1>3 DEF LostOnlyInWindow, WindowOK
<1>11. MergingOK'
  <2>1. method.proposal \in Proposals
    BY <1>1 DEF MergeMethods
  <2>2. \A g \in Files : author'[g] = method.proposal => g \in left \cup method.pending
    BY <1>1, <1>7, <1>d, <2>1, WorkspaceConstants DEF MergingOK, Merging
  <2>3. /\ proposals[method.proposal].state = "integrating"
        /\ method.desired = proposals[method.proposal].merged
        /\ head = proposals[method.proposal].target => method.backup = headTree
        /\ method.todo \subseteq Differing(method.backup, method.desired)
        /\ \A g \in Differing(method.backup, method.desired) :
             method.backup[g] = base[proposals[method.proposal].workspace][g]
    BY <1>1 DEF MergingOK, Merging
  <2> QED
    BY <1>3, <1>5, <2>2, <2>3 DEF MergingOK, treeVars, savedVars
<1>12. RecordingOK' /\ LookingOK' /\ WindowOK' /\ method' \in Methods
  BY <1>5, MergeMethodIs DEF RecordingOK, LookingOK, WindowOK
<1>13. TreeType' /\ RecordType' /\ ProposalType' /\ BoundType' /\ ProposalsOK' /\ AppliedOK'
       /\ IgnoredIsIntegrated'
  BY <1>3 DEF treeVars, savedVars, mergeBounds, TreeType, RecordType, ProposalType, BoundType,
       ProposalsOK, AppliedOK, IgnoredIsIntegrated
<1> QED
  BY <1>6, <1>8, <1>9, <1>10, <1>11, <1>12, <1>13

(* The end of a merge, one way or the other.                               *)
LEMMA IntegratedStep ==
  ASSUME IInv, Integrated
  PROVE  IInv'
<1> USE DEF IInv, Types
<1> DEFINE p == method.proposal
<1>1. method.pc \in Merging /\ method \in MergeMethods
  BY MethodIs DEF Integrated, Merging
<1>2. p \in Proposals /\ proposals[p] # NoProposal
  BY <1>1, ProposalIs DEF MergingOK, MergeMethods
<1>3. /\ SaveState(p, "integrated") /\ applied' = applied \cup {p}
      /\ method' = [pc |-> "recording", proposal |-> p]
      /\ UNCHANGED <<targetVars, treeVars, record, mergeBounds>>
  BY DEF Integrated
<1>4. /\ TargetType' /\ ProposalType' /\ ProposalsOK' /\ AuthorsOK'
      /\ LostOnlyInWindow' /\ UndoneLeavesNothing' /\ IgnoredIsIntegrated'
      /\ proposals'[p].state = "integrated" /\ SameWork(p)
  BY <1>2, <1>3, StateSaved
<1>5. RecordType' /\ TreeType' /\ BoundType'
  BY <1>2, <1>3 DEF RecordType, TreeType, BoundType, treeVars, mergeBounds
<1>6. AppliedOK'
  <2>1. \A o \in Proposals : o # p => proposals'[o] = proposals[o]
    BY <1>3 DEF SaveState, ProposalType
  <2> QED
    BY <1>3, <1>4, <2>1 DEF AppliedOK, SameWork, RecordType
<1>7. RecordingOK'
  BY <1>3, <1>4 DEF RecordingOK, SameWork
<1>8. LookingOK' /\ MergingOK' /\ WindowOK' /\ (method \in Methods)'
  BY <1>2, <1>3, RecordingMethod DEF LookingOK, MergingOK, WindowOK, Merging
<1> QED
  BY <1>4, <1>5, <1>6, <1>7, <1>8

LEMMA RolledBackStep ==
  ASSUME IInv, RolledBack
  PROVE  IInv'
<1> USE DEF IInv, Types
<1> DEFINE p == method.proposal
           q == proposals[p]
           how == IF method.pending = {} THEN "rolled_back" ELSE "rollback_pending"
           new == [q EXCEPT !.pending = method.pending, !.state = how]
<1>1. method.pc \in Merging /\ method.written = {} /\ method \in MergeMethods
  BY MethodIs DEF RolledBack, Merging
<1>2. p \in Proposals /\ q # NoProposal /\ q \in ProposalRecords
  BY <1>1, ProposalIs DEF MergingOK, MergeMethods
<1>3. /\ proposals' = [proposals EXCEPT ![p] = new]
      /\ method' = NoMethod
      /\ UNCHANGED <<targetVars, treeVars, record, applied, mergeBounds>>
  BY DEF RolledBack, ProposalType
<1>4. how \in {"rolled_back", "rollback_pending"} /\ method.pending \subseteq Files
  BY <1>1 DEF MergeMethods
<1> HIDE DEF how
<1>5. new \in ProposalRecords
  BY <1>2, <1>4 DEF ProposalRecords, ProposalStates
<1>6. new.workspace = q.workspace /\ new.patch = q.patch /\ new.target = q.target
      /\ new.merged = q.merged /\ new.state = how /\ new.pending = method.pending
  BY <1>2 DEF ProposalRecords
<1>7. \A f \in Files : author[f] = p => f \in method.pending
  BY <1>1 DEF MergingOK
<1> HIDE DEF new
<1>8. /\ TargetType' /\ ProposalType' /\ ProposalsOK' /\ AuthorsOK' /\ AppliedOK' /\ RecordType'
      /\ LostOnlyInWindow' /\ UndoneLeavesNothing' /\ IgnoredIsIntegrated'
  BY <1>2, <1>3, <1>4, <1>5, <1>6, <1>7, ProposalSaved
<1>9. RecordingOK' /\ LookingOK' /\ MergingOK' /\ WindowOK' /\ (method \in Methods)'
  BY <1>3, NoMethodIs, NoMerge DEF Merging
<1>10. TreeType' /\ BoundType'
  BY <1>3 DEF TreeType, BoundType, treeVars, mergeBounds
<1> QED
  BY <1>8, <1>9, <1>10

LEMMA DeathStep ==
  ASSUME IInv, MethodDies
  PROVE  IInv'
<1>1. UNCHANGED <<targetVars, treeVars, savedVars>> /\ method' = NoMethod
  BY DEF MethodDies
<1>2. RecordingOK' /\ LookingOK' /\ MergingOK' /\ WindowOK' /\ (method \in Methods)'
  BY <1>1, NoMethodIs, NoMerge DEF Merging
<1>3. TreeType' /\ BoundType'
  BY <1>1 DEF MethodDies, IInv, Types, TreeType, BoundType, treeVars
<1> QED
  BY <1>1, <1>2, <1>3, SavedKept DEF IInv, Types

LEMMA ReconcileStep ==
  ASSUME IInv, ReconcileWorkspaces
  PROVE  IInv'
<1> USE DEF IInv, Types
<1> DEFINE gone(w) == record[w].state \notin {"none", "destroyed"} /\ ~exists[w]
           stopped(p) == proposals[p].state = "integrating"
<1>1. /\ method = NoMethod /\ method' = method
      /\ record' = [w \in Workspaces |->
           IF gone(w) THEN [record[w] EXCEPT !.state = "missing_retained"]
           ELSE IF record[w].state = "creating"
             THEN [record[w] EXCEPT !.state = "creation_interrupted_retained"]
           ELSE record[w]]
      /\ proposals' = [p \in Proposals |->
           IF stopped(p) THEN [proposals[p] EXCEPT !.state = "interrupted"] ELSE proposals[p]]
      /\ UNCHANGED <<targetVars, treeVars, applied, mergeBounds>>
  BY DEF ReconcileWorkspaces
<1>2. ASSUME NEW w \in Workspaces
      PROVE  /\ record'[w] \in [state : RecordStates, patch : SUBSET Changes]
             /\ record'[w].state = "integrated" => record'[w] = record[w]
  <2>1. record[w] \in [state : RecordStates, patch : SUBSET Changes]
    BY DEF RecordType
  <2>2. ASSUME NEW s \in {"missing_retained", "creation_interrupted_retained"}
        PROVE  /\ [record[w] EXCEPT !.state = s] \in [state : RecordStates, patch : SUBSET Changes]
               /\ [record[w] EXCEPT !.state = s].state # "integrated"
    BY <2>1 DEF RecordStates
  <2> QED
    BY <1>1, <2>1, <2>2
<1>3. RecordType'
  <2>1. DOMAIN record' = Workspaces /\ record' = [w \in Workspaces |-> record'[w]]
    BY <1>1
  <2> QED
    BY <1>1, <1>2, <2>1 DEF RecordType
<1>4. ASSUME NEW p \in Proposals, proposals[p] # NoProposal
      PROVE  /\ proposals'[p] \in ProposalRecords /\ SameWork(p)
             /\ proposals'[p].state \in {"interrupted", proposals[p].state}
             /\ proposals'[p].pending = proposals[p].pending
  <2> DEFINE new == [proposals[p] EXCEPT !.state = "interrupted"]
  <2>1. proposals[p] \in ProposalRecords
    BY <1>4, ProposalIs
  <2>2. new \in ProposalRecords
    BY <2>1 DEF ProposalRecords, ProposalStates
  <2>3. /\ new.workspace = proposals[p].workspace /\ new.patch = proposals[p].patch
        /\ new.target = proposals[p].target /\ new.merged = proposals[p].merged
        /\ new.state = "interrupted" /\ new.pending = proposals[p].pending
    BY <2>1 DEF ProposalRecords
  <2>4. proposals'[p] = new \/ proposals'[p] = proposals[p]
    BY <1>1
  <2> HIDE DEF new
  <2> QED
    BY <2>1, <2>2, <2>3, <2>4, RecordIsNot DEF SameWork
<1>5. ASSUME NEW p \in Proposals, proposals[p] = NoProposal PROVE proposals'[p] = NoProposal
  BY <1>1, <1>5 DEF NoProposal
<1>6. ProposalType'
  <2>1. proposals' = [p \in Proposals |-> proposals'[p]]
    BY <1>1
  <2>2. \A p \in Proposals : proposals'[p] \in {NoProposal} \cup ProposalRecords
    BY <1>4, <1>5
  <2> QED
    BY <2>1, <2>2 DEF ProposalType
<1>7. TargetType' /\ AuthorsOK' /\ LostOnlyInWindow' /\ AppliedOK'
  BY <1>1, <1>4, WorkKept
<1>8. ProposalsOK'
  BY <1>1, <1>4, <1>5 DEF ProposalsOK, SameWork, targetVars
<1>9. UndoneLeavesNothing'
  <2> SUFFICES ASSUME NEW p \in Proposals,
                      proposals'[p].state \in {"rolled_back", "rollback_pending"},
                      NEW f \in Files, author[f] = p
               PROVE  f \in proposals'[p].pending
    BY <1>1 DEF UndoneLeavesNothing, targetVars
  <2>1. proposals[p] # NoProposal
    BY <1>5 DEF NoProposal
  <2> QED
    BY <1>4, <2>1 DEF UndoneLeavesNothing
<1>10. IgnoredIsIntegrated'
  <2> SUFFICES ASSUME NEW w \in Workspaces, record'[w].state = "integrated"
               PROVE  \E p \in applied : proposals'[p].workspace = w
                                         /\ proposals'[p].patch = record'[w].patch
    BY <1>1 DEF IgnoredIsIntegrated
  <2>1. record'[w] = record[w]
    BY <1>2
  <2>2. PICK p \in applied : proposals[p].workspace = w /\ proposals[p].patch = record[w].patch
    BY <2>1 DEF IgnoredIsIntegrated
  <2>3. SameWork(p)
    BY <1>4, <2>2 DEF AppliedOK, RecordType
  <2> QED
    BY <2>1, <2>2, <2>3 DEF SameWork
<1>11. RecordingOK' /\ LookingOK' /\ MergingOK' /\ WindowOK' /\ (method \in Methods)'
  BY <1>1, NoMethodIs, NoMerge DEF Merging
<1>12. TreeType' /\ BoundType'
  BY <1>1 DEF TreeType, BoundType, treeVars, mergeBounds
<1> QED
  BY <1>3, <1>6, <1>7, <1>8, <1>9, <1>10, <1>11, <1>12

-----------------------------------------------------------------------------
(* The theorems.                                                           *)

LEMMA InitIInv ==
  ASSUME WorkspacesInit
  PROVE  IInv
<1> USE DEF WorkspacesInit
<1>1. [f \in Files |-> Original] \in Trees
  BY WorkspaceConstants DEF Trees
<1>2. TargetType /\ TreeType /\ BoundType
  BY <1>1 DEF TargetType, TreeType, BoundType
<1>3. RecordType
  BY DEF RecordType, RecordStates
<1>4. ProposalType /\ method \in Methods
  BY NoMethodIs DEF ProposalType
<1>5. method.pc = "idle" /\ \A p \in Proposals : proposals[p] = NoProposal
  BY NoMethodIs
<1>6. RecordingOK /\ LookingOK /\ MergingOK /\ WindowOK
  BY <1>5 DEF RecordingOK, LookingOK, MergingOK, WindowOK, Merging
<1>7. ProposalsOK /\ AuthorsOK /\ AppliedOK /\ LostOnlyInWindow /\ IgnoredIsIntegrated
  BY <1>5 DEF ProposalsOK, AuthorsOK, AppliedOK, LostOnlyInWindow, IgnoredIsIntegrated
<1>8. UndoneLeavesNothing
  BY <1>5 DEF UndoneLeavesNothing, NoProposal
<1> QED
  BY <1>2, <1>3, <1>4, <1>6, <1>7, <1>8 DEF IInv, Types

LEMMA StepIInv ==
  ASSUME IInv, [WorkspacesNext]_workspaceVars
  PROVE  IInv'
<1>1. CASE UNCHANGED workspaceVars
  <2>1. UNCHANGED <<targetVars, treeVars, savedVars, method, mergeBounds>>
    BY <1>1 DEF workspaceVars
  <2>2. TreeType' /\ BoundType' /\ UNCHANGED <<proposals, applied, base>>
    BY <2>1 DEF IInv, Types, TreeType, BoundType, treeVars, mergeBounds, savedVars
  <2> QED
    BY <2>1, <2>2, SavedKept, MethodKept DEF IInv, Types
<1>2. CASE WorkspacesNext
  BY <1>2, AgentStep, UserStep, WorkspaceSteps, LookSteps, SaveProposalStep, RecordProposalStep,
     SaveResolutionStep, ReviewStep, CompareStep, StartStep, MoveSteps, WriteStep, RestoreStep, IntegratedStep, RolledBackStep, DeathStep,
     ReconcileStep
  DEF WorkspacesNext
<1> QED
  BY <1>1, <1>2

LEMMA AlwaysIInv == WorkspacesSpec => []IInv
<1> QED
  BY InitIInv, StepIInv, PTL DEF WorkspacesSpec

(* Every variable has its type.                                            *)
THEOREM WorkspacesTypeCorrect == WorkspacesSpec => []WorkspacesTypeOK
<1>1. IInv => WorkspacesTypeOK
  BY DEF IInv, Types, TargetType, TreeType, RecordType, ProposalType, BoundType, WorkspacesTypeOK
<1> QED
  BY <1>1, AlwaysIInv, PTL

(* A merge and its rollback overwrite no edit of the user, but for one     *)
(* made between the last look at a file and its replacement.               *)
THEOREM EditsAreKept == WorkspacesSpec => []LostOnlyInWindow
<1>1. IInv => LostOnlyInWindow
  BY DEF IInv
<1> QED
  BY <1>1, AlwaysIInv, PTL

(* A merge that was rolled back left nothing of its own in the target, but *)
(* in the files it names; and it starts with nothing of its own there.     *)
THEOREM UndoneMergesLeaveNothing == WorkspacesSpec => []UndoneLeavesNothing
<1>1. IInv => UndoneLeavesNothing
  BY DEF IInv
<1> QED
  BY <1>1, AlwaysIInv, PTL

(* What a merge wrote and nobody replaced is what its reviewer saw.        *)
THEOREM ReviewedContentOnly == WorkspacesSpec => []OnlyReviewedContent
<1>1. IInv => OnlyReviewedContent
  BY DEF IInv, AuthorsOK, OnlyReviewedContent
<1> QED
  BY <1>1, AlwaysIInv, PTL

(* Work that is ignored as a rival has been merged in that version.        *)
THEOREM IgnoredWorkIsMerged == WorkspacesSpec => []IgnoredIsIntegrated
<1>1. IInv => IgnoredIsIntegrated
  BY DEF IInv
<1> QED
  BY <1>1, AlwaysIInv, PTL

(* A merge overwrites no content that its agent did not start from, but in *)
(* the moment between the last look at a file and its replacement.         *)
THEOREM UpdatesAreKept == WorkspacesSpec => []NoLostUpdate
<1>1. ASSUME IInv PROVE NoLostUpdate
  <2> SUFFICES ASSUME method.pc = "write", method.file \notin raced
               PROVE  target[method.file] = base[proposals[method.proposal].workspace][method.file]
    BY DEF NoLostUpdate
  <2>1. method.file \in method.todo /\ target[method.file] = method.backup[method.file]
    BY <1>1 DEF IInv, WindowOK
  <2> QED
    BY <1>1, <2>1 DEF IInv, MergingOK, Merging
<1> QED
  BY <1>1, AlwaysIInv, PTL
=============================================================================
