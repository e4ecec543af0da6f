------------------------------ MODULE Checkpoints ------------------------------
(***************************************************************************)
(* Checkpoints of a project's source and their restoring (CheckpointStore  *)
(* in firik_agent/projects/checkpoints.py).  A restore, and the rejection  *)
(* of a change, compares every file with what the user reviewed, commits a *)
(* backup and a row, and publishes file after file; when one fails, those  *)
(* published before are rolled back.  Meanwhile anybody may edit: the lock *)
(* of the store holds other restores off, not editors and not the agent.   *)
(*                                                                         *)
(* A content is what its hash stands for.  Left out: modes, hunks (a       *)
(* rejected hunk is a new content), rows of decisions, the bounds of a     *)
(* snapshot, and the name that is used for publishing.                     *)
(***************************************************************************)
EXTENDS Naturals, Sequences

CONSTANTS
  SourcePaths,
  Contents,
  Absent,            \* no such file
  Opaque,            \* a content that is never captured: binary, secret, too large
  MaxCheckpoints,    \* bound: checkpoints, backups among them
  MaxSourceEdits     \* bound: edits of others

ASSUME CheckpointConstants ==
  /\ Absent \in Contents /\ Opaque \in Contents /\ Absent # Opaque
  /\ MaxCheckpoints \in Nat /\ MaxSourceEdits \in Nat

VARIABLES
  source,        \* the files
  checkpoints,   \* coding_checkpoints: what a path had, for the captured paths
  restores,      \* coding_checkpoint_operations
  preview,       \* what the user reviewed last
  job,           \* the restore that has the lock
  sourceEdits    \* how often somebody edited

checkpointVars == <<source, checkpoints, restores, preview, job, sourceEdits>>

Readable == Contents \ {Opaque}
Snapshots == UNION {[paths -> Readable] : paths \in SUBSET SourcePaths}
NoPath == "none"
NoJob == [pc |-> "free", targets |-> <<>>, expected |-> <<>>, backup |-> 0,
          applied |-> <<>>, doing |-> NoPath, raced |-> FALSE, clean |-> TRUE]
(* History: put has the paths that were published and not rolled back,     *)
(* broke the one whose publication failed after the fact, and took what    *)
(* publishing (or taking it back) really replaced, with whether somebody   *)
(* edited the path since it was compared last (raced, in the job).         *)
Taking == [path : SourcePaths, content : Contents, way : {"out", "back"}, raced : BOOLEAN]
Restore == [status : {"applying", "completed", "rolled_back", "needs_recovery"},
            backup : 1..MaxCheckpoints, targets : Snapshots, expected : Snapshots,
            put : SUBSET SourcePaths, broke : SourcePaths \cup {NoPath}, took : SUBSET Taking]

CheckpointsTypeOK ==
  /\ source \in [SourcePaths -> Contents]
  /\ checkpoints \in Seq(Snapshots) /\ Len(checkpoints) <= MaxCheckpoints
  /\ restores \in Seq(Restore)
  /\ preview \in Snapshots
  /\ job \in [pc : {"free", "check", "backup", "record", "apply", "publish", "rollback",
                    "unpublish"},
              targets : Snapshots, expected : Snapshots, backup : 0..MaxCheckpoints,
              applied : Seq(SourcePaths), doing : SourcePaths \cup {NoPath}, raced : BOOLEAN,
              clean : BOOLEAN]
  /\ sourceEdits \in 0..MaxSourceEdits

CheckpointsInit ==
  /\ source \in [SourcePaths -> Readable]
  /\ checkpoints = <<>> /\ restores = <<>> /\ preview = <<>> /\ job = NoJob /\ sourceEdits = 0

Captured(paths) == [p \in {q \in paths : source[q] # Opaque} |-> source[p]]
EndJob == job' = NoJob
JobAt(pc) == job' = [job EXCEPT !.pc = pc]

-----------------------------------------------------------------------------
(* The user and everybody else who edits.                                  *)

EditSource(p, content) ==
  /\ sourceEdits < MaxSourceEdits /\ content # source[p]
  /\ source' = [source EXCEPT ![p] = content]
  /\ sourceEdits' = sourceEdits + 1
  /\ job' = [job EXCEPT !.raced = @ \/ job.doing = p]
  /\ UNCHANGED <<checkpoints, restores, preview>>

Capture ==
  /\ Len(checkpoints) < MaxCheckpoints
  /\ checkpoints' = Append(checkpoints, Captured(SourcePaths))
  /\ UNCHANGED <<source, restores, preview, job, sourceEdits>>

Compare ==
  /\ job.pc = "free" /\ preview' = Captured(SourcePaths)
  /\ UNCHANGED <<source, checkpoints, restores, job, sourceEdits>>

(* What differs between a checkpoint and now.                              *)
Changed(k) == {p \in DOMAIN checkpoints[k] : source[p] \notin {Opaque, checkpoints[k][p]}}

StartJob(targets, expected) ==
  /\ job' = [NoJob EXCEPT !.pc = "check", !.targets = targets, !.expected = expected]
  /\ preview' = <<>>
  /\ UNCHANGED <<source, checkpoints, restores, sourceEdits>>

StartRestore(k, paths) ==
  /\ job.pc = "free" /\ paths # {} /\ paths \subseteq Changed(k) \cap DOMAIN preview
  /\ StartJob([p \in paths |-> checkpoints[k][p]], [p \in paths |-> preview[p]])

(* The change must be the one that was reviewed; of a hunk the rest stays. *)
StartReject(k, p, target) ==
  /\ job.pc = "free" /\ p \in Changed(k) \cap DOMAIN preview /\ preview[p] = source[p]
  /\ \/ target = checkpoints[k][p]
     \/ Absent \notin {target, checkpoints[k][p], source[p]} /\ target \notin {Opaque, source[p]}
  /\ StartJob([q \in {p} |-> target], [q \in {p} |-> source[p]])

-----------------------------------------------------------------------------
(* _apply().                                                               *)

CheckReviewed ==
  /\ job.pc = "check"
  /\ IF \A p \in DOMAIN job.targets : source[p] = job.expected[p] THEN JobAt("backup") ELSE EndJob
  /\ UNCHANGED <<source, checkpoints, restores, preview, sourceEdits>>

(* CoversPaths (for mutation): what the backup has is not compared again.  *)
CoversPaths(backup) == DOMAIN backup = DOMAIN job.expected
Covers(backup) == backup = job.expected

BackUp ==
  LET backup == Captured(DOMAIN job.targets) IN
  /\ job.pc = "backup" /\ Len(checkpoints) < MaxCheckpoints
  /\ checkpoints' = Append(checkpoints, backup)
  /\ IF Covers(backup) THEN job' = [job EXCEPT !.pc = "record", !.backup = Len(checkpoints')]
                       ELSE EndJob
  /\ UNCHANGED <<source, restores, preview, sourceEdits>>

RecordRestore ==
  /\ job.pc = "record"
  /\ restores' = Append(restores, [status |-> "applying", backup |-> job.backup,
                                   targets |-> job.targets, expected |-> job.expected,
                                   put |-> {}, broke |-> NoPath, took |-> {}])
  /\ JobAt("apply")
  /\ UNCHANGED <<source, checkpoints, preview, sourceEdits>>

Applied == {job.applied[i] : i \in DOMAIN job.applied}
Doing(pc, p) == [job EXCEPT !.pc = pc, !.doing = p, !.raced = FALSE]

CompareFile(p) ==
  /\ job.pc = "apply" /\ p \in DOMAIN job.targets \ Applied
  /\ job' = IF source[p] = job.expected[p] THEN Doing("publish", p) ELSE Doing("rollback", NoPath)
  /\ UNCHANGED <<source, checkpoints, restores, preview, sourceEdits>>

(* A new file does not replace one that came meanwhile, and only a file    *)
(* that is still there can be deleted.  Anything else is replaced.  When   *)
(* there is no file, and none is wanted, nothing is done.                  *)
Publishes(p, from, to) ==
  \/ from = Absent /\ to = Absent /\ UNCHANGED source
  \/ /\ ~(from = Absent /\ to = Absent)
     /\ from = Absent => source[p] = Absent
     /\ to = Absent => source[p] # Absent
     /\ source' = [source EXCEPT ![p] = to]

Taken(p, from, to, way) ==
  [path |-> p, content |-> IF from = Absent /\ to = Absent THEN Absent ELSE source[p],
   way |-> way, raced |-> job.raced]

PublishFile ==
  LET p == job.doing
      row == restores[Len(restores)]
      taken == Taken(p, job.expected[p], job.targets[p], "out")
      published == [row EXCEPT !.put = @ \cup {p}, !.took = @ \cup {taken}] IN
  /\ job.pc = "publish"
  /\ Publishes(p, job.expected[p], job.targets[p])
  /\ \/ /\ job' = [Doing("apply", NoPath) EXCEPT !.applied = Append(@, p)]
        /\ restores' = [restores EXCEPT ![Len(restores)] = published]
     \/ /\ job' = Doing("rollback", NoPath)
        /\ restores' = [restores EXCEPT ![Len(restores)] = [published EXCEPT !.broke = p]]
  /\ UNCHANGED <<checkpoints, preview, sourceEdits>>

PublishFails ==
  /\ job.pc = "publish"
  /\ job' = Doing("rollback", NoPath)
  /\ UNCHANGED <<source, checkpoints, restores, preview, sourceEdits>>

CompleteRestore ==
  /\ job.pc = "apply" /\ Applied = DOMAIN job.targets
  /\ restores' \in {restores, [restores EXCEPT ![Len(restores)].status = "completed"]}
  /\ EndJob
  /\ UNCHANGED <<source, checkpoints, preview, sourceEdits>>

-----------------------------------------------------------------------------
(* The rollback takes back what is still as it was published.              *)

(* NotTaken (for mutation): a file that cannot be taken back is passed by. *)
NotTaken == [Doing("rollback", NoPath) EXCEPT !.applied = SubSeq(@, 1, Len(@) - 1)]
Untaken == [Doing("rollback", NoPath) EXCEPT !.applied = SubSeq(@, 1, Len(@) - 1), !.clean = FALSE]

RollbackFile ==
  /\ job.pc = "rollback" /\ job.applied # <<>>
  /\ LET p == job.applied[Len(job.applied)] IN
     job' = IF source[p] = job.targets[p] THEN Doing("unpublish", p) ELSE Untaken
  /\ UNCHANGED <<source, checkpoints, restores, preview, sourceEdits>>

UnpublishFile ==
  LET p == job.doing
      row == restores[Len(restores)]
      taken == Taken(p, job.targets[p], job.expected[p], "back") IN
  /\ job.pc = "unpublish"
  /\ Publishes(p, job.targets[p], job.expected[p])
  /\ restores' = [restores EXCEPT ![Len(restores)] =
                    [row EXCEPT !.put = @ \ {p}, !.took = @ \cup {taken}]]
  /\ job' \in {[Untaken EXCEPT !.clean = job.clean], Untaken}
  /\ UNCHANGED <<checkpoints, preview, sourceEdits>>

UnpublishFails ==
  /\ job.pc = "unpublish"
  /\ job' = Untaken
  /\ UNCHANGED <<source, checkpoints, restores, preview, sourceEdits>>

RestoreRolledBack ==
  /\ job.pc = "rollback" /\ job.applied = <<>>
  /\ restores' \in {restores, [restores EXCEPT ![Len(restores)].status =
                                 IF job.clean THEN "rolled_back" ELSE "needs_recovery"]}
  /\ EndJob
  /\ UNCHANGED <<source, checkpoints, preview, sourceEdits>>

(* The process dies.  Nothing is recovered by itself.                      *)
StoreDies ==
  /\ job.pc # "free"
  /\ EndJob /\ preview' = <<>>
  /\ UNCHANGED <<source, checkpoints, restores, sourceEdits>>

-----------------------------------------------------------------------------
CheckpointsNext ==
  \/ \E p \in SourcePaths, content \in Contents : EditSource(p, content)
  \/ Capture \/ Compare
  \/ \E k \in DOMAIN checkpoints :
       \/ \E paths \in SUBSET SourcePaths : StartRestore(k, paths)
       \/ \E p \in SourcePaths, target \in Contents : StartReject(k, p, target)
  \/ CheckReviewed \/ BackUp \/ RecordRestore
  \/ \E p \in SourcePaths : CompareFile(p)
  \/ PublishFile \/ PublishFails \/ CompleteRestore
  \/ RollbackFile \/ UnpublishFile \/ UnpublishFails \/ RestoreRolledBack
  \/ StoreDies

CheckpointsSpec == CheckpointsInit /\ [][CheckpointsNext]_checkpointVars

-----------------------------------------------------------------------------
(* What a restore replaced is in its backup, or is what the restore itself *)
(* had put there and takes back, whatever became of it (completed, rolled  *)
(* back, or dead between two files) and whatever was edited between the    *)
(* review, the check, the backup and the files ("Every destructive         *)
(* operation first commits a backup").  One edit can get lost: that of an  *)
(* existing file, between its last comparison and its replacement.         *)
Known(row, taken) ==
  IF taken.way = "back" THEN row.targets[taken.path] ELSE checkpoints[row.backup][taken.path]
BackedUp ==
  \A i \in DOMAIN restores : \A taken \in restores[i].took :
    \/ taken.content = Known(restores[i], taken)
    \/ taken.raced /\ Known(restores[i], taken) # Absent

(* A row says completed only of a restore that published every file, and   *)
(* rolled_back only of one that left none, but for the file whose own      *)
(* publication failed after it had happened: it is not rolled back.        *)
(* Resuming a run relies on it.                                            *)
StatusIsTrue ==
  \A i \in DOMAIN restores :
    /\ restores[i].status = "completed" => restores[i].put = DOMAIN restores[i].targets
    /\ restores[i].status = "rolled_back" => restores[i].put \subseteq {restores[i].broke}
=============================================================================
