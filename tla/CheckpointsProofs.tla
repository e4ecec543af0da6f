---------------------------- MODULE CheckpointsProofs ----------------------------
(***************************************************************************)
(* Proofs about Checkpoints, for any paths, contents and bounds.           *)
(***************************************************************************)
EXTENDS Checkpoints, SequenceTheorems, TLAPS

-----------------------------------------------------------------------------
(* The inductive invariant.                                                *)

Job == [pc : {"free", "check", "backup", "record", "apply", "publish", "rollback", "unpublish"},
        targets : Snapshots, expected : Snapshots, backup : 0..MaxCheckpoints,
        applied : Seq(SourcePaths), doing : SourcePaths \cup {NoPath}, raced : BOOLEAN,
        clean : BOOLEAN]

Kept(k, expected) == k \in DOMAIN checkpoints /\ checkpoints[k] = expected

(* What was replaced is what the restore compared, but for a late edit.    *)
Accounted(row, t) ==
  LET known == IF t.way = "back" THEN row.targets[t.path] ELSE row.expected[t.path] IN
  t.content = known \/ (t.raced /\ known # Absent)

(* What a row says of its restore.                                         *)
RowOK(row) ==
  /\ \A t \in row.took : t.path \in DOMAIN row.targets /\ Accounted(row, t)
  /\ Kept(row.backup, row.expected)
  /\ DOMAIN row.expected = DOMAIN row.targets
  /\ row.put \subseteq DOMAIN row.targets
  /\ row.status = "completed" => row.put = DOMAIN row.targets
  /\ row.status = "rolled_back" => row.put \subseteq {row.broke}

(* How the row of the running restore follows what the restore has done:   *)
(* on the way forward it counts what was applied, on the way back no more  *)
(* than what is still to be taken back, unless the rollback is not clean.  *)
Follows(row, j, applied) ==
  /\ row.status = "applying"
  /\ row.targets = j.targets /\ row.expected = j.expected
  /\ applied \subseteq DOMAIN j.targets
  /\ j.pc \in {"apply", "publish"} => row.put = applied
  /\ j.pc = "publish" => j.doing \in DOMAIN j.targets
  /\ j.pc \in {"rollback", "unpublish"} /\ j.clean => row.put \subseteq applied \cup {row.broke}
  /\ j.pc = "unpublish" => j.applied # <<>> /\ j.doing = j.applied[Len(j.applied)]

(* A path is as it was compared, until somebody edits it.                  *)
Compared(j, files) ==
  /\ j.pc \in {"publish", "unpublish"} => j.doing \in SourcePaths
  /\ j.pc = "publish" /\ ~j.raced => files[j.doing] = j.expected[j.doing]
  /\ j.pc = "unpublish" /\ ~j.raced => files[j.doing] = j.targets[j.doing]

Active == {"apply", "publish", "rollback", "unpublish"}
JobOK ==
  /\ job.pc \in {"check", "backup", "record"} => job.applied = <<>>
  /\ job.pc # "free" => DOMAIN job.expected = DOMAIN job.targets
  /\ job.pc \in {"record"} \cup Active => Kept(job.backup, job.expected)
  /\ job.pc \in Active => restores # <<>> /\ Follows(restores[Len(restores)], job, Applied)
  /\ Compared(job, source)

IInv ==
  /\ CheckpointsTypeOK
  /\ \A i \in DOMAIN restores : RowOK(restores[i])
  /\ JobOK

-----------------------------------------------------------------------------
LEMMA SnapshotIs ==
  ASSUME NEW paths, paths \subseteq SourcePaths, NEW s \in [paths -> Readable]
  PROVE  s \in Snapshots
  BY DEF Snapshots

LEMMA SnapshotHas ==
  ASSUME NEW s \in Snapshots
  PROVE  DOMAIN s \subseteq SourcePaths /\ \A p \in DOMAIN s : s[p] \in Readable
  BY DEF Snapshots

LEMMA NoSnapshot == <<>> \in Snapshots
<1>1. <<>> \in [{} -> Readable]
  OBVIOUS
<1> QED
  BY <1>1, SnapshotIs

LEMMA NoJobIs == NoJob \in Job /\ NoJob.pc = "free"
<1>1. <<>> \in Snapshots /\ <<>> \in Seq(SourcePaths) /\ 0 \in 0..MaxCheckpoints
  BY NoSnapshot, CheckpointConstants
<1> QED
  BY <1>1 DEF NoJob, Job

LEMMA CapturedIs ==
  ASSUME CheckpointsTypeOK, NEW paths, paths \subseteq SourcePaths
  PROVE  Captured(paths) \in Snapshots
<1> DEFINE readable == {q \in paths : source[q] # Opaque}
<1>1. Captured(paths) \in [readable -> Readable]
  BY DEF Captured, CheckpointsTypeOK, Readable
<1> QED
  BY <1>1, SnapshotIs

LEMMA InitIInv == CheckpointsInit => IInv
<1> SUFFICES ASSUME CheckpointsInit PROVE IInv
  OBVIOUS
<1>1. NoJob \in Job /\ NoJob.pc = "free" /\ <<>> \in Snapshots
  BY NoJobIs, NoSnapshot
<1>2. CheckpointsTypeOK
  BY <1>1, CheckpointConstants DEF CheckpointsInit, CheckpointsTypeOK, Job, Readable
<1>3. DOMAIN restores = {} /\ JobOK
  BY <1>1 DEF CheckpointsInit, JobOK, Active, Compared
<1> QED
  BY <1>2, <1>3 DEF IInv

-----------------------------------------------------------------------------
(* A new checkpoint leaves the old ones what they are.                     *)
LEMMA MoreCheckpoints ==
  ASSUME CheckpointsTypeOK, NEW paths, paths \subseteq SourcePaths,
         checkpoints' = Append(checkpoints, Captured(paths)), Len(checkpoints) < MaxCheckpoints
  PROVE  /\ checkpoints' \in Seq(Snapshots) /\ Len(checkpoints') = Len(checkpoints) + 1
         /\ Len(checkpoints') \in 1..MaxCheckpoints
         /\ checkpoints'[Len(checkpoints')] = Captured(paths)
         /\ \A k, e : Kept(k, e) => Kept(k, e)'
<1>1. checkpoints \in Seq(Snapshots) /\ Captured(paths) \in Snapshots /\ Len(checkpoints) \in Nat
  BY CapturedIs DEF CheckpointsTypeOK
<1>2. /\ checkpoints' \in Seq(Snapshots) /\ Len(checkpoints') = Len(checkpoints) + 1
      /\ checkpoints'[Len(checkpoints')] = Captured(paths)
      /\ \A k \in DOMAIN checkpoints : checkpoints'[k] = checkpoints[k] /\ k \in DOMAIN checkpoints'
  BY <1>1
<1>3. Len(checkpoints') \in 1..MaxCheckpoints
  BY <1>1, <1>2, CheckpointConstants
<1>4. ASSUME NEW k, NEW e, Kept(k, e) PROVE Kept(k, e)'
  BY <1>2, <1>4 DEF Kept
<1> QED
  BY <1>2, <1>3, <1>4

(* Rows that are left alone are still right.                               *)
LEMMA SameRows ==
  ASSUME IInv, UNCHANGED restores, \A k, e : Kept(k, e) => Kept(k, e)'
  PROVE  (\A i \in DOMAIN restores : RowOK(restores[i]))'
<1> SUFFICES ASSUME NEW i \in DOMAIN restores PROVE RowOK(restores[i])'
  OBVIOUS
<1>1. RowOK(restores[i])
  BY DEF IInv
<1> QED
  BY <1>1 DEF RowOK

LEMMA NewRow ==
  ASSUME IInv, UNCHANGED checkpoints,
         \A i \in DOMAIN restores' :
           (i \in DOMAIN restores /\ restores'[i] = restores[i]) \/ RowOK(restores'[i])
  PROVE  (\A i \in DOMAIN restores : RowOK(restores[i]))'
<1> SUFFICES ASSUME NEW i \in DOMAIN restores' PROVE RowOK(restores[i])'
  OBVIOUS
<1>1. RowOK(restores'[i])
  BY DEF IInv
<1> QED
  BY <1>1 DEF RowOK, Kept

(* A job that stays in its place with what it holds is still right.        *)
LEMMA SameJob ==
  ASSUME IInv, UNCHANGED <<restores, job, source>>, \A k, e : Kept(k, e) => Kept(k, e)'
  PROVE  JobOK'
<1>1. job.pc \in {"record"} \cup Active => Kept(job.backup, job.expected)'
  BY DEF IInv, JobOK
<1>2. job.pc \in Active => restores # <<>> /\ Follows(restores[Len(restores)], job, Applied)
  BY DEF IInv, JobOK
<1>3. Applied' = Applied
  BY DEF Applied
<1> QED
  BY <1>1, <1>2, <1>3 DEF IInv, JobOK, Kept, Compared

(* A job that ends, or has not saved anything yet.                         *)
LEMMA EarlyJob ==
  ASSUME job'.pc \notin {"record"} \cup Active,
         job'.pc # "free" => DOMAIN job'.expected = DOMAIN job'.targets /\ job'.applied = <<>>
  PROVE  JobOK'
  BY DEF JobOK, Active, Compared

LEMMA TypeIs ==
  CheckpointsTypeOK <=>
    /\ source \in [SourcePaths -> Contents]
    /\ checkpoints \in Seq(Snapshots) /\ Len(checkpoints) <= MaxCheckpoints
    /\ restores \in Seq(Restore)
    /\ preview \in Snapshots
    /\ job \in Job
    /\ sourceEdits \in 0..MaxSourceEdits
  BY DEF CheckpointsTypeOK, Job

LEMMA TypeIsNext ==
  CheckpointsTypeOK' <=>
    /\ source' \in [SourcePaths -> Contents]
    /\ checkpoints' \in Seq(Snapshots) /\ Len(checkpoints') <= MaxCheckpoints
    /\ restores' \in Seq(Restore)
    /\ preview' \in Snapshots
    /\ job' \in Job
    /\ sourceEdits' \in 0..MaxSourceEdits
  BY DEF CheckpointsTypeOK, Job

-----------------------------------------------------------------------------
(* The user and everybody else who edits.                                  *)

LEMMA EditStep ==
  ASSUME IInv, NEW p \in SourcePaths, NEW content \in Contents, EditSource(p, content)
  PROVE  IInv'
<1>1. /\ source' = [source EXCEPT ![p] = content] /\ sourceEdits' \in 0..MaxSourceEdits
      /\ job' = [job EXCEPT !.raced = @ \/ job.doing = p]
      /\ UNCHANGED <<checkpoints, restores, preview>>
  BY TypeIs, CheckpointConstants DEF IInv, EditSource
<1>2. job \in Job /\ source \in [SourcePaths -> Contents]
  BY TypeIs DEF IInv
<1>3. /\ job' \in Job /\ job'.pc = job.pc /\ job'.targets = job.targets
      /\ job'.expected = job.expected /\ job'.backup = job.backup /\ job'.applied = job.applied
      /\ job'.doing = job.doing /\ job'.clean = job.clean
      /\ job'.raced = (job.raced \/ job.doing = p)
  BY <1>1, <1>2 DEF Job
<1>4. CheckpointsTypeOK'
  BY <1>1, <1>2, <1>3, TypeIs, TypeIsNext DEF IInv
<1>5. \A k, e : Kept(k, e) => Kept(k, e)'
  BY <1>1 DEF Kept
<1>6. Compared(job, source)'
  <2>1. Compared(job, source)
    BY DEF IInv, JobOK
  <2>2. job.doing \in SourcePaths /\ ~job'.raced =>
          ~job.raced /\ source'[job.doing] = source[job.doing]
    BY <1>1, <1>2, <1>3
  <2> QED
    BY <1>3, <2>1, <2>2 DEF Compared
<1>7. JobOK'
  <2>1. job.pc \in Active => restores # <<>> /\ Follows(restores[Len(restores)], job, Applied)
    BY DEF IInv, JobOK
  <2>2. Applied' = Applied
    BY <1>3 DEF Applied
  <2>3. job'.pc \in Active => (restores # <<>> /\ Follows(restores[Len(restores)], job, Applied))'
    BY <1>1, <1>3, <2>1, <2>2 DEF Follows
  <2> QED
    BY <1>1, <1>3, <1>6, <2>3 DEF IInv, JobOK, Kept
<1> QED
  BY <1>1, <1>4, <1>5, <1>7, SameRows DEF IInv

LEMMA CaptureStep ==
  ASSUME IInv, Capture
  PROVE  IInv'
<1>1. /\ checkpoints' = Append(checkpoints, Captured(SourcePaths))
      /\ Len(checkpoints) < MaxCheckpoints
      /\ UNCHANGED <<source, restores, preview, job, sourceEdits>>
  BY DEF Capture
<1>2. CheckpointsTypeOK
  BY DEF IInv
<1>3. /\ checkpoints' \in Seq(Snapshots) /\ Len(checkpoints') \in 1..MaxCheckpoints
      /\ \A k, e : Kept(k, e) => Kept(k, e)'
  BY <1>1, <1>2, MoreCheckpoints
<1>4. CheckpointsTypeOK'
  BY <1>1, <1>2, <1>3, TypeIs, TypeIsNext, CheckpointConstants
<1> QED
  BY <1>1, <1>3, <1>4, SameRows, SameJob DEF IInv

LEMMA CompareStep ==
  ASSUME IInv, Compare
  PROVE  IInv'
<1>1. UNCHANGED <<source, checkpoints, restores, job, sourceEdits>> /\ preview' = Captured(SourcePaths)
  BY DEF Compare
<1>2. CheckpointsTypeOK'
  BY <1>1, CapturedIs, TypeIs, TypeIsNext DEF IInv
<1>3. \A k, e : Kept(k, e) => Kept(k, e)'
  BY <1>1 DEF Kept
<1> QED
  BY <1>1, <1>2, <1>3, SameRows, SameJob DEF IInv

LEMMA StartStep ==
  ASSUME IInv, NEW targets \in Snapshots, NEW expected \in Snapshots,
         DOMAIN targets = DOMAIN expected, StartJob(targets, expected)
  PROVE  IInv'
<1>1. /\ job' = [NoJob EXCEPT !.pc = "check", !.targets = targets, !.expected = expected]
      /\ preview' = <<>> /\ UNCHANGED <<source, checkpoints, restores, sourceEdits>>
  BY DEF StartJob
<1>2. /\ job' \in Job /\ job'.pc = "check" /\ job'.targets = targets
      /\ job'.expected = expected /\ job'.applied = <<>>
  BY <1>1, NoJobIs DEF Job, NoJob
<1>3. CheckpointsTypeOK'
  BY <1>1, <1>2, NoSnapshot, TypeIs, TypeIsNext DEF IInv
<1>4. JobOK'
  BY <1>2, EarlyJob DEF Active
<1>5. \A k, e : Kept(k, e) => Kept(k, e)'
  BY <1>1 DEF Kept
<1> QED
  BY <1>1, <1>3, <1>4, <1>5, SameRows DEF IInv

LEMMA RestoreStep ==
  ASSUME IInv, NEW k \in DOMAIN checkpoints, NEW paths \in SUBSET SourcePaths, StartRestore(k, paths)
  PROVE  IInv'
<1> DEFINE targets == [p \in paths |-> checkpoints[k][p]]
           expected == [p \in paths |-> preview[p]]
<1>1. checkpoints[k] \in Snapshots /\ preview \in Snapshots
  BY DEF IInv, CheckpointsTypeOK
<1>2. paths \subseteq DOMAIN checkpoints[k] /\ paths \subseteq DOMAIN preview
  BY DEF StartRestore, Changed
<1>3. targets \in Snapshots /\ expected \in Snapshots
  <2>1. targets \in [paths -> Readable] /\ expected \in [paths -> Readable]
    BY <1>1, <1>2, SnapshotHas
  <2> QED
    BY <2>1, SnapshotIs
<1>4. StartJob(targets, expected) /\ DOMAIN targets = DOMAIN expected
  BY DEF StartRestore
<1> HIDE DEF targets, expected
<1> QED
  BY <1>3, <1>4, StartStep

LEMMA RejectStep ==
  ASSUME IInv, NEW k \in DOMAIN checkpoints, NEW p \in SourcePaths, NEW target \in Contents,
         StartReject(k, p, target)
  PROVE  IInv'
<1> DEFINE targets == [q \in {p} |-> target]
           expected == [q \in {p} |-> source[p]]
<1>1. checkpoints[k] \in Snapshots /\ preview \in Snapshots
  BY DEF IInv, CheckpointsTypeOK
<1>2. p \in DOMAIN checkpoints[k] /\ p \in DOMAIN preview /\ preview[p] = source[p]
  BY DEF StartReject, Changed
<1>3. checkpoints[k][p] \in Readable /\ source[p] \in Readable
  BY <1>1, <1>2, SnapshotHas
<1>4. target \in Readable
  BY <1>3 DEF StartReject, Readable
<1>5. targets \in Snapshots /\ expected \in Snapshots
  <2>1. targets \in [{p} -> Readable] /\ expected \in [{p} -> Readable]
    BY <1>3, <1>4
  <2> QED
    BY <2>1, SnapshotIs
<1>6. StartJob(targets, expected) /\ DOMAIN targets = DOMAIN expected
  BY DEF StartReject
<1> HIDE DEF targets, expected
<1> QED
  BY <1>5, <1>6, StartStep

-----------------------------------------------------------------------------
(* The steps of _apply() before and after the files.                       *)

LEMMA CheckStep ==
  ASSUME IInv, CheckReviewed
  PROVE  IInv'
<1>1. UNCHANGED <<source, checkpoints, restores, preview, sourceEdits>> /\ job.pc = "check"
  BY DEF CheckReviewed
<1>2. CASE job' = [job EXCEPT !.pc = "backup"]
  <2>1. /\ job' \in Job /\ job'.pc = "backup" /\ job'.targets = job.targets
        /\ job'.expected = job.expected /\ job'.applied = job.applied
    BY <1>2, TypeIs DEF IInv, Job
  <2>2. DOMAIN job.expected = DOMAIN job.targets /\ job.applied = <<>>
    BY <1>1 DEF IInv, JobOK
  <2>3. JobOK' /\ CheckpointsTypeOK'
    BY <1>1, <2>1, <2>2, EarlyJob, TypeIs, TypeIsNext DEF Active, IInv
  <2>4. \A k, e : Kept(k, e) => Kept(k, e)'
    BY <1>1 DEF Kept
  <2> QED
    BY <1>1, <2>3, <2>4, SameRows DEF IInv
<1>3. CASE job' = NoJob
  <2>1. JobOK' /\ CheckpointsTypeOK'
    BY <1>1, <1>3, NoJobIs, EarlyJob, TypeIs, TypeIsNext DEF Active, IInv
  <2>2. \A k, e : Kept(k, e) => Kept(k, e)'
    BY <1>1 DEF Kept
  <2> QED
    BY <1>1, <2>1, <2>2, SameRows DEF IInv
<1> QED
  BY <1>2, <1>3 DEF CheckReviewed, JobAt, EndJob

LEMMA BackUpStep ==
  ASSUME IInv, BackUp
  PROVE  IInv'
<1> DEFINE backup == Captured(DOMAIN job.targets)
<1>1. /\ checkpoints' = Append(checkpoints, backup) /\ Len(checkpoints) < MaxCheckpoints
      /\ UNCHANGED <<source, restores, preview, sourceEdits>> /\ job.pc = "backup"
  BY DEF BackUp
<1>2. CheckpointsTypeOK /\ job \in Job
  BY TypeIs DEF IInv
<1>3. DOMAIN job.targets \subseteq SourcePaths
  BY <1>2, SnapshotHas DEF Job
<1>4. /\ checkpoints' \in Seq(Snapshots) /\ Len(checkpoints') \in 1..MaxCheckpoints
      /\ checkpoints'[Len(checkpoints')] = backup
      /\ \A k, e : Kept(k, e) => Kept(k, e)'
  BY <1>1, <1>2, <1>3, MoreCheckpoints
<1>5. ASSUME job' \in Job PROVE CheckpointsTypeOK'
  BY <1>1, <1>2, <1>4, <1>5, TypeIs, TypeIsNext
<1>6. CASE Covers(backup)
  <2>1. job' = [job EXCEPT !.pc = "record", !.backup = Len(checkpoints')]
    BY <1>6 DEF BackUp
  <2>2. /\ job' \in Job /\ job'.pc = "record" /\ job'.backup = Len(checkpoints')
        /\ job'.expected = job.expected /\ job'.targets = job.targets
        /\ job'.applied = job.applied
    <3>1. Len(checkpoints') \in 0..MaxCheckpoints
      BY <1>4
    <3> QED
      BY <1>2, <2>1, <3>1 DEF Job
  <2>3. Kept(job.backup, job.expected)'
    BY <1>4, <1>6, <2>2 DEF Kept, Covers
  <2>4. JobOK'
    BY <1>1, <2>2, <2>3 DEF IInv, JobOK, Active, Compared
  <2> QED
    BY <1>1, <1>4, <1>5, <2>2, <2>4, SameRows DEF IInv
<1>7. CASE ~Covers(backup)
  <2>1. job' = NoJob
    BY <1>7 DEF BackUp, EndJob
  <2> QED
    BY <1>1, <1>4, <1>5, <2>1, NoJobIs, EarlyJob, SameRows DEF IInv, Active
<1> QED
  BY <1>6, <1>7

LEMMA RecordStep ==
  ASSUME IInv, RecordRestore
  PROVE  IInv'
<1> DEFINE row == [status |-> "applying", backup |-> job.backup, targets |-> job.targets,
                   expected |-> job.expected, put |-> {}, broke |-> NoPath, took |-> {}]
           n == Len(restores')
<1>1. /\ restores' = Append(restores, row) /\ job' = [job EXCEPT !.pc = "apply"]
      /\ UNCHANGED <<source, checkpoints, preview, sourceEdits>> /\ job.pc = "record"
  BY DEF RecordRestore, JobAt
<1>2. CheckpointsTypeOK /\ job \in Job /\ restores \in Seq(Restore)
  BY TypeIs DEF IInv
<1>3. /\ Kept(job.backup, job.expected) /\ DOMAIN job.expected = DOMAIN job.targets
      /\ job.applied = <<>>
  BY <1>1 DEF IInv, JobOK
<1>4. job.backup \in 1..MaxCheckpoints
  BY <1>2, <1>3, CheckpointConstants DEF Kept, CheckpointsTypeOK
<1>5. row \in Restore
  BY <1>2, <1>4 DEF Restore, Job
<1>6. /\ restores' \in Seq(Restore) /\ n = Len(restores) + 1 /\ restores'[n] = row
      /\ DOMAIN restores' = 1..n
      /\ \A i \in DOMAIN restores : restores'[i] = restores[i]
      /\ \A i \in DOMAIN restores' : i = n \/ i \in DOMAIN restores
  BY <1>1, <1>2, <1>5
<1>7. /\ job' \in Job /\ job'.pc = "apply" /\ job'.targets = job.targets
      /\ job'.expected = job.expected /\ job'.backup = job.backup /\ job'.applied = job.applied
  BY <1>1, <1>2 DEF Job
<1>8. CheckpointsTypeOK'
  BY <1>1, <1>2, <1>6, <1>7, TypeIs, TypeIsNext
<1>9. RowOK(row)
  BY <1>3 DEF RowOK
<1>10. (\A i \in DOMAIN restores : RowOK(restores[i]))'
  BY <1>1, <1>6, <1>9, NewRow
<1>11. JobOK'
  <2>1. Follows(row, job', {})
    BY <1>7 DEF Follows
  <2>2. Applied' = {}
    BY <1>3, <1>7 DEF Applied
  <2>3. restores' # <<>> /\ Kept(job.backup, job.expected)'
    BY <1>1, <1>3, <1>6, <1>7 DEF Kept
  <2>4. Follows(restores[Len(restores)], job, Applied)'
    BY <1>6, <2>1, <2>2 DEF Follows
  <2> QED
    BY <1>3, <1>7, <2>3, <2>4 DEF JobOK, Compared
<1> QED
  BY <1>8, <1>10, <1>11 DEF IInv

-----------------------------------------------------------------------------
(* The files: every step of the running restore replaces the job and the   *)
(* last row.                                                               *)

PathsOf(seq) == {seq[i] : i \in DOMAIN seq}
Running ==
  /\ job.pc \in Active /\ job \in Job
  /\ restores # <<>> /\ Len(restores) \in DOMAIN restores /\ restores \in Seq(Restore)

LEMMA RunningIs ==
  ASSUME IInv, job.pc \in Active
  PROVE  /\ Running
         /\ restores[Len(restores)] \in Restore
         /\ RowOK(restores[Len(restores)])
         /\ Follows(restores[Len(restores)], job, PathsOf(job.applied))
         /\ restores = [restores EXCEPT ![Len(restores)] = restores[Len(restores)]]
<1>1. job \in Job /\ restores \in Seq(Restore)
  BY TypeIs DEF IInv
<1>2. restores # <<>> /\ Follows(restores[Len(restores)], job, Applied)
  BY DEF IInv, JobOK
<1>3. Len(restores) \in DOMAIN restores
  BY <1>1, <1>2
<1> QED
  BY <1>1, <1>2, <1>3 DEF IInv, Running, Applied, PathsOf

LEMMA RowIsReplaced ==
  ASSUME Running, NEW row \in Restore, restores' = [restores EXCEPT ![Len(restores)] = row]
  PROVE  /\ restores' \in Seq(Restore) /\ restores' # <<>> /\ Len(restores') = Len(restores)
         /\ DOMAIN restores' = DOMAIN restores
         /\ restores'[Len(restores')] = row
         /\ \A i \in DOMAIN restores' : (i \in DOMAIN restores /\ restores'[i] = restores[i]) \/ restores'[i] = row
<1>1. restores \in Seq(Restore) /\ Len(restores) \in DOMAIN restores
  BY DEF Running
<1>2. restores' \in Seq(Restore) /\ Len(restores') = Len(restores)
  BY <1>1
<1> QED
  BY <1>1, <1>2

LEMMA ActiveStep ==
  ASSUME IInv, job.pc \in Active, UNCHANGED <<checkpoints, preview, sourceEdits>>,
         source' \in [SourcePaths -> Contents],
         NEW j \in Job, job' = j, j.pc \in Active, j.targets = job.targets,
         j.expected = job.expected, j.backup = job.backup,
         NEW row \in Restore, restores' = [restores EXCEPT ![Len(restores)] = row],
         RowOK(row), Follows(row, j, PathsOf(j.applied)), Compared(j, source')
  PROVE  IInv'
<1>1. /\ restores' \in Seq(Restore) /\ restores' # <<>> /\ restores'[Len(restores')] = row
      /\ \A i \in DOMAIN restores' : (i \in DOMAIN restores /\ restores'[i] = restores[i]) \/ restores'[i] = row
  BY RunningIs, RowIsReplaced
<1>2. CheckpointsTypeOK'
  BY <1>1, TypeIs, TypeIsNext DEF IInv
<1>3. (\A i \in DOMAIN restores : RowOK(restores[i]))'
  BY <1>1, NewRow
<1>4. JobOK'
  <2>1. Follows(restores[Len(restores)], job, Applied)'
    BY <1>1 DEF Follows, Applied, PathsOf
  <2>2. Kept(job.backup, job.expected)' /\ DOMAIN job'.expected = DOMAIN job'.targets
    BY DEF IInv, JobOK, Kept, Active
  <2> QED
    BY <1>1, <2>1, <2>2 DEF JobOK, Active, Compared
<1> QED
  BY <1>2, <1>3, <1>4 DEF IInv

LEMMA LastStep ==
  ASSUME IInv, job.pc \in Active, UNCHANGED <<source, checkpoints, preview, sourceEdits>>,
         job' = NoJob,
         NEW row \in Restore, restores' = [restores EXCEPT ![Len(restores)] = row], RowOK(row)
  PROVE  IInv'
<1>1. /\ restores' \in Seq(Restore)
      /\ \A i \in DOMAIN restores' : (i \in DOMAIN restores /\ restores'[i] = restores[i]) \/ restores'[i] = row
  BY RunningIs, RowIsReplaced
<1>2. CheckpointsTypeOK'
  BY <1>1, NoJobIs, TypeIs, TypeIsNext DEF IInv
<1>3. (\A i \in DOMAIN restores : RowOK(restores[i]))'
  BY <1>1, NewRow
<1> QED
  BY <1>2, <1>3, NoJobIs, EarlyJob DEF IInv, Active

-----------------------------------------------------------------------------
LEMMA CompareFileStep ==
  ASSUME IInv, NEW p \in SourcePaths, CompareFile(p)
  PROVE  IInv'
<1> DEFINE row == restores[Len(restores)]
<1>1. /\ job.pc = "apply" /\ p \in DOMAIN job.targets
      /\ UNCHANGED <<source, checkpoints, restores, preview, sourceEdits>>
  BY DEF CompareFile
<1>2. job.pc \in Active
  BY <1>1 DEF Active
<1>3. /\ job \in Job /\ row \in Restore /\ RowOK(row) /\ Follows(row, job, PathsOf(job.applied))
      /\ restores' = [restores EXCEPT ![Len(restores)] = row]
  BY <1>1, <1>2, RunningIs DEF Running
<1>4. source' \in [SourcePaths -> Contents]
  BY <1>1, TypeIs DEF IInv
<1> HIDE DEF row
<1>5. CASE source[p] = job.expected[p] /\ job' = Doing("publish", p)
  <2> DEFINE j == Doing("publish", p)
  <2>1. /\ j \in Job /\ j.pc = "publish" /\ j.doing = p /\ j.targets = job.targets
        /\ j.expected = job.expected /\ j.backup = job.backup /\ j.applied = job.applied
    BY <1>3 DEF Job, Doing
  <2> HIDE DEF j
  <2>2. Follows(row, j, PathsOf(j.applied)) /\ Compared(j, source')
    BY <1>1, <1>3, <1>5, <2>1 DEF Follows, Compared
  <2>3. job' = j
    BY <1>5 DEF j
  <2> QED
    BY <1>1, <1>2, <1>3, <1>4, <2>1, <2>2, <2>3, ActiveStep DEF Active
<1>6. CASE job' = Doing("rollback", NoPath)
  <2> DEFINE j == Doing("rollback", NoPath)
  <2>1. /\ j \in Job /\ j.pc = "rollback" /\ j.targets = job.targets
        /\ j.expected = job.expected /\ j.backup = job.backup /\ j.applied = job.applied
    BY <1>3 DEF Job, Doing
  <2> HIDE DEF j
  <2>2. Follows(row, j, PathsOf(j.applied)) /\ Compared(j, source')
    BY <1>1, <1>3, <2>1 DEF Follows, Compared
  <2>3. job' = j
    BY <1>6 DEF j
  <2> QED
    BY <1>1, <1>2, <1>3, <1>4, <2>1, <2>2, <2>3, ActiveStep DEF Active
<1> QED
  BY <1>5, <1>6 DEF CompareFile

LEMMA PublishesTypes ==
  ASSUME IInv, NEW p, NEW from, NEW to \in Readable, Publishes(p, from, to)
  PROVE  source' \in [SourcePaths -> Contents]
  BY TypeIs DEF IInv, Publishes, Readable

(* What is replaced was compared before, or edited since, and then it is   *)
(* no file that came where none was.                                       *)
LEMMA TakenIs ==
  ASSUME IInv, job \in Job, NEW p \in SourcePaths, NEW from, NEW to, NEW way \in {"out", "back"},
         Publishes(p, from, to), ~job.raced => source[p] = from,
         NEW t, t = Taken(p, from, to, way)
  PROVE  /\ t \in Taking /\ t.path = p /\ t.way = way
         /\ t.content = from \/ (t.raced /\ from # Absent)
<1> DEFINE content == IF from = Absent /\ to = Absent THEN Absent ELSE source[p]
<1>1. content \in Contents /\ job.raced \in BOOLEAN
  BY TypeIs, CheckpointConstants DEF IInv, Job
<1>2. content = from \/ (job.raced /\ from # Absent)
  BY DEF Publishes
<1>3. t = [path |-> p, content |-> content, way |-> way, raced |-> job.raced]
  BY DEF Taken
<1> HIDE DEF content
<1> QED
  BY <1>1, <1>2, <1>3 DEF Taking

(* The row after p was published or taken back.                            *)
PutOf(row, put, broke, t) == [row EXCEPT !.put = put, !.broke = broke, !.took = @ \cup {t}]
LEMMA PutRow ==
  ASSUME NEW row \in Restore, RowOK(row), row.status = "applying",
         NEW put \in SUBSET DOMAIN row.targets, put \subseteq SourcePaths,
         NEW broke \in SourcePaths \cup {NoPath},
         NEW t \in Taking, t.path \in DOMAIN row.targets, Accounted(row, t),
         NEW new, new = PutOf(row, put, broke, t)
  PROVE  /\ new \in Restore /\ RowOK(new) /\ new.put = put /\ new.broke = broke
         /\ new.status = "applying" /\ new.targets = row.targets /\ new.expected = row.expected
<1> DEFINE took == row.took \cup {t}
<1>1. took \in SUBSET Taking
  BY DEF Restore
<1>2. new = [row EXCEPT !.put = put, !.broke = broke, !.took = took]
  BY DEF PutOf
<1>3. \A u \in took : u.path \in DOMAIN row.targets /\ Accounted(row, u)
  BY DEF RowOK
<1> HIDE DEF took
<1>4. /\ new \in Restore /\ new.put = put /\ new.broke = broke /\ new.backup = row.backup
      /\ new.status = "applying" /\ new.targets = row.targets /\ new.expected = row.expected
      /\ new.took = took
  BY <1>1, <1>2 DEF Restore
<1>5. \A u \in new.took : u.path \in DOMAIN new.targets /\ Accounted(new, u)
  BY <1>3, <1>4 DEF Accounted
<1>6. RowOK(new)
  BY <1>4, <1>5 DEF RowOK
<1> QED
  BY <1>4, <1>6

(* The row when the restore is over.                                       *)
LEMMA EndRow ==
  ASSUME NEW row \in Restore, RowOK(row), NEW status,
         \/ status = "completed" /\ row.put = DOMAIN row.targets
         \/ status = "rolled_back" /\ row.put \subseteq {row.broke}
         \/ status = "needs_recovery",
         NEW new, new = [row EXCEPT !.status = status]
  PROVE  new \in Restore /\ RowOK(new)
<1>1. /\ new \in Restore /\ new.status = status /\ new.put = row.put /\ new.broke = row.broke
      /\ new.backup = row.backup /\ new.targets = row.targets /\ new.expected = row.expected
      /\ new.took = row.took
  BY DEF Restore
<1>2. \A u \in new.took : u.path \in DOMAIN new.targets /\ Accounted(new, u)
  BY <1>1 DEF Accounted, RowOK
<1> QED
  BY <1>1, <1>2 DEF RowOK

LEMMA PublishStep ==
  ASSUME IInv, PublishFile
  PROVE  IInv'
<1> DEFINE row == restores[Len(restores)]
           p == job.doing
<1>1. /\ job.pc = "publish" /\ Publishes(p, job.expected[p], job.targets[p])
      /\ UNCHANGED <<checkpoints, preview, sourceEdits>>
  BY DEF PublishFile
<1>2. job.pc \in Active
  BY <1>1 DEF Active
<1>3. /\ job \in Job /\ row \in Restore /\ RowOK(row) /\ Follows(row, job, PathsOf(job.applied))
      /\ restores \in Seq(Restore) /\ Len(restores) \in DOMAIN restores
  BY <1>2, RunningIs DEF Running
<1>4. /\ p \in DOMAIN job.targets /\ row.put = PathsOf(job.applied) /\ row.targets = job.targets
      /\ row.status = "applying" /\ PathsOf(job.applied) \subseteq DOMAIN job.targets
      /\ row.expected = job.expected
  BY <1>1, <1>3 DEF Follows
<1>5. p \in SourcePaths /\ job.targets[p] \in Readable /\ DOMAIN job.targets \subseteq SourcePaths
  BY <1>3, <1>4, SnapshotHas DEF Job
<1>6. source' \in [SourcePaths -> Contents]
  BY <1>1, <1>5, PublishesTypes
<1> DEFINE put == row.put \cup {p}
           t == Taken(p, job.expected[p], job.targets[p], "out")
           published == [row EXCEPT !.put = @ \cup {p}, !.took = @ \cup {t}]
<1>7. put \in SUBSET DOMAIN row.targets /\ put \subseteq SourcePaths
  BY <1>4, <1>5
<1>10. t \in Taking /\ t.path \in DOMAIN row.targets /\ Accounted(row, t)
  <2>1. ~job.raced => source[p] = job.expected[p]
    BY <1>1 DEF IInv, JobOK, Compared
  <2>2. /\ t \in Taking /\ t.path = p /\ t.way = "out"
        /\ t.content = job.expected[p] \/ (t.raced /\ job.expected[p] # Absent)
    BY <1>1, <1>3, <1>5, <2>1, TakenIs
  <2> HIDE DEF t
  <2> QED
    BY <1>4, <2>2 DEF Accounted
<1>11. \/ /\ job' = [Doing("apply", NoPath) EXCEPT !.applied = Append(@, p)]
          /\ restores' = [restores EXCEPT ![Len(restores)] = published]
       \/ /\ job' = Doing("rollback", NoPath)
          /\ restores' = [restores EXCEPT ![Len(restores)] = [published EXCEPT !.broke = p]]
  BY DEF PublishFile
<1> HIDE DEF p, row, t
<1>12. /\ published = [row EXCEPT !.put = put, !.broke = row.broke, !.took = @ \cup {t}]
       /\ [published EXCEPT !.broke = p] = [row EXCEPT !.put = put, !.broke = p, !.took = @ \cup {t}]
  BY <1>3 DEF Restore
<1> HIDE DEF published
<1>8. CASE /\ job' = [Doing("apply", NoPath) EXCEPT !.applied = Append(@, p)]
           /\ restores' = [restores EXCEPT ![Len(restores)] = published]
  <2> DEFINE j == [Doing("apply", NoPath) EXCEPT !.applied = Append(@, p)]
             new == [row EXCEPT !.put = put, !.broke = row.broke, !.took = @ \cup {t}]
  <2>1. /\ j \in Job /\ j.pc = "apply" /\ j.targets = job.targets
        /\ j.expected = job.expected /\ j.backup = job.backup /\ j.applied = Append(job.applied, p)
    <3> DEFINE longer == Append(job.applied, p)
    <3>1. longer \in Seq(SourcePaths)
      BY <1>3, <1>5 DEF Job
    <3> HIDE DEF longer
    <3>2. j = [job EXCEPT !.pc = "apply", !.doing = NoPath, !.raced = FALSE, !.applied = longer]
      BY <1>3 DEF longer, Doing, Job
    <3>3. [job EXCEPT !.pc = "apply", !.doing = NoPath, !.raced = FALSE, !.applied = longer] \in Job
      BY <1>3, <3>1 DEF Job
    <3> HIDE DEF j
    <3> QED
      BY <1>3, <3>2, <3>3 DEF Job, longer
  <2>2. /\ new \in Restore /\ RowOK(new) /\ new.put = put
        /\ new.status = "applying" /\ new.targets = row.targets /\ new.expected = row.expected
    <3>1. row.broke \in SourcePaths \cup {NoPath}
      BY <1>3 DEF Restore
    <3>2. new = PutOf(row, put, row.broke, t)
      BY DEF PutOf
    <3> HIDE DEF put, new
    <3> QED
      BY <1>3, <1>4, <1>7, <1>10, <3>1, <3>2, PutRow
  <2>3. restores' = [restores EXCEPT ![Len(restores)] = new] /\ job' = j
    BY <1>8, <1>12
  <2>4. PathsOf(j.applied) = put
    <3>1. job.applied \in Seq(SourcePaths)
      BY <1>3 DEF Job
    <3>2. PathsOf(Append(job.applied, p)) = PathsOf(job.applied) \cup {p}
      BY <3>1 DEF PathsOf
    <3> QED
      BY <2>1, <3>2, <1>4
  <2> HIDE DEF j, new, put
  <2>5. put \subseteq DOMAIN job.targets
    BY <1>4, <1>7
  <2>6. Follows(new, j, PathsOf(j.applied))
    BY <1>4, <2>1, <2>2, <2>4, <2>5 DEF Follows
  <2>7. Compared(j, source')
    BY <2>1 DEF Compared
  <2> QED
    BY <1>1, <1>2, <1>6, <2>1, <2>2, <2>3, <2>6, <2>7, ActiveStep DEF Active
<1>9. CASE /\ job' = Doing("rollback", NoPath)
           /\ restores' = [restores EXCEPT ![Len(restores)] = [published EXCEPT !.broke = p]]
  <2> DEFINE j == Doing("rollback", NoPath)
             new == [row EXCEPT !.put = put, !.broke = p, !.took = @ \cup {t}]
  <2>1. /\ j \in Job /\ j.pc = "rollback" /\ j.targets = job.targets
        /\ j.expected = job.expected /\ j.backup = job.backup /\ j.applied = job.applied
    BY <1>3 DEF Job, Doing
  <2>2. /\ new \in Restore /\ RowOK(new) /\ new.put = put /\ new.broke = p
        /\ new.status = "applying" /\ new.targets = row.targets /\ new.expected = row.expected
    <3>1. p \in SourcePaths \cup {NoPath}
      BY <1>5
    <3>2. new = PutOf(row, put, p, t)
      BY DEF PutOf
    <3> HIDE DEF put, new
    <3> QED
      BY <1>3, <1>4, <1>7, <1>10, <3>1, <3>2, PutRow
  <2>3. restores' = [restores EXCEPT ![Len(restores)] = new] /\ job' = j
    BY <1>9, <1>12
  <2> HIDE DEF j, new
  <2>4. Follows(new, j, PathsOf(j.applied)) /\ Compared(j, source')
    BY <1>4, <2>1, <2>2 DEF Follows, Compared
  <2> QED
    BY <1>1, <1>2, <1>6, <2>1, <2>2, <2>3, <2>4, ActiveStep DEF Active
<1> QED
  BY <1>8, <1>9, <1>11

(* A step of the restore that leaves its row alone.                        *)
LEMMA SameRowStep ==
  ASSUME IInv, job.pc \in Active,
         UNCHANGED <<source, checkpoints, restores, preview, sourceEdits>>,
         NEW j \in Job, job' = j, j.pc \in Active, j.targets = job.targets,
         j.expected = job.expected, j.backup = job.backup,
         Follows(restores[Len(restores)], j, PathsOf(j.applied)), Compared(j, source)
  PROVE  IInv'
<1> DEFINE row == restores[Len(restores)]
<1>1. row \in Restore /\ RowOK(row) /\ restores' = [restores EXCEPT ![Len(restores)] = row]
  BY RunningIs
<1>2. source' \in [SourcePaths -> Contents]
  BY TypeIs DEF IInv
<1> HIDE DEF row
<1>3. Follows(row, j, PathsOf(j.applied))
  BY DEF row
<1> QED
  BY <1>1, <1>2, <1>3, ActiveStep

LEMMA PublishFailsStep ==
  ASSUME IInv, PublishFails
  PROVE  IInv'
<1> DEFINE j == Doing("rollback", NoPath)
<1>1. /\ job.pc = "publish" /\ UNCHANGED <<source, checkpoints, restores, preview, sourceEdits>>
      /\ job' = j
  BY DEF PublishFails
<1>2. job.pc \in Active
  BY <1>1 DEF Active
<1>3. job \in Job /\ Follows(restores[Len(restores)], job, PathsOf(job.applied))
  BY <1>2, RunningIs DEF Running
<1>4. /\ j \in Job /\ j.pc = "rollback" /\ j.targets = job.targets
      /\ j.expected = job.expected /\ j.backup = job.backup /\ j.applied = job.applied
  BY <1>3 DEF Job, Doing
<1> HIDE DEF j
<1>5. Follows(restores[Len(restores)], j, PathsOf(j.applied)) /\ Compared(j, source)
  BY <1>1, <1>3, <1>4 DEF Follows, Compared
<1> QED
  BY <1>1, <1>2, <1>4, <1>5, SameRowStep DEF Active

(* What is left to be taken back.                                          *)
LEMMA UntakenIs ==
  ASSUME job \in Job, job.applied # <<>>
  PROVE  /\ Untaken \in Job /\ Untaken.pc = "rollback" /\ Untaken.targets = job.targets
         /\ Untaken.expected = job.expected /\ Untaken.backup = job.backup /\ ~Untaken.clean
         /\ PathsOf(Untaken.applied) \subseteq PathsOf(job.applied)
         /\ PathsOf(job.applied) \subseteq PathsOf(Untaken.applied) \cup {job.applied[Len(job.applied)]}
<1> DEFINE rest == SubSeq(job.applied, 1, Len(job.applied) - 1)
<1>1. job.applied \in Seq(SourcePaths) /\ Len(job.applied) \in Nat \ {0}
  BY DEF Job
<1>2. /\ rest \in Seq(SourcePaths)
      /\ DOMAIN rest = 1..(Len(job.applied) - 1)
      /\ \A i \in DOMAIN rest : rest[i] = job.applied[i]
  BY <1>1
<1>3. /\ PathsOf(rest) \subseteq PathsOf(job.applied)
      /\ PathsOf(job.applied) \subseteq PathsOf(rest) \cup {job.applied[Len(job.applied)]}
  BY <1>1, <1>2 DEF PathsOf
<1> HIDE DEF rest
<1>4. Untaken = [job EXCEPT !.pc = "rollback", !.doing = NoPath, !.raced = FALSE, !.applied = rest,
                            !.clean = FALSE]
  BY DEF Untaken, Doing, Job, rest
<1>5. /\ Untaken \in Job /\ Untaken.pc = "rollback" /\ Untaken.targets = job.targets
      /\ Untaken.expected = job.expected /\ Untaken.backup = job.backup /\ ~Untaken.clean
      /\ Untaken.applied = rest
  BY <1>2, <1>4 DEF Job
<1> QED
  BY <1>3, <1>5

LEMMA UntakenStep ==
  ASSUME IInv, job.pc \in {"rollback", "unpublish"}, job.applied # <<>>, job' = Untaken,
         UNCHANGED <<source, checkpoints, restores, preview, sourceEdits>>
  PROVE  IInv'
<1> DEFINE j == Untaken
<1>1. job.pc \in Active
  BY DEF Active
<1>2. job \in Job /\ Follows(restores[Len(restores)], job, PathsOf(job.applied))
  BY <1>1, RunningIs DEF Running
<1>3. /\ j \in Job /\ j.pc = "rollback" /\ j.targets = job.targets
      /\ j.expected = job.expected /\ j.backup = job.backup /\ ~j.clean
      /\ PathsOf(j.applied) \subseteq PathsOf(job.applied)
  BY <1>2, UntakenIs
<1> HIDE DEF j
<1>4. Follows(restores[Len(restores)], j, PathsOf(j.applied)) /\ Compared(j, source)
  BY <1>2, <1>3 DEF Follows, Compared
<1>5. job' = j
  BY DEF j
<1> QED
  BY <1>1, <1>3, <1>4, <1>5, SameRowStep DEF Active

LEMMA RollbackStep ==
  ASSUME IInv, RollbackFile
  PROVE  IInv'
<1>1. /\ job.pc = "rollback" /\ job.applied # <<>>
      /\ UNCHANGED <<source, checkpoints, restores, preview, sourceEdits>>
  BY DEF RollbackFile
<1>2. CASE job' = Untaken
  BY <1>1, <1>2, UntakenStep
<1> DEFINE p == job.applied[Len(job.applied)]
           j == Doing("unpublish", p)
<1>3. CASE source[p] = job.targets[p] /\ job' = j
  <2>1. job.pc \in Active
    BY <1>1 DEF Active
  <2>2. job \in Job /\ Follows(restores[Len(restores)], job, PathsOf(job.applied))
    BY <2>1, RunningIs DEF Running
  <2>3. job.applied[Len(job.applied)] \in SourcePaths
    <3>1. job.applied \in Seq(SourcePaths)
      BY <2>2 DEF Job
    <3> QED
      BY <1>1, <3>1
  <2>4. /\ j \in Job /\ j.pc = "unpublish" /\ j.targets = job.targets
        /\ j.expected = job.expected /\ j.backup = job.backup /\ j.applied = job.applied
        /\ j.doing = job.applied[Len(job.applied)] /\ j.clean = job.clean
    BY <2>2, <2>3 DEF Job, Doing
  <2>6. p \in SourcePaths /\ source[p] = job.targets[p]
    BY <1>3, <2>3
  <2> HIDE DEF j
  <2>5. Follows(restores[Len(restores)], j, PathsOf(j.applied)) /\ Compared(j, source)
    <3>1. Follows(restores[Len(restores)], j, PathsOf(j.applied))
      BY <1>1, <2>2, <2>4 DEF Follows
    <3>2. Compared(j, source)
      BY <2>4, <2>6 DEF Compared
    <3> QED
      BY <3>1, <3>2
  <2> QED
    BY <1>1, <1>3, <2>1, <2>4, <2>5, SameRowStep DEF Active
<1> QED
  BY <1>2, <1>3 DEF RollbackFile

LEMMA UnpublishFailsStep ==
  ASSUME IInv, UnpublishFails
  PROVE  IInv'
<1>1. /\ job.pc = "unpublish" /\ job' = Untaken
      /\ UNCHANGED <<source, checkpoints, restores, preview, sourceEdits>>
  BY DEF UnpublishFails
<1>2. job.applied # <<>>
  BY <1>1, RunningIs DEF Active, Follows
<1> QED
  BY <1>1, <1>2, UntakenStep

LEMMA UnpublishStep ==
  ASSUME IInv, UnpublishFile
  PROVE  IInv'
<1> DEFINE row == restores[Len(restores)]
           p == job.doing
           put == row.put \ {p}
           t == Taken(p, job.targets[p], job.expected[p], "back")
<1>1. /\ job.pc = "unpublish" /\ Publishes(p, job.targets[p], job.expected[p])
      /\ UNCHANGED <<checkpoints, preview, sourceEdits>>
      /\ restores' = [restores EXCEPT ![Len(restores)] = [row EXCEPT !.put = @ \ {p}, !.took = @ \cup {t}]]
      /\ job' \in {[Untaken EXCEPT !.clean = job.clean], Untaken}
  BY DEF UnpublishFile
<1>2. job.pc \in Active
  BY <1>1 DEF Active
<1>3. /\ job \in Job /\ row \in Restore /\ RowOK(row) /\ Follows(row, job, PathsOf(job.applied))
      /\ restores \in Seq(Restore) /\ Len(restores) \in DOMAIN restores
  BY <1>2, RunningIs DEF Running
<1>4. /\ job.applied # <<>> /\ p = job.applied[Len(job.applied)] /\ row.targets = job.targets
      /\ row.status = "applying" /\ PathsOf(job.applied) \subseteq DOMAIN job.targets
      /\ row.expected = job.expected
      /\ job.clean => row.put \subseteq PathsOf(job.applied) \cup {row.broke}
  BY <1>1, <1>3 DEF Follows
<1>5. p \in DOMAIN job.targets
  <2>1. job.applied \in Seq(SourcePaths)
    BY <1>3 DEF Job
  <2>2. p \in PathsOf(job.applied)
    BY <1>4, <2>1 DEF PathsOf
  <2> QED
    BY <1>4, <2>2
<1>6. job.expected[p] \in Readable
  <2>1. job.expected \in Snapshots /\ DOMAIN job.expected = DOMAIN job.targets
    BY <1>1, <1>3 DEF Job, IInv, JobOK
  <2> QED
    BY <1>5, <2>1, SnapshotHas
<1>7. source' \in [SourcePaths -> Contents]
  BY <1>1, <1>6, PublishesTypes
<1>14. t \in Taking /\ t.path \in DOMAIN row.targets /\ Accounted(row, t)
  <2>1. ~job.raced => source[p] = job.targets[p]
    BY <1>1 DEF IInv, JobOK, Compared
  <2>2. p \in SourcePaths
    BY <1>3, <1>5, SnapshotHas DEF Job
  <2>3. /\ t \in Taking /\ t.path = p /\ t.way = "back"
        /\ t.content = job.targets[p] \/ (t.raced /\ job.targets[p] # Absent)
    BY <1>1, <1>3, <2>1, <2>2, TakenIs
  <2> HIDE DEF t
  <2> QED
    BY <1>4, <1>5, <2>3 DEF Accounted
<1> HIDE DEF t
<1> DEFINE new == [row EXCEPT !.put = put, !.broke = row.broke, !.took = @ \cup {t}]
<1>8. /\ new \in Restore /\ RowOK(new) /\ new.put = put /\ new.broke = row.broke
      /\ new.status = "applying" /\ new.targets = row.targets /\ new.expected = row.expected
  <2>1. put \in SUBSET DOMAIN row.targets /\ put \subseteq SourcePaths
    BY <1>3 DEF RowOK, Restore
  <2>2. row.broke \in SourcePaths \cup {NoPath}
    BY <1>3 DEF Restore
  <2>3. new = PutOf(row, put, row.broke, t)
    BY DEF PutOf
  <2> HIDE DEF put, row, new
  <2> QED
    BY <1>3, <1>4, <1>14, <2>1, <2>2, <2>3, PutRow
<1>9. restores' = [restores EXCEPT ![Len(restores)] = new]
  <2>1. new = [row EXCEPT !.put = @ \ {p}, !.took = @ \cup {t}]
    BY <1>3 DEF Restore
  <2> QED
    BY <1>1, <2>1
<1>10. /\ Untaken \in Job /\ Untaken.pc = "rollback" /\ Untaken.targets = job.targets
       /\ Untaken.expected = job.expected /\ Untaken.backup = job.backup /\ ~Untaken.clean
       /\ PathsOf(Untaken.applied) \subseteq PathsOf(job.applied)
       /\ PathsOf(job.applied) \subseteq PathsOf(Untaken.applied) \cup {p}
  BY <1>3, <1>4, UntakenIs
<1>11. ASSUME NEW j \in Job, job' = j, j.pc = "rollback", j.targets = job.targets,
              j.expected = job.expected, j.backup = job.backup, j.applied = Untaken.applied,
              j.clean => job.clean
       PROVE  IInv'
  <2>1. Follows(new, j, PathsOf(j.applied)) /\ Compared(j, source')
    <3> HIDE DEF new
    <3> QED
      BY <1>4, <1>8, <1>10, <1>11 DEF Follows, Compared
  <2> HIDE DEF new
  <2> QED
    BY <1>1, <1>2, <1>7, <1>8, <1>9, <1>11, <2>1, ActiveStep DEF Active
<1>12. CASE job' = Untaken
  BY <1>10, <1>11, <1>12
<1>13. CASE job' = [Untaken EXCEPT !.clean = job.clean]
  <2> DEFINE j == [Untaken EXCEPT !.clean = job.clean]
  <2>1. /\ j \in Job /\ j.pc = "rollback" /\ j.targets = job.targets
        /\ j.expected = job.expected /\ j.backup = job.backup /\ j.applied = Untaken.applied
        /\ j.clean = job.clean
    BY <1>3, <1>10 DEF Job
  <2> HIDE DEF j
  <2>2. job' = j
    BY <1>13 DEF j
  <2> QED
    BY <1>11, <2>1, <2>2
<1> QED
  BY <1>1, <1>12, <1>13

-----------------------------------------------------------------------------
(* The ways a restore ends.                                                *)

LEMMA CompleteStep ==
  ASSUME IInv, CompleteRestore
  PROVE  IInv'
<1> DEFINE row == restores[Len(restores)]
<1>1. /\ job.pc = "apply" /\ Applied = DOMAIN job.targets /\ job' = NoJob
      /\ UNCHANGED <<source, checkpoints, preview, sourceEdits>>
  BY DEF CompleteRestore, EndJob
<1>2. job.pc \in Active
  BY <1>1 DEF Active
<1>3. /\ row \in Restore /\ RowOK(row) /\ Follows(row, job, PathsOf(job.applied))
      /\ restores = [restores EXCEPT ![Len(restores)] = row]
  BY <1>2, RunningIs
<1>4. row.put = DOMAIN row.targets /\ row.status = "applying"
  BY <1>1, <1>3 DEF Follows, Applied, PathsOf
<1>5. CASE restores' = restores
  <2> HIDE DEF row
  <2> QED
    BY <1>1, <1>2, <1>3, <1>5, LastStep
<1>6. CASE restores' = [restores EXCEPT ![Len(restores)].status = "completed"]
  <2> DEFINE new == [row EXCEPT !.status = "completed"]
  <2>1. new \in Restore /\ RowOK(new)
    <3> HIDE DEF row
    <3> QED
      BY <1>3, <1>4, EndRow
  <2>2. restores' = [restores EXCEPT ![Len(restores)] = new]
    BY <1>6
  <2> HIDE DEF new
  <2> QED
    BY <1>1, <1>2, <2>1, <2>2, LastStep
<1> QED
  BY <1>5, <1>6 DEF CompleteRestore

LEMMA RolledBackStep ==
  ASSUME IInv, RestoreRolledBack
  PROVE  IInv'
<1> DEFINE row == restores[Len(restores)]
           status == IF job.clean THEN "rolled_back" ELSE "needs_recovery"
<1>1. /\ job.pc = "rollback" /\ job.applied = <<>> /\ job' = NoJob
      /\ UNCHANGED <<source, checkpoints, preview, sourceEdits>>
  BY DEF RestoreRolledBack, EndJob
<1>2. job.pc \in Active
  BY <1>1 DEF Active
<1>3. /\ row \in Restore /\ RowOK(row) /\ Follows(row, job, PathsOf(job.applied))
      /\ restores = [restores EXCEPT ![Len(restores)] = row]
  BY <1>2, RunningIs
<1>4. job.clean => row.put \subseteq {row.broke}
  <2>1. PathsOf(job.applied) = {}
    BY <1>1 DEF PathsOf
  <2> QED
    BY <1>1, <1>3, <2>1 DEF Follows
<1>5. CASE restores' = restores
  <2> HIDE DEF row
  <2> QED
    BY <1>1, <1>2, <1>3, <1>5, LastStep
<1>6. CASE restores' = [restores EXCEPT ![Len(restores)].status = status]
  <2> DEFINE new == [row EXCEPT !.status = status]
  <2>1. new \in Restore /\ RowOK(new)
    <3> HIDE DEF row
    <3> QED
      BY <1>3, <1>4, EndRow
  <2>2. restores' = [restores EXCEPT ![Len(restores)] = new]
    BY <1>6
  <2> HIDE DEF new
  <2> QED
    BY <1>1, <1>2, <2>1, <2>2, LastStep
<1> QED
  BY <1>5, <1>6 DEF RestoreRolledBack

LEMMA DiesStep ==
  ASSUME IInv, StoreDies
  PROVE  IInv'
<1>1. job' = NoJob /\ preview' = <<>> /\ UNCHANGED <<source, checkpoints, restores, sourceEdits>>
  BY DEF StoreDies, EndJob
<1>2. CheckpointsTypeOK' /\ JobOK'
  BY <1>1, NoJobIs, NoSnapshot, EarlyJob, TypeIs, TypeIsNext DEF IInv, Active
<1>3. \A k, e : Kept(k, e) => Kept(k, e)'
  BY <1>1 DEF Kept
<1> QED
  BY <1>1, <1>2, <1>3, SameRows DEF IInv

-----------------------------------------------------------------------------
LEMMA NextIInv == IInv /\ [CheckpointsNext]_checkpointVars => IInv'
<1> SUFFICES ASSUME IInv, [CheckpointsNext]_checkpointVars PROVE IInv'
  OBVIOUS
<1>1. CASE UNCHANGED checkpointVars
  <2>1. UNCHANGED <<source, checkpoints, restores, preview, job, sourceEdits>>
    BY <1>1 DEF checkpointVars
  <2>2. CheckpointsTypeOK'
    BY <2>1, TypeIs, TypeIsNext DEF IInv
  <2>3. \A k, e : Kept(k, e) => Kept(k, e)'
    BY <2>1 DEF Kept
  <2> QED
    BY <2>1, <2>2, <2>3, SameRows, SameJob DEF IInv
<1>2. ASSUME NEW p \in SourcePaths, NEW content \in Contents, EditSource(p, content) PROVE IInv'
  BY <1>2, EditStep
<1>3. CASE Capture \/ Compare
  BY <1>3, CaptureStep, CompareStep
<1>4. ASSUME NEW k \in DOMAIN checkpoints, NEW paths \in SUBSET SourcePaths, StartRestore(k, paths)
      PROVE IInv'
  BY <1>4, RestoreStep
<1>5. ASSUME NEW k \in DOMAIN checkpoints, NEW p \in SourcePaths, NEW target \in Contents,
             StartReject(k, p, target)
      PROVE IInv'
  BY <1>5, RejectStep
<1>6. CASE CheckReviewed \/ BackUp \/ RecordRestore
  BY <1>6, CheckStep, BackUpStep, RecordStep
<1>7. ASSUME NEW p \in SourcePaths, CompareFile(p) PROVE IInv'
  BY <1>7, CompareFileStep
<1>8. CASE PublishFile \/ PublishFails \/ CompleteRestore
  BY <1>8, PublishStep, PublishFailsStep, CompleteStep
<1>9. CASE RollbackFile \/ UnpublishFile \/ UnpublishFails \/ RestoreRolledBack
  BY <1>9, RollbackStep, UnpublishStep, UnpublishFailsStep, RolledBackStep
<1>10. CASE StoreDies
  BY <1>10, DiesStep
<1> QED
  BY <1>1, <1>2, <1>3, <1>4, <1>5, <1>6, <1>7, <1>8, <1>9, <1>10 DEF CheckpointsNext

LEMMA AlwaysIInv == CheckpointsSpec => []IInv
  BY InitIInv, NextIInv, PTL DEF CheckpointsSpec

-----------------------------------------------------------------------------
(* The variables keep their types.                                         *)
THEOREM CheckpointsTypeCorrect == CheckpointsSpec => []CheckpointsTypeOK
<1>1. IInv => CheckpointsTypeOK
  BY DEF IInv
<1> QED
  BY <1>1, AlwaysIInv, PTL

(* What a restore replaced is in its backup, or is what it had put there   *)
(* itself, but for an existing file edited after its last comparison.      *)
THEOREM RestoresAreBackedUp == CheckpointsSpec => []BackedUp
<1>1. ASSUME IInv, NEW i \in DOMAIN restores, NEW taken \in restores[i].took
      PROVE  taken.content = Known(restores[i], taken) \/ (taken.raced /\ Known(restores[i], taken) # Absent)
  BY <1>1 DEF IInv, RowOK, Accounted, Known, Kept
<1>2. IInv => BackedUp
  BY <1>1 DEF BackedUp
<1> QED
  BY <1>2, AlwaysIInv, PTL

(* A row says completed or rolled_back only of a restore that published    *)
(* everything, or left nothing but the file that broke after the fact.     *)
THEOREM StatusesAreTrue == CheckpointsSpec => []StatusIsTrue
<1>1. IInv => StatusIsTrue
  BY DEF IInv, RowOK, StatusIsTrue
<1> QED
  BY <1>1, AlwaysIInv, PTL
=============================================================================
