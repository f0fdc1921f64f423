------------------------------ MODULE JobQueue ------------------------------
(***************************************************************************)
(* The `jobs` table and the statements jobs_store.py runs against it, as   *)
(* functions from table to table.  A row is addressed by UNIQUE(run_id,    *)
(* file_path).  Timestamps, last_error and the heartbeat columns are left  *)
(* out: nothing the worker decides depends on them.                        *)
(***************************************************************************)
EXTENDS Naturals, FiniteSets

CONSTANTS
  Runs,         \* run ids, numbered in order of runs.created_at
  Files,        \* resume paths, numbered in the order `sorted(folder.rglob)` gives
  WorkerIds,    \* values of settings.worker_id / --worker-id
  NoWorker,     \* claimed_by IS NULL
  MaxAttempts,  \* settings.job_max_attempts
  FastLaneMax   \* settings.fast_lane_max_files

ASSUME QueueAssumption ==
  /\ Runs \subseteq Nat /\ IsFiniteSet(Runs)
  /\ Files \subseteq Nat /\ IsFiniteSet(Files)
  /\ NoWorker \notin WorkerIds
  /\ MaxAttempts \in Nat \ {0}
  /\ FastLaneMax \in Nat

Jobs == Runs \X Files

JobStatus == {"absent", "pending", "claimed", "done", "failed"}

(* `scan` says which of the run's inserting snapshots created the row: the *)
(* autoincrement id orders the rows of one run by (scan, path).            *)
Row == [status : JobStatus, attempts : Nat,
        owner : WorkerIds \cup {NoWorker}, scan : Nat]

NoRow == [status |-> "absent", attempts |-> 0, owner |-> NoWorker, scan |-> 0]

FilesIn(job, r, statuses) == {f \in Files : job[<<r, f>>].status \in statuses}

-----------------------------------------------------------------------------
(* snapshot_folder: INSERT OR IGNORE one pending row per eligible file.    *)
Missing(job, r, folder) == folder \cap FilesIn(job, r, {"absent"})

Snapshot(job, r, folder, scan) ==
  [j \in Jobs |->
     IF j[1] = r /\ j[2] \in Missing(job, r, folder)
     THEN [NoRow EXCEPT !.status = "pending", !.scan = scan]
     ELSE job[j]]

(* The ORDER BY of claim_next: fast lane, run age, job id.                 *)
Lane(job, aged, r) ==
  IF Cardinality(FilesIn(job, r, {"pending"})) <= FastLaneMax \/ r \in aged
  THEN 0 ELSE 1

\* Slip: the newest run first.
NewestFirst(job, aged, j, k) ==
  LET lj == Lane(job, aged, j[1])
      lk == Lane(job, aged, k[1])
  IN \/ lj < lk
     \/ lj = lk /\ j[1] > k[1]
     \/ j[1] = k[1] /\ j[2] < k[2]

Before(job, aged, j, k) ==
  LET lj == Lane(job, aged, j[1])
      lk == Lane(job, aged, k[1])
  IN \/ lj < lk
     \/ lj = lk /\ j[1] < k[1]
     \/ j[1] = k[1] /\ job[j].scan < job[k].scan
     \/ j[1] = k[1] /\ job[j].scan = job[k].scan /\ j[2] < k[2]

Eligible(job, active) ==
  {j \in Jobs : j[1] \in active /\ job[j].status = "pending"}

(* The SELECT ... LIMIT 1 of claim_next: empty, or the one job it picks.   *)
ClaimNext(job, active, aged) ==
  {j \in Eligible(job, active) :
     \A k \in Eligible(job, active) : k = j \/ Before(job, aged, j, k)}

Claimed(row, w) ==
  [row EXCEPT !.status = "claimed", !.owner = w, !.attempts = @ + 1]

\* Slip: the word the runs table uses, not the one of the jobs table.
CompletedAsRun(row) == [row EXCEPT !.status = "completed"]

(* complete: WHERE id = ?, whatever the row's status and owner are.        *)
Completed(row) == [row EXCEPT !.status = "done"]

\* Slip: one retry too many.
FailedLate(row, retryable) ==
  [row EXCEPT !.status = IF retryable /\ row.attempts <= MaxAttempts
                         THEN "pending" ELSE "failed",
              !.owner = NoWorker]

\* Slip: a failure is only counted, not requeued.
FailedAtCapOnly(row, retryable) ==
  IF retryable /\ row.attempts < MaxAttempts THEN row ELSE [row EXCEPT !.status = "failed"]

(* fail: back to the queue, or retired once the attempts are spent.        *)
Failed(row, retryable) ==
  [row EXCEPT !.status = IF retryable /\ row.attempts < MaxAttempts
                         THEN "pending" ELSE "failed",
              !.owner = NoWorker]

Requeued(row) == [row EXCEPT !.status = "pending", !.owner = NoWorker]

\* Slip: a restart leaves the claims of the previous process alone.
ReclaimNothing(job, w) == job

ReclaimOrphaned(job, w) ==
  [j \in Jobs |-> IF job[j].status = "claimed" /\ job[j].owner = w
                  THEN Requeued(job[j]) ELSE job[j]]

\* Slip: the abort requeues every job of the run, closed ones too.
AbortEveryJob(job, r) ==
  [j \in Jobs |-> IF j[1] = r /\ job[j].status # "absent"
                  THEN Requeued(job[j]) ELSE job[j]]

AbortRunJobs(job, r) ==
  [j \in Jobs |-> IF j[1] = r /\ job[j].status = "claimed"
                  THEN Requeued(job[j]) ELSE job[j]]

(* RunProgress.total and RunProgress.is_complete.                          *)
HasJobs(job, r) == FilesIn(job, r, JobStatus \ {"absent"}) # {}

\* Slip: a run is complete as soon as nothing is claimed.
NothingClaimed(job, r) ==
  HasJobs(job, r) /\ FilesIn(job, r, {"claimed"}) = {}

IsComplete(job, r) ==
  HasJobs(job, r) /\ FilesIn(job, r, {"pending", "claimed"}) = {}
=============================================================================
