------------------------------ MODULE Screener ------------------------------
(***************************************************************************)
(* The screening system around its database: reviewers who create, rescan, *)
(* start and abort runs, and worker processes that claim one job at a      *)
(* time, look for a cached judgment, screen, save and close.  Every        *)
(* service method that opens one unit of work is one action; what the      *)
(* worker does between two units of work is where the others interleave.   *)
(***************************************************************************)
EXTENDS JobQueue

CONSTANTS
  Procs,        \* operating-system processes that run a Worker
  WorkerIdOf,   \* the worker_id each of them was started with
  Shas,         \* contents, by sha256
  Content,      \* the content of each file
  NoSha,        \* the empty file_sha256 of a file rejected at intake
  Rejected,     \* the files validate_file refuses
  Conditions,   \* values of the seven cache key fields besides the sha
  ConditionOf,  \* the ones each run was created under
  FolderOf,     \* the files that may ever lie in the folder of its position
  NoJob, NoDraft, Nobody,  \* None, in memory and in history
  FaultsHappen, \* bound: whether the model server, the schema check or the database fails
  Old,          \* bound: the runs that may come to exceed run_aging_hours
  MaxCrashes,   \* bound: worker crashes in a behaviour
  MaxAborts     \* bound: abort_run calls in a behaviour

Keys == Shas \cup {NoSha}

(* What a saved row says: a judgment (scoreable or not), the outcome of a  *)
(* transient failure, or a rejection at intake.                            *)
Kinds == {"judged", "transient", "rejected"}
Drafts == [key : Keys, kind : Kinds, from : Runs]
Record == [kind : Kinds, by : Files, from : Runs]

ASSUME ScreenerAssumption ==
  /\ WorkerIdOf \in [Procs -> WorkerIds]
  /\ Content \in [Files -> Shas]
  /\ NoSha \notin Shas
  /\ Rejected \subseteq Files
  /\ ConditionOf \in [Runs -> Conditions]
  /\ FolderOf \in [Runs -> SUBSET Files]
  /\ NoJob \notin Jobs /\ NoDraft \notin Drafts
  /\ Nobody \notin Files
  /\ FaultsHappen \in BOOLEAN /\ Old \subseteq Runs
  /\ MaxCrashes \in Nat /\ MaxAborts \in Nat

NoRecord == [kind |-> "none", by |-> Nobody, from |-> Nobody]

VARIABLES
  job,        \* the jobs table
  runStatus,  \* runs.status, "absent" before the run is created
  scans,      \* how many snapshots have inserted rows in each run
  cand,       \* the candidates table by (run, file_sha256); history: the file
              \* it is about, and the run whose screening it comes from
  aged,       \* the runs older than settings.run_aging_hours
  closed,     \* history: scans and candidates as the run's last completion saw them
  pc,         \* where each worker process is
  hand,       \* the Job it holds in memory
  draft,      \* the Candidate it holds in memory
  crashes, aborts

tables == <<job, runStatus, scans, cand, closed>>
counters == <<crashes, aborts>>
procs == <<pc, hand, draft>>
vars == <<tables, aged, procs, counters>>

RunStatus == {"absent", "pending", "running", "completed", "aborted"}
Down == {"stopped", "crashed"}
Busy == {"claimed", "screening", "saving", "failing"}
PC == Down \cup {"idle", "finishing"} \cup Busy

TypeOK ==
  /\ job \in [Jobs -> Row]
  /\ runStatus \in [Runs -> RunStatus]
  /\ scans \in [Runs -> Nat]
  /\ cand \in [Runs \X Keys -> Record \cup {NoRecord}]
  /\ aged \in SUBSET Old
  /\ closed \in [Runs -> [scans : Nat, rated : SUBSET Keys]]
  /\ pc \in [Procs -> PC]
  /\ hand \in [Procs -> Jobs \cup {NoJob}]
  /\ draft \in [Procs -> Drafts \cup {NoDraft}]
  /\ crashes \in 0 .. MaxCrashes
  /\ aborts \in 0 .. MaxAborts
  /\ \A p \in Procs : /\ (hand[p] = NoJob) = (pc[p] \in Down \cup {"idle"})
                      /\ (draft[p] = NoDraft) = (pc[p] # "saving")

Init ==
  /\ job = [j \in Jobs |-> NoRow]
  /\ runStatus = [r \in Runs |-> "absent"]
  /\ scans = [r \in Runs |-> 0]
  /\ cand = [c \in Runs \X Keys |-> NoRecord]
  /\ aged = {}
  /\ closed = [r \in Runs |-> [scans |-> 0, rated |-> {}]]
  /\ pc = [p \in Procs |-> "stopped"]
  /\ hand = [p \in Procs |-> NoJob]
  /\ draft = [p \in Procs |-> NoDraft]
  /\ crashes = 0 /\ aborts = 0
-----------------------------------------------------------------------------
(* Time passes.                                                            *)
Age(r) ==
  /\ r \in Old /\ runStatus[r] # "absent"
  /\ \A q \in Old : q < r => q \in aged
  /\ aged' = aged \cup {r}
  /\ UNCHANGED <<tables, procs, counters>>
-----------------------------------------------------------------------------
(* Reviewers and operators, through the API, the UI or the CLI.            *)
Exists(r) == runStatus[r] # "absent"

(* The position's folder belongs to the world: files come and go between   *)
(* any two looks at it, so each look may find any of them, and ignores the *)
(* ones that have a row.                                                   *)
TakeSnapshot(r) ==
  \E new \in SUBSET Missing(job, r, FolderOf[r]) :
    /\ job' = Snapshot(job, r, new, scans[r] + 1)
    /\ scans' = [scans EXCEPT ![r] = IF new = {} THEN @ ELSE @ + 1]

CreateRun(r) ==
  /\ ~Exists(r)
  /\ \A q \in Runs : q < r => Exists(q)
  /\ runStatus' = [runStatus EXCEPT ![r] = "pending"]
  /\ TakeSnapshot(r)
  /\ UNCHANGED <<cand, closed, aged, procs, counters>>

RescanRun(r) ==
  /\ Exists(r)
  /\ Missing(job, r, FolderOf[r]) # {}  \* or the rescan changes nothing
  /\ TakeSnapshot(r)
  /\ UNCHANGED <<runStatus, cand, closed, aged, procs, counters>>

StartRun(r) ==
  /\ Exists(r)
  /\ HasJobs(job, r)
  /\ runStatus' = [runStatus EXCEPT ![r] = "pending"]
  /\ UNCHANGED <<job, scans, cand, closed, aged, procs, counters>>

AbortRun(r) ==
  /\ Exists(r)
  /\ aborts < MaxAborts
  /\ aborts' = aborts + 1
  /\ job' = AbortRunJobs(job, r)
  /\ runStatus' = [runStatus EXCEPT ![r] = "aborted"]
  /\ UNCHANGED <<scans, cand, closed, aged, procs, crashes>>
-----------------------------------------------------------------------------
(* A worker process.                                                       *)
Goto(p, label) == pc' = [pc EXCEPT ![p] = label]

Startup(p) ==
  /\ pc[p] \in Down
  /\ job' = ReclaimOrphaned(job, WorkerIdOf[p])
  /\ Goto(p, "idle")
  /\ UNCHANGED <<runStatus, scans, cand, closed, aged, hand, draft, counters>>

Active == {r \in Runs : runStatus[r] \in {"pending", "running"}}

Claim(p) ==
  /\ pc[p] = "idle"
  /\ \E j \in ClaimNext(job, Active, aged) :
       /\ job' = [job EXCEPT ![j] = Claimed(@, WorkerIdOf[p])]
       /\ runStatus' = [runStatus EXCEPT ![j[1]] = "running"]
       /\ hand' = [hand EXCEPT ![p] = j]
  /\ Goto(p, "claimed")
  /\ UNCHANGED <<scans, cand, closed, aged, draft, counters>>

\* Slip: whatever was saved may be served again.
AnySaved(row) == row.kind # "none"

Cacheable(row) == row.kind \in {"judged", "rejected"}

\* Slip: the sha alone is the key.
CachedUnderAny(r, sha) ==
  {[key |-> sha, kind |-> cand[<<q, sha>>].kind, from |-> cand[<<q, sha>>].from] :
     q \in {s \in Runs : Cacheable(cand[<<s, sha>>])}}

(* What get_cached can return: a copy of a row filed under equal conditions. *)
Cached(r, sha) ==
  {[key |-> sha, kind |-> cand[<<q, sha>>].kind, from |-> cand[<<q, sha>>].from] :
     q \in {s \in Runs : ConditionOf[s] = ConditionOf[r] /\ Cacheable(cand[<<s, sha>>])}}

Drafted(p, d) ==
  /\ draft' = [draft EXCEPT ![p] = d]
  /\ Goto(p, "saving")

LookUp(p) ==
  /\ pc[p] = "claimed"
  /\ LET r == hand[p][1]
         f == hand[p][2]
     IN \/ \E row \in Cached(r, Content[f]) : Drafted(p, row)
        \/ /\ Goto(p, "screening")  \* no hit, or no file to hash
           /\ UNCHANGED draft
  /\ UNCHANGED <<tables, aged, hand, counters>>

(* screen_one returns: a rejection claims no hash.                         *)
Screen(p) ==
  /\ pc[p] = "screening"
  /\ LET r == hand[p][1]
         f == hand[p][2]
     IN \/ /\ f \notin Rejected
           /\ \E kind \in {"judged", "transient"} :
                Drafted(p, [key |-> Content[f], kind |-> kind, from |-> r])
        \/ Drafted(p, [key |-> NoSha, kind |-> "rejected", from |-> r])
  /\ UNCHANGED <<tables, aged, hand, counters>>

(* UNIQUE(file_sha256, run_id).                                            *)
\* Slip: INSERT OR REPLACE.
KeyIsIgnored(c) == TRUE

KeyIsFree(c) == cand[c] = NoRecord

(* complete_job: the row and the job in one transaction, or, when the run  *)
(* already has a row under that hash, an IntegrityError and neither.       *)
Save(p) ==
  /\ pc[p] = "saving"
  /\ LET j == hand[p]
         c == <<j[1], draft[p].key>>
     IN IF KeyIsFree(c)
        THEN /\ cand' = [cand EXCEPT ![c] = [kind |-> draft[p].kind, by |-> j[2],
                                            from |-> draft[p].from]]
             /\ job' = [job EXCEPT ![j] = Completed(@)]
             /\ Goto(p, "finishing")
        ELSE Goto(p, "failing") /\ UNCHANGED <<cand, job>>
  /\ draft' = [draft EXCEPT ![p] = NoDraft]
  /\ UNCHANGED <<runStatus, scans, closed, aged, hand, counters>>

(* Anything _process raises before complete_job has committed: the model   *)
(* server, the schema check, the trace file, a locked database.            *)
Raise(p) ==
  /\ FaultsHappen
  /\ pc[p] \in {"claimed", "screening", "saving"}
  /\ draft' = [draft EXCEPT ![p] = NoDraft]
  /\ Goto(p, "failing")
  /\ UNCHANGED <<tables, aged, hand, counters>>

\* Slip: a failed job returns before the run is looked at.
FailAndReturn(p) ==
  /\ pc[p] = "failing"
  /\ job' = [job EXCEPT ![hand[p]] = Failed(@, TRUE)]
  /\ hand' = [hand EXCEPT ![p] = NoJob]
  /\ Goto(p, "idle")
  /\ UNCHANGED <<runStatus, scans, cand, closed, aged, draft, counters>>

Fail(p) ==
  /\ pc[p] = "failing"
  /\ job' = [job EXCEPT ![hand[p]] = Failed(@, TRUE)]
  /\ Goto(p, "finishing")
  /\ UNCHANGED <<runStatus, scans, cand, closed, aged, hand, draft, counters>>

Rows(r) == {key \in Keys : cand[<<r, key>>] # NoRecord}

\* Slip: the rate is only ever computed once.
CompletionOnce(r) ==
  IF closed[r].scans = 0 THEN [scans |-> scans[r], rated |-> Rows(r)]
                         ELSE [closed[r] EXCEPT !.scans = scans[r]]

(* What set_rates has just computed the stored rate over.                  *)
Completion(r) == [scans |-> scans[r], rated |-> Rows(r)]

Finish(p) ==
  /\ pc[p] = "finishing"
  /\ LET r == hand[p][1]
     IN IF IsComplete(job, r) /\ r \in Active
        THEN /\ runStatus' = [runStatus EXCEPT ![r] = "completed"]
             /\ closed' = [closed EXCEPT ![r] = Completion(r)]
        ELSE UNCHANGED <<runStatus, closed>>
  /\ hand' = [hand EXCEPT ![p] = NoJob]
  /\ Goto(p, "idle")
  /\ UNCHANGED <<job, scans, cand, aged, draft, counters>>

(* SIGTERM only raises a flag that the loop reads between two jobs.        *)
Stop(p) ==
  /\ pc[p] = "idle"
  /\ Goto(p, "stopped")
  /\ UNCHANGED <<tables, aged, hand, draft, counters>>

(* Power loss, SIGKILL, OOM, or an exception outside run_once's try.       *)
Crash(p) ==
  /\ pc[p] \notin Down
  /\ crashes < MaxCrashes
  /\ crashes' = crashes + 1
  /\ Goto(p, "crashed")
  /\ hand' = [hand EXCEPT ![p] = NoJob]
  /\ draft' = [draft EXCEPT ![p] = NoDraft]
  /\ UNCHANGED <<tables, aged, aborts>>

Work(p) ==
  \/ Claim(p) \/ LookUp(p) \/ Screen(p) \/ Save(p) \/ Raise(p) \/ Fail(p) \/ Finish(p)

Next ==
  \/ \E r \in Runs : \/ Age(r)
                     \/ CreateRun(r) \/ RescanRun(r) \/ StartRun(r) \/ AbortRun(r)
  \/ \E p \in Procs : Work(p) \/ Startup(p) \/ Stop(p) \/ Crash(p)

Spec == Init /\ [][Next]_vars

(* The service manager restarts a worker that died (Restart=on-failure),   *)
(* and a worker that is up keeps taking steps.  Nobody else is fair.       *)
Fairness ==
  \A p \in Procs : WF_vars(Work(p)) /\ WF_vars(pc[p] = "crashed" /\ Startup(p))

FairSpec == Spec /\ Fairness
-----------------------------------------------------------------------------
(* Properties that hold for any number of workers.                         *)

(* No applicant is dropped: a job is closed as done only with a candidate  *)
(* row of its own filed in its run - two files never share one row, which  *)
(* is what a byte-identical twin or a second rejected file would do.       *)
DoneHasResult ==
  \A r \in Runs, f \in Files :
    job[<<r, f>>].status = "done" => \E key \in Keys : cand[<<r, key>>].by = f

(* A claimed job is never stranded: a process with the claiming worker id  *)
(* holds it, or is down and will reclaim it when it starts.                *)
ClaimIsAccounted ==
  \A j \in Jobs : job[j].status = "claimed" =>
    \E p \in Procs : /\ WorkerIdOf[p] = job[j].owner
                     /\ hand[p] = j \/ pc[p] \in Down

(* A result, once filed, is never replaced by a later attempt at the file. *)
ResultsAreFinal ==
  [][\A c \in Runs \X Keys : cand[c] # NoRecord => cand'[c] = cand[c]]_vars

(* A running run whose last job is settled is in the hands of a worker     *)
(* that has yet to look whether the run is complete, unless a worker has   *)
(* crashed: whoever settles a job looks before it takes another, even if   *)
(* several settle the last ones together (Worker.run_once).                *)
SomebodyCloses ==
  \A r \in Runs :
    runStatus[r] = "running" /\ IsComplete(job, r) /\ crashes = 0 =>
      \E p \in Procs : hand[p] \in Jobs /\ hand[p][1] = r
-----------------------------------------------------------------------------
(* Properties of the deployment the code is written for: one worker.       *)
SingleWorker == \A p, q \in Procs : p = q

(* "A saved candidate with an open job gets screened again on resume"      *)
(* (complete_job): no order of aborts, restarts and crashes leaves one.    *)
SavedMeansClosed ==
  \A r \in Runs, key \in Keys :
    cand[<<r, key>>] # NoRecord => job[<<r, cand[<<r, key>>].by>>].status = "done"

(* The stored escalation rate of a completed run was computed over exactly *)
(* the candidates the run shows (finish_run_if_complete).                  *)
RateCoversRun ==
  \A r \in Runs : runStatus[r] = "completed" => closed[r].rated = Rows(r)

(* A completed run has unfinished jobs only if a rescan added them since.  *)
CompletedIsComplete ==
  \A r \in Runs : runStatus[r] = "completed" =>
    \A f \in FilesIn(job, r, {"pending", "claimed"}) : job[<<r, f>>].scan > closed[r].scans

(* Retries beyond job_max_attempts are each paid for by a crash or an      *)
(* abort: fail never grants one, and no restart is charged twice.          *)
AttemptsBounded ==
  \A j \in Jobs : job[j].attempts <= MaxAttempts + crashes + aborts

(* Every step is a step of the abstract ledger, or invisible to it: what   *)
(* is settled stays settled, and a row and its job's closing are one step. *)
EntryOf(status) ==
  CASE status = "absent" -> "unseen"
    [] status \in {"pending", "claimed"} -> "open"
    [] status = "done" -> "reported"
    [] status = "failed" -> "abandoned"

Ledger == INSTANCE ResultLedger
            WITH entry <- [j \in Jobs |-> EntryOf(job[j].status)],
                 filed <- [c \in Runs \X Keys |-> cand[c].by]

ImplementsLedger == Ledger!Spec

(* Every queued job is settled in the end, unless its run is aborted or    *)
(* finished around it or the operator has stopped the worker.              *)
JobSettles ==
  \A j \in Jobs :
    job[j].status \in {"pending", "claimed"} ~>
      \/ job[j].status \in {"done", "failed"}
      \/ j[1] \notin Active
      \/ \A p \in Procs : pc[p] = "stopped"

(* A running run whose last job is settled is closed by the worker that    *)
(* settled it, unless that worker dies in between.                         *)
RunClosesUnlessCrashed ==
  \A r \in Runs :
    runStatus[r] = "running" /\ IsComplete(job, r) /\ crashes = 0 ~>
      \/ ~(runStatus[r] = "running" /\ IsComplete(job, r))
      \/ crashes > 0
      \/ \A p \in Procs : pc[p] = "stopped"
-----------------------------------------------------------------------------
(* Properties of several runs.                                             *)

(* A claim passes over an older run with work queued only to serve a small *)
(* or aged one while the older one is large and not aged (claim_next).     *)
ServedInOrder ==
  [][\A p \in Procs, r \in Runs :
       pc[p] = "idle" /\ pc'[p] = "claimed" /\ r < hand'[p][1]
         /\ r \in Active /\ FilesIn(job, r, {"pending"}) # {}
       => Lane(job, aged, r) = 1 /\ Lane(job, aged, hand'[p][1]) = 0]_vars

(* However often a row is copied from run to run, it goes back to a        *)
(* screening made for a run created under the very conditions of the run   *)
(* it ends up in, and the outcome of a transient failure never leaves the  *)
(* run it happened in (get_cached, cacheable).                             *)
Sound(r, d) ==
  /\ ConditionOf[d.from] = ConditionOf[r]
  /\ d.kind = "transient" => d.from = r

CacheIsSound ==
  \A r \in Runs, key \in Keys :
    cand[<<r, key>>] # NoRecord => Sound(r, cand[<<r, key>>])
-----------------------------------------------------------------------------
(* What the documentation says of the program.                             *)

(* "Nobody drops out of a run without a human seeing it" (validate_file),  *)
(* screen_one "returns a Candidate in every case", and a byte-identical    *)
(* file is a candidate flagged POSSIBLE_DUPLICATE (spec 12.6): each file a *)
(* completed run was closed over has its candidate row.                    *)
EveryFileIsReported ==
  \A r \in Runs, f \in Files :
    /\ runStatus[r] = "completed"
    /\ job[<<r, f>>].scan \in 1 .. closed[r].scans
    => \E key \in Keys : cand[<<r, key>>].by = f
=============================================================================
