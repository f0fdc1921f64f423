------------------------- MODULE SingleWorkerProofs -------------------------
(***************************************************************************)
(* Proofs about Screener under the deployment the code is written for: at  *)
(* most one worker process, for any sets of runs, files and contents and   *)
(* any attempt cap.  None of these theorems survives a second worker.      *)
(***************************************************************************)
EXTENDS ScreenerProofs

-----------------------------------------------------------------------------
(* While a lone worker is busy with a job, nobody else settles the job or  *)
(* completes its run: an abort and a restart only requeue, a start and a   *)
(* rescan never touch it.                                                  *)
HandInv ==
  \A p \in Procs : pc[p] \in Busy =>
    /\ job[hand[p]].status \in Open
    /\ runStatus[hand[p][1]] # "completed"

LEMMA HandStep ==
  ASSUME SingleWorker
  PROVE  TypeOK /\ HandInv /\ [Next]_vars => HandInv'
  <1> SUFFICES ASSUME TypeOK, HandInv, [Next]_vars, NEW p \in Procs, pc'[p] \in Busy
               PROVE  /\ job'[hand'[p]].status \in Open
                      /\ runStatus'[hand'[p][1]] # "completed"
    BY DEF HandInv
  <1> DEFINE Goal == /\ job'[hand'[p]].status \in Open
                     /\ runStatus'[hand'[p][1]] # "completed"
  <1>1. \A q \in Procs : q = p
    BY DEF SingleWorker
  <1>2. ASSUME pc[p] \in Busy
        PROVE  /\ hand[p] \in Jobs /\ hand[p][1] \in Runs
               /\ job[hand[p]] \in Row
               /\ job[hand[p]].status \in Open
               /\ runStatus[hand[p][1]] # "completed"
    BY <1>2, JobIsPair DEF TypeOK, HandInv, Busy, Down
  <1>3. ASSUME pc[p] \in Busy, hand'[p] = hand[p], UNCHANGED <<job, runStatus>>
        PROVE  Goal
    BY <1>2, <1>3
  <1>4. ASSUME NEW r \in Runs, CreateRun(r) \/ RescanRun(r)
        PROVE  Goal
    <2>1. pc[p] \in Busy /\ hand'[p] = hand[p]
      BY <1>4 DEF CreateRun, RescanRun, procs
    <2>2. job'[hand[p]] = job[hand[p]]
      <3>1. job[hand[p]].status # "absent"
        BY <1>2, <2>1 DEF Open
      <3>2. \A j \in Jobs : job'[j] = job[j] \/ job[j].status = "absent"
        BY <1>4, SnapshotUpdates DEF CreateRun, RescanRun
      <3>3. hand[p] \in Jobs
        BY <1>2, <2>1
      <3> QED
        BY <3>1, <3>2, <3>3
    <2>3. runStatus'[hand[p][1]] # "completed"
      BY <1>2, <1>4, <2>1 DEF CreateRun, RescanRun, TypeOK
    <2> QED
      BY <1>2, <2>1, <2>2, <2>3
  <1>5. ASSUME NEW r \in Runs, Age(r) \/ StartRun(r)
        PROVE  Goal
    <2>1. pc[p] \in Busy /\ hand'[p] = hand[p] /\ job' = job
      BY <1>5 DEF Age, StartRun, procs, tables
    <2>2. runStatus'[hand[p][1]] # "completed"
      BY <1>2, <1>5, <2>1 DEF Age, StartRun, tables, TypeOK
    <2> QED
      BY <1>2, <2>1, <2>2
  <1>6. ASSUME NEW r \in Runs, AbortRun(r)
        PROVE  Goal
    <2>1. pc[p] \in Busy /\ hand'[p] = hand[p]
      BY <1>6 DEF AbortRun, procs
    <2>2. job'[hand[p]] = job[hand[p]] \/ job'[hand[p]] = Requeued(job[hand[p]])
      <3>1. \A j \in Jobs : job'[j] = job[j] \/ job'[j] = Requeued(job[j])
        <4>1. job \in [Jobs -> Row] /\ job' = AbortRunJobs(job, r)
          BY <1>6 DEF AbortRun, TypeOK
        <4> QED
          BY <4>1, AbortUpdates
      <3>2. hand[p] \in Jobs
        BY <1>2, <2>1
      <3> QED
        BY <3>1, <3>2
    <2>3. Requeued(job[hand[p]]).status = "pending"
      BY <1>2, <2>1 DEF Row, Requeued
    <2>4. runStatus'[hand[p][1]] # "completed"
      BY <1>2, <1>6, <2>1 DEF AbortRun, TypeOK
    <2> QED
      BY <1>2, <2>1, <2>2, <2>3, <2>4 DEF Open
  <1>7. ASSUME Claim(p)
        PROVE  Goal
    <2>1. PICK k \in Jobs :
            /\ job' = [job EXCEPT ![k] = Claimed(@, WorkerIdOf[p])]
            /\ runStatus' = [runStatus EXCEPT ![k[1]] = "running"]
            /\ hand' = [hand EXCEPT ![p] = k]
      BY <1>7 DEF Claim, ClaimNext, Eligible
    <2>2. /\ job \in [Jobs -> Row] /\ job[k] \in Row /\ WorkerIdOf[p] \in WorkerIds
          /\ runStatus \in [Runs -> RunStatus] /\ k[1] \in Runs
          /\ hand'[p] = k
      BY <2>1, JobIsPair, ScreenerAssumption DEF TypeOK
    <2>3. job'[k].status = "claimed"
      <3>1. Claimed(job[k], WorkerIdOf[p]).status = "claimed"
        BY <2>2, RowUpdates
      <3> QED
        BY <2>1, <2>2, <3>1
    <2> QED
      BY <2>1, <2>2, <2>3 DEF Open
  <1>8. ASSUME LookUp(p) \/ Screen(p) \/ Raise(p)
        PROVE  Goal
    BY <1>3, <1>8 DEF LookUp, Screen, Raise, tables, Busy
  <1>9. ASSUME Save(p)
        PROVE  Goal
    <2>1. pc[p] = "saving" /\ hand' = hand /\ runStatus' = runStatus
      BY <1>9 DEF Save
    <2>2. job' = job
      BY <1>9 DEF Save, Goto, TypeOK, Busy
    <2> QED
      BY <1>3, <2>1, <2>2 DEF Busy
  <1>10. ASSUME Startup(p) \/ Fail(p) \/ Finish(p) \/ Stop(p) \/ Crash(p)
         PROVE  FALSE
    BY <1>10 DEF Startup, Fail, Finish, Stop, Crash, Goto, Busy, TypeOK
  <1>11. CASE UNCHANGED vars
    BY <1>3, <1>11 DEF vars, tables, procs
  <1> QED
    BY <1>1, <1>4, <1>5, <1>6, <1>7, <1>8, <1>9, <1>10, <1>11 DEF Next, Work

(* Initially nobody is busy.                                               *)
LEMMA HandInit == Init => HandInv
  BY DEF Init, HandInv, Busy

-----------------------------------------------------------------------------
(* Saved rows and closed jobs.                                             *)

(* A step leaves the job of every filed row closed.                        *)
LEMMA SavedStep ==
  TypeOK /\ HandInv /\ SavedMeansClosed /\ [Next]_vars => SavedMeansClosed'
  <1> SUFFICES ASSUME TypeOK, HandInv, SavedMeansClosed, [Next]_vars,
                      NEW r \in Runs, NEW key \in Keys, cand'[<<r, key>>] # NoRecord
               PROVE  job'[<<r, cand'[<<r, key>>].by>>].status = "done"
    BY DEF SavedMeansClosed
  <1> DEFINE d == <<r, key>>
             j == <<r, cand[d].by>>
  <1>1. job \in [Jobs -> Row]
    BY DEF TypeOK
  <1>2. ASSUME cand[d] # NoRecord
        PROVE  j \in Jobs /\ job[j] \in Row /\ job[j].status = "done"
    <2>1. cand[d].by \in Files
      BY <1>2 DEF TypeOK, Record
    <2> QED
      BY <1>2, <2>1 DEF SavedMeansClosed, TypeOK, Jobs
  <1>3. ASSUME NEW q \in Runs, Enters(q)
        PROVE  job'[<<r, cand'[d].by>>].status = "done"
    BY <1>2, <1>3 DEF Enters
  <1>4. CASE StaysOpen
    BY <1>2, <1>4 DEF StaysOpen, Open
  <1>5. ASSUME NEW p \in Procs, Fails(p)
        PROVE  job'[<<r, cand'[d].by>>].status = "done"
    <2>1. job[hand[p]].status \in Open
      BY <1>5 DEF Fails, HandInv, Busy
    <2>2. cand[d] # NoRecord /\ j # hand[p]
      BY <1>2, <1>5, <2>1 DEF Fails, Open
    <2> QED
      BY <1>1, <1>2, <1>5, <2>2 DEF Fails
  <1>6. ASSUME NEW p \in Procs, NEW c \in Runs \X Keys, SavesRow(p, c)
        PROVE  job'[<<r, cand'[d].by>>].status = "done"
    <2>1. /\ hand[p] \in Jobs /\ hand[p] = <<hand[p][1], hand[p][2]>>
          /\ job' = [job EXCEPT ![hand[p]] = Completed(@)]
      BY <1>6, JobIsPair DEF SavesRow
    <2>2. Completed(job[hand[p]]).status = "done"
      BY <1>1, <2>1 DEF Row, Completed
    <2>3. job'[hand[p]].status = "done"
      BY <1>1, <2>1, <2>2
    <2>4. CASE d = c
      <3>1. cand'[d].by = hand[p][2] /\ r = hand[p][1]
        BY <1>6, <2>4 DEF SavesRow, RowOf, TypeOK
      <3> QED
        BY <2>1, <2>3, <3>1
    <2>5. CASE d # c
      <3>1. cand'[d] = cand[d]
        BY <1>6, <2>5 DEF SavesRow, RowOf, TypeOK
      <3> QED
        BY <1>1, <1>2, <2>1, <2>3, <3>1
    <2> QED
      BY <2>4, <2>5
  <1> QED
    BY <1>3, <1>4, <1>5, <1>6, StepShape

(* With one worker, no order of aborts, restarts, rescans and crashes      *)
(* leaves a saved candidate with an open job, to be screened again on      *)
(* resume (complete_job).                                                  *)
THEOREM SavedStaysClosed ==
  ASSUME SingleWorker
  PROVE  Spec => []SavedMeansClosed
  <1>1. Init => SavedMeansClosed
    BY DEF Init, SavedMeansClosed
  <1>2. TypeOK /\ HandInv /\ [Next]_vars => HandInv'
    BY HandStep
  <1> QED
    BY <1>1, <1>2, HandInit, SavedStep, TypeCorrect, PTL DEF Spec

-----------------------------------------------------------------------------
(* Completed runs.                                                         *)

(* A completion never counts a snapshot that is still to come.             *)
ScansCounted == \A r \in Runs : closed[r].scans <= scans[r]

CompletionInv == RateCoversRun /\ CompletedIsComplete /\ ScansCounted

LEMMA RowsOfRun ==
  ASSUME NEW r \in Runs, \A key \in Keys : cand'[<<r, key>>] = cand[<<r, key>>]
  PROVE  Rows(r)' = Rows(r)
  BY DEF Rows

(* A step completes a run only over settled jobs and rates the rows it has *)
(* then; a completed run gets no more rows, and no open jobs but by rescan. *)
LEMMA CompletionStep ==
  TypeOK /\ HandInv /\ CompletionInv /\ [Next]_vars => CompletionInv'
  <1> SUFFICES ASSUME TypeOK, HandInv, CompletionInv, [Next]_vars, NEW r \in Runs
               PROVE  /\ closed'[r].scans <= scans'[r]
                      /\ runStatus'[r] = "completed" =>
                           /\ closed'[r].rated = Rows(r)'
                           /\ \A f \in Files :
                                job'[<<r, f>>].status \in Open
                                  => job'[<<r, f>>].scan > closed'[r].scans
    BY DEF CompletionInv, RateCoversRun, CompletedIsComplete, ScansCounted, FilesIn, Open
  <1> DEFINE Late(f) == job[<<r, f>>].status \in Open => job[<<r, f>>].scan > closed[r].scans
             Counted == closed[r].scans <= scans[r]
             Rated == closed[r].rated = Rows(r)
             Goal == /\ Counted'
                     /\ runStatus'[r] = "completed" => Rated' /\ \A f \in Files : Late(f)'
  <1>1. /\ job \in [Jobs -> Row] /\ \A f \in Files : <<r, f>> \in Jobs
        /\ runStatus \in [Runs -> RunStatus] /\ scans \in [Runs -> Nat]
        /\ closed \in [Runs -> [scans : Nat, rated : SUBSET Keys]]
        /\ closed[r].scans \in Nat /\ scans[r] \in Nat
    BY DEF TypeOK, Jobs
  <1>2. /\ Counted
        /\ runStatus[r] = "completed" => Rated /\ \A f \in Files : Late(f)
    BY DEF CompletionInv, RateCoversRun, CompletedIsComplete, ScansCounted, FilesIn, Open
  <1>3. ASSUME closed'[r] = closed[r], scans'[r] = scans[r],
               runStatus'[r] = "completed" =>
                 /\ runStatus[r] = "completed" /\ Rows(r)' = Rows(r)
                 /\ \A f \in Files :
                      job'[<<r, f>>].status \in Open =>
                        /\ job[<<r, f>>].status \in Open
                        /\ job'[<<r, f>>].scan = job[<<r, f>>].scan
        PROVE  Goal
    BY <1>2, <1>3
  <1>4. ASSUME UNCHANGED cand
        PROVE  Rows(r)' = Rows(r)
    BY <1>4 DEF Rows
  <1>5. ASSUME NEW q \in Runs, CreateRun(q) \/ RescanRun(q)
        PROVE  Goal
    <2>1. /\ UNCHANGED <<cand, closed>>
          /\ runStatus'[r] = "completed" => runStatus[r] = "completed"
      BY <1>1, <1>5 DEF CreateRun, RescanRun
    <2>2. scans'[r] >= scans[r] /\ scans'[r] \in Nat
      BY <1>1, <1>5, SnapshotUpdates DEF CreateRun, RescanRun
    <2>3. ASSUME NEW f \in Files, Late(f)
          PROVE  Late(f)'
      <3>1. \A j \in Jobs : \/ job'[j] = job[j]
                            \/ j[1] = q /\ job'[j].scan = scans[q] + 1
        BY <1>5, SnapshotUpdates DEF CreateRun, RescanRun
      <3>2. \/ job'[<<r, f>>] = job[<<r, f>>]
            \/ r = q /\ job'[<<r, f>>].scan = scans[r] + 1
        BY <1>1, <3>1
      <3> QED
        BY <1>1, <1>2, <2>1, <2>3, <3>2
    <2> QED
      BY <1>1, <1>2, <1>4, <2>1, <2>2, <2>3
  <1>6. ASSUME NEW q \in Runs, Age(q) \/ StartRun(q)
        PROVE  Goal
    BY <1>1, <1>3, <1>4, <1>6 DEF Age, StartRun, tables
  <1>7. ASSUME NEW q \in Runs, AbortRun(q)
        PROVE  Goal
    <2>1. /\ UNCHANGED <<cand, closed, scans>>
          /\ runStatus' = [runStatus EXCEPT ![q] = "aborted"]
          /\ job' = AbortRunJobs(job, q)
      BY <1>7 DEF AbortRun
    <2>2. \A j \in Jobs : j[1] # q => job'[j] = job[j]
      BY <1>1, <2>1, AbortUpdates
    <2>3. r # q => \A f \in Files : job'[<<r, f>>] = job[<<r, f>>]
      BY <1>1, <2>2
    <2> QED
      BY <1>1, <1>3, <1>4, <2>1, <2>3
  <1>8. ASSUME NEW p \in Procs, Startup(p)
        PROVE  Goal
    <2>1. /\ UNCHANGED <<cand, closed, scans, runStatus>>
          /\ job' = ReclaimOrphaned(job, WorkerIdOf[p])
          /\ WorkerIdOf[p] \in WorkerIds
      BY <1>8, ScreenerAssumption DEF Startup
    <2>2. \A j \in Jobs :
            job'[j] = job[j] \/ (job[j].status = "claimed" /\ job'[j] = Requeued(job[j]))
      BY <1>1, <2>1, ReclaimUpdates
    <2>3. \A j \in Jobs : Requeued(job[j]).scan = job[j].scan
      BY <1>1 DEF Row, Requeued
    <2>4. \A j \in Jobs : job'[j].status \in Open =>
            job[j].status \in Open /\ job'[j].scan = job[j].scan
      BY <2>2, <2>3 DEF Open
    <2> QED
      BY <1>1, <1>3, <1>4, <2>1, <2>4
  <1>9. ASSUME NEW p \in Procs, Claim(p)
        PROVE  Goal
    <2>1. PICK k \in Jobs :
            /\ job' = [job EXCEPT ![k] = Claimed(@, WorkerIdOf[p])]
            /\ runStatus' = [runStatus EXCEPT ![k[1]] = "running"]
      BY <1>9 DEF Claim, ClaimNext, Eligible
    <2>2. /\ UNCHANGED <<cand, closed, scans>>
          /\ k[1] \in Runs
      BY <1>9, JobIsPair DEF Claim
    <2>3. r # k[1] => \A f \in Files : job'[<<r, f>>] = job[<<r, f>>]
      BY <1>1, <2>1
    <2> QED
      BY <1>1, <1>3, <1>4, <2>1, <2>2, <2>3
  <1>10. ASSUME NEW p \in Procs, LookUp(p) \/ Screen(p) \/ Raise(p) \/ Stop(p) \/ Crash(p)
         PROVE  Goal
    BY <1>1, <1>3, <1>4, <1>10 DEF LookUp, Screen, Raise, Stop, Crash, tables
  <1>11. ASSUME NEW p \in Procs, Save(p) \/ Fail(p)
         PROVE  Goal
    <2>1. /\ UNCHANGED <<closed, scans, runStatus>>
          /\ pc[p] \in Busy /\ hand[p] \in Jobs
      BY <1>11 DEF Save, Fail, Busy, Down, TypeOK
    <2>2. runStatus[r] = "completed" => hand[p][1] # r
      <3>1. runStatus[hand[p][1]] # "completed"
        BY <2>1 DEF HandInv
      <3> QED
        BY <3>1
    <2>3. hand[p][1] # r => \A f \in Files : job'[<<r, f>>] = job[<<r, f>>]
      <3>1. \E row : job' = [job EXCEPT ![hand[p]] = row] \/ job' = job
        BY <1>11 DEF Save, Fail
      <3> QED
        BY <1>1, <3>1
    <2>4. ASSUME hand[p][1] # r
          PROVE  Rows(r)' = Rows(r)
      <3>1. \A key \in Keys : cand'[<<r, key>>] = cand[<<r, key>>]
        <4>1. CASE cand' = cand
          BY <4>1
        <4>2. CASE cand' = [cand EXCEPT ![<<hand[p][1], draft[p].key>>] =
                              RowOf(p)]
          <5>1. ASSUME NEW key \in Keys
                PROVE  <<r, key>> # <<hand[p][1], draft[p].key>> /\ <<r, key>> \in Runs \X Keys
            BY <2>4
          <5> QED
            BY <4>2, <5>1 DEF TypeOK
        <4> QED
          BY <1>11, <4>1, <4>2 DEF Save, Fail, RowOf
      <3> QED
        BY <3>1, RowsOfRun
    <2> QED
      BY <1>1, <1>3, <2>1, <2>2, <2>3, <2>4
  <1>12. ASSUME NEW p \in Procs, Finish(p)
         PROVE  Goal
    <2> DEFINE q == hand[p][1]
    <2>1. /\ UNCHANGED <<cand, scans, job>> /\ q \in Runs
      BY <1>12, JobIsPair DEF Finish, TypeOK, Down
    <2>2. CASE UNCHANGED <<runStatus, closed>>
      BY <1>3, <1>4, <2>1, <2>2
    <2>3. CASE /\ IsComplete(job, q)
               /\ runStatus' = [runStatus EXCEPT ![q] = "completed"]
               /\ closed' = [closed EXCEPT ![q] = [scans |-> scans[q], rated |-> Rows(q)]]
      <3>1. CASE r # q
        BY <1>1, <1>3, <1>4, <2>1, <2>3, <3>1
      <3>2. CASE r = q
        <4>1. closed'[r] = [scans |-> scans[r], rated |-> Rows(r)]
          BY <1>1, <2>3, <3>2
        <4>2. closed'[r].scans = scans'[r] /\ closed'[r].rated = Rows(r)'
          BY <1>4, <2>1, <4>1
        <4>3. \A f \in Files : job'[<<r, f>>].status \notin Open
          BY <2>1, <2>3, <3>2 DEF IsComplete, FilesIn, Open
        <4> QED
          BY <1>1, <2>1, <4>2, <4>3
      <3> QED
        BY <3>1, <3>2
    <2> QED
      BY <1>12, <2>2, <2>3 DEF Finish, Completion
  <1>13. CASE UNCHANGED vars
    BY <1>3, <1>4, <1>13 DEF vars, tables
  <1> QED
    BY <1>5, <1>6, <1>7, <1>8, <1>9, <1>10, <1>11, <1>12, <1>13 DEF Next, Work

(* The fields of a fresh state satisfy the invariant vacuously.            *)
LEMMA CompletionInit == Init => CompletionInv
  BY DEF Init, CompletionInv, RateCoversRun, CompletedIsComplete, ScansCounted

(* With one worker, the escalation rate stored with a completed run was    *)
(* computed over exactly the candidates the run shows, however often it is *)
(* restarted and completed again (finish_run_if_complete).                 *)
THEOREM RateIsNeverStale ==
  ASSUME SingleWorker
  PROVE  Spec => []RateCoversRun
  <1>1. TypeOK /\ HandInv /\ [Next]_vars => HandInv'
    BY HandStep
  <1>2. CompletionInv => RateCoversRun
    BY DEF CompletionInv
  <1> QED
    BY <1>1, <1>2, HandInit, CompletionInit, CompletionStep, TypeCorrect, PTL DEF Spec

(* With one worker, whatever a completed run still has open was put there  *)
(* by a rescan after it completed.                                         *)
THEOREM CompletionIsHonest ==
  ASSUME SingleWorker
  PROVE  Spec => []CompletedIsComplete
  <1>1. TypeOK /\ HandInv /\ [Next]_vars => HandInv'
    BY HandStep
  <1>2. CompletionInv => CompletedIsComplete
    BY DEF CompletionInv
  <1> QED
    BY <1>1, <1>2, HandInit, CompletionInit, CompletionStep, TypeCorrect, PTL DEF Spec

-----------------------------------------------------------------------------
(* Attempts.                                                               *)
Cap == MaxAttempts + crashes + aborts

(* A job that may be claimed again - pending, or claimed by a worker that   *)
(* lost it - has an attempt to spare.                                      *)
Spare(j) ==
  \/ job[j].status = "pending"
  \/ job[j].status = "claimed" /\ \A p \in Procs : ~Holds(p, j)

AttemptsInv ==
  \A j \in Jobs : job[j].attempts <= Cap /\ (Spare(j) => job[j].attempts < Cap)

(* A step spends an attempt only where there is one to spare, and only an  *)
(* abort, a crash or a failure below the cap returns a job to the queue.   *)
LEMMA AttemptsStep ==
  ASSUME SingleWorker
  PROVE  TypeOK /\ AttemptsInv /\ [Next]_vars => AttemptsInv'
  <1> SUFFICES ASSUME TypeOK, AttemptsInv, [Next]_vars, NEW j \in Jobs
               PROVE  job'[j].attempts <= Cap' /\ (Spare(j)' => job'[j].attempts < Cap')
    BY DEF AttemptsInv
  <1> DEFINE Goal == job'[j].attempts <= Cap' /\ (Spare(j)' => job'[j].attempts < Cap')
  <1>1. /\ job \in [Jobs -> Row] /\ job[j] \in Row /\ job[j].attempts \in Nat
        /\ MaxAttempts \in Nat \ {0} /\ crashes \in Nat /\ aborts \in Nat /\ Cap \in Nat
        /\ MaxAttempts <= Cap
    BY QueueAssumption, ScreenerAssumption DEF TypeOK, Row, Cap
  <1>2. job[j].attempts <= Cap /\ (Spare(j) => job[j].attempts < Cap)
    BY DEF AttemptsInv
  <1>3. ASSUME job'[j].attempts = job[j].attempts, Cap' = Cap, Spare(j)' => Spare(j)
        PROVE  Goal
    BY <1>2, <1>3
  <1>4. ASSUME job'[j].attempts = job[j].attempts, Cap' = Cap + 1
        PROVE  Goal
    BY <1>1, <1>2, <1>4
  <1>5. ASSUME job'[j] = job[j], UNCHANGED <<pc, hand, crashes, aborts>>
        PROVE  Goal
    BY <1>3, <1>5 DEF Spare, Holds, Cap
  <1>6. ASSUME NEW r \in Runs, CreateRun(r) \/ RescanRun(r)
        PROVE  Goal
    <2>1. UNCHANGED <<pc, hand, crashes, aborts>>
      BY <1>6 DEF CreateRun, RescanRun, procs, counters
    <2>2. job'[j] = job[j] \/ job'[j].attempts = 0
      BY <1>6, SnapshotUpdates DEF CreateRun, RescanRun
    <2>3. Cap' = Cap
      BY <2>1 DEF Cap
    <2> QED
      BY <1>1, <1>5, <2>1, <2>2, <2>3
  <1>7. ASSUME NEW r \in Runs, Age(r) \/ StartRun(r)
        PROVE  Goal
    BY <1>5, <1>7 DEF Age, StartRun, tables, procs, counters
  <1>8. ASSUME NEW r \in Runs, AbortRun(r)
        PROVE  Goal
    <2>1. job' = AbortRunJobs(job, r) /\ aborts' = aborts + 1 /\ crashes' = crashes
      BY <1>8 DEF AbortRun
    <2>2. job'[j] = job[j] \/ job'[j] = Requeued(job[j])
      BY <1>1, <2>1, AbortUpdates
    <2>3. Requeued(job[j]).attempts = job[j].attempts
      BY <1>1 DEF Row, Requeued
    <2>4. Cap' = Cap + 1
      BY <1>1, <2>1 DEF Cap
    <2> QED
      BY <1>4, <2>2, <2>3, <2>4
  <1>9. ASSUME NEW p \in Procs, Startup(p)
        PROVE  Goal
    <2>1. /\ job' = ReclaimOrphaned(job, WorkerIdOf[p])
          /\ WorkerIdOf[p] \in WorkerIds
          /\ UNCHANGED <<hand, crashes, aborts>>
          /\ \A q \in Procs : pc[q] \in Down
      BY <1>9, ScreenerAssumption DEF Startup, counters, SingleWorker
    <2>2. job'[j] = job[j] \/ (job[j].status = "claimed" /\ job'[j] = Requeued(job[j]))
      BY <1>1, <2>1, ReclaimUpdates
    <2>3. Requeued(job[j]).attempts = job[j].attempts
      BY <1>1 DEF Row, Requeued
    <2>4. Cap' = Cap
      BY <2>1 DEF Cap
    <2>5. Spare(j)' => Spare(j)
      BY <2>1, <2>2 DEF Spare, Holds, Busy, Down
    <2> QED
      BY <1>3, <2>2, <2>3, <2>4, <2>5
  <1>10. ASSUME NEW p \in Procs, Claim(p)
         PROVE  Goal
    <2>1. PICK k \in Jobs :
            /\ job[k].status = "pending"
            /\ job' = [job EXCEPT ![k] = Claimed(@, WorkerIdOf[p])]
            /\ hand' = [hand EXCEPT ![p] = k]
      BY <1>10 DEF Claim, ClaimNext, Eligible
    <2>2. /\ pc[p] = "idle" /\ pc' = [pc EXCEPT ![p] = "claimed"]
          /\ UNCHANGED <<crashes, aborts>>
          /\ \A q \in Procs : q = p
      BY <1>10 DEF Claim, Goto, counters, SingleWorker
    <2>3. Cap' = Cap
      BY <2>2 DEF Cap
    <2>4. CASE j = k
      <3>1. /\ Claimed(job[j], WorkerIdOf[p]).status = "claimed"
            /\ Claimed(job[j], WorkerIdOf[p]).attempts = job[j].attempts + 1
        BY <1>1 DEF Row, Claimed
      <3>2. job'[j].status = "claimed" /\ job'[j].attempts = job[j].attempts + 1
        BY <1>1, <2>1, <2>4, <3>1
      <3>3. Holds(p, j)'
        BY <2>1, <2>2, <2>4 DEF Holds, Busy, TypeOK
      <3>4. ~Spare(j)'
        BY <3>2, <3>3 DEF Spare
      <3>5. job[j].attempts < Cap
        BY <1>2, <2>1, <2>4 DEF Spare
      <3> QED
        BY <1>1, <2>3, <3>2, <3>4, <3>5
    <2>5. CASE j # k
      <3>1. job'[j] = job[j]
        BY <1>1, <2>1, <2>5
      <3>2. Spare(j)' => Spare(j)
        BY <2>2, <3>1 DEF Spare, Holds, Busy
      <3> QED
        BY <1>3, <2>3, <3>1, <3>2
    <2> QED
      BY <2>4, <2>5
  <1>11. ASSUME NEW p \in Procs, LookUp(p) \/ Screen(p) \/ Raise(p)
         PROVE  Goal
    <2>1. /\ UNCHANGED <<job, hand, crashes, aborts>>
          /\ \E label \in Busy : pc' = [pc EXCEPT ![p] = label]
      BY <1>11 DEF LookUp, Screen, Raise, Drafted, Goto, tables, counters, Busy
    <2>2. Spare(j)' => Spare(j)
      BY <2>1 DEF Spare, Holds, TypeOK
    <2> QED
      BY <1>3, <2>1, <2>2 DEF Cap
  <1>12. ASSUME NEW p \in Procs, Save(p)
         PROVE  Goal
    <2>1. /\ hand[p] \in Jobs /\ pc[p] = "saving"
          /\ UNCHANGED <<hand, crashes, aborts>>
          /\ \/ job' = [job EXCEPT ![hand[p]] = Completed(@)]
             \/ job' = job /\ pc' = [pc EXCEPT ![p] = "failing"]
          /\ \A q \in Procs \ {p} : pc'[q] = pc[q]
      BY <1>12 DEF Save, Goto, counters, TypeOK, Down
    <2>2. /\ Completed(job[j]).status = "done"
          /\ Completed(job[j]).attempts = job[j].attempts
      BY <1>1 DEF Row, Completed
    <2>3. job'[j] = job[j] \/ job'[j] = Completed(job[j])
      BY <1>1, <2>1
    <2>4. Spare(j)' => Spare(j)
      <3>1. CASE job' = job /\ pc' = [pc EXCEPT ![p] = "failing"]
        BY <2>1, <3>1 DEF Spare, Holds, Busy, TypeOK
      <3>2. CASE job' = [job EXCEPT ![hand[p]] = Completed(@)]
        <4>1. CASE hand[p] = j
          BY <1>1, <2>1, <2>2, <3>2, <4>1 DEF Spare
        <4>2. CASE hand[p] # j
          BY <1>1, <2>1, <3>2, <4>2 DEF Spare, Holds, Busy
        <4> QED
          BY <4>1, <4>2
      <3> QED
        BY <2>1, <3>1, <3>2
    <2> QED
      BY <1>3, <2>1, <2>2, <2>3, <2>4 DEF Cap
  <1>13. ASSUME NEW p \in Procs, Fail(p)
         PROVE  Goal
    <2>1. /\ hand[p] \in Jobs /\ pc[p] = "failing"
          /\ UNCHANGED <<hand, crashes, aborts>>
          /\ job' = [job EXCEPT ![hand[p]] = Failed(@, TRUE)]
          /\ \A q \in Procs \ {p} : pc'[q] = pc[q]
      BY <1>13 DEF Fail, Goto, counters, TypeOK, Down
    <2>2. Cap' = Cap
      BY <2>1 DEF Cap
    <2>3. CASE hand[p] = j
      <3>1. job'[j] = Failed(job[j], TRUE)
        BY <1>1, <2>1, <2>3
      <3>2. /\ \/ job'[j].status = "pending" /\ job[j].attempts < MaxAttempts
               \/ job'[j].status = "failed"
            /\ job'[j].attempts = job[j].attempts
        BY <1>1, <3>1, FailUpdates
      <3> QED
        BY <1>1, <1>2, <2>2, <3>2 DEF Spare
    <2>4. CASE hand[p] # j
      <3>1. job'[j] = job[j]
        BY <1>1, <2>1, <2>4
      <3>2. Spare(j)' => Spare(j)
        BY <2>1, <2>4, <3>1 DEF Spare, Holds
      <3> QED
        BY <1>3, <2>2, <3>1, <3>2
    <2> QED
      BY <2>3, <2>4
  <1>14. ASSUME NEW p \in Procs, Finish(p) \/ Stop(p)
         PROVE  Goal
    <2>1. /\ UNCHANGED <<job, crashes, aborts>> /\ pc[p] \notin Busy
          /\ \A q \in Procs : q = p
      BY <1>14 DEF Finish, Stop, tables, counters, Busy, SingleWorker
    <2>2. Spare(j)' => Spare(j)
      BY <2>1 DEF Spare, Holds
    <2> QED
      BY <1>3, <2>1, <2>2 DEF Cap
  <1>15. ASSUME NEW p \in Procs, Crash(p)
         PROVE  Goal
    <2>1. job' = job /\ crashes' = crashes + 1 /\ aborts' = aborts
      BY <1>15 DEF Crash, tables
    <2>2. Cap' = Cap + 1
      BY <1>1, <2>1 DEF Cap
    <2> QED
      BY <1>4, <2>1, <2>2
  <1>16. CASE UNCHANGED vars
    BY <1>5, <1>16 DEF vars, tables, procs, counters
  <1> QED
    BY <1>6, <1>7, <1>8, <1>9, <1>10, <1>11, <1>12, <1>13, <1>14, <1>15, <1>16
       DEF Next, Work

(* With one worker, every attempt at a job beyond job_max_attempts is paid *)
(* for by a crash or an abort (claim_next, fail, reclaim_orphaned).        *)
THEOREM RetriesArePaidFor ==
  ASSUME SingleWorker
  PROVE  Spec => []AttemptsBounded
  <1>1. Init => AttemptsInv
    <2> SUFFICES ASSUME Init, NEW j \in Jobs
                 PROVE  job[j].attempts <= Cap /\ (Spare(j) => job[j].attempts < Cap)
      BY DEF AttemptsInv
    <2>1. job[j].attempts = 0 /\ Cap = MaxAttempts
      BY QueueAssumption DEF Init, NoRow, Cap
    <2> QED
      BY <2>1, QueueAssumption
  <1>2. AttemptsInv => AttemptsBounded
    BY DEF AttemptsInv, AttemptsBounded, Cap
  <1>3. TypeOK /\ AttemptsInv /\ [Next]_vars => AttemptsInv'
    BY AttemptsStep
  <1> QED
    BY <1>1, <1>2, <1>3, TypeCorrect, PTL DEF Spec

-----------------------------------------------------------------------------
(* The queue and the worker implement the ledger.                          *)
LEMMA EntryOfStatus ==
  /\ EntryOf("absent") = "unseen"
  /\ \A status \in Open : EntryOf(status) = "open"
  /\ EntryOf("done") = "reported"
  /\ EntryOf("failed") = "abandoned"
  BY DEF EntryOf, Open

(* The empty database is the empty ledger.                                 *)
LEMMA LedgerInit == Init => Ledger!Init
  BY EntryOfStatus DEF Init, NoRow, NoRecord, Ledger!Init, Jobs

(* A snapshot enters files, a save reports one, the last failure abandons  *)
(* one, and no other step shows in the ledger.                             *)
LEMMA LedgerStep ==
  TypeOK /\ HandInv /\ [Next]_vars => [Ledger!Next]_Ledger!ledger
  <1> SUFFICES ASSUME TypeOK, HandInv, [Next]_vars
               PROVE  Ledger!Next \/ UNCHANGED Ledger!ledger
    OBVIOUS
  <1> DEFINE entry == [j \in Jobs |-> EntryOf(job[j].status)]
             filed == [c \in Runs \X Keys |-> cand[c].by]
  <1>1. job \in [Jobs -> Row] /\ cand \in [Runs \X Keys -> Record \cup {NoRecord}]
    BY DEF TypeOK
  <1>2. ASSUME NEW r \in Runs, Enters(r)
        PROVE  Ledger!Next
    <2> DEFINE new == {f \in Files : job'[<<r, f>>] # job[<<r, f>>]}
    <2>1. \A f \in new : entry[<<r, f>>] = "unseen"
      BY <1>2, EntryOfStatus DEF Enters, Jobs
    <2>2. ASSUME NEW j \in Jobs
          PROVE  entry'[j] = IF j[1] = r /\ j[2] \in new THEN "open" ELSE entry[j]
      <3>1. CASE job'[j] = job[j]
        BY <3>1, JobIsPair
      <3>2. CASE job'[j] # job[j]
        BY <1>2, <3>2, JobIsPair, EntryOfStatus DEF Enters, Open
      <3> QED
        BY <3>1, <3>2
    <2>3. entry' = [j \in Runs \X Files |->
                      IF j[1] = r /\ j[2] \in new THEN "open" ELSE entry[j]]
      BY <2>2 DEF Jobs
    <2>4. filed' = filed
      BY <1>2 DEF Enters
    <2>5. Ledger!Enter(r, new)
      BY <2>1, <2>3, <2>4 DEF Ledger!Enter
    <2> QED
      BY <2>5 DEF Ledger!Next
  <1>3. CASE StaysOpen
    <2>1. ASSUME NEW j \in Jobs
          PROVE  entry'[j] = entry[j]
      BY <1>3, EntryOfStatus DEF StaysOpen
    <2>2. entry' = entry /\ filed' = filed
      BY <1>3, <2>1 DEF StaysOpen
    <2> QED
      BY <2>2 DEF Ledger!ledger
  <1>4. ASSUME NEW p \in Procs, Fails(p)
        PROVE  Ledger!Next \/ UNCHANGED Ledger!ledger
    <2> DEFINE j == hand[p]
    <2>1. /\ j \in Jobs /\ j = <<j[1], j[2]>> /\ j[1] \in Runs /\ j[2] \in Files
          /\ job[j] \in Row /\ job[j].status \in Open
          /\ job' = [job EXCEPT ![j] = Failed(@, TRUE)]
      BY <1>1, <1>4, JobIsPair DEF Fails, HandInv, Busy
    <2>2. job'[j] = Failed(job[j], TRUE) /\ \A k \in Jobs : k # j => job'[k] = job[k]
      BY <1>1, <2>1
    <2>3. entry[j] = "open" /\ filed' = filed
      BY <1>4, <2>1, EntryOfStatus DEF Fails
    <2>4. CASE job'[j].status = "failed"
      <3>1. entry' = [entry EXCEPT ![j] = "abandoned"]
        BY <2>2, <2>4, EntryOfStatus
      <3>2. Ledger!Abandon(j[1], j[2])
        BY <2>1, <2>3, <3>1 DEF Ledger!Abandon
      <3> QED
        BY <2>1, <3>2 DEF Ledger!Next
    <2>5. CASE job'[j].status = "pending"
      <3>1. ASSUME NEW k \in Jobs
            PROVE  entry'[k] = entry[k]
        BY <2>2, <2>3, <2>5, EntryOfStatus DEF Open
      <3>2. entry' = entry
        BY <3>1
      <3> QED
        BY <2>3, <3>2 DEF Ledger!ledger
    <2> QED
      BY <2>1, <2>2, <2>4, <2>5, FailUpdates
  <1>5. ASSUME NEW p \in Procs, NEW c \in Runs \X Keys, SavesRow(p, c)
        PROVE  Ledger!Next
    <2> DEFINE j == hand[p]
               key == draft[p].key
    <2>1. /\ j \in Jobs /\ j = <<j[1], j[2]>> /\ j[1] \in Runs /\ j[2] \in Files
          /\ key \in Keys /\ c = <<j[1], key>>
          /\ job[j] \in Row /\ job[j].status \in Open
          /\ job' = [job EXCEPT ![j] = Completed(@)]
      BY <1>1, <1>5, JobIsPair DEF SavesRow, HandInv, Busy, Drafts
    <2>2. Completed(job[j]).status = "done"
      BY <2>1 DEF Row, Completed
    <2>3. job'[j].status = "done" /\ \A k \in Jobs : k # j => job'[k] = job[k]
      BY <1>1, <2>1, <2>2
    <2>4. entry' = [entry EXCEPT ![j] = "reported"]
      BY <2>3, EntryOfStatus
    <2>5. cand'[c].by = j[2] /\ \A d \in Runs \X Keys : d # c => cand'[d] = cand[d]
      BY <1>1, <1>5 DEF SavesRow, RowOf
    <2>6. filed' = [filed EXCEPT ![c] = j[2]]
      BY <2>5
    <2>7. entry[j] = "open" /\ filed[c] = Nobody
      BY <1>5, <2>1, EntryOfStatus DEF SavesRow, NoRecord
    <2>8. PICK r \in Runs, f \in Files, k \in Keys : j = <<r, f>> /\ c = <<r, k>> /\ j[2] = f
      BY <2>1
    <2>9. Ledger!Report(r, f, k)
      BY <2>4, <2>6, <2>7, <2>8 DEF Ledger!Report
    <2> QED
      BY <2>9 DEF Ledger!Next
  <1> QED
    BY <1>2, <1>3, <1>4, <1>5, StepShape

(* With one worker the queue, its retries, its crashes and its restarts    *)
(* implement the ledger: a file is settled once and for good, and reported *)
(* in the same step that files its row.                                    *)
THEOREM ScreenerImplementsLedger ==
  ASSUME SingleWorker
  PROVE  Spec => ImplementsLedger
  <1>1. TypeOK /\ HandInv /\ [Next]_vars => HandInv'
    BY HandStep
  <1> QED
    BY <1>1, HandInit, LedgerInit, LedgerStep, TypeCorrect, PTL
       DEF Spec, ImplementsLedger, Ledger!Spec
=============================================================================
