--------------------------- MODULE ScreenerProofs ---------------------------
(***************************************************************************)
(* Proofs about Screener, for any sets of runs, files, contents, worker    *)
(* ids and processes and any attempt cap.                                  *)
(***************************************************************************)
EXTENDS Screener, FiniteFacts, TLAPS

-----------------------------------------------------------------------------
(* What the statements of jobs_store.py do to one row.                     *)

(* claim_next, complete and the two requeues yield rows, and each leaves   *)
(* alone the columns its UPDATE does not name.                             *)
LEMMA RowUpdates ==
  ASSUME NEW row \in Row, NEW w \in WorkerIds
  PROVE  /\ /\ Claimed(row, w) \in Row
            /\ Claimed(row, w).status = "claimed" /\ Claimed(row, w).owner = w
            /\ Claimed(row, w).attempts = row.attempts + 1
            /\ Claimed(row, w).scan = row.scan
         /\ /\ Completed(row) \in Row
            /\ Completed(row).status = "done"
            /\ Completed(row).attempts = row.attempts
            /\ Completed(row).scan = row.scan
         /\ /\ Requeued(row) \in Row
            /\ Requeued(row).status = "pending"
            /\ Requeued(row).attempts = row.attempts
            /\ Requeued(row).scan = row.scan
  <1>1. row.attempts + 1 \in Nat /\ "claimed" \in JobStatus
    BY DEF Row, JobStatus
  <1>2. Claimed(row, w) \in Row
    BY <1>1 DEF Row, Claimed
  <1>3. /\ Claimed(row, w).status = "claimed" /\ Claimed(row, w).owner = w
        /\ Claimed(row, w).attempts = row.attempts + 1
        /\ Claimed(row, w).scan = row.scan
    BY DEF Row, Claimed
  <1>4. /\ Completed(row) \in Row
        /\ Completed(row).status = "done"
        /\ Completed(row).attempts = row.attempts
        /\ Completed(row).scan = row.scan
    BY DEF Row, JobStatus, Completed
  <1>5. /\ Requeued(row) \in Row
        /\ Requeued(row).status = "pending"
        /\ Requeued(row).attempts = row.attempts
        /\ Requeued(row).scan = row.scan
    BY DEF Row, JobStatus, Requeued
  <1> QED
    BY <1>2, <1>3, <1>4, <1>5

(* fail either gives the job back below the cap or retires it.             *)
LEMMA FailUpdates ==
  ASSUME NEW row \in Row
  PROVE  /\ Failed(row, TRUE) \in Row
         /\ \/ Failed(row, TRUE).status = "pending" /\ row.attempts < MaxAttempts
            \/ Failed(row, TRUE).status = "failed"
         /\ Failed(row, TRUE).attempts = row.attempts
         /\ Failed(row, TRUE).scan = row.scan
  BY QueueAssumption DEF Row, JobStatus, Failed

(* A job is named by its run and its file.                                 *)
LEMMA JobIsPair ==
  ASSUME NEW j \in Jobs
  PROVE  j = <<j[1], j[2]>> /\ j[1] \in Runs /\ j[2] \in Files
  BY DEF Jobs

(* A restarting worker requeues the rows claimed under its own id.         *)
LEMMA ReclaimUpdates ==
  ASSUME NEW table \in [Jobs -> Row], NEW w \in WorkerIds
  PROVE  /\ ReclaimOrphaned(table, w) \in [Jobs -> Row]
         /\ \A j \in Jobs :
              ReclaimOrphaned(table, w)[j] =
                IF table[j].status = "claimed" /\ table[j].owner = w
                THEN Requeued(table[j]) ELSE table[j]
  <1>1. \A j \in Jobs : Requeued(table[j]) \in Row
    BY DEF Row, JobStatus, Requeued
  <1> QED
    BY <1>1 DEF ReclaimOrphaned

(* An abort requeues the claimed rows of the run, in hand or not.          *)
LEMMA AbortUpdates ==
  ASSUME NEW table \in [Jobs -> Row], NEW r \in Runs
  PROVE  /\ AbortRunJobs(table, r) \in [Jobs -> Row]
         /\ \A j \in Jobs :
              AbortRunJobs(table, r)[j] =
                IF j[1] = r /\ table[j].status = "claimed"
                THEN Requeued(table[j]) ELSE table[j]
  <1>1. \A j \in Jobs : Requeued(table[j]) \in Row
    BY DEF Row, JobStatus, Requeued
  <1> QED
    BY <1>1 DEF AbortRunJobs

-----------------------------------------------------------------------------
(* Type correctness.                                                       *)

(* Every state the program starts in is well typed.                        *)
LEMMA TypeInit == Init => TypeOK
  <1> SUFFICES ASSUME Init PROVE TypeOK
    OBVIOUS
  <1>1. NoRow \in Row
    BY DEF Row, NoRow, JobStatus
  <1>2. job \in [Jobs -> Row]
    BY <1>1 DEF Init
  <1> QED
    BY <1>2, ScreenerAssumption
       DEF Init, TypeOK, RunStatus, PC, Down, NoRecord

(* A snapshot turns absent rows of its run into fresh pending rows, and    *)
(* touches no other row: a rescan never re-queues work (INSERT OR IGNORE). *)
LEMMA SnapshotUpdates ==
  ASSUME TypeOK, NEW r \in Runs, TakeSnapshot(r)
  PROVE  /\ job' \in [Jobs -> Row]
         /\ scans' \in [Runs -> Nat]
         /\ \A q \in Runs : q # r => scans'[q] = scans[q]
         /\ scans'[r] >= scans[r]
         /\ \A j \in Jobs :
              \/ job'[j] = job[j]
              \/ /\ j[1] = r /\ job[j].status = "absent"
                 /\ job'[j].status = "pending"
                 /\ job'[j].attempts = 0
                 /\ job'[j].scan = scans[r] + 1
                 /\ scans'[r] = scans[r] + 1
  <1>1. PICK new \in SUBSET Missing(job, r, FolderOf[r]) :
          /\ job' = Snapshot(job, r, new, scans[r] + 1)
          /\ scans' = [scans EXCEPT ![r] = IF new = {} THEN @ ELSE @ + 1]
    BY DEF TakeSnapshot
  <1> DEFINE fresh == [NoRow EXCEPT !.status = "pending", !.scan = scans[r] + 1]
  <1>2. /\ job \in [Jobs -> Row] /\ scans \in [Runs -> Nat] /\ scans[r] \in Nat
        /\ scans[r] + 1 \in Nat
    BY DEF TypeOK
  <1>3. /\ fresh \in Row
        /\ fresh.status = "pending" /\ fresh.attempts = 0
        /\ fresh.scan = scans[r] + 1
    BY <1>2 DEF Row, NoRow, JobStatus
  <1>4. job' = [j \in Jobs |-> IF j[1] = r /\ j[2] \in new THEN fresh ELSE job[j]]
    <2>1. Missing(job, r, new) = new
      BY <1>1 DEF Missing
    <2> QED
      BY <1>1, <2>1 DEF Snapshot
  <1>5. ASSUME NEW j \in Jobs, j[1] = r, j[2] \in new
        PROVE  job[j].status = "absent"
    BY <1>1, <1>5, JobIsPair DEF Missing, FilesIn
  <1>6. scans' = [scans EXCEPT ![r] = IF new = {} THEN @ ELSE @ + 1]
    BY <1>1
  <1> HIDE DEF fresh
  <1>7. /\ scans' \in [Runs -> Nat]
        /\ \A q \in Runs : q # r => scans'[q] = scans[q]
        /\ scans'[r] = IF new = {} THEN scans[r] ELSE scans[r] + 1
    BY <1>2, <1>6
  <1>8. job' \in [Jobs -> Row]
    BY <1>2, <1>3, <1>4
  <1>9. ASSUME NEW j \in Jobs
        PROVE  \/ job'[j] = job[j]
               \/ /\ j[1] = r /\ job[j].status = "absent"
                  /\ job'[j].status = "pending"
                  /\ job'[j].attempts = 0
                  /\ job'[j].scan = scans[r] + 1
                  /\ scans'[r] = scans[r] + 1
    BY <1>3, <1>4, <1>5, <1>7
  <1> QED
    BY <1>2, <1>7, <1>8, <1>9

(* Every step of the system keeps the state well typed.                    *)
LEMMA TypeStep == TypeOK /\ [Next]_vars => TypeOK'
  <1> SUFFICES ASSUME TypeOK, [Next]_vars PROVE TypeOK'
    OBVIOUS
  <1> USE DEF TypeOK
  <1>1. ASSUME NEW r \in Runs, Age(r)
        PROVE  TypeOK'
    BY <1>1 DEF Age, tables, procs, counters
  <1>2. ASSUME NEW r \in Runs, TakeSnapshot(r)
        PROVE  job' \in [Jobs -> Row] /\ scans' \in [Runs -> Nat]
    BY <1>2, SnapshotUpdates
  <1>3. ASSUME NEW r \in Runs, CreateRun(r)
        PROVE  TypeOK'
    BY <1>2, <1>3 DEF CreateRun, procs, counters, RunStatus
  <1>4. ASSUME NEW r \in Runs, RescanRun(r)
        PROVE  TypeOK'
    BY <1>2, <1>4 DEF RescanRun, procs, counters
  <1>5. ASSUME NEW r \in Runs, StartRun(r)
        PROVE  TypeOK'
    BY <1>5 DEF StartRun, procs, counters, RunStatus
  <1>6. ASSUME NEW r \in Runs, AbortRun(r)
        PROVE  TypeOK'
    <2>1. job' \in [Jobs -> Row]
      BY <1>6, AbortUpdates DEF AbortRun
    <2> QED
      BY <1>6, <2>1, ScreenerAssumption DEF AbortRun, procs, RunStatus
  <1>7. ASSUME NEW p \in Procs, Startup(p)
        PROVE  TypeOK'
    <2>1. WorkerIdOf[p] \in WorkerIds
      BY ScreenerAssumption
    <2>2. job' \in [Jobs -> Row]
      BY <1>7, <2>1, ReclaimUpdates DEF Startup
    <2> QED
      BY <1>7, <2>2 DEF Startup, Goto, counters, PC, Down, Busy
  <1>8. ASSUME NEW p \in Procs, Claim(p)
        PROVE  TypeOK'
    <2>1. PICK j \in Jobs :
            /\ job' = [job EXCEPT ![j] = Claimed(@, WorkerIdOf[p])]
            /\ runStatus' = [runStatus EXCEPT ![j[1]] = "running"]
            /\ hand' = [hand EXCEPT ![p] = j]
      BY <1>8 DEF Claim, ClaimNext, Eligible
    <2>2. Claimed(job[j], WorkerIdOf[p]) \in Row
      BY RowUpdates, ScreenerAssumption
    <2> QED
      BY <1>8, <2>1, <2>2, JobIsPair, ScreenerAssumption
         DEF Claim, Goto, counters, RunStatus, PC, Down, Busy
  <1>9. ASSUME NEW p \in Procs, hand[p] \in Jobs, LookUp(p)
        PROVE  TypeOK'
    <2> DEFINE r == hand[p][1]
               f == hand[p][2]
    <2>1. r \in Runs /\ f \in Files /\ Content[f] \in Keys
      BY <1>9, JobIsPair, ScreenerAssumption DEF Keys
    <2>2. ASSUME NEW row \in Cached(r, Content[f])
          PROVE  row \in Drafts
      <3>1. PICK q \in Runs :
              /\ row = [key |-> Content[f], kind |-> cand[<<q, Content[f]>>].kind,
                        from |-> cand[<<q, Content[f]>>].from]
              /\ Cacheable(cand[<<q, Content[f]>>])
        BY <2>2 DEF Cached
      <3>2. cand[<<q, Content[f]>>] \in Record
        BY <2>1, <3>1 DEF Cacheable, NoRecord
      <3> QED
        BY <2>1, <3>1, <3>2 DEF Drafts, Record
    <2>3. CASE \E row \in Cached(r, Content[f]) : Drafted(p, row)
      BY <1>9, <2>2, <2>3, ScreenerAssumption
         DEF LookUp, Drafted, Goto, tables, counters, PC, Down, Busy
    <2>4. CASE Goto(p, "screening") /\ UNCHANGED draft
      BY <1>9, <2>4 DEF LookUp, Goto, tables, counters, PC, Down, Busy
    <2> QED
      BY <1>9, <2>3, <2>4 DEF LookUp
  <1>10. ASSUME NEW p \in Procs, hand[p] \in Jobs, Screen(p)
         PROVE  TypeOK'
    <2>1. hand[p][1] \in Runs /\ Content[hand[p][2]] \in Keys /\ NoSha \in Keys
      BY <1>10, JobIsPair, ScreenerAssumption DEF Keys
    <2>2. \A kind \in Kinds, key \in Keys :
            [key |-> key, kind |-> kind, from |-> hand[p][1]] \in Drafts
      BY <2>1 DEF Drafts
    <2>3. PICK d \in Drafts : Drafted(p, d)
      BY <1>10, <2>1, <2>2 DEF Screen, Kinds
    <2> QED
      BY <1>10, <2>3, ScreenerAssumption
         DEF Screen, Drafted, Goto, tables, counters, PC, Down, Busy
  <1>11. ASSUME NEW p \in Procs, hand[p] \in Jobs, draft[p] \in Drafts, Save(p)
         PROVE  TypeOK'
    <2> DEFINE j == hand[p]
               c == <<j[1], draft[p].key>>
    <2>1. /\ draft' = [draft EXCEPT ![p] = NoDraft]
          /\ pc[p] = "saving"
          /\ UNCHANGED <<runStatus, scans, closed, aged, hand, counters>>
      BY <1>11 DEF Save
    <2>2. CASE /\ cand' = [cand EXCEPT ![c] = [kind |-> draft[p].kind, by |-> j[2], from |-> draft[p].from]]
               /\ job' = [job EXCEPT ![j] = Completed(@)]
               /\ Goto(p, "finishing")
      <3>1. /\ c \in Runs \X Keys
            /\ [kind |-> draft[p].kind, by |-> j[2], from |-> draft[p].from] \in Record
        BY <1>11, JobIsPair DEF Drafts, Record
      <3>2. Completed(job[j]) \in Row
        BY <1>11, RowUpdates, ScreenerAssumption
      <3> QED
        BY <1>11, <2>1, <2>2, <3>1, <3>2 DEF Goto, counters, PC, Down, Busy
    <2>3. CASE Goto(p, "failing") /\ UNCHANGED <<cand, job>>
      BY <1>11, <2>1, <2>3 DEF Goto, counters, PC, Down, Busy
    <2> QED
      BY <1>11, <2>2, <2>3 DEF Save
  <1>12. ASSUME NEW p \in Procs, Raise(p)
         PROVE  TypeOK'
    BY <1>12, ScreenerAssumption
       DEF Raise, Goto, tables, counters, PC, Down, Busy
  <1>13. ASSUME NEW p \in Procs, hand[p] \in Jobs, Fail(p)
         PROVE  TypeOK'
    <2>1. Failed(job[hand[p]], TRUE) \in Row
      BY <1>13, FailUpdates
    <2>2. job' \in [Jobs -> Row]
      BY <1>13, <2>1 DEF Fail
    <2>3. /\ pc[p] = "failing"
          /\ pc' = [pc EXCEPT ![p] = "finishing"]
          /\ UNCHANGED <<runStatus, scans, cand, closed, aged, hand, draft, crashes, aborts>>
      BY <1>13 DEF Fail, Goto, counters
    <2> QED
      BY <2>2, <2>3 DEF PC, Down, Busy
  <1>14. ASSUME NEW p \in Procs, hand[p] \in Jobs, Finish(p)
         PROVE  TypeOK'
    <2>1. hand[p][1] \in Runs
      BY <1>14, JobIsPair
    <2> DEFINE last == [scans |-> scans[hand[p][1]], rated |-> Rows(hand[p][1])]
    <2>2. last \in [scans : Nat, rated : SUBSET Keys]
      BY <2>1 DEF Rows
    <2>3. CASE /\ runStatus' = [runStatus EXCEPT ![hand[p][1]] = "completed"]
               /\ closed' = [closed EXCEPT ![hand[p][1]] = last]
      BY <1>14, <2>1, <2>2, <2>3, ScreenerAssumption
         DEF Finish, Goto, counters, RunStatus, PC, Down, Busy
    <2>4. CASE UNCHANGED <<runStatus, closed>>
      BY <1>14, <2>4, ScreenerAssumption
         DEF Finish, Goto, counters, PC, Down, Busy
    <2> QED
      BY <1>14, <2>3, <2>4 DEF Finish, Completion
  <1>15. ASSUME NEW p \in Procs, Stop(p)
         PROVE  TypeOK'
    BY <1>15 DEF Stop, Goto, tables, counters, PC, Down, Busy
  <1>16. ASSUME NEW p \in Procs, Crash(p)
         PROVE  TypeOK'
    BY <1>16, ScreenerAssumption DEF Crash, Goto, tables, PC, Down, Busy
  <1>17. CASE UNCHANGED vars
    BY <1>17 DEF vars, tables, procs, counters
  <1>18. ASSUME NEW p \in Procs, pc[p] \notin Down \cup {"idle"}
         PROVE  hand[p] \in Jobs
    BY <1>18
  <1>19. ASSUME NEW p \in Procs, pc[p] = "saving"
         PROVE  draft[p] \in Drafts
    BY <1>19
  <1>20. ASSUME NEW p \in Procs, Work(p)
         PROVE  TypeOK'
    BY <1>8, <1>9, <1>10, <1>11, <1>12, <1>13, <1>14, <1>18, <1>19, <1>20
       DEF Work, LookUp, Screen, Save, Fail, Finish, Down
  <1> QED
    BY <1>1, <1>3, <1>4, <1>5, <1>6, <1>7, <1>15, <1>16, <1>17, <1>20 DEF Next

(* Spec is well typed in every reachable state.                            *)
THEOREM TypeCorrect == Spec => []TypeOK
  BY TypeInit, TypeStep, PTL DEF Spec

-----------------------------------------------------------------------------
(* What any step of the system may do to the jobs and the candidates.      *)
Open == {"pending", "claimed"}

Enters(r) ==
  /\ UNCHANGED cand
  /\ \A j \in Jobs :
       \/ job'[j] = job[j]
       \/ j[1] = r /\ job[j].status = "absent" /\ job'[j].status = "pending"

StaysOpen ==
  /\ UNCHANGED cand
  /\ \A j \in Jobs :
       job'[j] = job[j] \/ (job[j].status \in Open /\ job'[j].status \in Open)

Fails(p) ==
  /\ UNCHANGED cand
  /\ pc[p] = "failing" /\ hand[p] \in Jobs
  /\ job' = [job EXCEPT ![hand[p]] = Failed(@, TRUE)]

RowOf(p) == [kind |-> draft[p].kind, by |-> hand[p][2], from |-> draft[p].from]

SavesRow(p, c) ==
  /\ pc[p] = "saving" /\ hand[p] \in Jobs /\ draft[p] \in Drafts
  /\ c = <<hand[p][1], draft[p].key>> /\ c \in Runs \X Keys
  /\ cand[c] = NoRecord
  /\ cand' = [cand EXCEPT ![c] = RowOf(p)]
  /\ job' = [job EXCEPT ![hand[p]] = Completed(@)]

(* A step enters fresh jobs of one run, moves jobs between pending and      *)
(* claimed, fails the job in a worker's hand, or files its row and closes  *)
(* it: nothing else touches the two tables.                                *)
LEMMA StepShape ==
  ASSUME TypeOK, [Next]_vars
  PROVE  \/ \E r \in Runs : Enters(r)
         \/ StaysOpen
         \/ \E p \in Procs : Fails(p)
         \/ \E p \in Procs, c \in Runs \X Keys : SavesRow(p, c)
  <1> USE DEF TypeOK
  <1>1. ASSUME NEW r \in Runs, CreateRun(r) \/ RescanRun(r)
        PROVE  Enters(r)
    BY <1>1, SnapshotUpdates DEF CreateRun, RescanRun, Enters
  <1>2. ASSUME NEW r \in Runs, AbortRun(r)
        PROVE  StaysOpen
    <2>1. ASSUME NEW j \in Jobs, job[j].status = "claimed"
          PROVE  Requeued(job[j]).status = "pending"
      BY DEF Row, Requeued
    <2> QED
      BY <1>2, <2>1, AbortUpdates DEF AbortRun, StaysOpen, Open
  <1>3. ASSUME NEW p \in Procs, Startup(p)
        PROVE  StaysOpen
    <2>1. ASSUME NEW j \in Jobs, job[j].status = "claimed"
          PROVE  Requeued(job[j]).status = "pending"
      BY DEF Row, Requeued
    <2>2. WorkerIdOf[p] \in WorkerIds
      BY ScreenerAssumption
    <2> QED
      BY <1>3, <2>1, <2>2, ReclaimUpdates DEF Startup, StaysOpen, Open
  <1>4. ASSUME NEW p \in Procs, Claim(p)
        PROVE  StaysOpen
    <2>1. PICK j \in Jobs :
            /\ job[j].status = "pending"
            /\ job' = [job EXCEPT ![j] = Claimed(@, WorkerIdOf[p])]
      BY <1>4 DEF Claim, ClaimNext, Eligible
    <2>2. job[j] \in Row /\ WorkerIdOf[p] \in WorkerIds
      BY ScreenerAssumption
    <2>3. Claimed(job[j], WorkerIdOf[p]).status = "claimed"
      BY <2>2, RowUpdates
    <2> QED
      BY <1>4, <2>1, <2>3 DEF Claim, StaysOpen, Open
  <1>5. ASSUME NEW p \in Procs, Fail(p)
        PROVE  Fails(p)
    BY <1>5 DEF Fail, Fails, Down
  <1>6. ASSUME NEW p \in Procs, Save(p)
        PROVE  StaysOpen \/ \E c \in Runs \X Keys : SavesRow(p, c)
    <2>1. /\ pc[p] = "saving" /\ hand[p] \in Jobs /\ draft[p] \in Drafts
          /\ <<hand[p][1], draft[p].key>> \in Runs \X Keys
      BY <1>6, JobIsPair DEF Save, Down, Drafts
    <2> QED
      BY <1>6, <2>1 DEF Save, SavesRow, StaysOpen, KeyIsFree, RowOf
  <1>7. ASSUME UNCHANGED <<job, cand>>
        PROVE  StaysOpen
    BY <1>7 DEF StaysOpen
  <1> QED
    BY <1>1, <1>2, <1>3, <1>4, <1>5, <1>6, <1>7
       DEF Next, Work, vars, tables, procs, Age, StartRun, LookUp, Screen, Raise,
           Finish, Stop, Crash

-----------------------------------------------------------------------------
(* Any number of workers.                                                  *)

(* A step keeps a row of its own behind every closed job.                  *)
LEMMA DoneStep == TypeOK /\ DoneHasResult /\ [Next]_vars => DoneHasResult'
  <1> SUFFICES ASSUME TypeOK, DoneHasResult, [Next]_vars,
                      NEW r \in Runs, NEW f \in Files,
                      job'[<<r, f>>].status = "done"
               PROVE  \E key \in Keys : cand'[<<r, key>>].by = f
    BY DEF DoneHasResult
  <1> DEFINE j == <<r, f>>
  <1>1. /\ j \in Jobs /\ job[j] \in Row
        /\ job \in [Jobs -> Row]
    BY DEF TypeOK, Jobs
  <1>2. ASSUME UNCHANGED cand, job[j].status = "done"
        PROVE  \E key \in Keys : cand'[<<r, key>>].by = f
    BY <1>2 DEF DoneHasResult
  <1>3. ASSUME NEW q \in Runs, Enters(q)
        PROVE  \E key \in Keys : cand'[<<r, key>>].by = f
    BY <1>1, <1>2, <1>3 DEF Enters
  <1>4. CASE StaysOpen
    BY <1>1, <1>2, <1>4 DEF StaysOpen, Open
  <1>5. ASSUME NEW p \in Procs, Fails(p)
        PROVE  \E key \in Keys : cand'[<<r, key>>].by = f
    <2>1. job'[j] = job[j] \/ job'[j] = Failed(job[j], TRUE)
      BY <1>1, <1>5 DEF Fails
    <2>2. job[j].status = "done"
      BY <1>1, <2>1, FailUpdates
    <2> QED
      BY <1>2, <1>5, <2>2 DEF Fails
  <1>6. ASSUME NEW p \in Procs, NEW c \in Runs \X Keys, SavesRow(p, c)
        PROVE  \E key \in Keys : cand'[<<r, key>>].by = f
    <2>1. CASE hand[p] = j
      BY <1>6, <2>1 DEF SavesRow, RowOf, TypeOK
    <2>2. CASE hand[p] # j
      <3>1. job'[j] = job[j]
        BY <1>1, <1>6, <2>2 DEF SavesRow
      <3>2. PICK key \in Keys : cand[<<r, key>>].by = f
        BY <3>1 DEF DoneHasResult
      <3>3. <<r, key>> # c
        BY <1>6, <3>2, ScreenerAssumption DEF SavesRow, NoRecord
      <3> QED
        BY <1>6, <3>2, <3>3 DEF SavesRow, TypeOK
    <2> QED
      BY <2>1, <2>2
  <1> QED
    BY <1>3, <1>4, <1>5, <1>6, StepShape

(* However many workers run, whatever they steal from one another and      *)
(* however they crash, no job is closed without a candidate row of its     *)
(* own (complete_job, one transaction; UNIQUE(file_sha256, run_id)).       *)
THEOREM NoResultIsLost == Spec => []DoneHasResult
  <1>1. Init => DoneHasResult
    BY DEF Init, DoneHasResult, Jobs, NoRow
  <1> QED
    BY <1>1, DoneStep, TypeCorrect, PTL DEF Spec

(* No later attempt at a file, and no other file with the same hash,       *)
(* replaces a row once it is filed: complete_job only inserts.             *)
THEOREM FiledRowsAreFinal == Spec => ResultsAreFinal
  <1> DEFINE Final == \A c \in Runs \X Keys : cand[c] # NoRecord => cand'[c] = cand[c]
  <1>1. TypeOK /\ [Next]_vars => Final
    <2> SUFFICES ASSUME TypeOK, [Next]_vars, NEW c \in Runs \X Keys, cand[c] # NoRecord
                 PROVE  cand'[c] = cand[c]
      OBVIOUS
    <2>1. ASSUME NEW p \in Procs, NEW d \in Runs \X Keys, SavesRow(p, d)
          PROVE  cand'[c] = cand[c]
      BY <2>1 DEF SavesRow, TypeOK
    <2> QED
      BY <2>1, StepShape DEF Enters, StaysOpen, Fails
  <1>2. TypeOK /\ [Next]_vars => [Final]_vars
    BY <1>1
  <1> QED
    BY <1>2, TypeCorrect, PTL DEF Spec, ResultsAreFinal

(* What ClaimIsAccounted needs to be inductive: the holder of a claimed    *)
(* job has not yet given it back, so its next write settles or returns it. *)
Holds(p, j) == hand[p] = j /\ pc[p] \in Busy

Accounted ==
  \A j \in Jobs : job[j].status = "claimed" =>
    \E p \in Procs : WorkerIdOf[p] = job[j].owner /\ (Holds(p, j) \/ pc[p] \in Down)

(* A step leaves every claimed job with its holder, or with a process that *)
(* is down and will reclaim it.                                            *)
LEMMA AccountedStep == TypeOK /\ Accounted /\ [Next]_vars => Accounted'
  <1> SUFFICES ASSUME TypeOK, Accounted, [Next]_vars,
                      NEW j \in Jobs, job'[j].status = "claimed"
               PROVE  \E p \in Procs : /\ WorkerIdOf[p] = job'[j].owner
                                       /\ Holds(p, j)' \/ pc'[p] \in Down
    BY DEF Accounted
  <1> DEFINE Safe == \E p \in Procs : /\ WorkerIdOf[p] = job'[j].owner
                                      /\ Holds(p, j)' \/ pc'[p] \in Down
             Keeps(p) == Holds(p, j) \/ pc[p] \in Down => Holds(p, j)' \/ pc'[p] \in Down
  <1>1. job[j] \in Row /\ job \in [Jobs -> Row]
    BY DEF TypeOK
  <1>2. ASSUME job'[j] = job[j],
               \A p \in Procs : WorkerIdOf[p] = job[j].owner => Keeps(p)
        PROVE  Safe
    <2>1. PICK p \in Procs : WorkerIdOf[p] = job[j].owner /\ (Holds(p, j) \/ pc[p] \in Down)
      BY <1>2 DEF Accounted
    <2> QED
      BY <1>2, <2>1
  <1>3. ASSUME job'[j] = job[j], UNCHANGED <<pc, hand>>
        PROVE  Safe
    BY <1>2, <1>3 DEF Holds
  <1>4. ASSUME NEW r \in Runs,
               Age(r) \/ CreateRun(r) \/ RescanRun(r) \/ StartRun(r) \/ AbortRun(r)
        PROVE  Safe
    <2>1. UNCHANGED <<pc, hand>>
      BY <1>4 DEF Age, CreateRun, RescanRun, StartRun, AbortRun, procs
    <2>2. CASE CreateRun(r) \/ RescanRun(r)
      <3>1. job'[j] = job[j]
        BY <2>2, SnapshotUpdates DEF CreateRun, RescanRun
      <3> QED
        BY <1>3, <2>1, <3>1
    <2>3. CASE AbortRun(r)
      <3>1. job'[j] = job[j] \/ job'[j] = Requeued(job[j])
        BY <1>1, <2>3, AbortUpdates DEF AbortRun
      <3>2. Requeued(job[j]).status = "pending"
        BY <1>1 DEF Row, Requeued
      <3> QED
        BY <1>3, <2>1, <3>1, <3>2
    <2>4. CASE Age(r) \/ StartRun(r)
      BY <1>3, <2>1, <2>4 DEF Age, StartRun, tables
    <2> QED
      BY <1>4, <2>2, <2>3, <2>4
  <1>5. ASSUME NEW p \in Procs, Startup(p)
        PROVE  Safe
    <2>1. WorkerIdOf[p] \in WorkerIds
      BY ScreenerAssumption
    <2>2. Requeued(job[j]).status = "pending"
      BY <1>1 DEF Row, Requeued
    <2>3. job'[j] = job[j] /\ job[j].owner # WorkerIdOf[p]
      BY <1>1, <1>5, <2>1, <2>2, ReclaimUpdates DEF Startup
    <2>4. \A q \in Procs \ {p} : pc'[q] = pc[q] /\ hand'[q] = hand[q]
      BY <1>5 DEF Startup, Goto, TypeOK
    <2> QED
      BY <1>2, <2>3, <2>4 DEF Holds
  <1>6. ASSUME NEW p \in Procs, Claim(p)
        PROVE  Safe
    <2>1. PICK k \in Jobs :
            /\ job' = [job EXCEPT ![k] = Claimed(@, WorkerIdOf[p])]
            /\ hand' = [hand EXCEPT ![p] = k]
      BY <1>6 DEF Claim, ClaimNext, Eligible
    <2>2. pc[p] = "idle" /\ pc' = [pc EXCEPT ![p] = "claimed"]
      BY <1>6 DEF Claim, Goto
    <2>3. CASE j = k
      <3>1. job'[j] = Claimed(job[j], WorkerIdOf[p]) /\ WorkerIdOf[p] \in WorkerIds
        BY <1>1, <2>1, <2>3, ScreenerAssumption
      <3>2. job'[j].owner = WorkerIdOf[p]
        <4>1. Claimed(job[j], WorkerIdOf[p]).owner = WorkerIdOf[p]
          BY <1>1, <3>1, RowUpdates
        <4> QED
          BY <3>1, <4>1
      <3>3. Holds(p, j)'
        BY <2>1, <2>2, <2>3 DEF Holds, Busy, TypeOK
      <3> QED
        BY <3>2, <3>3
    <2>4. CASE j # k
      BY <1>1, <1>2, <2>1, <2>2, <2>4 DEF Holds, Busy, Down, TypeOK
    <2> QED
      BY <2>3, <2>4
  <1>7. ASSUME NEW p \in Procs, LookUp(p) \/ Screen(p) \/ Raise(p)
        PROVE  Safe
    <2>1. /\ UNCHANGED <<job, hand>>
          /\ pc[p] \in Busy
          /\ \E label \in Busy : pc' = [pc EXCEPT ![p] = label]
      BY <1>7 DEF LookUp, Screen, Raise, Drafted, Goto, tables, Busy
    <2> QED
      BY <1>2, <2>1 DEF Holds, Down, Busy, TypeOK
  <1>8. ASSUME NEW p \in Procs, Save(p)
        PROVE  Safe
    <2>1. hand[p] \in Jobs /\ hand' = hand
      BY <1>8 DEF Save, TypeOK, Down
    <2>2. CASE job' = job /\ Goto(p, "failing")
      <3>1. pc[p] = "saving" /\ pc' = [pc EXCEPT ![p] = "failing"]
        BY <1>8, <2>2 DEF Save, Goto
      <3> QED
        BY <1>2, <2>1, <2>2, <3>1 DEF Holds, Down, Busy, TypeOK
    <2>3. CASE job' = [job EXCEPT ![hand[p]] = Completed(@)] /\ Goto(p, "finishing")
      <3>1. hand[p] # j
        <4>1. Completed(job[j]).status = "done"
          BY <1>1 DEF Row, Completed
        <4> QED
          BY <1>1, <2>3, <4>1
      <3> QED
        BY <1>1, <1>2, <1>8, <2>1, <2>3, <3>1 DEF Save, Goto, Holds, Down, Busy, TypeOK
    <2> QED
      BY <1>8, <2>2, <2>3 DEF Save
  <1>9. ASSUME NEW p \in Procs, Fail(p)
        PROVE  Safe
    <2>1. /\ hand[p] \in Jobs /\ hand' = hand /\ pc[p] = "failing"
          /\ job' = [job EXCEPT ![hand[p]] = Failed(@, TRUE)]
          /\ pc' = [pc EXCEPT ![p] = "finishing"]
      BY <1>9 DEF Fail, Goto, TypeOK, Down
    <2>2. hand[p] # j
      BY <1>1, <2>1, FailUpdates
    <2> QED
      BY <1>1, <1>2, <2>1, <2>2 DEF Holds, Down, Busy, TypeOK
  <1>10. ASSUME NEW p \in Procs, Finish(p) \/ Stop(p) \/ Crash(p)
         PROVE  Safe
    <2>1. /\ job' = job
          /\ \A q \in Procs \ {p} : pc'[q] = pc[q] /\ hand'[q] = hand[q]
          /\ pc[p] \in {"finishing", "idle"} \/ pc'[p] = "crashed"
      BY <1>10 DEF Finish, Stop, Crash, Goto, tables, TypeOK
    <2> QED
      BY <1>2, <2>1 DEF Holds, Down, Busy
  <1>11. CASE UNCHANGED vars
    BY <1>3, <1>11 DEF vars, tables, procs
  <1> QED
    BY <1>4, <1>5, <1>6, <1>7, <1>8, <1>9, <1>10, <1>11 DEF Next, Work

(* However many workers run and whether or not they share an id, a claimed *)
(* job is in somebody's hands or will be reclaimed when its claimer comes  *)
(* back (reclaim_orphaned at startup): the queue strands nothing.          *)
THEOREM NoClaimIsStranded == Spec => []ClaimIsAccounted
  <1>1. Init => Accounted
    BY DEF Init, Accounted, NoRow
  <1>2. Accounted => ClaimIsAccounted
    BY DEF Accounted, ClaimIsAccounted, Holds
  <1> QED
    BY <1>1, <1>2, AccountedStep, TypeCorrect, PTL DEF Spec

(* A step leaves a running run whose last job is settled with its worker,  *)
(* or closes it.                                                           *)
LEMMA CloserStep == TypeOK /\ SomebodyCloses /\ [Next]_vars => SomebodyCloses'
  <1> SUFFICES ASSUME TypeOK, SomebodyCloses, [Next]_vars, NEW r \in Runs,
                      runStatus'[r] = "running", IsComplete(job', r), crashes' = 0
               PROVE  \E p \in Procs : hand'[p] \in Jobs /\ hand'[p][1] = r
    BY DEF SomebodyCloses
  <1> DEFINE Closer == \E p \in Procs : hand'[p] \in Jobs /\ hand'[p][1] = r
             Same == \A f \in Files : job'[<<r, f>>] = job[<<r, f>>]
             Keeps(p) == hand'[p] = hand[p] \/ ~(hand[p] \in Jobs /\ hand[p][1] = r)
  <1>1. /\ job \in [Jobs -> Row] /\ hand \in [Procs -> Jobs \cup {NoJob}]
        /\ runStatus \in [Runs -> RunStatus] /\ pc \in [Procs -> PC] /\ crashes \in Nat
        /\ \A p \in Procs : (hand[p] = NoJob) = (pc[p] \in Down \cup {"idle"})
        /\ NoJob \notin Jobs
        /\ \A f \in Files : <<r, f>> \in Jobs
    BY ScreenerAssumption DEF TypeOK, Jobs
  <1>2. \A f \in Files : job'[<<r, f>>].status \notin {"pending", "claimed"}
    BY DEF IsComplete, FilesIn
  <1>3. ASSUME Same, runStatus'[r] = runStatus[r], crashes' = crashes,
               \A p \in Procs : Keeps(p)
        PROVE  Closer
    <2>1. IsComplete(job, r)
      BY <1>3 DEF IsComplete, HasJobs, FilesIn
    <2>2. PICK p \in Procs : hand[p] \in Jobs /\ hand[p][1] = r
      BY <1>3, <2>1 DEF SomebodyCloses
    <2>3. hand'[p] = hand[p]
      BY <1>3, <2>2
    <2> QED
      BY <2>2, <2>3
  <1>4. ASSUME NEW q \in Runs, CreateRun(q) \/ RescanRun(q) PROVE Closer
    <2>1. Same
      <3> SUFFICES ASSUME NEW f \in Files PROVE job'[<<r, f>>] = job[<<r, f>>]
        OBVIOUS
      <3>1. TakeSnapshot(q)
        BY <1>4 DEF CreateRun, RescanRun
      <3>2. \/ job'[<<r, f>>] = job[<<r, f>>]
            \/ job'[<<r, f>>].status = "pending"
        BY <1>1, <3>1, SnapshotUpdates
      <3> QED
        BY <1>2, <3>2
    <2>2. runStatus'[r] = runStatus[r] /\ crashes' = crashes /\ hand' = hand
      BY <1>1, <1>4 DEF CreateRun, RescanRun, counters, procs
    <2> QED
      BY <1>3, <2>1, <2>2
  <1>5. ASSUME NEW q \in Runs, Age(q) \/ StartRun(q) PROVE Closer
    <2>1. job' = job /\ crashes' = crashes /\ hand' = hand
      BY <1>5 DEF Age, StartRun, tables, counters, procs
    <2>2. runStatus'[r] = runStatus[r]
      BY <1>1, <1>5 DEF Age, StartRun, tables
    <2> QED
      BY <1>3, <2>1, <2>2
  <1>6. ASSUME NEW q \in Runs, AbortRun(q) PROVE Closer
    <2>1. q # r /\ runStatus'[r] = runStatus[r] /\ crashes' = crashes /\ hand' = hand
      BY <1>1, <1>6 DEF AbortRun, procs
    <2>2. Same
      <3>1. \A j \in Jobs : j[1] # q => job'[j] = job[j]
        BY <1>1, <1>6, AbortUpdates DEF AbortRun
      <3> QED
        BY <1>1, <2>1, <3>1
    <2> QED
      BY <1>3, <2>1, <2>2
  <1>7. ASSUME NEW p \in Procs, Startup(p) PROVE Closer
    <2>1. WorkerIdOf[p] \in WorkerIds
      BY ScreenerAssumption
    <2>2. Same
      <3> SUFFICES ASSUME NEW f \in Files PROVE job'[<<r, f>>] = job[<<r, f>>]
        OBVIOUS
      <3>1. job'[<<r, f>>] \in {job[<<r, f>>], Requeued(job[<<r, f>>])}
        BY <1>1, <1>7, <2>1, ReclaimUpdates DEF Startup
      <3>2. Requeued(job[<<r, f>>]).status = "pending"
        BY <1>1 DEF Row, Requeued
      <3> QED
        BY <1>2, <3>1, <3>2
    <2> QED
      BY <1>3, <1>7, <2>2 DEF Startup, counters
  <1>8. ASSUME NEW p \in Procs, Claim(p) PROVE Closer
    <2>1. PICK j \in Jobs :
            /\ job' = [job EXCEPT ![j] = Claimed(@, WorkerIdOf[p])]
            /\ runStatus' = [runStatus EXCEPT ![j[1]] = "running"]
            /\ hand' = [hand EXCEPT ![p] = j]
      BY <1>8 DEF Claim, ClaimNext, Eligible
    <2>2. j[1] # r
      <3>1. j = <<j[1], j[2]>> /\ j[2] \in Files
        BY JobIsPair
      <3>2. job'[j].status = "claimed"
        <4>1. job[j] \in Row /\ WorkerIdOf[p] \in WorkerIds
          BY <1>1, ScreenerAssumption
        <4>2. job'[j] = Claimed(job[j], WorkerIdOf[p])
          BY <1>1, <2>1
        <4> QED
          BY <4>1, <4>2, RowUpdates
      <3> QED
        BY <1>2, <3>1, <3>2
    <2>3. Same
      BY <1>1, <2>1, <2>2
    <2>4. runStatus'[r] = runStatus[r] /\ crashes' = crashes
      BY <1>1, <1>8, <2>1, <2>2 DEF Claim, counters
    <2>5. \A q \in Procs : Keeps(q)
      <3>1. hand[p] = NoJob
        BY <1>1, <1>8 DEF Claim
      <3> QED
        BY <1>1, <2>1, <3>1
    <2> QED
      BY <1>3, <2>3, <2>4, <2>5
  <1>9. ASSUME NEW p \in Procs, LookUp(p) \/ Screen(p) \/ Raise(p) \/ Stop(p) PROVE Closer
    BY <1>3, <1>9 DEF LookUp, Screen, Raise, Stop, tables, counters
  <1>10. ASSUME NEW p \in Procs, Save(p) \/ Fail(p) PROVE Closer
    <2>1. /\ hand' = hand /\ hand[p] \in Jobs
          /\ runStatus' = runStatus /\ crashes' = crashes
      BY <1>1, <1>10 DEF Save, Fail, counters, Down
    <2>2. \A j \in Jobs : j # hand[p] => job'[j] = job[j]
      BY <1>1, <1>10 DEF Save, Fail
    <2>3. CASE hand[p][1] = r
      BY <2>1, <2>3
    <2>4. CASE hand[p][1] # r
      BY <1>1, <1>3, <2>1, <2>2, <2>4
    <2> QED
      BY <2>3, <2>4
  <1>11. ASSUME NEW p \in Procs, Finish(p) PROVE Closer
    <2>1. job' = job /\ crashes' = crashes /\ hand' = [hand EXCEPT ![p] = NoJob]
      BY <1>11 DEF Finish, counters
    <2>2. runStatus' \in {runStatus, [runStatus EXCEPT ![hand[p][1]] = "completed"]}
      BY <1>11 DEF Finish
    <2>3. runStatus[r] = "running"
      BY <1>1, <2>2
    <2>4. hand[p][1] # r
      BY <1>1, <1>11, <2>1, <2>3 DEF Finish, Active
    <2> QED
      BY <1>1, <1>3, <2>1, <2>3, <2>4
  <1>12. ASSUME NEW p \in Procs, Crash(p) PROVE Closer
    BY <1>1, <1>12 DEF Crash
  <1>13. CASE UNCHANGED vars
    BY <1>3, <1>13 DEF vars, tables, counters, procs
  <1> QED
    BY <1>4, <1>5, <1>6, <1>7, <1>8, <1>9, <1>10, <1>11, <1>12, <1>13 DEF Next, Work

(* No run stays open because everybody thought another would close it: for *)
(* any number of workers, the one left to close it is at work.             *)
THEOREM RunsAreNotForgotten == Spec => []SomebodyCloses
  <1>1. Init => SomebodyCloses
    BY DEF Init, SomebodyCloses
  <1> QED
    BY <1>1, CloserStep, TypeCorrect, PTL DEF Spec

(* What a worker is about to save is as sound as the rows already saved.   *)
CacheInv ==
  /\ CacheIsSound
  /\ \A p \in Procs : pc[p] = "saving" => Sound(hand[p][1], draft[p])

LEMMA CacheStep == TypeOK /\ CacheInv /\ [Next]_vars => CacheInv'
  <1> SUFFICES ASSUME TypeOK, CacheInv, [Next]_vars PROVE CacheInv'
    OBVIOUS
  <1>1. CacheIsSound'
    <2> SUFFICES ASSUME NEW r \in Runs, NEW key \in Keys, cand'[<<r, key>>] # NoRecord
                 PROVE  Sound(r, cand'[<<r, key>>])
      BY DEF CacheIsSound, Sound
    <2>1. ASSUME cand'[<<r, key>>] = cand[<<r, key>>]
          PROVE  Sound(r, cand'[<<r, key>>])
      BY <2>1 DEF CacheInv, CacheIsSound
    <2>2. ASSUME NEW p \in Procs, NEW c \in Runs \X Keys, SavesRow(p, c)
          PROVE  Sound(r, cand'[<<r, key>>])
      <3>1. CASE c # <<r, key>>
        BY <2>1, <2>2, <3>1 DEF SavesRow, TypeOK
      <3>2. CASE c = <<r, key>>
        <4>1. hand[p][1] = r /\ Sound(hand[p][1], draft[p])
          BY <2>2, <3>2 DEF SavesRow, CacheInv
        <4>2. cand'[<<r, key>>] = RowOf(p)
          BY <2>2, <3>2 DEF SavesRow, TypeOK
        <4> QED
          BY <4>1, <4>2 DEF Sound, RowOf
      <3> QED
        BY <3>1, <3>2
    <2> QED
      BY <2>1, <2>2, StepShape DEF Enters, StaysOpen, Fails
  <1>2. ASSUME NEW p \in Procs, pc'[p] = "saving"
        PROVE  Sound(hand'[p][1], draft'[p])
    <2>1. ASSUME pc[p] = "saving", hand'[p] = hand[p], draft'[p] = draft[p]
          PROVE  Sound(hand'[p][1], draft'[p])
      BY <2>1 DEF CacheInv
    <2>2. ASSUME NEW r \in Runs,
                 Age(r) \/ CreateRun(r) \/ RescanRun(r) \/ StartRun(r) \/ AbortRun(r)
          PROVE  Sound(hand'[p][1], draft'[p])
      BY <1>2, <2>1, <2>2 DEF Age, CreateRun, RescanRun, StartRun, AbortRun, procs
    <2>3. ASSUME NEW q \in Procs, q # p, Work(q) \/ Startup(q) \/ Stop(q) \/ Crash(q)
          PROVE  Sound(hand'[p][1], draft'[p])
      <3>1. pc'[p] = pc[p] /\ hand'[p] = hand[p] /\ draft'[p] = draft[p]
        BY <2>3 DEF Work, Claim, LookUp, Screen, Save, Raise, Fail, Finish, Startup,
                    Stop, Crash, Drafted, Goto, TypeOK
      <3> QED
        BY <1>2, <2>1, <3>1
    <2>4. ASSUME LookUp(p)
          PROVE  Sound(hand'[p][1], draft'[p])
      <3> DEFINE r == hand[p][1]
                 sha == Content[hand[p][2]]
      <3>1. r \in Runs /\ sha \in Shas /\ sha \in Keys
        BY <2>4, JobIsPair, ScreenerAssumption DEF LookUp, TypeOK, Down, Keys
      <3>2. PICK row \in Cached(r, sha) : draft'[p] = row
        BY <1>2, <2>4 DEF LookUp, Drafted, Goto, TypeOK
      <3>3. PICK s \in Runs :
              /\ ConditionOf[s] = ConditionOf[r] /\ Cacheable(cand[<<s, sha>>])
              /\ row = [key |-> sha, kind |-> cand[<<s, sha>>].kind, from |-> cand[<<s, sha>>].from]
        BY <3>2 DEF Cached
      <3>4. cand[<<s, sha>>] # NoRecord
        BY <3>3 DEF Cacheable, NoRecord
      <3>5. Sound(s, cand[<<s, sha>>])
        BY <3>1, <3>3, <3>4 DEF CacheInv, CacheIsSound
      <3>6. hand'[p] = hand[p]
        BY <2>4 DEF LookUp
      <3> QED
        BY <3>2, <3>3, <3>5, <3>6 DEF Sound, Cacheable
    <2>5. ASSUME Screen(p)
          PROVE  Sound(hand'[p][1], draft'[p])
      <3>1. draft'[p].from = hand[p][1] /\ hand' = hand
        BY <2>5 DEF Screen, Drafted, TypeOK
      <3> QED
        BY <3>1 DEF Sound
    <2>6. ASSUME Claim(p) \/ Save(p) \/ Raise(p) \/ Fail(p) \/ Finish(p) \/ Startup(p)
                   \/ Stop(p) \/ Crash(p)
          PROVE  FALSE
      BY <1>2, <2>6 DEF Claim, Save, Raise, Fail, Finish, Startup, Stop, Crash, Goto, TypeOK
    <2>7. CASE UNCHANGED vars
      BY <1>2, <2>1, <2>7 DEF vars, procs
    <2> QED
      BY <2>2, <2>3, <2>4, <2>5, <2>6, <2>7 DEF Next, Work
  <1> QED
    BY <1>1, <1>2 DEF CacheInv, Sound

(* A row copied through any chain of runs goes back to a screening under   *)
(* its own run's conditions, and no transient failure is ever copied       *)
(* (get_cached, cacheable).                                                *)
THEOREM CacheNeverMisleads == Spec => []CacheIsSound
  <1>1. Init => CacheInv
    BY DEF Init, CacheInv, CacheIsSound
  <1>2. CacheInv => CacheIsSound
    BY DEF CacheInv
  <1> QED
    BY <1>1, <1>2, CacheStep, TypeCorrect, PTL DEF Spec
-----------------------------------------------------------------------------
(* The ORDER BY of claim_next is a strict total order of the jobs: by      *)
(* lane, run, scan and path, the lane being the run's.                     *)
LEMMA ClaimOrderIsTotal ==
  ASSUME NEW table \in [Jobs -> Row], NEW old
  PROVE  Orders({jk \in Jobs \X Jobs : Before(table, old, jk[1], jk[2])}, Jobs)
  <1> DEFINE lane(j) == Lane(table, old, j[1])
             scan(j) == table[j].scan
             Ahead(j, k) == \/ lane(j) < lane(k)
                            \/ lane(j) = lane(k) /\ j[1] < k[1]
                            \/ j[1] = k[1] /\ scan(j) < scan(k)
                            \/ j[1] = k[1] /\ scan(j) = scan(k) /\ j[2] < k[2]
  <1>1. \A j \in Jobs : /\ lane(j) \in Nat /\ scan(j) \in Nat /\ j[1] \in Nat /\ j[2] \in Nat
                        /\ j = <<j[1], j[2]>>
    BY JobIsPair, QueueAssumption DEF Lane, Row
  <1>2. \A j, k \in Jobs : j[1] = k[1] => lane(j) = lane(k)
    OBVIOUS
  <1>3. \A j, k \in Jobs : Before(table, old, j, k) <=> Ahead(j, k)
    BY DEF Before
  <1> HIDE DEF lane, scan
  <1>4. \A j \in Jobs : ~Ahead(j, j)
    BY <1>1
  <1>5. \A j, k \in Jobs : j = k \/ Ahead(j, k) \/ Ahead(k, j)
    <2> TAKE j, k \in Jobs
    <2>1. CASE j[1] # k[1]
      BY <1>1, <2>1
    <2>2. CASE j[1] = k[1]
      BY <1>1, <2>2
    <2> QED
      BY <2>1, <2>2
  <1>6. ASSUME NEW j \in Jobs, NEW k \in Jobs, NEW l \in Jobs, Ahead(j, k), Ahead(k, l)
        PROVE  Ahead(j, l)
    BY <1>1, <1>2, <1>6
  <1> HIDE DEF Ahead
  <1> QED
    BY <1>3, <1>4, <1>5, <1>6 DEF Orders

(* The queue never stalls and never hands out two jobs at once: whenever   *)
(* some run that is pending or running has a pending job, claim_next's     *)
(* SELECT finds exactly one row, whichever runs count as aged.             *)
THEOREM ClaimNextFindsOne ==
  ASSUME NEW table \in [Jobs -> Row], NEW active \in SUBSET Runs, NEW old,
         Eligible(table, active) # {}
  PROVE  \E j \in Jobs : ClaimNext(table, active, old) = {j}
  <1> DEFINE E == Eligible(table, active)
             R == {jk \in Jobs \X Jobs : Before(table, old, jk[1], jk[2])}
  <1>1. E \subseteq Jobs /\ IsFiniteSet(E)
    <2>1. IsFiniteSet(Jobs)
      BY QueueAssumption, FS_Product DEF Jobs
    <2>2. E \subseteq Jobs
      BY DEF Eligible
    <2> QED
      BY <2>1, <2>2, FS_Subset
  <1>2. Orders(R, E)
    BY <1>1, ClaimOrderIsTotal DEF Orders
  <1>3. \A j, k \in Jobs : Before(table, old, j, k) <=> <<j, k>> \in R
    OBVIOUS
  <1> HIDE DEF R
  <1>4. PICK j \in E : \A k \in E : k = j \/ <<j, k>> \in R
    BY <1>1, <1>2, HasFirst
  <1>5. j \in ClaimNext(table, active, old)
    BY <1>1, <1>3, <1>4 DEF ClaimNext
  <1>6. ASSUME NEW k \in ClaimNext(table, active, old) PROVE k = j
    <2>1. k \in E /\ (j = k \/ <<k, j>> \in R)
      BY <1>1, <1>3, <1>4 DEF ClaimNext
    <2>2. ~(<<j, k>> \in R /\ <<k, j>> \in R)
      BY <1>2, <1>4, <2>1 DEF Orders
    <2> QED
      BY <1>4, <2>1, <2>2
  <1> QED
    BY <1>1, <1>4, <1>5, <1>6

-----------------------------------------------------------------------------
(* Only a claim of its own takes an idle worker to a job, and what it then *)
(* holds is the one claim_next chose.                                      *)
LEMMA OnlyAClaimTakesAJob ==
  ASSUME TypeOK, [Next]_vars, NEW p \in Procs, pc[p] = "idle", pc'[p] = "claimed"
  PROVE  hand'[p] \in ClaimNext(job, Active, aged)
  <1>1. ASSUME UNCHANGED pc PROVE FALSE
    BY <1>1
  <1>2. ASSUME NEW r \in Runs,
               Age(r) \/ CreateRun(r) \/ RescanRun(r) \/ StartRun(r) \/ AbortRun(r)
        PROVE  FALSE
    BY <1>1, <1>2 DEF Age, CreateRun, RescanRun, StartRun, AbortRun, procs
  <1>3. ASSUME NEW q \in Procs, Work(q) \/ Startup(q) \/ Stop(q) \/ Crash(q)
        PROVE  Claim(p)
    <2>1. CASE q # p
      <3>1. pc'[p] = pc[p]
        BY <1>3, <2>1 DEF Work, Claim, LookUp, Screen, Save, Raise, Fail, Finish, Startup,
                          Stop, Crash, Drafted, Goto, TypeOK
      <3> QED
        BY <3>1
    <2>2. ASSUME LookUp(p) \/ Screen(p) \/ Save(p) \/ Raise(p) \/ Fail(p) \/ Finish(p)
                   \/ Startup(p) \/ Stop(p) \/ Crash(p)
          PROVE  FALSE
      BY <2>2 DEF LookUp, Screen, Save, Raise, Fail, Finish, Startup, Stop, Crash, Down,
                  Goto, TypeOK
    <2> QED
      BY <1>3, <2>1, <2>2 DEF Work
  <1>4. Claim(p)
    BY <1>1, <1>2, <1>3 DEF Next, vars, procs
  <1> QED
    BY <1>4 DEF Claim, TypeOK

(* A claim serves the older of two runs with work queued, unless only the  *)
(* younger one is in the fast lane, small or aged (claim_next).            *)
THEOREM OlderRunsComeFirst == Spec => ServedInOrder
  <1>1. TypeOK /\ [Next]_vars =>
          \A p \in Procs, r \in Runs :
            pc[p] = "idle" /\ pc'[p] = "claimed" /\ r < hand'[p][1]
              /\ r \in Active /\ FilesIn(job, r, {"pending"}) # {}
            => Lane(job, aged, r) = 1 /\ Lane(job, aged, hand'[p][1]) = 0
    <2> SUFFICES ASSUME TypeOK, [Next]_vars, NEW p \in Procs, NEW r \in Runs,
                        pc[p] = "idle", pc'[p] = "claimed", r < hand'[p][1],
                        r \in Active, FilesIn(job, r, {"pending"}) # {}
                 PROVE  Lane(job, aged, r) = 1 /\ Lane(job, aged, hand'[p][1]) = 0
      OBVIOUS
    <2> DEFINE j == hand'[p]
    <2>1. j \in ClaimNext(job, Active, aged)
      BY OnlyAClaimTakesAJob
    <2>2. j \in Jobs /\ \A k \in Eligible(job, Active) : k = j \/ Before(job, aged, j, k)
      BY <2>1 DEF ClaimNext, Eligible
    <2>3. PICK f \in Files : job[<<r, f>>].status = "pending"
      BY DEF FilesIn
    <2> DEFINE k == <<r, f>>
    <2>4. k \in Eligible(job, Active) /\ k[1] = r
      BY <2>3 DEF Eligible, Jobs
    <2>5. j[1] \in Runs /\ j[1] \in Nat /\ r \in Nat
      BY <2>2, JobIsPair, QueueAssumption
    <2> HIDE DEF j, k
    <2>6. r < j[1]
      BY DEF j
    <2>7. Before(job, aged, j, k)
      BY <2>2, <2>4, <2>5, <2>6
    <2>8. Lane(job, aged, j[1]) < Lane(job, aged, r)
      <3>1. ~(j[1] < r) /\ j[1] # r
        BY <2>5, <2>6
      <3> QED
        BY <2>4, <2>7, <3>1 DEF Before
    <2>9. Lane(job, aged, j[1]) \in {0, 1} /\ Lane(job, aged, r) \in {0, 1}
      BY DEF Lane
    <2> QED
      BY <2>8, <2>9 DEF j
  <1> QED
    BY <1>1, TypeCorrect, PTL DEF Spec, ServedInOrder
-----------------------------------------------------------------------------
(* The steps a worker may still take for the job in its hand.              *)
ToGo(label) ==
  CASE label = "claimed" -> 5 [] label = "screening" -> 4 [] label = "saving" -> 3
    [] label = "failing" -> 2 [] label = "finishing" -> 1 [] OTHER -> 0

(* A worker cannot turn round on a job for ever: whatever happens in a     *)
(* round, it takes at most five steps from its claim to the next, nobody   *)
(* else moves the worker, the claim spends an attempt of that job, and no  *)
(* step of anybody gives an attempt back (run_once, claim_next, fail,      *)
(* reclaim_orphaned, abort_run_jobs).                                      *)
RoundsCount ==
  [][/\ \A p \in Procs :
          \/ pc'[p] = pc[p] /\ hand'[p] = hand[p]
          \/ Startup(p) \/ Stop(p) \/ Crash(p)
          \/ Work(p) /\ ToGo(pc'[p]) < ToGo(pc[p])
          \/ /\ Claim(p) /\ ToGo(pc'[p]) = 5
             /\ job'[hand'[p]].attempts = job[hand'[p]].attempts + 1
     /\ \A j \in Jobs :
          job[j].status # "absent" => job'[j].attempts >= job[j].attempts]_vars

(* What a worker's own step does to its round.                             *)
LEMMA RoundStep ==
  ASSUME TypeOK, NEW p \in Procs, Work(p), ~Claim(p)
  PROVE  ToGo(pc'[p]) < ToGo(pc[p])
  <1>1. \/ pc[p] = "claimed" /\ pc'[p] \in {"saving", "screening"}
        \/ pc[p] = "screening" /\ pc'[p] = "saving"
        \/ pc[p] = "saving" /\ pc'[p] \in {"finishing", "failing"}
        \/ pc[p] \in {"claimed", "screening", "saving"} /\ pc'[p] = "failing"
        \/ pc[p] = "failing" /\ pc'[p] = "finishing"
        \/ pc[p] = "finishing" /\ pc'[p] = "idle"
    <2> USE DEF Goto, Drafted, TypeOK
    <2>1. CASE LookUp(p)
      BY <2>1 DEF LookUp
    <2>2. CASE Screen(p)
      BY <2>2 DEF Screen
    <2>3. CASE Save(p)
      BY <2>3 DEF Save
    <2>4. CASE Raise(p)
      BY <2>4 DEF Raise
    <2>5. CASE Fail(p)
      BY <2>5 DEF Fail
    <2>6. CASE Finish(p)
      BY <2>6 DEF Finish
    <2> QED
      BY <2>1, <2>2, <2>3, <2>4, <2>5, <2>6 DEF Work
  <1> QED
    BY <1>1 DEF ToGo

(* What a claim does: it spends an attempt of the job it takes.            *)
LEMMA ClaimSpends ==
  ASSUME TypeOK, NEW p \in Procs, Claim(p)
  PROVE  /\ pc'[p] = "claimed" /\ hand'[p] \in Jobs
         /\ job'[hand'[p]].attempts = job[hand'[p]].attempts + 1
         /\ \A j \in Jobs : j # hand'[p] => job'[j] = job[j]
  <1>1. PICK j \in Jobs :
          /\ job' = [job EXCEPT ![j] = Claimed(@, WorkerIdOf[p])]
          /\ hand' = [hand EXCEPT ![p] = j]
    BY DEF Claim, ClaimNext, Eligible
  <1>2. /\ pc' = [pc EXCEPT ![p] = "claimed"]
        /\ job \in [Jobs -> Row] /\ hand \in [Procs -> Jobs \cup {NoJob}]
        /\ pc \in [Procs -> PC] /\ WorkerIdOf[p] \in WorkerIds
    BY ScreenerAssumption DEF Claim, Goto, TypeOK
  <1>3. hand'[p] = j /\ pc'[p] = "claimed" /\ job'[j] = Claimed(job[j], WorkerIdOf[p])
    BY <1>1, <1>2
  <1>4. Claimed(job[j], WorkerIdOf[p]).attempts = job[j].attempts + 1
    BY <1>2, RowUpdates
  <1> QED
    BY <1>1, <1>2, <1>3, <1>4

(* A row keeps the attempts spent on it.                                   *)
LEMMA AttemptsAreKept ==
  ASSUME TypeOK, [Next]_vars, NEW j \in Jobs, job[j].status # "absent"
  PROVE  job'[j].attempts >= job[j].attempts
  <1>1. /\ job \in [Jobs -> Row] /\ job[j] \in Row /\ job[j].attempts \in Nat
    BY DEF TypeOK, Row
  <1>2. CASE job'[j] = job[j]
    BY <1>1, <1>2
  <1>3. ASSUME NEW r \in Runs, CreateRun(r) \/ RescanRun(r)
        PROVE  job'[j] = job[j]
    BY <1>3, SnapshotUpdates DEF CreateRun, RescanRun
  <1>4. ASSUME NEW r \in Runs, Age(r) \/ StartRun(r)
        PROVE  job'[j] = job[j]
    BY <1>4 DEF Age, StartRun, tables
  <1>5. Requeued(job[j]).attempts = job[j].attempts
    BY <1>1 DEF Row, Requeued
  <1>6. ASSUME NEW r \in Runs, AbortRun(r)
        PROVE  job'[j] \in {job[j], Requeued(job[j])}
    BY <1>1, <1>6, AbortUpdates DEF AbortRun
  <1>7. ASSUME NEW p \in Procs, Startup(p)
        PROVE  job'[j] \in {job[j], Requeued(job[j])}
    <2>1. WorkerIdOf[p] \in WorkerIds
      BY ScreenerAssumption
    <2>2. job' = ReclaimOrphaned(job, WorkerIdOf[p])
      BY <1>7 DEF Startup
    <2> QED
      BY <1>1, <2>1, <2>2, ReclaimUpdates
  <1>8. ASSUME NEW p \in Procs, Claim(p)
        PROVE  job'[j].attempts >= job[j].attempts
    BY <1>1, <1>8, ClaimSpends
  <1>9. ASSUME NEW p \in Procs, Save(p)
        PROVE  job'[j] \in {job[j], Completed(job[j])}
    BY <1>1, <1>9 DEF Save
  <1>10. Completed(job[j]).attempts = job[j].attempts
    BY <1>1 DEF Row, Completed
  <1>11. ASSUME NEW p \in Procs, Fail(p)
         PROVE  job'[j] \in {job[j], Failed(job[j], TRUE)}
    BY <1>1, <1>11 DEF Fail
  <1>12. Failed(job[j], TRUE).attempts = job[j].attempts
    BY <1>1, FailUpdates
  <1>13. ASSUME NEW p \in Procs,
                LookUp(p) \/ Screen(p) \/ Raise(p) \/ Finish(p) \/ Stop(p) \/ Crash(p)
         PROVE  job'[j] = job[j]
    BY <1>13 DEF LookUp, Screen, Raise, Finish, Stop, Crash, tables
  <1>14. CASE UNCHANGED vars
    BY <1>2, <1>14 DEF vars, tables
  <1>15. ASSUME job'[j] \in {job[j], Requeued(job[j]), Completed(job[j]), Failed(job[j], TRUE)}
         PROVE  job'[j].attempts >= job[j].attempts
    <2>1. job'[j].attempts = job[j].attempts
      BY <1>5, <1>10, <1>12, <1>15
    <2> QED
      BY <1>1, <2>1
  <1> QED
    BY <1>3, <1>4, <1>6, <1>7, <1>8, <1>9, <1>11, <1>13, <1>14, <1>15 DEF Next, Work

(* What JobSettles rests on besides fairness: together with                *)
(* ClaimNextFindsOne (an idle worker that has work finds a job) and, for   *)
(* one worker, RetriesArePaidFor (the attempts of a job are bounded).      *)
THEOREM RoundsCome == Spec => RoundsCount
  <1>1. TypeOK /\ [Next]_vars =>
          [/\ \A p \in Procs :
                \/ pc'[p] = pc[p] /\ hand'[p] = hand[p]
                \/ Startup(p) \/ Stop(p) \/ Crash(p)
                \/ Work(p) /\ ToGo(pc'[p]) < ToGo(pc[p])
                \/ /\ Claim(p) /\ ToGo(pc'[p]) = 5
                   /\ job'[hand'[p]].attempts = job[hand'[p]].attempts + 1
           /\ \A j \in Jobs :
                job[j].status # "absent" => job'[j].attempts >= job[j].attempts]_vars
    <2> SUFFICES ASSUME TypeOK, Next, NEW p \in Procs
                 PROVE  \/ pc'[p] = pc[p] /\ hand'[p] = hand[p]
                        \/ Startup(p) \/ Stop(p) \/ Crash(p)
                        \/ Work(p) /\ ToGo(pc'[p]) < ToGo(pc[p])
                        \/ /\ Claim(p) /\ ToGo(pc'[p]) = 5
                           /\ job'[hand'[p]].attempts = job[hand'[p]].attempts + 1
      BY AttemptsAreKept
    <2>1. ASSUME NEW r \in Runs,
                 Age(r) \/ CreateRun(r) \/ RescanRun(r) \/ StartRun(r) \/ AbortRun(r)
          PROVE  pc' = pc /\ hand' = hand
      BY <2>1 DEF Age, CreateRun, RescanRun, StartRun, AbortRun, procs
    <2>2. ASSUME NEW q \in Procs, q # p, Work(q) \/ Startup(q) \/ Stop(q) \/ Crash(q)
          PROVE  pc'[p] = pc[p] /\ hand'[p] = hand[p]
      <3>1. pc'[p] = pc[p]
        BY <2>2 DEF Work, Claim, LookUp, Screen, Save, Raise, Fail, Finish, Startup, Stop,
                    Crash, Drafted, Goto, TypeOK
      <3>2. hand'[p] = hand[p]
        BY <2>2 DEF Work, Claim, LookUp, Screen, Save, Raise, Fail, Finish, Startup, Stop,
                    Crash, TypeOK
      <3> QED
        BY <3>1, <3>2
    <2>3. CASE Claim(p)
      BY <2>3, ClaimSpends DEF ToGo
    <2>4. CASE Work(p) /\ ~Claim(p)
      BY <2>4, RoundStep
    <2> QED
      BY <2>1, <2>2, <2>3, <2>4 DEF Next
  <1> QED
    BY <1>1, TypeCorrect, PTL DEF Spec, RoundsCount
=============================================================================
