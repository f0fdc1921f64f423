# The screener, specified

TLA+ models of the resume screening system in `src/`, checked with TLC and, where it says
so, proved with TLAPS for every value of the constants.

A reviewer opens a position, approves a rubric for it and creates a *run*: a snapshot of the
position's folder, one *job* per resume file. A separate *worker* process claims one job at a
time, looks for an earlier judgment of the same bytes under the same conditions, otherwise
screens the file (intake, sandboxed parser, language model, evidence checks, arithmetic), and
files one *candidate* row. Everything they share is one SQLite database in WAL mode, where each
service method is one `BEGIN IMMEDIATE` transaction, plus a directory of trace files.

## 1. The system's parts

| Part (source) | State it keeps | Operations | What makes it correct |
|---|---|---|---|
| Job queue (`storage/jobs_store.py`) | `jobs`: status, attempts, owner; ids in snapshot order | snapshot, claim_next, complete, fail, reclaim_orphaned, abort_run_jobs, progress | no file is lost or settled twice; a dead worker's claim is given back; small runs overtake large ones but starve nobody |
| Worker (`worker_loop.py`, `worker.py`, `cli.py work`) | its job and its candidate, in memory; the stop flag | startup, run_once, request_stop | every outcome of a job, a crash included, leaves rows another step can finish |
| Run life cycle (`service.py`, `storage/runs_store.py`) | `runs`: status, rate, sign-off | create, rescan, start, abort, finish, sign off | `completed` means what it says; the stored rate covers the rows shown |
| Results and cache (`storage/results_store.py`) | `candidates` (UNIQUE(file_sha256, run_id)), `verdicts` | save, get_cached, purge | one row per content and run, never replaced; a transient failure is never served again |
| Traces and erasure (`logging.py`, `storage/traces_store.py`, `service.purge_candidate`) | trace files, `traces` index | write, record, purge | every file with a resume's text can be found by the purge |
| Screening pipeline (`pipeline.py`, `intake/`, `llm/`, `clients/`) | none between two files | screen_one and its stages | each file yields one candidate, flagged when the system could not judge it |
| Arithmetic (`core/compute_score.py`, `verify_evidence.py`, `validate_verdicts.py`, `rank.py`) | none | score, verify, rank | a bookkeeping error of the model never raises a score; an unmet must-have never outranks a met one |
| Text filters and budget (`core/redact_pii.py`, `detect_injection.py`, `screen_freetext.py`, `budget.py`, `intake/sanitize_text.py`) | none | regular expressions and token counts | outside what these models can say |
| Sandboxed parser (`intake/sandbox.py`, `parse_worker.py`) | one child process per file | run, classify | a hostile file costs one candidate, not the worker |
| Model client (`clients/ollama_client.py`) | the model digest, cached per process | chat with retries | bounded retries; what was judged is recorded under what judged it |
| Rubrics and positions (`storage/rubrics_store.py`, `positions_store.py`, `service.py`) | `positions` (UNIQUE reference), `rubrics` (UNIQUE position and version), approval | create, extract, save, approve, create a run under | a run uses an approved, immutable rubric of its own position, and what was approved is what the approver was served |
| Intake (`intake/validate_file.py`) | none; four looks at one path | location, size, type, structure | it refuses for a defect the file has and accepts none that has one |
| Unit of work (`storage/uow.py`, `connection.py`) | one connection per thread, SQLite's write lock | begin, commit, roll back | a decision and its record together or not at all, and nobody told otherwise |
| Audit (`storage/audit_store.py`) | append-only rows | append in the caller's transaction | no decision without its record |
| API, CLI, UI (`api/`, `ui/`, `cli.py`) | a page's session state; requests in flight | one service call per handler, button or command | a page believes only what is stored, and says done only of what was done |
| Settings, prompts, digest (`config/settings.py`, `ports.py`, `llm/__init__.py`) | what each process read, and when | freeze in a run, use in a worker | a row's key says under what it was judged |
| Evaluation (`eval/`) | none | offline measurement | outside the running system |

How they interact: the API and the CLI write runs and jobs and never call the worker; the worker
polls. The only shared state is the database and the files. So the hard behaviours are interleavings
*between* transactions: an abort or a rescan while a job is in a worker's hands, a crash between the
two transactions that close a job and its run, a restart that reclaims, a second worker, a failure
that retries at once, a purge while the worker holds or writes the text being purged; on the
reviewers' side, requests that outlive the page that sent them, drafts and approvals made elsewhere
meanwhile, a COMMIT that fails; around both, files, settings, weights and prompts that change while
processes keep what they read first. `PROJECT.json` lists them as hazards, each at its line.

## 2. The modules

| Module | Models |
|---|---|
| `JobQueue` | the `jobs` table and its statements, as functions from table to table; used by `Screener` |
| `Screener` | reviewers, operators and workers around the database: one action per unit of work and per stretch of worker code between two of them |
| `ResultLedger` | the abstract specification of the two above: a file is entered, then reported or abandoned, once |
| `Erasure` | candidate rows, trace files and their index, a worker that writes them, and concurrent purges |
| `Judging` | `screen_one`: intake, parser, budget, judging call, evidence, score, band and rank of one resume |
| `Registry` | requisitions, rubrics, runs and decisions, and what each service method makes of them, as functions from tables to answers; used by `Desk` |
| `Desk` | browser pages, the API's requests in flight and terminals, calling the service |
| `UnitOfWork` | the transaction boundary: threads, connections, the write lock, a body of two writes |
| `DecisionLog` | the abstract specification of `UnitOfWork`: a decision is on record in one step or not at all |
| `Intake` | `validate_file` and the parser's page bound as functions of a file, with a reference definition; used by `Provenance` |
| `Provenance` | what a row was really screened under: frozen conditions, restarts, re-pulled weights, replaced files, cache hits |
| `MCScreener`, `MCErasure`, `MCJudging`, `MCDesk`, `MCUnitOfWork`, `MCProvenance` | values for the constants |
| `ScreenerProofs`, `SingleWorkerProofs`, `ErasureProofs`, `JudgingProofs`, `UnitOfWorkProofs`, `DeskProofs`, `ProvenanceProofs` | theorems |
| `FiniteFacts` | lemmas the theorems share: induction over the numbers and over the size of a finite set, sums over a set, finite sets that are ordered have a first and can be sorted |

An operator marked `Slip:` is not part of a model: it is a plausible mistake in the code that the
definition after it models, kept to show that the properties notice it.

### JobQueue and Screener

`job[<<r, f>>]` is the row with UNIQUE(run_id, file_path); `status = "absent"` is a file the run
has not seen. The autoincrement id orders the rows of a run by snapshot, then by path (`sorted`),
so a row carries the number of the `scan` that inserted it. `cand[<<r, key>>]` is the row under
UNIQUE(file_sha256, run_id); a file rejected at intake is filed under the empty hash (`NoSha`),
as the code does. `by` (the file a row is about) and `from` (the run whose screening it was copied
from) are history the code does not keep; `closed` records what `finish_run_if_complete` computed
the stored rate over.

| Action | Code |
|---|---|
| `CreateRun`, `RescanRun`, `StartRun`, `AbortRun` | the service methods of those names. The folder belongs to the environment: each snapshot may find any of the files that ever lie there (`FolderOf`). A rescan that finds nothing new changes nothing and is not a step |
| `Startup` | `Worker.startup`: `reclaim_orphaned` for its own worker id |
| `Claim` | `claim_next_job`: the claim and the run's move to running, one transaction |
| `LookUp`, `Screen` | `Worker._process` up to `complete_job`: a cache hit, or `screen_one` with any of its outcomes |
| `Save` | `complete_job`: both writes, or an IntegrityError and neither |
| `Raise`, `Fail` | `run_once`'s `except`: any other failure, then `fail_job(retryable=True)` |
| `Finish` | `run_once`'s `finally`: `finish_run_if_complete` |
| `Stop` | SIGTERM: a flag, read between two jobs |
| `Crash` | the death of the process, and any exception outside `run_once`'s `try` (the claim, `fail_job`, `finish_run_if_complete`), which ends `run_forever` the same way |
| `Age` | a run passes `run_aging_hours` |

What is abstracted: the seven cache-key fields beside the hash are one value per run
(`ConditionOf`), the conditions *recorded* with the run; whether they are those the worker really
judged under is what `Provenance` asks. A file's bytes do not change (`Content`). The
low-disk check makes the worker take no step, so the liveness results assume enough disk. Ties in
`runs.created_at` are ignored. `heartbeat`, `release` and `reclaim_if_unchanged` have no caller in
the program and are not modelled.

### ResultLedger

`ImplementsLedger` maps pending and claimed jobs to `open`, done to `reported`, failed to
`abandoned`, and a candidate row to the file it is about. Retries, claims, restarts and aborts are
invisible to the ledger; a row and its job's closing are one step of it.

### Erasure

A place `<<run, sha>>` addresses a candidate row and a trace path. Text is `fresh` or, once its
content has been purged, `old`: whatever `old` text is left after a purge is what the purge did
not reach. The worker is `_process` cut where others can step in: look-up, judging, writing the
trace file, indexing it, saving. A purge is one transaction over rows and index, then one unlink
at a time. Faults are explicit: a write that raises after creating the file, an index write that
the sink swallows, a crash in between, an unlink that raises. `lost` remembers where one happened,
`inFlight` which contents the worker held when they were purged. Tracing is taken as enabled.

### Judging

One action per stage of `screen_one`, with every return and every exception; `Screener` sees all of
it as its `Screen` or `Raise`. The parser's child may end in any of the ways `run_sandboxed`
distinguishes, and in one that it does not: `unable`, an exception in the child that says nothing of
the file, reported as `ok: false` like a file found broken (`refused`). The judging call is two
loops, `chat_structured`'s (`CallFails`, `Malformed`, one counter) inside `judge_resume`'s
(`Compare`). A reply is a list of entries, and a quote is what the checks would find in it: nothing,
not in the resume, in it but off the subject, or apt. Which of these a quote is, and what redaction,
sanitising and the free-text screen do to words, is not modelled. The arithmetic is exact, in
tenths; where a score falls exactly between two tenths, the float decides, and `TiesUp` says which
of those go up (for the instance: what Python computes for its weights). `Rank` returns file names,
as the partitions of `rank`; its rate is left to `Screener`.

### Registry and Desk

`db` holds the tables as far as decisions depend on them: the users, the positions by their folder
reference, a rubric per position and version, the runs (their position, rubric, whether a snapshot
found files, whether a candidate was filed, the sign-off). Each service method is an operator that
returns the tables, an outcome (`ok`, a rule broken, an `integrity` error of the database) and what
the client is shown; one that raises leaves the tables alone, which is what `UnitOfWork` is about.
`seen` is history: the criteria its approver had been shown. The run's own status belongs to
`Screener`; here `start`, `rescan` and `abort` are only what they demand and what they find.

A page is a Streamlit script that blocks on one request. `ui` is its session state and the editor's
content (`screen`), `line` the requests the API has not answered, `waiting` the one a page is
blocked on, `said` what it shows of the last press and, as history, whether it took effect.

| Action | Code |
|---|---|
| `ChoosePosition`, `Edit`, `EnterRun` | the widgets of `screener_app.py`, which rerun the script |
| `Press` | any button on screen: `RubricOffers`, `RunOffers`, `SignOffOffers`, `OverrideOffers` are the conditions under which the page shows one. With the API down, the review page stops at its list (`SaysDown`) |
| `Look`, `Serve`, `Fault` | a route and its service method: extraction has a unit of work before the model is asked and one after; either may fail |
| `Deliver`, `Overtaken`, `Timeout` | `ApiClient._request` and `call`: the answer, an answer a later click discards, `ApiError` |
| `Reload`, `CrashApi`, `RestartApi` | a new session; the process dying under its requests |
| `Command` | a command typed with any ids, in a process of its own |
| `Screened` | the worker files a candidate |

Audit rows and the locks are left out here. A row of the page's editor is fit for the contract
(`Contents`) or not (`Unfit`, a row added by hand has no id); its words do not matter.

### UnitOfWork and DecisionLog

`at` is where a thread is in `with unit_of_work()`, `conn` its connection, `draft` the tables its
transaction has written, `lock` SQLite's one write lock, `overrides` and `audit` what is on disk.
One body of two writes stands for every service method, since each is "the rows, then the audit
row". `Begin` is BEGIN IMMEDIATE, `GiveUp` the end of `busy_timeout`, `Raise` any exception in the
body, `Leave` and `LeaveFails` a COMMIT, `Unwind` a ROLLBACK. A failed COMMIT either has rolled back
or leaves the connection inside its transaction; `__exit__` does not look, and the next unit of
work of that thread (`BeginInside`) fails for it. `Retire` is the thread pool dropping a thread.
`Migrate` and `Start` are the schema gate: the API and the worker refuse an unmigrated database, a
command does not. `ImplementsLog` maps what is in both tables to `recorded`.

### Intake and Provenance

A file is what the checks tell apart: where it is, its size, the type of its leading bytes, page
counts legible without parsing, zip entries, what the parser would find. The checks are functions
of what is at the path *when each of them looks*; `Provenance` calls them one action at a time,
and `Replace` may come in between. `Defects` is the reference: everything wrong with a file, in no
order. `run[r].key` is what `create_run` froze in the API process; `Boot` and `FirstRead` say when
a process reads what (settings and code at its start, prompt and digest at first use). The worker
screens under `Prevailing`, files under the run's key, and may copy a row `Hits` finds. `doubt`,
`under`, `from` and `seen` are history. A value is a number that only grows, so a condition that is
changed back counts as a change.

## 3. The runs

| Run | Asks | Bounds |
|---|---|---|
| `daemon` | with one worker: no result lost or replaced, no claim stranded, nothing saved twice, an honest completion and rate, paid-for retries, the refinement of the ledger; every queued job of an active run is settled; without a crash a settled run is closed | one run, two byte-identical files, 3 attempts, 2 crashes, 2 aborts; rescans and restarts unbounded |
| `shared_id` | what still holds when a foreground `screener work` runs beside the daemon under the same default id and each reclaims the other's jobs; that a settled run is left in the hands of one of them | two processes, one id, one run, two files |
| `four_runs` | claims serve runs in the documented order; what a run may copy from the earlier ones | four runs, the first of two files and under other conditions than the rest, which have one file, the same as one of its two; a fast lane of one file; the first may age; one attempt per job, failures of the parser but no exceptions |
| `erasure` | which traces and rows a purge reaches, under every fault | two runs over one resume, two concurrent purges |
| `judging` | what a score, a band, a rank and the absence of a review may rest on; that retries and corrections end | four criteria (the least a rubric may have), two of them must-haves, weights that produce ties; two criteria with every kind of quote; replies that omit, repeat or invent a criterion; two retries |
| `desk` | what a run may be created under, what a page may believe, whom the database turns away | one page, two people, a requisition with two rubric versions and one to be opened, two lists of criteria, one run, two requests in flight, four requests or commands |
| `uow` | a decision and its audit row together or not at all; the refinement of the log; one writer; that calls end and the lock comes free | three decisions, two threads of the API, one terminal; crashes, retirements and failed COMMITs unbounded |
| `provenance` | a rejection names a defect the file had; a row's key is wrong only where a change on record explains it | two runs over one path, some twenty files at, above and below every limit, one change of any condition and one replacement of the file at any moment; restarts unbounded |
| `doc_*` | one sentence of the documentation each, which the program does not keep (section 5) | as small as shows it, or those of the run above |

Two files are the least for which one can collide with, overtake or be forgotten because of
another; byte-identical ones make the UNIQUE key bite. Two crashes and two aborts allow each to
happen while the damage of the other is being repaired. The bounds cap only what the environment
does (`MaxCrashes`, `MaxAborts`, `Old`, `FaultsHappen`; `MaxCalls`, `Lines` and `MaxVersion` in `desk`;
`MaxChanges`, `MaxReplacements` and `Arrivals` in `provenance`); a job's attempts and a run's scans are
bounded by the behaviour itself. In `four_runs`, three runs under one set of conditions make a copy
of a copy, and a fourth under another shows what must not be copied; it is the large one, which the
others may overtake until it has aged. In `desk`, four calls are enough for a page to hold a draft, another
person to save and approve the next version, and the page to approve or create a run from what it
still shows; two requests in flight are one that was given up and its repetition. In `provenance`
one change separates any two of: what the API froze, what the worker read, what is there now; a
second run is the one that may copy. Runs and rubrics are interchangeable there, and so are the runs
and the purgers in `erasure`, so symmetry is used; neither run checks liveness. Deadlock is checked
in every run.

**Fairness.** `WF(Work(p))`: a worker process that is up keeps executing; its loop has no branch
that waits for another party. `WF(pc[p] = "crashed" /\ Startup(p))`:
`deploy/screener-worker.service` says `Restart=on-failure`; a worker stopped by SIGTERM exits
cleanly and is not restarted, so `Stop` owes nothing. Nothing is owed in `Desk`: that a page stops
waiting is the timeout every request carries (`api_client.py`) and nothing else, so it is an action
there and no property. `WF(Step(t))` in `UnitOfWork`: a thread inside a call is running code, and
SQLite ends its wait for the lock after `busy_timeout`; a call may still fail every time. `WF(Step)`
in `Judging`: `screen_one` runs in the worker's one thread, and each call it waits for has a time
limit (`parse_timeout_s`, `request_timeout_s`). Reviewers, time, faults and crashes are never owed.
A failed job needs no fairness of success: its attempts run out.

## 4. What is proved

`tlapm` checks every proof to the last leaf; the constants are arbitrary (any finite sets of
runs and files, any processes, contents, bounds), under the named ASSUMEs of the modules: that the
sets the code iterates over are finite, that a value standing for "none" is no other value
(`None`), that weights are 1 to 5, that what is dropped into a folder is a file (`Docs` and
`Arrivals` are in `File`).

*For any number of workers, sharing ids or not* (`ScreenerProofs`): `TypeCorrect`;
`NoResultIsLost`, `FiledRowsAreFinal`, `NoClaimIsStranded`, `CacheNeverMisleads`. Lemmas say once
what each statement of the queue does to a row (`RowUpdates`, `FailUpdates`, `ReclaimUpdates`,
`AbortUpdates`, `SnapshotUpdates`) and which variables a step may touch (`StepShape`).
`OlderRunsComeFirst` is the documented order of claims, from which job an idle worker comes to hold
(`OnlyAClaimTakesAJob`). `ClaimNextFindsOne` says that the ORDER BY of `claim_next` picks exactly one
job whenever there is one, since its order is total (`ClaimOrderIsTotal`) and a finite set has a
first (`HasFirst`). `RunsAreNotForgotten`: as long as nothing crashed, a running run whose jobs are
settled is in some worker's hand, who has yet to look at it, even if two settle its last two jobs
(`SomebodyCloses`).
`RoundsCome`: from one claim to the next a worker takes at most five steps, nobody else moves it,
each claim spends an attempt of its job, and no failure, reclaim or abort gives one back.

*For one worker* (`SingleWorkerProofs`, ASSUME SingleWorker): `SavedStaysClosed`,
`RateIsNeverStale`, `CompletionIsHonest`, `RetriesArePaidFor` and the refinement
`ScreenerImplementsLedger`. None of these is inductive alone. `HandInv` adds what a worker between
two transactions may count on: the job in its hand is still open, and claimed by it or requeued by
an abort, until it settles it - the fact a second worker breaks. `CompletionInv` adds that a
completed run's rows have not changed since, because a claimable job means the run is active.
`AttemptsInv` charges each attempt either to a job's own limit or to a crash or an abort.

*Erasure, for any runs, contents and concurrent purges* (`ErasureProofs`): `EveryTraceIsFindable`,
`PurgeReachesEverything`, `BlankStaysPut`. The invariant adds that text in the worker's hand is old
only if a purge saw it there (`HandIsMarked`), and that what the cache may serve is never blank
(`NothingBlankIsHeld`).

*Judging, for any rubric, replies and thresholds* (`JudgingProofs`): `ScoreRestsOnOneVerdictEach`,
`UnsupportedEarnsNothing`, `NoReviewMeansSound`, `WhatIsReportedIsCached`, `SignalsSurvive`. Two
lemmas carry them: in a reply that matches, the entry the checks read for a criterion is the only
one (`MatchingReply`), and the evidence flags of the reply account for every verdict in it
(`FlagsOfMatching`). The invariant keeps both from the comparison to the score, and the only flags
of the kind that may pass with a child that ended without a report (`ChildInv`). `TypeCorrect`
includes the range of a score, 0 to 10: what is earned is between nothing and all of the rubric's
weight. `NobodyGainsByLosing` compares a candidate with the same one had the model found less for
one criterion: the sum falls, rounding and bands keep the order (`BandIsMonotone`, for thresholds in
any order), so neither score nor place gets better. `RankIsComplete` says of any pool, ties and the
unscored included, that each is listed once and the ranked partitions are sorted.
`NothingIsDoneForEver` gives `screen_one` a measure, `Left`, that every step lowers: two nested
retry loops with one shared counter end after at most `2 * MaxRetries + 11` steps.

*The register and its pages, for any sessions, requests in flight, people, requisitions, versions and
runs* (`DeskProofs`): `TypeCorrect`, `ScreenedAgainstApproved`, `PagesShowWhatIsStored`,
`KeysAreNeverInTheWay`. The argument is that the tables only grow: each service method, whatever it
is asked, keeps them `Sound` and every stored rubric as it was (one lemma `...IsProper` per method,
gathered in `OutcomesAreProper`), so what was once shown of a rubric stays true (`Growth`). What has
to be added to make it inductive is about requests: an answer in flight shows what is stored
(`AnswersAreStored`), an approval on its way names the criteria its sender was shown
(`RequestsAreWellFormed`), a page's line is its own (`WaitedFor`). That the next version is free is
`NextVersionIsFree`; it needs that a non-empty set of versions has a greatest (`HasGreatest`, from
the library's minimal elements of a well-founded relation, `WFMin`).

*The unit of work, for any attempts, threads and processes* (`UnitOfWorkProofs`): `TypeCorrect`,
`RowsLandTogether`, `OneWriterAtATime`, and the refinement `IsAtomic`. The invariant ties the place
in the code to what the transaction holds (`Progress`), and what is on disk to who has been told
(`OnDiskWhenCommitted`); `OneEach` says no two threads make the same attempt. `LocksAreAccounted`:
the lock is held in a unit of work or since a COMMIT of its holder failed, and a call that waits
waits for another thread. `NoCallLingers`: each step of a call brings it nearer to its end, five at
most, and no other thread's step moves it, unless its process crashes.

*Provenance, for any files, runs, rubrics and any number of changes* (`ProvenanceProofs`):
`RecordsTellTheTruth`. `DoubtCoversTheKey` carries it: what a run is doubted about covers every
field in which its frozen key differs from what the worker would use now. The invariant keeps this
for the candidate in hand (`DraftIsTrue`), copies included. `ValidationIsRight` compares the four
stages of `validate_file` with the reference `Defects`, for archives of any length: the entry at
which the loop stops is where the running total, which is a sum over the entries before it, first
passes the limit. `VerdictsAreRight` puts the stages back into time, the path being replaced
between any two. Its invariant remembers what the stages passed so far said if they all saw one file
(`PassedSoFar`), and that the file at the path is among those seen (`Watched`).

`ErasureProofs` and `UnitOfWorkProofs` also prove their modules' `TypeOK`.

*Sums and sequences.* The library's induction theorems take an operator, which the provers cannot
instantiate. `FiniteFacts` therefore states induction with the *set* of numbers for which something
holds (`NumberInduction`, `SizeInduction`), and shows that a recursion over a finite set has a
solution by building it up one element at a time (`SumExists`); sums, running totals and sorted
lists are then characterised by what they satisfy. With that, every invariant and action property
the runs check is also a theorem.

One attempt failed for a reason in the model: `BandIsMonotone` could not be proved while `Band` was
a CASE, whose branches overlap when the thresholds are not in order. `assign_band` tests them from
the top, whatever their order, and so does `Band` now.

*Only model-checked:* the five liveness properties, since fairness (ENABLED) is out of this prover's
reach. Of each the part that needs no fairness is proved, that nothing else could stand in the way:
of `JobSettles` by `ClaimNextFindsOne` (a worker with work to do finds a job), `RoundsCome` and, for
one worker, `RetriesArePaidFor` (the attempts run out); of `RunClosesUnlessCrashed` by
`RunsAreNotForgotten`; of `EveryScreeningEnds` by `NothingIsDoneForEver`; of `LockComesFree` by
`LocksAreAccounted`; of `CallsEnd` by `NoCallLingers`. No operator of the project is declared
RECURSIVE.

## 5. Where the program and its documentation disagree

Each of these four is a run with its counterexample and a finding in `PROJECT.json`.

- `doc_unreported`: the second byte-identical or the second rejected file of a run violates
  UNIQUE(file_sha256, run_id) and gets no candidate.
- `doc_erasure`: a purge leaves the resume in the folder, and the next run screens it again.
- `doc_desk`: a refused, failed or timed-out abort, override or sign-off is shown as done, below the
  error, because `call` returns None for both. With the API down this is so of an abort; the review
  page stops before its buttons.
- `doc_conditions`: the cache key says it holds everything that changes the output; several settings
  that do are not in it, so a new run is served what was judged under their old values.

Seen while modelling and not given a run of their own.

*Queue and runs.* `job_max_attempts` does not cap a job whose worker dies: only `fail` compares
attempts, and a dead worker never calls it. `jobs_store.py:228-234` says "a job that keeps killing
the parser cannot loop forever" and that counting at the claim keeps an attempt that "dies silently"
from retrying indefinitely, `worker_loop.py:133-135` "a job that reliably kills the worker cannot
loop forever"; `AttemptsBounded` therefore allows one attempt more for each crash and each abort. A
crash between `complete_job` and `finish_run_if_complete` leaves the run running, and nothing looks
at it again (`RunClosesUnlessCrashed` says so in its condition). Starting a run whose jobs are all
settled leaves it pending; starting one that executes sets it back to pending while a job is
claimed. A failed job is retried at once, so a short outage spends every attempt, and no code sets a
run to `failed`: the run completes over files without a candidate. `screen_one` says it never raises
and `judge_resume` that its caller turns a client failure into a flag, but nothing catches one below
`run_once`, and no code sets `LLM_ERROR` or `SCHEMA_INVALID`. With a second worker and an abort, a
worker that lost its job can reopen it after the other has saved it (`complete` and `fail` do not
check the owner). `sign_off_run` does not look at the run's status, and a rescan does not undo it.
`queue_depth_ahead` ignores the fast lane that `claim_next` orders by. A position whose folder lies
in another's shares its files, since the snapshot descends into folders, although `positions_store`
says UNIQUE prevents it.

*Register and pages.* A second position with a folder reference that is taken is an IntegrityError,
so a 500, against `app.py`'s "never a 500". A re-approval overwrites who approved. The page approves
the rubric of its session, not the unsaved edits on screen, and a row added to its editor has no id,
which the API refuses (422). A request repeated after a timeout creates a second run or override.
The override form sits with a candidate, but the candidate's id is typed by hand. `rescan_run`,
`start_run` and `abort_run` do not seed their actor; only audit rows name it. An API that dies
during a request is neither a ConnectError nor a timeout: the page shows a traceback, against
`api_client.py`'s docstring. So does "Create a run" when it works: it assigns a session key that the
sidebar's widget owns.

*Transactions.* Commands are not gated on the schema. A COMMIT that fails is never rolled back, and
if SQLite keeps the transaction open, its lock turns every writer away until that thread is gone
(`LockComesFree` says exactly that). The depth check of `unit_of_work` never refuses through the
factory, which makes a new one each time.

*Traces and erasure.* `_trace_sink` says "Write the trace **and** index it, or neither", but a write
that raises half way, an index write that fails (logged, then passed over) and a crash in between
leave a file without its row, and a purge that cannot unlink one file has already dropped the rows of
those after it: `TracesAreFindable` exempts these (`lost`). Text the worker has in hand when its
candidate is purged, a copied row or a trace to be indexed, is filed after the purge:
`PurgeIsThorough` exempts it (`inFlight`).

*Intake, parser and model.* `parse_worker.py:15-17` calls `ok: false` "a *deterministic statement about
the document*", and `sandbox.py:374-379` a property of it; but the child answers so to *every*
exception (`parse_worker.py:86`), also one that is no fact about the file: memory refused under its
limit, no descriptor left, no parser to import. The candidate is EXTRACTION_FAILED, cached, and served
to later runs until the conditions change. `OnlyReportsAreCached` states what the code does, the end
`unable` included; that no trouble of the parser's process is ever cached would be false.
`validate_file` promises a quarantine and an audit entry; `quarantine_dir`
and `security_event` are used by nothing. A file replaced between its hash and its parse is judged
under the wrong hash, a failed extraction of a file deleted in between is filed and cached under the hash of
what was there. The worker judges with its own settings and weights, the run's key is the API's. The health
check on the pinned model reads the cached digest and so cannot see a re-pull. A cache hit keeps the
file name of the earlier row. `chat_structured` says a malformed body retries exactly once, but not
after a failed call, which has used the shared counter up; the corrective retry sends a longer
prompt than the one `check_budget` measured, so the overflow it was to make impossible can still be
met, as an exception.

## 6. Plan

Written so far, in this order: `JobQueue`, `Screener`, `ResultLedger`, `Erasure`, `Judging`,
`Desk` with `Registry`, `UnitOfWork` with `DecisionLog`, `Provenance` with `Intake`. Next:

1. `Desk`, with two pages: an approval and an edit of one requisition from two browsers (the
   theorems cover it; TLC's instance has one page and terminals).
2. `Judging`, further: the free-text screen's fields.
3. `Sandbox`: the child's process group against the wall clock and the descendants it may leave.
4. `Heartbeat`: `reclaim_if_unchanged`, the protocol the store offers for several workers, once
   something calls it.
5. Proofs: `Provenance`'s hits joined with `Screener`'s `CacheIsSound`.

## 7. Not modelled, and why

Text (redaction, quote alignment, injection patterns, sanitising, token counts, prompts): regular
expressions over strings, with no state and no effect but flags. What is only displayed or counted:
`run_status`, `queue_depth_ahead`, the listings, health. The limits and clean-up of the sandboxed
child: the operating system's. Evaluation: offline, outside the running system. `seed-user`: the
users there at the start are arbitrary. And what nothing calls: `positions_store.close` and
`get_by_reference`, `rubrics_store.latest_for_position` and `hash_for`, `runs_store.list_active`,
`heartbeat`, `stalled`, `reclaim_if_unchanged`, `release`, `prune_traces`, `find_duplicates`.
