----------------------------- MODULE Provenance -----------------------------
(***************************************************************************)
(* Whether a stored row says the truth about how it came to be.  An API    *)
(* process freezes the conditions of a run when it creates it; a worker    *)
(* process screens the run's resume under the conditions it finds, and     *)
(* files the result under the run's.  Meanwhile the model tag is re-pulled,*)
(* the settings, the prompt and the code are changed on disk, either       *)
(* process is restarted, and the file is replaced under the worker's feet. *)
(***************************************************************************)
EXTENDS Intake

CONSTANTS
  Docs,       \* what the path may hold
  Runs,       \* runs over the position's folder, which holds the one path
  Rubrics,    \* content hashes of approved rubrics
  None,       \* nothing in hand, no row, nothing cached
  MaxChanges, \* bound: changes to the world in a behaviour
  Arrivals,   \* bound: what the path may come to hold later
  MaxReplacements  \* bound: replacements of the file in a behaviour

(* The fields of CacheKey besides the file's hash; `settings` stands for   *)
(* redaction_on and num_ctx, `weights` for the model digest.               *)
Keyed == {"weights", "prompt", "settings", "version", "rubric"}

(* What can change: `unkeyed` stands for the settings that are in no key:  *)
(* the evidence thresholds, injection_detection, num_predict, max_pages...  *)
Changeable == {"weights", "prompt", "settings", "version", "unkeyed"}

(* A run: its frozen key; history: the conditions it may be wrong about.   *)
Run == [key : [Keyed -> Nat \cup Rubrics], doubt : SUBSET Changeable]

ASSUME ProvenanceAssumption ==
  /\ None \notin Run
  /\ Docs \cup Arrivals \subseteq File

VARIABLES
  file,    \* what is at the path
  suffix,  \* the path's extension
  world,   \* the current value of everything changeable
  api,     \* what the API process has in memory
  worker,  \* what the worker process has in memory
  run,     \* the runs table
  row,     \* the candidates table, one row per run: its key; history: what
           \* was screened, under what, and what the key may be wrong about
  hand,    \* the run whose job the worker holds
  step,    \* where it is in _process and screen_one
  sha,     \* the hash it has taken
  draft,   \* the candidate it has built
  verdict, \* what validate_file returned last
  seen,    \* history: what the path has held since validate_file began,
           \* or since it was last hashed
  changes, replacements

bounds == <<changes, replacements>>
machine == <<hand, step, sha, draft, verdict, seen>>
vars == <<file, suffix, world, api, worker, run, row, machine, bounds>>

Unread == 0   \* a value a process reads and keeps the first time it needs it

Boot == [f \in Changeable |-> IF f \in {"weights", "prompt"} THEN Unread ELSE world[f]]

Init ==
  /\ file \in Docs
  /\ suffix \in Suffixes
  /\ world = [f \in Changeable |-> 1]
  /\ api = Boot /\ worker = Boot
  /\ run = [r \in Runs |-> None]
  /\ row = [r \in Runs |-> None]
  /\ hand = None /\ step = "idle" /\ sha = None /\ draft = None
  /\ verdict = Ok /\ seen = {}
  /\ changes = 0 /\ replacements = 0
-----------------------------------------------------------------------------
(* The world.                                                              *)
(* A re-pull, an edited .env or prompt, a deployment.  History: a run that *)
(* exists is no longer sure to be about what is there.                     *)
Change(f) ==
  /\ changes < MaxChanges
  /\ changes' = changes + 1
  /\ world' = [world EXCEPT ![f] = @ + 1]
  /\ run' = [r \in Runs |-> IF run[r] = None THEN None ELSE [run[r] EXCEPT !.doubt = @ \cup {f}]]
  /\ UNCHANGED <<file, suffix, api, worker, row, machine, replacements>>

Replace ==
  /\ replacements < MaxReplacements
  /\ replacements' = replacements + 1
  /\ \E d \in Arrivals \ {file} :
       /\ file' = d
       /\ seen' = IF step = "idle" THEN seen ELSE seen \cup {d}
  /\ UNCHANGED <<suffix, world, api, worker, run, row, hand, step, sha, draft, verdict, changes>>

RestartApi ==
  /\ api' = Boot
  /\ UNCHANGED <<file, suffix, world, worker, run, row, machine, bounds>>

(* Between two jobs; what a crash inside one leaves is Screener's subject. *)
RestartWorker ==
  /\ step = "idle"
  /\ worker' = Boot
  /\ UNCHANGED <<file, suffix, world, api, run, row, machine, bounds>>
-----------------------------------------------------------------------------
(* create_run, in the API process.                                         *)
FirstRead(process, f) == IF process[f] = Unread THEN world[f] ELSE process[f]

Digest == FirstRead(api, "weights")

(* The digest and the prompt are the ones the process read first, the      *)
(* settings those it was started with; app_version reads its file anew.    *)
Frozen(rubric) ==
  [weights |-> Digest, prompt |-> FirstRead(api, "prompt"),
   settings |-> api["settings"], version |-> world["version"], rubric |-> rubric]

CreateRun(r) ==
  /\ run[r] = None
  /\ \E rubric \in Rubrics :
       run' = [run EXCEPT ![r] =
                 [key |-> Frozen(rubric),
                  doubt |-> {f \in Changeable \ {"unkeyed"} : Frozen(rubric)[f] # world[f]}]]
  /\ api' = [api EXCEPT !["weights"] = Digest, !["prompt"] = FirstRead(api, "prompt")]
  /\ UNCHANGED <<file, suffix, world, worker, row, machine, bounds>>
-----------------------------------------------------------------------------
(* The worker.                                                             *)
At(label) == step = label
Then(label) == step' = label

Keeps == UNCHANGED <<file, suffix, world, api, run, bounds>>

(* The conditions a resume is really screened under.                       *)
Prevailing(r) ==
  [weights |-> world["weights"], prompt |-> FirstRead(worker, "prompt"),
   settings |-> worker["settings"], version |-> worker["version"],
   unkeyed |-> worker["unkeyed"], rubric |-> run[r].key["rubric"]]

(* History: what the run's key may be wrong about if screened now.         *)
Doubt(r) == run[r].doubt \cup {f \in Changeable \ {"weights"} : worker[f] \notin {Unread, world[f]}}

(* A job is claimed and the file is hashed, if there is one.               *)
Claim(r) ==
  /\ At("idle") /\ run[r] # None /\ row[r] = None
  /\ hand' = r
  /\ IF Readable(file) THEN sha' = file /\ Then("looking")
                       ELSE sha' = None /\ Then("location")
  /\ seen' = {file}
  /\ UNCHANGED <<worker, row, draft, verdict>> /\ Keeps

Matches(old, r, hash) ==
  /\ old.sha = hash /\ old.cacheable
  /\ \A f \in Keyed : old.key[f] = run[r].key[f]

(* get_cached: the newest row under the run's key and the hash.            *)
Hits(r, hash) ==
  {q \in Runs : row[q] # None /\ Matches(row[q], r, hash)}

LookUp ==
  /\ At("looking")
  /\ IF Hits(hand, sha) = {} THEN Then("location") /\ UNCHANGED draft
     ELSE /\ \E q \in Hits(hand, sha) :
               /\ \A p \in Hits(hand, sha) : row[p].id <= row[q].id
               /\ draft' = [row[q] EXCEPT !.served = TRUE, !.doubt = @ \cup Doubt(hand)]
          /\ Then("saving")
  /\ seen' = {file}
  /\ UNCHANGED <<worker, row, hand, sha, verdict>> /\ Keeps

Candidate(hash, cacheable, doubt) ==
  [sha |-> hash, cacheable |-> cacheable, from |-> file, under |-> Prevailing(hand),
   doubt |-> Doubt(hand) \cup doubt, served |-> FALSE]

(* One stage of validate_file: it goes on, it rejects, or the path cannot  *)
(* be read and it raises.                                                  *)
Check(label, next, answer) ==
  /\ At(label)
  /\ verdict' = answer
  /\ IF answer = Ok THEN Then(next) /\ UNCHANGED draft
     ELSE Then("saving") /\ draft' = Candidate(None, TRUE, {})
  /\ UNCHANGED <<worker, row, hand, sha, seen>> /\ Keeps

ValidateLocation == Check("location", "size", CheckLocation(file))

ValidateSize == file.place # "gone" /\ Check("size", "type", CheckSize(file))

ValidateType == Readable(file) /\ Check("type", "structure", CheckType(file, suffix))

(* The type is the one the leading bytes had: by now the suffix says it.   *)
ValidateStructure ==
  /\ suffix = "docx" \/ Readable(file)
  /\ Check("structure", "hashing", CheckStructure(file, suffix))

\* Slip: the hash taken before the look-up is kept.
HashOnce ==
  /\ At("hashing") /\ Readable(file)
  /\ seen' = {file}
  /\ Then("parsing")
  /\ UNCHANGED <<worker, row, hand, sha, draft, verdict>> /\ Keeps

(* screen_one hashes the file for itself.                                  *)
Hash ==
  /\ At("hashing") /\ Readable(file)
  /\ sha' = file
  /\ seen' = {file}
  /\ Then("parsing")
  /\ UNCHANGED <<worker, row, hand, draft, verdict>> /\ Keeps

(* From the parse to the judgment: the parser or the model may time out,   *)
(* and only what gets past the parser reads the prompt, once per process.  *)
(* History: a file replaced since it was hashed is on record.              *)
Judge ==
  /\ At("parsing")
  /\ \E outcome \in {"judged", "parser timed out", "model timed out"} :
       /\ draft' = Candidate(sha, outcome = "judged", IF seen = {file} THEN {} ELSE {"file"})
       /\ worker' = IF ParseOutcome(file) = "parsed" /\ outcome # "parser timed out"
                    THEN [worker EXCEPT !["prompt"] = FirstRead(worker, "prompt")] ELSE worker
  /\ Then("saving")
  /\ UNCHANGED <<row, hand, sha, verdict, seen>> /\ Keeps

Saved == {r \in Runs : row[r] # None}

Release ==
  /\ hand' = None /\ Then("idle") /\ sha' = None /\ draft' = None
  /\ verdict' = Ok /\ seen' = {}

(* The candidate's own hash, the run's conditions.                         *)
Save ==
  /\ At("saving")
  /\ row' = [row EXCEPT ![hand] =
               [sha |-> draft.sha, cacheable |-> draft.cacheable, from |-> draft.from,
                under |-> draft.under, doubt |-> draft.doubt, served |-> draft.served,
                key |-> run[hand].key, id |-> Cardinality(Saved) + 1]]
  /\ Release
  /\ UNCHANGED worker /\ Keeps

(* The job fails and is claimed again: no file to read, or no model.       *)
Raise ==
  /\ ~At("idle")
  /\ Release
  /\ UNCHANGED <<worker, row>> /\ Keeps

Next ==
  \/ \E f \in Changeable : Change(f)
  \/ Replace \/ RestartApi \/ RestartWorker
  \/ \E r \in Runs : CreateRun(r) \/ Claim(r)
  \/ LookUp \/ ValidateLocation \/ ValidateSize \/ ValidateType \/ ValidateStructure
  \/ Hash \/ Judge \/ Save \/ Raise

Spec == Init /\ [][Next]_vars
-----------------------------------------------------------------------------
(* What validate_file says of a file that stays put is right: it refuses   *)
(* for a defect the file has, it accepts none that has one, and when it    *)
(* is wrong the file was replaced between two of its stages (spec 8.2).    *)
VerdictIsRight ==
  /\ \A d \in seen : seen = {d} =>
       /\ verdict # Ok => verdict \in Defects(d, suffix)
       /\ step = "hashing" => Defects(d, suffix) = {}
  /\ verdict # Ok => \E d \in seen : Defects(d, suffix) # {}

(* A row's key - what the audit record says it was screened as - differs   *)
(* from what it was screened as only in what is on record: the file was    *)
(* replaced after it was hashed, or a condition was changed during a run,  *)
(* or since a process that uses it was started, in that run or in the one  *)
(* the row was copied from (create_run, cache_key_for, get_cached).        *)
WrongAbout(r) ==
  {f \in Keyed : row[r].key[f] # row[r].under[f]}
    \cup (IF row[r].sha \in {None, row[r].from} THEN {} ELSE {"file"})

RecordsAreTrue == \A r \in Saved : WrongAbout(r) \subseteq row[r].doubt
-----------------------------------------------------------------------------
(* What the documentation says: the key holds "all eight fields that       *)
(* change the output" (cache_key_for), so a row is served only to a run    *)
(* that would screen the file under "identical conditions" (get_cached).   *)
ServedAsJudged ==
  /\ At("saving") /\ draft.served /\ draft.doubt \cup Doubt(hand) = {}
  => draft.under = Prevailing(hand)
=============================================================================
