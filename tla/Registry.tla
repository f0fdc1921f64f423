------------------------------ MODULE Registry ------------------------------
(***************************************************************************)
(* Requisitions, rubrics, runs and decisions: the tables the stores keep,  *)
(* and what each service method makes of them in its one unit of work, as  *)
(* functions from tables to answers.  A position is known by its folder    *)
(* reference, a rubric by its position and version: both are UNIQUE.       *)
(* A unit of work that raises leaves the tables as they were.              *)
(***************************************************************************)
EXTENDS Naturals, FiniteSets

CONSTANTS
  Actors,      \* actor ids, from the X-Actor header or --actor
  References,  \* folder names under data/resumes/
  Contents,    \* lists of criteria the Rubric contract accepts
  MaxVersion,  \* bound: versions of each reference's rubric
  RunIds,      \* run ids; the candidate of a run has the run's number
  None

Ids == UNION {{p} \X (1..MaxVersion[p]) : p \in References}

(* `seen` is history: the criteria the approver had been shown.            *)
Rubric == [content : Contents, approved : BOOLEAN, seen : Contents \cup {None}]
NoRubric == [content |-> None, approved |-> FALSE, seen |-> None]

(* `files` tells whether the run's snapshots found any file, and whether   *)
(* the worker has filed a candidate.                                       *)
Run == [position : References, rubric : Ids, files : {"none", "queued", "screened"},
        reviewed : BOOLEAN]
NoRun == [position |-> None, rubric |-> None, files |-> "none", reviewed |-> FALSE]

ASSUME RegistryAssumption ==
  /\ MaxVersion \in [References -> Nat]
  /\ None \notin Contents \cup References \cup RunIds \cup Actors

Tables == [users : SUBSET Actors, positions : SUBSET References,
           rubrics : [Ids -> Rubric \cup {NoRubric}], runs : [RunIds -> Run \cup {NoRun}]]
-----------------------------------------------------------------------------
(* The stores.                                                             *)
UserExists(db, a) == a \in db.users

HasPosition(db, p) == p \in db.positions

VersionsOf(db, p) == {v \in 1..MaxVersion[p] : db.rubrics[<<p, v>>] # NoRubric}
Newest(db, p) == CHOOSE v \in VersionsOf(db, p) : \A w \in VersionsOf(db, p) : w <= v
NextVersion(db, p) == IF VersionsOf(db, p) = {} THEN 1 ELSE Newest(db, p) + 1

HasRubric(db, id) == id \in Ids /\ db.rubrics[id] # NoRubric
IsApproved(db, id) == HasRubric(db, id) /\ db.rubrics[id].approved

HasRun(db, r) == r \in RunIds /\ db.runs[r] # NoRun
HasJobs(db, r) == db.runs[r].files # "none"
HasCandidate(db, c) == HasRun(db, c) /\ db.runs[c].files = "screened"

Draft(content) == [content |-> content, approved |-> FALSE, seen |-> None]
AddPosition(db, p) == [db EXCEPT !.positions = @ \cup {p}]
AddRubric(db, id, content) == [db EXCEPT !.rubrics[id] = Draft(content)]
Approve(db, id, seen) ==
  [db EXCEPT !.rubrics[id] = [content |-> @.content, approved |-> TRUE, seen |-> seen]]
SignOff(db, r) == [db EXCEPT !.runs[r].reviewed = TRUE]

(* What a snapshot of the folder makes of a run: files may have come.      *)
Found(files) == IF files = "none" THEN {"none", "queued"} ELSE {files}

(* RubricResponse: what a client is shown.                                 *)
Shown == [id : Ids, content : Contents, approved : BOOLEAN]
ToRubric(db, id) ==
  [id |-> id, content |-> db.rubrics[id].content, approved |-> db.rubrics[id].approved]
-----------------------------------------------------------------------------
(* What a service method comes to: the tables, the outcome, what it shows. *)
Good == "ok"
RuleBreaks == {"notFound", "notApproved", "refused"}

Done(db, body) == [db |-> db, status |-> Good, body |-> body]
Raised(db, status) == [db |-> db, status |-> status, body |-> None]

(* Slip: the operator of the first requisition is the only user seeded.    *)
SeedFirst(db, a) == IF db.users = {} THEN [db EXCEPT !.users = {a}] ELSE db

EnsureActor(db, a) == [db EXCEPT !.users = @ \cup {a}]

(* Every column that names an actor is a foreign key into users.           *)
CreatePosition(db, a, p) ==
  LET seeded == EnsureActor(db, a)
  IN IF UserExists(seeded, a) /\ ~HasPosition(db, p)
     THEN Done(AddPosition(seeded, p), None)
     ELSE Raised(db, "integrity")

(* A new version, numbered in the unit of work that stores it.             *)
NewVersion(db, a, p, content) ==
  LET seeded == EnsureActor(db, a)
      id     == <<p, NextVersion(db, p)>>
      stored == AddRubric(seeded, id, content)
  IN IF UserExists(seeded, a) /\ ~HasRubric(db, id)
     THEN Done(stored, ToRubric(stored, id))
     ELSE Raised(db, "integrity")

(* Slip: the newest version is edited in place.                            *)
EditInPlace(db, a, p, content) ==
  IF ~HasPosition(db, p) THEN Raised(db, "notFound")
  ELSE IF VersionsOf(db, p) = {} THEN NewVersion(db, a, p, content)
  ELSE LET id == <<p, Newest(db, p)>>
           stored == [EnsureActor(db, a) EXCEPT !.rubrics[id].content = content]
       IN Done(stored, ToRubric(stored, id))

SaveRubric(db, a, p, content) ==
  IF ~HasPosition(db, p) THEN Raised(db, "notFound") ELSE NewVersion(db, a, p, content)

ApproveRubric(db, a, id, seen) ==
  LET seeded == EnsureActor(db, a)
      approved == Approve(seeded, id, seen)
  IN IF ~HasRubric(db, id) THEN Raised(db, "notFound")
     ELSE IF UserExists(seeded, a) THEN Done(approved, ToRubric(approved, id))
     ELSE Raised(db, "integrity")

(* Slip: any rubric of the position will do.                               *)
UsableIfStored(db, p, id) == HasPosition(db, p) /\ HasRubric(db, id) /\ id[1] = p

(* What create_run demands, in its order, before it writes.                *)
Usable(db, p, id) ==
  HasPosition(db, p) /\ HasRubric(db, id) /\ id[1] = p /\ IsApproved(db, id)

WhyNot(db, p, id) ==
  IF ~HasPosition(db, p) \/ ~HasRubric(db, id) THEN "notFound"
  ELSE IF id[1] # p THEN "refused" ELSE "notApproved"

CreateRun(db, a, r, p, id, files) ==
  LET seeded == EnsureActor(db, a)
      run    == [position |-> p, rubric |-> id, files |-> files, reviewed |-> FALSE]
  IN IF ~Usable(db, p, id) THEN Raised(db, WhyNot(db, p, id))
     ELSE IF UserExists(seeded, a) THEN Done([seeded EXCEPT !.runs[r] = run], None)
     ELSE Raised(db, "integrity")

RescanRun(db, r, files) ==
  IF HasRun(db, r) THEN Done([db EXCEPT !.runs[r].files = files], None)
  ELSE Raised(db, "notFound")

(* The status of a run is Screener's; here only whether it may start.      *)
StartRun(db, r) ==
  IF ~HasRun(db, r) THEN Raised(db, "notFound")
  ELSE IF HasJobs(db, r) THEN Done(db, None) ELSE Raised(db, "refused")

AbortRun(db, r) == IF HasRun(db, r) THEN Done(db, None) ELSE Raised(db, "notFound")

SignOffRun(db, a, r) ==
  LET seeded == EnsureActor(db, a)
  IN IF ~HasRun(db, r) THEN Raised(db, "notFound")
     ELSE IF UserExists(seeded, a) THEN Done(SignOff(seeded, r), None)
     ELSE Raised(db, "integrity")

(* The overrides table is only ever added to, and nothing reads it.        *)
RecordOverride(db, a, c) ==
  LET seeded == EnsureActor(db, a)
  IN IF ~HasCandidate(db, c) THEN Raised(db, "notFound")
     ELSE IF UserExists(seeded, a) THEN Done(seeded, None)
     ELSE Raised(db, "integrity")
=============================================================================
