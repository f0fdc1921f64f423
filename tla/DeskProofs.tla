----------------------------- MODULE DeskProofs -----------------------------
(***************************************************************************)
(* Proofs about Desk, for any sessions, requests in flight, people,        *)
(* requisitions, versions and runs.                                        *)
(***************************************************************************)
EXTENDS Desk, WellFoundedInduction, TLAPS

(* An approval was given to what its approver had been shown, and a run's  *)
(* rubric is an approved one of its own position.                          *)
Sound(tables) ==
  /\ \A id \in Ids : IsApproved(tables, id) =>
       tables.rubrics[id].seen = tables.rubrics[id].content
  /\ \A r \in RunIds : HasRun(tables, r) =>
       IsApproved(tables, tables.runs[r].rubric)
       /\ tables.runs[r].rubric[1] = tables.runs[r].position

(* What a client was shown of a rubric holds of the tables.                *)
Holds(tables, shown) ==
  /\ HasRubric(tables, shown.id)
  /\ tables.rubrics[shown.id].content = shown.content
  /\ shown.approved => IsApproved(tables, shown.id)

(* A request names what its route needs: criteria to save, a requisition,  *)
(* and for an approval what is stored under the id it approves.            *)
WellFormed(tables, q) ==
  /\ q.op \in {"create_position", "extract"} => q.position \in References
  /\ q.op = "save" => q.content # None
  /\ q.op = "approve" /\ q.content # None =>
       HasRubric(tables, q.rubric) /\ tables.rubrics[q.rubric].content = q.content

RequestsAreWellFormed == \A l \in Lines : line[l].phase # "free" => WellFormed(db, line[l].q)

(* An answer that shows a rubric shows a stored one; the routes that       *)
(* return a rubric show one whenever they succeed.                         *)
AnswersAreStored ==
  \A l \in Lines :
    /\ line[l].body # None => Holds(db, line[l].body)
    /\ line[l].status = Good /\ line[l].q.op \in {"extract", "save", "approve"} =>
         line[l].body \in Shown

(* The line a page is blocked on is its own.                               *)
WaitedFor ==
  \A s \in Sessions : waiting[s] # None =>
    line[waiting[s]].phase # "free" /\ line[waiting[s]].from = s

(* An editor on a page has criteria in it.                                 *)
EditorIsFilled == \A s \in Sessions : Rendered(s) => ui[s].screen # None

IInv ==
  /\ TypeOK /\ Sound(db) /\ ShownIsStored /\ NobodyIsTurnedAway
  /\ RequestsAreWellFormed /\ AnswersAreStored /\ WaitedFor /\ EditorIsFilled
-----------------------------------------------------------------------------
(* The service methods, as functions from tables to answers.               *)

(* Nothing that was stored is lost, edited or disapproved.                 *)
Grown(old, new) ==
  /\ \A p : HasPosition(old, p) => HasPosition(new, p)
  /\ \A id : HasRubric(old, id) =>
       /\ HasRubric(new, id)
       /\ new.rubrics[id].content = old.rubrics[id].content
       /\ IsApproved(old, id) => IsApproved(new, id)

(* What every answer must be.                                              *)
Proper(old, outcome) ==
  /\ outcome.db \in Tables /\ Sound(outcome.db) /\ Grown(old, outcome.db)
  /\ outcome.status \in Statuses
  /\ outcome.body \in Shown \cup {None}
  /\ outcome.body # None => Holds(outcome.db, outcome.body)

(* A unit of work that raises changes nothing.                             *)
LEMMA RaisedIsProper ==
  ASSUME NEW t \in Tables, Sound(t), NEW status \in Statuses
  PROVE  Proper(t, Raised(t, status)) /\ Raised(t, status).status = status
  BY DEF Proper, Raised, Grown

(* Seeding an actor touches only the users.                                *)
LEMMA Seeding ==
  ASSUME NEW t \in Tables, NEW a \in Actors
  PROVE  /\ EnsureActor(t, a) \in Tables
         /\ UserExists(EnsureActor(t, a), a)
         /\ EnsureActor(t, a).positions = t.positions
         /\ EnsureActor(t, a).rubrics = t.rubrics
         /\ EnsureActor(t, a).runs = t.runs
  BY DEF EnsureActor, Tables, UserExists

(* What Sound and Grown are about is in three of the tables.               *)
LEMMA SameTables ==
  ASSUME NEW t \in Tables, NEW u \in Tables,
         t.positions \subseteq u.positions, u.rubrics = t.rubrics,
         \A r \in RunIds : HasRun(u, r) =>
           /\ HasRun(t, r)
           /\ u.runs[r].rubric = t.runs[r].rubric /\ u.runs[r].position = t.runs[r].position
  PROVE  Grown(t, u) /\ (Sound(t) => Sound(u))
  BY DEF Grown, Sound, HasPosition, HasRubric, IsApproved

(* Tables that have grown stay sound while no run is added, if what is now *)
(* approved was approved as seen.                                          *)
LEMMA StaysSound ==
  ASSUME NEW t \in Tables, NEW u \in Tables, Sound(t), Grown(t, u), u.runs = t.runs,
         \A id \in Ids : IsApproved(u, id) => u.rubrics[id].seen = u.rubrics[id].content
  PROVE  Sound(u)
  <1>1. ASSUME NEW r \in RunIds, HasRun(u, r)
        PROVE  IsApproved(u, u.runs[r].rubric) /\ u.runs[r].rubric[1] = u.runs[r].position
    <2>1. IsApproved(t, t.runs[r].rubric) /\ t.runs[r].rubric[1] = t.runs[r].position
      BY <1>1 DEF Sound, HasRun
    <2> QED
      BY <2>1 DEF Grown, IsApproved
  <1> QED
    BY <1>1 DEF Sound

(* A finite set of version numbers has a greatest.                         *)
LEMMA HasGreatest ==
  ASSUME NEW n \in Nat, NEW S \in SUBSET (1..n), S # {}
  PROVE  \E v \in S : \A w \in S : w <= v
  <1> DEFINE R == OpToRel(<, Nat)
             Below == {x \in Nat : x <= n /\ n - x \in S}
  <1>1. IsWellFoundedOn(R, Nat)
    BY NatLessThanWellFounded
  <1>2. \A v \in S : n - v \in Below
    OBVIOUS
  <1>3. Below \subseteq Nat /\ Below # {}
    BY <1>2
  <1>4. \E x \in Below : \A y \in Below : ~(<<y, x>> \in R)
    <2> HIDE DEF R, Below
    <2> QED
      BY <1>1, <1>3, WFMin
  <1>5. \A x, y \in Nat : <<x, y>> \in R <=> x < y
    BY DEF OpToRel
  <1> HIDE DEF R
  <1>6. PICK x \in Below : \A y \in Below : ~(y < x)
    BY <1>4, <1>5
  <1>7. \A w \in S : w <= n - x
    <2> TAKE w \in S
    <2>1. n - w \in Below /\ w \in 1..n
      BY <1>2
    <2>2. ~(n - w < x)
      BY <2>1, <1>6
    <2> QED
      BY <2>1, <2>2
  <1> QED
    BY <1>6, <1>7

(* The next version of a rubric is a number nobody has taken.              *)
LEMMA NextVersionIsFree ==
  ASSUME NEW t \in Tables, NEW p \in References, NextVersion(t, p) <= MaxVersion[p]
  PROVE  <<p, NextVersion(t, p)>> \in Ids /\ ~HasRubric(t, <<p, NextVersion(t, p)>>)
  <1> DEFINE taken == VersionsOf(t, p)
  <1>1. MaxVersion[p] \in Nat /\ taken \subseteq 1..MaxVersion[p]
    BY RegistryAssumption DEF VersionsOf
  <1>2. NextVersion(t, p) \in Nat \ {0} /\ NextVersion(t, p) \notin taken
    <2>1. CASE taken = {}
      BY <2>1 DEF NextVersion
    <2>2. CASE taken # {}
      <3>1. \E v \in taken : \A w \in taken : w <= v
        BY <1>1, <2>2, HasGreatest
      <3>2. Newest(t, p) \in taken /\ \A w \in taken : w <= Newest(t, p)
        BY <3>1 DEF Newest
      <3>3. NextVersion(t, p) = Newest(t, p) + 1
        BY <2>2 DEF NextVersion
      <3> QED
        BY <1>1, <3>2, <3>3
    <2> QED
      BY <2>1, <2>2
  <1>3. NextVersion(t, p) \in 1..MaxVersion[p]
    BY <1>1, <1>2
  <1>4. <<p, NextVersion(t, p)>> \in Ids
    BY <1>3 DEF Ids
  <1>5. t.rubrics[<<p, NextVersion(t, p)>>] = NoRubric
    BY <1>2, <1>3 DEF VersionsOf
  <1> QED
    BY <1>4, <1>5 DEF HasRubric
(* Creating a requisition fails only where its folder reference is taken.  *)
LEMMA CreatePositionIsProper ==
  ASSUME NEW t \in Tables, Sound(t), NEW a \in Actors, NEW p \in References
  PROVE  LET outcome == CreatePosition(t, a, p)
         IN  /\ Proper(t, outcome)
             /\ outcome.status = "integrity" => HasPosition(outcome.db, p)
  <1> DEFINE seeded == EnsureActor(t, a)
             made == AddPosition(seeded, p)
  <1>1. CASE HasPosition(t, p)
    <2>1. CreatePosition(t, a, p) = Raised(t, "integrity")
      BY <1>1 DEF CreatePosition
    <2>2. Raised(t, "integrity").db = t
      BY DEF Raised
    <2> QED
      BY <1>1, <2>1, <2>2, RaisedIsProper DEF Statuses
  <1>2. CASE ~HasPosition(t, p)
    <2>1. CreatePosition(t, a, p) = Done(made, None)
      BY <1>2, Seeding DEF CreatePosition, HasPosition
    <2>2. made \in Tables /\ made.rubrics = t.rubrics /\ made.runs = t.runs
          /\ t.positions \subseteq made.positions
      BY Seeding DEF AddPosition, Tables
    <2>3. Grown(t, made) /\ Sound(made)
      BY <2>2, SameTables DEF HasRun
    <2> QED
      BY <2>1, <2>2, <2>3 DEF Done, Proper, Statuses, Good
  <1> QED
    BY <1>1, <1>2

(* A new version is stored, and shown as stored: no key is in its way.     *)
LEMMA NewVersionIsProper ==
  ASSUME NEW t \in Tables, Sound(t), NEW a \in Actors, NEW p \in References,
         NEW content \in Contents, NextVersion(t, p) <= MaxVersion[p]
  PROVE  LET outcome == NewVersion(t, a, p, content)
         IN  Proper(t, outcome) /\ outcome.status = Good /\ outcome.body \in Shown
  <1> DEFINE seeded == EnsureActor(t, a)
             id == <<p, NextVersion(t, p)>>
             stored == AddRubric(seeded, id, content)
  <1>1. id \in Ids /\ ~HasRubric(t, id)
    BY NextVersionIsFree
  <1> HIDE DEF id
  <1>2. NewVersion(t, a, p, content) = Done(stored, ToRubric(stored, id))
    BY <1>1, Seeding DEF NewVersion, id
  <1>3. Draft(content) \in Rubric /\ Draft(content) # NoRubric
    BY RegistryAssumption DEF Draft, Rubric, NoRubric
  <1>4. /\ stored.positions = t.positions /\ stored.runs = t.runs
        /\ stored.rubrics = [t.rubrics EXCEPT ![id] = Draft(content)]
        /\ stored \in Tables
    BY <1>1, <1>3, Seeding DEF AddRubric, Tables
  <1> HIDE DEF stored
  <1>5. /\ stored.rubrics[id] = Draft(content)
        /\ \A other \in Ids : other # id => stored.rubrics[other] = t.rubrics[other]
    BY <1>1, <1>4 DEF Tables
  <1>6. Grown(t, stored) /\ HasRubric(stored, id)
    BY <1>1, <1>3, <1>4, <1>5 DEF Grown, HasPosition, HasRubric, IsApproved
  <1>7. Sound(stored)
    <2>1. \A x \in Ids : IsApproved(stored, x) => x # id
      BY <1>5 DEF IsApproved, Draft
    <2>2. \A x \in Ids : IsApproved(stored, x) => IsApproved(t, x)
      BY <1>5, <2>1 DEF IsApproved, HasRubric
    <2>3. \A x \in Ids : IsApproved(stored, x) => stored.rubrics[x].seen = stored.rubrics[x].content
      BY <1>5, <2>1, <2>2 DEF Sound
    <2> QED
      BY <1>4, <1>6, <2>3, StaysSound
  <1>8. ToRubric(stored, id) \in Shown /\ Holds(stored, ToRubric(stored, id))
    BY <1>1, <1>5, <1>6 DEF ToRubric, Shown, Holds, Draft
  <1> QED
    BY <1>2, <1>4, <1>6, <1>7, <1>8 DEF Done, Proper, Statuses

(* An approval approves what its approver was shown.                       *)
LEMMA ApproveRubricIsProper ==
  ASSUME NEW t \in Tables, Sound(t), NEW a \in Actors, NEW id, NEW seen,
         HasRubric(t, id) => seen = t.rubrics[id].content
  PROVE  LET outcome == ApproveRubric(t, a, id, seen)
         IN  /\ Proper(t, outcome) /\ outcome.status \in {Good, "notFound"}
             /\ outcome.status = Good => outcome.body \in Shown
  <1> DEFINE seeded == EnsureActor(t, a)
             approved == Approve(seeded, id, seen)
  <1>1. CASE ~HasRubric(t, id)
    <2>1. ApproveRubric(t, a, id, seen) = Raised(t, "notFound")
      BY <1>1 DEF ApproveRubric
    <2> QED
      BY <2>1, RaisedIsProper DEF Statuses, RuleBreaks, Good
  <1>2. CASE HasRubric(t, id)
    <2>1. ApproveRubric(t, a, id, seen) = Done(approved, ToRubric(approved, id))
      BY <1>2, Seeding DEF ApproveRubric
    <2>2. id \in Ids /\ t.rubrics[id] \in Rubric /\ seen \in Contents
      BY <1>2 DEF HasRubric, Tables, Rubric
    <2> DEFINE rubric == [content |-> seen, approved |-> TRUE, seen |-> seen]
    <2>3. rubric \in Rubric /\ rubric # NoRubric
      BY <2>2, RegistryAssumption DEF Rubric, NoRubric
    <2>4. /\ approved.positions = t.positions /\ approved.runs = t.runs
          /\ approved.rubrics = [t.rubrics EXCEPT ![id] = rubric]
          /\ approved \in Tables
      <3>1. approved = [seeded EXCEPT !.rubrics[id] = rubric]
        BY <1>2, Seeding DEF Approve
      <3> HIDE DEF approved, rubric
      <3> QED
        BY <2>2, <2>3, <3>1, Seeding DEF Tables
    <2> HIDE DEF approved
    <2>5. /\ approved.rubrics[id] = rubric
          /\ \A other \in Ids : other # id => approved.rubrics[other] = t.rubrics[other]
      BY <2>2, <2>4 DEF Tables
    <2>6. Grown(t, approved) /\ HasRubric(approved, id)
      BY <1>2, <2>2, <2>3, <2>4, <2>5 DEF Grown, HasPosition, HasRubric, IsApproved
    <2>7. Sound(approved)
      <3>1. \A x \in Ids : x # id /\ IsApproved(approved, x) => IsApproved(t, x)
        BY <2>5 DEF IsApproved, HasRubric
      <3>2. \A x \in Ids : IsApproved(approved, x) =>
              approved.rubrics[x].seen = approved.rubrics[x].content
        BY <2>5, <3>1 DEF Sound
      <3> QED
        BY <2>4, <2>6, <3>2, StaysSound
    <2>8. ToRubric(approved, id) \in Shown /\ Holds(approved, ToRubric(approved, id))
      BY <2>2, <2>5, <2>6 DEF ToRubric, Shown, Holds, IsApproved
    <2> QED
      BY <2>1, <2>4, <2>6, <2>7, <2>8 DEF Done, Proper, Statuses
  <1> QED
    BY <1>1, <1>2
(* Creating a run demands an approved rubric of its position.              *)
LEMMA CreateRunIsProper ==
  ASSUME NEW t \in Tables, Sound(t), NEW a \in Actors, NEW r \in RunIds, NEW p, NEW id,
         NEW files \in {"none", "queued"}
  PROVE  LET outcome == CreateRun(t, a, r, p, id, files)
         IN  Proper(t, outcome) /\ outcome.status # "integrity"
  <1> DEFINE seeded == EnsureActor(t, a)
             run == [position |-> p, rubric |-> id, files |-> files, reviewed |-> FALSE]
             made == [seeded EXCEPT !.runs[r] = run]
  <1>1. CASE ~Usable(t, p, id)
    <2>1. CreateRun(t, a, r, p, id, files) = Raised(t, WhyNot(t, p, id))
      BY <1>1 DEF CreateRun
    <2>2. WhyNot(t, p, id) \in RuleBreaks
      BY DEF WhyNot, RuleBreaks
    <2>3. WhyNot(t, p, id) \in Statuses /\ WhyNot(t, p, id) # "integrity"
      BY <2>2 DEF Statuses, RuleBreaks
    <2> QED
      BY <2>1, <2>3, RaisedIsProper
  <1>2. CASE Usable(t, p, id)
    <2>1. CreateRun(t, a, r, p, id, files) = Done(made, None)
      BY <1>2, Seeding DEF CreateRun
    <2>2. p \in References /\ id \in Ids /\ id[1] = p /\ IsApproved(t, id)
      BY <1>2 DEF Usable, HasPosition, HasRubric, Tables
    <2>3. run \in Run
      BY <2>2 DEF Run
    <2>4. /\ made.positions = t.positions /\ made.rubrics = t.rubrics
          /\ made.runs = [t.runs EXCEPT ![r] = run]
          /\ made \in Tables
      <3> HIDE DEF run
      <3> QED
        BY <2>3, Seeding DEF Tables
    <2>5. Grown(t, made)
      BY <2>4 DEF Grown, HasPosition, HasRubric, IsApproved
    <2>6. \A x \in RunIds : HasRun(made, x) =>
            IsApproved(made, made.runs[x].rubric) /\ made.runs[x].rubric[1] = made.runs[x].position
      <3> TAKE x \in RunIds
      <3> HIDE DEF made
      <3>1. CASE x = r
        BY <2>2, <2>4, <3>1 DEF IsApproved, HasRubric, Tables
      <3>2. CASE x # r
        BY <2>4, <3>2 DEF Sound, HasRun, IsApproved, HasRubric, Tables
      <3> QED
        BY <3>1, <3>2
    <2>7. Sound(made)
      BY <2>4, <2>6 DEF Sound, IsApproved, HasRubric
    <2> QED
      BY <2>1, <2>4, <2>5, <2>7 DEF Done, Proper, Statuses, Good
  <1> QED
    BY <1>1, <1>2

(* What else is done to a run leaves it its rubric and its position.       *)
LEMMA RunRoutesAreProper ==
  ASSUME NEW t \in Tables, Sound(t), NEW a \in Actors, NEW r,
         NEW files \in {"none", "queued", "screened"},
         NEW outcome \in {RescanRun(t, r, files), StartRun(t, r), AbortRun(t, r),
                          SignOffRun(t, a, r), RecordOverride(t, a, r)}
  PROVE  Proper(t, outcome) /\ outcome.status # "integrity"
  <1>1. ASSUME NEW u \in Tables, u.positions = t.positions, u.rubrics = t.rubrics,
               \A x \in RunIds : HasRun(u, x) =>
                 /\ HasRun(t, x)
                 /\ u.runs[x].rubric = t.runs[x].rubric /\ u.runs[x].position = t.runs[x].position
        PROVE  Proper(t, Done(u, None)) /\ Done(u, None).status # "integrity"
    BY <1>1, SameTables DEF Proper, Done, Statuses, Good
  <1>2. ASSUME NEW status \in RuleBreaks
        PROVE  Proper(t, Raised(t, status)) /\ Raised(t, status).status # "integrity"
    BY RaisedIsProper DEF Statuses, RuleBreaks
  <1>3. CASE outcome = RescanRun(t, r, files)
    <2>1. CASE HasRun(t, r)
      <3> DEFINE u == [t EXCEPT !.runs[r].files = files]
      <3>1. t.runs[r] \in Run /\ r \in RunIds
        BY <2>1 DEF HasRun, Tables
      <3>2. [t.runs[r] EXCEPT !.files = files] \in Run
        BY <3>1 DEF Run
      <3>3. /\ u \in Tables /\ u.positions = t.positions /\ u.rubrics = t.rubrics
            /\ u.runs = [t.runs EXCEPT ![r] = [t.runs[r] EXCEPT !.files = files]]
        BY <3>1, <3>2 DEF Tables
      <3>4. \A x \in RunIds : HasRun(u, x) =>
              /\ HasRun(t, x)
              /\ u.runs[x].rubric = t.runs[x].rubric /\ u.runs[x].position = t.runs[x].position
        BY <2>1, <3>1, <3>3 DEF HasRun, Tables, Run
      <3> QED
        BY <1>1, <1>3, <2>1, <3>3, <3>4 DEF RescanRun
    <2>2. CASE ~HasRun(t, r)
      BY <1>2, <1>3, <2>2 DEF RescanRun, RuleBreaks
    <2> QED
      BY <2>1, <2>2
  <1>4. CASE outcome \in {StartRun(t, r), AbortRun(t, r)}
    BY <1>1, <1>2, <1>4 DEF StartRun, AbortRun, RuleBreaks
  <1>5. CASE outcome = SignOffRun(t, a, r)
    <2> DEFINE u == SignOff(EnsureActor(t, a), r)
    <2>1. CASE HasRun(t, r)
      <3>1. t.runs[r] \in Run /\ r \in RunIds
        BY <2>1 DEF HasRun, Tables
      <3>2. [t.runs[r] EXCEPT !.reviewed = TRUE] \in Run
        BY <3>1 DEF Run
      <3>3. /\ u \in Tables /\ u.positions = t.positions /\ u.rubrics = t.rubrics
            /\ u.runs = [t.runs EXCEPT ![r] = [t.runs[r] EXCEPT !.reviewed = TRUE]]
        BY <3>1, <3>2, Seeding DEF Tables, SignOff
      <3>4. \A x \in RunIds : HasRun(u, x) =>
              /\ HasRun(t, x)
              /\ u.runs[x].rubric = t.runs[x].rubric /\ u.runs[x].position = t.runs[x].position
        BY <2>1, <3>1, <3>3 DEF HasRun, Tables, Run
      <3> QED
        BY <1>1, <1>5, <2>1, <3>3, <3>4, Seeding DEF SignOffRun
    <2>2. CASE ~HasRun(t, r)
      BY <1>2, <1>5, <2>2 DEF SignOffRun, RuleBreaks
    <2> QED
      BY <2>1, <2>2
  <1>6. CASE outcome = RecordOverride(t, a, r)
    <2>1. EnsureActor(t, a).runs = t.runs
      BY Seeding
    <2> QED
      BY <1>1, <1>2, <1>6, <2>1, Seeding DEF RecordOverride, RuleBreaks, HasRun
  <1> QED
    BY <1>3, <1>4, <1>5, <1>6
(* Every outcome of a request is proper, the database refuses none but a   *)
(* folder reference that is taken, and a rubric asked for is shown.        *)
LEMMA OutcomesAreProper ==
  ASSUME db \in Tables, Sound(db), NEW q \in Request, WellFormed(db, q),
         VersionLeft(q.position), NEW outcome \in Outcomes(q)
  PROVE  /\ Proper(db, outcome)
         /\ outcome.status = "integrity" =>
              q.op = "create_position" /\ HasPosition(outcome.db, q.position)
         /\ outcome.status = Good /\ q.op \in {"extract", "save", "approve"} =>
              outcome.body \in Shown
  <1> USE DEF Outcomes, PositionRoutes, RubricRoutes, RunRoutes, CandidateRoutes
  <1>1. /\ q.op \in Ops /\ q.actor \in Actors /\ q.position \in References \cup {None}
        /\ q.content \in Contents \cup {Unfit, None}
    BY DEF Request
  <1>2. CASE q.op = "create_position"
    <2>1. outcome = CreatePosition(db, q.actor, q.position)
      BY <1>2
    <2> QED
      BY <1>1, <1>2, <2>1, CreatePositionIsProper DEF WellFormed
  <1>3. CASE q.op = "extract"
    <2>1. PICK c \in Contents : outcome = NewVersion(db, q.actor, q.position, c)
      BY <1>3
    <2> QED
      BY <1>1, <1>3, <2>1, NewVersionIsProper DEF WellFormed, VersionLeft, Good
  <1>4. CASE q.op = "save"
    <2>1. outcome = Save(q)
      BY <1>4
    <2>2. CASE q.content = Unfit
      BY <2>1, <2>2, RaisedIsProper DEF Save, Statuses, Good
    <2>3. CASE q.content # Unfit /\ ~HasPosition(db, q.position)
      BY <2>1, <2>3, RaisedIsProper DEF Save, SaveRubric, Statuses, RuleBreaks, Good
    <2>4. CASE q.content # Unfit /\ HasPosition(db, q.position)
      <3>1. q.position \in References /\ q.content \in Contents
        BY <1>1, <1>4, <2>4 DEF HasPosition, Tables, WellFormed
      <3>2. outcome = NewVersion(db, q.actor, q.position, q.content)
        BY <2>1, <2>4 DEF Save, SaveRubric
      <3> QED
        BY <1>1, <3>1, <3>2, NewVersionIsProper DEF VersionLeft, Good
    <2> QED
      BY <2>2, <2>3, <2>4
  <1>5. CASE q.op = "approve"
    <2>1. outcome = ApproveRubric(db, q.actor, q.rubric, Seen(q))
      BY <1>5
    <2>2. HasRubric(db, q.rubric) => Seen(q) = db.rubrics[q.rubric].content
      BY <1>5 DEF Seen, WellFormed
    <2> QED
      BY <1>1, <2>1, <2>2, ApproveRubricIsProper DEF Good
  <1>6. CASE q.op = "create_run"
    <2>1. PICK r \in NewRuns, files \in {"none", "queued"} :
            outcome = CreateRun(db, q.actor, r, q.position, q.rubric, files)
      BY <1>6
    <2>2. r \in RunIds
      BY DEF NewRuns
    <2> QED
      BY <1>1, <1>6, <2>1, <2>2, CreateRunIsProper
  <1>7. CASE q.op \in {"start", "rescan", "abort", "sign_off", "override"}
    <2>1. FoundBy(q.run) \subseteq {"none", "queued", "screened"}
      BY DEF FoundBy, Found, HasRun, Tables, Run
    <2>2. \E files \in {"none", "queued", "screened"} :
            outcome \in {RescanRun(db, q.run, files), StartRun(db, q.run), AbortRun(db, q.run),
                        SignOffRun(db, q.actor, q.run), RecordOverride(db, q.actor, q.run)}
      BY <1>7, <2>1
    <2> QED
      BY <1>1, <1>7, <2>2, RunRoutesAreProper
  <1> QED
    BY <1>1, <1>2, <1>3, <1>4, <1>5, <1>6, <1>7 DEF Ops, VoidOps-----------------------------------------------------------------------------
(* The steps.                                                              *)

(* The initial states satisfy the invariant.                               *)
LEMMA InvInit == Init => IInv
  <1> SUFFICES ASSUME Init PROVE IInv
    OBVIOUS
  <1>1. db \in Tables
    BY DeskAssumption DEF Init, Tables
  <1>2. TypeOK
    BY <1>1, DeskAssumption DEF Init, TypeOK, Tabs, NewSession, Nothing, Free
  <1>3. (\A id \in Ids : ~HasRubric(db, id)) /\ (\A r \in RunIds : ~HasRun(db, r))
    BY DEF Init, HasRubric, HasRun
  <1>4. Sound(db)
    BY <1>3 DEF Sound, IsApproved
  <1>5. ShownIsStored /\ EditorIsFilled /\ WaitedFor
    BY DEF Init, ShownIsStored, EditorIsFilled, WaitedFor, NewSession, Rendered
  <1>6. NobodyIsTurnedAway /\ RequestsAreWellFormed /\ AnswersAreStored
    BY DeskAssumption
    DEF Init, NobodyIsTurnedAway, RequestsAreWellFormed, AnswersAreStored, Free, Blank, Statuses
  <1> QED
    BY <1>2, <1>4, <1>5, <1>6 DEF IInv

(* What held of the tables holds of tables that have grown.                *)
LEMMA Growth ==
  ASSUME NEW t, NEW u, Grown(t, u)
  PROVE  /\ \A q : WellFormed(t, q) => WellFormed(u, q)
         /\ \A shown : Holds(t, shown) => Holds(u, shown)
         /\ \A p : HasPosition(t, p) => HasPosition(u, p)
  BY DEF Grown, WellFormed, Holds

(* An answer preserves the invariant.                                      *)
LEMMA AnswerStep ==
  ASSUME IInv, NEW l \in Lines, line[l].phase \in {"sent", "asking"},
         NEW status \in Statuses, NEW body \in Shown \cup {None}, Answer(l, status, body),
         db' \in Tables, Sound(db'), Grown(db, db'), UNCHANGED <<apiUp, ui, waiting, said, calls>>,
         body # None => Holds(db', body),
         status = "integrity" =>
           line[l].q.op = "create_position" /\ HasPosition(db', line[l].q.position),
         status = Good /\ line[l].q.op \in {"extract", "save", "approve"} => body \in Shown
  PROVE  IInv'
  <1> DEFINE answered ==
        [line[l] EXCEPT !.phase = "answered", !.status = status, !.body = body]
  <1>1. line \in [Lines -> Line \cup {Free}] /\ line[l] \in Line
    BY DEF IInv, TypeOK, Free
  <1>2. answered \in Line /\ answered.phase = "answered" /\ answered.status = status
        /\ answered.body = body /\ answered.q = line[l].q /\ answered.from = line[l].from
    BY <1>1 DEF Line
  <1> HIDE DEF answered
  <1>3. /\ line' = [line EXCEPT ![l] = line'[l]]
        /\ line'[l] \in {answered, Free}
        /\ line[l].from \in Sessions => line'[l] = answered
    BY <1>1 DEF Answer, answered
  <1>4. \A k \in Lines : k # l => line'[k] = line[k]
    BY <1>1, <1>3
  <1>5. /\ Free.phase = "free" /\ Free.body = None
        /\ Free.status # "integrity" /\ Free.status # Good
    BY DeskAssumption DEF Free, Statuses
  <1>6. TypeOK'
    BY <1>1, <1>2, <1>3 DEF IInv, TypeOK
  <1>7. ShownIsStored' /\ EditorIsFilled'
    BY Growth DEF IInv, ShownIsStored, EditorIsFilled, Rendered, Holds
  <1>8. NobodyIsTurnedAway'
    BY <1>2, <1>3, <1>4, <1>5, Growth DEF IInv, NobodyIsTurnedAway
  <1>9. RequestsAreWellFormed'
    BY <1>2, <1>3, <1>4, <1>5, Growth DEF IInv, RequestsAreWellFormed
  <1>10. AnswersAreStored'
    BY <1>2, <1>3, <1>4, <1>5, Growth DEF IInv, AnswersAreStored
  <1>11. WaitedFor'
    BY <1>2, <1>3, <1>4 DEF IInv, TypeOK, WaitedFor
  <1> QED
    BY <1>6, <1>7, <1>8, <1>9, <1>10, <1>11 DEF IInv

(* What the API does with a request preserves the invariant.               *)
LEMMA ApiStep ==
  ASSUME IInv, NEW l \in Lines, Look(l) \/ Serve(l) \/ Fault(l)
  PROVE  IInv'
  <1>1. /\ line[l].phase \in {"sent", "asking"}
        /\ UNCHANGED <<apiUp, ui, waiting, said, calls>>
    BY DEF Look, Serve, Ready, Fault
  <1>2. line[l] \in Line /\ line[l].q \in Request /\ WellFormed(db, line[l].q)
    BY <1>1 DEF IInv, TypeOK, Free, Line, RequestsAreWellFormed
  <1>3. db \in Tables /\ Sound(db) /\ Grown(db, db)
    BY DEF IInv, TypeOK, Grown
  <1>4. CASE Fault(l)
    <2>1. Answer(l, "fault", None) /\ UNCHANGED db
      BY <1>4 DEF Fault
    <2>2. "fault" \in Statuses /\ "fault" # Good
      BY DEF Statuses, Good
    <2> QED
      BY <1>1, <1>3, <2>1, <2>2, AnswerStep
  <1>5. CASE Look(l)
    <2>1. CASE ~HasPosition(db, line[l].q.position)
      <3>1. Answer(l, "notFound", None) /\ UNCHANGED db
        BY <1>5, <2>1 DEF Look
      <3>2. "notFound" \in Statuses /\ "notFound" # Good
        BY DEF Statuses, RuleBreaks, Good
      <3> QED
        BY <1>1, <1>3, <3>1, <3>2, AnswerStep
    <2>2. CASE HasPosition(db, line[l].q.position)
      <3> DEFINE asking == [line[l] EXCEPT !.phase = "asking"]
      <3>1. asking \in Line /\ asking.phase = "asking" /\ asking.status = line[l].status
            /\ asking.body = line[l].body /\ asking.q = line[l].q /\ asking.from = line[l].from
        BY <1>2 DEF Line
      <3>2. line' = [line EXCEPT ![l] = asking] /\ UNCHANGED db
        BY <1>5, <2>2 DEF Look
      <3> HIDE DEF asking
      <3>3. /\ line'[l] = asking /\ \A k \in Lines : k # l => line'[k] = line[k]
            /\ line' \in [Lines -> Line \cup {Free}]
        BY <3>1, <3>2 DEF IInv, TypeOK
      <3>4. TypeOK' /\ ShownIsStored' /\ EditorIsFilled' /\ Sound(db')
        BY <1>1, <3>2, <3>3 DEF IInv, TypeOK, ShownIsStored, EditorIsFilled, Rendered
      <3>5. NobodyIsTurnedAway' /\ RequestsAreWellFormed' /\ AnswersAreStored'
        BY <1>1, <1>2, <3>1, <3>2, <3>3
        DEF IInv, NobodyIsTurnedAway, RequestsAreWellFormed, AnswersAreStored
      <3>6. WaitedFor'
        BY <1>1, <3>1, <3>2, <3>3 DEF IInv, TypeOK, WaitedFor
      <3> QED
        BY <3>4, <3>5, <3>6 DEF IInv
    <2> QED
      BY <2>1, <2>2
  <1>6. CASE Serve(l)
    <2>1. PICK outcome \in Outcomes(line[l].q) :
            db' = outcome.db /\ Answer(l, outcome.status, outcome.body)
      BY <1>6 DEF Serve
    <2>2. VersionLeft(line[l].q.position)
      BY <1>6 DEF Serve
    <2>3. /\ Proper(db, outcome)
          /\ outcome.status = "integrity" =>
               line[l].q.op = "create_position" /\ HasPosition(outcome.db, line[l].q.position)
          /\ outcome.status = Good /\ line[l].q.op \in {"extract", "save", "approve"} =>
               outcome.body \in Shown
      BY <1>2, <1>3, <2>2, OutcomesAreProper
    <2> QED
      BY <1>1, <2>1, <2>3, AnswerStep DEF Proper
  <1> QED
    BY <1>4, <1>5, <1>6
(* A page that only changes what it has on screen preserves the invariant. *)
LEMMA ScreenStep ==
  ASSUME IInv, NEW s \in Sessions, ChoosePosition(s) \/ Edit(s) \/ EnterRun(s)
  PROVE  IInv'
  <1>1. UNCHANGED <<db, apiUp, waiting, line, calls>> /\ said' = [said EXCEPT ![s] = Nothing]
    BY DEF ChoosePosition, Edit, EnterRun
  <1>2. ui[s] \in Tabs /\ ui \in [Sessions -> Tabs]
    BY DEF IInv, TypeOK
  <1>3. \E tabs \in Tabs :
          /\ ui' = [ui EXCEPT ![s] = tabs] /\ tabs.rubric = ui[s].rubric
          /\ tabs.rubric # None /\ tabs.rubric.id[1] = tabs.position => tabs.screen # None
    <2>1. CASE ChoosePosition(s)
      <3>1. PICK p \in db.positions :
              ui' = [ui EXCEPT ![s].position = p,
                               ![s].screen = IF ui[s].rubric # None /\ ui[s].rubric.id[1] = p
                                             THEN ui[s].rubric.content ELSE None]
        BY <2>1 DEF ChoosePosition
      <3> DEFINE screen == IF ui[s].rubric # None /\ ui[s].rubric.id[1] = p
                           THEN ui[s].rubric.content ELSE None
                 moved == [ui[s] EXCEPT !.position = p]
                 tabs == [moved EXCEPT !.screen = screen]
      <3>2. p \in References /\ screen \in Contents \cup {None}
        BY <1>2 DEF IInv, TypeOK, Tables, Tabs, Shown
      <3>3. /\ moved \in Tabs /\ moved.rubric = ui[s].rubric /\ moved.position = p
            /\ tabs \in Tabs /\ tabs.rubric = ui[s].rubric /\ tabs.position = p
            /\ tabs.screen = screen
        BY <1>2, <3>2 DEF Tabs
      <3>4. ui' = [ui EXCEPT ![s] = tabs]
        <4>1. [ui EXCEPT ![s].position = p] = [ui EXCEPT ![s] = moved]
          BY <1>2
        <4>2. ui' = [[ui EXCEPT ![s] = moved] EXCEPT ![s].screen = screen]
          BY <3>1, <4>1
        <4> HIDE DEF moved, screen
        <4>3. [ui EXCEPT ![s] = moved][s] = moved
          BY <1>2
        <4> QED
          BY <1>2, <3>3, <4>2, <4>3
      <3>5. tabs.rubric # None /\ tabs.rubric.id[1] = tabs.position => tabs.screen # None
        BY <1>2, RegistryAssumption DEF Tabs, Shown
      <3> QED
        BY <3>3, <3>4, <3>5
    <2>2. CASE Edit(s)
      <3>1. PICK content \in Contents \cup {Unfit} : ui' = [ui EXCEPT ![s].screen = content]
        BY <2>2 DEF Edit
      <3> DEFINE tabs == [ui[s] EXCEPT !.screen = content]
      <3>2. tabs \in Tabs /\ tabs.rubric = ui[s].rubric /\ tabs.screen # None
        BY <1>2, RegistryAssumption, DeskAssumption DEF Tabs
      <3> QED
        BY <3>1, <3>2
    <2>3. CASE EnterRun(s)
      <3>1. PICK r \in RunIds : ui' = [ui EXCEPT ![s].run = r]
        BY <2>3 DEF EnterRun
      <3> DEFINE tabs == [ui[s] EXCEPT !.run = r]
      <3>2. tabs \in Tabs /\ tabs.rubric = ui[s].rubric /\ tabs.screen = ui[s].screen
            /\ tabs.position = ui[s].position
        BY <1>2 DEF Tabs
      <3> QED
        BY <3>1, <3>2 DEF IInv, EditorIsFilled, Rendered
    <2> QED
      BY <2>1, <2>2, <2>3
  <1>4. PICK tabs \in Tabs :
          /\ ui' = [ui EXCEPT ![s] = tabs] /\ tabs.rubric = ui[s].rubric
          /\ tabs.rubric # None /\ tabs.rubric.id[1] = tabs.position => tabs.screen # None
    BY <1>3
  <1>5. TypeOK'
    BY <1>1, <1>4 DEF IInv, TypeOK, Nothing
  <1>6. ShownIsStored' /\ EditorIsFilled'
    BY <1>1, <1>2, <1>4 DEF IInv, ShownIsStored, EditorIsFilled, Rendered
  <1>7. /\ NobodyIsTurnedAway' /\ RequestsAreWellFormed' /\ AnswersAreStored' /\ WaitedFor'
        /\ Sound(db')
    BY <1>1 DEF IInv, NobodyIsTurnedAway, RequestsAreWellFormed, AnswersAreStored, WaitedFor
  <1> QED
    BY <1>5, <1>6, <1>7 DEF IInv

(* What a page can ask for is well formed.                                 *)
LEMMA OffersAreWellFormed ==
  ASSUME IInv, NEW s \in Sessions, NEW a \in Actors,
         NEW q \in RubricOffers(s, a) \cup RunOffers(s, a) \cup ReviewOffers(s, a)
  PROVE  q \in Request /\ WellFormed(db, q)
  <1> USE DEF Ask, Blank
  <1>1. ui[s] \in Tabs
    BY DEF IInv, TypeOK
  <1>2. CASE q \in RubricOffers(s, a)
    <2>1. Rendered(s) =>
            /\ ui[s].rubric \in Shown /\ ui[s].position \in References
            /\ ui[s].screen \in Contents \cup {Unfit} /\ Holds(db, ui[s].rubric)
      BY <1>1 DEF IInv, EditorIsFilled, Rendered, Tabs, Shown, ShownIsStored, Holds, Ids
    <2>2. CASE \E p \in References : q = [Ask("create_position", a) EXCEPT !.position = p]
      BY <2>2 DEF Request, Ops, WellFormed
    <2>3. CASE ui[s].position # None
               /\ q = [Ask("extract", a) EXCEPT !.position = ui[s].position]
      BY <1>1, <2>3 DEF Request, Ops, WellFormed, Tabs
    <2>4. CASE Rendered(s) /\ q = [Ask("save", a) EXCEPT !.position = ui[s].position,
                                                        !.content = ui[s].screen]
      <3>1. q = [op |-> "save", actor |-> a, position |-> ui[s].position, rubric |-> None,
                 run |-> None, content |-> ui[s].screen]
        BY <2>4
      <3> QED
        BY <2>1, <2>4, <3>1, RegistryAssumption, DeskAssumption DEF Request, Ops, WellFormed
    <2>5. CASE Rendered(s) /\ q = [Ask("approve", a) EXCEPT !.rubric = ui[s].rubric.id,
                                                           !.content = ui[s].rubric.content]
      <3>1. q = [op |-> "approve", actor |-> a, position |-> None, rubric |-> ui[s].rubric.id,
                 run |-> None, content |-> ui[s].rubric.content]
        BY <2>5
      <3> QED
        BY <2>1, <2>5, <3>1 DEF Request, Ops, WellFormed, Shown, Holds
    <2> QED
      BY <1>2, <2>2, <2>3, <2>4, <2>5 DEF RubricOffers
  <1>3. CASE q \in RunOffers(s, a)
    <2>1. CASE /\ ui[s].position # None /\ ui[s].rubric # None
               /\ q = [Ask("create_run", a) EXCEPT !.position = ui[s].position,
                                                  !.rubric = ui[s].rubric.id]
      <3>1. q = [op |-> "create_run", actor |-> a, position |-> ui[s].position,
                 rubric |-> ui[s].rubric.id, run |-> None, content |-> None]
        BY <2>1
      <3> QED
        BY <1>1, <2>1, <3>1 DEF Request, Ops, WellFormed, Tabs, Shown
    <2>2. CASE /\ ui[s].run # None
               /\ \E op \in {"start", "rescan", "abort"} : q = [Ask(op, a) EXCEPT !.run = ui[s].run]
      BY <1>1, <2>2 DEF Request, Ops, VoidOps, WellFormed, Tabs
    <2> QED
      BY <1>3, <2>1, <2>2 DEF RunOffers
  <1>4. CASE q \in ReviewOffers(s, a)
    <2>1. \E r \in RunIds, op \in {"sign_off", "override"} : q = [Ask(op, a) EXCEPT !.run = r]
      BY <1>4 DEF ReviewOffers, SignOffOffers, OverrideOffers, Listed, HasRun
    <2> QED
      BY <2>1 DEF Request, Ops, VoidOps, WellFormed
  <1> QED
    BY <1>2, <1>3, <1>4
(* A press preserves the invariant.                                        *)
LEMMA PressStep ==
  ASSUME IInv, NEW s \in Sessions, NEW a \in Reviewers, Press(s, a)
  PROVE  IInv'
  <1>1. a \in Actors
    BY DeskAssumption
  <1>2. PICK q \in RubricOffers(s, a) \cup RunOffers(s, a) \cup ReviewOffers(s, a) :
          IF apiUp
          THEN /\ FreeLines # {}
               /\ LET l == CHOOSE l \in FreeLines : TRUE
                  IN /\ line' = [line EXCEPT ![l] = Sent(s, q)]
                     /\ waiting' = [waiting EXCEPT ![s] = l]
               /\ said' = [said EXCEPT ![s] = Nothing]
               /\ Count
          ELSE /\ Say(s, SaysDown(q.op), FALSE)
               /\ UNCHANGED <<line, waiting, calls>>
    BY DEF Press
  <1>3. q \in Request /\ WellFormed(db, q) /\ UNCHANGED <<db, apiUp, ui>>
    BY <1>1, OffersAreWellFormed DEF Press
  <1>4. ShownIsStored' /\ EditorIsFilled' /\ Sound(db')
    BY <1>3 DEF IInv, ShownIsStored, EditorIsFilled, Rendered
  <1>5. CASE apiUp
    <2>1. PICK l \in FreeLines : /\ line' = [line EXCEPT ![l] = Sent(s, q)]
                                /\ waiting' = [waiting EXCEPT ![s] = l]
      BY <1>2, <1>5
    <2>2. l \in Lines /\ line[l].phase = "free"
      BY DEF FreeLines, Free
    <2>3. /\ Sent(s, q) \in Line
          /\ Sent(s, q).phase = "sent" /\ Sent(s, q).from = s /\ Sent(s, q).q = q
          /\ Sent(s, q).status = None /\ Sent(s, q).body = None
      BY <1>3 DEF Sent, Free, Line
    <2>4. /\ line'[l] = Sent(s, q) /\ \A k \in Lines : k # l => line'[k] = line[k]
          /\ line' \in [Lines -> Line \cup {Free}]
      BY <2>1, <2>2, <2>3 DEF IInv, TypeOK
    <2>5. TypeOK'
      <3>1. said' = [said EXCEPT ![s] = Nothing] /\ Count
        BY <1>2, <1>5
      <3>2. calls' \in 0..MaxCalls
        BY <3>1, DeskAssumption DEF IInv, TypeOK, Count
      <3> QED
        BY <1>3, <2>1, <2>2, <2>4, <3>1, <3>2 DEF IInv, TypeOK, Nothing
    <2>6. NobodyIsTurnedAway' /\ RequestsAreWellFormed' /\ AnswersAreStored'
      BY <1>3, <2>3, <2>4, DeskAssumption
      DEF IInv, NobodyIsTurnedAway, RequestsAreWellFormed, AnswersAreStored, Statuses, Good
    <2>7. WaitedFor'
      BY <2>1, <2>2, <2>3, <2>4 DEF IInv, TypeOK, WaitedFor
    <2> QED
      BY <1>4, <2>5, <2>6, <2>7 DEF IInv
  <1>6. CASE ~apiUp
    <2>1. SaysDown(q.op) \subseteq {"done", "error", "traceback"}
      BY DEF SaysDown, Says
    <2>2. UNCHANGED <<line, waiting, calls>> /\ Say(s, SaysDown(q.op), FALSE)
      BY <1>2, <1>6
    <2>3. TypeOK'
      BY <1>3, <2>1, <2>2 DEF IInv, TypeOK, Say
    <2> QED
      BY <1>3, <1>4, <2>2, <2>3
      DEF IInv, NobodyIsTurnedAway, RequestsAreWellFormed, AnswersAreStored, WaitedFor
  <1> QED
    BY <1>5, <1>6

(* A page that stops waiting leaves the other lines as they were.          *)
LEMMA LineIsLeft ==
  ASSUME IInv, NEW s \in Sessions, UNCHANGED db, waiting' = [waiting EXCEPT ![s] = None],
         line' = [l \in Lines |-> line'[l]],
         \A l \in Lines :
           IF l = waiting[s] THEN line'[l] \in {Free, [line[l] EXCEPT !.from = Gone]}
                             ELSE line'[l] = line[l]
  PROVE  /\ line' \in [Lines -> Line \cup {Free}]
         /\ NobodyIsTurnedAway' /\ RequestsAreWellFormed' /\ AnswersAreStored' /\ WaitedFor'
  <1>1. \A l \in Lines : l = waiting[s] => line[l] \in Line /\ line[l].from = s
    BY DeskAssumption DEF IInv, TypeOK, WaitedFor, Free
  <1>2. \A l \in Lines :
          \/ line'[l] = line[l]
          \/ line'[l] = Free
          \/ /\ line'[l] \in Line /\ line'[l].q = line[l].q /\ line'[l].phase = line[l].phase
             /\ line'[l].status = line[l].status /\ line'[l].body = line[l].body
    BY <1>1 DEF Line
  <1>3. line' \in [Lines -> Line \cup {Free}]
    BY <1>2 DEF IInv, TypeOK
  <1>4. /\ Free.phase = "free" /\ Free.body = None
        /\ Free.status # "integrity" /\ Free.status # Good
    BY DeskAssumption DEF Free, Statuses
  <1>5. NobodyIsTurnedAway' /\ RequestsAreWellFormed' /\ AnswersAreStored'
    BY <1>2, <1>4 DEF IInv, NobodyIsTurnedAway, RequestsAreWellFormed, AnswersAreStored
  <1>6. WaitedFor'
    <2> SUFFICES ASSUME NEW u \in Sessions, waiting'[u] # None
                 PROVE  line'[waiting'[u]].phase # "free" /\ line'[waiting'[u]].from = u
      BY DEF WaitedFor
    <2>1. u # s /\ waiting'[u] = waiting[u] /\ waiting[u] \in Lines
      BY DEF IInv, TypeOK
    <2>2. line[waiting[u]].phase # "free" /\ line[waiting[u]].from = u
      BY <2>1 DEF IInv, WaitedFor
    <2> QED
      BY <1>1, <2>1, <2>2
  <1> QED
    BY <1>3, <1>5, <1>6
(* The end of a page's wait, whichever way, preserves the invariant.       *)
LEMMA WaitStep ==
  ASSUME IInv, NEW s \in Sessions, Deliver(s) \/ Overtaken(s) \/ Timeout(s) \/ Reload(s)
  PROVE  IInv'
  <1>1. /\ waiting' = [waiting EXCEPT ![s] = None] /\ UNCHANGED <<db, apiUp, calls>>
        /\ waiting' \in [Sessions -> Lines \cup {None}]
    BY DEF Deliver, Overtaken, Timeout, Reload, IInv, TypeOK
  <1>2. /\ line' \in [Lines -> Line \cup {Free}]
        /\ NobodyIsTurnedAway' /\ RequestsAreWellFormed' /\ AnswersAreStored' /\ WaitedFor'
    <2>1. CASE waiting[s] # None /\ line' = [line EXCEPT ![waiting[s]] = Free]
      <3>1. line' = [l \in Lines |-> line'[l]]
            /\ \A l \in Lines : line'[l] = IF l = waiting[s] THEN Free ELSE line[l]
        BY <2>1 DEF IInv, TypeOK
      <3> QED
        BY <1>1, <3>1, LineIsLeft
    <2>2. CASE Hangup(s)
      <3>1. line' = [l \in Lines |-> line'[l]]
            /\ \A l \in Lines : line'[l] = IF l = waiting[s] THEN Leave(l) ELSE line[l]
        BY <2>2 DEF Hangup
      <3> QED
        BY <1>1, <3>1, LineIsLeft DEF Leave
    <2> QED
      BY <2>1, <2>2 DEF Deliver, Overtaken, Timeout, Reload
  <1>3. said' \in [Sessions -> [messages : SUBSET {"done", "error", "traceback"}, took : BOOLEAN]]
    <2>1. \A op, ok : Says(op, ok) \subseteq {"done", "error", "traceback"}
      BY DEF Says
    <2>2. ASSUME NEW messages \in SUBSET {"done", "error", "traceback"}, NEW took \in BOOLEAN,
                 said' = [said EXCEPT ![s] = [messages |-> messages, took |-> took]]
          PROVE  said' \in [Sessions -> [messages : SUBSET {"done", "error", "traceback"},
                                        took : BOOLEAN]]
      BY <2>2 DEF IInv, TypeOK
    <2>3. CASE Deliver(s)
      BY <2>1, <2>2, <2>3 DEF Deliver, Say
    <2>4. CASE Overtaken(s)
      BY <2>4 DEF Overtaken, IInv, TypeOK
    <2>5. CASE Timeout(s)
      BY <2>1, <2>2, <2>5 DEF Timeout, Say
    <2>6. CASE Reload(s)
      BY <2>2, <2>6 DEF Reload, Nothing
    <2> QED
      BY <2>3, <2>4, <2>5, <2>6
  <1>4. ui' \in [Sessions -> Tabs] /\ ShownIsStored' /\ EditorIsFilled'
    <2>1. CASE UNCHANGED ui
      BY <1>1, <2>1 DEF IInv, TypeOK, ShownIsStored, EditorIsFilled, Rendered
    <2>2. CASE ui' = [ui EXCEPT ![s] = NewSession]
      <3>1. NewSession \in Tabs /\ NewSession.rubric = None
        BY DEF NewSession, Tabs
      <3> QED
        BY <1>1, <2>2, <3>1 DEF IInv, TypeOK, ShownIsStored, EditorIsFilled, Rendered
    <2>3. CASE /\ Deliver(s) /\ line[waiting[s]].status = Good
               /\ line[waiting[s]].q.op \in {"extract", "save", "approve"}
      <3> DEFINE body == line[waiting[s]].body
                 screen == Editor(s, body)
                 served == [ui[s] EXCEPT !.rubric = body]
                 tabs == [served EXCEPT !.screen = screen]
      <3>1. ui[s] \in Tabs /\ ui \in [Sessions -> Tabs] /\ waiting[s] \in Lines
        BY <2>3 DEF Deliver, IInv, TypeOK
      <3>2. body \in Shown /\ (body # None => Holds(db, body))
        BY <2>3, <3>1 DEF IInv, AnswersAreStored
      <3>3. screen \in Contents \cup {Unfit} /\ screen # None
        BY <3>1, <3>2, RegistryAssumption, DeskAssumption DEF Editor, Tabs, Shown
      <3> HIDE DEF body, screen
      <3>4. /\ served \in Tabs /\ served.rubric = body
            /\ tabs \in Tabs /\ tabs.rubric = body /\ tabs.screen = screen
        BY <3>1, <3>2, <3>3 DEF Tabs
      <3>5. ui' = [ui EXCEPT ![s] = tabs]
        <4>1. ui' = [ui EXCEPT ![s].rubric = body, ![s].screen = screen]
          BY <2>3 DEF Deliver, Show, body, screen
        <4>2. [ui EXCEPT ![s].rubric = body] = [ui EXCEPT ![s] = served]
          BY <3>1
        <4>3. ui' = [[ui EXCEPT ![s] = served] EXCEPT ![s].screen = screen]
          BY <4>1, <4>2
        <4> HIDE DEF served
        <4>4. [ui EXCEPT ![s] = served][s] = served
          BY <3>1
        <4> QED
          BY <3>1, <3>4, <4>3, <4>4
      <3> HIDE DEF tabs
      <3>6. ui' \in [Sessions -> Tabs] /\ ShownIsStored'
        BY <1>1, <3>1, <3>2, <3>4, <3>5 DEF IInv, ShownIsStored, Holds
      <3>7. EditorIsFilled'
        BY <3>1, <3>3, <3>4, <3>5 DEF IInv, EditorIsFilled, Rendered
      <3> QED
        BY <3>6, <3>7
    <2> QED
      BY <2>1, <2>2, <2>3 DEF Deliver, Show, Overtaken, Timeout, Reload
  <1>5. TypeOK' /\ Sound(db')
    BY <1>1, <1>2, <1>3, <1>4 DEF IInv, TypeOK
  <1> QED
    BY <1>2, <1>4, <1>5 DEF IInv

(* A process that goes or comes, and a step of the worker, preserve the    *)
(* invariant.                                                              *)
LEMMA WorldStep ==
  ASSUME IInv, CrashApi \/ RestartApi \/ \E r \in RunIds : Screened(r)
  PROVE  IInv'
  <1> USE DEF IInv, TypeOK, ShownIsStored, EditorIsFilled, Rendered, NobodyIsTurnedAway,
          RequestsAreWellFormed, AnswersAreStored, WaitedFor
  <1>1. CASE CrashApi
    <2>1. /\ Free.phase = "free" /\ Free.body = None
          /\ Free.status # "integrity" /\ Free.status # Good
      BY DeskAssumption DEF Free, Statuses
    <2> QED
      BY <1>1, <2>1 DEF CrashApi
  <1>2. CASE RestartApi
    BY <1>2 DEF RestartApi
  <1>3. ASSUME NEW r \in RunIds, Screened(r) PROVE IInv'
    <2>1. db.runs[r] \in Run
      BY <1>3 DEF Screened, HasRun, Tables
    <2>2. [db.runs[r] EXCEPT !.files = "screened"] \in Run
      BY <2>1 DEF Run
    <2>3. /\ db' \in Tables /\ db'.positions = db.positions /\ db'.rubrics = db.rubrics
          /\ db'.runs = [db.runs EXCEPT ![r] = [db.runs[r] EXCEPT !.files = "screened"]]
      BY <1>3, <2>2 DEF Screened, Tables
    <2>4. \A x \in RunIds : HasRun(db', x) =>
            /\ HasRun(db, x)
            /\ db'.runs[x].rubric = db.runs[x].rubric
            /\ db'.runs[x].position = db.runs[x].position
      BY <1>3, <2>1, <2>3 DEF Screened, HasRun, Tables, Run
    <2>5. Grown(db, db') /\ Sound(db')
      BY <2>3, <2>4, SameTables
    <2>6. UNCHANGED <<apiUp, ui, waiting, said, line, calls>>
      BY <1>3 DEF Screened
    <2> QED
      BY <2>3, <2>5, <2>6, Growth DEF Holds
  <1> QED
    BY <1>1, <1>2, <1>3

(* A command preserves the invariant.                                      *)
LEMMA CommandStep ==
  ASSUME IInv, NEW a \in Actors, NEW op \in Ops, Command(a, op)
  PROVE  IInv'
  <1>1. PICK q \in Typed(op, a) :
          /\ VersionLeft(q.position)
          /\ \E outcome \in Outcomes(q) : db' = outcome.db
    BY DEF Command
  <1>2. q \in Request /\ WellFormed(db, q)
    <2>1. ASSUME NEW asked \in OnPositions(op, a)
          PROVE  \E p \in References :
                   asked = [op |-> op, actor |-> a, position |-> p, rubric |-> None,
                            run |-> None, content |-> None]
      BY DEF OnPositions, Ask, Blank
    <2>2. CASE op \in {"create_position", "extract"}
      <3>1. q \in OnPositions(op, a)
        BY <1>1, <2>2 DEF Typed, TypedAboutRubrics, TypedAboutRuns, TypedAboutCandidates
      <3> QED
        BY <2>1, <2>2, <3>1 DEF Request, WellFormed
    <2>3. CASE op = "save"
      <3>1. PICK asked \in OnPositions(op, a), c \in Contents : q = [asked EXCEPT !.content = c]
        BY <1>1, <2>3 DEF Typed, TypedAboutRubrics, TypedAboutRuns, TypedAboutCandidates
      <3> QED
        BY <2>1, <2>3, <3>1, RegistryAssumption DEF Request, WellFormed
    <2>4. CASE op = "approve"
      <3>1. PICK id \in Ids : q = [Ask(op, a) EXCEPT !.rubric = id]
        BY <1>1, <2>4 DEF Typed, TypedAboutRubrics, TypedAboutRuns, TypedAboutCandidates
      <3> QED
        BY <2>4, <3>1 DEF Ask, Blank, Request, WellFormed
    <2>5. CASE op = "create_run"
      <3>1. PICK asked \in OnPositions(op, a), id \in Ids : q = [asked EXCEPT !.rubric = id]
        BY <1>1, <2>5 DEF Typed, TypedAboutRubrics, TypedAboutRuns, TypedAboutCandidates
      <3> QED
        BY <2>1, <2>5, <3>1 DEF Request, WellFormed
    <2>6. CASE op \in {"start", "rescan", "abort", "sign_off", "override"}
      <3>1. PICK r \in RunIds : q = [Ask(op, a) EXCEPT !.run = r]
        BY <1>1, <2>6 DEF Typed, TypedAboutRubrics, TypedAboutRuns, TypedAboutCandidates
      <3> QED
        BY <2>6, <3>1 DEF Ask, Blank, Request, WellFormed
    <2> QED
      BY <2>2, <2>3, <2>4, <2>5, <2>6 DEF Ops, VoidOps
  <1>3. db \in Tables /\ Sound(db)
    BY DEF IInv, TypeOK
  <1>4. db' \in Tables /\ Sound(db') /\ Grown(db, db')
    BY <1>1, <1>2, <1>3, OutcomesAreProper DEF Proper
  <1>5. UNCHANGED <<apiUp, ui, waiting, said, line>> /\ calls' \in 0..MaxCalls
    BY DeskAssumption DEF Command, Count, IInv, TypeOK
  <1> QED
    BY <1>4, <1>5, Growth
    DEF IInv, TypeOK, ShownIsStored, EditorIsFilled, Rendered, NobodyIsTurnedAway,
        RequestsAreWellFormed, AnswersAreStored, WaitedFor, Holds

(* The invariant holds in every reachable state.                           *)
THEOREM Invariant == Spec => []IInv
  <1>1. IInv /\ [Next]_vars => IInv'
    <2> SUFFICES ASSUME IInv, [Next]_vars PROVE IInv'
      OBVIOUS
    <2>1. CASE Next
      BY <2>1, ScreenStep, PressStep, WaitStep, ApiStep, CommandStep, WorldStep DEF Next
    <2>2. CASE UNCHANGED vars
      BY <2>2 DEF vars, IInv, TypeOK, ShownIsStored, EditorIsFilled, Rendered,
         NobodyIsTurnedAway, RequestsAreWellFormed, AnswersAreStored, WaitedFor
    <2> QED
      BY <2>1, <2>2
  <1> QED
    BY <1>1, InvInit, PTL DEF Spec

(* The variables keep their types.                                         *)
THEOREM TypeCorrect == Spec => []TypeOK
  BY Invariant, PTL DEF IInv

(* No run ever screens against a rubric that nobody approved as it stands. *)
THEOREM ScreenedAgainstApproved == Spec => []RunsAreApproved
  <1>1. IInv => RunsAreApproved
    BY DEF IInv, Sound, RunsAreApproved, IsApproved, HasRubric
  <1> QED
    BY <1>1, Invariant, PTL

(* What a page shows of a rubric never stops being what is stored.         *)
THEOREM PagesShowWhatIsStored == Spec => []ShownIsStored
  BY Invariant, PTL DEF IInv

(* No key of the database ever turns a well-formed request away, but for a *)
(* folder reference that is taken.                                         *)
THEOREM KeysAreNeverInTheWay == Spec => []NobodyIsTurnedAway
  BY Invariant, PTL DEF IInv
=============================================================================
