-------------------------------- MODULE Desk --------------------------------
(***************************************************************************)
(* The control plane: browser pages and terminals calling the service.     *)
(* A page is a Streamlit script blocked on one HTTP request at a time; the *)
(* API serves each request in a thread; a command runs in its own process. *)
(* Requests outlive the page that sent them, answers can be lost, and the  *)
(* API can stop at any point.  Audit rows are left to UnitOfWork.          *)
(***************************************************************************)
EXTENDS Registry

CONSTANTS
  Sessions,   \* browser sessions
  Lines,      \* bound: requests the API serves at once
  Reviewers,  \* the names pages are under ("Reviewing as")
  MaxCalls,   \* bound: requests and commands made
  Given,      \* bound: requisitions there from the start
  Unfit       \* what the editor holds once a row was added to it

Gone == "gone"  \* the page that sent a request no longer listens

VoidOps == {"abort", "sign_off", "override"}
Ops == {"create_position", "extract", "save", "approve", "create_run", "start",
        "rescan"} \cup VoidOps

Request == [op : Ops, actor : Actors, position : References \cup {None},
            rubric : Ids \cup {None}, run : RunIds \cup {None},
            content : Contents \cup {Unfit, None}]
Blank == [op |-> None, actor |-> None, position |-> None, rubric |-> None,
          run |-> None, content |-> None]

Statuses == {Good, "invalid", "integrity", "fault"} \cup RuleBreaks

ASSUME DeskAssumption ==
  /\ MaxCalls \in Nat
  /\ Unfit \notin Contents \cup {None}
  /\ Reviewers \subseteq Actors
  /\ Given \subseteq References
  /\ None \notin Ops \cup Statuses \cup Lines

Free == [from |-> None, q |-> Blank, phase |-> "free", status |-> None, body |-> None]
Line == [from : Sessions \cup {Gone}, q : Request,
         phase : {"sent", "asking", "answered"}, status : Statuses \cup {None},
         body : Shown \cup {None}]

Nothing == [messages |-> {}, took |-> FALSE]

VARIABLES
  db,       \* the tables
  apiUp,    \* whether the API process runs
  ui,       \* a session's state: position, rubric, what its editor holds, run id
  waiting,  \* the line a session's script is blocked on, or None
  said,     \* what the page shows of the last press, and whether it took effect
  line,     \* requests sent and not yet answered
  calls     \* bound: how many requests and commands were made

vars == <<db, apiUp, ui, waiting, said, line, calls>>

NewSession == [position |-> None, rubric |-> None, screen |-> None, run |-> None]
Tabs == [position : References \cup {None}, rubric : Shown \cup {None},
         screen : Contents \cup {Unfit, None}, run : RunIds \cup {None}]

Init ==
  /\ \E users \in SUBSET Actors :
       /\ Given # {} => users # {}
       /\ db = [users |-> users, positions |-> Given, rubrics |-> [id \in Ids |-> NoRubric],
                runs |-> [r \in RunIds |-> NoRun]]
  /\ apiUp = TRUE
  /\ ui = [s \in Sessions |-> NewSession]
  /\ waiting = [s \in Sessions |-> None]
  /\ said = [s \in Sessions |-> Nothing]
  /\ line = [l \in Lines |-> Free]
  /\ calls = 0
-----------------------------------------------------------------------------
(* What a request comes to.                                                *)

FoundBy(r) == IF HasRun(db, r) THEN Found(db.runs[r].files) ELSE {"none"}
NewRuns == {r \in RunIds : ~HasRun(db, r)}

(* A command approves whatever its id names; a page, what it was served.   *)
Seen(q) == IF q.content = None /\ HasRubric(db, q.rubric)
           THEN db.rubrics[q.rubric].content ELSE q.content

(* Bound: versions are saved and runs created while ids are left.          *)
VersionLeft(p) == p \in References => NextVersion(db, p) <= MaxVersion[p]

(* Slip: criteria are taken as they come.                                  *)
SaveAsSent(q) == SaveRubric(db, q.actor, q.position, q.content)

(* SaveRubricRequest: a criterion needs an id, a text and a weight.        *)
Save(q) == IF q.content = Unfit THEN Raised(db, "invalid")
           ELSE SaveRubric(db, q.actor, q.position, q.content)

(* The outcomes of the unit of work that answers `q`, route by route.      *)
PositionRoutes(q) ==
  CASE q.op = "create_position" -> {CreatePosition(db, q.actor, q.position)}
    [] q.op = "extract" -> {NewVersion(db, q.actor, q.position, c) : c \in Contents}
    [] q.op = "save" -> {Save(q)}
    [] OTHER -> {}

RubricRoutes(q) ==
  IF q.op = "approve" THEN {ApproveRubric(db, q.actor, q.rubric, Seen(q))} ELSE {}

RunRoutes(q) ==
  CASE q.op = "create_run" -> {CreateRun(db, q.actor, r, q.position, q.rubric, files) :
                                 r \in NewRuns, files \in {"none", "queued"}}
    [] q.op = "start" -> {StartRun(db, q.run)}
    [] q.op = "rescan" -> {RescanRun(db, q.run, files) : files \in FoundBy(q.run)}
    [] q.op = "abort" -> {AbortRun(db, q.run)}
    [] q.op = "sign_off" -> {SignOffRun(db, q.actor, q.run)}
    [] OTHER -> {}

CandidateRoutes(q) == IF q.op = "override" THEN {RecordOverride(db, q.actor, q.run)} ELSE {}

Outcomes(q) == PositionRoutes(q) \cup RubricRoutes(q) \cup RunRoutes(q) \cup CandidateRoutes(q)

(* An answer nobody listens for is dropped.                                *)
Answer(l, status, body) ==
  line' = [line EXCEPT ![l] = IF @.from \in Sessions
                              THEN [@ EXCEPT !.phase = "answered", !.status = status, !.body = body]
                              ELSE Free]

(* extract_rubric's first unit of work, after which the model is asked.    *)
Look(l) ==
  /\ line[l].phase = "sent"
  /\ line[l].q.op = "extract"
  /\ IF HasPosition(db, line[l].q.position)
     THEN line' = [line EXCEPT ![l].phase = "asking"]
     ELSE Answer(l, "notFound", None)
  /\ UNCHANGED <<db, apiUp, ui, waiting, said, calls>>

Ready(l) == line[l].phase = IF line[l].q.op = "extract" THEN "asking" ELSE "sent"

Serve(l) ==
  /\ Ready(l)
  /\ VersionLeft(line[l].q.position)
  /\ \E outcome \in Outcomes(line[l].q) :
       /\ db' = outcome.db
       /\ Answer(l, outcome.status, outcome.body)
  /\ UNCHANGED <<apiUp, ui, waiting, said, calls>>

(* The model or the database failed: nothing was written.                  *)
Fault(l) ==
  /\ line[l].phase \in {"sent", "asking"}
  /\ Answer(l, "fault", None)
  /\ UNCHANGED <<db, apiUp, ui, waiting, said, calls>>
-----------------------------------------------------------------------------
(* Pages.                                                                  *)

(* The rubric section renders only the rubric of the chosen position, the  *)
(* runs page whatever rubric the session holds.                            *)
Rendered(s) == ui[s].rubric # None /\ ui[s].rubric.id[1] = ui[s].position

Ask(op, a) == [Blank EXCEPT !.op = op, !.actor = a]

RubricOffers(s, a) ==
  {[Ask("create_position", a) EXCEPT !.position = p] : p \in References}
  \cup (IF ui[s].position = None THEN {}
        ELSE {[Ask("extract", a) EXCEPT !.position = ui[s].position]})
  \cup (IF ~Rendered(s) THEN {}
        ELSE {[Ask("save", a) EXCEPT !.position = ui[s].position, !.content = ui[s].screen]})
  \cup (IF ~Rendered(s) \/ ui[s].rubric.approved THEN {}
        ELSE {[Ask("approve", a) EXCEPT !.rubric = ui[s].rubric.id,
                                        !.content = ui[s].rubric.content]})

RunOffers(s, a) ==
  (IF ui[s].position # None /\ ui[s].rubric # None /\ ui[s].rubric.approved
   THEN {[Ask("create_run", a) EXCEPT !.position = ui[s].position, !.rubric = ui[s].rubric.id]}
   ELSE {})
  \cup {[Ask(op, a) EXCEPT !.run = ui[s].run] :
          op \in IF ui[s].run = None THEN {} ELSE {"start", "rescan", "abort"}}

(* The review page shows what list_candidates returned.                    *)
Listed(s) == HasRun(db, ui[s].run)

SignOffOffers(s, a) ==
  IF Listed(s) THEN {[Ask("sign_off", a) EXCEPT !.run = ui[s].run]} ELSE {}

(* The form belongs to a candidate; the id of the candidate is typed.      *)
OverrideOffers(s, a) ==
  IF HasCandidate(db, ui[s].run) THEN {[Ask("override", a) EXCEPT !.run = c] : c \in RunIds}
  ELSE {}

ReviewOffers(s, a) == SignOffOffers(s, a) \cup OverrideOffers(s, a)

Count == calls < MaxCalls /\ calls' = calls + 1

(* What `call` and the widget around it show.  `call` returns None when it *)
(* has shown an error, and the operations that return nothing test for it. *)
Says(op, ok) ==
  CASE ok /\ op = "create_run" -> {"traceback"}
    [] ok -> {"done"}
    [] ~ok /\ op \in VoidOps -> {"error", "done"}
    [] OTHER -> {"error"}

(* With the API down the review page stops at the candidates it cannot     *)
(* list, before it comes to its buttons; the runs page comes to its own.   *)
SaysDown(op) == IF op \in {"sign_off", "override"} THEN {"error"} ELSE Says(op, FALSE)

Say(s, messages, took) ==
  said' = [said EXCEPT ![s] = [messages |-> messages, took |-> took]]

ChoosePosition(s) ==
  /\ waiting[s] = None
  /\ \E p \in db.positions \ {ui[s].position} :
       ui' = [ui EXCEPT ![s].position = p,
                        ![s].screen = IF ui[s].rubric # None /\ ui[s].rubric.id[1] = p
                                      THEN ui[s].rubric.content ELSE None]
  /\ said' = [said EXCEPT ![s] = Nothing]
  /\ UNCHANGED <<db, apiUp, waiting, line, calls>>

Edit(s) ==
  /\ waiting[s] = None /\ Rendered(s)
  /\ \E content \in (Contents \cup {Unfit}) \ {ui[s].screen} :
       ui' = [ui EXCEPT ![s].screen = content]
  /\ said' = [said EXCEPT ![s] = Nothing]
  /\ UNCHANGED <<db, apiUp, waiting, line, calls>>

EnterRun(s) ==
  /\ waiting[s] = None
  /\ \E r \in RunIds \ {ui[s].run} : ui' = [ui EXCEPT ![s].run = r]
  /\ said' = [said EXCEPT ![s] = Nothing]
  /\ UNCHANGED <<db, apiUp, waiting, line, calls>>

(* Which thread serves a request makes no difference.                      *)
FreeLines == {l \in Lines : line[l] = Free}
Sent(s, q) == [Free EXCEPT !.from = s, !.q = q, !.phase = "sent"]

Press(s, a) ==
  /\ waiting[s] = None
  /\ \E q \in RubricOffers(s, a) \cup RunOffers(s, a) \cup ReviewOffers(s, a) :
       /\ IF apiUp
          THEN /\ FreeLines # {}
               /\ LET l == CHOOSE l \in FreeLines : TRUE
                  IN /\ line' = [line EXCEPT ![l] = Sent(s, q)]
                     /\ waiting' = [waiting EXCEPT ![s] = l]
               /\ said' = [said EXCEPT ![s] = Nothing]
               /\ Count
          ELSE /\ Say(s, SaysDown(q.op), FALSE)
               /\ UNCHANGED <<line, waiting, calls>>
  /\ UNCHANGED <<db, apiUp, ui>>

(* The editor keeps its edits for as long as its data stay the same.       *)
Editor(s, rubric) ==
  IF ui[s].screen # None /\ ui[s].rubric.content = rubric.content THEN ui[s].screen
  ELSE rubric.content

(* Streamlit refuses to assign the run id: the sidebar's widget owns it.   *)
Show(s, op, body) ==
  ui' = IF op \in {"extract", "save", "approve"}
        THEN [ui EXCEPT ![s].rubric = body, ![s].screen = Editor(s, body)]
        ELSE ui

Deliver(s) ==
  /\ waiting[s] # None
  /\ LET reply == line[waiting[s]]
     IN /\ reply.phase = "answered"
        /\ Say(s, Says(reply.q.op, reply.status = Good), reply.status = Good)
        /\ IF reply.status = Good THEN Show(s, reply.q.op, reply.body) ELSE ui' = ui
        /\ line' = [line EXCEPT ![waiting[s]] = Free]
  /\ waiting' = [waiting EXCEPT ![s] = None]
  /\ UNCHANGED <<db, apiUp, calls>>

(* A click made meanwhile reruns the script: the answer is not looked at.  *)
Overtaken(s) ==
  /\ waiting[s] # None /\ line[waiting[s]].phase = "answered"
  /\ line' = [line EXCEPT ![waiting[s]] = Free]
  /\ waiting' = [waiting EXCEPT ![s] = None]
  /\ UNCHANGED <<db, apiUp, ui, said, calls>>

Leave(l) == IF line[l].phase = "answered" THEN Free ELSE [line[l] EXCEPT !.from = Gone]
Hangup(s) == line' = [l \in Lines |-> IF l = waiting[s] THEN Leave(l) ELSE line[l]]

(* The client stops waiting; the request goes on.                          *)
Timeout(s) ==
  /\ waiting[s] # None
  /\ Hangup(s)
  /\ Say(s, Says(line[waiting[s]].q.op, FALSE), FALSE)
  /\ waiting' = [waiting EXCEPT ![s] = None]
  /\ UNCHANGED <<db, apiUp, ui, calls>>

(* A reloaded page is a new session.                                       *)
Reload(s) ==
  /\ Hangup(s)
  /\ ui' = [ui EXCEPT ![s] = NewSession]
  /\ waiting' = [waiting EXCEPT ![s] = None]
  /\ said' = [said EXCEPT ![s] = Nothing]
  /\ UNCHANGED <<db, apiUp, calls>>
-----------------------------------------------------------------------------
(* Processes.  The API dying is neither a ConnectError nor a timeout for a *)
(* request in flight: the page shows a traceback.                          *)
CrashApi ==
  /\ apiUp
  /\ apiUp' = FALSE
  /\ line' = [l \in Lines |-> Free]
  /\ waiting' = [s \in Sessions |-> None]
  /\ said' = [s \in Sessions |->
                IF waiting[s] = None THEN said[s]
                ELSE [messages |-> {"traceback"}, took |-> FALSE]]
  /\ UNCHANGED <<db, ui, calls>>

RestartApi == ~apiUp /\ apiUp' = TRUE /\ UNCHANGED <<db, ui, waiting, said, line, calls>>

(* A command takes any ids typed at a terminal.  Extraction's first unit   *)
(* of work only looks for the position, and positions are never removed:   *)
(* the command is as good as done in the second.                           *)
OnPositions(op, a) == {[Ask(op, a) EXCEPT !.position = p] : p \in References}

TypedAboutRubrics(op, a) ==
  CASE op \in {"create_position", "extract"} -> OnPositions(op, a)
    [] op = "save" -> {[q EXCEPT !.content = c] : q \in OnPositions(op, a), c \in Contents}
    [] op = "approve" -> {[Ask(op, a) EXCEPT !.rubric = id] : id \in Ids}
    [] OTHER -> {}

TypedAboutRuns(op, a) ==
  CASE op = "create_run" -> {[q EXCEPT !.rubric = id] : q \in OnPositions(op, a), id \in Ids}
    [] op \in {"start", "rescan", "abort", "sign_off"} ->
         {[Ask(op, a) EXCEPT !.run = r] : r \in RunIds}
    [] OTHER -> {}

TypedAboutCandidates(op, a) ==
  IF op = "override" THEN {[Ask(op, a) EXCEPT !.run = c] : c \in RunIds} ELSE {}

Typed(op, a) == TypedAboutRubrics(op, a) \cup TypedAboutRuns(op, a) \cup TypedAboutCandidates(op, a)

Command(a, op) ==
  /\ \E q \in Typed(op, a) :
       /\ op = "extract" => HasPosition(db, q.position)
       /\ VersionLeft(q.position)
       /\ \E outcome \in Outcomes(q) : db' = outcome.db
  /\ Count
  /\ UNCHANGED <<apiUp, ui, waiting, said, line>>

(* The worker files a candidate of a run.                                  *)
Screened(r) ==
  /\ HasRun(db, r) /\ db.runs[r].files = "queued"
  /\ db' = [db EXCEPT !.runs[r].files = "screened"]
  /\ UNCHANGED <<apiUp, ui, waiting, said, line, calls>>

Next ==
  \/ \E s \in Sessions :
       \/ ChoosePosition(s) \/ Edit(s) \/ EnterRun(s) \/ Deliver(s) \/ Overtaken(s)
       \/ Timeout(s) \/ Reload(s)
       \/ \E a \in Reviewers : Press(s, a)
  \/ \E l \in Lines : Look(l) \/ Serve(l) \/ Fault(l)
  \/ \E a \in Actors, op \in Ops : Command(a, op)
  \/ \E r \in RunIds : Screened(r)
  \/ CrashApi \/ RestartApi

Spec == Init /\ [][Next]_vars
-----------------------------------------------------------------------------
TypeOK ==
  /\ db \in Tables
  /\ apiUp \in BOOLEAN
  /\ calls \in 0..MaxCalls
  /\ ui \in [Sessions -> Tabs]
  /\ waiting \in [Sessions -> Lines \cup {None}]
  /\ said \in [Sessions -> [messages : SUBSET {"done", "error", "traceback"}, took : BOOLEAN]]
  /\ line \in [Lines -> Line \cup {Free}]

(* A run screens against a rubric of its own position that was approved,   *)
(* and that still says what its approver had been shown (service.py        *)
(* 249-260): whoever saves, approves or creates runs in between, from      *)
(* whichever page or terminal, with whatever the page still had on screen. *)
RunsAreApproved ==
  \A r \in RunIds : HasRun(db, r) =>
    LET rubric == db.runs[r].rubric
    IN /\ IsApproved(db, rubric)
       /\ rubric[1] = db.runs[r].position
       /\ db.rubrics[rubric].seen = db.rubrics[rubric].content

(* What a page took for the rubric is stored under that id with those      *)
(* criteria, and an approval it shows was given, however many versions     *)
(* were saved elsewhere since (save_rubric never edits one in place).      *)
ShownIsStored ==
  \A s \in Sessions : LET shown == ui[s].rubric IN shown # None =>
    /\ HasRubric(db, shown.id)
    /\ db.rubrics[shown.id].content = shown.content
    /\ shown.approved => IsApproved(db, shown.id)

(* The database refuses a well-formed request only where a folder          *)
(* reference is taken: no second person, no concurrent draft, no retry     *)
(* trips a key (_ensure_actor's comment; next_version in the transaction). *)
NobodyIsTurnedAway ==
  \A l \in Lines : line[l].status = "integrity" =>
    line[l].q.op = "create_position" /\ HasPosition(db, line[l].q.position)

(* "Run aborted.", "Recorded." and "Signed off. Recorded against your      *)
(* name." (screener_app.py 303, 518, 531) are shown for what was done.     *)
SaidDoneIsDone ==
  \A s \in Sessions : "done" \in said[s].messages => said[s].took
=============================================================================
