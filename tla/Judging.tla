------------------------------ MODULE Judging ------------------------------
(***************************************************************************)
(* screen_one: one resume from the worker's hands to a candidate.  Every   *)
(* stage may end it, with a flag; what the model says is checked before it *)
(* counts, and the number is the program's own arithmetic.  Text is not    *)
(* modelled: a quote is what the checks of it find.                        *)
(***************************************************************************)
EXTENDS Integers, Sequences, FiniteSets, SequencesExt

CONSTANTS
  Ids,                         \* criterion ids a model can write
  Criteria, Weight, MustHave,  \* the rubric
  Replies,                     \* replies of the right shape: sequences of entries
  MaxRetries,                  \* settings.max_retries
  High, Mid, Low,              \* settings.band_thresholds, in tenths
  TiesUp,                      \* t such that a score of exactly t + 1/2 tenths rounds up
  None

Verdicts == {"strong", "partial", "none"}

(* What the checks find in a quote: nothing said, not in the resume, there *)
(* but sharing no word with the criterion, or there and about it.          *)
Evidence == {"empty", "invented", "offTopic", "apt"}
Entry == [id : Ids, verdict : Verdicts, evidence : Evidence]

(* How a parser's process can end without a report: past the wall clock;   *)
(* killed by a limit; any other signal or exit code; exit 0 with no JSON   *)
(* object.  And with one: it was unable to do its work, for an exception   *)
(* that has nothing to do with the file (no memory, no descriptor, no      *)
(* parser to import); it found the file broken; no text; too many pages; a *)
(* text.  The envelope says ok: false of the first two alike.              *)
Unreported == {"deadline", "limit", "died", "garbled"}
ChildEnds == Unreported \cup {"unable", "refused", "blank", "long", "text"}

Transient == {"LLM_ERROR", "SCHEMA_INVALID", "PARSER_TIMEOUT", "PARSER_CRASHED"}
Flags == Transient \cup
  {"INPUT_REJECTED", "EXTRACTION_FAILED", "BUDGET_EXCEEDED", "SUSPECTED_INJECTION",
   "SANITIZED_TEXT", "EVIDENCE_UNVERIFIED", "EVIDENCE_CONTRADICTS", "EVIDENCE_IRRELEVANT",
   "VERDICT_SET_MISMATCH", "FREETEXT_SCREENED", "MISSING_MUST_HAVE", "POSSIBLE_DUPLICATE"}

(* A candidate: the verdicts that count, and what they come to, if they do.*)
Judgment == [verdict : Verdicts, model_verdict : Verdicts, evidence : Evidence]
Bands == {"A", "B", "C", "D"}
Candidate ==
  [scoreable : BOOLEAN, tenths : 0..100 \cup {None}, band : Bands \cup {None},
   must : BOOLEAN, judged : {<<>>} \cup [Criteria -> Judgment],
   flags : SUBSET Flags, review : BOOLEAN]

ASSUME JudgingAssumption ==
  /\ IsFiniteSet(Criteria) /\ Criteria # {} /\ Criteria \subseteq Ids
  /\ MustHave \subseteq Criteria
  /\ Weight \in [Criteria -> 1..5]
  /\ Replies \subseteq Seq(Entry)
  /\ MaxRetries \in Nat
  /\ {High, Mid, Low} \subseteq Nat /\ TiesUp \subseteq Nat
  /\ None \notin ChildEnds \cup Candidate

VARIABLES
  stage,          \* where screen_one is
  child,          \* how the parser's process ended
  chat,           \* the state of the judging call
  reply,          \* the verdicts of the model
  flags, review,  \* the _Accumulator
  result          \* the candidate

vars == <<stage, child, chat, reply, flags, review, result>>

Stages == {"intake", "parse", "clean", "detect", "budget", "ask", "compare", "verify", "score"}
Ended == {"done", "raised"}
NoChat == [tries |-> 0, corrected |-> FALSE, tight |-> FALSE]

Init ==
  /\ stage = "intake" /\ child = None /\ chat = NoChat /\ reply = <<>>
  /\ flags = {} /\ review = FALSE /\ result = None

Cacheable(candidate) == candidate.flags \cap Transient = {}
-----------------------------------------------------------------------------
(* The checks of a reply.                                                   *)
IdsOf(r) == {r[i].id : i \in DOMAIN r}
Missing(r) == Criteria \ IdsOf(r)
Unexpected(r) == IdsOf(r) \ Criteria

(* Slip: a criterion judged twice is taken for one judged once.            *)
DuplicatedUnnoticed(r) == {}
Duplicated(r) == {id \in IdsOf(r) : \E i, j \in DOMAIN r : i # j /\ r[i].id = id /\ r[j].id = id}

Matches(r) == Missing(r) \cup Unexpected(r) \cup Duplicated(r) = {}

(* The entry verify_evidence reads for a criterion: the last one with its  *)
(* id, as a dict built from the list keeps it.                             *)
Returned(r, c) ==
  r[CHOOSE i \in DOMAIN r : r[i].id = c /\ \A j \in DOMAIN r : r[j].id = c => j <= i]

Supported(entry) == entry.verdict # "none"

EvidenceFlag(entry) ==
  CASE Supported(entry) /\ entry.evidence = "empty"    -> {"EVIDENCE_CONTRADICTS"}
    [] Supported(entry) /\ entry.evidence = "invented" -> {"EVIDENCE_UNVERIFIED"}
    [] Supported(entry) /\ entry.evidence = "offTopic" -> {"EVIDENCE_IRRELEVANT"}
    [] OTHER -> {}

(* Slip: the contradiction is flagged and the verdict stands.              *)
CreditedAsClaimed(entry) == entry.verdict

(* The verdict that counts: a claim with nothing to show is no support.    *)
Credited(entry) ==
  IF Supported(entry) /\ entry.evidence = "empty" THEN "none" ELSE entry.verdict

Judged(r) ==
  [c \in Criteria \cap IdsOf(r) |->
     [verdict |-> Credited(Returned(r, c)),
      model_verdict |-> Returned(r, c).verdict,
      evidence |-> Returned(r, c).evidence]]

EvidenceFlags(r) == UNION {EvidenceFlag(Returned(r, c)) : c \in Criteria \cap IdsOf(r)}
-----------------------------------------------------------------------------
(* The arithmetic, in tenths of a point.  Verdicts are worth halves, so    *)
(* 10 * earned / total points are 50 * Earned / TotalWeight tenths.        *)
Halves == [strong |-> 2, partial |-> 1, none |-> 0]
Earned(judged) == SumFunction([c \in DOMAIN judged |-> Halves[judged[c].verdict] * Weight[c]])
TotalWeight == SumFunction(Weight)

Rounded(n, d) ==
  LET tenths == n \div d
      rest == 2 * (n % d)
  IN  IF rest > d \/ (rest = d /\ tenths \in TiesUp) THEN tenths + 1 ELSE tenths

(* Slip: the weights that found support are the denominator.               *)
TenthsOfReturned(judged) ==
  LET found == {c \in DOMAIN judged : judged[c].verdict # "none"}
  IN  IF found = {} THEN 0 ELSE Rounded(50 * Earned(judged), SumFunctionOnSet(Weight, found))

Tenths(judged) == Rounded(50 * Earned(judged), TotalWeight)

Band(tenths) ==
  IF tenths >= High THEN "A"
  ELSE IF tenths >= Mid THEN "B"
  ELSE IF tenths >= Low THEN "C" ELSE "D"

MustHavesAt(verdict, judged) == {c \in MustHave \cap DOMAIN judged : judged[c].verdict = verdict}
MustHavesMet(judged) == MustHavesAt("none", judged) = {}

(* Slip: half a requirement is a requirement met.                          *)
HalfMetIgnored(judged) == FALSE

(* A half-met must-have needs a person; an unmet one is an outcome.        *)
HalfMet(judged) == MustHavesMet(judged) /\ MustHavesAt("partial", judged) # {}

ScoreFlags(judged) == IF MustHavesMet(judged) THEN {} ELSE {"MISSING_MUST_HAVE"}

Scored(judged, marks, flagged) ==
  [scoreable |-> TRUE, tenths |-> Tenths(judged), band |-> Band(Tenths(judged)),
   must |-> MustHavesMet(judged), judged |-> judged, flags |-> marks, review |-> flagged]

(* rank, over candidates by file name.                                     *)
Ahead(pool, m, n) ==
  \/ pool[m].tenths > pool[n].tenths
  \/ pool[m].tenths = pool[n].tenths /\ m < n

Rank(pool) ==
  LET Sorted(names) ==
        CHOOSE list \in SetToSeqs(names) :
          \A i, j \in DOMAIN list : i < j => Ahead(pool, list[i], list[j])
      scoreable == {n \in DOMAIN pool : pool[n].scoreable}
  IN  [meets   |-> Sorted({n \in scoreable : pool[n].must}),
       missing |-> Sorted({n \in scoreable : ~pool[n].must}),
       needs_review |-> DOMAIN pool \ scoreable]
-----------------------------------------------------------------------------
(* The stages.                                                             *)
(* Slip: a failure is a score of nothing.                                  *)
FailureAsZero(marks, judged) ==
  [scoreable |-> FALSE, tenths |-> 0, band |-> "D", must |-> FALSE,
   judged |-> judged, flags |-> marks, review |-> TRUE]

Failure(marks, judged) ==
  [scoreable |-> FALSE, tenths |-> None, band |-> None, must |-> FALSE,
   judged |-> judged, flags |-> marks, review |-> TRUE]

(* Slip: the flags gathered before the stage that failed are dropped.      *)
UnscoreableAlone(found, judged) ==
  /\ stage' = "done"
  /\ flags' = found /\ review' = TRUE
  /\ result' = Failure(flags', judged)

Unscoreable(found, judged) ==
  /\ stage' = "done"
  /\ flags' = flags \cup found /\ review' = TRUE
  /\ result' = Failure(flags', judged)

Notice(found, person, next) ==
  /\ stage' = next
  /\ flags' = flags \cup found /\ review' = (review \/ person)
  /\ UNCHANGED result

Validate ==
  /\ stage = "intake"
  /\ \/ Notice({}, FALSE, "parse")
     \/ Unscoreable({"INPUT_REJECTED"}, <<>>)
  /\ UNCHANGED <<child, chat, reply>>

(* Slip: output the parent cannot read is read as an empty document.       *)
CrashedIfKilled == {"died"}
Crashed == {"died", "garbled"}

ParserFlag(end) ==
  CASE end \in {"deadline", "limit"} -> "PARSER_TIMEOUT"
    [] end \in Crashed -> "PARSER_CRASHED"
    [] end = "long" -> "INPUT_REJECTED"
    [] OTHER -> "EXTRACTION_FAILED"

Parse ==
  /\ stage = "parse"
  /\ child' \in ChildEnds
  /\ IF child' = "text" THEN Notice({}, FALSE, "clean")
                        ELSE Unscoreable({ParserFlag(child')}, <<>>)
  /\ UNCHANGED <<chat, reply>>

(* What is stripped may be all there was.                                  *)
Sanitize ==
  /\ stage = "clean"
  /\ \/ Notice({}, FALSE, "detect")
     \/ Notice({"SANITIZED_TEXT"}, FALSE, "detect")
     \/ Unscoreable({"SANITIZED_TEXT", "EXTRACTION_FAILED"}, <<>>)
  /\ UNCHANGED <<child, chat, reply>>

DetectInjection ==
  /\ stage = "detect"
  /\ \/ Notice({}, FALSE, "budget")
     \/ Notice({"SUSPECTED_INJECTION"}, TRUE, "budget")
  /\ UNCHANGED <<child, chat, reply>>

(* A prompt that fits may fit with less room than the correction needs.    *)
CheckBudget ==
  /\ stage = "budget"
  /\ \/ /\ Notice({}, FALSE, "ask")
        /\ \E tight \in BOOLEAN : chat' = [NoChat EXCEPT !.tight = tight]
     \/ Unscoreable({"BUDGET_EXCEEDED"}, <<>>) /\ UNCHANGED chat
  /\ UNCHANGED <<child, reply>>

(* Slip: a failed call is made again for ever.                             *)
CallFailsAgain ==
  /\ stage = "ask"
  /\ chat' = [chat EXCEPT !.tries = (@ + 1) % (MaxRetries + 1)]
  /\ UNCHANGED <<stage, child, reply, flags, review, result>>

(* The call fails and is made again, after a pause: at most MaxRetries     *)
(* times.  Malformed bodies use the same counter, and only its first round.*)
CallFails ==
  /\ stage = "ask" /\ chat.tries < MaxRetries
  /\ chat' = [chat EXCEPT !.tries = @ + 1]
  /\ UNCHANGED <<stage, child, reply, flags, review, result>>

(* The corrected prompt is longer than the one check_budget measured.      *)
Overflows == chat.corrected /\ chat.tight

Malformed ==
  /\ stage = "ask" /\ ~Overflows
  /\ chat.tries = 0 /\ MaxRetries > 0
  /\ chat' = [chat EXCEPT !.tries = 1]
  /\ UNCHANGED <<stage, child, reply, flags, review, result>>

Answer ==
  /\ stage = "ask" /\ ~Overflows
  /\ stage' = "compare"
  /\ reply' \in Replies
  /\ UNCHANGED <<child, chat, flags, review, result>>

(* judge_resume: a reply with the wrong ids is asked for once more.        *)
Compare ==
  /\ stage = "compare"
  /\ \/ /\ Matches(reply)
        /\ Notice({}, FALSE, "verify")
        /\ chat' = NoChat
     \/ /\ ~Matches(reply) /\ ~chat.corrected
        /\ Notice({}, FALSE, "ask")
        /\ chat' = [tries |-> 0, corrected |-> TRUE, tight |-> chat.tight]
     \/ /\ ~Matches(reply) /\ chat.corrected
        /\ Unscoreable({"VERDICT_SET_MISMATCH"}, <<>>)
        /\ chat' = NoChat
  /\ UNCHANGED <<child, reply>>

(* The trace is written, the free text screened, the evidence checked.     *)
VerifyEvidence ==
  /\ stage = "verify"
  /\ \E screened \in {{}, {"FREETEXT_SCREENED"}} :
       LET found == screened \cup EvidenceFlags(reply)
       IN  IF "EVIDENCE_UNVERIFIED" \in found
             THEN Unscoreable(found, Judged(reply))
             ELSE Notice(found, EvidenceFlags(reply) # {}, "score")
  /\ UNCHANGED <<child, chat, reply>>

ComputeScore ==
  /\ stage = "score"
  /\ stage' = "done"
  /\ LET judged == Judged(reply)
     IN  /\ flags' = flags \cup ScoreFlags(judged)
         /\ review' = (review \/ HalfMet(judged))
         /\ result' = Scored(judged, flags', review')
  /\ UNCHANGED <<child, chat, reply>>

(* Anything else that goes wrong leaves screen_one as an exception: a file *)
(* or a fork that fails, a token count, the last retry, a truncated or     *)
(* ill-typed body, an overflow, a trace that cannot be written.  The       *)
(* worker fails the job; the flags are lost with the accumulator.          *)
Raise ==
  /\ stage \in {"intake", "parse", "budget", "ask", "verify"}
  /\ stage' = "raised"
  /\ chat' = NoChat
  /\ UNCHANGED <<child, reply, flags, review, result>>

(* The worker's next job, or the same one again.                           *)
Again ==
  /\ stage \in Ended
  /\ stage' = "intake" /\ child' = None /\ chat' = NoChat /\ reply' = <<>>
  /\ flags' = {} /\ review' = FALSE /\ result' = None

Step ==
  \/ Validate \/ Parse \/ Sanitize \/ DetectInjection \/ CheckBudget
  \/ CallFails \/ Malformed \/ Answer \/ Compare
  \/ VerifyEvidence \/ ComputeScore \/ Raise

Next == Step \/ Again

(* screen_one runs in the worker's one thread, and every call it waits for *)
(* has a time limit: parse_timeout_s, request_timeout_s.                   *)
Spec == Init /\ [][Next]_vars /\ WF_vars(Step)
-----------------------------------------------------------------------------
(* Types.                                                                  *)
TypeOK ==
  /\ stage \in Stages \cup Ended
  /\ child \in ChildEnds \cup {None}
  /\ chat \in [tries : 0..MaxRetries, corrected : BOOLEAN, tight : BOOLEAN]
  /\ reply \in Seq(Entry)
  /\ flags \subseteq Flags /\ review \in BOOLEAN
  /\ result \in Candidate \cup {None}
  /\ (stage = "done") = (result # None)
  /\ result # None =>
       /\ result.flags = flags
       /\ result.tenths \in IF result.scoreable THEN 0..100 ELSE {None}
       /\ result.band \in IF result.scoreable THEN Bands ELSE {None}

(* A score rests on one verdict per criterion, the only one the model gave *)
(* for it, and never on more than was claimed: whatever a reply's list     *)
(* repeats, omits or invents, and however often it was asked for.          *)
JudgedOnce ==
  stage = "done" /\ result.scoreable =>
    /\ DOMAIN result.judged = Criteria
    /\ \A c \in Criteria :
         /\ \A i \in DOMAIN reply :
              reply[i].id = c => reply[i].verdict = result.judged[c].model_verdict
         /\ result.judged[c].verdict \in {result.judged[c].model_verdict, "none"}
    /\ IdsOf(reply) = Criteria

(* A number never rests on support that nothing in the resume bears out.   *)
NothingUnsupportedIsRanked ==
  stage = "done" /\ result.scoreable =>
    \A c \in DOMAIN result.judged :
      result.judged[c].verdict # "none" => result.judged[c].evidence \in {"offTopic", "apt"}

(* A candidate nobody is asked to look at has nothing to look at: it has a *)
(* score, every verdict is the model's own, every claim quotes the resume  *)
(* on the subject, no instruction was found in it, and no must-have is     *)
(* half met without another one deciding the matter.                       *)
SilenceMeansSound ==
  stage = "done" /\ ~result.review =>
    /\ result.scoreable
    /\ "SUSPECTED_INJECTION" \notin result.flags
    /\ \A c \in Criteria :
         LET j == result.judged[c]
         IN  /\ j.verdict = j.model_verdict
             /\ j.verdict # "none" => j.evidence = "apt"
             /\ c \in MustHave /\ j.verdict = "partial" =>
                  \E d \in MustHave : result.judged[d].verdict = "none"

(* What a stage has noticed stays noticed until the candidate is filed.    *)
NoSignalIsLost ==
  [][stage \notin Ended =>
       /\ flags \subseteq flags'
       /\ review => review'
       /\ stage' = "done" => flags \subseteq result'.flags /\ (review => result'.review)]_vars

(* What is remembered against a file is what was reported of it, and all   *)
(* that was: a parser's process that ended without a report is asked again *)
(* for the next run, and one that lived to report is believed for good, in *)
(* its own trouble ("unable") as in the file's ("refused").                *)
OnlyReportsAreCached ==
  stage = "done" => (Cacheable(result) <=> child \notin Unreported)

(* A candidate who lost one verdict, or part of it, never fares better for *)
(* it, whatever the weights round to: not in the score, the band, the      *)
(* partition, or the order of a ranking beyond its tie-break by name.      *)
Worse == [strong |-> {"partial", "none"}, partial |-> {"none"}, none |-> {}]

LosingNeverHelps ==
  stage = "done" /\ result.scoreable =>
    \A c \in DOMAIN result.judged : \A verdict \in Worse[result.judged[c].verdict] :
      LET less  == Scored([result.judged EXCEPT ![c].verdict = verdict], {}, FALSE)
          board == Rank(<<less, result>>)
      IN  /\ less.tenths <= result.tenths
          /\ less.band = "A" => result.band = "A"
          /\ result.band = "D" => less.band = "D"
          /\ less.must => result.must
          /\ less.tenths < result.tenths => <<1, 2>> \notin {board.meets, board.missing}
          /\ board.needs_review = {}

(* Every resume is done with: no chain of failed calls, malformed bodies   *)
(* and corrections goes on for ever.                                       *)
EveryScreeningEnds == stage = "intake" ~> stage \in Ended
=============================================================================
