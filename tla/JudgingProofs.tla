--------------------------- MODULE JudgingProofs ---------------------------
(***************************************************************************)
(* Proofs about Judging, for any rubric, any replies and any thresholds.   *)
(***************************************************************************)
EXTENDS Judging, FiniteFacts, TLAPS

(* The reply under judgment is one verdict per criterion; past the checks  *)
(* no quote in it is invented, and whatever they found asks for a person.  *)
ReplyInv ==
  /\ reply \in Seq(Entry)
  /\ stage \in {"verify", "score"} => Matches(reply)
  /\ stage = "score" =>
       /\ "EVIDENCE_UNVERIFIED" \notin EvidenceFlags(reply)
       /\ EvidenceFlags(reply) # {} => review

(* A suspected instruction asks for a person, whatever comes after it.     *)
InjectionInv == "SUSPECTED_INJECTION" \in flags => review

(* Nothing follows a parse without a report, and nothing but one is        *)
(* flagged as what may pass.                                               *)
ChildInv ==
  /\ child \in Unreported => stage = "done"
  /\ flags \cap Transient # {} => child \in Unreported

IInv ==
  /\ ReplyInv /\ InjectionInv /\ ChildInv
  /\ JudgedOnce /\ NothingUnsupportedIsRanked /\ SilenceMeansSound /\ OnlyReportsAreCached

(* A reply that matches the rubric has one entry per criterion, the one    *)
(* the checks read.                                                        *)
LEMMA MatchingReply ==
  ASSUME NEW r \in Seq(Entry), Matches(r)
  PROVE  /\ IdsOf(r) = Criteria
         /\ \A c \in Criteria : Returned(r, c) \in Entry
         /\ \A c \in Criteria : \A i \in DOMAIN r : r[i].id = c => r[i] = Returned(r, c)
  <1>1. IdsOf(r) = Criteria
    BY DEF Matches, Missing, Unexpected
  <1>2. ASSUME NEW i \in DOMAIN r, NEW j \in DOMAIN r, r[i].id = r[j].id
        PROVE  i = j
    <2>1. r[i].id \in IdsOf(r)
      BY DEF IdsOf
    <2>2. r[i].id \notin Duplicated(r)
      BY DEF Matches
    <2> QED
      BY <1>2, <2>1, <2>2 DEF Duplicated
  <1>3. ASSUME NEW c \in Criteria, NEW i \in DOMAIN r, r[i].id = c
        PROVE  r[i] = Returned(r, c)
    <2> DEFINE IsLast(k) == k \in DOMAIN r /\ r[k].id = c /\ \A j \in DOMAIN r : r[j].id = c => j <= k
    <2>1. DOMAIN r \subseteq Int
      OBVIOUS
    <2>2. IsLast(i)
      BY <1>2, <1>3, <2>1
    <2>3. \A k \in DOMAIN r : IsLast(k) => k = i
      BY <1>2, <1>3
    <2> QED
      BY <2>2, <2>3 DEF Returned
  <1>4. ASSUME NEW c \in Criteria
        PROVE  Returned(r, c) \in Entry
    <2>1. PICK i \in DOMAIN r : r[i].id = c
      BY <1>1 DEF IdsOf
    <2>2. r[i] \in Entry
      OBVIOUS
    <2> QED
      BY <1>3, <2>1, <2>2
  <1> QED
    BY <1>1, <1>3, <1>4

(* What the evidence flags of a matching reply say of each verdict.        *)
LEMMA FlagsOfMatching ==
  ASSUME NEW r \in Seq(Entry), Matches(r)
  PROVE  /\ DOMAIN Judged(r) = Criteria
         /\ EvidenceFlags(r) \subseteq
              {"EVIDENCE_CONTRADICTS", "EVIDENCE_UNVERIFIED", "EVIDENCE_IRRELEVANT"}
         /\ \A c \in Criteria :
              /\ Judged(r)[c].model_verdict = Returned(r, c).verdict
              /\ Judged(r)[c].verdict \in {Returned(r, c).verdict, "none"}
              /\ "EVIDENCE_UNVERIFIED" \notin EvidenceFlags(r) /\ Judged(r)[c].verdict # "none" =>
                   Judged(r)[c].evidence \in {"offTopic", "apt"}
              /\ EvidenceFlags(r) = {} =>
                   /\ Judged(r)[c].verdict = Returned(r, c).verdict
                   /\ Judged(r)[c].verdict # "none" => Judged(r)[c].evidence = "apt"
  <1> USE MatchingReply
  <1>1. Criteria \cap IdsOf(r) = Criteria
    OBVIOUS
  <1>2. DOMAIN Judged(r) = Criteria
    BY <1>1 DEF Judged
  <1>3. ASSUME NEW c \in Criteria
        PROVE  EvidenceFlag(Returned(r, c)) \subseteq EvidenceFlags(r)
    BY <1>1 DEF EvidenceFlags
  <1>4. EvidenceFlags(r) \subseteq
          {"EVIDENCE_CONTRADICTS", "EVIDENCE_UNVERIFIED", "EVIDENCE_IRRELEVANT"}
    BY <1>1 DEF EvidenceFlags, EvidenceFlag
  <1>5. ASSUME NEW c \in Criteria
        PROVE  /\ Judged(r)[c].model_verdict = Returned(r, c).verdict
               /\ Judged(r)[c].verdict = Credited(Returned(r, c))
               /\ Judged(r)[c].evidence = Returned(r, c).evidence
    BY <1>1 DEF Judged
  <1>6. ASSUME NEW c \in Criteria
        PROVE  /\ Judged(r)[c].verdict \in {Returned(r, c).verdict, "none"}
               /\ "EVIDENCE_UNVERIFIED" \notin EvidenceFlags(r) /\ Judged(r)[c].verdict # "none" =>
                    Judged(r)[c].evidence \in {"offTopic", "apt"}
               /\ EvidenceFlags(r) = {} =>
                    /\ Judged(r)[c].verdict = Returned(r, c).verdict
                    /\ Judged(r)[c].verdict # "none" => Judged(r)[c].evidence = "apt"
    <2>1. Returned(r, c).evidence \in {"empty", "invented", "offTopic", "apt"}
      BY DEF Entry, Evidence
    <2> QED
      BY <1>3, <1>5, <2>1 DEF Credited, EvidenceFlag, Supported
  <1> QED
    BY <1>2, <1>4, <1>5, <1>6

(* The initial states satisfy the invariant.                               *)
LEMMA InvInit == Init => IInv
  BY JudgingAssumption
  DEF Init, IInv, ChildEnds, ReplyInv, InjectionInv, ChildInv, JudgedOnce, NothingUnsupportedIsRanked,
     SilenceMeansSound, OnlyReportsAreCached

(* A candidate the system could not judge satisfies every property: it is  *)
(* not scoreable and asks for a person.                                    *)
LEMMA UnscoreableIsSafe ==
  ASSUME NEW found, NEW judged, Unscoreable(found, judged)
  PROVE  /\ JudgedOnce' /\ NothingUnsupportedIsRanked' /\ SilenceMeansSound'
         /\ InjectionInv'
  BY DEF Unscoreable, Failure, JudgedOnce, NothingUnsupportedIsRanked, SilenceMeansSound,
     InjectionInv

(* A stage after the parse that ends the screening keeps what the parser's *)
(* process reported.                                                       *)
LEMMA LaterStageKeepsReport ==
  ASSUME ChildInv, stage # "done", UNCHANGED child, stage' = "done", flags' \cap Transient = {},
         result'.flags = flags'
  PROVE  ChildInv' /\ OnlyReportsAreCached'
  BY DEF ChildInv, OnlyReportsAreCached, Cacheable

(* The stages before the judging call read no reply and file no score.     *)
LEMMA EarlyStep ==
  ASSUME IInv, Validate \/ Parse \/ Sanitize \/ DetectInjection \/ CheckBudget
  PROVE  IInv'
  <1> USE DEF IInv, ReplyInv, ChildInv, Matches, EvidenceFlags
  <1>1. ASSUME NEW found, NEW person, NEW next, Notice(found, person, next),
               stage # "done", next \in {"parse", "clean", "detect", "budget", "ask"},
               "SUSPECTED_INJECTION" \in found => person, UNCHANGED reply,
               child' \notin Unreported, found \cap Transient = {}
        PROVE  IInv'
    BY <1>1 DEF Notice, InjectionInv, JudgedOnce, NothingUnsupportedIsRanked, SilenceMeansSound,
       OnlyReportsAreCached
  <1>2. ASSUME NEW found, NEW judged, Unscoreable(found, judged), UNCHANGED reply,
               stage # "done", child' \in Unreported <=> found \cap Transient # {}
        PROVE  IInv'
    <2>1. stage' = "done" /\ flags' = flags \cup found /\ result'.flags = flags'
      BY <1>2 DEF Unscoreable, Failure
    <2>2. flags \cap Transient = {}
      BY <1>2
    <2>3. ReplyInv' /\ ChildInv'
      BY <1>2, <2>1, <2>2
    <2>4. OnlyReportsAreCached'
      BY <1>2, <2>1, <2>2 DEF OnlyReportsAreCached, Cacheable
    <2> QED
      BY <1>2, <2>3, <2>4, UnscoreableIsSafe
  <1>3. CASE Validate
    BY <1>1, <1>2, <1>3 DEF Validate, Transient
  <1>4. CASE Parse
    <2>1. CASE child' = "text"
      BY <1>1, <1>4, <2>1 DEF Parse, Unreported
    <2>2. CASE child' # "text"
      <3>1. child' \in Unreported <=> {ParserFlag(child')} \cap Transient # {}
        BY DEF ParserFlag, Unreported, Crashed, Transient
      <3> QED
        BY <1>2, <1>4, <2>2, <3>1 DEF Parse
    <2> QED
      BY <2>1, <2>2
  <1>5. CASE Sanitize
    BY <1>1, <1>2, <1>5 DEF Sanitize, Transient
  <1>6. CASE DetectInjection
    BY <1>1, <1>6 DEF DetectInjection, Transient
  <1>7. CASE CheckBudget
    BY <1>1, <1>2, <1>7 DEF CheckBudget, Transient
  <1> QED
    BY <1>3, <1>4, <1>5, <1>6, <1>7

(* The judging call passes on only a reply that matches.                   *)
LEMMA CallStep ==
  ASSUME IInv, CallFails \/ Malformed \/ Answer \/ Compare
  PROVE  IInv'
  <1> USE DEF IInv, ReplyInv, ChildInv
  <1>1. CASE CallFails \/ Malformed
    BY <1>1 DEF CallFails, Malformed, InjectionInv, JudgedOnce, NothingUnsupportedIsRanked,
       SilenceMeansSound, OnlyReportsAreCached
  <1>2. CASE Answer
    BY <1>2, JudgingAssumption DEF Answer, InjectionInv, JudgedOnce, NothingUnsupportedIsRanked,
       SilenceMeansSound, OnlyReportsAreCached
  <1>3. CASE Compare
    <2>1. CASE Unscoreable({"VERDICT_SET_MISMATCH"}, <<>>)
      <3>1. stage = "compare" /\ stage' = "done" /\ UNCHANGED <<reply, child>>
        BY <1>3, <2>1 DEF Compare, Unscoreable
      <3>2. flags' = flags \cup {"VERDICT_SET_MISMATCH"} /\ result'.flags = flags'
        BY <2>1 DEF Unscoreable, Failure
      <3>3. flags' \cap Transient = {}
        BY <3>1, <3>2 DEF Transient
      <3>4. ChildInv' /\ OnlyReportsAreCached'
        BY <3>1, <3>2, <3>3, LaterStageKeepsReport
      <3> QED
        BY <2>1, <3>1, <3>4, UnscoreableIsSafe
    <2>2. CASE ~Unscoreable({"VERDICT_SET_MISMATCH"}, <<>>)
      <3>1. /\ stage' \in {"ask", "verify"} /\ UNCHANGED <<reply, child>>
            /\ stage' = "verify" => Matches(reply)
            /\ flags' = flags /\ (review => review')
        BY <1>3, <2>2 DEF Compare, Notice
      <3>2. child' \notin Unreported
        BY <1>3, <3>1 DEF Compare
      <3>3. ReplyInv'
        <4>1. Matches(reply)' = Matches(reply)
          BY <3>1 DEF Matches, Missing, Unexpected, Duplicated, IdsOf
        <4> QED
          BY <3>1, <4>1
      <3> QED
        BY <3>1, <3>2, <3>3 DEF InjectionInv, JudgedOnce, NothingUnsupportedIsRanked,
           SilenceMeansSound, OnlyReportsAreCached
    <2> QED
      BY <2>1, <2>2
  <1> QED
    BY <1>1, <1>2, <1>3

(* Verifying the evidence escalates whatever it cannot vouch for.          *)
LEMMA VerifyStep ==
  ASSUME IInv, VerifyEvidence
  PROVE  IInv'
  <1> USE DEF IInv, ReplyInv, ChildInv
  <1>1. reply \in Seq(Entry) /\ Matches(reply) /\ UNCHANGED reply /\ child' \notin Unreported
    BY DEF VerifyEvidence
  <1>2. PICK screened \in {{}, {"FREETEXT_SCREENED"}} :
          LET found == screened \cup EvidenceFlags(reply)
          IN  IF "EVIDENCE_UNVERIFIED" \in found
                THEN Unscoreable(found, Judged(reply))
                ELSE Notice(found, EvidenceFlags(reply) # {}, "score")
    BY DEF VerifyEvidence
  <1> DEFINE found == screened \cup EvidenceFlags(reply)
  <1>3. stage = "verify" /\ UNCHANGED child
    BY DEF VerifyEvidence
  <1>4. found \cap Transient = {}
    BY <1>1, FlagsOfMatching DEF Transient
  <1>5. flags \cap Transient = {}
    BY <1>3
  <1>6. CASE "EVIDENCE_UNVERIFIED" \in found
    <2>1. Unscoreable(found, Judged(reply))
      BY <1>2, <1>6
    <2>2. stage' = "done" /\ flags' = flags \cup found /\ result'.flags = flags'
      BY <2>1 DEF Unscoreable, Failure
    <2>3. flags' \cap Transient = {}
      BY <1>4, <1>5, <2>2
    <2>4. ChildInv' /\ OnlyReportsAreCached'
      BY <1>3, <2>2, <2>3, LaterStageKeepsReport
    <2>5. JudgedOnce' /\ NothingUnsupportedIsRanked' /\ SilenceMeansSound' /\ InjectionInv'
      BY <2>1, UnscoreableIsSafe
    <2> QED
      BY <1>1, <2>2, <2>4, <2>5
  <1>7. CASE "EVIDENCE_UNVERIFIED" \notin found
    <2>1. /\ stage' = "score" /\ flags' = flags \cup found
          /\ review' = (review \/ EvidenceFlags(reply) # {})
      BY <1>2, <1>7 DEF Notice
    <2>2. "SUSPECTED_INJECTION" \notin found
      BY <1>1, FlagsOfMatching
    <2>3. Matches(reply)' /\ EvidenceFlags(reply)' = EvidenceFlags(reply)
      <3>1. reply' = reply /\ Matches(reply)
        BY <1>1
      <3>2. Matches(reply)' = Matches(reply)
        BY <3>1 DEF Matches, Missing, Unexpected, Duplicated, IdsOf
      <3>3. EvidenceFlags(reply)' = EvidenceFlags(reply)
        BY <3>1 DEF EvidenceFlags, Returned, IdsOf
      <3> QED
        BY <3>1, <3>2, <3>3
    <2>4. ReplyInv' /\ InjectionInv'
      BY <1>1, <1>7, <2>1, <2>2, <2>3 DEF InjectionInv
    <2>5. flags' \cap Transient = {}
      BY <1>4, <1>5, <2>1
    <2>6. ChildInv'
      BY <1>1, <2>5
    <2> QED
      BY <2>1, <2>4, <2>6 DEF JudgedOnce, NothingUnsupportedIsRanked, SilenceMeansSound,
         OnlyReportsAreCached
  <1> QED
    BY <1>6, <1>7

(* The score is the arithmetic of verified verdicts.                       *)
LEMMA ScoreStep ==
  ASSUME IInv, ComputeScore
  PROVE  IInv'
  <1> USE DEF IInv, ReplyInv, ChildInv
  <1>1. /\ reply \in Seq(Entry) /\ Matches(reply) /\ UNCHANGED <<reply, child>>
        /\ "EVIDENCE_UNVERIFIED" \notin EvidenceFlags(reply)
        /\ EvidenceFlags(reply) # {} => review
        /\ child \notin Unreported /\ stage' = "done"
    BY DEF ComputeScore
  <1>2. /\ flags' = flags \cup ScoreFlags(Judged(reply))
        /\ review' = (review \/ HalfMet(Judged(reply)))
        /\ result'.scoreable /\ result'.judged = Judged(reply)
        /\ result'.flags = flags' /\ result'.review = review'
    BY DEF ComputeScore, Scored
  <1>3. InjectionInv'
    BY <1>2 DEF InjectionInv, ScoreFlags
  <1>4. JudgedOnce'
    <2>1. IdsOf(reply)' = Criteria
      BY <1>1, MatchingReply DEF IdsOf
    <2>2. ASSUME NEW c \in Criteria, NEW i \in DOMAIN reply, reply[i].id = c
          PROVE  reply[i].verdict = Judged(reply)[c].model_verdict
      BY <1>1, <2>2, MatchingReply, FlagsOfMatching
    <2>3. \A c \in Criteria : Judged(reply)[c].verdict \in {Judged(reply)[c].model_verdict, "none"}
      BY <1>1, FlagsOfMatching
    <2>4. DOMAIN Judged(reply) = Criteria
      BY <1>1, FlagsOfMatching
    <2> QED
      BY <1>1, <1>2, <2>1, <2>2, <2>3, <2>4 DEF JudgedOnce
  <1>5. NothingUnsupportedIsRanked'
    BY <1>1, <1>2, FlagsOfMatching DEF NothingUnsupportedIsRanked
  <1>6. SilenceMeansSound'
    <2> SUFFICES ASSUME ~review, ~HalfMet(Judged(reply))
                 PROVE  /\ "SUSPECTED_INJECTION" \notin flags'
                        /\ \A c \in Criteria :
                             LET j == Judged(reply)[c]
                             IN  /\ j.verdict = j.model_verdict
                                 /\ j.verdict # "none" => j.evidence = "apt"
                                 /\ c \in MustHave /\ j.verdict = "partial" =>
                                      \E d \in MustHave : Judged(reply)[d].verdict = "none"
      BY <1>2 DEF SilenceMeansSound
    <2>1. "SUSPECTED_INJECTION" \notin flags'
      BY <1>2 DEF InjectionInv, ScoreFlags
    <2>2. \A c \in Criteria :
            /\ Judged(reply)[c].verdict = Judged(reply)[c].model_verdict
            /\ Judged(reply)[c].verdict # "none" => Judged(reply)[c].evidence = "apt"
      BY <1>1, FlagsOfMatching
    <2>3. ASSUME NEW c \in Criteria, c \in MustHave, Judged(reply)[c].verdict = "partial"
          PROVE  \E d \in MustHave : Judged(reply)[d].verdict = "none"
      <3>1. c \in MustHavesAt("partial", Judged(reply))
        BY <1>1, <2>3, FlagsOfMatching DEF MustHavesAt
      <3> QED
        BY <3>1 DEF HalfMet, MustHavesMet, MustHavesAt
    <2> QED
      BY <2>1, <2>2, <2>3
  <1>7. ChildInv' /\ OnlyReportsAreCached'
    <2>1. stage = "score" /\ UNCHANGED child
      BY DEF ComputeScore
    <2>2. flags' \cap Transient = {}
      BY <1>2, <2>1 DEF ScoreFlags, Transient
    <2> QED
      BY <1>1, <1>2, <2>1, <2>2, LaterStageKeepsReport
  <1> QED
    BY <1>1, <1>3, <1>4, <1>5, <1>6, <1>7

(* Every step preserves the invariant.                                     *)
LEMMA InvNext == IInv /\ [Next]_vars => IInv'
  <1> SUFFICES ASSUME IInv, [Next]_vars PROVE IInv'
    OBVIOUS
  <1>1. CASE Raise
    BY <1>1 DEF Raise, IInv, ReplyInv, ChildInv, InjectionInv, JudgedOnce,
       NothingUnsupportedIsRanked, SilenceMeansSound, OnlyReportsAreCached
  <1>2. CASE Again
    <2>1. Init'
      BY <1>2 DEF Again, Init
    <2> QED
      BY <2>1, JudgingAssumption DEF Init, IInv, ReplyInv, ChildInv, ChildEnds, InjectionInv,
         JudgedOnce, NothingUnsupportedIsRanked, SilenceMeansSound, OnlyReportsAreCached
  <1>3. CASE UNCHANGED vars
    <2>1. UNCHANGED <<stage, child, reply, flags, review, result>>
      BY <1>3 DEF vars
    <2>2. Matches(reply)' = Matches(reply)
      BY <2>1 DEF Matches, Missing, Unexpected, Duplicated, IdsOf
    <2>3. EvidenceFlags(reply)' = EvidenceFlags(reply)
      BY <2>1 DEF EvidenceFlags, Returned, IdsOf
    <2>4. ReplyInv'
      BY <2>1, <2>2, <2>3 DEF IInv, ReplyInv
    <2>5. JudgedOnce'
      BY <2>1 DEF IInv, JudgedOnce, IdsOf
    <2> QED
      BY <2>1, <2>4, <2>5 DEF IInv, ChildInv, InjectionInv, NothingUnsupportedIsRanked,
         SilenceMeansSound, OnlyReportsAreCached, Cacheable
  <1> QED
    BY <1>1, <1>2, <1>3, EarlyStep, CallStep, VerifyStep, ScoreStep DEF Next, Step

LEMMA Inductive == Spec => []IInv
  BY InvInit, InvNext, PTL DEF Spec

(* Whatever a model lists, a score rests on one verdict per criterion and  *)
(* on no more than was claimed (validate_verdicts, verify_evidence).       *)
THEOREM ScoreRestsOnOneVerdictEach == Spec => []JudgedOnce
  <1>1. IInv => JudgedOnce
    BY DEF IInv
  <1> QED
    BY <1>1, Inductive, PTL

(* No invented or empty quote earns anything (verify_evidence).            *)
THEOREM UnsupportedEarnsNothing == Spec => []NothingUnsupportedIsRanked
  <1>1. IInv => NothingUnsupportedIsRanked
    BY DEF IInv
  <1> QED
    BY <1>1, Inductive, PTL

(* A candidate not sent to a person is sound in every verdict (screen_one).*)
THEOREM NoReviewMeansSound == Spec => []SilenceMeansSound
  <1>1. IInv => SilenceMeansSound
    BY DEF IInv
  <1> QED
    BY <1>1, Inductive, PTL

(* What the parser's process reported of a file is cached, and a process   *)
(* that ended without a report leaves nothing to cache (_classify, parse). *)
THEOREM WhatIsReportedIsCached == Spec => []OnlyReportsAreCached
  <1>1. IInv => OnlyReportsAreCached
    BY DEF IInv
  <1> QED
    BY <1>1, Inductive, PTL

(* What one step may do to the flags of a screening under way.             *)
Kept ==
  stage \notin Ended =>
    /\ flags \subseteq flags'
    /\ review => review'
    /\ stage' = "done" => flags \subseteq result'.flags /\ (review => result'.review)

(* No stage drops what an earlier one has noticed (the _Accumulator).      *)
THEOREM SignalsSurvive == Spec => NoSignalIsLost
  <1>1. ASSUME NEW found, NEW person, NEW next, Notice(found, person, next), next # "done"
        PROVE  Kept
    BY <1>1 DEF Notice, Kept
  <1>2. ASSUME NEW found, NEW judged, Unscoreable(found, judged)
        PROVE  Kept
    BY <1>2 DEF Unscoreable, Failure, Kept
  <1>3. ASSUME Next PROVE Kept
    <2>1. CASE Validate \/ Parse
      BY <1>1, <1>2, <2>1 DEF Validate, Parse
    <2>2. CASE Sanitize \/ DetectInjection \/ CheckBudget
      BY <1>1, <1>2, <2>2 DEF Sanitize, DetectInjection, CheckBudget
    <2>3. CASE CallFails \/ Malformed \/ Answer \/ Raise
      BY <2>3 DEF CallFails, Malformed, Answer, Raise, Kept
    <2>4. CASE Compare
      BY <1>1, <1>2, <2>4 DEF Compare
    <2>5. CASE VerifyEvidence
      <3>1. PICK screened \in {{}, {"FREETEXT_SCREENED"}} :
              LET found == screened \cup EvidenceFlags(reply)
              IN  IF "EVIDENCE_UNVERIFIED" \in found
                    THEN Unscoreable(found, Judged(reply))
                    ELSE Notice(found, EvidenceFlags(reply) # {}, "score")
        BY <2>5 DEF VerifyEvidence
      <3> QED
        BY <1>1, <1>2, <3>1
    <2>6. CASE ComputeScore
      BY <2>6 DEF ComputeScore, Scored, Kept
    <2>7. CASE Again
      BY <2>7 DEF Again, Kept
    <2> QED
      BY <1>3, <2>1, <2>2, <2>3, <2>4, <2>5, <2>6, <2>7 DEF Next, Step
  <1>4. [Next]_vars => [Kept]_vars
    BY <1>3
  <1> QED
    BY <1>4, PTL DEF Spec, NoSignalIsLost, Kept
-----------------------------------------------------------------------------
(* The arithmetic (compute_score).                                         *)

(* Division with a remainder, as Rounded uses it.                          *)
LEMMA Division ==
  ASSUME NEW n \in Nat, NEW d \in Nat \ {0}
  PROVE  /\ n \div d \in Nat /\ n % d \in 0..(d - 1)
         /\ n = d * (n \div d) + (n % d)
  <1> USE d \in Nat /\ d > 0
  <1>1. n \div d \in Nat
    OBVIOUS
  <1>2. n % d \in 0..(d - 1)
    OBVIOUS
  <1>3. n = d * (n \div d) + (n % d)
    OBVIOUS
  <1> QED
    BY <1>1, <1>2, <1>3

(* A quotient no larger means a rounded quotient no larger.                *)
LEMMA RoundedIsMonotone ==
  ASSUME NEW n \in Nat, NEW m \in Nat, NEW d \in Nat \ {0}, n <= m
  PROVE  Rounded(n, d) <= Rounded(m, d)
  <1> DEFINE q == n \div d
             p == m \div d
             a == n % d
             b == m % d
  <1>1. /\ q \in Nat /\ a \in 0..(d - 1) /\ n = d * q + a
        /\ p \in Nat /\ b \in 0..(d - 1) /\ m = d * p + b
    BY Division
  <1>2. /\ Rounded(n, d) = IF 2 * a > d \/ (2 * a = d /\ q \in TiesUp) THEN q + 1 ELSE q
        /\ Rounded(m, d) = IF 2 * b > d \/ (2 * b = d /\ p \in TiesUp) THEN p + 1 ELSE p
    BY DEF Rounded
  <1> HIDE DEF q, p, a, b
  <1>3. CASE q < p
    BY <1>1, <1>2, <1>3
  <1>4. CASE q = p
    <2>1. a <= b
      BY <1>1, <1>4
    <2> QED
      BY <1>1, <1>2, <1>4, <2>1
  <1>5. CASE q > p
    <2>1. PICK e \in Nat : q = p + 1 + e
      <3>1. q - p - 1 \in Nat
        BY <1>1, <1>5
      <3> QED
        BY <1>1, <3>1
    <2>2. d * q = d * p + d + d * e /\ d * e >= 0
      BY <1>1, <2>1
    <2> QED
      BY <1>1, <2>2
  <1> QED
    BY <1>1, <1>3, <1>4, <1>5

(* A number of tenths is at most 100 when the quotient is.                 *)
LEMMA RoundedIsBounded ==
  ASSUME NEW n \in Nat, NEW d \in Nat \ {0}, n <= 100 * d
  PROVE  Rounded(n, d) \in 0..100
  <1>1. Rounded(100 * d, d) = 100
    <2>1. (100 * d) \div d = 100
      OBVIOUS
    <2>2. (100 * d) % d = 0
      OBVIOUS
    <2> QED
      BY <2>1, <2>2 DEF Rounded
  <1>2. Rounded(n, d) <= 100
    BY <1>1, RoundedIsMonotone
  <1>3. Rounded(n, d) \in Nat
    BY Division DEF Rounded
  <1> QED
    BY <1>2, <1>3

(* The verdicts of a judgment of the whole rubric.                         *)
Judgments == [Criteria -> Verdicts]
VerdictsOf(judged) == [c \in DOMAIN judged |-> judged[c].verdict]

(* What each criterion earns, in half weights.                             *)
Earnings(judged) == [c \in Criteria |-> Halves[judged[c].verdict] * Weight[c]]

LEMMA EarningsAreNatural ==
  ASSUME NEW judged, VerdictsOf(judged) \in Judgments
  PROVE  /\ DOMAIN judged = Criteria
         /\ \A c \in Criteria : judged[c].verdict \in Verdicts
         /\ Earnings(judged) \in [Criteria -> Nat]
         /\ Earned(judged) = SumFunctionOnSet(Earnings(judged), Criteria)
  <1>1. DOMAIN judged = Criteria
    BY DEF VerdictsOf, Judgments
  <1>2. ASSUME NEW c \in Criteria PROVE judged[c].verdict \in Verdicts
    <2>1. VerdictsOf(judged)[c] = judged[c].verdict
      BY <1>1 DEF VerdictsOf
    <2> QED
      BY <2>1 DEF Judgments
  <1>3. ASSUME NEW c \in Criteria PROVE Halves[judged[c].verdict] * Weight[c] \in Nat
    <2>1. Halves[judged[c].verdict] \in {0, 1, 2} /\ Weight[c] \in Nat
      BY <1>2, JudgingAssumption DEF Halves, Verdicts
    <2> QED
      BY <2>1
  <1>4. Earnings(judged) \in [Criteria -> Nat]
    BY <1>3 DEF Earnings
  <1>5. Earned(judged) = SumFunctionOnSet(Earnings(judged), Criteria)
    <2>1. DOMAIN Earnings(judged) = Criteria
      BY DEF Earnings
    <2>2. Earned(judged) = SumFunction(Earnings(judged))
      BY <1>1 DEF Earned, Earnings
    <2> QED
      BY <2>1, <2>2 DEF SumFunction
  <1> QED
    BY <1>1, <1>2, <1>4, <1>5

(* There are points to be had, and no more than twice the weights of them. *)
LEMMA WeightIsPositive == TotalWeight \in Nat \ {0}
  <1>1. /\ IsFiniteSet(Criteria) /\ Criteria # {} /\ DOMAIN Weight = Criteria
        /\ Weight \in [Criteria -> Nat \ {0}]
    BY JudgingAssumption
  <1> QED
    BY <1>1, SumIsPositive DEF TotalWeight, SumFunction

LEMMA EarnedIsBounded ==
  ASSUME NEW judged, VerdictsOf(judged) \in Judgments
  PROVE  Earned(judged) \in Nat /\ Earned(judged) <= 2 * TotalWeight
  <1> DEFINE earnings == Earnings(judged)
  <1>1. /\ IsFiniteSet(Criteria) /\ DOMAIN Weight = Criteria
        /\ Weight \in [Criteria -> Nat]
    BY JudgingAssumption
  <1>2. earnings \in [Criteria -> Nat] /\ Earned(judged) = SumFunctionOnSet(earnings, Criteria)
    BY EarningsAreNatural
  <1>3. ASSUME NEW c \in Criteria PROVE earnings[c] <= 2 * Weight[c]
    <2>1. Halves[judged[c].verdict] \in {0, 1, 2} /\ Weight[c] \in Nat
      BY <1>1, EarningsAreNatural DEF Halves, Verdicts
    <2>2. earnings[c] = Halves[judged[c].verdict] * Weight[c]
      BY DEF Earnings
    <2> QED
      BY <2>1, <2>2
  <1>4. TotalWeight = SumFunctionOnSet(Weight, Criteria)
    BY <1>1 DEF TotalWeight, SumFunction
  <1> HIDE DEF earnings
  <1> QED
    BY <1>1, <1>2, <1>3, <1>4, SumIsNatural, SumIsBounded

(* Every score is between 0 and 10, on one decimal.                        *)
LEMMA ScoreIsInRange ==
  ASSUME NEW judged, VerdictsOf(judged) \in Judgments
  PROVE  Tenths(judged) \in 0..100
  <1>1. TotalWeight \in Nat \ {0} /\ Earned(judged) \in Nat /\ Earned(judged) <= 2 * TotalWeight
    BY WeightIsPositive, EarnedIsBounded
  <1>2. 50 * Earned(judged) \in Nat /\ 50 * Earned(judged) <= 100 * TotalWeight
    BY <1>1
  <1> QED
    BY <1>1, <1>2, RoundedIsBounded DEF Tenths

(* `less` says nothing better than `more` of any criterion.                *)
Weaker(less, more) ==
  \A c \in Criteria : Halves[less[c].verdict] <= Halves[more[c].verdict]

(* Nothing better means no higher a score, whatever the weights round to.  *)
LEMMA WeakerScoresNoMore ==
  ASSUME NEW less, VerdictsOf(less) \in Judgments,
         NEW more, VerdictsOf(more) \in Judgments, Weaker(less, more)
  PROVE  Tenths(less) <= Tenths(more)
  <1> DEFINE f == Earnings(less)
             h == Earnings(more)
  <1>1. /\ f \in [Criteria -> Nat] /\ Earned(less) = SumFunctionOnSet(f, Criteria)
        /\ h \in [Criteria -> Nat] /\ Earned(more) = SumFunctionOnSet(h, Criteria)
    BY EarningsAreNatural
  <1>2. ASSUME NEW c \in Criteria PROVE f[c] <= 1 * h[c]
    <2>1. /\ Halves[less[c].verdict] \in {0, 1, 2} /\ Halves[more[c].verdict] \in {0, 1, 2}
          /\ Weight[c] \in Nat
      <3>1. less[c].verdict \in Verdicts /\ more[c].verdict \in Verdicts
        BY EarningsAreNatural
      <3> QED
        BY <3>1, JudgingAssumption DEF Halves, Verdicts
    <2>2. Halves[less[c].verdict] <= Halves[more[c].verdict]
      BY DEF Weaker
    <2>3. /\ f[c] = Halves[less[c].verdict] * Weight[c]
          /\ h[c] = Halves[more[c].verdict] * Weight[c]
      BY DEF Earnings
    <2> QED
      BY <2>1, <2>2, <2>3
  <1>3. IsFiniteSet(Criteria)
    BY JudgingAssumption
  <1> HIDE DEF f, h
  <1>4. SumFunctionOnSet(f, Criteria) <= 1 * SumFunctionOnSet(h, Criteria)
    BY <1>1, <1>2, <1>3, SumIsBounded
  <1>5. Earned(less) \in Nat /\ Earned(more) \in Nat /\ Earned(less) <= Earned(more)
    BY <1>1, <1>3, <1>4, SumIsNatural
  <1>6. 50 * Earned(less) <= 50 * Earned(more)
    BY <1>5
  <1> QED
    BY <1>5, <1>6, WeightIsPositive, RoundedIsMonotone DEF Tenths
-----------------------------------------------------------------------------
(* Types.                                                                  *)

(* A reply that matches is judged on the whole rubric.                     *)
LEMMA JudgedIsComplete ==
  ASSUME NEW r \in Seq(Entry), Matches(r)
  PROVE  Judged(r) \in [Criteria -> Judgment]
  <1>1. Criteria \cap IdsOf(r) = Criteria
    BY MatchingReply
  <1>2. ASSUME NEW c \in Criteria
        PROVE  [verdict |-> Credited(Returned(r, c)), model_verdict |-> Returned(r, c).verdict,
                evidence |-> Returned(r, c).evidence] \in Judgment
    <2>1. Returned(r, c).verdict \in Verdicts /\ Returned(r, c).evidence \in Evidence
      BY MatchingReply DEF Entry
    <2>2. Credited(Returned(r, c)) \in Verdicts
      BY <2>1 DEF Credited, Verdicts
    <2> QED
      BY <2>1, <2>2 DEF Judgment
  <1> QED
    BY <1>1, <1>2 DEF Judged

LEMMA JudgmentsHaveVerdicts ==
  ASSUME NEW judged \in [Criteria -> Judgment]
  PROVE  VerdictsOf(judged) \in Judgments
  <1>1. \A c \in Criteria : judged[c].verdict \in Verdicts
    BY DEF Judgment
  <1> QED
    BY <1>1 DEF VerdictsOf, Judgments

(* Both ways of ending yield a candidate.                                  *)
LEMMA FailureIsCandidate ==
  ASSUME NEW marks \in SUBSET Flags, NEW judged \in {<<>>} \cup [Criteria -> Judgment]
  PROVE  /\ Failure(marks, judged) \in Candidate
         /\ ~Failure(marks, judged).scoreable /\ Failure(marks, judged).flags = marks
         /\ Failure(marks, judged).tenths = None /\ Failure(marks, judged).band = None
  BY DEF Failure, Candidate

LEMMA ScoredIsCandidate ==
  ASSUME NEW judged \in [Criteria -> Judgment], NEW marks \in SUBSET Flags,
         NEW flagged \in BOOLEAN
  PROVE  /\ Scored(judged, marks, flagged) \in Candidate
         /\ Scored(judged, marks, flagged).scoreable
         /\ Scored(judged, marks, flagged).flags = marks
         /\ Scored(judged, marks, flagged).tenths \in 0..100
         /\ Scored(judged, marks, flagged).band \in Bands
  <1>1. Tenths(judged) \in 0..100
    BY JudgmentsHaveVerdicts, ScoreIsInRange
  <1>2. Band(Tenths(judged)) \in Bands
    BY DEF Band, Bands
  <1>3. MustHavesMet(judged) \in BOOLEAN
    BY DEF MustHavesMet
  <1> QED
    BY <1>1, <1>2, <1>3 DEF Scored, Candidate

(* What is reported of a candidate with a score is its own arithmetic.     *)
ScoreInv ==
  stage = "done" /\ result.scoreable =>
    /\ result.judged \in [Criteria -> Judgment]
    /\ result.tenths = Tenths(result.judged) /\ result.must = MustHavesMet(result.judged)
    /\ result.band = Band(result.tenths)

TypeInv == TypeOK /\ ScoreInv

(* The three ways a stage leaves the candidate.                            *)
LEMMA EndsUnscoreable ==
  ASSUME TypeInv, NEW found \in SUBSET Flags, NEW judged \in {<<>>} \cup [Criteria -> Judgment],
         Unscoreable(found, judged), stage # "done",
         child' \in ChildEnds \cup {None}, reply' \in Seq(Entry),
         chat' \in [tries : 0..MaxRetries, corrected : BOOLEAN, tight : BOOLEAN]
  PROVE  TypeInv'
  <1>1. flags' \in SUBSET Flags /\ stage' = "done" /\ review' = TRUE
        /\ result' = Failure(flags', judged)
    BY DEF Unscoreable, TypeInv, TypeOK
  <1>2. /\ result' \in Candidate /\ ~result'.scoreable /\ result'.flags = flags'
        /\ result'.tenths = None /\ result'.band = None
    BY <1>1, FailureIsCandidate
  <1>3. result' # None
    BY <1>2, JudgingAssumption
  <1> QED
    BY <1>1, <1>2, <1>3 DEF TypeInv, TypeOK, ScoreInv, Ended

LEMMA GoesOn ==
  ASSUME TypeInv, stage # "done", stage' \in (Stages \cup Ended) \ {"done"},
         flags' \in SUBSET Flags, review' \in BOOLEAN, result' = result,
         child' \in ChildEnds \cup {None}, reply' \in Seq(Entry),
         chat' \in [tries : 0..MaxRetries, corrected : BOOLEAN, tight : BOOLEAN]
  PROVE  TypeInv'
  BY DEF TypeInv, TypeOK, ScoreInv

LEMMA TypeInit == Init => TypeInv
  <1> SUFFICES ASSUME Init PROVE TypeInv
    OBVIOUS
  <1>1. NoChat \in [tries : 0..MaxRetries, corrected : BOOLEAN, tight : BOOLEAN]
    BY JudgingAssumption DEF NoChat
  <1>2. stage \in Stages \cup Ended /\ stage # "done" /\ reply \in Seq(Entry)
    BY DEF Init, Stages
  <1> QED
    BY <1>1, <1>2 DEF Init, TypeInv, TypeOK, ScoreInv

LEMMA TypeStep == IInv /\ TypeInv /\ [Next]_vars => TypeInv'
  <1> SUFFICES ASSUME IInv, TypeInv, [Next]_vars PROVE TypeInv'
    OBVIOUS
  <1> DEFINE Chats == [tries : 0..MaxRetries, corrected : BOOLEAN, tight : BOOLEAN]
  <1>1. /\ chat \in Chats /\ NoChat \in Chats /\ reply \in Seq(Entry)
        /\ child \in ChildEnds \cup {None}
        /\ flags \in SUBSET Flags /\ review \in BOOLEAN
    BY JudgingAssumption DEF TypeInv, TypeOK, NoChat
  <1>2. ASSUME NEW found \in SUBSET Flags, NEW person \in BOOLEAN, NEW next,
               Notice(found, person, next), next \in Stages, stage # "done",
               child' \in ChildEnds \cup {None}, reply' = reply, chat' \in Chats
        PROVE  TypeInv'
    BY <1>1, <1>2, GoesOn DEF Notice, Stages
  <1>3. ASSUME NEW found \in SUBSET Flags, NEW judged \in {<<>>} \cup [Criteria -> Judgment],
               Unscoreable(found, judged), stage # "done",
               child' \in ChildEnds \cup {None}, reply' = reply, chat' \in Chats
        PROVE  TypeInv'
    BY <1>1, <1>3, EndsUnscoreable
  <1>4. \A end : {ParserFlag(end)} \in SUBSET Flags
    BY DEF ParserFlag, Flags, Transient
  <1>5. CASE Validate
    <2>1. {} \in SUBSET Flags /\ {"INPUT_REJECTED"} \in SUBSET Flags
      BY DEF Flags
    <2> QED
      BY <1>1, <1>2, <1>3, <1>5, <2>1 DEF Validate, Stages
  <1>6. CASE Parse
    BY <1>1, <1>2, <1>3, <1>4, <1>6 DEF Parse, Stages
  <1>7. CASE Sanitize
    <2>1. /\ {} \in SUBSET Flags /\ {"SANITIZED_TEXT"} \in SUBSET Flags
          /\ {"SANITIZED_TEXT", "EXTRACTION_FAILED"} \in SUBSET Flags
      BY DEF Flags
    <2> QED
      BY <1>1, <1>2, <1>3, <1>7, <2>1 DEF Sanitize, Stages
  <1>8. CASE DetectInjection
    <2>1. {} \in SUBSET Flags /\ {"SUSPECTED_INJECTION"} \in SUBSET Flags
      BY DEF Flags
    <2> QED
      BY <1>1, <1>2, <1>8, <2>1 DEF DetectInjection, Stages
  <1>9. CASE CheckBudget
    <2>1. {} \in SUBSET Flags /\ {"BUDGET_EXCEEDED"} \in SUBSET Flags
      BY DEF Flags
    <2>2. \A tight \in BOOLEAN : [NoChat EXCEPT !.tight = tight] \in Chats
      BY <1>1
    <2> QED
      BY <1>1, <1>2, <1>3, <1>9, <2>1, <2>2 DEF CheckBudget, Stages
  <1>10. CASE CallFails \/ Malformed
    <2>1. chat' \in Chats /\ stage = "ask"
      BY <1>1, <1>10, JudgingAssumption DEF CallFails, Malformed
    <2> QED
      BY <1>1, <1>10, <2>1, GoesOn DEF CallFails, Malformed, Stages
  <1>11. CASE Answer
    BY <1>1, <1>11, GoesOn, JudgingAssumption DEF Answer, Stages
  <1>12. CASE Compare
    <2>1. {} \in SUBSET Flags /\ {"VERDICT_SET_MISMATCH"} \in SUBSET Flags
      BY DEF Flags
    <2>2. [tries |-> 0, corrected |-> TRUE, tight |-> chat.tight] \in Chats
      BY <1>1, JudgingAssumption
    <2> QED
      BY <1>1, <1>2, <1>3, <1>12, <2>1, <2>2 DEF Compare, Stages
  <1>13. CASE VerifyEvidence
    <2>1. PICK screened \in {{}, {"FREETEXT_SCREENED"}} :
            LET found == screened \cup EvidenceFlags(reply)
            IN  IF "EVIDENCE_UNVERIFIED" \in found
                  THEN Unscoreable(found, Judged(reply))
                  ELSE Notice(found, EvidenceFlags(reply) # {}, "score")
      BY <1>13 DEF VerifyEvidence
    <2>2. Matches(reply) /\ stage = "verify" /\ UNCHANGED <<child, chat, reply>>
      BY <1>13 DEF VerifyEvidence, IInv, ReplyInv
    <2>3. screened \cup EvidenceFlags(reply) \in SUBSET Flags
      BY <1>1, <2>2, FlagsOfMatching DEF Flags
    <2>4. Judged(reply) \in [Criteria -> Judgment]
      BY <1>1, <2>2, JudgedIsComplete
    <2> QED
      BY <1>1, <1>2, <1>3, <2>1, <2>2, <2>3, <2>4 DEF Stages
  <1>14. CASE ComputeScore
    <2>1. Matches(reply) /\ stage' = "done" /\ UNCHANGED <<child, chat, reply>>
      BY <1>14 DEF ComputeScore, IInv, ReplyInv
    <2>2. Judged(reply) \in [Criteria -> Judgment]
      BY <1>1, <2>1, JudgedIsComplete
    <2>3. /\ flags' = flags \cup ScoreFlags(Judged(reply))
          /\ review' = (review \/ HalfMet(Judged(reply)))
          /\ result' = Scored(Judged(reply), flags', review')
      BY <1>14 DEF ComputeScore
    <2>4. flags' \in SUBSET Flags /\ review' \in BOOLEAN
      BY <1>1, <2>3 DEF ScoreFlags, Flags
    <2>5. /\ result' \in Candidate /\ result'.scoreable /\ result'.flags = flags'
          /\ result'.tenths \in 0..100 /\ result'.band \in Bands
      BY <2>2, <2>3, <2>4, ScoredIsCandidate
    <2>6. result' # None
      BY <2>5, JudgingAssumption
    <2>7. /\ result'.judged = Judged(reply) /\ result'.tenths = Tenths(Judged(reply))
          /\ result'.must = MustHavesMet(Judged(reply)) /\ result'.band = Band(result'.tenths)
      BY <2>3 DEF Scored
    <2>8. TypeOK'
      BY <1>1, <2>1, <2>4, <2>5, <2>6 DEF TypeOK, Ended
    <2>9. ScoreInv'
      BY <2>2, <2>7 DEF ScoreInv
    <2> QED
      BY <2>8, <2>9 DEF TypeInv
  <1>15. CASE Raise
    BY <1>1, <1>15, GoesOn DEF Raise, Ended
  <1>16. CASE Again
    <2>1. stage' \in Stages \cup Ended /\ stage' # "done" /\ reply' \in Seq(Entry)
      BY <1>16 DEF Again, Stages
    <2> QED
      BY <1>1, <1>16, <2>1 DEF Again, TypeInv, TypeOK, ScoreInv
  <1>17. CASE UNCHANGED vars
    BY <1>17 DEF vars, TypeInv, TypeOK, ScoreInv, Tenths, Earned, MustHavesMet, MustHavesAt
  <1> QED
    BY <1>5, <1>6, <1>7, <1>8, <1>9, <1>10, <1>11, <1>12, <1>13, <1>14, <1>15, <1>16, <1>17
    DEF Next, Step

LEMMA TypesHold == Spec => []TypeInv
  BY TypeInit, TypeStep, Inductive, PTL DEF Spec

(* A filed candidate is a well-formed one: it has a number between 0 and   *)
(* 10 and a band exactly if it is scoreable, and the very flags gathered   *)
(* on the way (compute_score, _unscoreable).                               *)
THEOREM TypeCorrect == Spec => []TypeOK
  <1>1. TypeInv => TypeOK
    BY DEF TypeInv
  <1> QED
    BY <1>1, TypesHold, PTL
-----------------------------------------------------------------------------
(* Ranking (rank).                                                         *)

(* The lists rank's `sorted` may return for the candidates named.          *)
Rankings(pool, names) ==
  {list \in SetToSeqs(names) : \A i, j \in DOMAIN list : i < j => Ahead(pool, list[i], list[j])}

(* A number and a name order any candidates.                               *)
LEMMA CanBeRanked ==
  ASSUME NEW pool, NEW names \in SUBSET Nat, IsFiniteSet(names),
         \A n \in names : pool[n].tenths \in Nat
  PROVE  Rankings(pool, names) # {}
  <1> DEFINE R == {mn \in names \X names : Ahead(pool, mn[1], mn[2])}
  <1>1. \A m, n \in names : <<m, n>> \in R <=> Ahead(pool, m, n)
    OBVIOUS
  <1>2. \A m, n \in names : Ahead(pool, m, n) <=>
          \/ pool[m].tenths > pool[n].tenths
          \/ pool[m].tenths = pool[n].tenths /\ m < n
    BY DEF Ahead
  <1> HIDE DEF R
  <1>3. Orders(R, names)
    <2>1. \A n \in names : <<n, n>> \notin R
      BY <1>1, <1>2
    <2>2. ASSUME NEW m \in names, NEW n \in names, m # n
          PROVE  <<m, n>> \in R \/ <<n, m>> \in R
      <3>1. m < n \/ n < m
        BY <2>2
      <3>2. Ahead(pool, m, n) \/ Ahead(pool, n, m)
        BY <1>2, <3>1
      <3> QED
        BY <1>1, <3>2
    <2>3. \A l, m, n \in names : <<l, m>> \in R /\ <<m, n>> \in R => <<l, n>> \in R
      BY <1>1, <1>2
    <2> QED
      BY <2>1, <2>2, <2>3 DEF Orders
  <1>4. PICK list \in Sortings(names, R) : TRUE
    BY <1>3, CanBeSorted
  <1>5. /\ list \in [1..Cardinality(names) -> names]
        /\ \A i, j \in 1..Cardinality(names) : i # j => list[i] # list[j]
        /\ \A i, j \in 1..Cardinality(names) : i < j => <<list[i], list[j]>> \in R
    BY <1>4 DEF Sortings
  <1>6. list \in SetToSeqs(names)
    BY <1>5 DEF SetToSeqs
  <1>7. \A i, j \in DOMAIN list : i < j => Ahead(pool, list[i], list[j])
    BY <1>1, <1>5
  <1> QED
    BY <1>6, <1>7 DEF Rankings

(* The two ranked partitions are what the sort makes of them.              *)
ScoreableIn(pool) == {n \in DOMAIN pool : pool[n].scoreable}
Meeting(pool) == {n \in ScoreableIn(pool) : pool[n].must}
Lacking(pool) == {n \in ScoreableIn(pool) : ~pool[n].must}

(* However many candidates a run has, however many tie, and whoever has no *)
(* score: each appears exactly once, in one of the three partitions; the   *)
(* two ranked ones are in order of score, then of name (rank, _sort_key).  *)
THEOREM RankIsComplete ==
  ASSUME NEW pool, IsFiniteSet(DOMAIN pool), DOMAIN pool \in SUBSET Nat,
         \A n \in DOMAIN pool : pool[n].scoreable => pool[n].tenths \in Nat
  PROVE  /\ Rank(pool).meets \in Rankings(pool, Meeting(pool))
         /\ Rank(pool).missing \in Rankings(pool, Lacking(pool))
         /\ Rank(pool).needs_review = DOMAIN pool \ ScoreableIn(pool)
         /\ Meeting(pool) \cap Lacking(pool) = {}
         /\ Meeting(pool) \cup Lacking(pool) = ScoreableIn(pool)
  <1>1. ASSUME NEW names \in SUBSET ScoreableIn(pool)
        PROVE  Rankings(pool, names) # {}
    <2>1. names \in SUBSET Nat /\ names \in SUBSET DOMAIN pool
      BY DEF ScoreableIn
    <2>2. IsFiniteSet(names)
      BY <2>1, FS_Subset
    <2>3. \A n \in names : pool[n].tenths \in Nat
      BY DEF ScoreableIn
    <2> QED
      BY <2>1, <2>2, <2>3, CanBeRanked
  <1> DEFINE Sorted(names) ==
               CHOOSE list \in SetToSeqs(names) :
                 \A i, j \in DOMAIN list : i < j => Ahead(pool, list[i], list[j])
  <1>2. ASSUME NEW names \in SUBSET ScoreableIn(pool)
        PROVE  Sorted(names) \in Rankings(pool, names)
    BY <1>1 DEF Rankings
  <1>3. Meeting(pool) \in SUBSET ScoreableIn(pool) /\ Lacking(pool) \in SUBSET ScoreableIn(pool)
    BY DEF Meeting, Lacking
  <1>4. /\ Rank(pool).meets = Sorted(Meeting(pool))
        /\ Rank(pool).missing = Sorted(Lacking(pool))
        /\ Rank(pool).needs_review = DOMAIN pool \ ScoreableIn(pool)
    BY DEF Rank, Meeting, Lacking, ScoreableIn
  <1> HIDE DEF Sorted
  <1> QED
    BY <1>2, <1>3, <1>4 DEF Meeting, Lacking

(* A judgment with one verdict lowered.                                    *)
LEMMA OneVerdictLess ==
  ASSUME NEW judged \in [Criteria -> Judgment], NEW c \in Criteria,
         NEW verdict \in Worse[judged[c].verdict]
  PROVE  LET weaker == [judged EXCEPT ![c].verdict = verdict]
         IN  /\ weaker \in [Criteria -> Judgment] /\ Weaker(weaker, judged)
             /\ MustHavesMet(weaker) => MustHavesMet(judged)
  <1> DEFINE weaker == [judged EXCEPT ![c].verdict = verdict]
  <1>1. judged[c].verdict \in Verdicts /\ judged[c] \in Judgment
    BY DEF Judgment
  <1>2. verdict \in Verdicts /\ Halves[verdict] <= Halves[judged[c].verdict]
        /\ verdict # "strong" /\ judged[c].verdict # "none"
    BY <1>1 DEF Worse, Verdicts, Halves
  <1>3. /\ [judged[c] EXCEPT !.verdict = verdict] \in Judgment
        /\ [judged[c] EXCEPT !.verdict = verdict].verdict = verdict
    BY <1>1, <1>2 DEF Judgment
  <1>4. /\ weaker \in [Criteria -> Judgment] /\ weaker[c].verdict = verdict
        /\ \A d \in Criteria : d # c => weaker[d] = judged[d]
    BY <1>3
  <1> HIDE DEF weaker
  <1>5. Weaker(weaker, judged)
    <2> SUFFICES ASSUME NEW d \in Criteria PROVE Halves[weaker[d].verdict] <= Halves[judged[d].verdict]
      BY DEF Weaker
    <2>1. judged[d].verdict \in Verdicts
      BY DEF Judgment
    <2>2. Halves[judged[d].verdict] \in Nat
      BY <2>1 DEF Halves, Verdicts
    <2> QED
      BY <1>2, <1>4, <2>2
  <1>6. MustHavesMet(weaker) => MustHavesMet(judged)
    BY <1>2, <1>4 DEF MustHavesMet, MustHavesAt
  <1> QED
    BY <1>4, <1>5, <1>6 DEF weaker

(* The bands are in the order of the scores, whatever the thresholds are.  *)
LEMMA BandIsMonotone ==
  ASSUME NEW n \in Nat, NEW m \in Nat, n <= m
  PROVE  (Band(n) = "A" => Band(m) = "A") /\ (Band(m) = "D" => Band(n) = "D")
  <1>1. High \in Nat /\ Mid \in Nat /\ Low \in Nat
    BY JudgingAssumption
  <1> QED
    BY <1>1 DEF Band

(* Nobody gains by a verdict lost, under any rubric, thresholds and        *)
(* rounding (compute_score, assign_band, rank).                            *)
THEOREM NobodyGainsByLosing == Spec => []LosingNeverHelps
  <1>1. TypeInv => LosingNeverHelps
    <2> SUFFICES ASSUME TypeInv, stage = "done", result.scoreable,
                        NEW c \in DOMAIN result.judged,
                        NEW verdict \in Worse[result.judged[c].verdict]
                 PROVE  LET less  == Scored([result.judged EXCEPT ![c].verdict = verdict], {}, FALSE)
                            board == Rank(<<less, result>>)
                        IN  /\ less.tenths <= result.tenths
                            /\ less.band = "A" => result.band = "A"
                            /\ result.band = "D" => less.band = "D"
                            /\ less.must => result.must
                            /\ less.tenths < result.tenths =>
                                 <<1, 2>> \notin {board.meets, board.missing}
                            /\ board.needs_review = {}
      BY DEF LosingNeverHelps
    <2> DEFINE judged == result.judged
               weaker == [judged EXCEPT ![c].verdict = verdict]
               less   == Scored(weaker, {}, FALSE)
               pool   == <<less, result>>
               board  == Rank(pool)
    <2>1. /\ judged \in [Criteria -> Judgment] /\ c \in Criteria
          /\ result.tenths = Tenths(judged) /\ result.must = MustHavesMet(judged)
          /\ result.band = Band(result.tenths)
      BY DEF TypeInv, ScoreInv
    <2>2. /\ weaker \in [Criteria -> Judgment] /\ Weaker(weaker, judged)
          /\ MustHavesMet(weaker) => MustHavesMet(judged)
      BY <2>1, OneVerdictLess
    <2>3. /\ less.scoreable /\ less.tenths = Tenths(weaker) /\ less.must = MustHavesMet(weaker)
          /\ less.band = Band(less.tenths)
      BY DEF Scored
    <2>4. /\ Tenths(weaker) \in 0..100 /\ Tenths(judged) \in 0..100
          /\ Tenths(weaker) <= Tenths(judged)
      BY <2>1, <2>2, JudgmentsHaveVerdicts, ScoreIsInRange, WeakerScoresNoMore
    <2> HIDE DEF judged, weaker, less
    <2>5. /\ less.tenths \in Nat /\ result.tenths \in Nat /\ less.tenths <= result.tenths
          /\ less.must => result.must
      BY <2>1, <2>2, <2>3, <2>4
    <2>6. /\ less.band = "A" => result.band = "A"
          /\ result.band = "D" => less.band = "D"
      BY <2>1, <2>3, <2>5, BandIsMonotone
    <2>7. /\ DOMAIN pool = {1, 2} /\ pool[1] = less /\ pool[2] = result
      OBVIOUS
    <2>8. IsFiniteSet(DOMAIN pool) /\ DOMAIN pool \in SUBSET Nat
      <3>1. IsFiniteSet({1}) /\ IsFiniteSet({2})
        BY FS_Singleton
      <3>2. IsFiniteSet({1} \cup {2})
        BY <3>1, FS_Union
      <3>3. DOMAIN pool = {1} \cup {2}
        BY <2>7
      <3> QED
        BY <3>2, <3>3
    <2> HIDE DEF pool
    <2>9. /\ board.meets \in Rankings(pool, Meeting(pool))
          /\ board.missing \in Rankings(pool, Lacking(pool))
          /\ board.needs_review = DOMAIN pool \ ScoreableIn(pool)
      BY <2>5, <2>7, <2>8, RankIsComplete
    <2> HIDE DEF board
    <2>10. board.needs_review = {}
      BY <2>3, <2>7, <2>9 DEF ScoreableIn
    <2>11. ASSUME less.tenths < result.tenths
           PROVE  <<1, 2>> \notin {board.meets, board.missing}
      <3>1. ASSUME NEW names, <<1, 2>> \in Rankings(pool, names) PROVE FALSE
        <4>1. Ahead(pool, 1, 2)
          <5> DEFINE list == <<1, 2>>
          <5>1. \A i, j \in DOMAIN list : i < j => Ahead(pool, list[i], list[j])
            BY <3>1 DEF Rankings
          <5> QED
            BY <5>1
        <4> QED
          BY <2>5, <2>7, <2>11, <4>1 DEF Ahead
      <3> QED
        BY <2>9, <3>1
    <2> QED
      BY <2>5, <2>6, <2>10, <2>11 DEF judged, weaker, less, pool, board
  <1> QED
    BY <1>1, TypesHold, PTL
-----------------------------------------------------------------------------
(* What is left to do for a resume: each stage, each call that may yet be  *)
(* made, and, until it was used, the one corrective request and its calls. *)
Correction == IF chat.corrected THEN 0 ELSE MaxRetries + 2
Asking == 4 + (MaxRetries - chat.tries) + Correction

Left ==
  CASE stage = "intake"  -> 2 * MaxRetries + 11
    [] stage = "parse"   -> 2 * MaxRetries + 10
    [] stage = "clean"   -> 2 * MaxRetries + 9
    [] stage = "detect"  -> 2 * MaxRetries + 8
    [] stage = "budget"  -> 2 * MaxRetries + 7
    [] stage = "ask"     -> Asking
    [] stage = "compare" -> 3 + Correction
    [] stage = "verify"  -> 2
    [] stage = "score"   -> 1
    [] OTHER -> 0

(* Every step of screen_one leaves less to do, however calls fail, bodies  *)
(* are malformed and replies have to be corrected (chat_structured,        *)
(* judge_resume): a resume takes at most 2 * MaxRetries + 11 steps.        *)
EachStepCounts ==
  [][stage \notin Ended => /\ {Left, Left'} \subseteq 0..(2 * MaxRetries + 11)
                           /\ Left' < Left]_vars

THEOREM NothingIsDoneForEver == Spec => EachStepCounts
  <1>1. TypeInv /\ TypeInv' /\ [Next]_vars =>
          [stage \notin Ended => /\ {Left, Left'} \subseteq 0..(2 * MaxRetries + 11)
                                 /\ Left' < Left]_vars
    <2> SUFFICES ASSUME TypeInv, TypeInv', Next, stage \notin Ended
                 PROVE  /\ {Left, Left'} \subseteq 0..(2 * MaxRetries + 11)
                        /\ Left' < Left
      OBVIOUS
    <2>1. /\ chat.tries \in 0..MaxRetries /\ chat.corrected \in BOOLEAN
          /\ chat'.tries \in 0..MaxRetries /\ chat'.corrected \in BOOLEAN
          /\ MaxRetries \in Nat /\ stage \in Stages /\ stage' \in Stages \cup Ended
      BY JudgingAssumption DEF TypeInv, TypeOK
    <2>2. /\ Correction \in 0..(MaxRetries + 2)
          /\ Left \in 0..(2 * MaxRetries + 11) /\ Left # 0
      BY <2>1 DEF Left, Asking, Correction, Stages
    <2>3. Left' \in 0..(2 * MaxRetries + 11)
      BY <2>1 DEF Left, Asking, Correction, Stages, Ended
    <2>4. stage' \in Ended => Left' = 0
      BY DEF Left, Ended
    <2>5. Left' < Left
      <3>1. CASE stage' \in Ended
        BY <2>2, <2>4, <3>1
      <3> SUFFICES ASSUME stage' \notin Ended PROVE Left' < Left
        BY <3>1
      <3>2. Step /\ stage' # "done" /\ stage' # "raised"
        BY DEF Next, Again, Ended
      <3>3. CASE Validate \/ Parse \/ Sanitize \/ DetectInjection
        BY <2>1, <3>2, <3>3
        DEF Validate, Parse, Sanitize, DetectInjection, Notice, Unscoreable, Left
      <3>4. CASE CheckBudget
        <4>1. stage = "budget" /\ stage' = "ask" /\ chat'.tries = 0 /\ chat'.corrected = FALSE
          BY <3>2, <3>4 DEF CheckBudget, Notice, Unscoreable, NoChat
        <4> QED
          BY <2>1, <4>1 DEF Left, Asking, Correction
      <3>5. CASE CallFails \/ Malformed
        <4>1. /\ stage = "ask" /\ stage' = "ask" /\ chat'.corrected = chat.corrected
              /\ chat'.tries = chat.tries + 1
          BY <2>1, <3>5 DEF CallFails, Malformed, TypeInv, TypeOK
        <4> QED
          BY <2>1, <4>1 DEF Left, Asking, Correction
      <3>6. CASE Answer
        <4>1. stage = "ask" /\ stage' = "compare" /\ chat' = chat
          BY <3>6 DEF Answer
        <4> QED
          BY <2>1, <4>1 DEF Left, Asking, Correction
      <3>7. CASE Compare
        <4>1. CASE stage' = "verify"
          BY <2>1, <3>7, <4>1 DEF Compare, Left, Correction
        <4>2. CASE stage' # "verify"
          <5>1. /\ stage = "compare" /\ ~chat.corrected /\ stage' = "ask"
                /\ chat'.tries = 0 /\ chat'.corrected
            BY <3>2, <3>7, <4>2 DEF Compare, Notice, Unscoreable
          <5> QED
            BY <2>1, <5>1 DEF Left, Asking, Correction
        <4> QED
          BY <4>1, <4>2
      <3>8. CASE VerifyEvidence
        BY <3>2, <3>8 DEF VerifyEvidence, Notice, Unscoreable, Left
      <3> QED
        BY <3>2, <3>3, <3>4, <3>5, <3>6, <3>7, <3>8 DEF Step, ComputeScore, Raise
    <2> QED
      BY <2>2, <2>3, <2>5
  <1> QED
    BY <1>1, TypesHold, PTL DEF Spec, EachStepCounts
=============================================================================
