----------------------------- MODULE MCJudging -----------------------------
(* A rubric of four criteria for TLC, the least the program accepts.        *)
EXTENDS Judging

Rubric == {"C1", "C2", "C3", "C4"}
Weights == [C1 |-> 3, C2 |-> 2, C3 |-> 2, C4 |-> 1]

(* Any claim with any kind of quote for a must-have and for another; apt   *)
(* quotes for the other two.  What is denied carries the quote asked for.  *)
Denied == [verdict |-> "none", evidence |-> "empty"]
Claims(evidence) == {Denied} \cup [verdict : {"strong", "partial"}, evidence : evidence]
AnyClaims ==
  [C1 : Claims(Evidence), C2 : Claims({"apt"}), C3 : Claims(Evidence), C4 : Claims({"apt"})]

Said(id, claim) == [id |-> id, verdict |-> claim.verdict, evidence |-> claim.evidence]
Complete(claim) ==
  <<Said("C1", claim["C1"]), Said("C2", claim["C2"]),
    Said("C3", claim["C3"]), Said("C4", claim["C4"])>>
Praise == Complete([id \in Rubric |-> [verdict |-> "strong", evidence |-> "apt"]])

(* A reply may omit a criterion, judge one twice, or invent one.           *)
Misfits ==
  {<<>>, Tail(Praise),
   Append(Praise, Said("C1", Denied)),
   Append(Praise, Said("C9", [verdict |-> "strong", evidence |-> "apt"])),
   Append(Tail(Praise), Said("C2", [verdict |-> "partial", evidence |-> "apt"]))}

AllReplies == {Complete(claim) : claim \in AnyClaims} \cup Misfits
=============================================================================
