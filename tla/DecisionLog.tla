---------------------------- MODULE DecisionLog ----------------------------
(***************************************************************************)
(* What a unit of work promises for a recorded decision: it is on record   *)
(* in one step with the line that says who made it, or not at all; the     *)
(* person who made it hears "ok" only after, "error" only if it is not.    *)
(***************************************************************************)
CONSTANT Attempts
VARIABLES recorded, told

Init == recorded = {} /\ told = [d \in Attempts |-> "new"]

Begin(d)  == told[d] = "new" /\ told' = [told EXCEPT ![d] = "begun"] /\ UNCHANGED recorded
Record(d) == told[d] = "begun" /\ recorded' = recorded \cup {d} /\ UNCHANGED told
Accept(d) == told[d] = "begun" /\ d \in recorded
             /\ told' = [told EXCEPT ![d] = "ok"] /\ UNCHANGED recorded
Refuse(d) == told[d] = "begun" /\ d \notin recorded
             /\ told' = [told EXCEPT ![d] = "error"] /\ UNCHANGED recorded

Next == \E d \in Attempts : Begin(d) \/ Record(d) \/ Accept(d) \/ Refuse(d)
Spec == Init /\ [][Next]_<<recorded, told>>
=============================================================================
