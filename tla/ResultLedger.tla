---------------------------- MODULE ResultLedger ----------------------------
(***************************************************************************)
(* What the queue and the worker promise together, with no workers, no     *)
(* claims and no retries in it: every file of a run is entered once, stays *)
(* open until it is settled, and is settled once - either reported, in the *)
(* same step that files its candidate row under a free UNIQUE(file_sha256, *)
(* run_id) key, or abandoned without a row.                                *)
(***************************************************************************)
CONSTANTS
  Runs,    \* run ids
  Files,   \* resume paths
  Keys,    \* values of candidates.file_sha256
  Nobody   \* no candidate row under this key

VARIABLES
  entry,   \* what has become of each file of each run
  filed    \* whose row stands under each (run, key)

ledger == <<entry, filed>>

EntryStatus == {"unseen", "open", "reported", "abandoned"}

LedgerTypeOK ==
  /\ entry \in [Runs \X Files -> EntryStatus]
  /\ filed \in [Runs \X Keys -> Files \cup {Nobody}]

Init ==
  /\ entry = [j \in Runs \X Files |-> "unseen"]
  /\ filed = [c \in Runs \X Keys |-> Nobody]

(* A snapshot enters any number of new files of one run at once.           *)
Enter(r, new) ==
  /\ \A f \in new : entry[<<r, f>>] = "unseen"
  /\ entry' = [j \in Runs \X Files |->
                 IF j[1] = r /\ j[2] \in new THEN "open" ELSE entry[j]]
  /\ UNCHANGED filed

Report(r, f, key) ==
  /\ entry[<<r, f>>] = "open"
  /\ filed[<<r, key>>] = Nobody
  /\ entry' = [entry EXCEPT ![<<r, f>>] = "reported"]
  /\ filed' = [filed EXCEPT ![<<r, key>>] = f]

Abandon(r, f) ==
  /\ entry[<<r, f>>] = "open"
  /\ entry' = [entry EXCEPT ![<<r, f>>] = "abandoned"]
  /\ UNCHANGED filed

Next ==
  \E r \in Runs :
    \/ \E new \in SUBSET Files : Enter(r, new)
    \/ \E f \in Files : Abandon(r, f) \/ \E key \in Keys : Report(r, f, key)

Spec == Init /\ [][Next]_ledger
=============================================================================
