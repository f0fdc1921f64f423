----------------------------- MODULE MCScreener -----------------------------
(* Small instances of Screener for TLC.                                     *)
EXTENDS Screener, TLC

CONSTANTS shaA, shaB, daemon, cli, w1

(* Files 1 and 2 differ, or are byte-identical.                             *)
Distinct == 1 :> shaA @@ 2 :> shaB
Twins    == 1 :> shaA @@ 2 :> shaA

(* All runs screen under one rubric, model, prompt and version, or all but  *)
(* the first do.                                                            *)
SameConditions == [r \in Runs |-> "same"]
FirstDiffers   == [r \in Runs |-> IF r = 1 THEN "other" ELSE "same"]

(* Every position's folder may hold every file, or only the first one's.    *)
AnyFile      == [r \in Runs |-> Files]
FirstIsLarge == [r \in Runs |-> IF r = 1 THEN Files ELSE {1}]

(* The daemon alone; the daemon beside a foreground `screener work`, which *)
(* has the same default id.                                                *)
OneId    == daemon :> w1
SharedId == daemon :> w1 @@ cli :> w1
=============================================================================
