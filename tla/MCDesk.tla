------------------------------- MODULE MCDesk -------------------------------
(* Desk for TLC: which references may have rubrics, and how many versions. *)
EXTENDS Desk

CONSTANTS eng, ops

TwoForEng == [p \in References |-> IF p = eng THEN 2 ELSE 0]
=============================================================================
