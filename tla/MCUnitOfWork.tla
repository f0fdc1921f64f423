---------------------------- MODULE MCUnitOfWork ----------------------------
(* UnitOfWork for TLC: two threads of the API and a terminal.              *)
EXTENDS UnitOfWork, TLC

CONSTANTS api, term, t1, t2, t3

TwoAndOne == t1 :> api @@ t2 :> api @@ t3 :> term
=============================================================================
