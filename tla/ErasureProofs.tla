--------------------------- MODULE ErasureProofs ---------------------------
(***************************************************************************)
(* Proofs about Erasure, for any sets of runs, contents and purgers.       *)
(***************************************************************************)
EXTENDS Erasure, TLAPS

(* What the worker holds, and what may be served, is never blank.          *)
NothingBlankIsHeld ==
  /\ text # "blank"
  /\ \A c \in Places : row[c].cacheable => row[c].text \notin {"none", "blank"}

(* The worker's own text predates a purge only if that purge has seen it.  *)
HandIsMarked == text = "old" => hand[2] \in inFlight

IInv ==
  /\ TypeOK /\ TracesAreFindable /\ PurgeIsThorough
  /\ NothingBlankIsHeld /\ HandIsMarked

(* The initial states satisfy the invariant.                               *)
LEMMA InvInit == Init => IInv
  BY ErasureAssumption
  DEF Init, IInv, TypeOK, TracesAreFindable, PurgeIsThorough, NothingBlankIsHeld,
      HandIsMarked, Texts, NoRow, Steps

(* A purge leaves no text in the rows of the content it is about.          *)
LEMMA BlankedRow ==
  ASSUME NEW entry \in [text : Texts \cup {"blank"}, cacheable : BOOLEAN]
  PROVE  /\ Outlived(Blanked(entry)) \in [text : Texts \cup {"blank"}, cacheable : BOOLEAN]
         /\ Outlived(Blanked(entry)).text \in {"none", "blank"}
         /\ entry.text = "none" => /\ Outlived(Blanked(entry)).text = "none"
                                   /\ Outlived(Blanked(entry)).cacheable = entry.cacheable
         /\ entry.text # "none" => ~Outlived(Blanked(entry)).cacheable
  <1>1. CASE entry.text = "none"
    <2>1. Blanked(entry) = entry
      BY <1>1 DEF Blanked
    <2>2. Outlived(entry) = [entry EXCEPT !.text = "none"]
      BY <1>1 DEF Outlived, Aged
    <2> QED
      BY <1>1, <2>1, <2>2 DEF Texts
  <1>2. CASE entry.text # "none"
    <2>1. Blanked(entry) = [text |-> "blank", cacheable |-> FALSE]
      BY <1>2 DEF Blanked
    <2>2. Outlived(Blanked(entry)) = [text |-> "blank", cacheable |-> FALSE]
      BY <2>1 DEF Outlived, Aged
    <2> QED
      BY <1>2, <2>2 DEF Texts
  <1> QED
    BY <1>1, <1>2

(* Every step of the worker preserves the invariant.                       *)
LEMMA WorkerStep ==
  ASSUME IInv,
         \/ \E c \in Places : Take(c)
         \/ LookUp \/ Judge \/ WriteTrace \/ IndexTrace \/ IndexFails \/ Save
         \/ WriteFails \/ GiveUp
  PROVE  IInv'
  <1> USE ErasureAssumption
  <1>1. ASSUME NEW c \in Places, Take(c) PROVE IInv'
    BY <1>1 DEF Take, IInv, TypeOK, TracesAreFindable, PurgeIsThorough, NothingBlankIsHeld,
       HandIsMarked, Texts, Steps, purger, history
  <1>2. CASE LookUp
    <2>1. hand \in Places
      BY <1>2 DEF LookUp, IInv, TypeOK
    <2>2. ASSUME NEW r \in Runs, row[<<r, hand[2]>>].cacheable,
                 text' = row[<<r, hand[2]>>].text
          PROVE  /\ text' \in {"fresh", "old"}
                 /\ text' = "old" => hand[2] \in inFlight
      <3>1. <<r, hand[2]>> \in Places
        BY <2>1 DEF Places
      <3>2. row[<<r, hand[2]>>] \in [text : Texts \cup {"blank"}, cacheable : BOOLEAN]
        BY <3>1 DEF IInv, TypeOK
      <3>3. row[<<r, hand[2]>>].text = "old" => hand[2] \in inFlight
        BY <3>1 DEF IInv, PurgeIsThorough
      <3> QED
        BY <2>2, <3>1, <3>2, <3>3 DEF IInv, NothingBlankIsHeld, Texts
    <2>3. /\ text' \in {"fresh", "old"}
          /\ text' = "old" => hand[2] \in inFlight
      BY <1>2, <2>2 DEF LookUp, Served
    <2> QED
      BY <1>2, <2>1, <2>3 DEF LookUp, IInv, TypeOK, TracesAreFindable, PurgeIsThorough,
         NothingBlankIsHeld, HandIsMarked, Texts, Steps, purger, history
  <1>3. CASE Judge
    BY <1>3 DEF Judge, IInv, TypeOK, TracesAreFindable, PurgeIsThorough, NothingBlankIsHeld,
       HandIsMarked, Texts, Steps, purger, history
  <1>4. CASE WriteTrace
    BY <1>4 DEF WriteTrace, IInv, TypeOK, TracesAreFindable, PurgeIsThorough,
       NothingBlankIsHeld, HandIsMarked, Texts, Steps, purger, history
  <1>5. CASE IndexTrace
    BY <1>5 DEF IndexTrace, IInv, TypeOK, TracesAreFindable, PurgeIsThorough,
       NothingBlankIsHeld, HandIsMarked, Texts, Steps, purger, history
  <1>6. CASE IndexFails
    BY <1>6 DEF IndexFails, IInv, TypeOK, TracesAreFindable, PurgeIsThorough,
       NothingBlankIsHeld, HandIsMarked, Texts, Steps, purger
  <1>7. CASE Save
    <2>1. hand \in Places /\ text \in {"fresh", "old"}
      BY <1>7 DEF Save, IInv, TypeOK, NothingBlankIsHeld, Texts, Steps
    <2>2. \A c \in Places :
            \/ row'[c] = row[c]
            \/ c = hand /\ row'[c] = [text |-> text, cacheable |-> TRUE]
      BY <1>7, <2>1 DEF Save, IInv, TypeOK
    <2>3. row' \in [Places -> [text : Texts \cup {"blank"}, cacheable : BOOLEAN]]
      BY <1>7, <2>1 DEF Save, IInv, TypeOK, Texts
    <2> QED
      BY <1>7, <2>1, <2>2, <2>3 DEF Save, Drop, IInv, TypeOK, TracesAreFindable,
         PurgeIsThorough, NothingBlankIsHeld, HandIsMarked, Texts, Steps, purger, history
  <1>8. CASE WriteFails
    BY <1>8 DEF WriteFails, Drop, IInv, TypeOK, TracesAreFindable, PurgeIsThorough,
       NothingBlankIsHeld, HandIsMarked, Texts, Steps, purger
  <1>9. CASE GiveUp
    BY <1>9 DEF GiveUp, Drop, IInv, TypeOK, TracesAreFindable, PurgeIsThorough,
       NothingBlankIsHeld, HandIsMarked, Texts, Steps, purger
  <1> QED
    BY <1>1, <1>2, <1>3, <1>4, <1>5, <1>6, <1>7, <1>8, <1>9

(* The one transaction of a purge preserves the invariant.                 *)
LEMMA PurgeRowsStep ==
  ASSUME IInv, NEW p \in Purgers, NEW s \in Shas, PurgeRows(p, s)
  PROVE  IInv'
  <1> USE ErasureAssumption
  <1>1. \A c \in Places :
          /\ row'[c] \in [text : Texts \cup {"blank"}, cacheable : BOOLEAN]
          /\ c \notin Of(s) => row'[c] = row[c]
          /\ c \in Of(s) => /\ row'[c].text \in {"none", "blank"}
                            /\ row'[c].cacheable => row[c].text = "none" /\ row[c].cacheable
    BY BlankedRow DEF PurgeRows, IInv, TypeOK
  <1>2. /\ row' \in [Places -> [text : Texts \cup {"blank"}, cacheable : BOOLEAN]]
        /\ NothingBlankIsHeld'
    BY <1>1 DEF PurgeRows, IInv, TypeOK, NothingBlankIsHeld, Aged, Texts
  <1>3. \A c \in Places : /\ file'[c] = IF c \in Of(s) THEN Aged(file[c]) ELSE file[c]
                          /\ (file'[c] = "none") = (file[c] = "none")
    BY DEF PurgeRows, IInv, TypeOK, Aged
  <1>4. unlinking[p] = {} /\ Found(s) = index \cap (Runs \X {s})
    BY DEF PurgeRows, IInv, TypeOK, Found, Of
  <1>5. /\ unlinking' = [unlinking EXCEPT ![p] = index \cap (Runs \X {s})]
        /\ index' = index \ (Runs \X {s})
    BY <1>4 DEF PurgeRows, Of
  <1>6. TypeOK'
    BY <1>2, <1>4, <1>5 DEF PurgeRows, IInv, TypeOK, Aged, Texts, Steps, Places, Of, Holds
  <1>7. TracesAreFindable'
    <2> SUFFICES ASSUME NEW c \in Places, file'[c] # "none"
                 PROVE  \/ c \in index' \cup lost'
                        \/ at' = "indexing" /\ hand' = c
                        \/ \E q \in Purgers : c \in unlinking'[q]
      BY DEF TracesAreFindable
    <2>1. \/ c \in index \cup lost
          \/ at = "indexing" /\ hand = c
          \/ \E q \in Purgers : c \in unlinking[q]
      BY <1>3 DEF IInv, TracesAreFindable
    <2>2. CASE c \in index
      BY <1>5, <2>2 DEF IInv, TypeOK
    <2>3. CASE \E q \in Purgers : c \in unlinking[q]
      BY <1>4, <1>5, <2>3 DEF IInv, TypeOK
    <2>4. UNCHANGED <<at, hand, lost>>
      BY DEF PurgeRows
    <2> QED
      BY <2>1, <2>2, <2>3, <2>4
  <1>8. PurgeIsThorough'
    <2>1. ASSUME NEW c \in Places, file'[c] = "old"
          PROVE  \/ c \in lost' \/ c[2] \in inFlight'
                 \/ \E q \in Purgers : c \in unlinking'[q]
      <3>1. CASE c \notin Of(s)
        <4>1. file[c] = "old" /\ c[2] # s
          BY <1>3, <2>1, <3>1 DEF Of, Places
        <4>2. \/ c \in lost \/ c[2] \in inFlight
              \/ \E q \in Purgers : c \in unlinking[q]
          BY <4>1 DEF IInv, PurgeIsThorough
        <4> QED
          BY <1>4, <1>5, <4>1, <4>2 DEF PurgeRows, IInv, TypeOK
      <3>2. CASE c \in Of(s)
        <4>1. c \notin index'
          BY <1>5, <3>2 DEF Of
        <4>2. \/ c \in lost'
              \/ at' = "indexing" /\ hand' = c
              \/ \E q \in Purgers : c \in unlinking'[q]
          BY <1>7, <2>1, <4>1 DEF TracesAreFindable
        <4>3. at' = "indexing" /\ hand' = c => c[2] \in inFlight'
          BY <3>2 DEF PurgeRows, Holds, Of, IInv, TypeOK
        <4> QED
          BY <4>2, <4>3
      <3> QED
        BY <3>1, <3>2
    <2>2. ASSUME NEW c \in Places, row'[c].text = "old"
          PROVE  c[2] \in inFlight'
      BY <1>1, <2>2 DEF PurgeRows, IInv, PurgeIsThorough, Of, Places
    <2> QED
      BY <2>1, <2>2 DEF PurgeIsThorough
  <1>9. HandIsMarked'
    <2>1. CASE Holds(s)
      BY <2>1 DEF PurgeRows, IInv, HandIsMarked, Holds, Of, Aged
    <2>2. CASE ~Holds(s)
      BY <2>2 DEF PurgeRows, IInv, HandIsMarked, Holds, Of, TypeOK, Places
    <2> QED
      BY <2>1, <2>2
  <1> QED
    BY <1>2, <1>6, <1>7, <1>8, <1>9 DEF IInv

(* Unlinking files, returning and failing preserve the invariant.          *)
LEMMA UnlinkStep ==
  ASSUME IInv, NEW p \in Purgers, Unlink(p) \/ Return(p) \/ Abandon(p)
  PROVE  IInv'
  <1> USE ErasureAssumption
  <1>1. CASE Unlink(p)
    BY <1>1 DEF Unlink, IInv, TypeOK, TracesAreFindable, PurgeIsThorough, NothingBlankIsHeld,
       HandIsMarked, Texts, Steps, worker, history
  <1>2. CASE Return(p)
    BY <1>2 DEF Return, Idle, IInv, TypeOK, TracesAreFindable, PurgeIsThorough,
       NothingBlankIsHeld, HandIsMarked, Texts, Steps, worker, history
  <1>3. CASE Abandon(p)
    BY <1>3 DEF Abandon, Idle, IInv, TypeOK, TracesAreFindable, PurgeIsThorough,
       NothingBlankIsHeld, HandIsMarked, Texts, Steps, worker, history
  <1> QED
    BY <1>1, <1>2, <1>3

(* The invariant holds in every reachable state.                           *)
THEOREM Invariant == Spec => []IInv
  <1>1. IInv /\ [Next]_vars => IInv'
    <2> SUFFICES ASSUME IInv, [Next]_vars PROVE IInv'
      OBVIOUS
    <2>1. CASE Next
      BY <2>1, WorkerStep, PurgeRowsStep, UnlinkStep DEF Next
    <2>2. CASE UNCHANGED vars
      BY <2>2 DEF vars, worker, purger, history, IInv, TypeOK, TracesAreFindable,
         PurgeIsThorough, NothingBlankIsHeld, HandIsMarked
    <2> QED
      BY <2>1, <2>2
  <1> QED
    BY <1>1, InvInit, PTL DEF Spec

(* The variables keep their types.                                         *)
THEOREM TypeCorrect == Spec => []TypeOK
  BY Invariant, PTL DEF IInv

(* No trace file is out of erasure's sight but by a recorded fault.        *)
THEOREM EveryTraceIsFindable == Spec => []TracesAreFindable
  BY Invariant, PTL DEF IInv

(* Text outlives a purge only by a fault or in a worker's hands.           *)
THEOREM PurgeReachesEverything == Spec => []PurgeIsThorough
  BY Invariant, PTL DEF IInv

(* A blanked row is never copied into another run.                         *)
THEOREM BlankStaysPut == Spec => NothingBlankIsFiled
  <1> DEFINE Safe == \A c \in Places : row[c].text = "none" => row'[c].text # "blank"
  <1>1. IInv /\ [Next]_vars => [Safe]_vars
    <2> SUFFICES ASSUME IInv, Next PROVE Safe
      BY DEF vars
    <2>1. CASE Save
      <3>1. \A c \in Places : row'[c] = row[c] \/ row'[c] = [text |-> text, cacheable |-> TRUE]
        BY <2>1 DEF Save, IInv, TypeOK
      <3> QED
        BY <3>1 DEF IInv, NothingBlankIsHeld
    <2>2. ASSUME NEW p \in Purgers, NEW s \in Shas, PurgeRows(p, s) PROVE Safe
      BY <2>2, BlankedRow DEF PurgeRows, IInv, TypeOK
    <2>3. CASE UNCHANGED row
      BY <2>3
    <2> QED
      BY <2>1, <2>2, <2>3 DEF Next, Take, LookUp, Judge, WriteTrace, IndexTrace, IndexFails,
         WriteFails, GiveUp, Unlink, Return, Abandon
  <1> QED
    BY <1>1, Invariant, PTL DEF Spec, NothingBlankIsFiled
=============================================================================
