-------------------------- MODULE UnitOfWorkProofs --------------------------
(***************************************************************************)
(* Proofs about UnitOfWork, for any attempts, threads and processes, at    *)
(* every crash, exception and failed COMMIT.                               *)
(***************************************************************************)
EXTENDS UnitOfWork, Integers, TLAPS

(* A thread in the body, or on its way out of it, is in its transaction.   *)
InTransaction ==
  \A t \in Threads : at[t] \in {"override", "audit", "leave", "unwind"} => conn[t] = "open"

(* Only a transaction has something uncommitted.                           *)
DraftsAreOpen == \A t \in Threads : conn[t] # "open" => draft[t] = {}

(* How far the body came is what its transaction holds.                    *)
Progress ==
  \A t \in Threads :
    /\ at[t] = "override" => draft[t] = {}
    /\ at[t] = "audit" => draft[t] = {"override"}
    /\ at[t] = "leave" => draft[t] = {"override", "audit"}

(* A thread in a call makes one attempt, which nobody has heard about yet. *)
Working == \A t \in Threads : at[t] # "idle" => task[t] \in Attempts /\ told[task[t]] = "begun"

(* No two threads make the same attempt.                                   *)
OneEach ==
  \A t, u \in Threads : at[t] # "idle" /\ at[u] # "idle" /\ task[t] = task[u] => t = u

(* An attempt is on disk only once its thread has committed it.            *)
OnDiskWhenCommitted ==
  /\ \A d \in Attempts : told[d] = "new" => d \notin overrides
  /\ \A t \in Threads :
       /\ at[t] \in {"enter", "override", "audit", "leave", "unwind"} => task[t] \notin overrides
       /\ at[t] = "return" => task[t] \in overrides

IInv ==
  /\ TypeOK /\ AllOrNothing /\ OnlyWriter
  /\ InTransaction /\ DraftsAreOpen /\ Progress /\ Working /\ OneEach /\ OnDiskWhenCommitted

(* The initial states satisfy the invariant.                               *)
LEMMA InvInit == Init => IInv
  BY UnitOfWorkAssumption
  DEF Init, IInv, TypeOK, Places, AllOrNothing, OnlyWriter, InTransaction, DraftsAreOpen,
      Progress, Working, OneEach, OnDiskWhenCommitted

(* What goes on outside the calls preserves the invariant.                 *)
LEMMA ProcessStep ==
  ASSUME IInv, Migrate \/ \E p \in Processes : Start(p) \/ Crash(p)
  PROVE  IInv'
  <1> USE UnitOfWorkAssumption DEF IInv, TypeOK, Places, AllOrNothing, OnlyWriter,
      InTransaction, DraftsAreOpen, Progress, Working, OneEach, OnDiskWhenCommitted, disk
  <1>1. CASE Migrate
    BY <1>1 DEF Migrate
  <1>2. ASSUME NEW p \in Processes, Start(p) PROVE IInv'
    BY <1>2 DEF Start
  <1>3. ASSUME NEW p \in Processes, Crash(p) PROVE IInv'
    <2>1. Of(p) \subseteq Threads
      BY DEF Of
    <2>2. /\ \A t \in Of(p) : at'[t] = "idle" /\ task'[t] = None
                             /\ conn'[t] = "none" /\ draft'[t] = {}
          /\ \A t \in Threads \ Of(p) : at'[t] = at[t] /\ task'[t] = task[t]
                                       /\ conn'[t] = conn[t] /\ draft'[t] = draft[t]
          /\ lock' = IF lock \in Of(p) THEN None ELSE lock
      BY <1>3, <2>1 DEF Crash, Close
    <2>3. TypeOK'
      BY <1>3, <2>1 DEF Crash, Close
    <2>4. UNCHANGED <<overrides, audit, told>>
      BY <1>3 DEF Crash
    <2>5. AllOrNothing' /\ OnlyWriter' /\ InTransaction' /\ DraftsAreOpen' /\ Progress'
      BY <2>1, <2>2, <2>4
    <2>6. Working' /\ OneEach' /\ OnDiskWhenCommitted'
      BY <2>1, <2>2, <2>4
    <2> QED
      BY <2>3, <2>5, <2>6
  <1> QED
    BY <1>1, <1>2, <1>3

(* A thread's steps preserve the invariant.                                *)
LEMMA ThreadStep ==
  ASSUME IInv, NEW t \in Threads, Retire(t) \/ Step(t) \/ \E d \in Attempts : Call(t, d)
  PROVE  IInv'
  <1> USE UnitOfWorkAssumption DEF IInv, TypeOK, Places, AllOrNothing, OnlyWriter,
      InTransaction, DraftsAreOpen, Progress, Working, OneEach, OnDiskWhenCommitted,
      world, disk, Goto
  <1>1. CASE Retire(t)
    BY <1>1 DEF Retire, Close
  <1>2. ASSUME NEW d \in Attempts, Call(t, d) PROVE IInv'
    BY <1>2 DEF Call
  <1>3. CASE Begin(t)
    BY <1>3 DEF Begin
  <1>4. CASE GiveUp(t)
    BY <1>4 DEF GiveUp, Finish
  <1>5. CASE BeginInside(t)
    BY <1>5 DEF BeginInside, Finish
  <1>6. CASE WriteOverride(t)
    BY <1>6 DEF WriteOverride, Write
  <1>7. CASE WriteAudit(t)
    BY <1>7 DEF WriteAudit, Write
  <1>8. CASE Raise(t)
    BY <1>8 DEF Raise
  <1>9. CASE Leave(t)
    BY <1>9 DEF Leave, Commit, Release
  <1>10. CASE LeaveFails(t)
    BY <1>10 DEF LeaveFails, Release, Finish
  <1>11. CASE Unwind(t)
    BY <1>11 DEF Unwind, Release, Finish
  <1>12. CASE Return(t)
    BY <1>12 DEF Return, Finish
  <1> QED
    BY <1>1, <1>2, <1>3, <1>4, <1>5, <1>6, <1>7, <1>8, <1>9, <1>10, <1>11, <1>12 DEF Step

(* The invariant holds in every reachable state.                           *)
THEOREM Invariant == Spec => []IInv
  <1>1. IInv /\ [Next]_vars => IInv'
    <2> SUFFICES ASSUME IInv, [Next]_vars PROVE IInv'
      OBVIOUS
    <2>1. CASE Next
      BY <2>1, ProcessStep, ThreadStep DEF Next
    <2>2. CASE UNCHANGED vars
      BY <2>2 DEF vars, world, disk, IInv, TypeOK, AllOrNothing, OnlyWriter, InTransaction,
         DraftsAreOpen, Progress, Working, OneEach, OnDiskWhenCommitted
    <2> QED
      BY <2>1, <2>2
  <1> QED
    BY <1>1, InvInit, PTL DEF Spec

(* The variables keep their types.                                         *)
THEOREM TypeCorrect == Spec => []TypeOK
  BY Invariant, PTL DEF IInv

(* No override is ever on disk without its audit row, nor the other way    *)
(* round, whatever crashes, raises or fails to commit in between.          *)
THEOREM RowsLandTogether == Spec => []AllOrNothing
  BY Invariant, PTL DEF IInv

(* A transaction that began holds the lock until it ends.                  *)
THEOREM OneWriterAtATime == Spec => []OnlyWriter
  BY Invariant, PTL DEF IInv
(* A unit of work is atomic for its callers: every step of the threads is  *)
(* a step of DecisionLog, or changes nothing its callers could tell.       *)
THEOREM IsAtomic == Spec => ImplementsLog
  <1> USE UnitOfWorkAssumption
  <1> DEFINE logged == <<overrides \cap audit, told>>
  <1>1. Init => Log!Init
    BY DEF Init, Log!Init
  <1>2. IInv /\ [Next]_vars => [Log!Next]_logged
    <2> SUFFICES ASSUME IInv, Next PROVE Log!Next \/ UNCHANGED logged
      BY DEF vars, disk
    <2>1. ASSUME NEW t \in Threads, NEW d \in Attempts, Call(t, d) PROVE Log!Next
      <3>1. Log!Begin(d)
        BY <2>1 DEF Call, Log!Begin, disk
      <3> QED
        BY <3>1 DEF Log!Next
    <2>2. ASSUME NEW t \in Threads, Leave(t) PROVE Log!Next
      <3>1. task[t] \in Attempts /\ told[task[t]] = "begun" /\ draft[t] = {"override", "audit"}
        BY <2>2 DEF Leave, IInv, Working, Progress
      <3>2. overrides' = overrides \cup {task[t]} /\ audit' = audit \cup {task[t]}
        BY <2>2, <3>1 DEF Leave, Commit
      <3>3. Log!Record(task[t])
        BY <2>2, <3>1, <3>2 DEF Leave, Log!Record
      <3> QED
        BY <3>1, <3>3 DEF Log!Next
    <2>3. ASSUME NEW t \in Threads, Return(t) PROVE Log!Next
      <3>1. task[t] \in Attempts /\ told[task[t]] = "begun" /\ task[t] \in overrides
        BY <2>3 DEF Return, IInv, Working, OnDiskWhenCommitted
      <3>2. Log!Accept(task[t])
        BY <2>3, <3>1 DEF Return, Finish, Log!Accept, IInv, AllOrNothing, disk
      <3> QED
        BY <3>1, <3>2 DEF Log!Next
    <2>4. ASSUME NEW t \in Threads, GiveUp(t) \/ BeginInside(t) \/ LeaveFails(t) \/ Unwind(t)
          PROVE  Log!Next
      <3>1. /\ at[t] \in {"enter", "leave", "unwind"}
            /\ Finish(t, "error") /\ UNCHANGED disk
        BY <2>4 DEF GiveUp, BeginInside, LeaveFails, Unwind
      <3>2. task[t] \in Attempts /\ told[task[t]] = "begun" /\ task[t] \notin overrides
        BY <3>1 DEF IInv, Working, OnDiskWhenCommitted
      <3>3. Log!Refuse(task[t])
        BY <3>1, <3>2 DEF Finish, Log!Refuse, disk
      <3> QED
        BY <3>2, <3>3 DEF Log!Next
    <2>5. ASSUME NEW t \in Threads,
                 Retire(t) \/ Begin(t) \/ WriteOverride(t) \/ WriteAudit(t) \/ Raise(t)
          PROVE  UNCHANGED logged
      BY <2>5 DEF Retire, Begin, WriteOverride, WriteAudit, Write, Raise, disk
    <2>6. ASSUME NEW p \in Processes, Start(p) \/ Crash(p) PROVE UNCHANGED logged
      BY <2>6 DEF Start, Crash, disk
    <2>7. Migrate => UNCHANGED logged
      BY DEF Migrate, disk
    <2> QED
      BY <2>1, <2>2, <2>3, <2>4, <2>5, <2>6, <2>7 DEF Next, Step
  <1> QED
    BY <1>1, <1>2, Invariant, PTL DEF Spec, ImplementsLog, Log!Spec
-----------------------------------------------------------------------------
(* What the lock and the calls owe to no fairness.                         *)

(* A thread in a call has a connection.                                    *)
Connected == \A t \in Threads : at[t] # "idle" => conn[t] # "none"

(* A held lock is on its way out: its holder is in the body of a unit of   *)
(* work or leaving it, unless the COMMIT of a finished body failed and     *)
(* left the transaction open (unit_of_work's __exit__).                    *)
LockIsAccounted ==
  \A t \in Threads : lock = t =>
    /\ conn[t] = "open"
    /\ \/ at[t] \in {"override", "audit", "leave", "unwind"}
       \/ at[t] \in {"idle", "enter"} /\ draft[t] = {"override", "audit"}

(* A call that waits is never waited for: what it waits for is the lock of *)
(* another thread, and it gives up; or it begins, or fails to.             *)
NobodyIsStuck ==
  \A t \in Threads : at[t] = "enter" =>
    \/ conn[t] = "open"
    \/ conn[t] = "idle" /\ lock = None
    \/ lock \notin {None, t}

LInv == Connected /\ LockIsAccounted

(* One step preserves it.                                                  *)
LEMMA LockStep ==
  ASSUME IInv, LInv, [Next]_vars
  PROVE  LInv'
  <1> USE UnitOfWorkAssumption DEF LInv, Connected, LockIsAccounted
  <1>0. /\ at \in [Threads -> Places] /\ lock \in Threads \cup {None}
        /\ conn \in [Threads -> {"none", "idle", "open"}]
        /\ draft \in [Threads -> SUBSET {"override", "audit"}]
    BY DEF IInv, TypeOK
  <1>1. CASE Migrate
    BY <1>1 DEF Migrate
  <1>2. ASSUME NEW p \in Processes, Start(p) PROVE LInv'
    BY <1>2 DEF Start
  <1>3. ASSUME NEW p \in Processes, Crash(p) PROVE LInv'
    BY <1>0, <1>3 DEF Crash, Close
  <1>4. ASSUME NEW t \in Threads, Retire(t) PROVE LInv'
    BY <1>0, <1>4 DEF Retire, Close, world
  <1>5. ASSUME NEW t \in Threads, NEW d \in Attempts, Call(t, d) PROVE LInv'
    BY <1>0, <1>5 DEF Call, Goto, world
  <1>6. ASSUME NEW t \in Threads, Begin(t) PROVE LInv'
    BY <1>0, <1>6 DEF Begin, Goto, world
  <1>7. ASSUME NEW t \in Threads, GiveUp(t) \/ BeginInside(t) PROVE LInv'
    BY <1>0, <1>7 DEF GiveUp, BeginInside, Finish, Goto, world
  <1>8. ASSUME NEW t \in Threads, WriteOverride(t) \/ WriteAudit(t) PROVE LInv'
    BY <1>0, <1>8 DEF WriteOverride, WriteAudit, Write, Goto, world
  <1>9. ASSUME NEW t \in Threads, Raise(t) PROVE LInv'
    BY <1>0, <1>9 DEF Raise, Goto, world
  <1>10. ASSUME NEW t \in Threads, Leave(t) \/ Unwind(t) PROVE LInv'
    BY <1>0, <1>10 DEF Leave, Unwind, Commit, Release, Finish, Goto, world
  <1>11. ASSUME NEW t \in Threads, LeaveFails(t) PROVE LInv'
    <2>1. draft[t] = {"override", "audit"} /\ conn[t] = "open"
      BY <1>11 DEF LeaveFails, IInv, Progress, InTransaction
    <2>2. at' = [at EXCEPT ![t] = "idle"]
      BY <1>11 DEF LeaveFails, Finish, Goto
    <2>3. CASE Release(t)
      BY <1>0, <2>2, <2>3 DEF Release
    <2>4. CASE UNCHANGED <<conn, draft, lock>>
      BY <1>0, <2>1, <2>2, <2>4
    <2> QED
      BY <1>11, <2>3, <2>4 DEF LeaveFails
  <1>12. ASSUME NEW t \in Threads, Return(t) PROVE LInv'
    BY <1>0, <1>12 DEF Return, Finish, Goto, world
  <1>13. CASE UNCHANGED vars
    BY <1>13 DEF vars
  <1> QED
    BY <1>1, <1>2, <1>3, <1>4, <1>5, <1>6, <1>7, <1>8, <1>9, <1>10, <1>11, <1>12, <1>13
    DEF Next, Step

(* The lock is held in the body of a unit of work, or since a COMMIT of    *)
(* its holder failed; and no call waits for its own lock, or for nothing.  *)
THEOREM LocksAreAccounted == Spec => [](LockIsAccounted /\ NobodyIsStuck)
  <1>1. Init => LInv
    BY UnitOfWorkAssumption DEF Init, LInv, Connected, LockIsAccounted
  <1>2. IInv /\ LInv => LockIsAccounted /\ NobodyIsStuck
    BY DEF IInv, TypeOK, LInv, Connected, LockIsAccounted, NobodyIsStuck
  <1>3. IInv /\ LInv /\ [Next]_vars => LInv'
    BY LockStep
  <1> QED
    BY <1>1, <1>2, <1>3, Invariant, PTL DEF Spec

(* The steps a call may still take.                                        *)
ToGo(place) ==
  CASE place = "enter" -> 5 [] place = "override" -> 4 [] place = "audit" -> 3
    [] place = "leave" -> 2 [] place \in {"return", "unwind"} -> 1 [] OTHER -> 0

(* No call takes more than five steps, whatever other threads do in        *)
(* between: each of its own brings it nearer to its end, and no step of    *)
(* another moves it, except that its process may crash.                    *)
CallsAreShort ==
  [][\A t \in Threads : at[t] # "idle" =>
       \/ Step(t) /\ ToGo(at'[t]) < ToGo(at[t])
       \/ at'[t] = at[t]
       \/ at'[t] = "idle" /\ \E p \in Processes : Crash(p) /\ t \in Of(p)]_vars

THEOREM NoCallLingers == Spec => CallsAreShort
  <1>1. TypeOK /\ [Next]_vars =>
          [\A t \in Threads : at[t] # "idle" =>
             \/ Step(t) /\ ToGo(at'[t]) < ToGo(at[t])
             \/ at'[t] = at[t]
             \/ at'[t] = "idle" /\ \E p \in Processes : Crash(p) /\ t \in Of(p)]_vars
    <2> SUFFICES ASSUME TypeOK, Next, NEW t \in Threads, at[t] # "idle"
                 PROVE  \/ Step(t) /\ ToGo(at'[t]) < ToGo(at[t])
                        \/ at'[t] = at[t]
                        \/ at'[t] = "idle" /\ \E p \in Processes : Crash(p) /\ t \in Of(p)
      OBVIOUS
    <2>1. at \in [Threads -> Places]
      BY DEF TypeOK
    <2>2. CASE Migrate \/ \E p \in Processes : Start(p)
      BY <2>2 DEF Migrate, Start
    <2>3. ASSUME NEW p \in Processes, Crash(p)
          PROVE  at'[t] = at[t] \/ (at'[t] = "idle" /\ t \in Of(p))
      BY <2>3 DEF Crash
    <2>4. ASSUME NEW u \in Threads, Retire(u) \/ \E d \in Attempts : Call(u, d)
          PROVE  at'[t] = at[t]
      BY <2>1, <2>4 DEF Retire, Call, Goto
    <2>5. ASSUME NEW u \in Threads, u # t, Step(u) PROVE at'[t] = at[t]
      BY <2>1, <2>5 DEF Step, Begin, GiveUp, BeginInside, WriteOverride, WriteAudit, Write, Raise,
         Leave, LeaveFails, Unwind, Return, Finish, Goto
    <2>6. ASSUME Step(t) PROVE ToGo(at'[t]) < ToGo(at[t])
      <3>1. \/ at[t] = "enter" /\ at'[t] \in {"override", "idle"}
            \/ at[t] = "override" /\ at'[t] \in {"audit", "unwind"}
            \/ at[t] = "audit" /\ at'[t] \in {"leave", "unwind"}
            \/ at[t] = "leave" /\ at'[t] \in {"return", "idle"}
            \/ at[t] \in {"unwind", "return"} /\ at'[t] = "idle"
        BY <2>1, <2>6 DEF Step, Begin, GiveUp, BeginInside, WriteOverride, WriteAudit, Write,
           Raise, Leave, LeaveFails, Unwind, Return, Finish, Goto
      <3> QED
        BY <3>1 DEF ToGo
    <2> QED
      BY <2>2, <2>3, <2>4, <2>5, <2>6 DEF Next
  <1> QED
    BY <1>1, TypeCorrect, PTL DEF Spec, CallsAreShort
=============================================================================
