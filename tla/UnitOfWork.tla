----------------------------- MODULE UnitOfWork -----------------------------
(***************************************************************************)
(* The transaction boundary: threads of several processes, each with a     *)
(* connection of its own to one SQLite file, recording decisions.  A body  *)
(* of two writes, the decision and its audit row, stands for every service *)
(* method: whatever it raises, the row and its audit row land together.    *)
(***************************************************************************)
EXTENDS FiniteSets

CONSTANTS
  Attempts,   \* calls of record_override, each to add one row
  Threads,    \* request threads of the API, and a terminal's only thread
  Processes,
  ProcOf,     \* the process of a thread
  Gated,      \* processes that check the schema before they serve: not commands
  None

ASSUME UnitOfWorkAssumption ==
  /\ ProcOf \in [Threads -> Processes]
  /\ None \notin Attempts \cup Threads

VARIABLES
  schema,     \* whether the migrations were applied
  up,         \* the processes that run
  at,         \* where a thread is in `with unit_of_work()`
  task,       \* the attempt it is making, or None
  conn,       \* its connection: none, idle, or inside a transaction
  draft,      \* the tables its transaction has written
  lock,       \* SQLite's write lock: the thread that holds it, or None
  overrides, audit,  \* the attempts with a committed row in each table
  told        \* what became of an attempt, for whoever made it

vars == <<schema, up, at, task, conn, draft, lock, overrides, audit, told>>
world == <<schema, up>>
disk == <<overrides, audit>>

Init ==
  /\ schema \in BOOLEAN
  /\ up = {}
  /\ at = [t \in Threads |-> "idle"]
  /\ task = [t \in Threads |-> None]
  /\ conn = [t \in Threads |-> "none"]
  /\ draft = [t \in Threads |-> {}]
  /\ lock = None
  /\ overrides = {} /\ audit = {}
  /\ told = [d \in Attempts |-> "new"]
-----------------------------------------------------------------------------
(* Processes.                                                              *)

Of(p) == {t \in Threads : ProcOf[t] = p}

(* yoyo applies what is outstanding under its own lock.                    *)
Migrate == ~schema /\ lock = None /\ schema' = TRUE
           /\ UNCHANGED <<up, at, task, conn, draft, lock, disk, told>>

Start(p) == p \notin up /\ (p \in Gated => schema) /\ up' = up \cup {p}
            /\ UNCHANGED <<schema, at, task, conn, draft, lock, disk, told>>

(* A connection that goes away takes its transaction with it.              *)
Close(ts) ==
  /\ conn' = [t \in Threads |-> IF t \in ts THEN "none" ELSE conn[t]]
  /\ draft' = [t \in Threads |-> IF t \in ts THEN {} ELSE draft[t]]
  /\ lock' = IF lock \in ts THEN None ELSE lock

Crash(p) ==
  /\ p \in up
  /\ up' = up \ {p}
  /\ at' = [t \in Threads |-> IF t \in Of(p) THEN "idle" ELSE at[t]]
  /\ task' = [t \in Threads |-> IF t \in Of(p) THEN None ELSE task[t]]
  /\ Close(Of(p))
  /\ UNCHANGED <<schema, disk, told>>

(* Slip: closing a connection commits what it wrote.                       *)
RetireCommits(t) ==
  /\ ProcOf[t] \in up /\ at[t] = "idle" /\ conn[t] # "none"
  /\ overrides' = IF draft[t] = {} THEN overrides ELSE overrides \cup {task[t]}
  /\ Close({t})
  /\ UNCHANGED <<world, at, task, audit, told>>

(* The thread pool drops idle threads, and their connections with them.    *)
Retire(t) ==
  /\ ProcOf[t] \in up /\ at[t] = "idle" /\ conn[t] # "none"
  /\ Close({t})
  /\ UNCHANGED <<world, at, task, disk, told>>
-----------------------------------------------------------------------------
(* A service call.                                                         *)

Goto(t, place) == at' = [at EXCEPT ![t] = place]

(* The call returns or raises, and the caller hears of it.                 *)
Finish(t, outcome) ==
  /\ Goto(t, "idle")
  /\ task' = [task EXCEPT ![t] = None]
  /\ told' = [told EXCEPT ![task[t]] = outcome]

Release(t) ==
  /\ conn' = [conn EXCEPT ![t] = "idle"]
  /\ draft' = [draft EXCEPT ![t] = {}]
  /\ lock' = None

Call(t, d) ==
  /\ ProcOf[t] \in up /\ at[t] = "idle" /\ told[d] = "new"
  /\ Goto(t, "enter")
  /\ task' = [task EXCEPT ![t] = d]
  /\ told' = [told EXCEPT ![d] = "begun"]
  /\ conn' = [conn EXCEPT ![t] = IF @ = "none" THEN "idle" ELSE @]
  /\ UNCHANGED <<world, draft, lock, disk>>

(* Slip: the default, deferred BEGIN, which takes no lock.                 *)
BeginDeferred(t) ==
  /\ at[t] = "enter" /\ conn[t] = "idle"
  /\ Goto(t, "override")
  /\ conn' = [conn EXCEPT ![t] = "open"]
  /\ lock' = IF lock = None THEN t ELSE lock
  /\ UNCHANGED <<world, task, draft, disk, told>>

(* BEGIN IMMEDIATE.                                                        *)
Begin(t) ==
  /\ at[t] = "enter" /\ conn[t] = "idle" /\ lock = None
  /\ Goto(t, "override")
  /\ conn' = [conn EXCEPT ![t] = "open"]
  /\ lock' = t
  /\ UNCHANGED <<world, task, draft, disk, told>>

(* Slip: a writer waits for the lock as long as it takes.                  *)
WaitOn(t) == FALSE /\ UNCHANGED vars

(* busy_timeout ran out.  __enter__ raised: __exit__ is not called.        *)
GiveUp(t) ==
  /\ at[t] = "enter" /\ lock \notin {None, t}
  /\ Finish(t, "error")
  /\ UNCHANGED <<world, conn, draft, lock, disk>>

(* A transaction within a transaction: the last COMMIT of this thread      *)
(* failed and left it open.  __enter__ raised: it stays open.              *)
BeginInside(t) ==
  /\ at[t] = "enter" /\ conn[t] = "open"
  /\ Finish(t, "error")
  /\ UNCHANGED <<world, conn, draft, lock, disk>>

Write(t, table, next) ==
  /\ at[t] = table /\ schema /\ lock = t
  /\ draft' = [draft EXCEPT ![t] = @ \cup {table}]
  /\ Goto(t, next)
  /\ UNCHANGED <<world, task, conn, lock, disk, told>>

WriteOverride(t) == Write(t, "override", "audit")
WriteAudit(t) == Write(t, "audit", "leave")

(* The body raises: a rule, a key, a full disk, a missing table.           *)
Raise(t) ==
  /\ at[t] \in {"override", "audit"}
  /\ Goto(t, "unwind")
  /\ UNCHANGED <<world, task, conn, draft, lock, disk, told>>

Commit(t) ==
  /\ overrides' = IF "override" \in draft[t] THEN overrides \cup {task[t]} ELSE overrides
  /\ audit' = IF "audit" \in draft[t] THEN audit \cup {task[t]} ELSE audit
  /\ Release(t)

(* Slip: the context manager commits whatever happened.                    *)
AlwaysCommit(t) ==
  /\ at[t] \in {"leave", "unwind"}
  /\ Commit(t)
  /\ Goto(t, "return")
  /\ UNCHANGED <<world, task, told>>

(* __exit__ without an exception.                                          *)
Leave(t) ==
  /\ at[t] = "leave"
  /\ Commit(t)
  /\ Goto(t, "return")
  /\ UNCHANGED <<world, task, told>>

(* Slip: the failure of a COMMIT is only logged.                           *)
LeaveQuietly(t) ==
  /\ at[t] = "leave"
  /\ Release(t)
  /\ Finish(t, "ok")
  /\ UNCHANGED <<world, disk>>

(* COMMIT raises: SQLite has rolled back, or has left the transaction to   *)
(* be rolled back, which nobody does.                                      *)
LeaveFails(t) ==
  /\ at[t] = "leave"
  /\ Release(t) \/ UNCHANGED <<conn, draft, lock>>
  /\ Finish(t, "error")
  /\ UNCHANGED <<world, disk>>

(* Slip: an exception just propagates.                                     *)
JustPropagate(t) ==
  /\ at[t] = "unwind"
  /\ Finish(t, "error")
  /\ UNCHANGED <<world, conn, draft, lock, disk>>

(* __exit__ with an exception.                                             *)
Unwind(t) ==
  /\ at[t] = "unwind"
  /\ Release(t)
  /\ Finish(t, "error")
  /\ UNCHANGED <<world, disk>>

Return(t) ==
  /\ at[t] = "return"
  /\ Finish(t, "ok")
  /\ UNCHANGED <<world, conn, draft, lock, disk>>

Step(t) ==
  \/ Begin(t) \/ GiveUp(t) \/ BeginInside(t)
  \/ WriteOverride(t) \/ WriteAudit(t) \/ Raise(t)
  \/ Leave(t) \/ LeaveFails(t) \/ Unwind(t) \/ Return(t)

Next ==
  \/ Migrate
  \/ \E p \in Processes : Start(p) \/ Crash(p)
  \/ \E t \in Threads : Retire(t) \/ Step(t) \/ \E d \in Attempts : Call(t, d)

Spec == Init /\ [][Next]_vars

(* A thread inside a call is running code.                                 *)
FairSpec == Spec /\ \A t \in Threads : WF_vars(Step(t))
-----------------------------------------------------------------------------
Places == {"idle", "enter", "override", "audit", "leave", "unwind", "return"}

TypeOK ==
  /\ schema \in BOOLEAN
  /\ up \subseteq Processes
  /\ at \in [Threads -> Places]
  /\ task \in [Threads -> Attempts \cup {None}]
  /\ conn \in [Threads -> {"none", "idle", "open"}]
  /\ draft \in [Threads -> SUBSET {"override", "audit"}]
  /\ lock \in Threads \cup {None}
  /\ overrides \subseteq Attempts /\ audit \subseteq Attempts
  /\ told \in [Attempts -> {"new", "begun", "ok", "error"}]

(* Every override on disk has its audit row and the other way round, at    *)
(* every crash, failed COMMIT and exception (record_override's docstring). *)
AllOrNothing == overrides = audit

(* What a thread whose connection is inside a transaction may assume: it   *)
(* alone writes.  A unit of work that began is never refused the lock      *)
(* half way through (unit_of_work's docstring).                            *)
OnlyWriter == \A t \in Threads : conn[t] = "open" => lock = t

(* Its callers cannot tell a unit of work from a single step.              *)
Log == INSTANCE DecisionLog WITH recorded <- overrides \cap audit
ImplementsLog == Log!Spec

(* The write lock comes free again, unless the COMMIT of a finished body   *)
(* failed and left its transaction open: then every writer of every        *)
(* process times out until that thread is gone.                            *)
LockComesFree ==
  \A t \in Threads : lock = t ~> \/ lock # t
                                 \/ /\ draft[t] = {"override", "audit"}
                                    /\ at[t] \in {"idle", "enter"}

(* A call returns or raises, however long another keeps the lock.          *)
CallsEnd == \A t \in Threads : at[t] # "idle" ~> at[t] = "idle"
=============================================================================
