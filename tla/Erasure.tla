------------------------------ MODULE Erasure ------------------------------
(***************************************************************************)
(* Erasing a candidate while the worker is at work.  A candidate's text is *)
(* in three places: the candidate rows (with their verdicts), the trace    *)
(* files, one per run and content, and the memory of the worker.  The      *)
(* `traces` table is what purge_candidate finds the files by.  The queue   *)
(* is left out: the worker may take, and retry, any file at any time.      *)
(***************************************************************************)
EXTENDS FiniteSets

CONSTANTS
  Runs,     \* run ids, all under equal screening conditions
  Shas,     \* contents of resumes, by sha256
  Purgers,  \* the API threads and CLI commands that may purge at the same time
  NoSha,    \* no purge under way
  NoPlace   \* the worker has no job

Places == Runs \X Shas  \* addresses a candidate row and a trace path alike

ASSUME ErasureAssumption == NoSha \notin Shas /\ NoPlace \notin Places

VARIABLES
  row,       \* candidates and verdicts: the text they hold, the cacheable column
  file,      \* the text in <trace_dir>/<run>/<sha>.jsonl
  index,     \* the places the traces table has a row for
  at, hand, text,      \* the worker: where it is, its job, the text it holds
  purging, unlinking,  \* each purger: the sha, and the files it has yet to unlink
  lost,      \* history: the places where a fault cost a trace file its index row
  inFlight   \* history: the shas the worker held text of when last purged

worker == <<at, hand, text>>
purger == <<purging, unlinking>>
history == <<lost, inFlight>>
vars == <<row, file, index, worker, purger, history>>

(* "old" text was read from the resume, or copied from a row, before the   *)
(* last purge of its content; "fresh" text was not.                        *)
Texts == {"none", "fresh", "old"}
NoRow == [text |-> "none", cacheable |-> FALSE]
Steps == {"idle", "looking", "judging", "writing", "indexing", "saving"}

TypeOK ==
  /\ row \in [Places -> [text : Texts \cup {"blank"}, cacheable : BOOLEAN]]
  /\ file \in [Places -> Texts]
  /\ index \in SUBSET Places
  /\ at \in Steps /\ hand \in Places \cup {NoPlace} /\ text \in Texts \cup {"blank"}
  /\ purging \in [Purgers -> Shas \cup {NoSha}]
  /\ unlinking \in [Purgers -> SUBSET Places]
  /\ lost \in SUBSET Places /\ inFlight \in SUBSET Shas
  /\ (hand = NoPlace) = (at = "idle")
  /\ (text = "none") = (at \in {"idle", "looking"})
  /\ \A p \in Purgers : unlinking[p] \subseteq Runs \X (Shas \cap {purging[p]})

Init ==
  /\ row = [c \in Places |-> NoRow]
  /\ file = [c \in Places |-> "none"]
  /\ index = {}
  /\ at = "idle" /\ hand = NoPlace /\ text = "none"
  /\ purging = [p \in Purgers |-> NoSha]
  /\ unlinking = [p \in Purgers |-> {}]
  /\ lost = {} /\ inFlight = {}
-----------------------------------------------------------------------------
(* The worker: Worker._process, one action between two things others see.  *)
Take(c) ==
  /\ at = "idle"
  /\ at' = "looking" /\ hand' = c
  /\ UNCHANGED <<row, file, index, text, purger, history>>

(* get_cached, by content; on a miss screen_one reads the resume.          *)
Served == {row[<<r, hand[2]>>].text : r \in {q \in Runs : row[<<q, hand[2]>>].cacheable}}

LookUp ==
  /\ at = "looking"
  /\ \/ text' \in Served /\ at' = "saving"
     \/ Served = {} /\ text' = "fresh" /\ at' = "judging"
  /\ UNCHANGED <<row, file, index, hand, purger, history>>

Judge ==
  /\ at = "judging"
  /\ at' = "writing"
  /\ UNCHANGED <<row, file, index, hand, text, purger, history>>

WriteTrace ==
  /\ at = "writing"
  /\ file' = [file EXCEPT ![hand] = text]
  /\ at' = "indexing"
  /\ UNCHANGED <<row, index, hand, text, purger, history>>

IndexTrace ==
  /\ at = "indexing"
  /\ index' = index \cup {hand}
  /\ at' = "saving"
  /\ UNCHANGED <<row, file, hand, text, purger, history>>

(* The sink swallows the failure and logs trace_unindexed.                 *)
IndexFails ==
  /\ at = "indexing"
  /\ lost' = lost \cup {hand}
  /\ at' = "saving"
  /\ UNCHANGED <<row, file, index, hand, text, purger, inFlight>>

\* Slip: the candidate stays in memory.
DropJob == at' = "idle" /\ hand' = NoPlace /\ UNCHANGED text

Drop == at' = "idle" /\ hand' = NoPlace /\ text' = "none"

Save ==
  /\ at = "saving"
  /\ row' = IF row[hand].text = "none"  \* UNIQUE(file_sha256, run_id)
            THEN [row EXCEPT ![hand] = [text |-> text, cacheable |-> TRUE]]
            ELSE row
  /\ Drop
  /\ UNCHANGED <<file, index, purger, history>>

(* A write that raises half-way has created the file; the sink's try does  *)
(* not cover it, so nothing indexes the file.                              *)
WriteFails ==
  /\ at = "writing"
  /\ file' = [file EXCEPT ![hand] = text]
  /\ lost' = lost \cup {hand}
  /\ Drop
  /\ UNCHANGED <<row, index, purger, inFlight>>

(* The worker dies, or the job fails and is queued again.                  *)
GiveUp ==
  /\ at # "idle"
  /\ lost' = IF at = "indexing" THEN lost \cup {hand} ELSE lost
  /\ Drop
  /\ UNCHANGED <<row, file, index, purger, inFlight>>
-----------------------------------------------------------------------------
(* purge_candidate: the database in one transaction, then file by file.    *)
Of(s) == Runs \X {s}

\* Slip: the row is hidden from the cache but keeps its text.
OnlyHidden(entry) == [entry EXCEPT !.cacheable = FALSE]

\* Slip: the row is blanked but may still be served.
OnlyBlanked(entry) == IF entry.text = "none" THEN entry ELSE [entry EXCEPT !.text = "blank"]

Blanked(entry) ==
  IF entry.text = "none" THEN entry ELSE [text |-> "blank", cacheable |-> FALSE]

\* Slip: only the files of one run are looked for.
FirstFound(s) == LET found == index \cap Of(s)
                 IN IF found = {} THEN {} ELSE {CHOOSE c \in found : TRUE}

Found(s) == index \cap Of(s)

Aged(t) == IF t = "fresh" THEN "old" ELSE t
Outlived(entry) == [entry EXCEPT !.text = Aged(@)]
Holds(s) == text # "none" /\ hand \in Of(s)

PurgeRows(p, s) ==
  /\ purging[p] = NoSha
  /\ purging' = [purging EXCEPT ![p] = s]
  /\ unlinking' = [unlinking EXCEPT ![p] = Found(s)]
  /\ index' = index \ Of(s)
  /\ row' = [c \in Places |-> IF c \in Of(s) THEN Outlived(Blanked(row[c])) ELSE row[c]]
  /\ file' = [c \in Places |-> IF c \in Of(s) THEN Aged(file[c]) ELSE file[c]]
  /\ text' = IF Holds(s) THEN Aged(text) ELSE text
  /\ inFlight' = IF Holds(s) THEN inFlight \cup {s} ELSE inFlight \ {s}
  /\ UNCHANGED <<at, hand, lost>>

(* A file that is already gone counts as unlinked.                         *)
Unlink(p) ==
  /\ \E c \in unlinking[p] :
       /\ file' = [file EXCEPT ![c] = "none"]
       /\ unlinking' = [unlinking EXCEPT ![p] = @ \ {c}]
  /\ UNCHANGED <<row, index, worker, purging, history>>

Idle(p) ==
  /\ purging' = [purging EXCEPT ![p] = NoSha]
  /\ unlinking' = [unlinking EXCEPT ![p] = {}]

Return(p) ==
  /\ purging[p] # NoSha /\ unlinking[p] = {}
  /\ Idle(p)
  /\ UNCHANGED <<row, file, index, worker, history>>

(* unlink raises anything but FileNotFoundError, or the process dies: the  *)
(* files that are left have no index row any more.                         *)
Abandon(p) ==
  /\ unlinking[p] # {}
  /\ lost' = lost \cup unlinking[p]
  /\ Idle(p)
  /\ UNCHANGED <<row, file, index, worker, inFlight>>

Next ==
  \/ \E c \in Places : Take(c)
  \/ LookUp \/ Judge \/ WriteTrace \/ IndexTrace \/ IndexFails \/ Save
  \/ WriteFails \/ GiveUp
  \/ \E p \in Purgers : \/ \E s \in Shas : PurgeRows(p, s)
                        \/ Unlink(p) \/ Return(p) \/ Abandon(p)

Spec == Init /\ [][Next]_vars
-----------------------------------------------------------------------------
(* A trace file on disk is one that erasure can find - indexed, about to   *)
(* be, or on the list of a purge under way - unless a fault is on record   *)
(* for its place: "the write and the index must both happen" (TraceWriter).*)
TracesAreFindable ==
  \A c \in Places : file[c] # "none" =>
    \/ c \in index \cup lost
    \/ at = "indexing" /\ hand = c
    \/ \E p \in Purgers : c \in unlinking[p]

(* Text from before a purge outlives it in a trace file only by a fault,   *)
(* or because the worker held it at that moment, or until it is unlinked;  *)
(* in a candidate row only because the worker held it (purge_candidate).   *)
PurgeIsThorough ==
  \A c \in Places :
    /\ file[c] = "old" => \/ c \in lost \/ c[2] \in inFlight
                          \/ \E p \in Purgers : c \in unlinking[p]
    /\ row[c].text = "old" => c[2] \in inFlight

(* What a purge has blanked is never filed as a candidate of another run.  *)
NothingBlankIsFiled ==
  [][\A c \in Places : row[c].text = "none" => row'[c].text # "blank"]_vars

(* purge_candidate "clears every store": trace files "and the source file" *)
(* (spec 12.6).  So once it has run, with no worker holding the candidate, *)
(* nothing can bring the text back.                                        *)
ErasedStaysErased ==
  [][\A c \in Places, d \in Places :
       row[c].text = "blank" /\ c[2] = d[2] /\ c[2] \notin inFlight
       => row'[d].text \in {row[d].text, "blank"}]_vars
=============================================================================
