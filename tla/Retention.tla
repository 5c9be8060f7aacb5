----------------------------- MODULE Retention -----------------------------
(***************************************************************************)
(* Execution rows against log files: workers write logs, the daily purge   *)
(* of RetentionService deletes what is old, project deletions cascade to   *)
(* the rows alone (services/retention_service.py, file_log_store.py,       *)
(* sqlite_execution_repository.py, purge_safely as a job of main.py).      *)
(*                                                                         *)
(* Row ids are reused (no AUTOINCREMENT). The purge is one transaction;    *)
(* from its first DELETE to its end it holds SQLite's write lock, and the  *)
(* other writers wait. Files are not part of it.                           *)
(***************************************************************************)
EXTENDS Naturals, FiniteSets, FiniteSetsExt

CONSTANTS
    MaxRows,     \* bound: the highest execution id
    MaxMishaps   \* bound: failed unlinks, failed commits, deaths of the process

Id == 1..MaxRows

(* Assumed of the constants, by the modules that give them values. *)
RetentionAssumption == MaxRows \in Nat /\ MaxMishaps \in Nat

VARIABLES
    exec,      \* committed row: none, queued, running, recent or old (terminal)
    file,      \* whether the log file exists
    task,      \* the worker of each execution
    purge,     \* where the purge is
    todo,      \* rows it has listed and not handled
    erased,    \* rows it has deleted and not committed
    cascaded,  \* history: ids whose row went with its project
    mishaps

retentionVars == <<exec, file, task, purge, todo, erased, cascaded, mishaps>>

-----------------------------------------------------------------------------

RetentionTypeOK ==
    /\ exec \in [Id -> {"none", "queued", "running", "recent", "old"}]
    /\ file \in [Id -> BOOLEAN]
    /\ task \in [Id -> {"none", "open", "exec"}]
    /\ purge \in {"idle", "unlink", "delete", "commit"}
    /\ todo \subseteq Id /\ erased \subseteq Id /\ cascaded \subseteq Id
    /\ mishaps \in 0..MaxMishaps

RetentionInit ==
    /\ exec = [i \in Id |-> "none"]
    /\ file = [i \in Id |-> FALSE]
    /\ task = [i \in Id |-> "none"]
    /\ purge = "idle" /\ todo = {} /\ erased = {}
    /\ cascaded = {} /\ mishaps = 0

Rows == {i \in Id : exec[i] # "none"}
Unlocked == erased = {}
Mishap == mishaps < MaxMishaps /\ mishaps' = mishaps + 1

(* enqueue(): SQLite's rowid is one more than the highest. *)
AddRow ==
    /\ Unlocked
    /\ LET i == 1 + Max(Rows \cup {0}) IN
         i \in Id /\ exec' = [exec EXCEPT ![i] = "queued"]
    /\ UNCHANGED <<file, task, purge, todo, erased, cascaded, mishaps>>

(* A worker is spawned for a queued row and commits `running`. *)
Dispatch(i) ==
    /\ exec[i] = "queued" /\ task[i] = "none" /\ Unlocked
    /\ exec' = [exec EXCEPT ![i] = "running"]
    /\ task' = [task EXCEPT ![i] = "open"]
    /\ UNCHANGED <<file, purge, todo, erased, cascaded, mishaps>>

(* open_writer: the file is made, or truncated, row or no row. *)
OpenWriter(i) ==
    /\ task[i] = "open"
    /\ file' = [file EXCEPT ![i] = TRUE]
    /\ task' = [task EXCEPT ![i] = "exec"]
    /\ UNCHANGED <<exec, purge, todo, erased, cascaded, mishaps>>

(* The terminal status goes to the row of that id, if there is one. *)
EndTask(i) ==
    /\ task[i] = "exec" /\ Unlocked
    /\ task' = [task EXCEPT ![i] = "none"]
    /\ exec' = [exec EXCEPT ![i] = IF @ = "none" THEN @ ELSE "recent"]
    /\ UNCHANGED <<file, purge, todo, erased, cascaded, mishaps>>

GrowOld(i) ==
    /\ exec[i] = "recent"
    /\ exec' = [exec EXCEPT ![i] = "old"]
    /\ UNCHANGED <<file, task, purge, todo, erased, cascaded, mishaps>>

(* ProjectService.delete: rows of its runners go, and no file. *)
CascadeRows ==
    /\ Unlocked
    /\ \E S \in SUBSET Rows :
         /\ S # {}
         /\ exec' = [i \in Id |-> IF i \in S THEN "none" ELSE exec[i]]
         /\ cascaded' = cascaded \cup S
    /\ UNCHANGED <<file, task, purge, todo, erased, mishaps>>

-----------------------------------------------------------------------------
(* RetentionService.purge *)

(* Mutant: rows are taken by their finish date's absence as well. *)
Candidates_live == {i \in Id : exec[i] \in {"old", "running"}}

(* list_finished_before: only terminal rows have a finish date. *)
Candidates == {i \in Id : exec[i] = "old"}

PurgeBegin ==
    /\ purge = "idle" /\ Candidates # {}
    /\ todo' = Candidates /\ purge' = "unlink"
    /\ UNCHANGED <<exec, file, task, erased, cascaded, mishaps>>

Next1 == Min(todo)

(* Mutant: unlink() without missing_ok. *)
CanUnlink_strict(i) == file[i]

(* A log that is not there is no error. *)
CanUnlink(i) == TRUE

Unlink ==
    /\ purge = "unlink" /\ CanUnlink(Next1)
    /\ file' = [file EXCEPT ![Next1] = FALSE]
    /\ purge' = "delete"
    /\ UNCHANGED <<exec, task, todo, erased, cascaded, mishaps>>

(* The row is read again and deleted if it is there. *)
DeleteRow ==
    /\ purge = "delete"
    /\ erased' = IF Next1 \in Rows THEN erased \cup {Next1} ELSE erased
    /\ todo' = todo \ {Next1}
    /\ purge' = IF todo = {Next1} THEN "commit" ELSE "unlink"
    /\ UNCHANGED <<exec, file, task, cascaded, mishaps>>

PurgeCommit ==
    /\ purge = "commit"
    /\ exec' = [i \in Id |-> IF i \in erased THEN "none" ELSE exec[i]]
    /\ purge' = "idle" /\ erased' = {}
    /\ UNCHANGED <<file, task, todo, cascaded, mishaps>>

Rollback == purge' = "idle" /\ todo' = {} /\ erased' = {}

(* Mutant: a log that cannot be deleted is left, its row is not. *)
UnlinkFails_ignored ==
    /\ purge = "unlink" /\ Mishap
    /\ purge' = "delete"
    /\ UNCHANGED <<exec, file, task, todo, erased, cascaded>>

(* The log cannot be deleted: the purge is rolled back and purge_safely    *)
(* leaves it to the next run.                                              *)
UnlinkFails ==
    /\ purge = "unlink" /\ Mishap
    /\ Rollback
    /\ UNCHANGED <<exec, file, task, cascaded>>

(* The database fails. *)
PurgeFails ==
    /\ purge \in {"delete", "commit"} /\ Mishap
    /\ Rollback
    /\ UNCHANGED <<exec, file, task, cascaded>>

(* The process dies and is started again; rows left live stay so. *)
Die ==
    /\ Mishap
    /\ Rollback
    /\ task' = [i \in Id |-> "none"]
    /\ UNCHANGED <<exec, file, cascaded>>

-----------------------------------------------------------------------------

PurgeStep ==
    \/ PurgeBegin \/ Unlink \/ DeleteRow \/ PurgeCommit

RetentionNext ==
    \/ AddRow \/ CascadeRows
    \/ \E i \in Id : Dispatch(i) \/ OpenWriter(i) \/ EndTask(i) \/ GrowOld(i)
    \/ PurgeStep \/ UnlinkFails \/ PurgeFails \/ Die

RetentionSpec == RetentionInit /\ [][RetentionNext]_retentionVars

(* The job runs every day, and what it waits for answers. *)
RetentionFairness == WF_retentionVars(PurgeStep)

-----------------------------------------------------------------------------

(* A log without its row is one whose row went with its project: a purge   *)
(* that fails anywhere leaves the row, never the log alone (docstring of   *)
(* RetentionService.purge).                                                *)
NoOrphanLog == \A i \in Id : file[i] /\ exec[i] = "none" =>
    i \in cascaded

(* The purge takes the log and the row of old executions only, while no    *)
(* id has changed hands since it listed them (RetentionService.purge).     *)
RetentionSparesLive ==
    [][\A i \in Id \ cascaded :
         /\ file[i] /\ ~file'[i] => exec[i] = "old"
         /\ exec[i] # "none" /\ exec'[i] = "none" /\ i \notin cascaded' =>
              exec[i] = "old"]_retentionVars

(* Every old execution goes in the end: a purge that has deleted logs and  *)
(* failed does not stop those after it (purge, FileLogStore.delete).       *)
OldRowsGo == \A i \in Id : exec[i] = "old" ~> exec[i] # "old"
=============================================================================
