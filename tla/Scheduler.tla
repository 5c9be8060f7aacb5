----------------------------- MODULE Scheduler -----------------------------
(***************************************************************************)
(* Runners in the database against cron jobs in memory: RunnerService and  *)
(* ProjectService write rows, RunnerService then tells SchedulerService,   *)
(* which keeps APScheduler's job store (services/runner_service.py,        *)
(* services/scheduler_service.py,                                          *)
(* adapters/input/scheduler/scheduler_adapter.py).                         *)
(*                                                                         *)
(* A row is reduced to the columns the schedule depends on. Requests are   *)
(* handled concurrently: a step ends wherever the handler awaits. A job    *)
(* carries only the runner's id and its trigger, built from a cron         *)
(* expression, so job[r] is that expression or None.                       *)
(***************************************************************************)
EXTENDS Naturals, FiniteSetsExt

CONSTANTS
    MaxRunners,   \* bound: the highest runner id
    Cron,         \* expressions the domain validator accepts
    Schedulable,  \* those of them APScheduler builds a trigger from
    Request,      \* bound: operations in flight at once
    None,         \* no row, no job, no operation
    CanCascade    \* whether projects may be deleted

Runner == 1..MaxRunners
Row == [cron : Cron, enabled : BOOLEAN]

(* An operation under way. entity: the row as it read and changed it,      *)
(* which save() writes; base: the row save() reads again, to find the      *)
(* columns to write.                                                       *)
Operation ==
    [kind : {"create", "update", "enable", "disable", "delete"},
     id : Runner \cup {None},
     entity : Row \cup {None},
     base : Row \cup {None},
     step : {"save", "commit", "notify"}]

ASSUME ConstantsAssumption ==
    /\ MaxRunners \in Nat
    /\ Schedulable \subseteq Cron
    /\ None \notin Cron \cup Row \cup Operation \cup Runner
    /\ CanCascade \in BOOLEAN

VARIABLES
    row,      \* committed row of each runner id
    job,      \* cron expression of the job registered under each id
    op,       \* operation each request is in
    fire,     \* where the callback of each runner's job is
    process   \* boot, up, or failed to boot

vars == <<row, job, op, fire, process>>

-----------------------------------------------------------------------------
(* Types and initial state *)

(* What an operation has, by its kind and step. *)
WellFormed(o) ==
    /\ o.step = "save" => o.kind \notin {"create", "delete"}
    /\ o.kind # "delete" => o.entity \in Row
    /\ o.kind # "create" \/ o.step = "notify" => o.id \in Runner
    /\ o.kind \notin {"create", "delete"} /\ o.step = "commit" => o.base \in Row

(* max_instances=1: a job's callback never overlaps itself. *)
FireState == {"idle", "fired", "drop", "enqueue"}

TypeOK ==
    /\ row \in [Runner -> Row \cup {None}]
    /\ job \in [Runner -> Schedulable \cup {None}]
    /\ op \in [Request -> {o \in Operation : WellFormed(o)} \cup {None}]
    /\ fire \in [Runner -> FireState]
    /\ process \in {"boot", "up", "failed"}

Init ==
    /\ row = [r \in Runner |-> None]
    /\ job = [r \in Runner |-> None]
    /\ op = [q \in Request |-> None]
    /\ fire = [r \in Runner |-> "idle"]
    /\ process = "boot"

Present == {r \in Runner : row[r] # None}
Enabled == {r \in Present : row[r].enabled}

-----------------------------------------------------------------------------
(* SchedulerService.register and the adapter *)

(* Mutant: a job already registered is kept. *)
Registered_keepsOld(r, entity) ==
    IF ~entity.enabled THEN None
    ELSE IF job[r] # None THEN job[r]
    ELSE IF entity.cron \in Schedulable THEN entity.cron ELSE None

(* Mutant: any validated expression makes a trigger. *)
Registered_unchecked(r, entity) == IF entity.enabled THEN entity.cron ELSE None

(* The job of r after register(entity): removed if the runner is disabled; *)
(* otherwise the old job goes first, so when build_trigger then raises no  *)
(* job is left.                                                            *)
Registered(r, entity) ==
    IF entity.enabled /\ entity.cron \in Schedulable THEN entity.cron ELSE None

-----------------------------------------------------------------------------
(* RunnerService *)

(* SQLite's rowid without AUTOINCREMENT: one more than the highest. *)
NextId == 1 + Max(Present \cup {0})

Operate(q, kind, id, entity, base, step) ==
    op' = [op EXCEPT ![q] = [kind |-> kind, id |-> id, entity |-> entity,
                             base |-> base, step |-> step]]

Return(q) == op' = [op EXCEPT ![q] = None]

(* create() has checked its project and name; an added runner is enabled.  *)
Create(q) ==
    /\ process = "up" /\ op[q] = None
    /\ \E c \in Cron :
         Operate(q, "create", None, [cron |-> c, enabled |-> TRUE], None, "commit")
    /\ UNCHANGED <<row, job, fire, process>>

(* update() and _set_enabled() read the row and change their copy. An      *)
(* update of other columns is one that names the expression there is.      *)
Read(q) ==
    /\ process = "up" /\ op[q] = None
    /\ \E r \in Present :
         \/ \E c \in Cron :
              Operate(q, "update", r, [row[r] EXCEPT !.cron = c], None, "save")
         \/ Operate(q, "enable", r, [row[r] EXCEPT !.enabled = TRUE], None, "save")
         \/ Operate(q, "disable", r, [row[r] EXCEPT !.enabled = FALSE], None, "save")
         \/ Operate(q, "delete", r, None, None, "commit")
    /\ UNCHANGED <<row, job, fire, process>>

(* save() reads the row again and raises if it is gone. *)
Save(q) ==
    /\ op[q] # None /\ op[q].step = "save"
    /\ LET o == op[q] IN
         IF row[o.id] = None THEN Return(q)
         ELSE Operate(q, o.kind, o.id, o.entity, row[o.id], "commit")
    /\ UNCHANGED <<row, job, fire, process>>

ToNotify(q, r) == Operate(q, op[q].kind, r, op[q].entity, None, "notify")

CommitCreate(q) ==
    /\ op[q] # None /\ op[q].step = "commit" /\ op[q].kind = "create"
    /\ NextId \in Runner
    /\ row' = [row EXCEPT ![NextId] = op[q].entity]
    /\ ToNotify(q, NextId)
    /\ UNCHANGED <<job, fire, process>>

(* The ORM's UPDATE names the columns in which the entity differs from the *)
(* row save() read, and leaves the others as they are now.                 *)
Written(now, base, entity) ==
    [cron |-> IF entity.cron # base.cron THEN entity.cron ELSE now.cron,
     enabled |-> IF entity.enabled # base.enabled THEN entity.enabled
                 ELSE now.enabled]

(* An UPDATE that meets no row raises; where no column differs none is     *)
(* sent (an update may yet send one, for a column not modelled).           *)
CommitUpdate(q) ==
    /\ op[q] # None /\ op[q].step = "commit"
    /\ op[q].kind \in {"update", "enable", "disable"}
    /\ LET o == op[q] IN
         \/ /\ row[o.id] # None
            /\ row' = [row EXCEPT ![o.id] = Written(@, o.base, o.entity)]
            /\ ToNotify(q, o.id)
         \/ /\ row[o.id] = None /\ o.entity = o.base
            /\ ToNotify(q, o.id)
            /\ row' = row
         \/ /\ row[o.id] = None /\ (o.entity # o.base \/ o.kind = "update")
            /\ Return(q)
            /\ row' = row
    /\ UNCHANGED <<job, fire, process>>

CommitDelete(q) ==
    /\ op[q] # None /\ op[q].step = "commit" /\ op[q].kind = "delete"
    /\ row' = [row EXCEPT ![op[q].id] = None]
    /\ ToNotify(q, op[q].id)
    /\ UNCHANGED <<job, fire, process>>

(* After the commit and the closing of the session: the scheduler's hook.  *)
Notify(q) ==
    /\ op[q] # None /\ op[q].step = "notify"
    /\ job' = [job EXCEPT ![op[q].id] =
                 IF op[q].kind = "delete" THEN None
                 ELSE Registered(op[q].id, op[q].entity)]
    /\ Return(q)
    /\ UNCHANGED <<row, fire, process>>

(* ProjectService.delete: the runners of a project go with it, and the     *)
(* scheduler is not told.                                                  *)
Cascade ==
    /\ process = "up" /\ CanCascade
    /\ \E S \in SUBSET Present :
         S # {} /\ row' = [r \in Runner |-> IF r \in S THEN None ELSE row[r]]
    /\ UNCHANGED <<job, op, fire, process>>

-----------------------------------------------------------------------------
(* SchedulerService._fire *)

Fire(r) ==
    /\ process = "up" /\ job[r] # None /\ fire[r] = "idle"
    /\ fire' = [fire EXCEPT ![r] = "fired"]
    /\ UNCHANGED <<row, job, op, process>>

FireRead(r) ==
    /\ fire[r] = "fired"
    /\ fire' = [fire EXCEPT ![r] = IF r \in Enabled THEN "enqueue" ELSE "drop"]
    /\ UNCHANGED <<row, job, op, process>>

(* Mutant: the stale job stays. *)
Dropped_never(r) == job

Dropped(r) == [job EXCEPT ![r] = None]

(* The Unit of Work of that read has closed: a job found stale is removed, *)
(* or the runner as read goes to ExecutionQueue.enqueue.                   *)
FireAct(r) ==
    /\ fire[r] \in {"drop", "enqueue"}
    /\ job' = IF fire[r] = "drop" THEN Dropped(r) ELSE job
    /\ fire' = [fire EXCEPT ![r] = "idle"]
    /\ UNCHANGED <<row, op, process>>

-----------------------------------------------------------------------------
(* Boot and death of the process *)

(* rehydrate() registers the enabled runners; one that cannot be scheduled *)
(* raises out of the lifespan, and the application does not come up.       *)
Boot ==
    /\ process = "boot"
    /\ IF \A r \in Enabled : row[r].cron \in Schedulable
       THEN /\ process' = "up"
            /\ job' = [r \in Runner |->
                         IF r \in Enabled THEN row[r].cron ELSE None]
       ELSE process' = "failed" /\ job' = job
    /\ UNCHANGED <<row, op, fire>>

(* The process dies, or is stopped, and is started again. *)
Restart ==
    /\ process \in {"up", "failed"} /\ process' = "boot"
    /\ job' = [r \in Runner |-> None]
    /\ op' = [q \in Request |-> None]
    /\ fire' = [r \in Runner |-> "idle"]
    /\ UNCHANGED row

-----------------------------------------------------------------------------
(* Specification *)

RequestStep(q) ==
    \/ Create(q) \/ Read(q) \/ Save(q)
    \/ CommitCreate(q) \/ CommitUpdate(q) \/ CommitDelete(q) \/ Notify(q)

FireStep(r) == Fire(r) \/ FireRead(r) \/ FireAct(r)

Next ==
    \/ \E q \in Request : RequestStep(q)
    \/ \E r \in Runner : FireStep(r)
    \/ Cascade \/ Boot \/ Restart

Spec == Init /\ [][Next]_vars

(* A registered job fires again and again, and its callback goes on; no    *)
(* request needs to be made, and none to be finished.                      *)
FairSpec == Spec /\ \A r \in Runner : WF_vars(FireStep(r))

-----------------------------------------------------------------------------
(* Properties *)

Quiet == process = "up" /\ \A q \in Request : op[q] = None

(* A job is never out of date: with no operation under way, a job whose    *)
(* runner exists is that of an enabled runner, with the expression it has. *)
(* Jobs of runners deleted with their project, whose ids a new runner may  *)
(* take, are no exception (RunnerService's hooks, register, _fire).        *)
Current(r) ==
    job[r] # None /\ row[r] # None => row[r].enabled /\ job[r] = row[r].cron

JobsAreCurrent == Quiet => \A r \in Runner : Current(r)

(* The schedule always mirrors the persisted state (docstring of           *)
(* RunnerService): with no operation and no callback under way, the jobs   *)
(* are those of the enabled runners.                                       *)
ScheduleMirrors ==
    Quiet /\ (\A r \in Runner : fire[r] = "idle") =>
        job = [r \in Runner |-> IF r \in Enabled THEN row[r].cron ELSE None]

(* A stale job goes away: the job of a runner deleted or disabled behind   *)
(* the scheduler's back is removed, unless the runner comes back (_fire).  *)
StaleJobsHeal ==
    \A r \in Runner : r \notin Enabled ~> job[r] = None \/ r \in Enabled

(* A restart loses nothing (specification 7): the process comes up again,  *)
(* since a validated expression always builds a trigger (build_trigger).   *)
BootSucceeds == process # "failed"
=============================================================================
