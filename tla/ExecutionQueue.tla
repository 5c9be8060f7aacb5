--------------------------- MODULE ExecutionQueue ---------------------------
(***************************************************************************)
(* The execution queue of CronDok (services/execution_queue.py): producers *)
(* call enqueue(), which commits an execution row and appends an item to   *)
(* an asyncio.Queue; one consumer task turns items into worker tasks; each *)
(* worker takes a permit of an asyncio.Semaphore, commits `running`, runs  *)
(* the executor and commits the terminal status.                           *)
(*                                                                         *)
(* Everything runs on one event loop, so what lies between two awaits is   *)
(* one step, and a step may fall between any two awaits of another task.   *)
(* A Unit of Work is one step at its commit: its earlier reads bind only   *)
(* where the code decides on them, and those reads are steps of their own. *)
(* Executions bear the number of the enqueue call that would create them,  *)
(* calls being numbered as they begin; row ids are never reused here.      *)
(***************************************************************************)
EXTENDS Naturals, Sequences, FiniteSets, SequencesExt

CONSTANTS
    MaxExec,      \* bound: enqueue calls, each naming the execution it creates
    Runner,       \* persisted runners
    Policy,       \* on_overlap of each runner
    MaxJobs,      \* max_concurrent_jobs
    None,         \* no item, no runner
    MaxCalls,     \* bound: enqueue calls in flight at once
    MaxFaults,    \* bound: exceptions raised by the database or the log store
    MaxRestarts,  \* bound: deaths of the process followed by a new boot
    CanStop,      \* whether stop() may be called
    CanDelete     \* whether rows may be deleted under the queue

Exec == 1..MaxExec
Policies == {"skip", "queue", "kill_previous"}

ASSUME ConstantsAssumption ==
    /\ MaxExec \in Nat
    /\ Policy \in [Runner -> Policies]
    /\ MaxJobs \in Nat \ {0}
    /\ None \notin Exec \cup Runner
    /\ MaxCalls \in Nat /\ MaxFaults \in Nat /\ MaxRestarts \in Nat
    /\ CanStop \in BOOLEAN /\ CanDelete \in BOOLEAN

VARIABLES
    row,        \* committed status of each execution
    runnerOf,   \* runner snapshot each call was made with
    call,       \* where each enqueue call is
    active,     \* live executions a call read and has not handled yet
    kills,      \* victims a call will save as killed
    queue,      \* the asyncio.Queue
    consumer,   \* where the consumer task is
    item,       \* the item it holds
    worker,     \* where the worker task of each execution is
    running,    \* keys of _running, which are also the tasks of _workers
    permits,    \* value of the semaphore
    waiters,    \* workers parked in acquire(), oldest first
    cancelled,  \* workers with a cancellation requested and not delivered
    outcome,    \* what the executor returned to the worker
    notify,     \* failure notification of each execution
    mode,       \* progress of stop()
    awaited,    \* tasks the gather() of stop() under way waits for
    faults, restarts

callVars == <<runnerOf, call, active, kills>>
queueVars == <<queue, consumer, item>>
taskVars == <<worker, running, permits, waiters, cancelled, outcome, notify>>
processVars == <<mode, awaited, faults, restarts>>
notWorker == <<callVars, queueVars, processVars>>
vars == <<row, callVars, queueVars, taskVars, processVars>>

-----------------------------------------------------------------------------
(* Types and initial state: a fresh database and a queue just started. *)

Live == {"queued", "running"}
Terminal == {"succeeded", "failed", "skipped", "killed"}
Outcome == {"succeeded", "failed", "timed_out"}
InFlightState == {"victims", "skip", "insert", "put"}
(* The awaits of _run: in acquire() without a permit; then with one, down  *)
(* to the closing of the sink, "abort" being that with an error in flight. *)
Parked == {"new", "wait"}
Holding == {"granted", "mark", "open", "env", "exec", "kill", "final",
            "close", "abort"}

TypeOK ==
    /\ row \in [Exec -> {"absent"} \cup Live \cup Terminal]
    /\ runnerOf \in [Exec -> Runner \cup {None}]
    /\ call \in [Exec -> InFlightState \cup {"idle", "returned", "raised"}]
    /\ active \in [Exec -> SUBSET (Exec \X Live)]
    /\ kills \in [Exec -> SUBSET Exec]
    /\ queue \in Seq(Exec)
    /\ consumer \in {"off", "get", "read", "spawn"}
    /\ item \in Exec \cup {None}
    /\ consumer \in {"read", "spawn"} => item \in Exec
    /\ worker \in [Exec -> Parked \cup Holding \cup {"none", "done", "gone"}]
    /\ running \in SUBSET Exec
    /\ permits \in Nat
    /\ waiters \in Seq(Exec)
    /\ cancelled \in SUBSET Exec
    /\ outcome \in [Exec -> Outcome \cup {"none"}]
    /\ \A e \in Exec : worker[e] = "final" => outcome[e] \in Outcome
    /\ notify \in [Exec -> {"none", "pending", "over"}]
    /\ mode \in {"up", "stopping", "draining", "notifying", "stopped"}
    /\ awaited \in SUBSET Exec
    /\ faults \in Nat /\ restarts \in Nat

Init ==
    /\ row = [e \in Exec |-> "absent"]
    /\ runnerOf = [e \in Exec |-> None]
    /\ call = [e \in Exec |-> "idle"]
    /\ active = [e \in Exec |-> {}]
    /\ kills = [e \in Exec |-> {}]
    /\ queue = <<>> /\ consumer = "get" /\ item = None
    /\ worker = [e \in Exec |-> "none"]
    /\ running = {}
    /\ permits = MaxJobs /\ waiters = <<>>
    /\ cancelled = {}
    /\ outcome = [e \in Exec |-> "none"]
    /\ notify = [e \in Exec |-> "none"]
    /\ mode = "up" /\ awaited = {}
    /\ faults = 0 /\ restarts = 0

-----------------------------------------------------------------------------
(* Tasks *)

(* task.cancel() on tasks of _running: a task that has ended ignores it.   *)
RequestCancel(S) ==
    cancelled' = cancelled \cup
        {v \in S \cap running : worker[v] \in Parked \cup Holding}

(* An exception the database or the log store raises. *)
Fault == faults < MaxFaults /\ faults' = faults + 1
                            /\ UNCHANGED <<mode, awaited, restarts>>

-----------------------------------------------------------------------------
(* enqueue() *)

InFlight == {e \in Exec : call[e] \in InFlightState}

(* Mutant: only rows read `running` count as live. *)
ActiveExecutions_runningOnly(r) ==
    {<<v, row[v]>> : v \in {x \in Exec : runnerOf[x] = r /\ row[x] = "running"}}

(* The runner's live rows, with the status read. *)
ActiveExecutions(r) ==
    {<<v, row[v]>> : v \in {x \in Exec : runnerOf[x] = r /\ row[x] \in Live}}

ApplyPolicy(e, r, seen) ==
    /\ runnerOf' = [runnerOf EXCEPT ![e] = r]
    /\ call' = [call EXCEPT ![e] = IF seen = {} THEN "insert"
                                   ELSE IF Policy[r] = "skip" THEN "skip"
                                   ELSE "victims"]
    /\ active' = [active EXCEPT ![e] =
                     IF Policy[r] = "kill_previous" THEN seen ELSE {}]

(* The call's first database read, and the branch it takes on it. *)
EnqueueRead(e) ==
    /\ call[e] = "idle" /\ \A f \in 1..(e - 1) : call[f] # "idle"
    /\ mode # "stopped"
    /\ Cardinality(InFlight) < MaxCalls
    /\ \E r \in Runner :
         ApplyPolicy(e, r, IF Policy[r] = "queue" THEN {} ELSE ActiveExecutions(r))
    /\ UNCHANGED <<row, kills, queueVars, taskVars, processVars>>

EnqueueSkip(e) ==
    /\ call[e] = "skip"
    /\ row' = [row EXCEPT ![e] = "skipped"]
    /\ call' = [call EXCEPT ![e] = "returned"]
    /\ UNCHANGED <<runnerOf, active, kills, queueVars, taskVars, processVars>>

(* Mutant: a victim that has a task is left to its worker. *)
SavedAsKilled_trustsWorker(v, status) == v \notin running

SavedAsKilled(v, status) == v \notin running \/ status = "queued"

(* One turn of the victim loop. The save joins the call's transaction, so  *)
(* it takes effect at its commit.                                          *)
CancelVictim(e) ==
    /\ call[e] = "victims"
    /\ \E victim \in active[e] :
         /\ active' = [active EXCEPT ![e] = @ \ {victim}]
         /\ RequestCancel({victim[1]})
         /\ kills' = [kills EXCEPT ![e] =
                        IF SavedAsKilled(victim[1], victim[2])
                        THEN @ \cup {victim[1]} ELSE @]
    /\ UNCHANGED <<row, runnerOf, call, queueVars, worker, running, permits,
                   waiters, outcome, notify, processVars>>

(* The commit: the victims' stale copies overwrite their rows and the new  *)
(* row appears; or save() finds a victim's row gone, nothing is written    *)
(* and the caller gets the error, the cancellations staying requested.     *)
EnqueueCommit(e) ==
    /\ call[e] \in {"insert", "victims"} /\ active[e] = {}
    /\ IF \E v \in kills[e] : row[v] = "absent"
       THEN call' = [call EXCEPT ![e] = "raised"] /\ row' = row
       ELSE /\ call' = [call EXCEPT ![e] = "put"]
            /\ row' = [x \in Exec |-> IF x = e THEN "queued"
                                      ELSE IF x \in kills[e] THEN "killed"
                                      ELSE row[x]]
    /\ kills' = [kills EXCEPT ![e] = {}]
    /\ UNCHANGED <<runnerOf, active, queueVars, taskVars, processVars>>

(* Mutant: the item is put twice. *)
PutNowait_twice(e) == queue' = queue \o <<e, e>>

PutNowait(e) == queue' = Append(queue, e)

EnqueuePut(e) ==
    /\ call[e] = "put"
    /\ PutNowait(e)
    /\ call' = [call EXCEPT ![e] = "returned"]
    /\ UNCHANGED <<row, runnerOf, active, kills, consumer, item, taskVars,
                   processVars>>

(* The call's transaction fails and is rolled back. *)
EnqueueFault(e) ==
    /\ call[e] \in InFlightState \ {"put"}
    /\ Fault
    /\ call' = [call EXCEPT ![e] = "raised"]
    /\ active' = [active EXCEPT ![e] = {}]
    /\ kills' = [kills EXCEPT ![e] = {}]
    /\ UNCHANGED <<row, runnerOf, queueVars, taskVars>>

-----------------------------------------------------------------------------
(* The consumer: _consume and _dispatch *)

ConsumerGet ==
    /\ consumer = "get" /\ queue # <<>>
    /\ item' = Head(queue)
    /\ queue' = Tail(queue)
    /\ consumer' = "read"
    /\ UNCHANGED <<row, callVars, taskVars, processVars>>

(* Mutant: the loop ends with the item. *)
NextItem_never == consumer' = "off" /\ item' = None /\ queue' = queue

NextItem == consumer' = "get" /\ item' = None /\ queue' = queue

(* _dispatch reads the row and drops the item unless it is still queued. *)
DispatchRead ==
    /\ consumer = "read"
    /\ IF row[item] = "queued" THEN consumer' = "spawn" /\ UNCHANGED <<item, queue>>
       ELSE NextItem
    /\ UNCHANGED <<row, callVars, taskVars, processVars>>

(* The Unit of Work of that read has closed: the worker task is created. *)
DispatchSpawn ==
    /\ consumer = "spawn"
    /\ NextItem
    /\ worker' = [worker EXCEPT ![item] = "new"]
    /\ running' = running \cup {item}
    /\ UNCHANGED <<row, callVars, permits, waiters, cancelled, outcome, notify,
                   processVars>>

(* The dispatch raises: the item is lost, the consumer goes on. *)
DispatchFault ==
    /\ consumer \in {"read", "spawn"}
    /\ Fault
    /\ NextItem
    /\ UNCHANGED <<row, callVars, taskVars>>

-----------------------------------------------------------------------------
(* asyncio.Semaphore. A waiter whose task is being cancelled is passed     *)
(* over; a granted one keeps its place in the deque until it resumes.      *)

Wakeable(e) == worker[e] = "wait" /\ e \notin cancelled

NextWaiter(e) ==
    \E i \in DOMAIN waiters :
        /\ waiters[i] = e
        /\ Wakeable(e)
        /\ \A j \in 1..(i - 1) : ~Wakeable(waiters[j])

Locked ==
    \/ permits = 0
    \/ \E i \in DOMAIN waiters :
         worker[waiters[i]] = "granted" \/ Wakeable(waiters[i])

(* A worker goes on to `to`, and of the `free` permits one is granted to   *)
(* the next waiter, if there is one.                                       *)
WakeNext(e, to, free) ==
    \/ \E f \in Exec : /\ free > 0 /\ NextWaiter(f)
                       /\ worker' = [worker EXCEPT ![e] = to, ![f] = "granted"]
                       /\ permits' = free - 1
    \/ /\ free = 0 \/ \A f \in Exec : ~NextWaiter(f)
       /\ worker' = [worker EXCEPT ![e] = to] /\ permits' = free

(* Mutant: the permit comes back, and nobody is told. *)
ReleaseAndEnd_silent(e) ==
    worker' = [worker EXCEPT ![e] = "done"] /\ permits' = permits + 1

(* The worker leaves `async with self._semaphore` and its task ends. *)
ReleaseAndEnd(e) == WakeNext(e, "done", permits + 1)

LeaveDeque(e) ==
    \E i \in DOMAIN waiters :
        waiters[i] = e /\ waiters' = RemoveAt(waiters, i)

-----------------------------------------------------------------------------
(* The worker: _run. It goes on past an await only while no cancellation   *)
(* is pending. A commit already under way in the database's thread when    *)
(* the cancellation is requested holds SQLite's write lock, so it counts   *)
(* as made before the request.                                             *)

Advance(e, from, to) ==
    /\ worker[e] = from /\ e \notin cancelled
    /\ worker' = [worker EXCEPT ![e] = to]

(* Mutant: the body runs without the semaphore. *)
Acquire_unlimited(e) ==
    /\ Advance(e, "new", "mark")
    /\ UNCHANGED <<row, running, permits, waiters, cancelled, outcome, notify,
                   notWorker>>

Acquire(e) ==
    /\ IF Locked
       THEN /\ Advance(e, "new", "wait")
            /\ waiters' = Append(waiters, e) /\ permits' = permits
       ELSE /\ Advance(e, "new", "mark")
            /\ permits' = permits - 1 /\ waiters' = waiters
    /\ UNCHANGED <<row, running, cancelled, outcome, notify, notWorker>>

(* It also wakes those who queued behind it beside a permit freed since. *)
ResumeGranted(e) ==
    /\ worker[e] = "granted" /\ e \notin cancelled
    /\ WakeNext(e, "mark", permits)
    /\ LeaveDeque(e)
    /\ UNCHANGED <<row, running, cancelled, outcome, notify, notWorker>>

(* Mutant: it refuses a row that has left `queued`. *)
Transition_once(e, status) ==
    row' = IF row[e] # "queued" THEN row ELSE [row EXCEPT ![e] = status]

(* _transition: overwrites the status of the row, if there is one. *)
Transition(e, status) ==
    row' = IF row[e] = "absent" THEN row ELSE [row EXCEPT ![e] = status]

MarkRunning(e) ==
    /\ Advance(e, "mark", "open")
    /\ Transition(e, "running")
    /\ UNCHANGED <<running, permits, waiters, cancelled, outcome, notify, notWorker>>

(* The log is open, or the environment resolved. *)
Proceed(e) ==
    /\ Advance(e, "open", "env") \/ Advance(e, "env", "exec")
    /\ UNCHANGED <<row, running, permits, waiters, cancelled, outcome, notify,
                   notWorker>>

(* The executor returns a result, or it or the resolver raises: `failed`. *)
ExecutorEnds(e) ==
    /\ \E o \in Outcome :
         /\ \/ Advance(e, "exec", "final")
            \/ Advance(e, "env", "final") /\ o = "failed"
         /\ outcome' = [outcome EXCEPT ![e] = o]
    /\ UNCHANGED <<row, running, permits, waiters, cancelled, notify, notWorker>>

(* Mutant: the outcome is stored as it is. *)
FinalStatus_raw(o) == o

FinalStatus(o) == IF o = "timed_out" THEN "killed" ELSE o

(* Mutant: only timeouts notify. *)
NotifyFailure_timeoutsOnly(o) == o = "timed_out"

NotifyFailure(o) == o \in {"failed", "timed_out"}

MarkFinal(e) ==
    /\ Advance(e, "final", "close")
    /\ Transition(e, FinalStatus(outcome[e]))
    /\ UNCHANGED <<running, permits, waiters, cancelled, outcome, notify, notWorker>>

(* The `except CancelledError` branch; the error is raised again after it. *)
MarkKilled(e) ==
    /\ Advance(e, "kill", "abort")
    /\ Transition(e, "killed")
    /\ UNCHANGED <<running, permits, waiters, cancelled, outcome, notify, notWorker>>

(* The sink is closed; the normal path schedules the notification. *)
Close(e) ==
    /\ worker[e] \in {"close", "abort"} /\ e \notin cancelled
    /\ notify' = IF worker[e] = "close" /\ NotifyFailure(outcome[e])
                 THEN [notify EXCEPT ![e] = "pending"] ELSE notify
    /\ ReleaseAndEnd(e)
    /\ UNCHANGED <<row, running, waiters, cancelled, outcome, notWorker>>

(* The done callback of the task, whose locals are gone. *)
DoneCallback(e) ==
    /\ worker[e] = "done"
    /\ worker' = [worker EXCEPT ![e] = "gone"]
    /\ running' = running \ {e}
    /\ outcome' = [outcome EXCEPT ![e] = "none"]
    /\ UNCHANGED <<row, permits, waiters, cancelled, notify, notWorker>>

(* The detached notification task ends, delivered or not. *)
Notified(e) ==
    /\ notify[e] = "pending"
    /\ notify' = [notify EXCEPT ![e] = "over"]
    /\ UNCHANGED <<row, worker, running, permits, waiters, cancelled, outcome,
                   notWorker>>

-----------------------------------------------------------------------------
(* Cancellation and exceptions inside a worker *)

(* Mutant: a permit is released only at the end of the body. *)
Unwind_keepsPermit(e) ==
    /\ worker[e] \in {"mark", "open", "close", "abort", "kill", "final"}
    /\ worker' = [worker EXCEPT ![e] =
                    IF @ \in {"kill", "final"} THEN "abort" ELSE "done"]
    /\ permits' = permits

(* An exception leaves the await the worker is at: outside the try block   *)
(* it ends the task; in a handler the `finally` still closes the sink; in  *)
(* that close it ends the task.                                            *)
Unwind(e) ==
    \/ worker[e] \in {"mark", "open", "close", "abort"} /\ ReleaseAndEnd(e)
    \/ /\ worker[e] \in {"kill", "final"}
       /\ worker' = [worker EXCEPT ![e] = "abort"] /\ permits' = permits

Deliver(e) == e \in cancelled /\ cancelled' = cancelled \ {e}

(* CancelledError before the permit: the body is never entered. *)
CancelParked(e) ==
    /\ Deliver(e)
    /\ \/ worker[e] = "new" /\ waiters' = waiters
       \/ worker[e] = "wait" /\ LeaveDeque(e)
    /\ worker' = [worker EXCEPT ![e] = "done"]
    /\ UNCHANGED <<row, running, permits, outcome, notify, notWorker>>

(* A waiter that was already granted the permit gives it back. *)
CancelGranted(e) ==
    /\ Deliver(e)
    /\ worker[e] = "granted" /\ LeaveDeque(e)
    /\ ReleaseAndEnd(e)
    /\ UNCHANGED <<row, running, outcome, notify, notWorker>>

(* In the try block; the executor kills its container before it re-raises. *)
CancelCaught(e) ==
    /\ Deliver(e)
    /\ worker[e] \in {"env", "exec"}
    /\ worker' = [worker EXCEPT ![e] = "kill"]
    /\ UNCHANGED <<row, running, permits, waiters, outcome, notify, notWorker>>

CancelUncaught(e) ==
    /\ Deliver(e)
    /\ Unwind(e)
    /\ UNCHANGED <<row, running, waiters, outcome, notify, notWorker>>

WorkerFault(e) ==
    /\ Fault
    /\ e \notin cancelled /\ Unwind(e)
    /\ UNCHANGED <<row, callVars, queueVars, running, waiters, cancelled,
                   outcome, notify>>

-----------------------------------------------------------------------------
(* stop(), deletion of rows, and the death of the process *)

(* The consumer is cancelled and awaited; an item in its hands is dropped. *)
StopConsumer ==
    /\ CanStop
    /\ mode = "up" /\ mode' = "stopping"
    /\ consumer' = "off" /\ item' = None
    /\ UNCHANGED <<row, callVars, queue, taskVars, awaited, faults, restarts>>

StopWorkers ==
    /\ mode = "stopping" /\ mode' = "draining"
    /\ awaited' = running
    /\ RequestCancel(running)
    /\ UNCHANGED <<row, callVars, queueVars, worker, running, permits, waiters,
                   outcome, notify, faults, restarts>>

(* Mutant: notifications are not drained. *)
PendingNotifications_ignored == {}

PendingNotifications == {e \in Exec : notify[e] = "pending"}

(* The workers have ended; the notifications pending now are gathered. *)
StopNotifications ==
    /\ mode = "draining" /\ mode' = "notifying"
    /\ \A e \in awaited : worker[e] \in {"done", "gone"}
    /\ awaited' = PendingNotifications
    /\ UNCHANGED <<row, callVars, queueVars, taskVars, faults, restarts>>

StopReturns ==
    /\ mode = "notifying" /\ mode' = "stopped"
    /\ \A e \in awaited : notify[e] # "pending"
    /\ awaited' = {}
    /\ UNCHANGED <<row, callVars, queueVars, taskVars, faults, restarts>>

(* RetentionService and the cascade of a runner's deletion. *)
DeleteRow(e) ==
    /\ CanDelete
    /\ row[e] # "absent"
    /\ row' = [row EXCEPT ![e] = "absent"]
    /\ UNCHANGED <<taskVars, notWorker>>

(* The process dies, by a crash or after stop(), and boots again: the rows *)
(* stay as committed, everything in memory starts anew.                    *)
Restart ==
    /\ restarts < MaxRestarts /\ restarts' = restarts + 1
    /\ call' = [e \in Exec |-> IF e \in InFlight THEN "raised" ELSE call[e]]
    /\ active' = [e \in Exec |-> {}]
    /\ kills' = [e \in Exec |-> {}]
    /\ queue' = <<>> /\ consumer' = "get" /\ item' = None
    /\ worker' = [e \in Exec |-> IF worker[e] = "none" THEN "none" ELSE "gone"]
    /\ running' = {}
    /\ permits' = MaxJobs /\ waiters' = <<>>
    /\ cancelled' = {}
    /\ outcome' = [e \in Exec |-> "none"]
    /\ notify' = [e \in Exec |-> IF notify[e] = "none" THEN "none" ELSE "over"]
    /\ mode' = "up" /\ awaited' = {}
    /\ UNCHANGED <<row, runnerOf, faults>>

-----------------------------------------------------------------------------
(* Specification *)

CallStep(e) ==
    EnqueueSkip(e) \/ CancelVictim(e) \/ EnqueueCommit(e) \/ EnqueuePut(e)

WorkerStep(e) ==
    \/ Acquire(e) \/ ResumeGranted(e) \/ MarkRunning(e) \/ Proceed(e)
    \/ ExecutorEnds(e) \/ MarkFinal(e) \/ MarkKilled(e) \/ Close(e)
    \/ CancelParked(e) \/ CancelGranted(e) \/ CancelCaught(e) \/ CancelUncaught(e)
    \/ DoneCallback(e)

ConsumerStep == ConsumerGet \/ DispatchRead \/ DispatchSpawn

StopStep == StopWorkers \/ StopNotifications \/ StopReturns

(* The event loop does not stand still while some task can go on, the      *)
(* executor returns (it enforces the runner's timeout) and a database call *)
(* ends. Nothing makes a producer call, an operator stop the service, or a *)
(* fault happen. This is weaker than the fairness of the loop to each      *)
(* task, and enough because the calls are bounded.                         *)
Progress ==
    \/ \E e \in Exec : CallStep(e) \/ WorkerStep(e) \/ Notified(e)
    \/ ConsumerStep \/ StopStep

Next ==
    \/ Progress
    \/ \E e \in Exec : EnqueueRead(e) \/ EnqueueFault(e) \/ WorkerFault(e)
                       \/ DeleteRow(e)
    \/ DispatchFault \/ StopConsumer \/ Restart

Spec == Init /\ [][Next]_vars

FairSpec == Spec /\ WF_vars(Progress)

-----------------------------------------------------------------------------
(* Properties *)

(* No permit is lost or made up, whatever cancellation or error ends a     *)
(* worker: the semaphore's value and the workers holding a permit always   *)
(* add up to max_concurrent_jobs (`async with self._semaphore` in _run).   *)
Holders == {e \in Exec : worker[e] \in Holding}

PermitConservation == permits + Cardinality(Holders) = MaxJobs

(* A worker waits beside a free permit only while one that was granted a   *)
(* permit is about to resume and wake it: a cancelled waiter neither       *)
(* swallows a wake-up nor blocks those behind it.                          *)
NoLostWakeup ==
    permits > 0 /\ (\E e \in Exec : Wakeable(e)) =>
        \E g \in Exec : worker[g] = "granted"

(* An execution is dispatched at most once: whatever is in the queue or in *)
(* the consumer's hands is there once, was put by its own call, and has    *)
(* never had a worker (_consume, _dispatch).                               *)
Queued(e) == \E i \in DOMAIN queue : queue[i] = e
InHand(e) == consumer \in {"read", "spawn"} /\ item = e

DispatchedOnce ==
    /\ \A i, j \in DOMAIN queue : queue[i] = queue[j] => i = j
    /\ \A e \in Exec :
         /\ ~(Queued(e) /\ InHand(e))
         /\ Queued(e) \/ InHand(e) => call[e] = "returned"
         /\ Queued(e) \/ InHand(e) \/ call[e] \notin {"returned", "raised"}
              => worker[e] = "none"

(* A row that reads `queued` is on its way to run or to be marked killed:  *)
(* in enqueue() before its put, in the queue, in the consumer's hands,     *)
(* with a worker that has not marked it, or among a call's victims. So it  *)
(* is until an error, the end of the service or a new boot.                *)
QueuedIsOwned ==
    mode = "up" /\ faults = 0 /\ restarts = 0 =>
      \A e \in Exec : row[e] = "queued" =>
        \/ call[e] = "put"
        \/ Queued(e) \/ InHand(e)
        \/ worker[e] \in Parked \cup {"granted", "mark"}
        \/ \E c \in Exec : e \in kills[c]

(* A row that reads `running` has a worker that will still write its       *)
(* terminal status, or is about to be marked killed by a call: nothing     *)
(* shows as running for ever (_run, and the comment of the victim loop).   *)
RunningIsOwned ==
    \A e \in Exec : row[e] = "running" =>
        \/ worker[e] \in {"open", "env", "exec", "final", "kill"}
        \/ \E c \in Exec : e \in kills[c]

(* on_overlap = skip: a runner never has two live executions.              *)
SkipExclusive ==
    \A e, f \in Exec :
        /\ runnerOf[e] = runnerOf[f] /\ row[e] \in Live /\ row[f] \in Live
        /\ Policy[runnerOf[e]] = "skip"
        => e = f

(* Every execution that ended failed has had its notification scheduled by *)
(* the time its worker is gone.                                            *)
FailedIsNotified ==
    \A e \in Exec : row[e] = "failed" /\ worker[e] \in {"done", "gone"}
                     => notify[e] # "none"

(* A terminal status is never overwritten.                                 *)
TerminalIsFinal ==
    [][\A e \in Exec : row[e] \in Terminal => row'[e] = row[e]]_vars

(* A victim that kill_previous marked killed is dropped by the consumer    *)
(* and never starts (comment of the victim loop in enqueue).               *)
KilledNeverStarts ==
    [][\A e \in Exec : row[e] = "killed" => row'[e] # "running"]_vars

(* When stop() has returned nothing it should have waited for is alive: no *)
(* worker task and no notification.                                        *)
StopQuiesces ==
    mode = "stopped" =>
        \A e \in Exec : /\ worker[e] \in {"none", "done", "gone"}
                         /\ notify[e] # "pending"

(* Every execution accepted by enqueue ends.                               *)
EventuallyTerminal ==
    \A e \in Exec : row[e] = "queued" ~> row[e] \in Terminal

(* Every worker task ends, so every permit comes back.                     *)
WorkersEnd == \A e \in Exec : worker[e] = "new" ~> worker[e] = "gone"

(* A bad item never kills the consumer: whatever is in the queue leaves    *)
(* it, or the service stops.                                               *)
ConsumerSurvives ==
    \A e \in Exec : Queued(e) ~> ~Queued(e) \/ mode # "up"
=============================================================================
