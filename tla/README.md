# CronDok: formal models

CronDok is a self-hosted cron scheduler: a FastAPI process that keeps runners
(scripts with a cron expression) in SQLite, fires them with APScheduler, runs
each one in a Docker container and keeps its log in a file. This directory
holds TLA+ models of its core logic, the TLC configurations that check them on
small instances, and proofs checked by TLAPS. Paths below are relative to
`backend/src/cron_dok/` of the repository.

Run a model with `tlc -config <Cfg>.cfg <Module>.tla`, check the proofs with
`tlapm <Module>.tla`.

## 1. The system

Everything in the backend runs on one asyncio event loop, so two tasks
interleave only at `await`s; database calls run in a thread and may complete
while other tasks move.

| Component | State it keeps | Operations | What makes it correct |
|---|---|---|---|
| `services/execution_queue.py` **ExecutionQueue** | `asyncio.Queue` of items, consumer task, `_running`/`_workers`, a semaphore of `max_concurrent_jobs`, pending notifications; rows of `executions` | `enqueue` (three overlap policies), `_consume`/`_dispatch`, `_run`, `stop` | an accepted execution runs once, ends once and is never forgotten; no more than the limit run; permits survive cancellation; the overlap policy holds |
| `services/scheduler_service.py`, `adapters/input/scheduler/scheduler_adapter.py` **Scheduler** | the in-memory job store | `register`, `unregister`, `update`, `rehydrate`, `_fire` | the jobs mirror the enabled runners; a stale job does no harm |
| `services/runner_service.py`, `services/project_service.py` **Runners and projects** | rows | create, update, enable, disable, delete | database first, schedule second; no update lost |
| `adapters/output/executor/docker_executor.py` **DockerExecutor** | containers, images, dependency directories with a marker, one `SecretMasker` per run | `execute`, `_ensure_image`, `_ensure_dependencies`, `_kill` | no container left behind; the marker never lies; a secret never reaches the log |
| `services/retention_service.py`, `adapters/output/logs/file_log_store.py` **Retention and logs** | rows, log files | `purge`, `read(offset)`, `delete` | no row without its log and no log without a row; incremental reads add up to the file |
| `services/notification_service.py` **Notifications** | none | at most two attempts per failure | never raises; a failure is notified, and truly |
| `services/auth_service.py` **Sessions** | users, sessions | login, logout, change password, resolve, bootstrap | no session outlives the credential it was given for |
| `services/api_key_service.py`, `services/identity.py`, `services/rbac.py` **API keys, roles** | keys | create, revoke, resolve | a revoked key stays revoked |
| `adapters/input/http/rate_limit.py` **Rate limiter** | per-key timestamps | allow, retry_after, purge | at most N in any window |
| `services/env_var_service.py`, `adapters/output/security/encryption_service.py` **Variables, encryption** | encrypted rows, the key file | create, rotate, resolve; key bootstrap | the narrower scope wins; the key survives a crash |
| `adapters/output/persistence/` **Unit of Work, repositories** | a session per use | commit at exit, rollback on error | atomic writes |
| `main.py` **Lifespan** | wiring | boot, ordered shutdown | rows left live by the last process |

How they interact: APScheduler calls `SchedulerService._fire`, which re-reads
the runner and calls `ExecutionQueue.enqueue`; `POST /triggers/{id}` calls
`enqueue` too. A worker of the queue calls the environment resolver, the
executor and the log store, and detaches a notification task. `RunnerService`
calls the scheduler synchronously after each commit. Retention and the cascade
of a deleted runner remove rows under the queue's feet.

Hard behaviour: a decision taken on a row read before an `await` (policy check,
dispatch, victim status, every read-modify-write through `save()`, which
overwrites the row with the entity it was given); a cancellation that lands at
any `await` of a worker; errors outside the `try` block; shutdown; rows left
behind by a crash. `PROJECT.json` lists each one at its line.

## 2. Modules

| Module | Role |
|---|---|
| `ExecutionLifecycle` | abstract: what the queue promises of an execution nobody kills |
| `ExecutionQueue` | the queue, one action per step between two awaits |
| `MCExecutionQueue` | small instances and the refinement mapping |
| `ExecutionQueueProofs` | TLAPS proofs about `ExecutionQueue`, and that it implements `ExecutionLifecycle` while nothing disturbs it |
| `Scheduler` | runner rows against registered jobs: requests, hooks, fires, cascades, boot |
| `MCScheduler` | small instances |
| `SchedulerProofs` | TLAPS proofs about `Scheduler` |
| `DockerExecutor` | `execute()` against a daemon whose calls outlive a cancellation; the dependency cache |
| `MCDockerExecutor` | a small instance |
| `DockerExecutorProofs` | TLAPS proofs about `DockerExecutor` |
| `Access` | users, sessions, API keys under concurrent requests |
| `RateLimiter` | the sliding window |
| `AccessProofs` | TLAPS proofs about `RateLimiter` and `Access` |
| `Retention` | execution rows against log files: workers, cascades, the purge |
| `LogTail` | one log, read incrementally by the viewer |
| `Webhook` | the report of one failed execution, from its worker to the receiver |
| `HistoryProofs` | TLAPS proofs about `Retention`, `LogTail` and `Webhook` |
| `SecretMasker` | the streaming masker against masking the whole text |
| `EnvVars` | variables of two scopes, rotation, the master key and its file |
| `SecretsProofs` | TLAPS proofs about `EnvVars` and `SecretMasker` |
| `CronDays` | the days an expression means and the days APScheduler fires |
| `Catalog` | projects and runners as records with names |
| `RunnerProofs` | TLAPS proofs about `Catalog` and `CronDays` |
| `Orm` | the ORM's column-wise UPDATE, shared by `Access`, `Catalog` and `EnvVars` |
| `MCServices` | small instances of `Access` and of the eight modules above that have none |
| `ServicesProofs` | TLAPS proofs about the components of `MCServices` side by side |

`Scheduler` and `ExecutionQueue` meet at one call: a fire that finds its runner
enabled calls `enqueue`. The queue's model takes that call, and the manual
trigger's, at any moment for any runner, so the two are checked apart.

### ExecutionQueue

State and code: `row` is the `status` column of `executions` (`absent`: no
row); `call`, `active`, `kills` are the locals of each `enqueue` call in flight;
`queue`, `consumer`, `item` are `_queue` and the consumer task; `worker` is the
await each `_run` task is at; `running` is `_running` (and `_workers`, which
changes with it); `permits` and `waiters` are the semaphore's value and deque;
`cancelled` holds tasks with `cancel()` requested and not delivered; `outcome`
and `notify` are the result of the executor and the notification task; `mode`
and `awaited` are the progress of `stop()`.

| Actions | Code |
|---|---|
| `EnqueueRead`, `EnqueueSkip`, `CancelVictim`, `EnqueueCommit`, `EnqueuePut`, `EnqueueFault` | `enqueue`: the read of live executions and the branch taken, the row saved as `skipped`, one turn of the victim loop, the commit, `put_nowait`, a rolled back transaction |
| `ConsumerGet`, `DispatchRead`, `DispatchSpawn`, `DispatchFault` | `_consume` and `_dispatch`; the worker is created one await after the row is read |
| `Acquire`, `ResumeGranted`, `MarkRunning`, `Proceed`, `ExecutorEnds`, `MarkFinal`, `MarkKilled`, `Close`, `DoneCallback`, `Notified` | `_run` from `async with self._semaphore` to the done callback, and the notification task |
| `CancelParked`, `CancelGranted`, `CancelCaught`, `CancelUncaught`, `WorkerFault` | a `CancelledError`, or an error of the database or the log store, at each await of `_run` |
| `StopConsumer`, `StopWorkers`, `StopNotifications`, `StopReturns` | `stop()` |
| `DeleteRow`, `Restart` | retention or a cascade; the death of the process and a new boot |

Abstractions, and why they are sound for what is checked:

- A Unit of Work is one step at its commit. A read the code decides on
  (`active`, the dispatch read) is a step of its own; `_transition` decides only
  on the row's existence.
- A commit already handed to the database's thread when a cancellation is
  requested holds SQLite's write lock and completes; it counts as made before
  the request.
- `asyncio.Semaphore` is modelled from its contract in CPython 3.12: `locked()`
  counts waiters that are neither cancelled nor resumed; a release hands the
  permit to the first wakeable waiter; a cancelled waiter that had been granted
  the permit releases it again. The queue uses only `async with`.
- The executor returns one of three outcomes, raises (`failed`), or is
  cancelled. Log contents, timestamps and exit codes are left out.
- Executions are numbered by the order in which their `enqueue` calls begin.
  That breaks a symmetry and loses no behaviour. Row ids are never reused,
  although SQLite may reuse the highest one after its row is deleted.

### ExecutionLifecycle

`Discard`, `Accept`, `Start`, `Finish` on `status`: an execution is accepted
only if its `skip` runner has none live, starts only while fewer than `Slots`
run, and each accepted execution eventually starts and ends (weak fairness of
`Start` and `Finish`). `MCExecutionQueue` maps `status` to `row` and `Slots` to
`MaxJobs`.

### Scheduler

`row` is the `runners` table reduced to `cron_expression` and `is_enabled`;
`job` is APScheduler's in-memory job store, of which a job's only content is
the trigger built from the expression; `op` holds, for each request being
handled, the entity it read and changed (`entity`), the row `save()` read again
(`base`) and the step it is at; `fire` is the callback of each job
(`max_instances=1`: at most one per job); `process` is boot, up or failed.

| Actions | Code |
|---|---|
| `Create`, `Read`, `Save`, `CommitCreate`, `CommitUpdate`, `CommitDelete`, `Notify` | the operations of `RunnerService`: first read, `save()`'s own read, commit, hook |
| `Cascade` | `ProjectService.delete`: the runners go by `ON DELETE CASCADE`, no hook is called |
| `Fire`, `FireRead`, `FireAct` | a job fires; `_fire` reads the runner, closes its Unit of Work, and removes the job or enqueues |
| `Boot`, `Restart` | `rehydrate()` in the lifespan; the death of the process |

`Written` is the ORM's column-wise UPDATE: a column is written only if the
entity differs there from the row `save()` read, so a request that commits
between the two reads of an update is overwritten, one that commits after the
second is not. `Registered` is `register` followed by `add_job`: the old job is
removed before `build_trigger` may raise. Ids follow SQLite's rule for a key
without AUTOINCREMENT, so a deleted highest id is taken again. `Cron` holds
what croniter accepts, `Schedulable` what APScheduler accepts of it; `@daily`
is in the first only. Times of day are left out: a registered job may fire at
any moment.

### DockerExecutor

`pc` is the await each `execute()` is in; `daemon` holds the calls of the
Docker daemon that have been issued and not carried out, `answer` what the
awaited one returned; `box` and `inst` are the script's container and the
installer's; `marker` is the content of `pkgs.hash`, `cache` who wiped the
package directory last and whether that install finished; `dir` is the
workspace. `left` and `silent` are history: the awaits that ended in an
exception, and those whose failure the code did not see (the log stream broke, a
kill was refused, `rmtree` left something).

| Actions | Code |
|---|---|
| `Begin`, `Mkdir`, `Prepare`, `Rmtree` | `execute`: entry, `_new_workspace_dir`, `_ensure_image`, the `rmtree` of its `finally` |
| `ReadMarker`, `InstallTimeout`, `InstallFailed`, `Mark`, `InstallExit` | `_ensure_dependencies`: the marker compared, the installer's wait under its timeout, a non-zero exit, the marker written |
| `Resume`, `ResumeError` | an awaited call of the daemon answers or raises, and the code goes on |
| `StreamEnd`, `StreamBroken`, `StreamTimeout` | `_stream_output`: the end of the stream, an error swallowed by the reader, the timeout |
| `Cancel`, `Fail` | a `CancelledError`, or an error, at any await; `Unwind` is the handlers it runs through |
| `Perform`, `Drop`, `Break`, `Refuse`, `ScriptExit`, `AutoRemove` | the daemon (external): it carries a call out, however long after its caller has gone; a call no thread had begun is never made; the connection breaks, or a call is answered by an error; a kill is refused; the script ends; `auto_remove` takes its container |

The point is `asyncio.to_thread`: cancelling the await does not stop the
thread. So what may be left behind is what an abandoned call leaves, and
the properties name those calls. They also name two failures that the code hides from
itself: `_kill()` swallows every `APIError`, so after a kill the daemon refuses
(`Refuse`, of which `MaxFaults` bounds the number) an execution is reported as
`timed_out`, or ends cancelled, while its script goes on; and `rmtree(...,
ignore_errors=True)` leaves what the container's user made or a failing disk holds
(`Rmtree` may leave the workspace once the script's container was started, or at the
price of a fault).

### Access

`users`, `keys`, `sessions` are the tables; `op` holds, for each request under
way, its kind, the user it acts for, the entity it read and changed and the row
`save()` read again. `Login`, `CommitLogin`, `EndSession`, `Authenticate`,
`Authorize`, `ReadUser`, `ReadKey`, `Resolve`, `Save` and one `Commit...` per
kind are the handlers of the routers `auth`, `users` and `api_keys` and the
services they call, cut where they await the database; `Boot` and `Restart` are
`bootstrap_admin` in the lifespan. `Permitted` is what `get_current_identity` and
`require_session_admin` let through. `WrittenUser` and `WrittenKey` are the ORM's
UPDATE of the columns in which the entity differs from the row read again.

### Catalog

The same for projects and runners: `items`, `edit`; `Create`, `Update`,
`CheckName`, `Reread`, `CommitCreate`, `CommitUpdate`, `Delete` are the operations of
`ProjectService` and, for the fields that are not about the schedule, of
`RunnerService`. Projects have a unique index (`Unique`), runners a foreign key
(`HasProject`) with a cascade.

### Retention and LogTail

`Retention`: `exec` is each execution's row, `file` its log, `task` the worker that
writes it; `AddRow`, `Dispatch`, `OpenWriter`, `EndTask` are the parts of the queue
that touch them, `CascadeRows` a deleted project. `PurgeBegin`, `Unlink`,
`DeleteRow`, `PurgeCommit` are `purge()` statement by statement: from its first
DELETE it holds SQLite's write lock, files are outside the transaction.
`UnlinkFails`, `PurgeFails`, `Die` end it half-way.

`LogTail`, one log and the page that shows it. The worker: `WriterStarts`, `Write`,
`WriterEnds`, `Commit` are `_run` as far as its log and its status go; `CutShort`
leaves a write to its thread when the worker is cancelled or timed out in it;
`KillEarly` is `enqueue` under `kill_previous`, which commits `killed` for a victim it
read as queued while the worker may still begin or be at work. The page: `Open`,
`ReadStatus`, `LearnSame` are the query of the status (`heard` is an answer that has
not been rendered, `known` what the page goes by); `GoLive` and `GoFinal` are the effect of
`useExecutionLogs` going on and off, and `PollTick` its interval, which does not wait for
the poll before. An effect that is off polls once and returns no cleanup, so its poll
(`kept`) is never forsaken; that includes the poll made while the status is still
pending. `ServerRead`, `Answer`, `PollFails` are one poll. The file is its length,
byte `i` is `i`; each read is decoded on its own (`ChunkRead`), so a character that the
end of a read cuts shows as marks, 0, on both sides. A character has one byte, or two if
the first is in `Joined`; longer ones would be cut in the same way.

`TextFaithful` therefore has these exceptions, each tied to its cause: polls that
overlap show bytes twice; a character cut by the end of a read is lost; a worker that goes
on after a terminal status (`early`) writes what the last poll may miss; and if the only
poll of an effect that is off is the one made as the page opened, it reads what there is
then. Assumed: the file is this execution's alone; under a reused id a viewer may first
see the log that a deleted execution has left (`Retention`). Not modelled: a change of
`executionId` without the page being mounted anew, in which the poll of an effect that is
off could answer into the text of the next execution.

### SecretMasker, RateLimiter, EnvVars, CronDays, Webhook

`SecretMasker`: `MaskChunk` and `Flush` are `mask` and `flush`, letter by letter
since the property is about the letters; `Sub` is the regular expression's
substitution of the whole text, the reference. The stream is cut between bytes and each
chunk decoded on its own: `Decoded` turns a letter of several bytes (`Wide`) that is cut
into a mark, `Garbled`, at the end of one chunk and one at the beginning of the next.
`MaskingSound` says that no secret is in the log as it is, that the log is in the end the
decoded text masked in one piece, and that the decoded text is the output unless a
chunk was cut inside a letter. In that case a secret with that letter is not recognised:
what is left of it is logged as it is, although the docstring of the class (lines
120-124) says "a secret split across two stream chunks is still caught". The mask is one symbol that is no
letter: a secret that is itself made of asterisks, which the mask would spell, is left
out. `RateLimiter`: `Allow` is one call
(it awaits nothing), `Tick` the clock; `granted` and `promise` are history.
`EnvVars`: `Source`, `LoadKey`, `CreateFile`, `WriteFile` are
`create_encryption_service`, between whose steps `Stop` may come; `CreateVar`,
`DeleteVar`, `RotateRead`, `RotateSave` the service; `Winner`, `Resolved`
`resolve_for_runner`. `CronDays`: `Weekday` and `Trigger` are
`_convert_day_of_week` and `build_trigger`, `CronFires` what croniter means (external;
croniter 6.2.4 and APScheduler 3.10.4 are what `poetry.lock` pins): a range may end before
it begins, and then goes on past the end of the week. `DaysAgree` has two exceptions:
a range that goes on from Sunday to Monday (`0-3`, `5-1`, `0-7`, `3-3`), which APScheduler
refuses or cuts to one day, and a day of the month beside a day of the week.
`Webhook`: the row of one failing execution is contended by a `kill_previous` call
(`RivalReads`, `RivalCancels`, `RivalInterrupts`, `RivalSaves`) and a cascade;
`NotifyFailure` re-reads it, `NextAttempt`, `Receive`, `Respond`, `PostRaises` are
the posts, each of which may arrive after it was given up.

### MCServices

These components share no state. A product of their state spaces would show
nothing more, so `MCServices` extends them all and a behaviour has one `subject`,
chosen at the start; its component moves and the others stay as they were. Every
property is therefore checked over all behaviours of the component it is about,
and it is the very definition the component's theorem names.

## 3. What is checked by TLC

| Run | Instance | Shows |
|---|---|---|
| `Overlap` | 3 calls, one at a time, a `skip` and a `queue` runner, 1 permit | types; `RunningIsOwned`, `SkipExclusive`, `FailedIsNotified`; `TerminalIsFinal`; `EventuallyTerminal`; the queue implements `ExecutionLifecycle` |
| `Cancellation` | 3 calls, two at once, a `kill_previous` runner, 1 permit, `stop()` | `PermitConservation`, `NoLostWakeup`, `DispatchedOnce`, `QueuedIsOwned`, `StopQuiesces` wherever cancellations land |
| `Failures` | 2 calls, a `kill_previous` runner, 1 error, 1 restart, deletions, `stop()` | `PermitConservation`, `WorkersEnd`, `ConsumerSurvives` |
| `VictimStarts` | 2 calls of a `kill_previous` runner | **violated**: a victim marked `killed` between `_dispatch`'s read and the creation of its worker still starts (`KilledNeverStarts`) |
| `VictimForgotten` | the same | **violated**: a running victim cancelled at `open_writer` or in its final transition reads `running` for ever (`RunningIsOwned`) |
| `OverlapRace` | 2 overlapping calls of a `skip` runner | **violated**: both read no live execution, both insert one (`SkipExclusive`) |
| `Schedule` | ids 1 and 2, 3 expressions (one refused by APScheduler), 1 request at a time, cascades, fires, restarts | types; `JobsAreCurrent`; `StaleJobsHeal` |
| `MirrorRace` | 1 id, 2 requests at once | **violated**: the hooks of overlapping requests run in the other order than their commits (`ScheduleMirrors`) |
| `BootRefused` | 1 id, an expression APScheduler refuses | **violated**: the application does not boot again (`BootSucceeds`) |
| `Executor` | 2 executions of one runner, one at a time, 2 manifests, 1 failure or refusal of the daemon, 1 cancellation | `NothingLeftRunning`, `InstallerRemoved`, `WorkspaceRemoved`: what an ended execution may leave; `MarkerHonest`; `SuccessIsReal`; `RunEnds` |
| `Services` | see below | `NoOrphans`, `StaleSessionsRaced`, `BootstrapConfined`, `RevivedByResolve` (Access); `CatalogFaithful`; `TextFaithful` (LogTail); `NoOrphanLog`, `RetentionSparesLive`, `OldRowsGo` (Retention); `MaskingSound`; `QuotaKept`; `SecretsResolve`; `DaysAgree`; `ReportTruthful` |
| `KeyRevived` | `Access` alone, the same bounds | **violated**: a `resolve()` under way undoes a revocation (`RevocationIsFinal`) |

The six violations are disagreements between the code and its own comments,
tests or documents; `PROJECT.json` quotes them. They also delimit the passing
runs: `Overlap` states what holds while calls do not overlap and nothing is
cancelled, `Cancellation` what holds even when they do, `Schedule` what holds while
requests do not overlap (`JobsAreCurrent`) or always (`StaleJobsHeal`).

Bounds. `MaxExec` bounds the calls: three are the least with which a worker
holds the permit while another is granted it and a third waits behind; two
suffice for every race between a call and its victim. One permit makes every
second worker wait; larger values are covered by the proofs and add nothing to
the races of two workers. `MaxFaults` and `MaxRestarts` bound how often the
environment misbehaves: one error at any await, one crash at any moment. The
Scheduler needs no counters: its state space is finite, with two ids so that a
cascade and a reused id can meet another runner, and two accepted expressions
so that a job can be out of date.
`Executor`: two executions, for what one leaves in the cache concerns the next;
two manifests, so that the marker can be of another; one failure or refusal and one
cancellation, which may fall in one execution. `Services`: 2 users, 2 keys and 2
requests (a race takes two, a reused id a second row), 5 secrets; 2 projects, 2
runners, 2 names, 4 edits (a project, a runner and two that race); a log of 3
bytes, of which two may be one character, 4 polls, another tick only while fewer than 2 are in
flight (the effect's going on and off polls besides); 2 executions and 2 mishaps; up to two
secrets of up to 3 letters out of 2, one of them of several bytes, in texts of 5, with a minimum length of 2
for the code's 4, enough for values that overlap themselves, each other and a
cut; 2 callers, 2 attempts in a window of 3 ticks, 2 ticks to a second, 6 ticks;
2 variables of one name, 2 keys that may be generated, of which a boot takes one, and one of the
operator's; all day-of-week fields of up to two numbers or ranges, those past the week's end
included; 2 posts, the code's
own number.
`CHECK_DEADLOCK FALSE` is stated because the service legitimately comes to
rest once the bounded calls are served, or after `stop()`.

Fairness. `FairSpec` adds `WF_vars(Progress)`: the event loop does not stand
still while some task can go on, the executor returns (it enforces the runner's
timeout) and database calls end. Calls, errors, deletions, restarts and the call
of `stop()` are under no fairness. This is weaker than fairness to each task,
which asyncio's FIFO ready queue would justify, and it suffices since the
calls are bounded. `Scheduler`'s `FairSpec` says that a registered job fires again
and again and its callback goes on (cron does, and `_fire` only waits for the
database); requests, cascades and restarts are under no fairness.
`DockerExecutor`'s `FairSpec`: a coroutine that can go on does (its timeouts
included, which the event loop keeps), and a call the daemon was given is
carried out; scripts and installs may run for ever. `Retention`: the
purge job goes on and comes back every day (`add_system_job`), under weak fairness
of its steps taken together. The other components are checked for safety.

## 4. What is proved by TLAPS

For every number of calls, set of runners, assignment of policies, number of
permits and bound on the environment (`ConstantsAssumption`):

- `TypeCorrect`: `Spec => []TypeOK`. `TypeOK` carries two facts beyond types
  that the code relies on: the consumer holds an item while it dispatches, and a
  worker in its final transition has a result.
- `PermitsConserved`: `Spec => []PermitConservation`. The semaphore's value and
  the workers past `acquire` add up to `max_concurrent_jobs`. The invariant is
  inductive together with `TypeOK`; the work is a lemma on `WakeNext` (a step
  that moves one worker and passes at most one permit on) and one on the
  cardinality of `Holders` when one worker changes.
- `BoundedConcurrency`: at most `max_concurrent_jobs` workers hold a permit or
  are in the executor, a corollary.
- `DispatchedOnceHolds`: `Spec => []DispatchedOnce`. It is inductive with the
  facts its second part states: an execution that is queued or in the consumer's
  hands has been put by its own call and has had no worker.

- `NoLostWakeupHolds`: inductive with `WaitersQueue` (whoever waits in `acquire()` is
  in the semaphore's deque). A permit that comes back goes to the first waiter
  that may be woken, whose existence is an argument on the least index; leaving the
  deque takes nobody else out of it.
- `StopQuiescesHolds`: once the consumer is off no worker appears, so those
  `stop()` finds in `_workers`, and the notifications pending when they have
  ended, are all it has to wait for (`StopInv`).
- `QueuedIsOwnedHolds`, if no row is deleted: a row a call has read as `running` is
  never `queued` again, so every cancelled worker whose row is still `queued` is
  among the rows its canceller will save as killed (`OwnedInv`).

While nothing fails, dies, is stopped, deleted or replaced (`Calm`, the setting of
the run `Overlap`): `RunningIsOwnedHolds`,
`FailedIsNotifiedHolds`, `TerminalIsFinalHolds`, from an invariant that ties each
row to the stage of its call and its worker (`RowStage`, `CallStage`). If besides
calls do not overlap (`Sequential`): `SkipExclusiveHolds`, and
`ImplementsLifecycleSteps`, the safety part of the refinement of
`ExecutionLifecycle`: every step of the queue is a step of the life cycle or shows
nothing. `Start` finds a slot because what runs holds a permit and the one about
to start holds another. That no call replaces an execution and that calls do not
overlap is needed: the runs `VictimStarts`, `VictimForgotten` and `OverlapRace` show
what happens otherwise.

For every set of runners ids, expressions and requests (`Scheduler`):

- `TypeCorrect`: `Spec => []TypeOK`, with what an operation holds at each step.
- `JobsStayCurrent`: if requests do not overlap (one request at most, the
  hypothesis of the theorem), `Spec => []JobsAreCurrent`. A job may be out of
  date only between the commit and the hook of an operation on its runner, and
  the hook must then meet the row the operation knows. So the inductive
  invariant says that every runner without such an operation has a current
  job, and that the row an operation is about to write, or has written, is the
  one it read or wrote, or is gone.

For every number of executions, manifests, failures and cancellations
(`DockerExecutor`), overlapping or not: `TypeCorrect`, `NothingLeftRunningHolds`,
`InstallerRemovedHolds`, `SuccessIsRealHolds`, `WorkspaceRemovedHolds`. The
inductive invariant `Inv` says, for each execution, what its step implies of its
workspace (`DirInv`), of the installer (`InstInv`), of the script's container
(`BoxInv`) and of the exit code (`CodeInv`), in terms of the calls still in the
daemon's hands, of `left` and of `silent`: a property that looks only at ended executions is not
inductive, since a call issued earlier may still take effect. Executions
touch each other only through the cache, so a lemma reduces a step to the
execution it is of.

`MarkerHonestHolds` is the one about the cache. As long as executions of the runner
do not overlap, the installer that is running is of the execution in flight, or is a
`Zombie`: its `iremove` was abandoned, and the daemon may start it, late, and wipe the
directory under whoever comes next. `CallInv` says which calls of an install the
daemon may still hold at each step, `CacheInv` what the install in flight may count on
(`Mine`: it wiped the cache last, or a zombie did; `Good`: it finished too), and that
whoever installs has found the marker of another manifest; `OneInFlight` gives that
nobody else marks meanwhile. The proof showed a gap of the model: a cancellation
that meets the marker's write may come after the write was made, which `Cancel` now
allows.

For every number of users, keys, secrets and requests (`Access`): `TypeCorrect`,
`NoOrphansHolds`, `RevivedByResolveHolds`, `StaleSessionsRacedHolds`,
`BootstrapConfinedHolds`. Four strengthenings: what an operation knows of the row it
will write (`EntityInv`), of a login's verified hash (`LoginInv`), which requests can
be under way while the bootstrap account has its first password (`BootInv`,
`ConfinedInv`).

For every number of attempts (`Webhook`): `ReportTruthfulHolds`. `NoticeInv`,
`RowInv` and `WireInv` tie the notification's step to the row, the row to the
rival's progress, and a reply to the attempt it answers.

For every number of rows and of mishaps (`Retention`): `NoOrphanLogHolds`,
`RetentionSparesLiveHolds`. `TaskInv` says that a worker whose row did not go with
its project has it `running`, so the purge never lists it; `PurgeInv` says what
the purge's step implies of the rows it has listed, of their logs and of those it has
erased. That the row it takes is one it listed, and that a new row's id is
nobody's, are lemmas about the least and the greatest of a finite set of numbers,
from the well-foundedness of `<`.

For every number of projects, runners, names, requests and edits (`Catalog`):
`CatalogFaithfulHolds`. The invariant says what an edit under way may still
rely on: the form of what it will write (`FormInv`), that its row is the one it read
(`FreshInv`) and that its name was free (`NameInv`), each unless `late`
records the commit that made it untrue. One lemma serves every commit: it takes the
row that is written and shows the invariant of all the other edits (`PutInv`).

For every length of the log, any characters and any polls (`LogTail`): `TextFaithfulHolds`.
`ReadInv` keeps offsets and reads within the file, `AloneInv` says that without overlap the
text is what the poll in flight goes on from, `CoverInv` that nothing before an offset is
missing from the text however polls overlap, and that an offset inside a character is
among the `cuts`, so that the marks on both sides of it are accounted for (`TextMeets`,
`AnswerCovers`). `SeenInv` says that a page which believes the execution over is right
unless the worker went on, `FinalInv` that the last poll reads at least what was there when it
was made, even beside polls that were never forsaken.

For every quota, window and number of callers (`RateLimiter`): `QuotaKeptHolds`. The
deque is the tail of what was let through, and all that was dropped from it is out
of the window (`DequeInv`); so an attempt comes at least a window after the one
`MaxAttempts` before it (`SpacedInv`), and a set of more than `MaxAttempts` indices
in one window would hold two that far apart, an argument on its least and
greatest. `PromiseInv` is the same for the Retry-After: it outlasts the oldest
attempt of a full deque.

For every number of variables, runners and keys (`EnvVars`): `SecretsResolveHolds`.
`StartInv` says what a process that is starting has found, `FileInv` that a file that is
missing or empty has never held the key of any row, in the table or about to be saved
by a rotation. That an own variable wins is about the greatest of a set of one.

For all day fields of numbers, ranges and lists (`CronDays`): `DaysAgreeHolds`, an
identity of arithmetic modulo 7 between two libraries that begin the week on
different days, shown of one number or range, past the week's end or not, that does not go on
from Sunday to Monday (`ItemAgrees`).

For every text, every way to cut it into chunks and every finite set of secrets,
overlapping or not (`SecretMasker`): `MaskingSoundHolds`. The regular expression scans from the left
and the model computes the scan by recursion from the end, so a lemma shows that such
a function exists and unfolds (`Backwards`), and claims about it go from the
last place to the first (`FromTheEnd`), by well-foundedness of `<`. Masking leaves no
secret, not even one made of what was apart (`NoneLeft`). Where a scan stops at a
cut, the two sides are masked apart (`SubSplit`); a match that begins before the tail
withheld is the same whatever comes next (`Decided`), so the place where `mask()` cuts is
such a stop for every continuation (`KeptIs`). The invariant `WholeInv` follows:
whatever is still to come, what is logged and then what is withheld and to come, masked,
is the whole masked in one piece. All this is about the decoded text; `DecodedInv` adds
that it is the output as long as no letter is cut. The docstring of `SecretMasker` (lines 127-130)
allows the masked text to depend on the chunks where secrets overlap; the proof
shows that it never does.

For the components side by side, as the run `Services` has them: `PartsTypeCorrect`
and `ServicesSafe`. Each behaviour of `MCServices` is one of every component
(`ServicesAreTheirParts`), so what is proved of each holds of the specification
that the run checks.

Not proved: liveness and the refinement's fairness, out of TLAPS's reach. Every
safety property a passing run checks is stated by a theorem, some of them under the
hypotheses named above.

## 5. Not modelled

- Of the queue, `wait_idle` (a test helper), reuse of row ids, and lock contention
  beyond "any transaction may fail". `Restart` keeps rows as they are because
  the code has no recovery of live rows at boot; properties that would need one
  exclude restarts by name.
- Of the executor, container options (memory, network, capabilities), image
  contents and log text. `_ensure_image` pulls with no timeout, so `RunEnds`
  begins after it.
- Of cron, steps (`*/2` in a day-of-week field), `#` and `L`, the other fields and the text;
  six-field expressions put the second first for one library and last for
  the other, which the model does not look at.
- Request parsing, response formatting, the cookie, the React views, migrations,
  the wiring in `main.py`, and cryptography (hashes, Fernet), which are of
  libraries or hold no state of their own.

What the models showed on the way and no run of its own states, because no
document promises otherwise or the property names it as its exception:

- `CronDays`: a day of month beside a day of week is an `and` in APScheduler and an
  `or` in cron, and a range that goes on from Sunday to Monday is refused or cut. Seen
  beside the model: `_convert_day_of_week` replaces the number of a step too (`*/2`
  becomes `*/tue`), where its docstring says that steps pass through untouched.
- `DockerExecutor`: a kill that the daemon refuses leaves the script running under an
  execution reported as timed out; a workspace may stay on disk without a word; after a failed install of another manifest, going back to the
  old one reuses a wiped cache; a log stream that breaks leaves an execution
  without a timeout; a script whose container is removed before it is asked for its
  exit code counts as failed.
- `Webhook`: `timed_out` may be reported of an execution that merely failed, when a
  `kill_previous` call overwrites the row before the notification reads it.
- `Catalog`: runners of one project may come to share a name, and an update undoes a
  concurrent one.
- `LogTail`: polls that overlap show a chunk twice until the view is opened again, a
  character cut by the end of a read is not shown, and what a victim marked as killed still
  writes may never be.
- `SecretMasker`: a secret with a character of several bytes that the end of a chunk cuts is
  logged in two pieces, unmasked.
- `Access`: the last administrator may be deleted, and a login in flight outlives a
  password change.

## 6. Plan

1. `ExecutionQueue` with its abstract life cycle and proofs, `Scheduler` with its
   proofs (done).
2. `DockerExecutor` with its proofs, `SecretMasker` (done).
3. `Access`, `Catalog`, `Retention` and `Webhook` with their proofs, `LogTail`,
   `RateLimiter`, `EnvVars`, `CronDays` (done).
4. `NoLostWakeup`, `StopQuiesces`, `QueuedIsOwned` and the refinement's safety
   part proved (done).
5. `MarkerHonest`, `LogTail`, `RateLimiter`, `EnvVars`, `CronDays` proved (done).
6. `MaskingSound` and the types of all components proved (done).
7. Still open: row ids reused in the queue; the recovery of live rows at boot, once
   the code has one.
