------------------------ MODULE ExecutionQueueProofs ------------------------
(***************************************************************************)
(* Theorems about ExecutionQueue for every number of calls, runners,       *)
(* policies, permits, faults and restarts; and, while nothing disturbs it, *)
(* that its rows tell the truth and that it implements ExecutionLifecycle. *)
(***************************************************************************)
EXTENDS ExecutionQueue, FiniteSetTheorems, SequenceTheorems, WellFoundedInduction,
        TLAPS

USE ConstantsAssumption

(* Every enqueue() step keeps the types.                                   *)
LEMMA CallTypes ==
    ASSUME TypeOK, NEW e \in Exec, EnqueueRead(e) \/ CallStep(e) \/ EnqueueFault(e)
    PROVE  TypeOK'
<1>1. CASE EnqueueRead(e)
  <2>1. \A r \in Runner : ActiveExecutions(r) \subseteq Exec \X Live
    BY DEF ActiveExecutions, TypeOK
  <2>2. PICK r \in Runner, seen \in SUBSET (Exec \X Live) : ApplyPolicy(e, r, seen)
    BY <1>1, <2>1 DEF EnqueueRead
  <2>3. active' \in [Exec -> SUBSET (Exec \X Live)]
    BY <2>2 DEF ApplyPolicy, TypeOK
  <2>4. runnerOf' \in [Exec -> Runner \cup {None}]
    BY <2>2 DEF ApplyPolicy, TypeOK
  <2>5. call' \in [Exec -> InFlightState \cup {"idle", "returned", "raised"}]
    BY <2>2 DEF ApplyPolicy, TypeOK, InFlightState
  <2> QED BY <1>1, <2>3, <2>4, <2>5
      DEF EnqueueRead, TypeOK, queueVars, taskVars, processVars
<1>2. CASE EnqueueSkip(e)
  BY <1>2 DEF EnqueueSkip, TypeOK, Terminal, InFlightState, queueVars, taskVars,
              processVars
<1>3. CASE CancelVictim(e)
  BY <1>3 DEF CancelVictim, RequestCancel, TypeOK, queueVars, processVars
<1>4. CASE EnqueueCommit(e)
  BY <1>4 DEF EnqueueCommit, TypeOK, Terminal, Live, InFlightState, queueVars,
              taskVars, processVars
<1>5. CASE EnqueuePut(e)
  BY <1>5 DEF EnqueuePut, PutNowait, TypeOK, InFlightState, taskVars, processVars
<1>6. CASE EnqueueFault(e)
  BY <1>6 DEF EnqueueFault, Fault, TypeOK, InFlightState, queueVars, taskVars
<1> QED BY <1>1, <1>2, <1>3, <1>4, <1>5, <1>6 DEF CallStep

(* Every step of the consumer keeps the types.                             *)
LEMMA ConsumerTypes ==
    ASSUME TypeOK, ConsumerStep \/ DispatchFault
    PROVE  TypeOK'
<1>1. CASE ConsumerGet
  BY <1>1 DEF ConsumerGet, TypeOK, callVars, taskVars, processVars
<1>2. CASE DispatchRead
  BY <1>2 DEF DispatchRead, NextItem, TypeOK, callVars, taskVars, processVars
<1>3. CASE DispatchSpawn
  BY <1>3 DEF DispatchSpawn, NextItem, TypeOK, Parked, callVars, processVars
<1>4. CASE DispatchFault
  BY <1>4 DEF DispatchFault, Fault, NextItem, TypeOK, callVars, taskVars
<1> QED BY <1>1, <1>2, <1>3, <1>4 DEF ConsumerStep

(* RemoveAt removes one element and moves no other out of the set.         *)
LEMMA RemoveAtType ==
    ASSUME NEW S, NEW q \in Seq(S), NEW i \in 1..Len(q)
    PROVE  RemoveAt(q, i) \in Seq(S)
BY DEF RemoveAt

(* Granting a permit, and what a worker's exit does to the worker and the  *)
(* semaphore, keep their types.                                            *)
LEMMA WakeTypes ==
    ASSUME TypeOK, NEW e \in Exec, NEW to \in {"mark", "done"}, NEW free \in Nat,
           WakeNext(e, to, free)
    PROVE  /\ worker' \in [Exec -> Parked \cup Holding \cup {"none", "done", "gone"}]
           /\ permits' \in Nat
           /\ \A f \in Exec : worker'[f] = "final" => worker[f] = "final"
BY DEF WakeNext, TypeOK, Holding

LEMMA ExitTypes ==
    ASSUME TypeOK, NEW e \in Exec, ReleaseAndEnd(e) \/ Unwind(e)
    PROVE  /\ worker' \in [Exec -> Parked \cup Holding \cup {"none", "done", "gone"}]
           /\ permits' \in Nat
           /\ \A f \in Exec : worker'[f] = "final" => worker[f] = "final"
<1>1. CASE ReleaseAndEnd(e)
  <2>1. permits + 1 \in Nat
    BY DEF TypeOK
  <2> QED BY <1>1, <2>1, WakeTypes DEF ReleaseAndEnd
<1>2. CASE Unwind(e) /\ ~ReleaseAndEnd(e)
  BY <1>2 DEF Unwind, TypeOK, Holding
<1> QED BY <1>1, <1>2

LEMMA DequeType ==
    ASSUME TypeOK, NEW e \in Exec, LeaveDeque(e)
    PROVE  waiters' \in Seq(Exec)
BY RemoveAtType DEF LeaveDeque, TypeOK

(* Every step of a worker keeps the types.                                 *)
LEMMA WorkerTypes ==
    ASSUME TypeOK, NEW e \in Exec, WorkerStep(e) \/ Notified(e) \/ WorkerFault(e)
    PROVE  TypeOK'
<1> USE DEF notWorker, callVars, queueVars, processVars
<1>1. CASE Acquire(e)
  <2>1. CASE Locked
    <3>1. /\ worker' = [worker EXCEPT ![e] = "wait"]
          /\ waiters' = Append(waiters, e) /\ permits' = permits
          /\ UNCHANGED <<row, running, cancelled, outcome, notify, notWorker>>
      BY <1>1, <2>1 DEF Acquire, Advance
    <3> QED BY <3>1 DEF TypeOK, Parked
  <2>2. CASE ~Locked
    <3>1. permits - 1 \in Nat
      BY <2>2 DEF Locked, TypeOK
    <3>2. /\ worker' = [worker EXCEPT ![e] = "mark"]
          /\ permits' = permits - 1 /\ waiters' = waiters
          /\ UNCHANGED <<row, running, cancelled, outcome, notify, notWorker>>
      BY <1>1, <2>2 DEF Acquire, Advance
    <3> QED BY <3>1, <3>2 DEF TypeOK, Holding
  <2> QED BY <2>1, <2>2
<1>2. CASE ResumeGranted(e)
  <2>1. permits \in Nat
    BY DEF TypeOK
  <2> QED BY <1>2, <2>1, DequeType, WakeTypes DEF ResumeGranted, TypeOK
<1>3. CASE MarkRunning(e)
  BY <1>3 DEF MarkRunning, Advance, Transition, TypeOK, Holding, Live
<1>4. CASE Proceed(e)
  BY <1>4 DEF Proceed, Advance, TypeOK, Holding
<1>5. CASE ExecutorEnds(e)
  <2>1. PICK o \in Outcome : /\ worker' = [worker EXCEPT ![e] = "final"]
                             /\ outcome' = [outcome EXCEPT ![e] = o]
    BY <1>5 DEF ExecutorEnds, Advance
  <2> QED BY <1>5, <2>1 DEF ExecutorEnds, TypeOK, Holding
<1>6. CASE MarkFinal(e)
  BY <1>6 DEF MarkFinal, Advance, Transition, FinalStatus, TypeOK, Holding, Terminal,
              Outcome
<1>7. CASE MarkKilled(e)
  BY <1>7 DEF MarkKilled, Advance, Transition, TypeOK, Holding, Terminal
<1>8. CASE Close(e)
  BY <1>8, ExitTypes DEF Close, TypeOK
<1>9. CASE CancelParked(e)
  BY <1>9, DequeType DEF CancelParked, Deliver, TypeOK
<1>10. CASE CancelGranted(e)
  BY <1>10, DequeType, ExitTypes DEF CancelGranted, Deliver, TypeOK
<1>11. CASE CancelCaught(e)
  BY <1>11 DEF CancelCaught, Deliver, TypeOK, Holding
<1>12. CASE CancelUncaught(e)
  BY <1>12, ExitTypes DEF CancelUncaught, Deliver, TypeOK
<1>13. CASE DoneCallback(e)
  BY <1>13 DEF DoneCallback, TypeOK
<1>14. CASE Notified(e)
  BY <1>14 DEF Notified, TypeOK
<1>15. CASE WorkerFault(e)
  BY <1>15, ExitTypes DEF WorkerFault, Fault, TypeOK
<1> QED BY <1>1, <1>2, <1>3, <1>4, <1>5, <1>6, <1>7, <1>8, <1>9, <1>10, <1>11, <1>12,
           <1>13, <1>14, <1>15 DEF WorkerStep

(* Every step of stop(), a deletion or a restart keeps the types.          *)
LEMMA ProcessTypes ==
    ASSUME TypeOK,
           StopConsumer \/ StopStep \/ Restart \/ \E e \in Exec : DeleteRow(e)
    PROVE  TypeOK'
<1> USE DEF callVars, queueVars, taskVars, processVars, notWorker
<1>1. CASE StopConsumer
  BY <1>1 DEF StopConsumer, TypeOK
<1>2. CASE StopWorkers
  BY <1>2 DEF StopWorkers, RequestCancel, TypeOK
<1>3. CASE StopNotifications
  BY <1>3 DEF StopNotifications, PendingNotifications, TypeOK
<1>4. CASE StopReturns
  BY <1>4 DEF StopReturns, TypeOK
<1>5. CASE Restart
  BY <1>5 DEF Restart, TypeOK
<1>6. CASE \E e \in Exec : DeleteRow(e)
  BY <1>6 DEF DeleteRow, TypeOK
<1> QED BY <1>1, <1>2, <1>3, <1>4, <1>5, <1>6 DEF StopStep

(* The types of all the variables hold in every reachable state.               *)
THEOREM TypeCorrect == Spec => []TypeOK
<1>1. Init => TypeOK
  BY DEF Init, TypeOK
<1>2. TypeOK /\ [Next]_vars => TypeOK'
  <2> SUFFICES ASSUME TypeOK, [Next]_vars PROVE TypeOK'
    OBVIOUS
  <2>1. CASE Next
    BY <2>1, CallTypes, ConsumerTypes, WorkerTypes, ProcessTypes DEF Next, Progress
  <2>2. CASE UNCHANGED vars
    BY <2>2 DEF vars, callVars, queueVars, taskVars, processVars, TypeOK
  <2> QED BY <2>1, <2>2
<1> QED BY <1>1, <1>2, PTL DEF Spec

-----------------------------------------------------------------------------
(* Dispatched once *)

LEMMA CallDispatched ==
    ASSUME TypeOK, DispatchedOnce, NEW e \in Exec,
           EnqueueRead(e) \/ CallStep(e) \/ EnqueueFault(e)
    PROVE  DispatchedOnce'
<1> USE DEF queueVars, taskVars, InFlightState
<1>1. CASE ~EnqueuePut(e)
  <2>1. /\ UNCHANGED <<queue, consumer, item, worker>>
        /\ \E to \in {"insert", "victims", "skip", "put", "returned", "raised"} :
             call' = [call EXCEPT ![e] = to]
        /\ call[e] \notin {"returned", "raised"}
    <3>1. CASE EnqueueRead(e)
      BY <3>1 DEF EnqueueRead, ApplyPolicy, TypeOK
    <3>2. CASE EnqueueSkip(e) \/ EnqueueFault(e)
      BY <3>2 DEF EnqueueSkip, EnqueueFault, TypeOK
    <3>3. CASE CancelVictim(e)
      BY <3>3 DEF CancelVictim, TypeOK
    <3>4. CASE EnqueueCommit(e)
      BY <3>4 DEF EnqueueCommit, TypeOK
    <3> QED BY <1>1, <3>1, <3>2, <3>3, <3>4 DEF CallStep
  <2> QED BY <2>1 DEF DispatchedOnce, Queued, InHand, TypeOK
<1>2. CASE EnqueuePut(e)
  <2>1. /\ queue' = Append(queue, e)
        /\ UNCHANGED <<consumer, item, worker>>
        /\ call[e] = "put" /\ call' = [call EXCEPT ![e] = "returned"]
    BY <1>2 DEF EnqueuePut, PutNowait
  <2>2. /\ queue \in Seq(Exec)
        /\ DOMAIN queue = 1..Len(queue) /\ DOMAIN queue' = 1..(Len(queue) + 1)
        /\ \A i \in 1..Len(queue) : queue'[i] = queue[i]
        /\ queue'[Len(queue) + 1] = e
    BY <2>1 DEF TypeOK
  <2>3. \A f \in Exec : Queued(f)' <=> Queued(f) \/ f = e
    BY <2>2 DEF Queued
  <2>4. ~Queued(e) /\ ~InHand(e) /\ worker[e] = "none"
    BY <2>1 DEF DispatchedOnce
  <2>5. \A i, j \in DOMAIN queue' : queue'[i] = queue'[j] => i = j
    BY <2>2, <2>4 DEF DispatchedOnce, Queued
  <2>6. \A f \in Exec : InHand(f)' <=> InHand(f)
    BY <2>1 DEF InHand
  <2> QED BY <2>1, <2>3, <2>4, <2>5, <2>6 DEF DispatchedOnce, TypeOK
<1> QED BY <1>1, <1>2

LEMMA ConsumerDispatched ==
    ASSUME TypeOK, DispatchedOnce, ConsumerStep \/ DispatchFault
    PROVE  DispatchedOnce'
<1> USE DEF callVars, taskVars
<1>1. CASE ConsumerGet
  <2>1. /\ queue # <<>> /\ item' = Head(queue) /\ queue' = Tail(queue)
        /\ consumer = "get" /\ consumer' = "read"
        /\ UNCHANGED <<call, worker>>
    BY <1>1 DEF ConsumerGet
  <2>2. /\ DOMAIN queue = 1..Len(queue) /\ DOMAIN queue' = 1..(Len(queue) - 1)
        /\ Len(queue) \in Nat \ {0}
        /\ \A i \in DOMAIN queue' : queue'[i] = queue[i + 1]
        /\ item' = queue[1]
    BY <2>1 DEF TypeOK
  <2>3. \A i, j \in DOMAIN queue' : queue'[i] = queue'[j] => i = j
    BY <2>2 DEF DispatchedOnce
  <2>4. \A f \in Exec : Queued(f)' => Queued(f) /\ f # item'
    BY <2>2 DEF Queued, DispatchedOnce
  <2>5. \A f \in Exec : InHand(f)' => Queued(f)
    <3>1. 1 \in DOMAIN queue
      BY <2>2
    <3> QED BY <2>2, <3>1 DEF InHand, Queued
  <2>6. \A f \in Exec : ~(Queued(f)' /\ InHand(f)')
    BY <2>4 DEF InHand
  <2> QED BY <2>1, <2>3, <2>4, <2>5, <2>6 DEF DispatchedOnce
<1>2. CASE DispatchRead
  BY <1>2 DEF DispatchRead, NextItem, DispatchedOnce, Queued, InHand
<1>3. CASE DispatchSpawn
  <2>1. /\ queue' = queue /\ call' = call /\ consumer' = "get" /\ InHand(item)
        /\ worker' = [worker EXCEPT ![item] = "new"]
        /\ item \in Exec
    BY <1>3 DEF DispatchSpawn, NextItem, InHand, TypeOK
  <2> QED BY <2>1 DEF DispatchedOnce, Queued, InHand, TypeOK
<1>4. CASE DispatchFault
  BY <1>4 DEF DispatchFault, Fault, NextItem, DispatchedOnce, Queued, InHand
<1> QED BY <1>1, <1>2, <1>3, <1>4 DEF ConsumerStep

(* A worker's step never starts another worker.                            *)
LEMMA NoNewWorker ==
    ASSUME TypeOK, NEW e \in Exec, WorkerStep(e) \/ Notified(e) \/ WorkerFault(e)
    PROVE  /\ UNCHANGED <<callVars, queueVars>>
           /\ \A f \in Exec : worker[f] = "none" => worker'[f] = "none"
<1> USE DEF notWorker
<1>1. CASE Acquire(e) \/ ResumeGranted(e)
  BY <1>1 DEF Acquire, ResumeGranted, Advance, WakeNext, NextWaiter, Wakeable, TypeOK
<1>2. CASE MarkRunning(e) \/ Proceed(e) \/ MarkFinal(e) \/ MarkKilled(e)
  BY <1>2 DEF MarkRunning, Proceed, MarkFinal, MarkKilled, Advance, TypeOK
<1>3. CASE ExecutorEnds(e)
  BY <1>3 DEF ExecutorEnds, Advance, TypeOK
<1>4. CASE Close(e) \/ CancelGranted(e)
  BY <1>4 DEF Close, CancelGranted, ReleaseAndEnd, WakeNext, NextWaiter, Wakeable,
              TypeOK
<1>5. CASE CancelParked(e) \/ CancelCaught(e) \/ DoneCallback(e) \/ Notified(e)
  BY <1>5 DEF CancelParked, CancelCaught, DoneCallback, Notified, TypeOK
<1>6. CASE CancelUncaught(e) \/ WorkerFault(e)
  BY <1>6 DEF CancelUncaught, WorkerFault, Unwind, ReleaseAndEnd, WakeNext,
              NextWaiter, Wakeable, TypeOK
<1> QED BY <1>1, <1>2, <1>3, <1>4, <1>5, <1>6 DEF WorkerStep

LEMMA OtherDispatched ==
    ASSUME TypeOK, DispatchedOnce,
           \/ \E e \in Exec : WorkerStep(e) \/ Notified(e) \/ WorkerFault(e)
                               \/ DeleteRow(e)
           \/ StopConsumer \/ StopStep \/ Restart
    PROVE  DispatchedOnce'
<1>1. CASE \E e \in Exec : WorkerStep(e) \/ Notified(e) \/ WorkerFault(e)
  <2>1. /\ UNCHANGED <<call, queue, consumer, item>>
        /\ \A f \in Exec : worker[f] = "none" => worker'[f] = "none"
    BY <1>1, NoNewWorker DEF callVars, queueVars
  <2> QED BY <2>1 DEF DispatchedOnce, Queued, InHand
<1>2. CASE (\E e \in Exec : DeleteRow(e)) \/ StopStep
  BY <1>2 DEF DeleteRow, StopStep, StopWorkers, StopNotifications, StopReturns,
              notWorker, callVars, queueVars, taskVars, DispatchedOnce, Queued, InHand
<1>3. CASE StopConsumer
  BY <1>3 DEF StopConsumer, callVars, taskVars, DispatchedOnce, Queued, InHand
<1>4. CASE Restart
  <2>1. /\ queue' = <<>> /\ consumer' = "get"
        /\ \A f \in Exec : worker[f] = "none" => worker'[f] = "none"
        /\ \A f \in Exec : call'[f] \notin {"returned", "raised"}
                             => call[f] \notin {"returned", "raised"}
    BY <1>4 DEF Restart
  <2> QED BY <2>1 DEF DispatchedOnce, Queued, InHand
<1> QED BY <1>1, <1>2, <1>3, <1>4

(* An execution is dispatched at most once.                                *)
THEOREM DispatchedOnceHolds == Spec => []DispatchedOnce
<1>1. Init => DispatchedOnce
  BY DEF Init, DispatchedOnce, Queued, InHand
<1>2. TypeOK /\ DispatchedOnce /\ [Next]_vars => DispatchedOnce'
  <2> SUFFICES ASSUME TypeOK, DispatchedOnce, [Next]_vars PROVE DispatchedOnce'
    OBVIOUS
  <2>1. CASE Next
    BY <2>1, CallDispatched, ConsumerDispatched, OtherDispatched DEF Next, Progress
  <2>2. CASE UNCHANGED vars
    BY <2>2 DEF vars, callVars, queueVars, taskVars, DispatchedOnce, Queued, InHand
  <2> QED BY <2>1, <2>2
<1> QED BY <1>1, <1>2, TypeCorrect, PTL DEF Spec

-----------------------------------------------------------------------------
(* The permits of the semaphore *)

LEMMA HoldersFinite == IsFiniteSet(Holders) /\ Cardinality(Holders) \in Nat
<1>1. IsFiniteSet(Exec)
  BY FS_Interval DEF Exec
<1>2. Holders \subseteq Exec
  BY DEF Holders
<1> QED BY <1>1, <1>2, FS_Subset, FS_CardinalityType

LEMMA SameHolders ==
    ASSUME PermitConservation, permits' = permits,
           \A f \in Exec : worker'[f] \in Holding <=> worker[f] \in Holding
    PROVE  PermitConservation'
<1>1. Holders' = Holders
  BY DEF Holders
<1> QED BY <1>1 DEF PermitConservation

(* Whether the permit of `e` is kept or returned, handing a free permit to *)
(* the next waiter keeps the sum.                                          *)
LEMMA WakeConserves ==
    ASSUME TypeOK, PermitConservation, NEW e \in Exec, NEW to, NEW free,
           worker[e] \in Holding,
           \/ to \in Holding /\ free = permits
           \/ to \notin Holding /\ free = permits + 1,
           WakeNext(e, to, free)
    PROVE  PermitConservation'
<1> DEFINE Rest == Holders \ {e}
           Kept == IF to \in Holding THEN {e} ELSE {}
<1>1. /\ e \in Holders /\ IsFiniteSet(Rest) /\ Cardinality(Rest) = Cardinality(Holders) - 1
      /\ Cardinality(Holders) \in Nat
  BY HoldersFinite, FS_RemoveElement DEF Holders
<1>2. Holders = Rest \cup {e} /\ e \notin Rest
  BY <1>1
<1>3. permits \in Nat /\ MaxJobs \in Nat
  BY DEF TypeOK
<1>4. /\ IsFiniteSet(Rest \cup Kept)
      /\ free + Cardinality(Rest \cup Kept) = permits + Cardinality(Holders)
  <2>1. CASE to \in Holding
    BY <1>1, <1>2, <1>3, <2>1, HoldersFinite
  <2>2. CASE to \notin Holding
    <3>1. Rest \cup Kept = Rest
      BY <2>2
    <3> QED BY <1>1, <1>3, <2>2, <3>1
  <2> QED BY <2>1, <2>2
<1>5. CASE \E f \in Exec : /\ NextWaiter(f)
                           /\ worker' = [worker EXCEPT ![e] = to, ![f] = "granted"]
                           /\ permits' = free - 1
  <2>1. PICK f \in Exec : /\ worker[f] = "wait"
                          /\ worker' = [worker EXCEPT ![e] = to, ![f] = "granted"]
                          /\ permits' = free - 1
    BY <1>5 DEF NextWaiter, Wakeable
  <2>2. f # e /\ f \notin Rest \cup Kept
    BY <2>1 DEF Holders, Holding
  <2>3. Holders' = (Rest \cup Kept) \cup {f}
    BY <2>1, <2>2 DEF Holders, Holding, TypeOK
  <2>4. Cardinality(Holders') = Cardinality(Rest \cup Kept) + 1
    BY <1>4, <2>2, <2>3, FS_AddElement
  <2>5. Cardinality(Rest \cup Kept) \in Nat
    BY <1>4, FS_CardinalityType
  <2> QED BY <1>3, <1>4, <2>1, <2>4, <2>5 DEF PermitConservation
<1>6. CASE worker' = [worker EXCEPT ![e] = to] /\ permits' = free
  <2>1. Holders' = Rest \cup Kept
    BY <1>6 DEF Holders, TypeOK
  <2> QED BY <1>4, <1>6, <2>1 DEF PermitConservation
<1> QED BY <1>5, <1>6 DEF WakeNext

LEMMA WorkerConserves ==
    ASSUME TypeOK, PermitConservation, NEW e \in Exec,
           WorkerStep(e) \/ Notified(e) \/ WorkerFault(e)
    PROVE  PermitConservation'
<1>0. permits \in Nat
  BY DEF TypeOK
<1>1. CASE Acquire(e)
  <2>1. CASE Locked
    <3>1. /\ worker' = [worker EXCEPT ![e] = "wait"] /\ permits' = permits
          /\ worker[e] = "new"
      BY <1>1, <2>1 DEF Acquire, Advance
    <3> QED BY <3>1, SameHolders DEF TypeOK, Holding
  <2>2. CASE ~Locked
    <3>1. /\ worker' = [worker EXCEPT ![e] = "mark"] /\ permits' = permits - 1
          /\ worker[e] = "new"
      BY <1>1, <2>2 DEF Acquire, Advance
    <3>2. Holders' = Holders \cup {e} /\ e \notin Holders
      BY <3>1 DEF Holders, Holding, TypeOK
    <3>3. Cardinality(Holders') = Cardinality(Holders) + 1
      BY <3>2, HoldersFinite, FS_AddElement
    <3> QED BY <1>0, <3>1, <3>3, HoldersFinite DEF PermitConservation
  <2> QED BY <2>1, <2>2
<1>2. CASE ResumeGranted(e)
  BY <1>2, WakeConserves DEF ResumeGranted, Holding
<1>3. CASE \/ MarkRunning(e) \/ Proceed(e) \/ MarkFinal(e) \/ MarkKilled(e)
           \/ ExecutorEnds(e)
  <2>1. /\ permits' = permits /\ worker[e] \in Holding
        /\ \E to \in Holding : worker' = [worker EXCEPT ![e] = to]
    BY <1>3 DEF MarkRunning, Proceed, MarkFinal, MarkKilled, ExecutorEnds, Advance,
                Holding
  <2> QED BY <2>1, SameHolders DEF TypeOK
<1>4. CASE Close(e) \/ CancelGranted(e)
  BY <1>0, <1>4, WakeConserves DEF Close, CancelGranted, ReleaseAndEnd, Holding
<1>5. CASE CancelParked(e) \/ DoneCallback(e)
  <2>1. /\ permits' = permits /\ worker[e] \notin Holding
        /\ \E to \in {"done", "gone"} : worker' = [worker EXCEPT ![e] = to]
    BY <1>5 DEF CancelParked, DoneCallback, Holding
  <2> QED BY <2>1, SameHolders DEF TypeOK, Holding
<1>6. CASE CancelCaught(e)
  BY <1>6, SameHolders DEF CancelCaught, TypeOK, Holding
<1>7. CASE CancelUncaught(e) \/ WorkerFault(e)
  <2>1. Unwind(e)
    BY <1>7 DEF CancelUncaught, WorkerFault
  <2>2. CASE worker[e] \in Holding /\ ReleaseAndEnd(e)
    BY <1>0, <2>2, WakeConserves DEF ReleaseAndEnd, Holding
  <2>3. CASE /\ worker[e] \in Holding /\ permits' = permits
             /\ worker' = [worker EXCEPT ![e] = "abort"]
    BY <2>3, SameHolders DEF TypeOK, Holding
  <2> QED BY <2>1, <2>2, <2>3 DEF Unwind, Holding
<1>8. CASE Notified(e)
  BY <1>8, SameHolders DEF Notified
<1> QED BY <1>1, <1>2, <1>3, <1>4, <1>5, <1>6, <1>7, <1>8 DEF WorkerStep

(* No permit is lost or made up.                                           *)
THEOREM PermitsConserved == Spec => []PermitConservation
<1>1. Init => PermitConservation
  <2> SUFFICES ASSUME Init PROVE PermitConservation
    OBVIOUS
  <2>1. Holders = {}
    BY DEF Init, Holders, Holding
  <2> QED BY <2>1, FS_EmptySet DEF Init, PermitConservation
<1>2. TypeOK /\ DispatchedOnce /\ PermitConservation /\ [Next]_vars
        => PermitConservation'
  <2> SUFFICES ASSUME TypeOK, DispatchedOnce, PermitConservation, [Next]_vars
               PROVE  PermitConservation'
    OBVIOUS
  <2>1. ASSUME NEW e \in Exec, WorkerStep(e) \/ Notified(e) \/ WorkerFault(e)
        PROVE  PermitConservation'
    BY <2>1, WorkerConserves
  <2>2. ASSUME NEW e \in Exec,
               \/ EnqueueRead(e) \/ CallStep(e) \/ EnqueueFault(e) \/ DeleteRow(e)
        PROVE  PermitConservation'
    <3>1. UNCHANGED <<worker, permits>>
      BY <2>2 DEF EnqueueRead, CallStep, EnqueueSkip, CancelVictim, EnqueueCommit,
                  EnqueuePut, EnqueueFault, DeleteRow, taskVars
    <3> QED BY <3>1, SameHolders
  <2>3. CASE DispatchSpawn
    <3>1. /\ worker[item] = "none" /\ item \in Exec /\ permits' = permits
          /\ worker' = [worker EXCEPT ![item] = "new"]
      BY <2>3 DEF DispatchSpawn, DispatchedOnce, InHand, TypeOK
    <3> QED BY <3>1, SameHolders DEF TypeOK, Holding
  <2>4. CASE Restart
    <3>1. Holders' = {} /\ permits' = MaxJobs
      BY <2>4 DEF Restart, Holders, Holding
    <3> QED BY <3>1, FS_EmptySet DEF PermitConservation
  <2>5. CASE ConsumerGet \/ DispatchRead \/ DispatchFault \/ StopConsumer \/ StopStep
             \/ UNCHANGED vars
    <3>1. UNCHANGED <<worker, permits>>
      BY <2>5 DEF ConsumerGet, DispatchRead, DispatchFault, StopConsumer, StopStep,
                  StopWorkers, StopNotifications, StopReturns, taskVars, vars
    <3> QED BY <3>1, SameHolders
  <2> QED BY <2>1, <2>2, <2>3, <2>4, <2>5 DEF Next, Progress, ConsumerStep
<1> QED BY <1>1, <1>2, TypeCorrect, DispatchedOnceHolds, PTL DEF Spec

(* Never more than max_concurrent_jobs executions are in the executor.     *)
COROLLARY BoundedConcurrency ==
    Spec => [](Cardinality({e \in Exec : worker[e] = "exec"}) <= MaxJobs)
<1>1. TypeOK /\ PermitConservation =>
        Cardinality({e \in Exec : worker[e] = "exec"}) <= MaxJobs
  <2> DEFINE Executing == {e \in Exec : worker[e] = "exec"}
  <2> SUFFICES ASSUME TypeOK, PermitConservation
               PROVE  Cardinality(Executing) <= MaxJobs
    OBVIOUS
  <2>1. Executing \subseteq Holders
    BY DEF Holders, Holding
  <2>2. Cardinality(Executing) \in Nat /\ Cardinality(Executing) <= Cardinality(Holders)
    BY <2>1, HoldersFinite, FS_Subset, FS_CardinalityType
  <2> QED BY <2>2, HoldersFinite DEF PermitConservation, TypeOK
<1> QED BY <1>1, TypeCorrect, PermitsConserved, PTL
HIDE ConstantsAssumption

-----------------------------------------------------------------------------
(* Who waits for a permit *)

(* Whoever waits in acquire() is in the semaphore's deque.                 *)
InDeque(e) == \E i \in DOMAIN waiters : waiters[i] = e

WaitersQueue == \A e \in Exec : worker[e] \in {"wait", "granted"} => InDeque(e)

(* The first waiter that may be woken is the next.                         *)
LEMMA SomeNextWaiter ==
    ASSUME TypeOK, NEW e \in Exec, InDeque(e), Wakeable(e)
    PROVE  \E f \in Exec : NextWaiter(f)
<1> DEFINE S == {i \in DOMAIN waiters : Wakeable(waiters[i])}
<1>1. waiters \in Seq(Exec) /\ DOMAIN waiters = 1..Len(waiters) /\ Len(waiters) \in Nat
  BY DEF TypeOK
<1>2. S \subseteq Nat /\ S # {}
  BY <1>1 DEF InDeque
<1>3. IsWellFoundedOn(OpToRel(<, Nat), Nat)
  BY NatLessThanWellFounded
<1>4. PICK i \in S : \A j \in S : ~(<<j, i>> \in OpToRel(<, Nat))
  BY <1>2, <1>3, WFMin
<1>5. \A j \in S : ~(j < i)
  BY <1>2, <1>4 DEF OpToRel
<1>6. waiters[i] \in Exec /\ i \in 1..Len(waiters)
  BY <1>1
<1>7. \A j \in 1..(i - 1) : j \in DOMAIN waiters /\ j < i
  BY <1>1, <1>6
<1> QED BY <1>5, <1>6, <1>7 DEF NextWaiter

(* Leaving the deque takes nobody else out of it.                          *)
LEMMA OthersStay ==
    ASSUME TypeOK, NEW e \in Exec, LeaveDeque(e)
    PROVE  \A f \in Exec \ {e} : InDeque(f) => InDeque(f)'
<1> SUFFICES ASSUME NEW f \in Exec \ {e}, InDeque(f) PROVE InDeque(f)'
  OBVIOUS
<1>1. waiters \in Seq(Exec) /\ DOMAIN waiters = 1..Len(waiters) /\ Len(waiters) \in Nat
  BY DEF TypeOK
<1>2. PICK i \in DOMAIN waiters : waiters[i] = e /\ waiters' = RemoveAt(waiters, i)
  BY DEF LeaveDeque
<1>3. PICK j \in DOMAIN waiters : waiters[j] = f
  BY DEF InDeque
<1>4. /\ Len(waiters') = Len(waiters) - 1 /\ waiters' \in Seq(Exec)
      /\ \A k \in 1..(Len(waiters) - 1) :
            waiters'[k] = IF k < i THEN waiters[k] ELSE waiters[k + 1]
  <2> DEFINE before == SubSeq(waiters, 1, i - 1)
             after == SubSeq(waiters, i + 1, Len(waiters))
  <2>1. /\ before \in Seq(Exec) /\ Len(before) = i - 1
        /\ \A k \in 1..(i - 1) : before[k] = waiters[k]
    BY <1>1, <1>2
  <2>2. /\ after \in Seq(Exec) /\ Len(after) = Len(waiters) - i
        /\ \A k \in 1..(Len(waiters) - i) : after[k] = waiters[i + k]
    BY <1>1, <1>2
  <2>3. waiters' = before \o after
    BY <1>2 DEF RemoveAt
  <2> HIDE DEF before, after
  <2>4. i \in 1..Len(waiters) /\ i - 1 \in Nat /\ Len(waiters) - i \in Nat
    BY <1>1, <1>2
  <2>5. /\ waiters' \in Seq(Exec) /\ Len(waiters') = Len(waiters) - 1
        /\ \A k \in 1..(Len(waiters) - 1) : waiters'[k] =
             IF k <= i - 1 THEN before[k] ELSE after[k - (i - 1)]
    <3>1. Len(before) + Len(after) = Len(waiters) - 1
      BY <1>1, <2>1, <2>2, <2>4
    <3>2. /\ before \o after \in Seq(Exec)
          /\ Len(before \o after) = Len(before) + Len(after)
          /\ \A k \in 1..(Len(before) + Len(after)) : (before \o after)[k] =
               IF k <= Len(before) THEN before[k] ELSE after[k - Len(before)]
      BY <2>1, <2>2, ConcatProperties
    <3> QED BY <2>1, <2>3, <3>1, <3>2
  <2>6. ASSUME NEW k \in 1..(Len(waiters) - 1)
        PROVE  waiters'[k] = IF k < i THEN waiters[k] ELSE waiters[k + 1]
    <3>1. CASE k < i
      BY <1>1, <2>1, <2>4, <2>5, <3>1
    <3>2. CASE ~(k < i)
      <4>1. k - (i - 1) \in 1..(Len(waiters) - i) /\ i + (k - (i - 1)) = k + 1
        BY <1>1, <2>4, <3>2
      <4>2. after[k - (i - 1)] = waiters[k + 1]
        BY <2>2, <4>1
      <4> QED BY <1>1, <2>4, <2>5, <3>2, <4>2
    <3> QED BY <3>1, <3>2
  <2> QED BY <2>5, <2>6
<1>5. DOMAIN waiters' = 1..(Len(waiters) - 1)
  BY <1>1, <1>4
<1>6. CASE j < i
  BY <1>1, <1>2, <1>3, <1>4, <1>6, <1>5 DEF InDeque
<1>7. CASE j > i
  <2>1. j - 1 \in 1..(Len(waiters) - 1) /\ ~(j - 1 < i) /\ (j - 1) + 1 = j
    BY <1>1, <1>2, <1>3, <1>7
  <2> QED BY <1>3, <1>4, <1>5, <2>1 DEF InDeque
<1> QED BY <1>1, <1>2, <1>3, <1>6, <1>7

WaitInv == WaitersQueue /\ NoLostWakeup

(* A permit that comes back beside a waiter is granted to one.             *)
LEMMA WakeWaits ==
    ASSUME TypeOK, WaitInv, NEW e \in Exec, NEW to \in {"mark", "done"},
           NEW free \in Nat, worker[e] # "wait", WakeNext(e, to, free),
           \A f \in Exec \ {e} : InDeque(f) => InDeque(f)',
           \A f \in Exec \ {e} : f \in cancelled => f \in cancelled'
    PROVE  WaitInv'
<1>1. CASE \E f \in Exec : /\ NextWaiter(f)
                           /\ worker' = [worker EXCEPT ![e] = to, ![f] = "granted"]
  <2>1. PICK f \in Exec : /\ worker[f] = "wait" /\ f # e
                          /\ worker' = [worker EXCEPT ![e] = to, ![f] = "granted"]
    BY <1>1 DEF NextWaiter, Wakeable
  <2> QED BY <2>1 DEF TypeOK, WaitInv, WaitersQueue, NoLostWakeup
<1>2. CASE /\ free = 0 \/ \A f \in Exec : ~NextWaiter(f)
           /\ worker' = [worker EXCEPT ![e] = to] /\ permits' = free
  <2>1. WaitersQueue'
    BY <1>2 DEF TypeOK, WaitInv, WaitersQueue
  <2>2. CASE free = 0
    BY <1>2, <2>1, <2>2 DEF WaitInv, NoLostWakeup
  <2>3. CASE \A f \in Exec : ~NextWaiter(f)
    <3>1. \A f \in Exec : ~Wakeable(f)
      BY <2>3, SomeNextWaiter DEF WaitInv, WaitersQueue, Wakeable
    <3>2. \A f \in Exec : ~Wakeable(f)'
      BY <1>2, <3>1 DEF TypeOK, Wakeable
    <3> QED BY <2>1, <3>2 DEF WaitInv, NoLostWakeup
  <2> QED BY <1>2, <2>2, <2>3
<1> QED BY <1>1, <1>2 DEF WakeNext

(* One worker that was not granted a permit goes elsewhere than to wait.   *)
LEMMA StepWaits ==
    ASSUME TypeOK, WaitInv, NEW e \in Exec, NEW to, to \notin {"wait", "granted"},
           worker[e] # "granted", worker' = [worker EXCEPT ![e] = to],
           permits' = permits,
           \A f \in Exec \ {e} : InDeque(f) => InDeque(f)',
           \A f \in Exec \ {e} : f \in cancelled => f \in cancelled'
    PROVE  WaitInv'
<1>1. WaitersQueue'
  BY DEF TypeOK, WaitInv, WaitersQueue
<1>2. \A f \in Exec : Wakeable(f)' => Wakeable(f)
  BY DEF TypeOK, Wakeable
<1>3. \A f \in Exec : worker[f] = "granted" => worker'[f] = "granted"
  BY DEF TypeOK
<1> QED BY <1>1, <1>2, <1>3 DEF WaitInv, NoLostWakeup

LEMMA SameWaits ==
    ASSUME WaitInv, UNCHANGED <<worker, permits, waiters>>, cancelled \subseteq cancelled'
    PROVE  WaitInv'
BY DEF WaitInv, WaitersQueue, NoLostWakeup, InDeque, Wakeable

LEMMA AcquireWaits ==
    ASSUME TypeOK, WaitInv, NEW e \in Exec, Acquire(e)
    PROVE  WaitInv'
<1>1. /\ worker[e] = "new" /\ cancelled' = cancelled
      /\ permits \in Nat
  BY DEF Acquire, Advance, TypeOK
<1>2. CASE Locked
  <2>1. /\ worker' = [worker EXCEPT ![e] = "wait"]
        /\ waiters' = Append(waiters, e) /\ permits' = permits
    BY <1>2 DEF Acquire, Advance
  <2>2. /\ waiters \in Seq(Exec) /\ DOMAIN waiters = 1..Len(waiters)
        /\ DOMAIN waiters' = 1..(Len(waiters) + 1) /\ Len(waiters) \in Nat
        /\ \A i \in 1..Len(waiters) : waiters'[i] = waiters[i]
        /\ waiters'[Len(waiters) + 1] = e
    BY <2>1 DEF TypeOK
  <2>3. \A f \in Exec : InDeque(f)' <=> InDeque(f) \/ f = e
    BY <2>2 DEF InDeque
  <2>4. WaitersQueue'
    BY <2>1, <2>3 DEF TypeOK, WaitInv, WaitersQueue
  <2>5. permits > 0 => \E g \in Exec : worker[g] = "granted"
    BY <1>1, <1>2, <2>2 DEF Locked, WaitInv, NoLostWakeup
  <2>6. NoLostWakeup'
    BY <1>1, <2>1, <2>5 DEF TypeOK, NoLostWakeup
  <2> QED BY <2>4, <2>6 DEF WaitInv
<1>3. CASE ~Locked
  <2>1. worker' = [worker EXCEPT ![e] = "mark"] /\ waiters' = waiters
    BY <1>3 DEF Acquire, Advance
  <2>2. \A f \in Exec : ~Wakeable(f)
    BY <1>3 DEF Locked, WaitInv, WaitersQueue, InDeque, Wakeable
  <2>3. \A f \in Exec : ~Wakeable(f)'
    BY <1>1, <2>1, <2>2 DEF TypeOK, Wakeable
  <2> QED BY <1>1, <2>1, <2>3 DEF TypeOK, WaitInv, WaitersQueue, NoLostWakeup, InDeque
<1> QED BY <1>2, <1>3

LEMMA WorkerWaits ==
    ASSUME TypeOK, WaitInv, NEW e \in Exec,
           WorkerStep(e) \/ Notified(e) \/ WorkerFault(e)
    PROVE  WaitInv'
<1>1. permits \in Nat /\ permits + 1 \in Nat
  BY DEF TypeOK
<1> DEFINE Same == /\ \A f \in Exec \ {e} : InDeque(f) => InDeque(f)'
                   /\ \A f \in Exec \ {e} : f \in cancelled => f \in cancelled'
<1>2. CASE ResumeGranted(e)
  <2>1. Same
    BY <1>2, OthersStay DEF ResumeGranted
  <2> QED BY <1>1, <1>2, <2>1, WakeWaits DEF ResumeGranted
<1>3. CASE \/ MarkRunning(e) \/ Proceed(e) \/ MarkFinal(e) \/ MarkKilled(e)
           \/ ExecutorEnds(e) \/ CancelCaught(e) \/ DoneCallback(e)
  <2>1. /\ permits' = permits /\ worker[e] # "granted"
        /\ \E to \in (Holding \ {"granted"}) \cup {"gone"} :
             worker' = [worker EXCEPT ![e] = to]
    BY <1>3 DEF MarkRunning, Proceed, MarkFinal, MarkKilled, ExecutorEnds, CancelCaught,
                DoneCallback, Advance, Holding
  <2>2. Same
    BY <1>3 DEF MarkRunning, Proceed, MarkFinal, MarkKilled, ExecutorEnds, CancelCaught,
                DoneCallback, Deliver, InDeque
  <2> QED BY <2>1, <2>2, StepWaits DEF Holding
<1>4. CASE Close(e)
  <2>1. Same /\ worker[e] # "wait"
    BY <1>4 DEF Close, InDeque
  <2> QED BY <1>1, <1>4, <2>1, WakeWaits DEF Close, ReleaseAndEnd
<1>5. CASE CancelGranted(e)
  <2>1. Same /\ worker[e] # "wait"
    BY <1>5, OthersStay DEF CancelGranted, Deliver
  <2> QED BY <1>1, <1>5, <2>1, WakeWaits DEF CancelGranted, ReleaseAndEnd
<1>6. CASE CancelParked(e)
  <2>1. Same /\ worker[e] # "granted"
    BY <1>6, OthersStay DEF CancelParked, Deliver, InDeque
  <2> QED BY <1>6, <2>1, StepWaits DEF CancelParked
<1>7. CASE CancelUncaught(e) \/ WorkerFault(e)
  <2>1. Unwind(e) /\ Same
    BY <1>7 DEF CancelUncaught, WorkerFault, Deliver, InDeque
  <2>2. CASE ReleaseAndEnd(e) /\ worker[e] # "wait"
    BY <1>1, <2>1, <2>2, WakeWaits DEF ReleaseAndEnd
  <2>3. CASE /\ worker[e] # "granted" /\ permits' = permits
             /\ worker' = [worker EXCEPT ![e] = "abort"]
    BY <2>1, <2>3, StepWaits
  <2> QED BY <2>1, <2>2, <2>3 DEF Unwind
<1>8. CASE Notified(e)
  BY <1>8, SameWaits DEF Notified
<1> QED BY <1>2, <1>3, <1>4, <1>5, <1>6, <1>7, <1>8, AcquireWaits DEF WorkerStep

(* A cancelled waiter neither swallows a wake-up nor blocks those behind   *)
(* it (`async with self._semaphore` in _run).                              *)
THEOREM NoLostWakeupHolds == Spec => []NoLostWakeup
<1>1. Init => WaitInv
  BY DEF Init, WaitInv, WaitersQueue, NoLostWakeup, Wakeable
<1>2. TypeOK /\ DispatchedOnce /\ WaitInv /\ [Next]_vars => WaitInv'
  <2> SUFFICES ASSUME TypeOK, DispatchedOnce, WaitInv, [Next]_vars PROVE WaitInv'
    OBVIOUS
  <2>1. ASSUME NEW e \in Exec, WorkerStep(e) \/ Notified(e) \/ WorkerFault(e)
        PROVE  WaitInv'
    BY <2>1, WorkerWaits
  <2>2. ASSUME NEW e \in Exec,
               EnqueueRead(e) \/ CallStep(e) \/ EnqueueFault(e) \/ DeleteRow(e)
        PROVE  WaitInv'
    <3>1. UNCHANGED <<worker, permits, waiters>> /\ cancelled \subseteq cancelled'
      BY <2>2 DEF EnqueueRead, CallStep, EnqueueSkip, CancelVictim, RequestCancel,
                  EnqueueCommit, EnqueuePut, EnqueueFault, DeleteRow, taskVars
    <3> QED BY <3>1, SameWaits
  <2>3. CASE DispatchSpawn
    <3>1. /\ worker[item] = "none" /\ item \in Exec
          /\ worker' = [worker EXCEPT ![item] = "new"]
          /\ UNCHANGED <<permits, waiters, cancelled>>
      BY <2>3 DEF DispatchSpawn, DispatchedOnce, InHand, TypeOK
    <3>2. \A f \in Exec : InDeque(f) => InDeque(f)'
      BY <3>1 DEF InDeque
    <3> QED BY <3>1, <3>2, StepWaits
  <2>4. CASE Restart
    <3>1. \A f \in Exec : worker'[f] \in {"none", "gone"}
      BY <2>4 DEF Restart
    <3> QED BY <3>1 DEF WaitInv, WaitersQueue, NoLostWakeup, Wakeable
  <2>5. CASE ConsumerGet \/ DispatchRead \/ DispatchFault \/ StopConsumer \/ StopStep
             \/ UNCHANGED vars
    <3>1. UNCHANGED <<worker, permits, waiters>> /\ cancelled \subseteq cancelled'
      BY <2>5 DEF ConsumerGet, DispatchRead, DispatchFault, StopConsumer, StopStep,
                  StopWorkers, RequestCancel, StopNotifications, StopReturns, taskVars,
                  vars
    <3> QED BY <3>1, SameWaits
  <2> QED BY <2>1, <2>2, <2>3, <2>4, <2>5 DEF Next, Progress, ConsumerStep
<1>3. WaitInv => NoLostWakeup
  BY DEF WaitInv
<1> QED BY <1>1, <1>2, <1>3, TypeCorrect, DispatchedOnceHolds, PTL DEF Spec

-----------------------------------------------------------------------------
(* What stop() leaves behind *)

Ended == {"none", "gone", "done"}

(* The tasks of _workers are the workers under way; once the consumer is   *)
(* off no worker appears, and stop() waits for those it finds.             *)
StopInv ==
    /\ \A e \in Exec : worker[e] \notin {"none", "gone"} => e \in running
    /\ mode # "up" => consumer = "off"
    /\ mode = "draining" =>
         \A e \in Exec : worker[e] \notin {"none", "gone"} => e \in awaited
    /\ mode \in {"notifying", "stopped"} => \A e \in Exec : worker[e] \in Ended
    /\ mode = "notifying" => \A e \in Exec : notify[e] = "pending" => e \in awaited
    /\ StopQuiesces

(* A worker that has ended stays so.                                       *)
LEMMA EndedStays ==
    ASSUME TypeOK, NEW e \in Exec, WorkerStep(e) \/ Notified(e) \/ WorkerFault(e)
    PROVE  /\ \A f \in Exec : worker[f] \in {"none", "gone"} =>
                                 worker'[f] \in {"none", "gone"}
           /\ \A f \in Exec : worker[f] \in Ended => worker'[f] \in Ended
           /\ \A f \in Exec : f \notin running' => f \notin running
                                                    \/ worker'[f] = "gone"
<1> USE DEF Ended
<1>1. CASE Acquire(e)
  BY <1>1 DEF Acquire, Advance, TypeOK
<1>2. CASE ResumeGranted(e)
  <2>1. running' = running /\ worker[e] = "granted" /\ WakeNext(e, "mark", permits)
    BY <1>2 DEF ResumeGranted
  <2>2. \A f \in Exec : worker[f] \in Ended => worker'[f] = worker[f]
    BY <2>1 DEF WakeNext, NextWaiter, Wakeable, TypeOK
  <2> QED BY <2>1, <2>2
<1>3. CASE MarkRunning(e) \/ Proceed(e) \/ MarkFinal(e) \/ MarkKilled(e)
  BY <1>3 DEF MarkRunning, Proceed, MarkFinal, MarkKilled, Advance, TypeOK
<1>4. CASE ExecutorEnds(e)
  BY <1>4 DEF ExecutorEnds, Advance, TypeOK
<1>5. CASE Close(e) \/ CancelGranted(e)
  BY <1>5 DEF Close, CancelGranted, ReleaseAndEnd, WakeNext, NextWaiter, Wakeable,
              TypeOK
<1>6. CASE CancelParked(e) \/ CancelCaught(e) \/ DoneCallback(e) \/ Notified(e)
  BY <1>6 DEF CancelParked, CancelCaught, DoneCallback, Notified, TypeOK
<1>7. CASE CancelUncaught(e) \/ WorkerFault(e)
  BY <1>7 DEF CancelUncaught, WorkerFault, Unwind, ReleaseAndEnd, WakeNext,
              NextWaiter, Wakeable, TypeOK
<1> QED BY <1>1, <1>2, <1>3, <1>4, <1>5, <1>6, <1>7 DEF WorkerStep

(* Only a worker that ends normally schedules a notification.              *)
LEMMA NotifySteps ==
    ASSUME TypeOK, NEW e \in Exec, WorkerStep(e) \/ Notified(e) \/ WorkerFault(e)
    PROVE  \A f \in Exec : notify'[f] = "pending" =>
                             notify[f] = "pending" \/ worker[f] \notin Ended
<1>1. CASE Close(e) \/ Notified(e)
  BY <1>1 DEF Close, Notified, Ended, TypeOK
<1>2. CASE ~Close(e) /\ ~Notified(e)
  <2>1. notify' = notify
    BY <1>2 DEF WorkerStep, WorkerFault, Acquire, ResumeGranted, MarkRunning, Proceed,
                ExecutorEnds, MarkFinal, MarkKilled, CancelParked, CancelGranted,
                CancelCaught, CancelUncaught, DoneCallback
  <2> QED BY <2>1
<1> QED BY <1>1, <1>2

(* When stop() has returned, nothing it should have waited for is alive.   *)
THEOREM StopQuiescesHolds == Spec => []StopQuiesces
<1> USE DEF Ended
<1>1. Init => StopInv
  BY DEF Init, StopInv, StopQuiesces
<1>2. TypeOK /\ StopInv /\ [Next]_vars => StopInv'
  <2> SUFFICES ASSUME TypeOK, StopInv, [Next]_vars PROVE StopInv'
    OBVIOUS
  <2>1. ASSUME NEW e \in Exec, WorkerStep(e) \/ Notified(e) \/ WorkerFault(e)
        PROVE  StopInv'
    <3>1. UNCHANGED <<consumer, mode, awaited>>
      <4>1. CASE WorkerFault(e)
        BY <4>1 DEF WorkerFault, Fault, queueVars
      <4>2. CASE WorkerStep(e) \/ Notified(e)
        BY <4>2 DEF WorkerStep, Notified, Acquire, ResumeGranted, MarkRunning, Proceed,
                    ExecutorEnds, MarkFinal, MarkKilled, Close, CancelParked,
                    CancelGranted, CancelCaught, CancelUncaught, DoneCallback,
                    notWorker, queueVars, processVars
      <4> QED BY <2>1, <4>1, <4>2
    <3> QED BY <2>1, <3>1, EndedStays, NotifySteps DEF StopInv, StopQuiesces
  <2>2. ASSUME NEW e \in Exec,
               EnqueueRead(e) \/ CallStep(e) \/ EnqueueFault(e) \/ DeleteRow(e)
        PROVE  StopInv'
    <3>1. UNCHANGED <<worker, running, notify, consumer, mode, awaited>>
      BY <2>2 DEF EnqueueRead, CallStep, EnqueueSkip, CancelVictim, EnqueueCommit,
                  EnqueuePut, EnqueueFault, Fault, DeleteRow, taskVars, queueVars,
                  processVars, notWorker
    <3> QED BY <3>1 DEF StopInv, StopQuiesces
  <2>3. CASE ConsumerStep \/ DispatchFault
    <3>1. UNCHANGED <<notify, mode, awaited>> /\ consumer # "off"
      BY <2>3 DEF ConsumerStep, ConsumerGet, DispatchRead, DispatchSpawn, DispatchFault,
                  Fault, taskVars, processVars
    <3>2. \/ UNCHANGED <<worker, running>>
          \/ /\ worker' = [worker EXCEPT ![item] = "new"]
             /\ running' = running \cup {item} /\ item \in Exec
      BY <2>3 DEF ConsumerStep, ConsumerGet, DispatchRead, DispatchSpawn, DispatchFault,
                  taskVars, TypeOK
    <3> QED BY <3>1, <3>2 DEF StopInv, StopQuiesces, TypeOK
  <2>4. CASE StopConsumer
    BY <2>4 DEF StopConsumer, StopInv, StopQuiesces, taskVars
  <2>5. CASE StopWorkers
    BY <2>5 DEF StopWorkers, StopInv, StopQuiesces, queueVars
  <2>6. CASE StopNotifications
    <3>1. \A e \in Exec : worker[e] \in Ended
      BY <2>6 DEF StopNotifications, StopInv
    <3> QED BY <2>6, <3>1 DEF StopNotifications, PendingNotifications, StopInv,
                StopQuiesces, queueVars, taskVars
  <2>7. CASE StopReturns
    BY <2>7 DEF StopReturns, StopInv, StopQuiesces, queueVars, taskVars
  <2>8. CASE Restart
    BY <2>8 DEF Restart, StopInv, StopQuiesces
  <2>9. CASE UNCHANGED vars
    BY <2>9 DEF vars, queueVars, taskVars, processVars, StopInv, StopQuiesces
  <2> QED BY <2>1, <2>2, <2>3, <2>4, <2>5, <2>6, <2>7, <2>8, <2>9
      DEF Next, Progress, StopStep
<1>3. StopInv => StopQuiesces
  BY DEF StopInv
<1> QED BY <1>1, <1>2, <1>3, TypeCorrect, PTL DEF Spec

-----------------------------------------------------------------------------
(* No queued row is forgotten *)

Undisturbed == mode = "up" /\ faults = 0 /\ restarts = 0

(* What a call has read stays true enough: a row it has yet to insert is   *)
(* absent, a victim's row is there and, read `running`, never `queued`     *)
(* again. So every cancelled worker whose row is still `queued` is among   *)
(* the rows a call will save as killed.                                    *)
OwnedInv ==
    /\ \A e \in Exec : call[e] \in {"idle", "victims", "skip", "insert"} =>
                         row[e] = "absent"
    /\ \A c, v \in Exec : \A s \in Live : <<v, s>> \in active[c] =>
         row[v] # "absent" /\ (s = "running" => row[v] # "queued")
    /\ \A c, v \in Exec : v \in kills[c] => row[v] # "absent"
    /\ \A e \in cancelled : worker[e] # "none"
    /\ Undisturbed => \A e \in cancelled : row[e] = "queued" =>
                         \E c \in Exec : e \in kills[c]
    /\ QueuedIsOwned

Waiting == Parked \cup {"granted", "mark"}

(* A worker leaves `queued` behind only when it is cancelled or fails.     *)
LEMMA WorkerRows ==
    ASSUME TypeOK, NEW e \in Exec, WorkerStep(e) \/ Notified(e) \/ WorkerFault(e)
    PROVE  /\ UNCHANGED <<call, active, kills, queue, consumer, item, mode, restarts>>
           /\ cancelled' \subseteq cancelled
           /\ \A f \in Exec : row'[f] = "absent" <=> row[f] = "absent"
           /\ \A f \in Exec : row'[f] = "queued" => row[f] = "queued"
           /\ \A f \in Exec : worker[f] # "none" => worker'[f] # "none"
           /\ faults' = 0 => faults = 0
           /\ faults' = 0 =>
                \A f \in Exec : row'[f] = "queued" /\ worker[f] \in Waiting =>
                                  worker'[f] \in Waiting \/ f \in cancelled
<1> USE DEF notWorker, callVars, queueVars, processVars, Waiting, Parked
<1>1. CASE Acquire(e)
  BY <1>1 DEF Acquire, Advance, TypeOK
<1>2. CASE ResumeGranted(e)
  <2>1. /\ UNCHANGED <<row, cancelled, notWorker>> /\ worker[e] = "granted"
        /\ WakeNext(e, "mark", permits)
    BY <1>2 DEF ResumeGranted
  <2>2. \A f \in Exec : \/ worker'[f] = worker[f]
                        \/ worker[f] # "none" /\ worker'[f] \in {"granted", "mark"}
    <3>1. worker \in [Exec -> Parked \cup Holding \cup {"none", "done", "gone"}]
      BY DEF TypeOK
    <3>2. CASE \E f \in Exec :
                 /\ worker[f] = "wait"
                 /\ worker' = [worker EXCEPT ![e] = "mark", ![f] = "granted"]
      BY <2>1, <3>1, <3>2
    <3>3. CASE worker' = [worker EXCEPT ![e] = "mark"]
      BY <2>1, <3>1, <3>3
    <3> QED BY <2>1, <3>2, <3>3 DEF WakeNext, NextWaiter, Wakeable
  <2> QED BY <2>1, <2>2
<1>3. CASE MarkRunning(e) \/ MarkFinal(e) \/ MarkKilled(e)
  <2>1. /\ UNCHANGED <<cancelled, notWorker>>
        /\ \E to \in {"open", "close", "abort"} : worker' = [worker EXCEPT ![e] = to]
    BY <1>3 DEF MarkRunning, MarkFinal, MarkKilled, Advance
  <2>2. \E s \in {"running", "succeeded", "failed", "killed"} : Transition(e, s)
    <3>1. CASE MarkFinal(e)
      <4>1. outcome[e] \in Outcome
        BY <3>1 DEF MarkFinal, Advance, TypeOK
      <4>2. FinalStatus(outcome[e]) \in {"succeeded", "failed", "killed"}
        BY <4>1 DEF FinalStatus, Outcome
      <4> QED BY <3>1, <4>2 DEF MarkFinal
    <3> QED BY <1>3, <3>1 DEF MarkRunning, MarkKilled
  <2> QED BY <2>1, <2>2 DEF Transition, TypeOK
<1>4. CASE Proceed(e)
  BY <1>4 DEF Proceed, Advance, TypeOK
<1>5. CASE ExecutorEnds(e)
  <2>1. /\ UNCHANGED <<row, cancelled, notWorker>> /\ worker[e] \in {"env", "exec"}
        /\ worker' = [worker EXCEPT ![e] = "final"]
    BY <1>5 DEF ExecutorEnds, Advance
  <2> QED BY <2>1 DEF TypeOK
<1>6. ASSUME UNCHANGED <<row, callVars, queueVars, mode, restarts>>,
             cancelled' \subseteq cancelled, faults' = 0 => faults = 0,
             ReleaseAndEnd(e), worker[e] \notin Parked,
             faults' # 0 \/ worker[e] \notin Waiting \/ e \in cancelled
      PROVE  /\ \A f \in Exec : worker[f] # "none" => worker'[f] # "none"
             /\ faults' = 0 => \A f \in Exec : worker[f] \in Waiting =>
                                  worker'[f] \in Waiting \/ f \in cancelled
  <2>1. worker \in [Exec -> Parked \cup Holding \cup {"none", "done", "gone"}]
    BY DEF TypeOK
  <2>2. WakeNext(e, "done", permits + 1)
    BY <1>6 DEF ReleaseAndEnd
  <2>3. CASE \E f \in Exec :
               /\ worker[f] = "wait"
               /\ worker' = [worker EXCEPT ![e] = "done", ![f] = "granted"]
    BY <1>6, <2>1, <2>3
  <2>4. CASE worker' = [worker EXCEPT ![e] = "done"]
    BY <1>6, <2>1, <2>4
  <2> QED BY <2>2, <2>3, <2>4 DEF WakeNext, NextWaiter, Wakeable
<1>7. CASE Close(e)
  BY <1>6, <1>7 DEF Close
<1>8. CASE CancelGranted(e)
  BY <1>6, <1>8 DEF CancelGranted, Deliver
<1>9. CASE CancelParked(e) \/ CancelCaught(e) \/ DoneCallback(e) \/ Notified(e)
  BY <1>9 DEF CancelParked, CancelCaught, DoneCallback, Notified, Deliver, TypeOK
<1>10. CASE CancelUncaught(e)
  <2>1. /\ UNCHANGED <<row, notWorker>> /\ cancelled' \subseteq cancelled
        /\ e \in cancelled /\ Unwind(e)
    BY <1>10 DEF CancelUncaught, Deliver
  <2>2. CASE ReleaseAndEnd(e) /\ worker[e] \notin Parked
    BY <1>6, <2>1, <2>2
  <2>3. CASE /\ worker[e] \notin Waiting
             /\ worker' = [worker EXCEPT ![e] = "abort"]
    BY <2>1, <2>3 DEF TypeOK
  <2> QED BY <2>1, <2>2, <2>3 DEF Unwind
<1>11. CASE WorkerFault(e)
  <2>1. /\ UNCHANGED <<row, callVars, queueVars, mode, restarts, cancelled>>
        /\ faults' # 0 /\ Unwind(e)
    BY <1>11 DEF WorkerFault, Fault, TypeOK
  <2>2. CASE ReleaseAndEnd(e) /\ worker[e] \notin Parked
    BY <1>6, <2>1, <2>2
  <2>3. CASE worker' = [worker EXCEPT ![e] = "abort"]
    BY <2>1, <2>3 DEF TypeOK
  <2> QED BY <2>1, <2>2, <2>3 DEF Unwind
<1> QED BY <1>1, <1>2, <1>3, <1>4, <1>5, <1>7, <1>8, <1>9, <1>10, <1>11 DEF WorkerStep

LEMMA CallOwned ==
    ASSUME TypeOK, DispatchedOnce, OwnedInv, ~CanDelete, NEW e \in Exec,
           EnqueueRead(e) \/ CallStep(e) \/ EnqueueFault(e)
    PROVE  OwnedInv'
<1> USE DEF queueVars, taskVars, processVars
<1>1. CASE EnqueueRead(e)
  <2>1. PICK r \in Runner : ApplyPolicy(e, r, {}) \/ ApplyPolicy(e, r, ActiveExecutions(r))
    BY <1>1 DEF EnqueueRead
  <2>2. /\ call' = [call EXCEPT ![e] = call'[e]]
        /\ call[e] = "idle" /\ call'[e] \in {"insert", "skip", "victims"}
        /\ active' = [active EXCEPT ![e] = active'[e]]
        /\ active'[e] \subseteq ActiveExecutions(r)
        /\ UNCHANGED <<row, kills, queueVars, taskVars, processVars>>
    BY <1>1, <2>1 DEF EnqueueRead, ApplyPolicy, TypeOK
  <2>3. \A v \in Exec : \A s \in Live : <<v, s>> \in active'[e] =>
           row[v] = s /\ row[v] # "absent"
    BY <2>2 DEF ActiveExecutions, Live
  <2>4. \A c, v \in Exec : \A s \in Live : <<v, s>> \in active'[c] =>
           row[v] # "absent" /\ (s = "running" => row[v] # "queued")
    BY <2>2, <2>3 DEF OwnedInv, TypeOK
  <2>5. \A c \in Exec : call'[c] \in {"idle", "victims", "skip", "insert"} =>
           row[c] = "absent"
    BY <2>2 DEF OwnedInv, TypeOK
  <2>6. \A c \in Exec : call[c] = "put" => call'[c] = "put"
    BY <2>2 DEF TypeOK
  <2> QED BY <2>2, <2>4, <2>5, <2>6 DEF OwnedInv, Undisturbed, QueuedIsOwned, Queued, InHand
<1>2. CASE EnqueueSkip(e)
  <2>1. /\ call[e] = "skip" /\ call' = [call EXCEPT ![e] = "returned"]
        /\ row' = [row EXCEPT ![e] = "skipped"]
        /\ UNCHANGED <<active, kills, queueVars, taskVars, processVars>>
    BY <1>2 DEF EnqueueSkip
  <2>2. \A f \in Exec : /\ row'[f] = "absent" => row[f] = "absent"
                        /\ row'[f] = "queued" => row[f] = "queued"
                        /\ f # e => row'[f] = row[f] /\ call'[f] = call[f]
    BY <2>1 DEF TypeOK
  <2>3. \A f \in Exec : call'[f] \in {"idle", "victims", "skip", "insert"} =>
           row'[f] = "absent"
    BY <2>1, <2>2 DEF OwnedInv, TypeOK
  <2>4. \A f \in Exec : call[f] = "put" => call'[f] = "put"
    BY <2>1 DEF TypeOK
  <2> QED BY <2>1, <2>2, <2>3, <2>4
      DEF OwnedInv, Undisturbed, QueuedIsOwned, Queued, InHand
<1>3. CASE CancelVictim(e)
  <2>1. PICK victim \in active[e] :
           /\ active' = [active EXCEPT ![e] = @ \ {victim}]
           /\ RequestCancel({victim[1]})
           /\ kills' = [kills EXCEPT ![e] =
                          IF SavedAsKilled(victim[1], victim[2])
                          THEN @ \cup {victim[1]} ELSE @]
    BY <1>3 DEF CancelVictim
  <2>2. PICK v \in Exec, s \in Live : victim = <<v, s>>
    BY DEF TypeOK
  <2>3. /\ UNCHANGED <<row, call, queue, consumer, item, worker, mode, faults, restarts>>
        /\ \A c \in Exec : active'[c] \subseteq active[c] /\ kills[c] \subseteq kills'[c]
        /\ \A c \in Exec : kills'[c] \subseteq kills[c] \cup {v}
        /\ cancelled' \subseteq cancelled \cup {v}
        /\ v \in cancelled' /\ v \notin cancelled => v \in running /\ worker[v] # "none"
        /\ s = "queued" => v \in kills'[e]
    BY <1>3, <2>1, <2>2 DEF CancelVictim, RequestCancel, SavedAsKilled, TypeOK, Parked,
                            Holding
  <2>4. row[v] # "absent" /\ (s = "running" => row[v] # "queued")
    BY <2>1, <2>2 DEF OwnedInv
  <2>5. s = "running" \/ v \in kills'[e]
    BY <2>3 DEF Live
  <2> QED BY <2>3, <2>4, <2>5 DEF OwnedInv, Undisturbed, QueuedIsOwned, Queued, InHand
<1>4. CASE EnqueueCommit(e)
  <2>1. \A v \in kills[e] : v \in Exec /\ row[v] # "absent"
    BY DEF OwnedInv, TypeOK
  <2>2. /\ call[e] \in {"insert", "victims"} /\ call' = [call EXCEPT ![e] = "put"]
        /\ row' = [x \in Exec |-> IF x = e THEN "queued"
                                  ELSE IF x \in kills[e] THEN "killed" ELSE row[x]]
        /\ kills' = [kills EXCEPT ![e] = {}]
        /\ UNCHANGED <<active, queueVars, taskVars, processVars>>
    BY <1>4, <2>1 DEF EnqueueCommit
  <2>3. row[e] = "absent"
    BY <2>2 DEF OwnedInv
  <2>4. worker[e] = "none" /\ e \notin cancelled
    BY <2>2 DEF DispatchedOnce, OwnedInv
  <2>5. \A f \in Exec : /\ row'[f] = "absent" => row[f] = "absent"
                        /\ f # e /\ row'[f] = "queued" =>
                             row[f] = "queued" /\ f \notin kills[e]
    BY <2>2
  <2>6. \A f \in Exec : call'[f] \in {"idle", "victims", "skip", "insert"} =>
           row'[f] = "absent"
    <3>1. \A f \in Exec : call'[f] \in {"idle", "victims", "skip", "insert"} =>
             f # e /\ row[f] = "absent"
      BY <2>2 DEF OwnedInv, TypeOK
    <3> QED BY <2>1, <2>2, <3>1
  <2>7. \A c, v \in Exec : \A s \in Live : <<v, s>> \in active'[c] =>
           row'[v] # "absent" /\ (s = "running" => row'[v] # "queued")
    BY <2>2, <2>3, <2>5 DEF OwnedInv
  <2>8. /\ \A c, v \in Exec : v \in kills'[c] => v \in kills[c]
        /\ \A c, v \in Exec : v \in kills[c] /\ v \notin kills[e] => v \in kills'[c]
        /\ \A f \in Exec : call[f] = "put" => call'[f] = "put"
        /\ call'[e] = "put"
    BY <2>2 DEF TypeOK
  <2>9. \A f \in cancelled' : worker'[f] # "none"
    BY <2>2 DEF OwnedInv
  <2>10. Undisturbed' => \A f \in cancelled' : row'[f] = "queued" =>
                             \E c \in Exec : f \in kills'[c]
    BY <2>2, <2>4, <2>5, <2>8 DEF OwnedInv, Undisturbed, TypeOK
  <2>11. QueuedIsOwned'
    <3>1. \A f \in Exec : Queued(f)' = Queued(f) /\ InHand(f)' = InHand(f)
      BY <2>2 DEF Queued, InHand
    <3> QED BY <2>2, <2>5, <2>8, <3>1 DEF OwnedInv, QueuedIsOwned
  <2>12. \A c, v \in Exec : v \in kills'[c] => row'[v] # "absent"
    BY <2>5, <2>8 DEF OwnedInv
  <2> QED BY <2>6, <2>7, <2>9, <2>10, <2>11, <2>12 DEF OwnedInv
<1>5. CASE EnqueuePut(e)
  <2>1. /\ call[e] = "put" /\ call' = [call EXCEPT ![e] = "returned"]
        /\ queue' = Append(queue, e)
        /\ UNCHANGED <<row, active, kills, consumer, item, taskVars, processVars>>
    BY <1>5 DEF EnqueuePut, PutNowait
  <2>2. \A f \in Exec : Queued(f) \/ f = e => Queued(f)'
    <3>1. /\ queue \in Seq(Exec)
          /\ DOMAIN queue = 1..Len(queue) /\ DOMAIN queue' = 1..(Len(queue) + 1)
          /\ \A i \in 1..Len(queue) : queue'[i] = queue[i]
          /\ queue'[Len(queue) + 1] = e
      BY <2>1 DEF TypeOK
    <3> QED BY <3>1 DEF Queued
  <2>3. \A f \in Exec : /\ call[f] = "put" => call'[f] = "put" \/ f = e
                        /\ call'[f] \in {"idle", "victims", "skip", "insert"} =>
                             call[f] = call'[f]
    BY <2>1 DEF TypeOK
  <2> QED BY <2>1, <2>2, <2>3 DEF OwnedInv, Undisturbed, QueuedIsOwned, InHand
<1>6. CASE EnqueueFault(e)
  <2>1. /\ faults' # 0
        /\ UNCHANGED <<row, queueVars, taskVars>>
        /\ call' = [call EXCEPT ![e] = "raised"]
        /\ active' = [active EXCEPT ![e] = {}] /\ kills' = [kills EXCEPT ![e] = {}]
    BY <1>6 DEF EnqueueFault, Fault, TypeOK
  <2> QED BY <2>1 DEF OwnedInv, Undisturbed, QueuedIsOwned, TypeOK
<1> QED BY <1>1, <1>2, <1>3, <1>4, <1>5, <1>6 DEF CallStep

LEMMA ConsumerOwned ==
    ASSUME TypeOK, OwnedInv, ConsumerStep \/ DispatchFault
    PROVE  OwnedInv'
<1> USE DEF callVars, taskVars, processVars
<1>1. CASE ConsumerGet
  <2>1. /\ queue # <<>> /\ item' = Head(queue) /\ queue' = Tail(queue)
        /\ consumer = "get" /\ consumer' = "read"
        /\ UNCHANGED <<row, callVars, taskVars, processVars>>
    BY <1>1 DEF ConsumerGet
  <2>2. /\ DOMAIN queue = 1..Len(queue) /\ DOMAIN queue' = 1..(Len(queue) - 1)
        /\ Len(queue) \in Nat \ {0}
        /\ \A i \in DOMAIN queue' : queue'[i] = queue[i + 1]
        /\ item' = queue[1]
    BY <2>1 DEF TypeOK
  <2>3. \A f \in Exec : Queued(f) => Queued(f)' \/ InHand(f)'
    <3> SUFFICES ASSUME NEW f \in Exec, NEW i \in DOMAIN queue, queue[i] = f
                 PROVE  Queued(f)' \/ InHand(f)'
      BY DEF Queued
    <3>1. CASE i = 1
      BY <2>1, <2>2, <3>1 DEF InHand
    <3>2. CASE i # 1
      <4>1. i - 1 \in DOMAIN queue' /\ queue'[i - 1] = f
        BY <2>2, <3>2
      <4> QED BY <4>1 DEF Queued
    <3> QED BY <3>1, <3>2
  <2> QED BY <2>1, <2>3 DEF OwnedInv, Undisturbed, QueuedIsOwned, InHand
<1>2. CASE DispatchRead
  <2>1. /\ \A f \in Exec : InHand(f) => InHand(f)' \/ row[f] # "queued"
        /\ UNCHANGED <<queue, row, callVars, taskVars, processVars>>
    BY <1>2 DEF DispatchRead, NextItem, InHand
  <2> QED BY <2>1 DEF OwnedInv, Undisturbed, QueuedIsOwned, Queued
<1>3. CASE DispatchSpawn
  <2>1. /\ worker' = [worker EXCEPT ![item] = "new"] /\ item \in Exec
        /\ UNCHANGED <<queue, row, callVars, cancelled, processVars>>
        /\ \A f \in Exec : InHand(f) => f = item
    BY <1>3 DEF DispatchSpawn, NextItem, InHand, TypeOK
  <2>2. /\ \A f \in Exec : InHand(f) => worker'[f] = "new"
        /\ \A f \in Exec : worker[f] \in Waiting => worker'[f] \in Waiting
        /\ \A f \in cancelled : worker'[f] # "none"
    BY <2>1 DEF TypeOK, Waiting, Parked, OwnedInv
  <2> QED BY <2>1, <2>2 DEF OwnedInv, Undisturbed, QueuedIsOwned, Queued, Waiting, Parked
<1>4. CASE DispatchFault
  <2>1. /\ faults' # 0 /\ UNCHANGED <<row, callVars, taskVars>>
    BY <1>4 DEF DispatchFault, Fault, TypeOK
  <2> QED BY <2>1 DEF OwnedInv, Undisturbed, QueuedIsOwned
<1> QED BY <1>1, <1>2, <1>3, <1>4 DEF ConsumerStep

LEMMA OtherOwned ==
    ASSUME TypeOK, OwnedInv, ~CanDelete,
           \/ \E e \in Exec : WorkerStep(e) \/ Notified(e) \/ WorkerFault(e)
                               \/ DeleteRow(e)
           \/ StopConsumer \/ StopStep \/ Restart
    PROVE  OwnedInv'
<1>1. ASSUME NEW e \in Exec, WorkerStep(e) \/ Notified(e) \/ WorkerFault(e)
      PROVE  OwnedInv'
  <2> HIDE DEF Waiting
  <2>1. \A f \in Exec : Queued(f)' = Queued(f) /\ InHand(f)' = InHand(f)
    BY <1>1, WorkerRows DEF Queued, InHand
  <2>2. Undisturbed' => Undisturbed
    BY <1>1, WorkerRows DEF Undisturbed
  <2>3. QueuedIsOwned'
    <3> SUFFICES ASSUME Undisturbed', NEW f \in Exec, row'[f] = "queued"
                 PROVE  \/ call'[f] = "put" \/ Queued(f)' \/ InHand(f)'
                        \/ worker'[f] \in Waiting
                        \/ \E c \in Exec : f \in kills'[c]
      BY DEF Undisturbed, QueuedIsOwned, Waiting
    <3>1. row[f] = "queued" /\ Undisturbed /\ UNCHANGED <<call, kills>>
      BY <1>1, <2>2, WorkerRows
    <3>2. \/ call[f] = "put" \/ Queued(f) \/ InHand(f) \/ worker[f] \in Waiting
          \/ \E c \in Exec : f \in kills[c]
      BY <3>1 DEF OwnedInv, QueuedIsOwned, Undisturbed, Waiting
    <3>3. CASE worker[f] \in Waiting
      <4>1. worker'[f] \in Waiting \/ f \in cancelled
        BY <1>1, <3>3, WorkerRows DEF Undisturbed
      <4> QED BY <3>1, <4>1 DEF OwnedInv
    <3> QED BY <2>1, <3>1, <3>2, <3>3
  <2> QED BY <1>1, <2>2, <2>3, WorkerRows DEF OwnedInv, TypeOK
<1>2. CASE \E e \in Exec : DeleteRow(e)
  BY <1>2 DEF DeleteRow
<1>3. CASE StopConsumer \/ StopStep
  <2>1. /\ mode' # "up" /\ UNCHANGED <<row, callVars, worker>>
        /\ \A e \in cancelled' : e \in cancelled \/ worker[e] # "none"
    BY <1>3 DEF StopConsumer, StopStep, StopWorkers, RequestCancel, StopNotifications,
                StopReturns, taskVars, Parked, Holding
  <2> QED BY <2>1 DEF OwnedInv, Undisturbed, QueuedIsOwned, callVars
<1>4. CASE Restart
  <2>1. /\ restarts' # 0 /\ row' = row /\ cancelled' = {}
        /\ active' = [e \in Exec |-> {}] /\ kills' = [e \in Exec |-> {}]
        /\ \A e \in Exec : call'[e] \in {"raised", call[e]}
    BY <1>4 DEF Restart, TypeOK
  <2> QED BY <2>1 DEF OwnedInv, Undisturbed, QueuedIsOwned
<1> QED BY <1>1, <1>2, <1>3, <1>4

(* A row that reads `queued` is on its way to run or to be marked killed,  *)
(* until an error, the end of the service, a new boot or a deletion.       *)
THEOREM QueuedIsOwnedHolds == ~CanDelete => (Spec => []QueuedIsOwned)
<1> SUFFICES ASSUME ~CanDelete PROVE Spec => []QueuedIsOwned
  OBVIOUS
<1>1. Init => OwnedInv
  BY DEF Init, OwnedInv, QueuedIsOwned
<1>2. TypeOK /\ DispatchedOnce /\ OwnedInv /\ [Next]_vars => OwnedInv'
  <2> SUFFICES ASSUME TypeOK, DispatchedOnce, OwnedInv, [Next]_vars PROVE OwnedInv'
    OBVIOUS
  <2>1. CASE Next
    BY <2>1, CallOwned, ConsumerOwned, OtherOwned DEF Next, Progress
  <2>2. CASE UNCHANGED vars
    BY <2>2 DEF vars, callVars, queueVars, taskVars, processVars, OwnedInv, Undisturbed,
                QueuedIsOwned, Queued, InHand
  <2> QED BY <2>1, <2>2
<1>3. OwnedInv => QueuedIsOwned
  BY DEF OwnedInv
<1> QED BY <1>1, <1>2, <1>3, TypeCorrect, DispatchedOnceHolds, PTL DEF Spec

-----------------------------------------------------------------------------
(* The rows tell the truth, and the queue implements ExecutionLifecycle *)

USE ConstantsAssumption

Lifecycle == INSTANCE ExecutionLifecycle WITH
    Slots <- MaxJobs,
    status <- row,
    of <- [e \in Exec |-> IF row[e] = "absent" THEN None ELSE runnerOf[e]]

(* Nothing fails, dies, is stopped, deleted or replaced: as in the runs of *)
(* the life cycle.                                                         *)
Calm ==
    /\ MaxFaults = 0 /\ MaxRestarts = 0 /\ ~CanStop /\ ~CanDelete
    /\ \A r \in Runner : Policy[r] # "kill_previous"

(* Calls do not overlap.                                                   *)
Sequential == MaxCalls <= 1

-----------------------------------------------------------------------------
(* What a row says of its call and its worker *)

Ran == {"succeeded", "failed", "killed"}

RowStage ==
    \A e \in Exec :
        /\ worker[e] = "none" => row[e] \in {"absent", "queued", "skipped"}
        /\ Queued(e) \/ InHand(e) => row[e] = "queued"
        /\ worker[e] \in {"new", "wait", "granted", "mark"} => row[e] = "queued"
        /\ worker[e] \in {"open", "env", "exec", "final"} => row[e] = "running"
        /\ worker[e] = "close" => outcome[e] \in Outcome /\ row[e] = FinalStatus(outcome[e])
        /\ worker[e] \in {"done", "gone"} =>
             row[e] \in Ran /\ (row[e] = "failed" => notify[e] # "none")
        /\ worker[e] \notin {"kill", "abort"}

CallStage ==
    /\ mode = "up" /\ cancelled = {}
    /\ \A e \in Exec :
        /\ active[e] = {} /\ kills[e] = {}
        /\ call[e] \in {"idle", "skip", "insert", "put", "returned"}
        /\ call[e] \in {"idle", "skip", "insert"} <=> row[e] = "absent"
        /\ call[e] = "put" => row[e] = "queued"
        /\ call[e] # "idle" => runnerOf[e] \in Runner
        /\ call[e] = "skip" => Policy[runnerOf[e]] = "skip"

CalmInv == RowStage /\ CallStage

(* A call may read a set of live rows only to discard itself.              *)
LEMMA CalmCalls ==
    ASSUME TypeOK, DispatchedOnce, CalmInv, Calm, NEW e \in Exec,
           EnqueueRead(e) \/ CallStep(e) \/ EnqueueFault(e)
    PROVE  CalmInv'
<1> USE DEF queueVars, taskVars, processVars
<1>1. CASE EnqueueRead(e)
  <2>1. PICK r \in Runner : \/ ApplyPolicy(e, r, {})
                            \/ /\ Policy[r] # "queue"
                               /\ ApplyPolicy(e, r, ActiveExecutions(r))
    BY <1>1 DEF EnqueueRead
  <2>2. Policy[r] \in {"skip", "queue"}
    BY DEF Calm, Policies
  <2>3. PICK to \in {"skip", "insert"} :
           /\ call' = [call EXCEPT ![e] = to]
           /\ to = "skip" => Policy[r] = "skip"
    <3>1. CASE ApplyPolicy(e, r, {})
      BY <3>1 DEF ApplyPolicy
    <3>2. CASE ApplyPolicy(e, r, ActiveExecutions(r)) /\ ActiveExecutions(r) # {}
               /\ Policy[r] = "skip"
      BY <3>2 DEF ApplyPolicy
    <3> QED BY <2>1, <2>2, <3>1, <3>2
  <2>4. active' = [active EXCEPT ![e] = {}] /\ runnerOf' = [runnerOf EXCEPT ![e] = r]
    BY <2>1, <2>2 DEF ApplyPolicy
  <2>5. call[e] = "idle" /\ UNCHANGED <<row, kills, queueVars, taskVars, processVars>>
    BY <1>1 DEF EnqueueRead
  <2>6. RowStage'
    BY <2>5 DEF CalmInv, RowStage, Queued, InHand
  <2>7. CallStage'
    BY <2>3, <2>4, <2>5 DEF CalmInv, CallStage, TypeOK
  <2> QED BY <2>6, <2>7 DEF CalmInv
<1>2. CASE EnqueueSkip(e) \/ EnqueueCommit(e)
  <2>1. /\ call[e] \in {"skip", "insert"} /\ row[e] = "absent" /\ kills[e] = {}
    BY <1>2 DEF CalmInv, CallStage, EnqueueSkip, EnqueueCommit
  <2>2. /\ UNCHANGED <<runnerOf, active, queueVars, taskVars, processVars>>
        /\ \A f \in Exec : kills'[f] = {}
        /\ \/ /\ row' = [row EXCEPT ![e] = "skipped"]
              /\ call' = [call EXCEPT ![e] = "returned"]
           \/ /\ row' = [row EXCEPT ![e] = "queued"]
              /\ call' = [call EXCEPT ![e] = "put"]
    <3>1. CASE EnqueueSkip(e)
      BY <3>1 DEF EnqueueSkip, CalmInv, CallStage
    <3>2. CASE EnqueueCommit(e)
      BY <2>1, <3>2 DEF EnqueueCommit, CalmInv, CallStage, TypeOK
    <3> QED BY <1>2, <3>1, <3>2
  <2>3. worker[e] = "none" /\ ~Queued(e) /\ ~InHand(e)
    BY <2>1 DEF DispatchedOnce
  <2>4. RowStage'
    BY <2>2, <2>3 DEF CalmInv, RowStage, Queued, InHand, TypeOK
  <2>5. CallStage'
    BY <2>1, <2>2 DEF CalmInv, CallStage, TypeOK
  <2> QED BY <2>4, <2>5 DEF CalmInv
<1>3. CASE CancelVictim(e)
  BY <1>3 DEF CancelVictim, CalmInv, CallStage
<1>4. CASE EnqueuePut(e)
  <2>1. /\ call[e] = "put" /\ call' = [call EXCEPT ![e] = "returned"]
        /\ queue' = Append(queue, e)
        /\ UNCHANGED <<row, runnerOf, active, kills, consumer, item, taskVars, processVars>>
    BY <1>4 DEF EnqueuePut, PutNowait
  <2>2. \A f \in Exec : Queued(f)' => Queued(f) \/ f = e
    <3>1. /\ queue \in Seq(Exec)
          /\ DOMAIN queue = 1..Len(queue) /\ DOMAIN queue' = 1..(Len(queue) + 1)
          /\ \A i \in 1..Len(queue) : queue'[i] = queue[i]
          /\ queue'[Len(queue) + 1] = e
      BY <2>1 DEF TypeOK
    <3> QED BY <3>1 DEF Queued
  <2>3. RowStage'
    BY <2>1, <2>2 DEF CalmInv, CallStage, RowStage, InHand
  <2>4. CallStage'
    BY <2>1 DEF CalmInv, CallStage, TypeOK
  <2> QED BY <2>3, <2>4 DEF CalmInv
<1>5. CASE EnqueueFault(e)
  BY <1>5 DEF EnqueueFault, Fault, Calm, TypeOK
<1> QED BY <1>1, <1>2, <1>3, <1>4, <1>5 DEF CallStep

LEMMA CalmConsumer ==
    ASSUME TypeOK, DispatchedOnce, CalmInv, Calm, ConsumerStep \/ DispatchFault
    PROVE  CalmInv'
<1> USE DEF callVars, taskVars, processVars
<1>1. UNCHANGED <<row, callVars, outcome, notify, cancelled, mode>>
  BY DEF ConsumerStep, ConsumerGet, DispatchRead, DispatchSpawn, DispatchFault, Fault
<1>2. CASE ConsumerGet
  <2>1. /\ queue # <<>> /\ item' = Head(queue) /\ queue' = Tail(queue)
        /\ worker' = worker
    BY <1>2 DEF ConsumerGet
  <2>2. /\ DOMAIN queue = 1..Len(queue) /\ DOMAIN queue' = 1..(Len(queue) - 1)
        /\ Len(queue) \in Nat \ {0}
        /\ \A i \in DOMAIN queue' : queue'[i] = queue[i + 1]
        /\ item' = queue[1] /\ 1 \in DOMAIN queue
    BY <2>1 DEF TypeOK
  <2>3. \A f \in Exec : Queued(f)' \/ InHand(f)' => Queued(f)
    BY <2>2 DEF Queued, InHand
  <2> QED BY <1>1, <2>1, <2>3 DEF CalmInv, RowStage, CallStage
<1>3. CASE DispatchRead \/ DispatchFault
  <2>1. queue' = queue /\ worker' = worker /\ \A f \in Exec : InHand(f)' => InHand(f)
    BY <1>3 DEF DispatchRead, DispatchFault, Fault, Calm, TypeOK, NextItem, InHand
  <2> QED BY <1>1, <2>1 DEF CalmInv, RowStage, CallStage, Queued
<1>4. CASE DispatchSpawn
  <2>1. /\ worker' = [worker EXCEPT ![item] = "new"] /\ item \in Exec /\ InHand(item)
        /\ queue' = queue /\ \A f \in Exec : ~InHand(f)'
    BY <1>4 DEF DispatchSpawn, NextItem, InHand, TypeOK
  <2> QED BY <1>1, <2>1 DEF CalmInv, RowStage, CallStage, Queued, TypeOK
<1> QED BY <1>2, <1>3, <1>4 DEF ConsumerStep

(* Nobody is cancelled and nothing fails: a worker goes from await to      *)
(* await, and writes its own row where RowStage says so.                   *)
LEMMA CalmRows ==
    ASSUME TypeOK, CalmInv, Calm, NEW e \in Exec,
           WorkerStep(e) \/ Notified(e) \/ WorkerFault(e)
    PROVE  /\ UNCHANGED <<callVars, queueVars, mode, cancelled>>
           /\ \/ row' = row
              \/ /\ worker[e] = "mark" /\ row[e] = "queued"
                 /\ row' = [row EXCEPT ![e] = "running"]
              \/ /\ worker[e] = "final" /\ row[e] = "running"
                 /\ \E s \in Ran : row' = [row EXCEPT ![e] = s]
<1>1. cancelled = {} /\ faults \in Nat /\ ~WorkerFault(e)
  BY DEF CalmInv, CallStage, Calm, TypeOK, WorkerFault, Fault
<1>2. CASE MarkRunning(e)
  BY <1>2 DEF MarkRunning, Advance, Transition, CalmInv, RowStage, notWorker, processVars
<1>3. CASE MarkFinal(e)
  <2>1. outcome[e] \in Outcome /\ worker[e] = "final" /\ row[e] = "running"
    BY <1>3 DEF MarkFinal, Advance, TypeOK, CalmInv, RowStage
  <2>2. FinalStatus(outcome[e]) \in Ran
    BY <2>1 DEF FinalStatus, Outcome, Ran
  <2> QED BY <1>3, <2>1, <2>2 DEF MarkFinal, Transition, notWorker, processVars
<1>4. ~MarkKilled(e)
  BY DEF MarkKilled, Advance, CalmInv, RowStage
<1>5. ~CancelParked(e) /\ ~CancelGranted(e) /\ ~CancelCaught(e) /\ ~CancelUncaught(e)
  BY <1>1 DEF CancelParked, CancelGranted, CancelCaught, CancelUncaught, Deliver
<1>6. CASE \/ Acquire(e) \/ ResumeGranted(e) \/ Proceed(e) \/ ExecutorEnds(e) \/ Close(e)
           \/ DoneCallback(e) \/ Notified(e)
  BY <1>6 DEF Acquire, ResumeGranted, Proceed, ExecutorEnds, Close, DoneCallback, Notified,
              notWorker, processVars
<1> QED BY <1>1, <1>2, <1>3, <1>4, <1>5, <1>6 DEF WorkerStep

LEMMA CalmWorker ==
    ASSUME TypeOK, DispatchedOnce, CalmInv, Calm, NEW e \in Exec,
           WorkerStep(e) \/ Notified(e) \/ WorkerFault(e)
    PROVE  CalmInv'
<1>1. worker \in [Exec -> Parked \cup Holding \cup {"none", "done", "gone"}]
  BY DEF TypeOK
<1>2. UNCHANGED <<callVars, queueVars, mode, cancelled>>
  BY CalmRows
<1>3. \A f \in Exec : Queued(f)' = Queued(f) /\ InHand(f)' = InHand(f)
  BY <1>2 DEF Queued, InHand, queueVars
<1>4. CallStage'
  <2>1. worker[e] # "none" => call[e] \in {"returned", "raised"}
    BY DEF DispatchedOnce
  <2>2. \A f \in Exec : row'[f] = "absent" <=> row[f] = "absent"
    BY CalmRows DEF Ran, TypeOK
  <2>3. \A f \in Exec : call[f] = "put" => row'[f] = row[f]
    BY <2>1, CalmRows DEF TypeOK
  <2> QED BY <1>2, <2>2, <2>3 DEF CalmInv, CallStage, callVars
<1>5. RowStage'
  <2> USE <1>1, <1>3 DEF CalmInv
  <2>1. CASE Acquire(e)
    BY <2>1 DEF Acquire, Advance, RowStage
  <2>2. ASSUME WakeNext(e, "mark", permits), worker[e] = "granted",
               UNCHANGED <<row, outcome, notify>>
        PROVE  RowStage'
    <3>1. CASE \E f \in Exec :
                 /\ worker[f] = "wait"
                 /\ worker' = [worker EXCEPT ![e] = "mark", ![f] = "granted"]
      BY <2>2, <3>1 DEF RowStage
    <3>2. CASE worker' = [worker EXCEPT ![e] = "mark"]
      BY <2>2, <3>2 DEF RowStage
    <3> QED BY <2>2, <3>1, <3>2 DEF WakeNext, NextWaiter, Wakeable
  <2>3. CASE ResumeGranted(e)
    BY <2>2, <2>3 DEF ResumeGranted
  <2>4. CASE MarkRunning(e)
    <3>1. /\ worker[e] = "mark" /\ worker' = [worker EXCEPT ![e] = "open"]
          /\ row' = [row EXCEPT ![e] = "running"] /\ UNCHANGED <<outcome, notify>>
      BY <2>4 DEF MarkRunning, Advance, Transition, RowStage
    <3>2. ~Queued(e) /\ ~InHand(e)
      BY <3>1 DEF DispatchedOnce
    <3> QED BY <3>1, <3>2 DEF RowStage, TypeOK
  <2>5. CASE Proceed(e)
    BY <2>5 DEF Proceed, Advance, RowStage
  <2>6. CASE ExecutorEnds(e)
    <3>1. PICK o \in Outcome : outcome' = [outcome EXCEPT ![e] = o]
      BY <2>6 DEF ExecutorEnds
    <3>2. /\ worker[e] \in {"env", "exec"} /\ worker' = [worker EXCEPT ![e] = "final"]
          /\ UNCHANGED <<row, notify>>
      BY <2>6 DEF ExecutorEnds, Advance
    <3> QED BY <3>1, <3>2 DEF RowStage, TypeOK
  <2>7. CASE MarkFinal(e)
    <3>1. /\ worker[e] = "final" /\ worker' = [worker EXCEPT ![e] = "close"]
          /\ row' = [row EXCEPT ![e] = FinalStatus(outcome[e])]
          /\ UNCHANGED <<outcome, notify>> /\ outcome[e] \in Outcome
      BY <2>7 DEF MarkFinal, Advance, Transition, RowStage, TypeOK
    <3>2. ~Queued(e) /\ ~InHand(e)
      BY <3>1 DEF DispatchedOnce
    <3> QED BY <3>1, <3>2 DEF RowStage, TypeOK
  <2>8. CASE Close(e)
    <3>1. worker[e] = "close" /\ UNCHANGED <<row, outcome>>
          /\ notify' = IF NotifyFailure(outcome[e])
                       THEN [notify EXCEPT ![e] = "pending"] ELSE notify
      BY <2>8 DEF Close, RowStage
    <3>2. row[e] \in Ran /\ (row[e] = "failed" => notify'[e] # "none")
      BY <3>1 DEF RowStage, FinalStatus, NotifyFailure, Outcome, Ran, TypeOK
    <3>3. \A f \in Exec : notify[f] # "none" => notify'[f] # "none"
      BY <3>1 DEF TypeOK
    <3>4. CASE \E f \in Exec :
                 /\ worker[f] = "wait"
                 /\ worker' = [worker EXCEPT ![e] = "done", ![f] = "granted"]
      BY <3>1, <3>2, <3>3, <3>4 DEF RowStage
    <3>5. CASE worker' = [worker EXCEPT ![e] = "done"]
      BY <3>1, <3>2, <3>3, <3>5 DEF RowStage
    <3> QED BY <2>8, <3>4, <3>5 DEF Close, ReleaseAndEnd, WakeNext, NextWaiter, Wakeable
  <2>9. CASE DoneCallback(e)
    <3>1. /\ worker[e] = "done" /\ worker' = [worker EXCEPT ![e] = "gone"]
          /\ outcome' = [outcome EXCEPT ![e] = "none"] /\ UNCHANGED <<row, notify>>
      BY <2>9 DEF DoneCallback
    <3> QED BY <3>1 DEF RowStage, TypeOK
  <2>10. CASE Notified(e)
    <3>1. /\ notify' = [notify EXCEPT ![e] = "over"] /\ UNCHANGED <<row, worker, outcome>>
      BY <2>10 DEF Notified
    <3> QED BY <3>1 DEF RowStage, TypeOK
  <2>11. /\ ~MarkKilled(e) /\ ~WorkerFault(e)
         /\ ~CancelParked(e) /\ ~CancelGranted(e) /\ ~CancelCaught(e) /\ ~CancelUncaught(e)
    BY DEF MarkKilled, Advance, WorkerFault, Fault, CancelParked, CancelGranted,
           CancelCaught, CancelUncaught, Deliver, RowStage, CallStage, Calm, TypeOK
  <2> QED BY <2>1, <2>3, <2>4, <2>5, <2>6, <2>7, <2>8, <2>9, <2>10, <2>11 DEF WorkerStep
<1> QED BY <1>4, <1>5 DEF CalmInv

LEMMA CalmHolds == ASSUME Calm PROVE Spec => []CalmInv
<1>1. Init => CalmInv
  BY DEF Init, CalmInv, RowStage, CallStage, Queued, InHand
<1>2. TypeOK /\ DispatchedOnce /\ CalmInv /\ [Next]_vars => CalmInv'
  <2> SUFFICES ASSUME TypeOK, DispatchedOnce, CalmInv, [Next]_vars PROVE CalmInv'
    OBVIOUS
  <2>1. CASE (\E e \in Exec : DeleteRow(e)) \/ StopConsumer \/ StopStep \/ Restart
    BY <2>1 DEF Calm, DeleteRow, StopConsumer, StopStep, StopWorkers, StopNotifications,
                StopReturns, Restart, CalmInv, CallStage, TypeOK
  <2>2. CASE UNCHANGED vars
    BY <2>2 DEF vars, callVars, queueVars, taskVars, processVars, CalmInv, RowStage,
                CallStage, Queued, InHand
  <2> QED BY <2>1, <2>2, CalmCalls, CalmConsumer, CalmWorker DEF Next, Progress
<1> QED BY <1>1, <1>2, TypeCorrect, DispatchedOnceHolds, PTL DEF Spec

-----------------------------------------------------------------------------
(* Nothing shows as running for ever (_run).                               *)
THEOREM RunningIsOwnedHolds == ASSUME Calm PROVE Spec => []RunningIsOwned
<1>1. TypeOK /\ CalmInv => RunningIsOwned
  BY DEF TypeOK, CalmInv, RowStage, RunningIsOwned, Ran, Parked, Holding, FinalStatus,
         Outcome
<1> QED BY <1>1, TypeCorrect, CalmHolds, PTL

(* Every execution that ended failed has its notification scheduled by the *)
(* time its worker is gone (_run).                                         *)
THEOREM FailedIsNotifiedHolds == ASSUME Calm PROVE Spec => []FailedIsNotified
<1>1. CalmInv => FailedIsNotified
  BY DEF CalmInv, RowStage, FailedIsNotified
<1> QED BY <1>1, CalmHolds, PTL

(* The row of one execution, if any, is written: a call's, which was       *)
(* absent, or a worker's.                                                  *)
LEMMA CalmWrites ==
    ASSUME TypeOK, DispatchedOnce, CalmInv, Calm, [Next]_vars
    PROVE  \/ row' = row
           \/ \E e \in Exec :
                \/ EnqueueSkip(e) /\ row[e] = "absent"
                \/ EnqueueCommit(e) /\ row[e] = "absent" /\ call[e] = "insert"
                   /\ row' = [row EXCEPT ![e] = "queued"]
                \/ /\ worker[e] = "mark" /\ row[e] = "queued"
                   /\ row' = [row EXCEPT ![e] = "running"] /\ runnerOf' = runnerOf
                \/ /\ worker[e] = "final" /\ row[e] = "running" /\ runnerOf' = runnerOf
                   /\ \E s \in Ran : row' = [row EXCEPT ![e] = s]
<1>1. ASSUME NEW e \in Exec, EnqueueSkip(e)
      PROVE  row[e] = "absent"
  BY <1>1 DEF EnqueueSkip, CalmInv, CallStage
<1>2. ASSUME NEW e \in Exec, EnqueueCommit(e)
      PROVE  row[e] = "absent" /\ call[e] = "insert" /\ row' = [row EXCEPT ![e] = "queued"]
  BY <1>2 DEF EnqueueCommit, CalmInv, CallStage, TypeOK
<1>3. ASSUME NEW e \in Exec,
             EnqueueRead(e) \/ CancelVictim(e) \/ EnqueuePut(e) \/ EnqueueFault(e)
      PROVE  row' = row
  BY <1>3 DEF EnqueueRead, CancelVictim, EnqueuePut, EnqueueFault
<1>4. CASE \/ ConsumerStep \/ DispatchFault \/ StopStep \/ StopConsumer \/ Restart
           \/ UNCHANGED vars
  BY <1>4 DEF ConsumerStep, ConsumerGet, DispatchRead, DispatchSpawn, DispatchFault,
              StopStep, StopWorkers, StopNotifications, StopReturns, StopConsumer, Restart,
              vars
<1>5. ~\E e \in Exec : DeleteRow(e)
  BY DEF Calm, DeleteRow
<1> QED BY <1>1, <1>2, <1>3, <1>4, <1>5, CalmRows DEF Next, Progress, CallStep, callVars

(* A terminal status is never overwritten.                                 *)
THEOREM TerminalIsFinalHolds == ASSUME Calm PROVE Spec => TerminalIsFinal
<1> DEFINE Kept == \A e \in Exec : row[e] \in Terminal => row'[e] = row[e]
<1>1. TypeOK /\ DispatchedOnce /\ CalmInv /\ [Next]_vars => [Kept]_vars
  <2> SUFFICES ASSUME TypeOK, DispatchedOnce, CalmInv, [Next]_vars PROVE Kept
    OBVIOUS
  <2> QED BY CalmWrites DEF EnqueueSkip, Terminal, TypeOK
<1> QED BY <1>1, TypeCorrect, DispatchedOnceHolds, CalmHolds, PTL DEF Spec, TerminalIsFinal

-----------------------------------------------------------------------------
(* skip *)

(* At most one call is under way, and one that may insert a row for a      *)
(* `skip` runner has no live row of that runner beside it.                 *)
SkipInv ==
    /\ \A e, f \in InFlight : e = f
    /\ \A e, f \in Exec :
         /\ call[e] = "insert" /\ Policy[runnerOf[e]] = "skip"
         /\ runnerOf[f] = runnerOf[e]
         => row[f] \notin Live
    /\ SkipExclusive

LEMMA NoneInFlight ==
    ASSUME Sequential, Cardinality(InFlight) < MaxCalls
    PROVE  InFlight = {}
<1>1. IsFiniteSet(InFlight)
  <2>1. IsFiniteSet(Exec)
    BY FS_Interval DEF Exec
  <2> QED BY <2>1, FS_Subset DEF InFlight
<1>2. Cardinality(InFlight) = 0
  BY <1>1, FS_CardinalityType DEF Sequential
<1> QED BY <1>1, <1>2, FS_EmptySet

LEMMA SkipKept ==
    ASSUME TypeOK, DispatchedOnce, CalmInv, Calm, Sequential, SkipInv, [Next]_vars
    PROVE  SkipInv'
<1> USE DEF CalmInv
<1>1. ASSUME NEW e \in Exec, EnqueueRead(e)
      PROVE  SkipInv'
  <2>1. PICK r \in Runner : \/ ApplyPolicy(e, r, {}) /\ Policy[r] = "queue"
                            \/ /\ Policy[r] = "skip"
                               /\ ApplyPolicy(e, r, ActiveExecutions(r))
    BY <1>1 DEF EnqueueRead, Calm, Policies
  <2>2. /\ InFlight = {} /\ UNCHANGED row /\ row[e] = "absent"
        /\ runnerOf' = [runnerOf EXCEPT ![e] = r]
        /\ \E to \in {"insert", "skip", "victims"} : call' = [call EXCEPT ![e] = to]
    BY <1>1, <2>1, NoneInFlight DEF EnqueueRead, ApplyPolicy, CallStage
  <2>3. InFlight' \subseteq {e}
    BY <2>2 DEF InFlight, TypeOK
  <2>4. call'[e] = "insert" /\ Policy[r] = "skip" =>
           \A f \in Exec : runnerOf[f] = r => row[f] \notin Live
    <3> SUFFICES ASSUME call'[e] = "insert", Policy[r] = "skip",
                        NEW f \in Exec, runnerOf[f] = r, row[f] \in Live
                 PROVE  FALSE
      OBVIOUS
    <3>1. <<f, row[f]>> \in ActiveExecutions(r)
      BY DEF ActiveExecutions
    <3>2. ActiveExecutions(r) = {}
      BY <2>1 DEF ApplyPolicy, TypeOK
    <3> QED BY <3>1, <3>2
  <2>5. \A f \in Exec : call'[f] = "insert" => f = e
    BY <2>3 DEF InFlight, InFlightState
  <2>6. row[e] \notin Live
    BY <2>2 DEF Live
  <2>7. SkipExclusive'
    BY <2>2, <2>6 DEF SkipInv, SkipExclusive, TypeOK
  <2>8. \A f, g \in Exec :
           /\ call'[f] = "insert" /\ Policy[runnerOf'[f]] = "skip"
           /\ runnerOf'[g] = runnerOf'[f]
           => row'[g] \notin Live
    BY <2>2, <2>4, <2>5, <2>6 DEF TypeOK
  <2> QED BY <2>3, <2>7, <2>8 DEF SkipInv
<1>2. ASSUME NEW e \in Exec, EnqueueSkip(e) \/ EnqueueCommit(e)
      PROVE  SkipInv'
  <2>1. /\ e \in InFlight /\ call[e] \in {"skip", "insert"} /\ runnerOf' = runnerOf
        /\ row[e] = "absent"
    BY <1>2 DEF InFlight, InFlightState, EnqueueSkip, EnqueueCommit, CallStage
  <2>2. \/ /\ row' = [row EXCEPT ![e] = "skipped"]
           /\ call' = [call EXCEPT ![e] = "returned"]
        \/ /\ row' = [row EXCEPT ![e] = "queued"] /\ call[e] = "insert"
           /\ call' = [call EXCEPT ![e] = "put"]
    <3>1. CASE EnqueueSkip(e)
      BY <3>1 DEF EnqueueSkip
    <3>2. CASE EnqueueCommit(e)
      BY <2>1, <3>2 DEF EnqueueCommit, CallStage, TypeOK
    <3> QED BY <1>2, <3>1, <3>2
  <2>3. InFlight' \subseteq {e}
    BY <2>1, <2>2 DEF SkipInv, InFlight, InFlightState, TypeOK
  <2>4. \A f \in Exec : call'[f] # "insert"
    BY <2>2, <2>3 DEF InFlight, InFlightState, TypeOK
  <2>5. SkipExclusive'
    BY <2>1, <2>2 DEF SkipInv, SkipExclusive, Live, TypeOK
  <2> QED BY <2>3, <2>4, <2>5 DEF SkipInv
<1>3. ASSUME NEW e \in Exec, EnqueuePut(e) \/ EnqueueFault(e) \/ CancelVictim(e)
      PROVE  SkipInv'
  <2>1. /\ row' = row /\ runnerOf' = runnerOf
        /\ \/ call' = call
           \/ \E to \in {"returned", "raised"} : call' = [call EXCEPT ![e] = to]
    BY <1>3 DEF EnqueuePut, EnqueueFault, CancelVictim
  <2>2. \A f \in Exec : call'[f] \in InFlightState => call'[f] = call[f]
    BY <2>1 DEF InFlightState, TypeOK
  <2>3. InFlight' \subseteq InFlight
    BY <2>2 DEF InFlight
  <2> QED BY <2>1, <2>2, <2>3 DEF SkipInv, SkipExclusive, InFlightState
<1>4. ASSUME UNCHANGED <<call, runnerOf>>,
             \A f \in Exec : row'[f] \in Live => row[f] \in Live
      PROVE  SkipInv'
  BY <1>4 DEF SkipInv, SkipExclusive, InFlight
<1>5. ASSUME NEW e \in Exec, WorkerStep(e) \/ Notified(e) \/ WorkerFault(e)
      PROVE  SkipInv'
  <2>1. \A f \in Exec : row'[f] \in Live => row[f] \in Live
    BY <1>5, CalmRows DEF Live, Ran, TypeOK
  <2> QED BY <1>4, <1>5, <2>1, CalmRows DEF callVars
<1>6. CASE ConsumerStep \/ DispatchFault \/ UNCHANGED vars
  BY <1>4, <1>6 DEF ConsumerStep, ConsumerGet, DispatchRead, DispatchSpawn, DispatchFault,
                    vars, callVars
<1>7. ~((\E e \in Exec : DeleteRow(e)) \/ StopConsumer \/ StopStep \/ Restart)
  BY DEF Calm, DeleteRow, StopConsumer, StopStep, StopWorkers, StopNotifications,
         StopReturns, Restart, CallStage, TypeOK
<1> QED BY <1>1, <1>2, <1>3, <1>5, <1>6, <1>7 DEF Next, Progress, CallStep

LEMMA SkipHolds == ASSUME Calm, Sequential PROVE Spec => []SkipInv
<1>1. Init => SkipInv
  BY DEF Init, SkipInv, SkipExclusive, InFlight, InFlightState, Live
<1>2. TypeOK /\ DispatchedOnce /\ CalmInv /\ SkipInv /\ [Next]_vars => SkipInv'
  BY SkipKept
<1> QED BY <1>1, <1>2, TypeCorrect, DispatchedOnceHolds, CalmHolds, PTL DEF Spec

(* on_overlap = skip: a runner never has two live executions, while calls  *)
(* do not overlap.                                                         *)
THEOREM SkipExclusiveHolds == ASSUME Calm, Sequential PROVE Spec => []SkipExclusive
<1>1. SkipInv => SkipExclusive
  BY DEF SkipInv
<1> QED BY <1>1, SkipHolds, PTL

-----------------------------------------------------------------------------
(* Refinement *)

shown == [e \in Exec |-> IF row[e] = "absent" THEN None ELSE runnerOf[e]]

(* The instance counts as this module does.                                *)
LEMMA SameCardinality == \A S : Lifecycle!Cardinality(S) = Cardinality(S)
BY DEF Lifecycle!Cardinality, Cardinality

LEMMA FreeSlot ==
    ASSUME TypeOK, PermitConservation, CalmInv, NEW e \in Exec, worker[e] = "mark"
    PROVE  Cardinality({x \in Exec : row[x] = "running"}) < MaxJobs
<1> DEFINE Started == {x \in Exec : row[x] = "running"}
<1>1. Started \subseteq Holders \ {e}
  BY DEF CalmInv, RowStage, Ran, FinalStatus, Outcome, Holders, Holding, Parked, TypeOK
<1>2. e \in Holders
  BY DEF Holders, Holding
<1>3. /\ IsFiniteSet(Holders \ {e})
      /\ Cardinality(Holders \ {e}) = Cardinality(Holders) - 1
      /\ Cardinality(Holders) \in Nat
  BY <1>2, HoldersFinite, FS_RemoveElement
<1>4. Cardinality(Started) <= Cardinality(Holders) - 1 /\ Cardinality(Started) \in Nat
  BY <1>1, <1>3, FS_Subset, FS_CardinalityType
<1> QED BY <1>3, <1>4 DEF PermitConservation, TypeOK

LEMMA StepRefines ==
    ASSUME TypeOK, DispatchedOnce, PermitConservation, CalmInv, SkipInv, Calm, [Next]_vars
    PROVE  [Lifecycle!Next]_(Lifecycle!vars)
<1> USE DEF CalmInv
<1>1. CASE row' = row
  <2>1. \A e \in Exec : row[e] # "absent" => runnerOf'[e] = runnerOf[e]
    <3>1. ASSUME NEW e \in Exec, EnqueueRead(e)
          PROVE  row[e] = "absent" /\ \A f \in Exec \ {e} : runnerOf'[f] = runnerOf[f]
      BY <3>1 DEF EnqueueRead, ApplyPolicy, CallStage, TypeOK
    <3>2. \/ \E e \in Exec : EnqueueRead(e)
          \/ runnerOf' = runnerOf
      BY CalmRows DEF Next, Progress, CallStep, EnqueueSkip, EnqueueCommit, EnqueuePut,
             EnqueueFault, CancelVictim, ConsumerStep, ConsumerGet, DispatchRead,
             DispatchSpawn, DispatchFault, DeleteRow, StopConsumer, StopStep, StopWorkers,
             StopNotifications, StopReturns, Restart, notWorker, callVars, vars
    <3> QED BY <3>1, <3>2
  <2>2. shown' = shown
    BY <1>1, <2>1 DEF shown
  <2> QED BY <1>1, <2>2 DEF Lifecycle!vars, shown
<1>2. ASSUME NEW e \in Exec, EnqueueSkip(e), row[e] = "absent"
      PROVE  Lifecycle!Next
  <2>1. PICK r \in Runner : r = runnerOf[e]
    BY <1>2 DEF EnqueueSkip, CallStage
  <2>2. /\ row' = [row EXCEPT ![e] = "skipped"] /\ runnerOf' = runnerOf
        /\ Policy[r] = "skip"
    BY <1>2, <2>1 DEF EnqueueSkip, CallStage
  <2>3. shown' = [shown EXCEPT ![e] = r]
    BY <2>1, <2>2 DEF shown, TypeOK
  <2>4. Lifecycle!Discard(e, r)
    BY <1>2, <2>2, <2>3 DEF Lifecycle!Discard, shown
  <2> QED BY <2>4 DEF Lifecycle!Next
<1>3. ASSUME NEW e \in Exec, EnqueueCommit(e), row[e] = "absent", call[e] = "insert",
             row' = [row EXCEPT ![e] = "queued"]
      PROVE  Lifecycle!Next
  <2>1. PICK r \in Runner : r = runnerOf[e]
    BY <1>3 DEF CallStage
  <2>2. runnerOf' = runnerOf
    BY <1>3 DEF EnqueueCommit
  <2>3. shown' = [shown EXCEPT ![e] = r]
    BY <1>3, <2>1, <2>2 DEF shown, TypeOK
  <2>4. Policy[r] = "skip" => Lifecycle!LiveOf(r) = {}
    BY <1>3, <2>1 DEF SkipInv, Lifecycle!LiveOf, Live
  <2>5. Lifecycle!Accept(e, r)
    BY <1>3, <2>3, <2>4 DEF Lifecycle!Accept, shown
  <2> QED BY <2>5 DEF Lifecycle!Next
<1>4. ASSUME NEW e \in Exec, worker[e] = "mark", row[e] = "queued", runnerOf' = runnerOf,
             row' = [row EXCEPT ![e] = "running"]
      PROVE  Lifecycle!Next
  <2>1. shown' = shown
    BY <1>4 DEF shown, TypeOK
  <2>2. Lifecycle!Cardinality(Lifecycle!Running) < MaxJobs
    <3>1. Lifecycle!Running = {x \in Exec : row[x] = "running"}
      BY DEF Lifecycle!Running
    <3> QED BY <1>4, <3>1, FreeSlot, SameCardinality
  <2>3. Lifecycle!Start(e)
    BY <1>4, <2>1, <2>2 DEF Lifecycle!Start, shown
  <2> QED BY <2>3 DEF Lifecycle!Next
<1>5. ASSUME NEW e \in Exec, row[e] = "running", runnerOf' = runnerOf,
             NEW s \in Ran, row' = [row EXCEPT ![e] = s]
      PROVE  Lifecycle!Next
  <2>1. shown' = shown
    BY <1>5 DEF shown, TypeOK, Ran
  <2>2. Lifecycle!Finish(e)
    BY <1>5, <2>1 DEF Lifecycle!Finish, shown, Ran
  <2> QED BY <2>2 DEF Lifecycle!Next
<1> QED BY <1>1, <1>2, <1>3, <1>4, <1>5, CalmWrites

(* The queue does what ExecutionLifecycle promises, step by step.          *)
THEOREM ImplementsLifecycleSteps ==
    ASSUME Calm, Sequential
    PROVE  Spec => Lifecycle!Init /\ [][Lifecycle!Next]_(Lifecycle!vars)
<1>1. Init => Lifecycle!Init
  BY DEF Init, Lifecycle!Init
<1>2. TypeOK /\ DispatchedOnce /\ PermitConservation /\ CalmInv /\ SkipInv /\ [Next]_vars
        => [Lifecycle!Next]_(Lifecycle!vars)
  BY StepRefines
<1> QED BY <1>1, <1>2, TypeCorrect, DispatchedOnceHolds, PermitsConserved, CalmHolds,
           SkipHolds, PTL DEF Spec
=============================================================================
