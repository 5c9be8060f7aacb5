-------------------------- MODULE SchedulerProofs ---------------------------
(***************************************************************************)
(* Proofs about Scheduler: types for any requests, and, while requests do  *)
(* not overlap, that no job is ever out of date.                           *)
(***************************************************************************)
EXTENDS Scheduler, TLAPS

(* Every reachable state of runners, jobs and operations has its types.    *)
THEOREM TypeCorrect == Spec => []TypeOK
<1>1. Init => TypeOK
  BY ConstantsAssumption DEF Init, TypeOK, FireState
<1>2. TypeOK /\ [Next]_vars => TypeOK'
  <2> SUFFICES ASSUME TypeOK, [Next]_vars PROVE TypeOK'
    OBVIOUS
  <2> USE ConstantsAssumption DEF TypeOK
  <2>1. ASSUME NEW q \in Request, Create(q) PROVE TypeOK'
    <3>1. PICK c \in Cron :
            Operate(q, "create", None, [cron |-> c, enabled |-> TRUE], None, "commit")
      BY <2>1 DEF Create
    <3>2. [cron |-> c, enabled |-> TRUE] \in Row
      BY DEF Row
    <3>3. op' \in [Request -> {o \in Operation : WellFormed(o)} \cup {None}]
      BY <3>1, <3>2 DEF Operate, Operation, WellFormed
    <3>4. QED
      BY <2>1, <3>3 DEF Create
  <2>2. ASSUME NEW q \in Request, Read(q) PROVE TypeOK'
    <3>1. PICK r \in Present :
            \/ \E c \in Cron :
                 Operate(q, "update", r, [row[r] EXCEPT !.cron = c], None, "save")
            \/ Operate(q, "enable", r, [row[r] EXCEPT !.enabled = TRUE], None, "save")
            \/ Operate(q, "disable", r, [row[r] EXCEPT !.enabled = FALSE], None, "save")
            \/ Operate(q, "delete", r, None, None, "commit")
      BY <2>2 DEF Read
    <3>2. r \in Runner /\ row[r] \in Row
      BY DEF Present
    <3>3. ASSUME NEW k \in {"update", "enable", "disable"}, NEW e \in Row,
                 Operate(q, k, r, e, None, "save")
          PROVE  op' \in [Request -> {o \in Operation : WellFormed(o)} \cup {None}]
      BY <3>2, <3>3 DEF Operate, Operation, WellFormed
    <3>4. ASSUME Operate(q, "delete", r, None, None, "commit")
          PROVE  op' \in [Request -> {o \in Operation : WellFormed(o)} \cup {None}]
      BY <3>2, <3>4 DEF Operate, Operation, WellFormed
    <3>5. op' \in [Request -> {o \in Operation : WellFormed(o)} \cup {None}]
      <4>1. ASSUME NEW c \in Cron PROVE [row[r] EXCEPT !.cron = c] \in Row
        BY <3>2 DEF Row
      <4>2. ASSUME NEW b \in BOOLEAN PROVE [row[r] EXCEPT !.enabled = b] \in Row
        BY <3>2 DEF Row
      <4>3. ASSUME NEW c \in Cron,
                   Operate(q, "update", r, [row[r] EXCEPT !.cron = c], None, "save")
            PROVE  op' \in [Request -> {o \in Operation : WellFormed(o)} \cup {None}]
        BY <3>3, <4>1, <4>3
      <4>4. CASE Operate(q, "enable", r, [row[r] EXCEPT !.enabled = TRUE], None, "save")
        BY <3>3, <4>2, <4>4
      <4>5. CASE Operate(q, "disable", r, [row[r] EXCEPT !.enabled = FALSE], None, "save")
        BY <3>3, <4>2, <4>5
      <4>6. QED
        BY <3>1, <3>4, <4>3, <4>4, <4>5
    <3>6. QED
      BY <2>2, <3>5 DEF Read
  <2>3. ASSUME NEW q \in Request, Save(q) PROVE TypeOK'
    BY <2>3 DEF Save, Return, Operate, Operation, WellFormed
  <2>4. ASSUME NEW q \in Request, CommitCreate(q) PROVE TypeOK'
    BY <2>4 DEF CommitCreate, ToNotify, Operate, Operation, WellFormed
  <2>5. ASSUME NEW q \in Request, CommitUpdate(q) PROVE TypeOK'
    <3>1. op[q] \in Operation /\ WellFormed(op[q])
      BY <2>5 DEF CommitUpdate
    <3>2. /\ op[q].id \in Runner /\ op[q].entity \in Row /\ op[q].base \in Row
      BY <2>5, <3>1 DEF CommitUpdate, WellFormed
    <3>3. row' \in [Runner -> Row \cup {None}]
      <4>1. ASSUME row[op[q].id] # None
            PROVE  Written(row[op[q].id], op[q].base, op[q].entity) \in Row
        BY <3>2, <4>1 DEF Written, Row
      <4>2. QED
        BY <2>5, <3>2, <4>1 DEF CommitUpdate
    <3>4. op' \in [Request -> {o \in Operation : WellFormed(o)} \cup {None}]
      BY <2>5, <3>1, <3>2 DEF CommitUpdate, ToNotify, Return, Operate, Operation,
                              WellFormed
    <3>5. QED
      BY <2>5, <3>3, <3>4 DEF CommitUpdate
  <2>6. ASSUME NEW q \in Request, CommitDelete(q) PROVE TypeOK'
    BY <2>6 DEF CommitDelete, ToNotify, Operate, Operation, WellFormed
  <2>7. ASSUME NEW q \in Request, Notify(q) PROVE TypeOK'
    BY <2>7 DEF Notify, Return, Registered, Operation, WellFormed, Row
  <2>8. ASSUME NEW r \in Runner, FireStep(r) PROVE TypeOK'
    BY <2>8 DEF FireStep, Fire, FireRead, FireAct, Dropped, FireState
  <2>9. CASE Cascade
    BY <2>9 DEF Cascade
  <2>10. CASE Boot
    BY <2>10 DEF Boot, Enabled, Present
  <2>11. CASE Restart
    BY <2>11 DEF Restart, FireState
  <2>12. CASE UNCHANGED vars
    BY <2>12 DEF vars
  <2>13. QED
    BY <2>1, <2>2, <2>3, <2>4, <2>5, <2>6, <2>7, <2>8, <2>9, <2>10, <2>11,
       <2>12 DEF Next, RequestStep
<1>3. QED
  BY <1>1, <1>2, PTL DEF Spec

-----------------------------------------------------------------------------
(* A job may be out of date only while an operation on its runner is       *)
(* between its commit and its hook. For that to go well at the hook, the   *)
(* row an operation is about to write, or has written, is still the one it *)
(* knows, unless it was deleted under it: nobody else writes.              *)

Announcing(q, r) == op[q] # None /\ op[q].step = "notify" /\ op[q].id = r

Undisturbed(q) ==
    op[q] # None =>
      /\ op[q].kind \in {"update", "enable", "disable"} /\ op[q].step = "commit"
           => row[op[q].id] \in {None, op[q].base}
      /\ op[q].kind # "delete" /\ op[q].step = "notify"
           => row[op[q].id] \in {None, op[q].entity}
      /\ op[q].kind = "delete" /\ op[q].step = "notify"
           => row[op[q].id] = None

Inductive ==
    /\ \A q \in Request : Undisturbed(q)
    /\ \A r \in Runner : (\A q \in Request : ~Announcing(q, r)) => Current(r)

(* The columns an update writes make the row what the operation holds, if  *)
(* the row is still the one save() read.                                   *)
LEMMA WrittenIsEntity ==
    ASSUME NEW base \in Row, NEW entity \in Row
    PROVE  Written(base, base, entity) = entity
BY DEF Written, Row

(* The hook leaves a job that agrees with the entity it is given.          *)
LEMMA RegisteredAgrees ==
    ASSUME NEW r, NEW entity \in Row, Registered(r, entity) # None
    PROVE  entity.enabled /\ Registered(r, entity) = entity.cron
BY DEF Registered

(* While requests do not overlap, a step keeps jobs current.               *)
LEMMA InductiveStep ==
    ASSUME \A p, q \in Request : p = q,
           TypeOK, Inductive, [Next]_vars
    PROVE  Inductive'
<1> USE ConstantsAssumption DEF TypeOK, Inductive
<1>1. ASSUME NEW q \in Request, Create(q) PROVE Inductive'
  BY <1>1 DEF Create, Operate, Undisturbed, Announcing, Current
<1>2. ASSUME NEW q \in Request, Read(q) PROVE Inductive'
  BY <1>2 DEF Read, Operate, Undisturbed, Announcing, Current, Present
<1>3. ASSUME NEW q \in Request, Save(q) PROVE Inductive'
  <2>1. \A r \in Runner : ~Announcing(q, r) /\ ~Announcing(q, r)'
    BY <1>3 DEF Save, Return, Operate, Announcing
  <2>2. \A r \in Runner : Current(r) /\ Current(r)'
    BY <1>3, <2>1 DEF Save, Current
  <2>3. Undisturbed(q)'
    <3>1. CASE row[op[q].id] = None
      BY <1>3, <3>1 DEF Save, Return, Undisturbed
    <3>2. CASE row[op[q].id] # None
      BY <1>3, <3>2 DEF Save, Operate, Undisturbed
    <3>3. QED
      BY <3>1, <3>2
  <2>4. QED
    BY <2>2, <2>3
<1>4. ASSUME NEW q \in Request, CommitCreate(q) PROVE Inductive'
  <2>1. PICK n \in Runner :
          /\ row' = [row EXCEPT ![n] = op[q].entity]
          /\ Operate(q, "create", n, op[q].entity, None, "notify")
    BY <1>4 DEF CommitCreate, ToNotify
  <2>2. \A r \in Runner : ~Announcing(q, r)
    BY <1>4 DEF CommitCreate, Announcing
  <2>3. \A r \in Runner : r # n => Current(r)'
    BY <1>4, <2>1, <2>2 DEF CommitCreate, Current
  <2>4. Announcing(q, n)' /\ Undisturbed(q)'
    <3>1. op'[q].step = "notify" /\ op'[q].id = n /\ op'[q].kind = "create"
          /\ op'[q].entity = op[q].entity
      BY <2>1 DEF Operate
    <3>2. op'[q] # None
      BY <2>1, <1>4 DEF CommitCreate, Operate, Operation, WellFormed
    <3>3. row'[n] = op[q].entity
      BY <2>1
    <3>4. QED
      BY <3>1, <3>2, <3>3 DEF Announcing, Undisturbed
  <2>5. QED
    BY <2>3, <2>4
<1>5. ASSUME NEW q \in Request, CommitUpdate(q) PROVE Inductive'
  BY <1>5, WrittenIsEntity DEF CommitUpdate, ToNotify, Return, Operate,
              Undisturbed, Announcing, Current, WellFormed, Operation
<1>6. ASSUME NEW q \in Request, CommitDelete(q) PROVE Inductive'
  BY <1>6 DEF CommitDelete, ToNotify, Operate, Undisturbed, Announcing, Current,
              WellFormed, Operation
<1>7. ASSUME NEW q \in Request, Notify(q) PROVE Inductive'
  BY <1>7, RegisteredAgrees DEF Notify, Return, Undisturbed, Announcing, Current,
              WellFormed, Operation
<1>8. ASSUME NEW r \in Runner, FireStep(r) PROVE Inductive'
  BY <1>8 DEF FireStep, Fire, FireRead, FireAct, Dropped, Undisturbed,
              Announcing, Current
<1>9. CASE Cascade
  BY <1>9 DEF Cascade, Undisturbed, Announcing, Current, WellFormed, Operation
<1>10. CASE Boot
  BY <1>10 DEF Boot, Undisturbed, Announcing, Current, Enabled, Present
<1>11. CASE Restart
  BY <1>11 DEF Restart, Undisturbed, Announcing, Current
<1>12. CASE UNCHANGED vars
  BY <1>12 DEF vars, Undisturbed, Announcing, Current
<1>13. QED
  BY <1>1, <1>2, <1>3, <1>4, <1>5, <1>6, <1>7, <1>8, <1>9, <1>10, <1>11,
     <1>12 DEF Next, RequestStep

(* While requests do not overlap, no job of an existing runner is ever out *)
(* of date: disabled runners have none, the others have their own          *)
(* expression's. Cascades, refused expressions, fires and restarts do not  *)
(* disturb it (the hooks of RunnerService, register, _fire, rehydrate).    *)
THEOREM JobsStayCurrent ==
    ASSUME \A p, q \in Request : p = q
    PROVE  Spec => []JobsAreCurrent
<1>1. Init => Inductive
  BY DEF Init, Inductive, Undisturbed, Announcing, Current
<1>2. TypeOK /\ Inductive /\ [Next]_vars => Inductive'
  BY InductiveStep
<1>3. Inductive => JobsAreCurrent
  BY DEF Inductive, Announcing, JobsAreCurrent, Quiet
<1>4. QED
  BY <1>1, <1>2, <1>3, TypeCorrect, PTL DEF Spec
=============================================================================
