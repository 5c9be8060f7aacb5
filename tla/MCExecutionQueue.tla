-------------------------- MODULE MCExecutionQueue --------------------------
(***************************************************************************)
(* Small instances of ExecutionQueue for TLC.                              *)
(***************************************************************************)
EXTENDS ExecutionQueue, TLC

CONSTANTS skipper, queuer, killer  \* runners, named for their on_overlap

PolicyOf == (skipper :> "skip") @@ (queuer :> "queue") @@ (killer :> "kill_previous")

PoliteRunners == {skipper, queuer}
PolitePolicy == [r \in PoliteRunners |-> PolicyOf[r]]
KillRunners == {killer}
KillPolicy == [r \in KillRunners |-> PolicyOf[r]]
SkipRunners == {skipper}
SkipPolicy == [r \in SkipRunners |-> PolicyOf[r]]

(* What ExecutionQueue shows of an execution: its committed row. *)
Lifecycle == INSTANCE ExecutionLifecycle WITH
    Slots <- MaxJobs,
    status <- row,
    of <- [e \in Exec |-> IF row[e] = "absent" THEN None ELSE runnerOf[e]]

(* The queue implements the life cycle it promises. *)
ImplementsLifecycle == Lifecycle!Spec
=============================================================================
