------------------------- MODULE ExecutionLifecycle -------------------------
(***************************************************************************)
(* What the queue promises of an execution while nothing kills it          *)
(* (specification 6.5 and the docstring of services/execution_queue.py):   *)
(* a trigger is discarded or accepted, an accepted execution starts once   *)
(* when a slot is free, runs in that slot, and ends once; a runner whose   *)
(* policy is `skip` has at most one live execution; every accepted         *)
(* execution starts and every started one ends.                            *)
(***************************************************************************)
EXTENDS Naturals, FiniteSets

CONSTANTS Exec, Runner, Policy, Slots

VARIABLES status, of

vars == <<status, of>>

Running == {e \in Exec : status[e] = "running"}
LiveOf(r) == {e \in Exec : of[e] = r /\ status[e] \in {"queued", "running"}}

Init ==
    /\ status = [e \in Exec |-> "absent"]
    /\ \A e \in Exec : of[e] \notin Runner

Discard(e, r) ==
    /\ status[e] = "absent"
    /\ Policy[r] = "skip"
    /\ status' = [status EXCEPT ![e] = "skipped"]
    /\ of' = [of EXCEPT ![e] = r]

Accept(e, r) ==
    /\ status[e] = "absent"
    /\ Policy[r] = "skip" => LiveOf(r) = {}
    /\ status' = [status EXCEPT ![e] = "queued"]
    /\ of' = [of EXCEPT ![e] = r]

Start(e) ==
    /\ status[e] = "queued"
    /\ Cardinality(Running) < Slots
    /\ status' = [status EXCEPT ![e] = "running"]
    /\ UNCHANGED of

Finish(e) ==
    /\ status[e] = "running"
    /\ \E s \in {"succeeded", "failed", "killed"} :
         status' = [status EXCEPT ![e] = s]
    /\ UNCHANGED of

Next ==
    \E e \in Exec : Start(e) \/ Finish(e)
                    \/ \E r \in Runner : Discard(e, r) \/ Accept(e, r)

Spec ==
    /\ Init
    /\ [][Next]_vars
    /\ \A e \in Exec : WF_vars(Start(e)) /\ WF_vars(Finish(e))
=============================================================================
