--------------------------- MODULE DockerExecutor ---------------------------
(***************************************************************************)
(* Executions of one runner in Docker                                      *)
(* (adapters/output/executor/docker_executor.py): execute() makes a        *)
(* workspace, sees to the image and to the dependency cache of the runner, *)
(* creates and starts the script's container, streams its output under the *)
(* timeout, takes the exit code and cleans up.                             *)
(*                                                                         *)
(* A call of the daemon runs in a thread while the coroutine awaits it.    *)
(* Cancelling the await does not stop the thread: the call is abandoned    *)
(* and takes effect later, or never if no thread had picked it up. Local   *)
(* file operations are one step with the await they belong to.             *)
(***************************************************************************)
EXTENDS Naturals, FiniteSets

CONSTANTS
    MaxRuns,     \* bound: executions of the runner
    Manifest,    \* contents `dependencies` may have
    None,        \* no dependencies, no marker, no answer, nobody
    MaxFaults,   \* bound: failures of the daemon, the disk or the sink
    MaxCancels,  \* bound: cancellations delivered
    OneAtATime   \* whether executions of the runner never overlap

Run == 1..MaxRuns

ASSUME ConstantsAssumption ==
    /\ MaxRuns \in Nat /\ MaxFaults \in Nat /\ MaxCancels \in Nat
    /\ None \notin Manifest /\ None \notin Run
    /\ None \notin {"ok", "zero", "nonzero", "gone", "error"}
    /\ OneAtATime \in BOOLEAN

VARIABLES
    pc,        \* the await each execution is in
    manifest,  \* dependencies of the runner as each execution was given it
    outcome,   \* what execute() is about to return or to raise
    left,      \* history: awaits that ended in an exception
    silent,    \* history: awaits whose failure the code did not see
    dir,       \* whether the workspace of each execution exists
    box,       \* container of the script
    code,      \* history: exit code of the script, which outlives `box`
    inst,      \* container that installs the dependencies
    daemon,    \* calls of the daemon not carried out yet
    answer,    \* what the awaited call has answered
    marker,    \* manifest named by pkgs.hash
    cache,     \* pkgs: who wiped it last, and whether that install finished
    faults, cancels

control == <<pc, manifest, outcome, left, dir>>
world == <<box, code, inst, cache>>
budget == <<faults, cancels>>
vars == <<control, silent, world, budget, daemon, answer, marker>>

-----------------------------------------------------------------------------
(* Types and initial state *)

InstallCalls == {"icreate", "istart", "iwait", "ikill", "iremove"}
ScriptCalls == {"create", "start", "kill", "wait", "cleanup"}
Calls == InstallCalls \cup ScriptCalls
KillCalls == {"ikill", "kill", "cleanup"}  \* those made by _kill()
Local == {"mkdir", "prepare", "marker", "ilogs", "mark", "stream", "rmtree"}
Steps == Calls \cup Local
Results == {"succeeded", "failed", "timed_out"}
Boxes == {"none", "created", "running", "exited", "gone"}
Codes == {"none", "zero", "nonzero"}

TypeOK ==
    /\ pc \in [Run -> Steps \cup {"idle", "done"}]
    /\ manifest \in [Run -> Manifest \cup {None}]
    /\ outcome \in [Run -> Results \cup {"none", "error", "cancelled"}]
    /\ \A x \in Run :
         pc[x] \in {"cleanup", "rmtree", "done"} => outcome[x] # "none"
    /\ left \in [Run -> SUBSET Steps]
    /\ silent \in [Run -> SUBSET Steps]
    /\ dir \in [Run -> BOOLEAN]
    /\ box \in [Run -> Boxes]
    /\ code \in [Run -> Codes]
    /\ \A x \in Run : box[x] = "exited" => code[x] # "none"
    /\ inst \in [Run -> (Boxes \ {"exited"}) \cup {"zero", "nonzero"}]
    /\ daemon \in SUBSET (Run \X Calls)
    /\ answer \in [Run -> {None, "ok", "zero", "nonzero", "gone", "error"}]
    /\ marker \in Manifest \cup {None}
    /\ cache \in [by : Run \cup {None}, whole : BOOLEAN]
    /\ faults \in Nat /\ cancels \in Nat

Init ==
    /\ pc = [x \in Run |-> "idle"]
    /\ manifest = [x \in Run |-> None]
    /\ outcome = [x \in Run |-> "none"]
    /\ left = [x \in Run |-> {}]
    /\ silent = [x \in Run |-> {}]
    /\ dir = [x \in Run |-> FALSE]
    /\ box = [x \in Run |-> "none"]
    /\ code = [x \in Run |-> "none"]
    /\ inst = [x \in Run |-> "none"]
    /\ daemon = {}
    /\ answer = [x \in Run |-> None]
    /\ marker = None
    /\ cache = [by |-> None, whole |-> FALSE]
    /\ faults = 0 /\ cancels = 0

InFlight == {x \in Run : pc[x] \in Steps}

-----------------------------------------------------------------------------
(* Moving from one await to the next *)

(* Going to a step that is a call of the daemon issues the call. *)
Goto(x, step) ==
    /\ pc' = [pc EXCEPT ![x] = step]
    /\ answer' = [answer EXCEPT ![x] = None]
    /\ daemon' = IF step \in Calls THEN daemon \cup {<<x, step>>} ELSE daemon

(* Mutant: `except Exception` where the code has BaseException: nothing is *)
(* killed (a cancellation is not an Exception).                            *)
Unwind_noKill(step) ==
    CASE step \in {"mkdir", "rmtree"} -> "done"
      [] step \in {"istart", "iwait", "ikill", "ilogs"} -> "iremove"
      [] OTHER -> "rmtree"

(* Mutant: the `finally` of the install is lost. *)
Unwind_noRemove(step) ==
    CASE step \in {"mkdir", "rmtree"} -> "done"
      [] step \in {"start", "stream", "kill", "wait"} -> "cleanup"
      [] OTHER -> "rmtree"

(* Mutant: the `finally` of execute() is lost. *)
Unwind_noRmtree(step) ==
    CASE step \in {"istart", "iwait", "ikill", "ilogs"} -> "iremove"
      [] step \in {"start", "stream", "kill", "wait"} -> "cleanup"
      [] OTHER -> "done"

(* Where an exception raised at an await leads: the workspace is made      *)
(* before the `try`; install and script have handlers of their own.        *)
Unwind(step) ==
    CASE step \in {"mkdir", "rmtree"} -> "done"
      [] step \in {"istart", "iwait", "ikill", "ilogs"} -> "iremove"
      [] step \in {"start", "stream", "kill", "wait"} -> "cleanup"
      [] OTHER -> "rmtree"

(* An exception takes the place of the one, or of the result, in flight. *)
Raise(x, exception) ==
    /\ outcome' = [outcome EXCEPT ![x] = exception]
    /\ left' = [left EXCEPT ![x] = @ \cup {pc[x]}]
    /\ Goto(x, Unwind(pc[x]))

(* CancelledError at the await. What an answer carried is lost with it; a  *)
(* thread making or removing the workspace, or writing the marker, may     *)
(* have got there or not.                                                  *)
Cancel(x) ==
    /\ pc[x] \in Steps /\ cancels < MaxCancels
    /\ cancels' = cancels + 1
    /\ Raise(x, "cancelled")
    /\ \E made \in BOOLEAN :
         /\ pc[x] \notin {"mkdir", "rmtree"} => made = dir[x]
         /\ dir' = [dir EXCEPT ![x] = made]
    /\ \/ UNCHANGED marker
       \/ pc[x] = "mark" /\ marker' = manifest[x]
    /\ UNCHANGED <<manifest, silent, world, faults>>

(* The disk, the sink or the image fails, or the runner has dependencies   *)
(* to install and no network ("marker").                                   *)
Fail(x) ==
    /\ pc[x] \in Local \ {"rmtree"} /\ faults < MaxFaults
    /\ faults' = faults + 1
    /\ Raise(x, "error")
    /\ UNCHANGED <<manifest, silent, dir, world, cancels, marker>>

-----------------------------------------------------------------------------
(* The daemon *)

(* What a call does to the script's container (auto_remove) ... *)
BoxAfter(x, op) ==
    CASE op = "create" -> "created"
      [] op = "start" /\ box[x] = "created" -> "running"
      [] op \in {"kill", "cleanup"} /\ box[x] = "running" -> "exited"
      [] OTHER -> box[x]

(* ... and to the installer's, which is removed explicitly. *)
InstAfter(x, op) ==
    CASE op = "icreate" -> "created"
      [] op = "istart" /\ inst[x] = "created" -> "running"
      [] op = "ikill" /\ inst[x] = "running" -> "nonzero"
      [] op = "iremove" -> "gone"
      [] OTHER -> inst[x]

Starts(x, op) == op = "istart" /\ inst[x] = "created"
Kills(x, op) == op \in {"kill", "cleanup"} /\ box[x] = "running"

(* A kill that finds nothing to kill answers as one that works: _kill()    *)
(* swallows the NotFound, and the APIError "is not running".               *)
AnswerTo(x, op) ==
    CASE op = "start" /\ box[x] # "created" -> "error"
      [] op = "istart" /\ inst[x] # "created" -> "error"
      [] op = "iwait" -> IF inst[x] \in {"zero", "nonzero"} THEN inst[x]
                       ELSE "error"
      [] op = "wait" -> IF box[x] = "exited" THEN code[x] ELSE "gone"
      [] OTHER -> "ok"

Effect(x, op) ==
    /\ box' = [box EXCEPT ![x] = BoxAfter(x, op)]
    /\ code' = [code EXCEPT ![x] = IF Kills(x, op) THEN "nonzero" ELSE @]
    /\ inst' = [inst EXCEPT ![x] = InstAfter(x, op)]
    /\ cache' = IF Starts(x, op) THEN [by |-> x, whole |-> FALSE] ELSE cache

Answered(x, op, a) ==
    answer' = IF op = pc[x] THEN [answer EXCEPT ![x] = a] ELSE answer

Blocked(x, op) == \/ op = "wait" /\ box[x] = "running"
                  \/ op = "iwait" /\ inst[x] = "running"

Perform(x, op) ==
    /\ <<x, op>> \in daemon /\ ~Blocked(x, op)
    /\ daemon' = daemon \ {<<x, op>>}
    /\ Effect(x, op) /\ Answered(x, op, AnswerTo(x, op))
    /\ UNCHANGED <<control, silent, budget, marker>>

(* The connection breaks, before the call took effect or after, or the     *)
(* daemon answers a call that is not a kill with an error.                 *)
Break(x, op) ==
    /\ <<x, op>> \in daemon /\ faults < MaxFaults
    /\ faults' = faults + 1
    /\ daemon' = daemon \ {<<x, op>>}
    /\ UNCHANGED world \/ (~Blocked(x, op) /\ Effect(x, op))
    /\ Answered(x, op, "error")
    /\ UNCHANGED <<control, silent, cancels, marker>>

(* The daemon refuses a kill. _kill() swallows any APIError, so the code   *)
(* goes on as if the container were dead; only an error of the connection  *)
(* (Break), or of another call, is seen.                                   *)
Refuse(x, op) ==
    /\ <<x, op>> \in daemon /\ op \in KillCalls /\ faults < MaxFaults
    /\ faults' = faults + 1
    /\ daemon' = daemon \ {<<x, op>>}
    /\ silent' = IF op = pc[x] THEN [silent EXCEPT ![x] = @ \cup {op}] ELSE silent
    /\ Answered(x, op, "ok")
    /\ UNCHANGED <<control, world, cancels, marker>>

(* A call abandoned before a thread of the pool picked it up. *)
Drop(x, op) ==
    /\ <<x, op>> \in daemon /\ op # pc[x]
    /\ daemon' = daemon \ {<<x, op>>}
    /\ UNCHANGED <<control, silent, world, budget, answer, marker>>

(* The script ends; later the daemon removes its container. *)
ScriptExit(x) ==
    /\ box[x] = "running"
    /\ box' = [box EXCEPT ![x] = "exited"]
    /\ \E c \in {"zero", "nonzero"} : code' = [code EXCEPT ![x] = c]
    /\ UNCHANGED <<control, silent, budget, daemon, answer, marker, inst, cache>>

AutoRemove(x) ==
    /\ box[x] = "exited"
    /\ box' = [box EXCEPT ![x] = "gone"]
    /\ UNCHANGED <<control, silent, budget, daemon, answer, marker>>
    /\ UNCHANGED <<code, inst, cache>>

(* The installer wiped the cache as it started; here it ends. *)
InstallExit(x) ==
    /\ inst[x] = "running"
    /\ \E c \in {"zero", "nonzero"} :
         /\ inst' = [inst EXCEPT ![x] = c]
         /\ cache' = IF c = "zero" /\ cache.by = x
                     THEN [by |-> x, whole |-> TRUE] ELSE cache
    /\ UNCHANGED <<control, silent, budget, daemon, answer, marker, box, code>>

-----------------------------------------------------------------------------
(* execute() and _ensure_dependencies() *)

Begin(x) ==
    /\ pc[x] = "idle"
    /\ \A y \in Run : y < x => pc[y] # "idle"
    /\ OneAtATime => InFlight = {}
    /\ \E m \in Manifest \cup {None} : manifest' = [manifest EXCEPT ![x] = m]
    /\ Goto(x, "mkdir")
    /\ UNCHANGED <<outcome, left, silent, dir, world, budget, marker>>

Mkdir(x) ==
    /\ pc[x] = "mkdir"
    /\ dir' = [dir EXCEPT ![x] = TRUE]
    /\ Goto(x, "prepare")
    /\ UNCHANGED <<manifest, outcome, left, silent, world, budget, marker>>

(* _write_script, _ensure_image (a pull has no timeout). *)
Prepare(x) ==
    /\ pc[x] = "prepare"
    /\ Goto(x, IF manifest[x] = None THEN "create" ELSE "marker")
    /\ UNCHANGED <<manifest, outcome, left, silent, dir, world, budget, marker>>

ReadMarker(x) ==
    /\ pc[x] = "marker"
    /\ Goto(x, IF marker = manifest[x] THEN "create" ELSE "icreate")
    /\ UNCHANGED <<manifest, outcome, left, silent, dir, world, budget, marker>>

(* wait_for() gives up on the installer. *)
InstallTimeout(x) ==
    /\ pc[x] = "iwait" /\ answer[x] = None
    /\ Goto(x, "ikill")
    /\ UNCHANGED <<manifest, outcome, left, silent, dir, world, budget, marker>>

(* The error the execution goes on with after a kill or a failed install. *)
InstallFailed(x) ==
    /\ \/ pc[x] = "ikill" /\ answer[x] = "ok"
       \/ pc[x] = "ilogs"
    /\ Raise(x, "error")
    /\ UNCHANGED <<manifest, silent, dir, world, budget, marker>>

Mark(x) ==
    /\ pc[x] = "mark"
    /\ marker' = manifest[x]
    /\ Goto(x, "create")
    /\ UNCHANGED <<manifest, outcome, left, silent, dir, world, budget>>

(* Mutant: the exit code of the install is not looked at. *)
After_anyCode(x) ==
    CASE pc[x] = "icreate" -> "istart"
      [] pc[x] = "istart" -> "iwait"
      [] pc[x] = "iwait" -> "iremove"
      [] pc[x] = "iremove" -> IF outcome[x] = "none" THEN "mark" ELSE "rmtree"
      [] pc[x] = "create" -> "start"
      [] pc[x] = "start" -> "stream"
      [] OTHER -> "rmtree"

(* The step that follows a call the daemon has answered. *)
After(x) ==
    CASE pc[x] = "icreate" -> "istart"
      [] pc[x] = "istart" -> "iwait"
      [] pc[x] = "iwait" -> IF answer[x] = "zero" THEN "iremove" ELSE "ilogs"
      [] pc[x] = "iremove" -> IF outcome[x] = "none" THEN "mark" ELSE "rmtree"
      [] pc[x] = "create" -> "start"
      [] pc[x] = "start" -> "stream"
      [] OTHER -> "rmtree"  \* kill, wait and cleanup

(* Mutant: a container already removed counts as a success. *)
ResultOf_goneIsZero(x) ==
    CASE pc[x] = "kill" -> "timed_out"
      [] pc[x] = "wait" -> IF answer[x] = "nonzero" THEN "failed" ELSE "succeeded"
      [] OTHER -> outcome[x]

(* Mutant: the result of a timeout is not set. *)
ResultOf_noTimeout(x) ==
    CASE pc[x] = "wait" -> IF answer[x] = "zero" THEN "succeeded" ELSE "failed"
      [] OTHER -> outcome[x]

(* A container gone before wait() saw it has exit code -1. *)
ResultOf(x) ==
    CASE pc[x] = "kill" -> "timed_out"
      [] pc[x] = "wait" -> IF answer[x] = "zero" THEN "succeeded" ELSE "failed"
      [] OTHER -> outcome[x]

Resume(x) ==
    /\ pc[x] \in Calls \ {"ikill"} /\ answer[x] \notin {None, "error"}
    /\ outcome' = [outcome EXCEPT ![x] = ResultOf(x)]
    /\ Goto(x, After(x))
    /\ UNCHANGED <<manifest, left, silent, dir, world, budget, marker>>

ResumeError(x) ==
    /\ pc[x] \in Calls /\ answer[x] = "error"
    /\ Raise(x, "error")
    /\ UNCHANGED <<manifest, silent, dir, world, budget, marker>>

(* _stream_output(): the end of the stream is that of the script ... *)
StreamEnd(x) ==
    /\ pc[x] = "stream" /\ box[x] # "running"
    /\ Goto(x, "wait")
    /\ UNCHANGED <<manifest, outcome, left, silent, dir, world, budget, marker>>

(* ... or of the stream alone; the pump thread logs it and ends the queue. *)
StreamBroken(x) ==
    /\ pc[x] = "stream" /\ box[x] = "running" /\ faults < MaxFaults
    /\ faults' = faults + 1
    /\ silent' = [silent EXCEPT ![x] = @ \cup {"stream"}]
    /\ Goto(x, "wait")
    /\ UNCHANGED <<manifest, outcome, left, dir, world, cancels, marker>>

(* Mutant: the deadline is never looked at. *)
StreamTimeout_never(x) == FALSE /\ UNCHANGED vars

StreamTimeout(x) ==
    /\ pc[x] = "stream"
    /\ Goto(x, "kill")
    /\ UNCHANGED <<manifest, outcome, left, silent, dir, world, budget, marker>>

(* rmtree() ignores what it cannot remove: directories that the script     *)
(* made belong to the container's user, and a disk may fail.               *)
Rmtree(x) ==
    /\ pc[x] = "rmtree"
    /\ \/ /\ dir' = [dir EXCEPT ![x] = FALSE]
          /\ UNCHANGED <<silent, faults>>
       \/ /\ silent' = [silent EXCEPT ![x] = @ \cup {"rmtree"}]
          /\ \/ box[x] \notin {"none", "created"} /\ UNCHANGED faults
             \/ faults < MaxFaults /\ faults' = faults + 1
          /\ UNCHANGED dir
    /\ Goto(x, "done")
    /\ UNCHANGED <<manifest, outcome, left, world, cancels, marker>>

-----------------------------------------------------------------------------
(* Specification *)

(* The steps the executor takes of itself, once the image is there. *)
Proceed(x) ==
    \/ Mkdir(x) \/ ReadMarker(x) \/ InstallTimeout(x) \/ InstallFailed(x)
    \/ Mark(x) \/ Resume(x) \/ ResumeError(x)
    \/ StreamEnd(x) \/ StreamTimeout(x) \/ Rmtree(x)

Environment(x) ==
    \/ Cancel(x) \/ Fail(x) \/ StreamBroken(x)
    \/ ScriptExit(x) \/ AutoRemove(x) \/ InstallExit(x)

Next == \E x \in Run :
    \/ Begin(x) \/ Prepare(x) \/ Proceed(x) \/ Environment(x)
    \/ \E op \in Calls :
         Perform(x, op) \/ Break(x, op) \/ Refuse(x, op) \/ Drop(x, op)

Spec == Init /\ [][Next]_vars

(* The event loop goes on and the daemon answers what it is asked; nothing *)
(* says that a script, an install or the pull of an image ever ends.       *)
FairSpec ==
    /\ Spec
    /\ \A x \in Run : WF_vars(Proceed(x))
    /\ \A x \in Run, op \in Calls : WF_vars(Perform(x, op))

-----------------------------------------------------------------------------
(* Properties *)

Ended(x) == pc[x] = "done"

(* A script's container is left running by an execution that has ended     *)
(* only if it was cut short while the daemon was starting the container    *)
(* (the kill may come before the start and then finds nothing to kill) or  *)
(* killing it, or if the daemon refused the kill, which _kill() swallows   *)
(* (docstring 12-14, the handler of execute()).                            *)
NothingLeftRunning ==
    \A x \in Run :
        Ended(x) /\ box[x] = "running" =>
            \/ {"start", "cleanup"} \cap left[x] # {}
            \/ {"kill", "cleanup"} \cap silent[x] # {}

(* The installer's container is gone when the execution has ended, unless  *)
(* the call that creates or the call that removes it was cut short         *)
(* (_ensure_dependencies, its `finally`).                                  *)
InstallerRemoved ==
    \A x \in Run :
        Ended(x) /\ inst[x] \notin {"none", "gone"} =>
            {"icreate", "iremove"} \cap left[x] # {}

(* The marker tells the truth as far as it can: a cache that was wiped for *)
(* the manifest the marker names is whole, so a run that reuses it finds   *)
(* its dependencies unless another manifest has been tried since           *)
(* (_ensure_dependencies, where executions of the runner do not overlap).  *)
MarkerHonest ==
    OneAtATime /\ marker # None /\ cache.by # None =>
        \/ marker # manifest[cache.by]
        \/ cache.whole
        \/ "iremove" \in left[cache.by]

(* An execution reported succeeded had its script exit with 0, though the  *)
(* daemon may remove the container before it is asked (_wait_exit_code).   *)
SuccessIsReal ==
    \A x \in Run : outcome[x] = "succeeded" => code[x] = "zero"

(* The workspace is removed, unless a cancellation met its making or its   *)
(* removal, or the removal itself failed, which ignore_errors=True hides   *)
(* (execute(), mkdir before the `try`).                                    *)
WorkspaceRemoved ==
    \A x \in Run :
        Ended(x) /\ dir[x] =>
            {"mkdir", "rmtree"} \cap left[x] # {} \/ "rmtree" \in silent[x]

(* The timeout is enforced: an execution past its image ends whatever its  *)
(* script and its install do, unless the log stream broke, after which     *)
(* nothing bounds the wait (_stream_output, _wait_exit_code).              *)
RunEnds ==
    \A x \in Run : pc[x] \in Steps \ {"mkdir", "prepare"} ~>
        Ended(x) \/ "stream" \in silent[x]
=============================================================================
