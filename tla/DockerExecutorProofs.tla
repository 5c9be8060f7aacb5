------------------------ MODULE DockerExecutorProofs ------------------------
(***************************************************************************)
(* Theorems about DockerExecutor for every number of executions, of        *)
(* manifests, of faults and of cancellations.                              *)
(***************************************************************************)
EXTENDS DockerExecutor, TLAPS

USE ConstantsAssumption

Pc == Steps \cup {"idle", "done"}

(* Where an exception raised at each await leads.                          *)
LEMMA UnwindLeads ==
    ASSUME NEW step \in Steps
    PROVE  /\ Unwind(step) \in {"iremove", "cleanup", "rmtree", "done"}
           /\ Unwind(step) = "iremove" <=> step \in {"istart", "iwait", "ikill", "ilogs"}
           /\ Unwind(step) = "cleanup" <=> step \in {"start", "stream", "kill", "wait"}
           /\ Unwind(step) = "done" <=> step \in {"mkdir", "rmtree"}
BY DEF Unwind, Steps, Calls, Local, InstallCalls, ScriptCalls

(* Going to a step keeps the types of what it writes.                      *)
LEMMA GotoTypes ==
    ASSUME TypeOK, NEW x \in Run, NEW step \in Steps \cup {"done"}, Goto(x, step)
    PROVE  /\ pc' \in [Run -> Pc] /\ pc'[x] = step
           /\ \A y \in Run \ {x} : pc'[y] = pc[y]
           /\ answer' \in [Run -> {None, "ok", "zero", "nonzero", "gone", "error"}]
           /\ daemon' \in SUBSET (Run \X Calls)
BY DEF Goto, TypeOK, Pc

LEMMA RaiseTypes ==
    ASSUME TypeOK, NEW x \in Run, pc[x] \in Steps,
           NEW exception \in {"error", "cancelled"}, Raise(x, exception)
    PROVE  /\ pc' \in [Run -> Pc]
           /\ \A y \in Run \ {x} : pc'[y] = pc[y]
           /\ answer' \in [Run -> {None, "ok", "zero", "nonzero", "gone", "error"}]
           /\ daemon' \in SUBSET (Run \X Calls)
           /\ outcome' \in [Run -> Results \cup {"none", "error", "cancelled"}]
           /\ outcome'[x] = exception
           /\ \A y \in Run \ {x} : outcome'[y] = outcome[y]
           /\ left' \in [Run -> SUBSET Steps]
<1>1. Unwind(pc[x]) \in Steps \cup {"done"} /\ Goto(x, Unwind(pc[x]))
  BY UnwindLeads DEF Raise, Steps, Calls, Local, InstallCalls, ScriptCalls
<1>2. /\ outcome' = [outcome EXCEPT ![x] = exception]
      /\ left' = [left EXCEPT ![x] = @ \cup {pc[x]}]
  BY DEF Raise
<1>3. pc' \in [Run -> Pc] /\ \A y \in Run \ {x} : pc'[y] = pc[y]
  BY <1>1, GotoTypes
<1>4. /\ answer' \in [Run -> {None, "ok", "zero", "nonzero", "gone", "error"}]
      /\ daemon' \in SUBSET (Run \X Calls)
  BY <1>1, GotoTypes
<1>5. /\ outcome' \in [Run -> Results \cup {"none", "error", "cancelled"}]
      /\ left' \in [Run -> SUBSET Steps]
  BY <1>2 DEF TypeOK
<1> QED BY <1>2, <1>3, <1>4, <1>5 DEF TypeOK

(* Every exception and cancellation keeps the types.                       *)
LEMMA RaisingTypes ==
    ASSUME TypeOK, NEW x \in Run,
           Cancel(x) \/ Fail(x) \/ InstallFailed(x) \/ ResumeError(x)
    PROVE  TypeOK'
<1>1. pc[x] \in Steps /\ \E exception \in {"error", "cancelled"} : Raise(x, exception)
  BY DEF Cancel, Fail, InstallFailed, ResumeError, Steps, Calls, Local,
         InstallCalls, ScriptCalls
<1>2. PICK exception \in {"error", "cancelled"} : Raise(x, exception)
  BY <1>1
<1>3. dir' \in [Run -> BOOLEAN]
  BY DEF Cancel, Fail, InstallFailed, ResumeError, TypeOK
<1>4. faults' \in Nat /\ cancels' \in Nat
  BY DEF Cancel, Fail, InstallFailed, ResumeError, TypeOK, budget
<1>5. UNCHANGED <<manifest, silent, world>> /\ marker' \in {marker, manifest[x]}
  BY DEF Cancel, Fail, InstallFailed, ResumeError
<1>6. \A y \in Run : pc'[y] \in {"cleanup", "rmtree", "done"} => outcome'[y] # "none"
  BY <1>1, <1>2, RaiseTypes DEF TypeOK
<1> QED BY <1>1, <1>2, <1>3, <1>4, <1>5, <1>6, RaiseTypes DEF TypeOK, world, Pc

(* Every step of the daemon and of the containers keeps the types.         *)
LEMMA DaemonTypes ==
    ASSUME TypeOK, NEW x \in Run, NEW op \in Calls,
           Perform(x, op) \/ Break(x, op) \/ Refuse(x, op) \/ Drop(x, op)
    PROVE  TypeOK'
<1>1. /\ BoxAfter(x, op) \in Boxes
      /\ InstAfter(x, op) \in (Boxes \ {"exited"}) \cup {"zero", "nonzero"}
      /\ BoxAfter(x, op) = "exited" => Kills(x, op) \/ box[x] = "exited"
  BY DEF BoxAfter, InstAfter, Kills, Boxes, TypeOK
<1>2. AnswerTo(x, op) \in {"ok", "zero", "nonzero", "gone", "error"}
  BY DEF AnswerTo, TypeOK, Codes
<1>3. silent' \in [Run -> SUBSET Steps]
  BY DEF Perform, Break, Refuse, Drop, TypeOK, Steps
<1>4. CASE Effect(x, op)
  <2>1. /\ box' \in [Run -> Boxes] /\ code' \in [Run -> Codes]
        /\ inst' \in [Run -> (Boxes \ {"exited"}) \cup {"zero", "nonzero"}]
        /\ cache' \in [by : Run \cup {None}, whole : BOOLEAN]
    BY <1>1, <1>4 DEF Effect, TypeOK, Codes
  <2>2. \A y \in Run : box'[y] = "exited" => code'[y] # "none"
    BY <1>1, <1>4 DEF Effect, TypeOK
  <2>3. answer' \in [Run -> {None, "ok", "zero", "nonzero", "gone", "error"}]
    BY <1>2 DEF Perform, Break, Refuse, Drop, Answered, TypeOK
  <2> QED BY <1>3, <2>1, <2>2, <2>3
      DEF Perform, Break, Refuse, Drop, TypeOK, control, budget
<1>5. CASE UNCHANGED world
  <2>1. answer' \in [Run -> {None, "ok", "zero", "nonzero", "gone", "error"}]
    BY <1>2 DEF Perform, Break, Refuse, Drop, Answered, TypeOK
  <2> QED BY <1>5, <1>3, <2>1 DEF Perform, Break, Refuse, Drop, TypeOK, control, world, budget
<1> QED BY <1>4, <1>5 DEF Perform, Break, Refuse, Drop

LEMMA ContainerTypes ==
    ASSUME TypeOK, NEW x \in Run, ScriptExit(x) \/ AutoRemove(x) \/ InstallExit(x)
    PROVE  TypeOK'
<1>1. CASE ScriptExit(x)
  BY <1>1 DEF ScriptExit, TypeOK, control, budget, Boxes, Codes
<1>2. CASE AutoRemove(x)
  BY <1>2 DEF AutoRemove, TypeOK, control, budget, Boxes
<1>3. CASE InstallExit(x)
  BY <1>3 DEF InstallExit, TypeOK, control, budget
<1> QED BY <1>1, <1>2, <1>3

(* Every step of execute() itself keeps the types.                         *)
LEMMA ExecuteTypes ==
    ASSUME TypeOK, NEW x \in Run,
           \/ Begin(x) \/ Mkdir(x) \/ Prepare(x) \/ ReadMarker(x)
           \/ InstallTimeout(x) \/ Mark(x) \/ StreamEnd(x) \/ StreamBroken(x)
           \/ StreamTimeout(x) \/ Rmtree(x) \/ Resume(x)
    PROVE  TypeOK'
<1>1. ASSUME NEW step \in Steps \ {"cleanup", "rmtree"}, Goto(x, step),
             UNCHANGED <<outcome, left, world>>,
             manifest' \in [Run -> Manifest \cup {None}],
             silent' \in [Run -> SUBSET Steps], dir' \in [Run -> BOOLEAN],
             marker' \in Manifest \cup {None}, faults' \in Nat, cancels' \in Nat
      PROVE  TypeOK'
  <2>1. \A y \in Run : pc'[y] \in {"cleanup", "rmtree", "done"} => outcome'[y] # "none"
    BY <1>1, GotoTypes DEF TypeOK, Steps, Calls, Local, InstallCalls, ScriptCalls
  <2> QED BY <1>1, <2>1, GotoTypes DEF TypeOK, world, Pc
<1> USE DEF Steps, Calls, Local, InstallCalls, ScriptCalls
<1>2. CASE Begin(x)
  <2>1. manifest' \in [Run -> Manifest \cup {None}]
    BY <1>2 DEF Begin, TypeOK
  <2> QED BY <1>1, <1>2, <2>1 DEF Begin, TypeOK, budget
<1>3. CASE Mkdir(x)
  BY <1>1, <1>3 DEF Mkdir, TypeOK, budget
<1>4. CASE Prepare(x)
  BY <1>1, <1>4 DEF Prepare, TypeOK, budget
<1>5. CASE ReadMarker(x)
  BY <1>1, <1>5 DEF ReadMarker, TypeOK, budget
<1>6. CASE InstallTimeout(x)
  BY <1>1, <1>6 DEF InstallTimeout, TypeOK, budget
<1>7. CASE Mark(x)
  BY <1>1, <1>7 DEF Mark, TypeOK, budget
<1>8. CASE StreamEnd(x)
  BY <1>1, <1>8 DEF StreamEnd, TypeOK, budget
<1>9. CASE StreamBroken(x)
  BY <1>1, <1>9 DEF StreamBroken, TypeOK, budget
<1>10. CASE StreamTimeout(x)
  BY <1>1, <1>10 DEF StreamTimeout, TypeOK, budget
<1>11. CASE Rmtree(x)
  <2>1. /\ pc[x] = "rmtree" /\ outcome[x] # "none"
        /\ Goto(x, "done")
        /\ UNCHANGED <<manifest, outcome, left, world, marker>>
    BY <1>11 DEF Rmtree, TypeOK
  <2>2. dir' \in [Run -> BOOLEAN]
    <3>1. dir' \in {dir, [dir EXCEPT ![x] = FALSE]}
      BY <1>11 DEF Rmtree
    <3> QED BY <3>1 DEF TypeOK
  <2>3. silent' \in [Run -> SUBSET Steps]
    <3>1. silent' \in {silent, [silent EXCEPT ![x] = @ \cup {"rmtree"}]}
      BY <1>11 DEF Rmtree
    <3> QED BY <3>1 DEF TypeOK
  <2>4. faults' \in Nat /\ cancels' \in Nat
    BY <1>11 DEF Rmtree, TypeOK
  <2>5. \A y \in Run : pc'[y] \in {"cleanup", "rmtree", "done"} => outcome'[y] # "none"
    BY <2>1, GotoTypes DEF TypeOK
  <2> QED BY <2>1, <2>2, <2>3, <2>4, <2>5, GotoTypes DEF TypeOK, world, Pc
<1>12. CASE Resume(x)
  <2>1. /\ After(x) \in Steps
        /\ ResultOf(x) \in Results \cup {"none", "error", "cancelled"}
        /\ After(x) \in {"cleanup", "rmtree"} => ResultOf(x) # "none"
    BY <1>12 DEF Resume, After, ResultOf, TypeOK, Results
  <2>2. /\ Goto(x, After(x)) /\ outcome' = [outcome EXCEPT ![x] = ResultOf(x)]
        /\ UNCHANGED <<manifest, left, silent, dir, world, budget, marker>>
    BY <1>12 DEF Resume
  <2>3. outcome' \in [Run -> Results \cup {"none", "error", "cancelled"}]
    BY <2>1, <2>2 DEF TypeOK
  <2>4. \A y \in Run : pc'[y] \in {"cleanup", "rmtree", "done"} => outcome'[y] # "none"
    BY <2>1, <2>2, GotoTypes DEF TypeOK
  <2> QED BY <2>1, <2>2, <2>3, <2>4, GotoTypes DEF TypeOK, world, budget, Pc
<1> QED BY <1>2, <1>3, <1>4, <1>5, <1>6, <1>7, <1>8, <1>9, <1>10, <1>11, <1>12

LEMMA NextTypes == TypeOK /\ [Next]_vars => TypeOK'
<1> SUFFICES ASSUME TypeOK, [Next]_vars PROVE TypeOK'
  OBVIOUS
<1>1. CASE Next
  <2>1. PICK x \in Run :
          \/ Begin(x) \/ Prepare(x) \/ Proceed(x) \/ Environment(x)
          \/ \E op \in Calls : Perform(x, op) \/ Break(x, op) \/ Refuse(x, op) \/ Drop(x, op)
    BY <1>1 DEF Next
  <2> QED BY <2>1, RaisingTypes, DaemonTypes, ContainerTypes, ExecuteTypes
      DEF Proceed, Environment
<1>2. CASE UNCHANGED vars
  BY <1>2 DEF TypeOK, vars, control, world, budget
<1> QED BY <1>1, <1>2

(* The model's variables keep their types, an execution that cleans up or  *)
(* has ended has an outcome, and a container that has exited has a code.   *)
THEOREM TypeCorrect == Spec => []TypeOK
<1>1. Init => TypeOK
  BY DEF Init, TypeOK, Steps, Calls, Local, InstallCalls, ScriptCalls, Results,
         Boxes, Codes
<1> QED BY <1>1, NextTypes, PTL DEF Spec

-----------------------------------------------------------------------------
(* Nothing is left behind *)

(* The workspace of x exists only between its making and its removal, if   *)
(* neither was cut short nor failed.                                       *)
DirInv(x) ==
    /\ pc[x] = "idle" => ~dir[x]
    /\ Ended(x) /\ dir[x] =>
         {"mkdir", "rmtree"} \cap left[x] # {} \/ "rmtree" \in silent[x]

(* Once x is past the removal of its installer there is no installer,      *)
(* unless its creation or its removal was cut short.                       *)
InstInv(x) ==
    \/ {"icreate", "iremove"} \cap left[x] # {}
    \/ /\ <<x, "icreate">> \in daemon => pc[x] = "icreate" /\ answer[x] = None
       /\ inst[x] \notin {"none", "gone"} =>
            /\ pc[x] \in {"icreate", "istart", "iwait", "ikill", "ilogs", "iremove"}
            /\ pc[x] = "iremove" => answer[x] \in {None, "error"}

(* The script's container: a start is pending only while x awaits it or    *)
(* after it was abandoned; once started it is never created again; an      *)
(* answered kill or wait found it stopped, or the kill was refused.        *)
Before == {"idle", "mkdir", "prepare", "marker", "icreate", "istart", "iwait",
           "ikill", "ilogs", "iremove", "mark", "create"}
Cut(x) == \/ {"start", "cleanup"} \cap left[x] # {}
          \/ {"kill", "cleanup"} \cap silent[x] # {}

BoxInv(x) ==
    /\ <<x, "create">> \in daemon =>
         pc[x] \in {"create", "rmtree", "done"} /\ answer[x] = None
         /\ box[x] = "none"
    /\ <<x, "start">> \in daemon =>
         \/ pc[x] = "start" /\ answer[x] = None
         \/ "start" \in left[x] /\ pc[x] \in {"cleanup", "rmtree", "done"}
    /\ pc[x] \in Before \ {"create"} => box[x] = "none"
    /\ pc[x] = "create" => box[x] \in {"none", "created"}
    /\ pc[x] = "start" /\ answer[x] \notin {None, "error"} =>
         box[x] \in {"running", "exited", "gone"}
    /\ pc[x] \in {"stream", "kill", "wait"} => box[x] \in {"running", "exited", "gone"}
    /\ pc[x] \in {"kill", "wait"} /\ answer[x] \notin {None, "error"} =>
         \/ box[x] \in {"exited", "gone"}
         \/ pc[x] = "kill" /\ "kill" \in silent[x]
    /\ pc[x] = "cleanup" /\ answer[x] \notin {None, "error"} =>
         box[x] # "running" \/ Cut(x)
    /\ pc[x] \in {"rmtree", "done"} => box[x] # "running" \/ Cut(x)

(* What wait() has answered, and what execute() makes of it.               *)
CodeInv(x) ==
    /\ pc[x] = "wait" /\ answer[x] = "zero" => code[x] = "zero"
    /\ outcome[x] = "succeeded" =>
         /\ code[x] = "zero" /\ box[x] \in {"exited", "gone"}
         /\ pc[x] \in {"rmtree", "done"} /\ <<x, "create">> \notin daemon

InvAt(x) == DirInv(x) /\ InstInv(x) /\ BoxInv(x) /\ CodeInv(x)
Inv == \A x \in Run : InvAt(x)

(* What InvAt(y) speaks of, but for the containers. *)
SameControl(y) ==
    /\ pc'[y] = pc[y] /\ outcome'[y] = outcome[y] /\ left'[y] = left[y]
    /\ dir'[y] = dir[y] /\ answer'[y] = answer[y] /\ silent'[y] = silent[y]
    /\ \A op \in Calls : <<y, op>> \in daemon' <=> <<y, op>> \in daemon
SameBoxes(y) == box'[y] = box[y] /\ code'[y] = code[y] /\ inst'[y] = inst[y]

(* A step of one execution does not disturb what is said of another.       *)
LEMMA Untouched ==
    ASSUME NEW y \in Run, InvAt(y), SameControl(y), SameBoxes(y)
    PROVE  InvAt(y)'
BY DEF InvAt, DirInv, InstInv, BoxInv, CodeInv, SameControl, SameBoxes, Ended, Cut,
       Calls, InstallCalls, ScriptCalls

(* What going to a step does, call by call.                                *)
LEMMA GotoAt ==
    ASSUME TypeOK, NEW x \in Run, NEW step \in Steps \cup {"done"}, Goto(x, step)
    PROVE  /\ pc'[x] = step /\ answer'[x] = None
           /\ \A op \in Calls :
                <<x, op>> \in daemon' <=> <<x, op>> \in daemon \/ op = step
           /\ \A y \in Run \ {x} :
                /\ pc'[y] = pc[y] /\ answer'[y] = answer[y]
                /\ \A op \in Calls : <<y, op>> \in daemon' <=> <<y, op>> \in daemon
BY DEF Goto, TypeOK

(* An exception at any await keeps the invariant.                          *)
LEMMA RaiseInv ==
    ASSUME TypeOK, Inv, NEW x \in Run, pc[x] \in Steps,
           NEW exception \in {"error", "cancelled"}, Raise(x, exception),
           UNCHANGED <<silent, world>>,
           \A y \in Run : pc[y] \notin {"mkdir", "rmtree"} \/ y # x => dir'[y] = dir[y]
    PROVE  Inv'
<1> DEFINE to == Unwind(pc[x])
<1>1. /\ to \in {"iremove", "cleanup", "rmtree", "done"}
      /\ to = "iremove" <=> pc[x] \in {"istart", "iwait", "ikill", "ilogs"}
      /\ to = "cleanup" <=> pc[x] \in {"start", "stream", "kill", "wait"}
      /\ to = "done" <=> pc[x] \in {"mkdir", "rmtree"}
  BY UnwindLeads
<1>2. to \in Steps \cup {"done"} /\ Goto(x, to)
  BY <1>1 DEF Raise, Steps, Calls, Local, InstallCalls, ScriptCalls
<1>3. /\ outcome'[x] = exception /\ left'[x] = left[x] \cup {pc[x]}
      /\ \A y \in Run \ {x} : outcome'[y] = outcome[y] /\ left'[y] = left[y]
  BY DEF Raise, TypeOK
<1>4. \A y \in Run : SameBoxes(y)
  BY DEF SameBoxes, world
<1>5. \A y \in Run \ {x} : SameControl(y)
  BY <1>2, <1>3, GotoAt DEF SameControl
<1>6. InvAt(x)
  BY DEF Inv
<1>7. /\ pc'[x] = to /\ answer'[x] = None
      /\ \A op \in Calls : <<x, op>> \in daemon' <=> <<x, op>> \in daemon \/ op = to
  BY <1>2, GotoAt
<1>8. /\ box'[x] = box[x] /\ code'[x] = code[x] /\ inst'[x] = inst[x]
      /\ silent'[x] = silent[x]
  BY <1>4 DEF SameBoxes
<1> HIDE DEF to
<1> USE DEF Calls, InstallCalls, ScriptCalls, Ended, Cut
<1>9. DirInv(x)'
  <2>1. dir'[x] = dir[x] \/ pc[x] \in {"mkdir", "rmtree"}
    OBVIOUS
  <2> QED BY <1>1, <1>3, <1>6, <1>7, <1>8, <2>1 DEF DirInv, InvAt
<1>10. InstInv(x)'
  BY <1>1, <1>3, <1>6, <1>7, <1>8 DEF InstInv, InvAt, Steps, Local
<1>11. BoxInv(x)'
  BY <1>1, <1>3, <1>6, <1>7, <1>8 DEF BoxInv, InvAt, Before, Steps, Local
<1>12. CodeInv(x)'
  BY <1>1, <1>3, <1>7 DEF CodeInv
<1> QED BY <1>4, <1>5, <1>9, <1>10, <1>11, <1>12, Untouched DEF Inv, InvAt

LEMMA RaisingInv ==
    ASSUME TypeOK, Inv, NEW x \in Run,
           Cancel(x) \/ Fail(x) \/ InstallFailed(x) \/ ResumeError(x)
    PROVE  Inv'
<1>1. pc[x] \in Steps /\ UNCHANGED <<silent, world>>
  BY DEF Cancel, Fail, InstallFailed, ResumeError, Steps, Calls, Local,
         InstallCalls, ScriptCalls
<1>2. PICK exception \in {"error", "cancelled"} : Raise(x, exception)
  BY DEF Cancel, Fail, InstallFailed, ResumeError
<1>3. \A y \in Run : pc[y] \notin {"mkdir", "rmtree"} \/ y # x => dir'[y] = dir[y]
  BY DEF Cancel, Fail, InstallFailed, ResumeError, TypeOK
<1> QED BY <1>1, <1>2, <1>3, RaiseInv

(* What a call does, where it takes effect and where it does not: nothing  *)
(* is answered but to who awaits it, and an error is answered by no effect *)
(* or by an effect alike.                                                  *)
LEMMA CallAt ==
    ASSUME TypeOK, NEW x \in Run, NEW op \in Calls,
           Perform(x, op) \/ Break(x, op) \/ Refuse(x, op) \/ Drop(x, op)
    PROVE  /\ <<x, op>> \in daemon
           /\ \A o \in Calls : <<x, o>> \in daemon' <=> <<x, o>> \in daemon /\ o # op
           /\ pc' = pc /\ outcome' = outcome /\ left' = left /\ dir' = dir
           /\ \A y \in Run \ {x} : SameControl(y) /\ SameBoxes(y)
           /\ \/ /\ box'[x] = BoxAfter(x, op) /\ inst'[x] = InstAfter(x, op)
                 /\ code'[x] = IF Kills(x, op) THEN "nonzero" ELSE code[x]
              \/ /\ box'[x] = box[x] /\ inst'[x] = inst[x] /\ code'[x] = code[x]
                 /\ \/ answer'[x] \in {"error", answer[x]}
                    \/ op \in KillCalls /\ op \in silent'[x]
           /\ silent[x] \subseteq silent'[x]
           /\ op # pc[x] => answer'[x] = answer[x]
           /\ op = pc[x] => \/ answer'[x] = "error"
                            \/ answer'[x] = AnswerTo(x, op) /\ ~Blocked(x, op)
<1>1. /\ <<x, op>> \in daemon /\ daemon' = daemon \ {<<x, op>>}
      /\ UNCHANGED control
  BY DEF Perform, Break, Refuse, Drop
<1>2. pc' = pc /\ outcome' = outcome /\ left' = left /\ dir' = dir
  BY <1>1 DEF control
<1>3. \A y \in Run \ {x} : answer'[y] = answer[y]
  BY DEF Perform, Break, Refuse, Drop, Answered, TypeOK
<1>4. silent[x] \subseteq silent'[x] /\ \A y \in Run \ {x} : silent'[y] = silent[y]
  BY DEF Perform, Break, Refuse, Drop, TypeOK
<1>5. \A y \in Run \ {x} : SameControl(y)
  BY <1>1, <1>2, <1>3, <1>4 DEF SameControl
<1>6. Effect(x, op) \/ UNCHANGED world
  BY DEF Perform, Break, Refuse, Drop
<1>7. \A y \in Run \ {x} : SameBoxes(y)
  BY <1>6 DEF Effect, world, SameBoxes, TypeOK
<1>8. /\ op # pc[x] => answer'[x] = answer[x]
      /\ op = pc[x] => \/ answer'[x] = "error"
                       \/ answer'[x] = AnswerTo(x, op) /\ ~Blocked(x, op)
  BY DEF Perform, Break, Refuse, Drop, Answered, AnswerTo, Blocked, KillCalls, TypeOK
<1>9. \/ /\ box'[x] = BoxAfter(x, op) /\ inst'[x] = InstAfter(x, op)
         /\ code'[x] = IF Kills(x, op) THEN "nonzero" ELSE code[x]
      \/ /\ box'[x] = box[x] /\ inst'[x] = inst[x] /\ code'[x] = code[x]
         /\ \/ answer'[x] \in {"error", answer[x]}
            \/ op \in KillCalls /\ op \in silent'[x]
  <2>1. CASE Effect(x, op)
    BY <2>1 DEF Effect, TypeOK
  <2>2. CASE UNCHANGED world /\ ~Effect(x, op)
    BY <2>2 DEF Perform, Break, Refuse, Drop, Answered, world, TypeOK, Steps
  <2> QED BY <1>6, <2>1, <2>2
<1> QED BY <1>1, <1>2, <1>5, <1>7, <1>8, <1>9, <1>4

(* A call carried out, broken or dropped keeps the invariant.              *)
LEMMA DaemonInv ==
    ASSUME TypeOK, Inv, NEW x \in Run, NEW op \in Calls,
           Perform(x, op) \/ Break(x, op) \/ Refuse(x, op) \/ Drop(x, op)
    PROVE  Inv'
<1> USE DEF Calls, InstallCalls, ScriptCalls, Ended, Cut
<1>1. InvAt(x)
  BY DEF Inv
<1>2. /\ <<x, op>> \in daemon
      /\ \A o \in Calls : <<x, o>> \in daemon' <=> <<x, o>> \in daemon /\ o # op
      /\ pc' = pc /\ outcome' = outcome /\ left' = left /\ dir' = dir
      /\ \A y \in Run \ {x} : SameControl(y) /\ SameBoxes(y)
  BY CallAt
<1>3. /\ op # pc[x] => answer'[x] = answer[x]
      /\ op = pc[x] => \/ answer'[x] = "error"
                       \/ answer'[x] = AnswerTo(x, op) /\ ~Blocked(x, op)
  BY CallAt
<1>4. \/ /\ box'[x] = BoxAfter(x, op) /\ inst'[x] = InstAfter(x, op)
         /\ code'[x] = IF Kills(x, op) THEN "nonzero" ELSE code[x]
      \/ /\ box'[x] = box[x] /\ inst'[x] = inst[x] /\ code'[x] = code[x]
         /\ \/ answer'[x] \in {"error", answer[x]}
            \/ op \in KillCalls /\ op \in silent'[x]
  BY CallAt
<1>5. silent[x] \subseteq silent'[x]
  BY CallAt
<1>6. DirInv(x)'
  BY <1>1, <1>2, <1>5 DEF DirInv, InvAt
<1>7. InstInv(x)'
  BY <1>1, <1>2, <1>3, <1>4 DEF InstInv, InvAt, InstAfter, AnswerTo, KillCalls
<1>8. BoxInv(x)'
  BY <1>1, <1>2, <1>3, <1>4, <1>5 DEF BoxInv, InvAt, BoxAfter, Kills, AnswerTo, Blocked,
       KillCalls, Before, TypeOK, Boxes
<1>9. CodeInv(x)'
  BY <1>1, <1>2, <1>3, <1>4 DEF CodeInv, BoxInv, InvAt, BoxAfter, Kills, AnswerTo,
       Blocked, KillCalls, TypeOK, Boxes, Codes
<1> QED BY <1>2, <1>6, <1>7, <1>8, <1>9, Untouched DEF Inv, InvAt

(* The ends of the script and of the installer keep the invariant.         *)
LEMMA ContainerInv ==
    ASSUME TypeOK, Inv, NEW x \in Run, ScriptExit(x) \/ AutoRemove(x) \/ InstallExit(x)
    PROVE  Inv'
<1> USE DEF Calls, InstallCalls, ScriptCalls, Ended, Cut
<1>1. InvAt(x)
  BY DEF Inv
<1>2. /\ pc' = pc /\ outcome' = outcome /\ left' = left /\ dir' = dir
      /\ daemon' = daemon /\ answer' = answer /\ silent' = silent
  BY DEF ScriptExit, AutoRemove, InstallExit, control
<1>3. \A y \in Run \ {x} : SameControl(y) /\ SameBoxes(y)
  <2>1. \A y \in Run \ {x} : SameControl(y)
    BY <1>2 DEF SameControl
  <2>2. \A y \in Run \ {x} : SameBoxes(y)
    BY DEF ScriptExit, AutoRemove, InstallExit, SameBoxes, TypeOK
  <2> QED BY <2>1, <2>2
<1>4. \/ inst'[x] = inst[x]
      \/ inst[x] = "running" /\ inst'[x] \in {"zero", "nonzero"}
  BY DEF ScriptExit, AutoRemove, InstallExit, TypeOK
<1>5. \/ box'[x] = box[x] /\ code'[x] = code[x]
      \/ box[x] = "running" /\ box'[x] = "exited"
      \/ box[x] = "exited" /\ box'[x] = "gone" /\ code'[x] = code[x]
  BY DEF ScriptExit, AutoRemove, InstallExit, TypeOK
<1>6. DirInv(x)' /\ InstInv(x)'
  BY <1>1, <1>2, <1>4 DEF DirInv, InstInv, InvAt
<1>7. BoxInv(x)'
  BY <1>1, <1>2, <1>5 DEF BoxInv, InvAt, Before
<1>8. CodeInv(x)'
  BY <1>1, <1>2, <1>5 DEF CodeInv, BoxInv, InvAt
<1> QED BY <1>3, <1>6, <1>7, <1>8, Untouched DEF Inv, InvAt

(* A step from one await to another that ends with no exception keeps the  *)
(* invariant, if what it says of x at the next await holds.                *)
LEMMA StepInv ==
    ASSUME TypeOK, Inv, NEW x \in Run, NEW step \in Steps \cup {"done"}, Goto(x, step),
           UNCHANGED <<left, world>>,
           \A y \in Run \ {x} : /\ outcome'[y] = outcome[y] /\ dir'[y] = dir[y]
                                /\ silent'[y] = silent[y],
           InvAt(x)'
    PROVE  Inv'
<1>1. \A y \in Run \ {x} : SameControl(y) /\ SameBoxes(y)
  BY GotoAt DEF SameControl, SameBoxes, world
<1> QED BY <1>1, Untouched DEF Inv

(* Every step of execute() itself keeps the invariant.                     *)
LEMMA ExecuteInv ==
    ASSUME TypeOK, Inv, NEW x \in Run,
           \/ Begin(x) \/ Mkdir(x) \/ Prepare(x) \/ ReadMarker(x)
           \/ InstallTimeout(x) \/ Mark(x) \/ StreamEnd(x) \/ StreamBroken(x)
           \/ StreamTimeout(x) \/ Rmtree(x) \/ Resume(x)
    PROVE  Inv'
<1>1. InvAt(x)
  BY DEF Inv
<1>2. UNCHANGED <<left, world>>
  BY DEF Begin, Mkdir, Prepare, ReadMarker, InstallTimeout, Mark, StreamEnd,
         StreamBroken, StreamTimeout, Rmtree, Resume
<1>3. left' = left /\ box' = box /\ code' = code /\ inst' = inst
  BY <1>2 DEF world
<1>4. \A y \in Run \ {x} : /\ outcome'[y] = outcome[y] /\ dir'[y] = dir[y]
                           /\ silent'[y] = silent[y]
  BY DEF Begin, Mkdir, Prepare, ReadMarker, InstallTimeout, Mark, StreamEnd,
         StreamBroken, StreamTimeout, Rmtree, Resume, TypeOK
<1>5. silent[x] \subseteq silent'[x]
  BY DEF Begin, Mkdir, Prepare, ReadMarker, InstallTimeout, Mark, StreamEnd,
         StreamBroken, StreamTimeout, Rmtree, Resume, TypeOK
<1>6. ASSUME NEW step \in Steps \cup {"done"}, Goto(x, step)
      PROVE  /\ pc'[x] = step /\ answer'[x] = None
             /\ \A op \in Calls :
                  <<x, op>> \in daemon' <=> <<x, op>> \in daemon \/ op = step
  BY <1>6, GotoAt
<1> USE DEF Calls, InstallCalls, ScriptCalls, Steps, Local, Ended, Cut
<1>7. CASE \/ Begin(x) \/ Mkdir(x) \/ Prepare(x) \/ ReadMarker(x)
           \/ InstallTimeout(x) \/ Mark(x) \/ StreamEnd(x) \/ StreamBroken(x)
           \/ StreamTimeout(x)
  <2>1. PICK step \in Steps : Goto(x, step) /\
          \/ pc[x] = "idle" /\ step = "mkdir" /\ dir' = dir
          \/ pc[x] = "mkdir" /\ step = "prepare"
          \/ pc[x] = "prepare" /\ step \in {"create", "marker"} /\ dir' = dir
          \/ pc[x] = "marker" /\ step \in {"create", "icreate"} /\ dir' = dir
          \/ pc[x] = "iwait" /\ step = "ikill" /\ dir' = dir
          \/ pc[x] = "mark" /\ step = "create" /\ dir' = dir
          \/ pc[x] = "stream" /\ step \in {"wait", "kill"} /\ dir' = dir
    BY <1>7 DEF Begin, Mkdir, Prepare, ReadMarker, InstallTimeout, Mark, StreamEnd,
                StreamBroken, StreamTimeout
  <2>2. outcome' = outcome
    BY <1>7 DEF Begin, Mkdir, Prepare, ReadMarker, InstallTimeout, Mark, StreamEnd,
                StreamBroken, StreamTimeout
  <2>3. /\ pc'[x] = step /\ answer'[x] = None
        /\ \A op \in Calls :
             <<x, op>> \in daemon' <=> <<x, op>> \in daemon \/ op = step
    BY <1>6, <2>1
  <2>4. DirInv(x)'
    BY <1>1, <1>3, <1>5, <2>1, <2>3 DEF DirInv, InvAt
  <2>5. InstInv(x)'
    BY <1>1, <1>3, <2>1, <2>3 DEF InstInv, InvAt
  <2>6. BoxInv(x)'
    BY <1>1, <1>3, <1>5, <2>1, <2>3 DEF BoxInv, InvAt, Before, CodeInv, TypeOK, Boxes
  <2>7. CodeInv(x)'
    BY <1>1, <1>3, <2>1, <2>2, <2>3 DEF CodeInv, InvAt
  <2> QED BY <1>2, <1>4, <2>1, <2>4, <2>5, <2>6, <2>7, StepInv DEF InvAt
<1>8. CASE Rmtree(x)
  <2>1. /\ pc[x] = "rmtree" /\ Goto(x, "done") /\ outcome' = outcome
        /\ dir'[x] = FALSE \/ "rmtree" \in silent'[x]
    BY <1>8 DEF Rmtree, TypeOK, Steps, Local
  <2>2. /\ pc'[x] = "done" /\ answer'[x] = None
        /\ \A op \in Calls : <<x, op>> \in daemon' <=> <<x, op>> \in daemon
    BY <1>6, <2>1
  <2>3. DirInv(x)' /\ InstInv(x)' /\ BoxInv(x)' /\ CodeInv(x)'
    BY <1>1, <1>3, <1>5, <2>1, <2>2 DEF DirInv, InstInv, BoxInv, CodeInv, InvAt, Before
  <2> QED BY <1>2, <1>4, <2>1, <2>3, StepInv DEF InvAt
<1>9. CASE Resume(x)
  <2> DEFINE step == After(x)
  <2>1. /\ pc[x] \in Calls \ {"ikill"} /\ answer[x] \notin {None, "error"}
        /\ Goto(x, step) /\ outcome'[x] = ResultOf(x) /\ dir' = dir
    BY <1>9 DEF Resume, TypeOK
  <2>2. /\ step \in Steps
        /\ pc[x] = "icreate" => step = "istart"
        /\ pc[x] = "istart" => step = "iwait"
        /\ pc[x] = "iwait" => step \in {"iremove", "ilogs"}
        /\ pc[x] = "iremove" => step \in {"mark", "rmtree"}
        /\ pc[x] = "create" => step = "start"
        /\ pc[x] = "start" => step = "stream"
        /\ pc[x] \in {"kill", "wait", "cleanup"} => step = "rmtree"
    BY <2>1 DEF After
  <2> HIDE DEF step
  <2>3. /\ pc'[x] = step /\ answer'[x] = None
        /\ \A op \in Calls :
             <<x, op>> \in daemon' <=> <<x, op>> \in daemon \/ op = step
    BY <1>6, <2>1, <2>2
  <2>4. \/ outcome'[x] = outcome[x]
        \/ pc[x] \in {"kill", "wait"} /\ outcome'[x] \in {"timed_out", "failed"}
        \/ pc[x] = "wait" /\ answer[x] = "zero" /\ outcome'[x] = "succeeded"
    BY <2>1 DEF ResultOf
  <2>5. DirInv(x)'
    BY <1>1, <1>3, <1>5, <2>1, <2>2, <2>3 DEF DirInv, InvAt
  <2>6. InstInv(x)'
    BY <1>1, <1>3, <2>1, <2>2, <2>3 DEF InstInv, InvAt
  <2>7. BoxInv(x)'
    BY <1>1, <1>3, <1>5, <2>1, <2>2, <2>3 DEF BoxInv, InvAt, Before, TypeOK, Boxes
  <2>8. CodeInv(x)'
    BY <1>1, <1>3, <2>1, <2>2, <2>3, <2>4 DEF CodeInv, BoxInv, InvAt
  <2> QED BY <1>2, <1>4, <2>1, <2>2, <2>5, <2>6, <2>7, <2>8, StepInv DEF InvAt
<1> QED BY <1>7, <1>8, <1>9

LEMMA NextInv == TypeOK /\ Inv /\ [Next]_vars => Inv'
<1> SUFFICES ASSUME TypeOK, Inv, [Next]_vars PROVE Inv'
  OBVIOUS
<1>1. CASE Next
  <2>1. PICK x \in Run :
          \/ Begin(x) \/ Prepare(x) \/ Proceed(x) \/ Environment(x)
          \/ \E op \in Calls : Perform(x, op) \/ Break(x, op) \/ Refuse(x, op) \/ Drop(x, op)
    BY <1>1 DEF Next
  <2> QED BY <2>1, RaisingInv, DaemonInv, ContainerInv, ExecuteInv
      DEF Proceed, Environment
<1>2. CASE UNCHANGED vars
  <2>1. \A y \in Run : SameControl(y) /\ SameBoxes(y)
    BY <1>2 DEF vars, control, world, SameControl, SameBoxes
  <2> QED BY <2>1, Untouched DEF Inv
<1> QED BY <1>1, <1>2

LEMMA InvHolds == Spec => []Inv
<1>1. Init => Inv
  BY DEF Init, Inv, InvAt, DirInv, InstInv, BoxInv, CodeInv, Ended, Cut
<1> QED BY <1>1, NextInv, TypeCorrect, PTL DEF Spec

(* No execution that has ended leaves its script running, unless it was    *)
(* cut short while the daemon was starting or killing the container, or    *)
(* the daemon refused the kill.                                            *)
THEOREM NothingLeftRunningHolds == Spec => []NothingLeftRunning
<1>1. Inv => NothingLeftRunning
  BY DEF Inv, InvAt, BoxInv, NothingLeftRunning, Ended, Cut
<1> QED BY <1>1, InvHolds, PTL

(* Its installer is gone too, unless creation or removal was cut short.    *)
THEOREM InstallerRemovedHolds == Spec => []InstallerRemoved
<1>1. Inv => InstallerRemoved
  BY DEF Inv, InvAt, InstInv, InstallerRemoved, Ended
<1> QED BY <1>1, InvHolds, PTL

(* Whatever is reported succeeded had its script exit with 0.              *)
THEOREM SuccessIsRealHolds == Spec => []SuccessIsReal
<1>1. Inv => SuccessIsReal
  BY DEF Inv, InvAt, CodeInv, SuccessIsReal
<1> QED BY <1>1, InvHolds, PTL

(* The workspace is removed, unless its making or removal was cut short or *)
(* the removal failed.                                                     *)
THEOREM WorkspaceRemovedHolds == Spec => []WorkspaceRemoved
<1>1. Inv => WorkspaceRemoved
  BY DEF Inv, InvAt, DirInv, WorkspaceRemoved
<1> QED BY <1>1, InvHolds, PTL

-----------------------------------------------------------------------------
(* The marker of the dependency cache *)

(* An install may be started after its execution has gone on only by the   *)
(* call that was abandoned, and no more once the installer is removed.     *)
Zombie(x) == "iremove" \in left[x]

CallInv(x) ==
    /\ left[x] # {} => outcome[x] # "none"
    /\ pc[x] \in {"idle", "mkdir", "prepare", "marker", "icreate"} =>
         inst[x] \in {"none", "created"} /\ left[x] = {}
    /\ "icreate" \in left[x] =>
         inst[x] \in {"none", "created"} /\ pc[x] \in {"rmtree", "done"}
    /\ Zombie(x) => pc[x] \in {"rmtree", "done"}
    /\ <<x, "icreate">> \in daemon =>
         (pc[x] = "icreate" /\ answer[x] = None) \/ "icreate" \in left[x]
    /\ <<x, "istart">> \in daemon =>
         /\ "icreate" \notin left[x]
         /\ \/ pc[x] = "istart" /\ answer[x] = None
            \/ pc[x] = "iremove" /\ "istart" \in left[x]
            \/ Zombie(x)
            \/ inst[x] = "gone"
    /\ <<x, "iremove">> \in daemon =>
         /\ "icreate" \notin left[x]
         /\ (pc[x] = "iremove" /\ answer[x] = None) \/ Zombie(x)
    /\ pc[x] = "iremove" /\ answer[x] \notin {None, "error"} => inst[x] = "gone"

(* Whose install the cache holds, if no zombie's: x wiped it last, and     *)
(* also finished.                                                          *)
Mine(x) == cache.by # None /\ (cache.by = x \/ Zombie(cache.by))
Good(x) == Mine(x) /\ (cache.whole \/ Zombie(cache.by))

Installing == {"icreate", "istart", "iwait", "ikill", "ilogs", "iremove", "mark"}

CacheInv(x) ==
    /\ pc[x] \in Installing => marker # manifest[x]
    /\ ~Zombie(x) /\ inst[x] = "running" => Mine(x)
    /\ ~Zombie(x) /\ inst[x] = "zero" => Good(x)
    /\ pc[x] = "iwait" /\ answer[x] = "zero" => Good(x)
    /\ pc[x] = "iremove" /\ outcome[x] = "none" => Good(x)
    /\ pc[x] = "mark" => Good(x)

OneInFlight == \A x, y \in InFlight : x = y

(* MarkerHonest speaks of the cache and the marker alone; it is kept since *)
(* whoever wipes or marks has found the marker to be of another manifest,  *)
(* and nobody else marks meanwhile.                                        *)
CallsInv == \A x \in Run : CallInv(x)
MarkerInv ==
    /\ OneInFlight
    /\ \A x \in Run : CacheInv(x)
    /\ cache.by # None => pc[cache.by] # "idle"
    /\ MarkerHonest

HonestInv == CallsInv /\ (OneAtATime => MarkerInv)

LEMMA CallUntouched ==
    ASSUME NEW y \in Run, CallInv(y), SameControl(y), inst'[y] = inst[y]
    PROVE  CallInv(y)'
BY DEF CallInv, SameControl, Zombie, Calls, InstallCalls, ScriptCalls

(* What an exception does to its execution and leaves of the others.       *)
LEMMA RaisingAt ==
    ASSUME TypeOK, NEW x \in Run,
           Cancel(x) \/ Fail(x) \/ InstallFailed(x) \/ ResumeError(x)
    PROVE  /\ pc[x] \in Steps
           /\ pc'[x] = Unwind(pc[x]) /\ answer'[x] = None
           /\ outcome'[x] # "none" /\ left'[x] = left[x] \cup {pc[x]}
           /\ \A op \in Calls : <<x, op>> \in daemon'
                <=> <<x, op>> \in daemon \/ op = pc'[x]
           /\ \A y \in Run \ {x} : SameControl(y)
           /\ manifest' = manifest /\ inst' = inst /\ cache' = cache
           /\ \/ marker' = marker
              \/ pc[x] = "mark" /\ marker' = manifest[x]
<1>1. pc[x] \in Steps /\ \E e \in {"error", "cancelled"} : Raise(x, e)
  BY DEF Cancel, Fail, InstallFailed, ResumeError, Steps, Calls, Local,
         InstallCalls, ScriptCalls
<1>2. PICK e \in {"error", "cancelled"} : Raise(x, e)
  BY <1>1
<1> DEFINE to == Unwind(pc[x])
<1>3. to \in Steps \cup {"done"} /\ Goto(x, to)
  BY <1>1, <1>2, UnwindLeads
     DEF Raise, Steps, Calls, Local, InstallCalls, ScriptCalls
<1>4. /\ pc'[x] = to /\ answer'[x] = None
      /\ \A op \in Calls : <<x, op>> \in daemon' <=> <<x, op>> \in daemon \/ op = to
      /\ \A y \in Run \ {x} :
           /\ pc'[y] = pc[y] /\ answer'[y] = answer[y]
           /\ \A op \in Calls : <<y, op>> \in daemon' <=> <<y, op>> \in daemon
  BY <1>3, GotoAt
<1>5. /\ outcome'[x] = e /\ left'[x] = left[x] \cup {pc[x]}
      /\ \A y \in Run \ {x} : outcome'[y] = outcome[y] /\ left'[y] = left[y]
  BY <1>2 DEF Raise, TypeOK
<1>6. \A y \in Run \ {x} : dir'[y] = dir[y] /\ silent'[y] = silent[y]
  BY DEF Cancel, Fail, InstallFailed, ResumeError, TypeOK
<1>7. manifest' = manifest /\ inst' = inst /\ cache' = cache
  BY DEF Cancel, Fail, InstallFailed, ResumeError, world
<1>8. marker' = marker \/ (pc[x] = "mark" /\ marker' = manifest[x])
  BY DEF Cancel, Fail, InstallFailed, ResumeError
<1> HIDE DEF to
<1>9. \A y \in Run \ {x} : SameControl(y)
  BY <1>4, <1>5, <1>6 DEF SameControl
<1> QED BY <1>1, <1>4, <1>5, <1>7, <1>8, <1>9 DEF to

(* The same of a step that ends with no exception.                         *)
LEMMA ExecuteAt ==
    ASSUME TypeOK, NEW x \in Run,
           \/ Begin(x) \/ Mkdir(x) \/ Prepare(x) \/ ReadMarker(x)
           \/ InstallTimeout(x) \/ Mark(x) \/ StreamEnd(x) \/ StreamBroken(x)
           \/ StreamTimeout(x) \/ Rmtree(x) \/ Resume(x)
    PROVE  /\ answer'[x] = None /\ left' = left
           /\ \A op \in Calls : <<x, op>> \in daemon'
                <=> <<x, op>> \in daemon \/ op = pc'[x]
           /\ \A y \in Run \ {x} : SameControl(y) /\ manifest'[y] = manifest[y]
           /\ inst' = inst /\ cache' = cache
           /\ \/ pc[x] = "idle" /\ pc'[x] = "mkdir" /\ outcome' = outcome
              \/ pc[x] # "idle" /\ manifest' = manifest
           /\ \/ marker' = marker
              \/ pc[x] = "mark" /\ marker' = manifest[x]
           /\ \/ pc[x] = "idle" /\ pc'[x] = "mkdir"
              \/ pc[x] = "mkdir" /\ pc'[x] = "prepare"
              \/ pc[x] = "prepare" /\ pc'[x] \in {"create", "marker"}
              \/ pc[x] = "marker" /\ pc'[x] = "create"
              \/ pc[x] = "marker" /\ pc'[x] = "icreate" /\ marker # manifest[x]
              \/ pc[x] = "icreate" /\ pc'[x] = "istart" /\ answer[x] # None
              \/ pc[x] = "istart" /\ pc'[x] = "iwait" /\ answer[x] # None
              \/ pc[x] = "iwait" /\ pc'[x] \in {"ikill", "ilogs"}
              \/ pc[x] = "iwait" /\ pc'[x] = "iremove" /\ answer[x] = "zero"
              \/ /\ pc[x] = "iremove" /\ answer[x] \notin {None, "error"}
                 /\ pc'[x] = "rmtree" \/ (pc'[x] = "mark" /\ outcome[x] = "none")
              \/ pc[x] = "mark" /\ pc'[x] = "create"
              \/ pc[x] \in {"create", "start", "stream", "kill", "wait", "cleanup"}
                   /\ pc'[x] \in {"start", "stream", "kill", "wait", "rmtree"}
              \/ pc[x] = "rmtree" /\ pc'[x] = "done"
           /\ outcome'[x] = outcome[x] \/ outcome'[x] # "none"
<1> USE DEF Calls, InstallCalls, ScriptCalls, Steps, Local
<1>1. PICK step \in Steps \cup {"done"} : Goto(x, step) /\
        \/ pc[x] = "idle" /\ step = "mkdir"
        \/ pc[x] = "mkdir" /\ step = "prepare"
        \/ pc[x] = "prepare" /\ step \in {"create", "marker"}
        \/ pc[x] = "marker" /\ step = "create"
        \/ pc[x] = "marker" /\ step = "icreate" /\ marker # manifest[x]
        \/ pc[x] = "icreate" /\ step = "istart" /\ answer[x] # None
        \/ pc[x] = "istart" /\ step = "iwait" /\ answer[x] # None
        \/ pc[x] = "iwait" /\ step \in {"ikill", "ilogs"}
        \/ pc[x] = "iwait" /\ step = "iremove" /\ answer[x] = "zero"
        \/ /\ pc[x] = "iremove" /\ answer[x] \notin {None, "error"}
           /\ step = "rmtree" \/ (step = "mark" /\ outcome[x] = "none")
        \/ pc[x] = "mark" /\ step = "create"
        \/ pc[x] \in {"create", "start", "stream", "kill", "wait", "cleanup"}
             /\ step \in {"start", "stream", "kill", "wait", "rmtree"}
        \/ pc[x] = "rmtree" /\ step = "done"
  <2>1. CASE Resume(x)
    BY <2>1 DEF Resume, After
  <2>2. CASE ~Resume(x)
    BY <2>2 DEF Begin, Mkdir, Prepare, ReadMarker, InstallTimeout, Mark, StreamEnd,
                StreamBroken, StreamTimeout, Rmtree
  <2> QED BY <2>1, <2>2
<1>2. /\ pc'[x] = step /\ answer'[x] = None
      /\ \A op \in Calls : <<x, op>> \in daemon' <=> <<x, op>> \in daemon \/ op = step
      /\ \A y \in Run \ {x} :
           /\ pc'[y] = pc[y] /\ answer'[y] = answer[y]
           /\ \A op \in Calls : <<y, op>> \in daemon' <=> <<y, op>> \in daemon
  BY <1>1, GotoAt
<1>3. /\ UNCHANGED <<left, world>>
      /\ \A y \in Run \ {x} : /\ outcome'[y] = outcome[y] /\ dir'[y] = dir[y]
                              /\ manifest'[y] = manifest[y]
                              /\ silent'[y] = silent[y]
  BY DEF Begin, Mkdir, Prepare, ReadMarker, InstallTimeout, Mark, StreamEnd,
         StreamBroken, StreamTimeout, Rmtree, Resume, TypeOK
<1>4. outcome'[x] = outcome[x] \/ outcome'[x] # "none"
  <2>1. CASE Resume(x)
    <3>1. outcome'[x] = ResultOf(x)
      BY <2>1 DEF Resume, TypeOK
    <3> QED BY <3>1 DEF ResultOf
  <2>2. CASE ~Resume(x)
    BY <2>2 DEF Begin, Mkdir, Prepare, ReadMarker, InstallTimeout, Mark, StreamEnd,
                StreamBroken, StreamTimeout, Rmtree
  <2> QED BY <2>1, <2>2
<1>5. \/ pc[x] = "idle" /\ outcome' = outcome
      \/ pc[x] # "idle" /\ manifest' = manifest
  BY DEF Begin, Mkdir, Prepare, ReadMarker, InstallTimeout, Mark, StreamEnd,
         StreamBroken, StreamTimeout, Rmtree, Resume
<1>6. marker' = marker \/ (pc[x] = "mark" /\ marker' = manifest[x])
  BY DEF Begin, Mkdir, Prepare, ReadMarker, InstallTimeout, Mark, StreamEnd,
         StreamBroken, StreamTimeout, Rmtree, Resume
<1>7. \A y \in Run \ {x} : SameControl(y)
  BY <1>2, <1>3 DEF SameControl
<1> QED BY <1>1, <1>2, <1>3, <1>4, <1>5, <1>6, <1>7 DEF world

(* Every step keeps what is said of the installer's calls.                 *)
LEMMA CallsStep ==
    ASSUME TypeOK, CallsInv, NEW x \in Run,
           \/ Begin(x) \/ Prepare(x) \/ Proceed(x) \/ Environment(x)
           \/ \E op \in Calls : Perform(x, op) \/ Break(x, op) \/ Refuse(x, op) \/ Drop(x, op)
    PROVE  CallsInv'
<1>0. CallInv(x)
  BY DEF CallsInv
<1> USE DEF Calls, InstallCalls, ScriptCalls
<1>1. CASE Cancel(x) \/ Fail(x) \/ InstallFailed(x) \/ ResumeError(x)
  <2>1. /\ pc[x] \in Steps /\ pc'[x] = Unwind(pc[x]) /\ answer'[x] = None
        /\ outcome'[x] # "none" /\ left'[x] = left[x] \cup {pc[x]}
        /\ \A op \in Calls : <<x, op>> \in daemon'
             <=> <<x, op>> \in daemon \/ op = pc'[x]
        /\ \A y \in Run \ {x} : SameControl(y)
        /\ inst' = inst
    BY <1>1, RaisingAt
  <2>2. /\ pc'[x] \in {"iremove", "cleanup", "rmtree", "done"}
        /\ pc'[x] = "iremove" <=> pc[x] \in {"istart", "iwait", "ikill", "ilogs"}
        /\ pc'[x] = "cleanup" <=> pc[x] \in {"start", "stream", "kill", "wait"}
        /\ pc'[x] = "done" <=> pc[x] \in {"mkdir", "rmtree"}
    BY <2>1, UnwindLeads
  <2>3. CallInv(x)'
    BY <1>0, <2>1, <2>2 DEF CallInv, Zombie, Steps, Local
  <2> QED BY <2>1, <2>3, CallUntouched DEF CallsInv
<1>2. CASE \/ Begin(x) \/ Mkdir(x) \/ Prepare(x) \/ ReadMarker(x)
           \/ InstallTimeout(x) \/ Mark(x) \/ StreamEnd(x) \/ StreamBroken(x)
           \/ StreamTimeout(x) \/ Rmtree(x) \/ Resume(x)
  <2>1. CallInv(x)'
    BY <1>0, <1>2, ExecuteAt DEF CallInv, Zombie
  <2>2. inst' = inst /\ \A y \in Run \ {x} : SameControl(y)
    BY <1>2, ExecuteAt
  <2> QED BY <2>1, <2>2, CallUntouched DEF CallsInv
<1>3. ASSUME NEW op \in Calls, Perform(x, op) \/ Break(x, op) \/ Refuse(x, op) \/ Drop(x, op)
      PROVE  CallsInv'
  <2>1. /\ <<x, op>> \in daemon
        /\ \A o \in Calls : <<x, o>> \in daemon' <=> <<x, o>> \in daemon /\ o # op
        /\ pc' = pc /\ outcome' = outcome /\ left' = left
        /\ \A y \in Run \ {x} : SameControl(y) /\ SameBoxes(y)
    BY <1>3, CallAt
  <2>2. /\ op # pc[x] => answer'[x] = answer[x]
        /\ op = pc[x] => \/ answer'[x] = "error"
                         \/ answer'[x] = AnswerTo(x, op)
    BY <1>3, CallAt
  <2>3. \/ inst'[x] = InstAfter(x, op)
        \/ inst'[x] = inst[x] /\ (answer'[x] \in {"error", answer[x]} \/ op \in KillCalls)
    BY <1>3, CallAt
  <2>4. CallInv(x)'
    BY <1>0, <2>1, <2>2, <2>3 DEF CallInv, Zombie, InstAfter, KillCalls
  <2> QED BY <2>1, <2>4, CallUntouched DEF CallsInv, SameBoxes
<1>4. CASE ScriptExit(x) \/ AutoRemove(x) \/ InstallExit(x)
  <2>1. /\ pc' = pc /\ outcome' = outcome /\ left' = left /\ dir' = dir
        /\ daemon' = daemon /\ answer' = answer /\ silent' = silent
    BY <1>4 DEF ScriptExit, AutoRemove, InstallExit, control
  <2>2. /\ \A y \in Run \ {x} : inst'[y] = inst[y]
        /\ \/ inst'[x] = inst[x]
           \/ inst[x] = "running" /\ inst'[x] \in {"zero", "nonzero"}
    BY <1>4 DEF ScriptExit, AutoRemove, InstallExit, TypeOK
  <2>3. CallInv(x)'
    BY <1>0, <2>1, <2>2 DEF CallInv, Zombie
  <2>4. \A y \in Run \ {x} : SameControl(y)
    BY <2>1 DEF SameControl
  <2> QED BY <2>2, <2>3, <2>4, CallUntouched DEF CallsInv
<1> QED BY <1>1, <1>2, <1>3, <1>4 DEF Proceed, Environment

(* A zombie stays one, so what is said of the cache outlives a step that   *)
(* leaves the cache alone.                                                 *)
LEMMA CacheKept ==
    ASSUME TypeOK, cache' = cache, \A z \in Run : Zombie(z) => Zombie(z)',
           NEW y \in Run
    PROVE  (Mine(y) => Mine(y)') /\ (Good(y) => Good(y)')
BY DEF Mine, Good, TypeOK

(* A step of execute(), with an exception or without: the one execution in *)
(* flight takes it.                                                        *)
LEMMA ControlMarker ==
    ASSUME TypeOK, CallsInv, OneAtATime, MarkerInv, NEW x \in Run,
           \/ Cancel(x) \/ Fail(x) \/ InstallFailed(x) \/ ResumeError(x)
           \/ Begin(x) \/ Mkdir(x) \/ Prepare(x) \/ ReadMarker(x)
           \/ InstallTimeout(x) \/ Mark(x) \/ StreamEnd(x) \/ StreamBroken(x)
           \/ StreamTimeout(x) \/ Rmtree(x) \/ Resume(x)
    PROVE  MarkerInv'
<1> DEFINE Raising == Cancel(x) \/ Fail(x) \/ InstallFailed(x) \/ ResumeError(x)
<1>1. /\ cache' = cache /\ inst' = inst
      /\ \A y \in Run \ {x} : SameControl(y) /\ manifest'[y] = manifest[y]
      /\ left[x] \subseteq left'[x] /\ answer'[x] = None
      /\ pc'[x] # "idle"
      /\ \/ pc[x] = "idle" /\ pc'[x] = "mkdir" /\ marker' = marker
         \/ pc[x] # "idle" /\ manifest' = manifest
      /\ marker' = marker \/ (pc[x] = "mark" /\ marker' = manifest[x])
  <2>1. CASE Raising
    <3>1. pc[x] \in Steps /\ pc'[x] = Unwind(pc[x]) /\ pc[x] # "idle"
      BY <2>1, RaisingAt DEF Steps, Calls, Local, InstallCalls, ScriptCalls
    <3> QED BY <2>1, <3>1, RaisingAt, UnwindLeads
  <2>2. CASE ~Raising
    BY <2>2, ExecuteAt
  <2> QED BY <2>1, <2>2
<1>2. InFlight \subseteq {x}
  <2>1. CASE Begin(x)
    BY <2>1 DEF Begin
  <2>2. CASE ~Begin(x)
    BY <2>2 DEF MarkerInv, OneInFlight, InFlight, Cancel, Fail, InstallFailed, ResumeError,
       Mkdir, Prepare, ReadMarker, InstallTimeout, Mark, StreamEnd, StreamBroken,
       StreamTimeout, Rmtree, Resume, Steps, Calls, Local, InstallCalls, ScriptCalls
  <2> QED BY <2>1, <2>2
<1>3. \A z \in Run : Zombie(z) => Zombie(z)'
  BY <1>1 DEF Zombie, SameControl
<1>4. ASSUME NEW y \in Run \ {x} PROVE pc[y] \notin Steps /\ CacheInv(y)'
  <2>1. pc[y] \notin Steps /\ pc'[y] = pc[y] /\ inst'[y] = inst[y] /\ left'[y] = left[y]
    BY <1>1, <1>2 DEF InFlight, SameControl
  <2>2. CacheInv(y) /\ (Mine(y) => Mine(y)') /\ (Good(y) => Good(y)')
    BY <1>1, <1>3, CacheKept DEF MarkerInv
  <2> QED BY <2>1, <2>2 DEF CacheInv, Zombie, Installing, Steps, Calls, Local, InstallCalls
<1>5. OneInFlight'
  BY <1>1, <1>4 DEF OneInFlight, InFlight, SameControl
<1>6. CacheInv(x)'
  <2>1. CacheInv(x) /\ CallInv(x) /\ (Mine(x) => Mine(x)') /\ (Good(x) => Good(x)')
    BY <1>1, <1>3, CacheKept DEF MarkerInv, CallsInv
  <2>2. inst'[x] = inst[x] /\ (Zombie(x) => Zombie(x)')
    BY <1>1, <1>3
  <2>3. CASE Raising
    <3>1. /\ pc[x] \in Steps /\ outcome'[x] # "none"
          /\ pc'[x] \in {"iremove", "cleanup", "rmtree", "done"}
          /\ pc'[x] = "iremove" <=> pc[x] \in {"istart", "iwait", "ikill", "ilogs"}
      BY <2>3, RaisingAt, UnwindLeads
    <3>2. manifest' = manifest
      BY <2>3, RaisingAt
    <3> QED BY <1>1, <2>1, <2>2, <3>1, <3>2 DEF CacheInv, Installing
  <2>4. CASE ~Raising
    <3>1. outcome'[x] = outcome[x] \/ outcome'[x] # "none"
      BY <2>4, ExecuteAt
    <3>2. /\ pc'[x] = "icreate" => pc[x] = "marker" /\ marker # manifest[x]
          /\ pc'[x] = "istart" => pc[x] = "icreate"
          /\ pc'[x] = "iwait" => pc[x] = "istart"
          /\ pc'[x] \in {"ikill", "ilogs"} => pc[x] = "iwait"
          /\ pc'[x] = "iremove" => pc[x] = "iwait" /\ answer[x] = "zero"
          /\ pc'[x] = "mark" => pc[x] = "iremove" /\ outcome[x] = "none"
      BY <2>4, ExecuteAt
    <3> QED BY <1>1, <2>1, <2>2, <3>1, <3>2 DEF CacheInv, Installing
  <2> QED BY <2>3, <2>4
<1>7. cache'.by # None => pc'[cache'.by] # "idle"
  BY <1>1 DEF MarkerInv, TypeOK, SameControl
<1>8. MarkerHonest'
  <2> SUFFICES ASSUME NEW z \in Run, z = cache.by, marker' # None,
                      marker' = manifest'[z], ~cache.whole, "iremove" \notin left'[z]
               PROVE  FALSE
    BY <1>1 DEF MarkerHonest, TypeOK
  <2>1. ~Zombie(z) /\ pc[z] # "idle"
    BY <1>3 DEF Zombie, MarkerInv
  <2>2. manifest'[z] = manifest[z]
    BY <1>1, <2>1
  <2>3. CASE marker' = marker
    BY <2>1, <2>2, <2>3 DEF MarkerInv, MarkerHonest, Zombie
  <2>4. CASE pc[x] = "mark"
    BY <2>1, <2>4 DEF MarkerInv, CacheInv, Good, Mine
  <2> QED BY <1>1, <2>3, <2>4
<1> QED BY <1>4, <1>5, <1>6, <1>7, <1>8 DEF MarkerInv

(* Whoever starts an install that wipes the cache is a zombie, or the      *)
(* execution in flight, which found the marker of another manifest.        *)
LEMMA WiperAt ==
    ASSUME CallsInv, MarkerInv, NEW x \in Run,
           <<x, "istart">> \in daemon, inst[x] = "created"
    PROVE  /\ pc[x] # "idle"
           /\ \/ Zombie(x)
              \/ /\ pc[x] \in {"istart", "iremove"} /\ marker # manifest[x]
                 /\ pc[x] = "iremove" => outcome[x] # "none"
<1>1. CallInv(x) /\ CacheInv(x)
  BY DEF CallsInv, MarkerInv
<1> QED BY <1>1 DEF CallInv, CacheInv, Installing

(* An installer that runs or has ended with 0 is that of a zombie or of an *)
(* execution in flight.                                                    *)
LEMMA InstallerInFlight ==
    ASSUME Inv, CallsInv, NEW y \in Run, inst[y] \in {"running", "zero"}, ~Zombie(y)
    PROVE  pc[y] \in Steps
<1>1. InstInv(y) /\ CallInv(y)
  BY DEF Inv, InvAt, CallsInv
<1> QED BY <1>1 DEF InstInv, CallInv, Zombie, Steps, Calls, InstallCalls, Local

(* A call carried out, broken or dropped.                                  *)
LEMMA DaemonMarker ==
    ASSUME TypeOK, Inv, CallsInv, OneAtATime, MarkerInv, NEW x \in Run, NEW op \in Calls,
           Perform(x, op) \/ Break(x, op) \/ Refuse(x, op) \/ Drop(x, op)
    PROVE  MarkerInv'
<1>1. /\ <<x, op>> \in daemon
      /\ pc' = pc /\ outcome' = outcome /\ left' = left
      /\ \A y \in Run \ {x} : SameControl(y) /\ SameBoxes(y)
  BY CallAt
<1>2. manifest' = manifest /\ marker' = marker
  BY DEF Perform, Break, Refuse, Drop, control
<1>3. OneInFlight'
  BY <1>1 DEF MarkerInv, OneInFlight, InFlight
<1>4. \/ /\ op = "istart" /\ inst[x] = "created"
         /\ inst'[x] = "running" /\ cache' = [by |-> x, whole |-> FALSE]
      \/ cache' = cache /\ inst'[x] \in {inst[x], "created", "nonzero", "gone"}
  BY DEF Perform, Break, Refuse, Drop, Effect, world, Starts, InstAfter, TypeOK
<1>5. op = pc[x] => answer'[x] = "error" \/ answer'[x] = AnswerTo(x, op)
  BY CallAt
<1>6. op # pc[x] => answer'[x] = answer[x]
  BY CallAt
<1>7. ASSUME cache' = cache, inst'[x] \in {inst[x], "created", "nonzero", "gone"}
      PROVE  MarkerInv'
  <2>1. \A z \in Run : Zombie(z) => Zombie(z)'
    BY <1>1 DEF Zombie
  <2>2. ASSUME NEW y \in Run PROVE CacheInv(y)'
    <3>1. CacheInv(y) /\ (Mine(y) => Mine(y)') /\ (Good(y) => Good(y)')
      BY <1>7, <2>1, CacheKept DEF MarkerInv
    <3>2. inst'[y] \in {inst[y], "created", "nonzero", "gone"}
      BY <1>1, <1>7 DEF SameBoxes
    <3>3. pc[y] = "iwait" /\ answer'[y] = "zero" => Good(y)
      <4>1. CASE y # x \/ op # pc[x]
        BY <1>1, <1>6, <3>1, <4>1 DEF CacheInv, SameControl
      <4>2. CASE y = x /\ op = pc[x]
        BY <1>5, <3>1, <4>2 DEF CacheInv, AnswerTo, CallsInv, CallInv
      <4> QED BY <4>1, <4>2
    <3> QED BY <1>1, <1>2, <3>1, <3>2, <3>3 DEF CacheInv, Zombie
  <2>3. MarkerHonest' /\ (cache'.by # None => pc'[cache'.by] # "idle")
    BY <1>1, <1>2, <1>7 DEF MarkerInv, MarkerHonest
  <2> QED BY <1>3, <2>2, <2>3 DEF MarkerInv
<1>8. ASSUME op = "istart", inst[x] = "created", inst'[x] = "running",
             cache' = [by |-> x, whole |-> FALSE]
      PROVE  MarkerInv'
  <2>1. /\ pc[x] # "idle"
        /\ \/ Zombie(x)
           \/ /\ pc[x] \in {"istart", "iremove"} /\ marker # manifest[x]
              /\ pc[x] = "iremove" => outcome[x] # "none"
    BY <1>1, <1>8, WiperAt
  <2>2. Mine(x)' /\ \A y \in Run : Zombie(x) => Mine(y)' /\ Good(y)'
    BY <1>1, <1>8 DEF Mine, Good, Zombie
  <2>3. ASSUME NEW y \in Run PROVE CacheInv(y)'
    <3>1. CacheInv(y) /\ CallInv(y)
      BY DEF MarkerInv, CallsInv
    <3>2. CASE Zombie(x)
      BY <1>1, <1>2, <2>2, <3>1, <3>2 DEF CacheInv
    <3>3. CASE ~Zombie(x) /\ y = x
      BY <1>1, <1>2, <1>8, <2>1, <2>2, <3>1, <3>3 DEF CacheInv
    <3>4. CASE ~Zombie(x) /\ y # x
      <4>1. pc[x] \in Steps
        BY <2>1, <3>4 DEF Steps, Calls, InstallCalls
      <4>2. pc[y] \notin Steps
        BY <3>4, <4>1 DEF MarkerInv, OneInFlight, InFlight
      <4>3. inst'[y] = inst[y] /\ pc'[y] = pc[y] /\ left'[y] = left[y]
        BY <1>1, <3>4 DEF SameBoxes
      <4>4. ~Zombie(y) => inst[y] \notin {"running", "zero"}
        BY <4>2, InstallerInFlight
      <4> QED BY <4>2, <4>3, <4>4 DEF CacheInv, Zombie, Installing, Steps, Calls,
          InstallCalls, Local
    <3> QED BY <3>2, <3>3, <3>4
  <2>4. MarkerHonest' /\ (cache'.by # None => pc'[cache'.by] # "idle")
    BY <1>1, <1>2, <1>8, <2>1 DEF MarkerHonest, Zombie
  <2> QED BY <1>3, <2>3, <2>4 DEF MarkerInv
<1> QED BY <1>4, <1>7, <1>8

(* The ends of the script and of the installer.                            *)
LEMMA ContainerMarker ==
    ASSUME TypeOK, OneAtATime, MarkerInv, NEW x \in Run,
           ScriptExit(x) \/ AutoRemove(x) \/ InstallExit(x)
    PROVE  MarkerInv'
<1>1. /\ pc' = pc /\ outcome' = outcome /\ left' = left /\ answer' = answer
      /\ manifest' = manifest /\ marker' = marker
  BY DEF ScriptExit, AutoRemove, InstallExit, control
<1>2. /\ cache'.by = cache.by /\ (cache.whole => cache'.whole)
      /\ \A y \in Run : \/ inst'[y] = inst[y]
                        \/ y = x /\ inst[x] = "running" /\ inst'[x] = "nonzero"
                        \/ /\ y = x /\ inst[x] = "running" /\ inst'[x] = "zero"
                           /\ cache.by = x => cache'.whole
  BY DEF ScriptExit, AutoRemove, InstallExit, TypeOK
<1>3. ASSUME NEW y \in Run PROVE CacheInv(y)'
  <2>1. CacheInv(y)
    BY DEF MarkerInv
  <2>2. (Mine(y) => Mine(y)') /\ (Good(y) => Good(y)')
    BY <1>1, <1>2 DEF Mine, Good, Zombie
  <2>3. inst'[y] # inst[y] => Mine(y) \/ Zombie(y)
    BY <1>2, <2>1 DEF CacheInv
  <2>4. inst'[y] # inst[y] /\ inst'[y] = "zero" => Good(y)' \/ Zombie(y)
    BY <1>1, <1>2, <2>3 DEF Mine, Good, Zombie
  <2> QED BY <1>1, <1>2, <2>1, <2>2, <2>4 DEF CacheInv, Zombie
<1>4. OneInFlight'
  BY <1>1 DEF MarkerInv, OneInFlight, InFlight
<1>5. MarkerHonest' /\ (cache'.by # None => pc'[cache'.by] # "idle")
  BY <1>1, <1>2 DEF MarkerInv, MarkerHonest
<1> QED BY <1>3, <1>4, <1>5 DEF MarkerInv

LEMMA NextMarker ==
    TypeOK /\ Inv /\ HonestInv /\ [Next]_vars => HonestInv'
<1> SUFFICES ASSUME TypeOK, Inv, CallsInv, OneAtATime => MarkerInv, [Next]_vars
             PROVE  CallsInv' /\ (OneAtATime => MarkerInv')
  BY DEF HonestInv
<1>1. CASE Next
  <2>1. PICK x \in Run :
          \/ Begin(x) \/ Prepare(x) \/ Proceed(x) \/ Environment(x)
          \/ \E op \in Calls : Perform(x, op) \/ Break(x, op) \/ Refuse(x, op) \/ Drop(x, op)
    BY <1>1 DEF Next
  <2>2. CallsInv'
    BY <2>1, CallsStep
  <2>3. OneAtATime => MarkerInv'
    BY <2>1, ControlMarker, DaemonMarker, ContainerMarker DEF Proceed, Environment
  <2> QED BY <2>2, <2>3
<1>2. CASE UNCHANGED vars
  <2>1. \A y \in Run : SameControl(y) /\ inst'[y] = inst[y]
    BY <1>2 DEF vars, control, world, SameControl
  <2>2. CallsInv'
    BY <2>1, CallUntouched DEF CallsInv
  <2>3. MarkerInv => MarkerInv'
    BY <1>2 DEF vars, control, world, MarkerInv, OneInFlight, InFlight, CacheInv, Mine,
       Good, Zombie, MarkerHonest
  <2> QED BY <2>2, <2>3
<1> QED BY <1>1, <1>2

(* Where executions of the runner do not overlap, a cache wiped for the    *)
(* manifest the marker names is whole, whatever failed, was cancelled or   *)
(* was left to the daemon meanwhile.                                       *)
THEOREM MarkerHonestHolds == Spec => []MarkerHonest
<1>1. Init => HonestInv
  BY DEF HonestInv, Init, CallsInv, CallInv, MarkerInv, OneInFlight, InFlight, CacheInv, Zombie,
     Installing, MarkerHonest, Steps, Calls, Local, InstallCalls, ScriptCalls
<1>2. HonestInv => MarkerHonest
  BY DEF HonestInv, MarkerInv, MarkerHonest
<1> QED BY <1>1, <1>2, NextMarker, InvHolds, TypeCorrect, PTL DEF Spec
=============================================================================
