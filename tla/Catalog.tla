------------------------------ MODULE Catalog ------------------------------
(***************************************************************************)
(* Projects and their runners as records with names: ProjectService and    *)
(* the create, update and delete of RunnerService (services/               *)
(* project_service.py, services/runner_service.py), which are alike. What  *)
(* the schedule makes of a runner is in Scheduler.                         *)
(*                                                                         *)
(* A handler reads, checks the name, reads again in save() and writes; a   *)
(* step ends where it awaits, and no read takes a snapshot. The database   *)
(* keeps the names of projects unique, those of runners the check alone.   *)
(***************************************************************************)
EXTENDS Orm, Naturals, FiniteSetsExt

CONSTANTS
    Name,      \* names of projects and runners
    Text,      \* what their other columns say
    MaxItems,  \* bound: the highest id of a project or a runner
    MaxEdits   \* bound: requests in all

Kind == {"project", "runner"}
ItemId == 1..MaxItems
Field == {"name", "text"}

(* project: whose runner it is. raced: history, whether a write that made  *)
(* the row as it is was based on what had changed in between.              *)
Record == [project : ItemId \cup {None}, name : Name, text : Text, raced : BOOLEAN]

(* An update, or (without id) a create. entity: the row to be, as changed; *)
(* asked: the fields given; base: the row save() has read again; late: what*)
(* others have written since it was read, the row or the names.            *)
Edit == [kind : Kind, id : ItemId \cup {None}, asked : SUBSET Field,
         step : {"check", "save", "commit"}, entity : Record,
         base : Record \cup {None}, late : SUBSET {"row", "names"}]

(* Assumed of the constants, by the modules that give them values. *)
CatalogAssumption == MaxItems \in Nat /\ MaxEdits \in Nat
                    /\ None \notin ItemId \cup Record \cup Edit

VARIABLES
    items,  \* committed rows of each kind
    edit,   \* the edit each request is in
    edits   \* how many requests there have been

catalogVars == <<items, edit, edits>>

-----------------------------------------------------------------------------

CatalogTypeOK ==
    /\ items \in [Kind -> [ItemId -> Record \cup {None}]]
    /\ edit \in [Request -> Edit \cup {None}]
    /\ edits \in 0..MaxEdits

CatalogInit ==
    /\ items = [k \in Kind |-> [i \in ItemId |-> None]]
    /\ edit = [q \in Request |-> None]
    /\ edits = 0

Present(k) == {i \in ItemId : items[k][i] # None}
NextId(k) == 1 + Max(Present(k) \cup {0})

(* The rows among which a name must be free. *)
Siblings(k, project) == {i \in Present(k) : items[k][i].project = project}

Taken(k, project, name) ==
    \E i \in Siblings(k, project) : items[k][i].name = name

Arrives(q) == edit[q] = None /\ edits < MaxEdits /\ edits' = edits + 1

EditAt(q, step) == edit[q] # None /\ edit[q].step = step

(* What a create or an update of this row must still look up. *)
Begin(q, k, i, asked, row, step) ==
    /\ edit' = [edit EXCEPT ![q] =
                  [kind |-> k, id |-> i, asked |-> asked, step |-> step,
                   entity |-> row, base |-> None, late |-> {}]]
    /\ items' = items

Leave(q) == edit' = [edit EXCEPT ![q] = None] /\ items' = items

-----------------------------------------------------------------------------
(* Create and update *)

(* create(): the project of a runner has been found. *)
Create(q, k) ==
    /\ Arrives(q)
    /\ \E name \in Name, text \in Text,
          project \in IF k = "runner" THEN Present("project") ELSE {None} :
         Begin(q, k, None, Field,
               [project |-> project, name |-> name, text |-> text, raced |-> FALSE],
               "check")

(* update() has read the row; fields not given keep what was read. A name  *)
(* given that is another has to be free.                                   *)
Update(q, k) ==
    /\ Arrives(q)
    /\ \E i \in Present(k), name \in Name \cup {None}, text \in Text \cup {None} :
         LET row == items[k][i]
             updated == [row EXCEPT !.name = IF name = None THEN @ ELSE name,
                                    !.text = IF text = None THEN @ ELSE text] IN
           Begin(q, k, i, {f \in Field : (IF f = "name" THEN name ELSE text) # None},
                 updated, IF updated.name # row.name THEN "check" ELSE "save")

(* _ensure_name_available() *)
CheckName(q) ==
    /\ EditAt(q, "check")
    /\ LET e == edit[q] IN
         IF Taken(e.kind, e.entity.project, e.entity.name) THEN Leave(q)
         ELSE /\ edit' = [edit EXCEPT ![q].step = IF e.id = None THEN "commit" ELSE "save",
                                      ![q].late = @ \ {"names"}]
              /\ items' = items

(* save() reads the row again, and raises if it is gone. *)
Reread(q) ==
    /\ EditAt(q, "save")
    /\ LET e == edit[q] IN
         IF items[e.kind][e.id] = None THEN Leave(q)
         ELSE /\ edit' = [edit EXCEPT ![q].step = "commit",
                                      ![q].base = items[e.kind][e.id]]
              /\ items' = items

(* q is done; the others that rest on this row or its siblings are late.   *)
Outdate(q, gone) ==
    edit' = [r \in Request |->
        IF r = q THEN None
        ELSE IF edit[r] = None THEN None
        ELSE [edit[r] EXCEPT !.late = @
                \cup {w \in {"row"} : \E x \in gone :
                        x.kind = edit[r].kind /\ x.id = edit[r].id}
                \cup {w \in {"names"} : \E x \in gone :
                        x.kind = edit[r].kind /\ x.project = edit[r].entity.project}]]

Written(e, current) ==
    [project |-> Column(current.project, e.base.project, e.entity.project),
     name |-> Column(current.name, e.base.name, e.entity.name),
     text |-> Column(current.text, e.base.text, e.entity.text),
     raced |-> current.raced \/ e.late # {}]

(* The foreign key of a runner. *)
HasProject(k, row) == k = "runner" => row.project \in Present("project")

(* Mutant: the column of the name has no unique index. *)
Unique_none(k, i, row) == TRUE

(* The unique index on the names of projects. *)
Unique(k, i, row) ==
    k = "project" => \A j \in Present(k) \ {i} : items[k][j].name # row.name

Put(q, k, i, row) ==
    IF HasProject(k, row) /\ Unique(k, i, row)
    THEN /\ items' = [items EXCEPT ![k][i] = row]
         /\ Outdate(q, {[kind |-> k, id |-> i, project |-> row.project]})
    ELSE Leave(q)

CommitCreate(q) ==
    /\ EditAt(q, "commit") /\ edit[q].id = None
    /\ LET e == edit[q] IN
         /\ NextId(e.kind) \in ItemId
         /\ Put(q, e.kind, NextId(e.kind), [e.entity EXCEPT !.raced = e.late # {}])

(* An UPDATE that meets no row raises. *)
CommitUpdate(q) ==
    /\ EditAt(q, "commit") /\ edit[q].id # None
    /\ LET e == edit[q] IN
         IF items[e.kind][e.id] = None THEN Leave(q)
         ELSE Put(q, e.kind, e.id, Written(e, items[e.kind][e.id]))

(* delete() by a request that does nothing else; runners go with theirs.   *)
Delete(q, k, i) ==
    /\ Arrives(q) /\ i \in Present(k)
    /\ LET gone == {x \in [kind : Kind, id : ItemId, project : ItemId \cup {None}] :
                      /\ x.id \in Present(x.kind)
                      /\ x.project = items[x.kind][x.id].project
                      /\ \/ x.kind = k /\ x.id = i
                         \/ k = "project" /\ x.project = i} IN
         /\ items' = [m \in Kind |-> [j \in ItemId |->
                        IF \E x \in gone : x.kind = m /\ x.id = j THEN None
                        ELSE items[m][j]]]
         /\ Outdate(q, gone)

CatalogNext ==
    \E q \in Request :
        \/ \E k \in Kind : Create(q, k) \/ Update(q, k)
        \/ edits' = edits /\ (CheckName(q) \/ Reread(q))
        \/ edits' = edits /\ (CommitCreate(q) \/ CommitUpdate(q))
        \/ \E k \in Kind, i \in ItemId : Delete(q, k, i)

CatalogSpec == CatalogInit /\ [][CatalogNext]_catalogVars

-----------------------------------------------------------------------------

(* Two projects never have one name; two runners of a project have one     *)
(* only if one of them was written on the strength of a read that had been *)
(* overtaken (_ensure_name_available, models/project.py).                  *)
NamesDistinct ==
    \A k \in Kind : \A i, j \in Present(k) :
        /\ i # j /\ items[k][i].project = items[k][j].project
        /\ items[k][i].name = items[k][j].name
        => k = "runner" /\ (items[k][i].raced \/ items[k][j].raced)

(* Every runner has its project, whatever deletes come between the check   *)
(* and the commit of its creation (models/runner.py).                      *)
RunnersHaveProjects ==
    \A i \in Present("runner") : HasProject("runner", items["runner"][i])

(* An update changes a field that it was not given only when the row was   *)
(* written between its read and its commit (docstring of update(): `None`  *)
(* fields are left unchanged).                                             *)
OmittedKept ==
    \A q \in Request : EditAt(q, "commit") /\ edit[q].id # None /\ items' # items
                         /\ edit'[q] = None =>
        LET current == items[edit[q].kind][edit[q].id]
            new == items'[edit[q].kind][edit[q].id] IN
          \/ "row" \in edit[q].late
          \/ /\ "name" \notin edit[q].asked => new.name = current.name
             /\ "text" \notin edit[q].asked => new.text = current.text

(* Records keep their names apart, their projects and the fields nobody    *)
(* meant to change.                                                        *)
CatalogFaithful ==
    /\ [](NamesDistinct /\ RunnersHaveProjects)
    /\ [][OmittedKept]_catalogVars
=============================================================================
