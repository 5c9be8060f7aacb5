---------------------------- MODULE RunnerProofs ----------------------------
(***************************************************************************)
(* Theorems about what a runner is, its name, project and fields           *)
(* (Catalog), and about the days it fires (CronDays), for any number of    *)
(* projects, runners, names and requests, and for every day-of-week field. *)
(***************************************************************************)
EXTENDS Catalog, CronDays, TLAPS

(* A runner is of a project, a project of none. *)
ProjectOf(k) == IF k = "runner" THEN ItemId ELSE {None}

RowsInv == \A k \in Kind : \A i \in Present(k) : items[k][i].project \in ProjectOf(k)

(* What an edit holds at each step. *)
FormInv(e) ==
    /\ e.entity.project \in ProjectOf(e.kind)
    /\ e.step = "save" => e.id # None
    /\ e.step = "commit" /\ e.id # None =>
         e.base # None /\ e.base.project \in ProjectOf(e.kind)

(* While nobody else has written the row, it is as update() read it, and   *)
(* as save() read it again; what was not given is what was read.           *)
FreshInv(e, table) ==
    e.id # None /\ "row" \notin e.late =>
        LET current == table[e.kind][e.id] IN
          /\ current # None /\ current.project = e.entity.project
          /\ e.step = "commit" => e.base = current
          /\ "name" \notin e.asked => e.entity.name = current.name
          /\ "text" \notin e.asked => e.entity.text = current.text

(* Two runners of a project have one name only if one was written late.    *)
Clash(project, name, i, table) ==
    \E j \in ItemId \ {i} :
        LET other == table["runner"][j] IN
          /\ other # None
          /\ other.project = project /\ other.name = name /\ ~other.raced

(* Past the check, and while nobody has written the row or its siblings,   *)
(* the name is free, or was not when the row itself was written.           *)
NameInv(e, table) ==
    e.kind = "runner" /\ e.step \in {"save", "commit"} /\ e.late = {} =>
        \/ ~Clash(e.entity.project, e.entity.name, e.id, table)
        \/ e.id # None /\ table["runner"][e.id].raced

EditInv(e, table) == FormInv(e) /\ FreshInv(e, table) /\ NameInv(e, table)

CatalogInv ==
    /\ CatalogTypeOK /\ RowsInv
    /\ \A q \in Request : edit[q] # None => EditInv(edit[q], items)
    /\ NamesDistinct /\ RunnersHaveProjects

LEMMA CatalogInitInv == CatalogAssumption /\ CatalogInit => CatalogInv
  BY DEF CatalogAssumption, CatalogInit, CatalogInv, CatalogTypeOK, RowsInv, NamesDistinct,
         RunnersHaveProjects, Present, Kind

-----------------------------------------------------------------------------
(* Edits that are not written yet *)

LEMMA CreateInv ==
    ASSUME CatalogAssumption, CatalogInv, NEW q \in Request, NEW k \in Kind, Create(q, k)
    PROVE  CatalogInv'
<1>1. PICK name \in Name, text \in Text,
           project \in IF k = "runner" THEN Present("project") ELSE {None} :
        Begin(q, k, None, Field,
              [project |-> project, name |-> name, text |-> text, raced |-> FALSE],
              "check")
  BY DEF Create
<1> DEFINE row == [project |-> project, name |-> name, text |-> text, raced |-> FALSE]
           e == [kind |-> k, id |-> None, asked |-> Field, step |-> "check",
                 entity |-> row, base |-> None, late |-> {}]
<1>2. edit' = [edit EXCEPT ![q] = e] /\ items' = items /\ edits' = edits + 1
  BY <1>1 DEF Begin, Create, Arrives
<1>3. project \in ProjectOf(k) /\ project \in ItemId \cup {None}
  BY DEF ProjectOf, Present
<1>4. row \in Record /\ e \in Edit
  BY <1>3 DEF Record, Edit
<1>5. CatalogTypeOK'
  BY <1>2, <1>4 DEF CatalogInv, CatalogTypeOK, Create, Arrives, CatalogAssumption
<1>6. EditInv(e, items)
  BY <1>3 DEF EditInv, FormInv, FreshInv, NameInv
<1>7. \A r \in Request : edit'[r] = IF r = q THEN e ELSE edit[r]
  BY <1>2 DEF CatalogInv, CatalogTypeOK
<1> HIDE DEF e
<1>8. \A r \in Request : edit'[r] # None => EditInv(edit'[r], items')
  BY <1>2, <1>6, <1>7 DEF CatalogInv, EditInv, FormInv, FreshInv, NameInv, Clash, Present
<1> QED BY <1>2, <1>5, <1>8 DEF CatalogInv, RowsInv, NamesDistinct, RunnersHaveProjects,
           HasProject, Present

LEMMA UpdateInv ==
    ASSUME CatalogAssumption, CatalogInv, NEW q \in Request, NEW k \in Kind, Update(q, k)
    PROVE  CatalogInv'
<1>1. PICK i \in Present(k), name \in Name \cup {None}, text \in Text \cup {None} :
         LET row == items[k][i]
             updated == [row EXCEPT !.name = IF name = None THEN @ ELSE name,
                                    !.text = IF text = None THEN @ ELSE text] IN
           Begin(q, k, i, {f \in Field : (IF f = "name" THEN name ELSE text) # None},
                 updated, IF updated.name # row.name THEN "check" ELSE "save")
  BY DEF Update
<1> DEFINE row == items[k][i]
           updated == [row EXCEPT !.name = IF name = None THEN @ ELSE name,
                                  !.text = IF text = None THEN @ ELSE text]
           asked == {f \in Field : (IF f = "name" THEN name ELSE text) # None}
           e == [kind |-> k, id |-> i, asked |-> asked,
                 step |-> IF updated.name # row.name THEN "check" ELSE "save",
                 entity |-> updated, base |-> None, late |-> {}]
<1>2. edit' = [edit EXCEPT ![q] = e] /\ items' = items /\ edits' = edits + 1
  BY <1>1 DEF Begin, Update, Arrives
<1>3. i \in ItemId /\ row \in Record /\ i # None /\ row # None
  BY DEF Present, CatalogInv, CatalogTypeOK, CatalogAssumption
<1>4. /\ updated \in Record /\ updated.project = row.project
      /\ updated.name = IF name = None THEN row.name ELSE name
      /\ updated.text = IF text = None THEN row.text ELSE text
  BY <1>3 DEF Record
<1> HIDE DEF updated
<1>5. e \in Edit
  BY <1>3, <1>4 DEF Edit
<1>6. CatalogTypeOK'
  BY <1>2, <1>5 DEF CatalogInv, CatalogTypeOK, Update, Arrives, CatalogAssumption
<1>7. FormInv(e) /\ FreshInv(e, items)
  <2>1. row.project \in ProjectOf(k)
    BY DEF CatalogInv, RowsInv
  <2>2. "name" \notin asked => name = None
    BY DEF Field
  <2>3. "text" \notin asked => text = None
    BY DEF Field
  <2> QED BY <1>2, <1>3, <1>4, <2>1, <2>2, <2>3 DEF FormInv, FreshInv, ProjectOf
<1>8. NameInv(e, items)
  <2> SUFFICES ASSUME k = "runner", updated.name = row.name
               PROVE  ~Clash(row.project, row.name, i, items) \/ row.raced
    BY <1>2, <1>3, <1>4 DEF NameInv, Clash, Present
  <2> SUFFICES ASSUME NEW j \in Present("runner") \ {i},
                      items["runner"][j].project = row.project,
                      items["runner"][j].name = row.name
               PROVE  items["runner"][j].raced \/ row.raced
    BY DEF Clash, Present
  <2>1. i \in Present("runner") /\ row = items["runner"][i] /\ "runner" \in Kind
    BY DEF Kind
  <2> HIDE DEF row
  <2> QED BY <2>1 DEF CatalogInv, NamesDistinct
<1>9. \A r \in Request : edit'[r] = IF r = q THEN e ELSE edit[r]
  BY <1>2 DEF CatalogInv, CatalogTypeOK
<1> HIDE DEF e
<1>10. \A r \in Request : edit'[r] # None => EditInv(edit'[r], items')
  BY <1>2, <1>7, <1>8, <1>9 DEF CatalogInv, EditInv, FormInv, FreshInv, NameInv, Clash, Present
<1> QED BY <1>2, <1>6, <1>10 DEF CatalogInv, RowsInv, NamesDistinct, RunnersHaveProjects,
           HasProject, Present

(* An edit that moves on, or is given up, and leaves the rows alone.       *)
LEMMA EditMoves ==
    ASSUME CatalogAssumption, CatalogInv, NEW q \in Request, NEW e \in Edit \cup {None},
           edit' = [edit EXCEPT ![q] = e], UNCHANGED <<items, edits>>,
           e # None => EditInv(e, items)
    PROVE  CatalogInv'
<1>1. CatalogTypeOK'
  BY DEF CatalogInv, CatalogTypeOK
<1>2. \A r \in Request : edit'[r] = IF r = q THEN e ELSE edit[r]
  BY DEF CatalogInv, CatalogTypeOK
<1>3. \A r \in Request : edit'[r] # None => EditInv(edit'[r], items')
  BY <1>2 DEF CatalogInv, EditInv, FormInv, FreshInv, NameInv, Clash, Present
<1> QED BY <1>1, <1>3 DEF CatalogInv, RowsInv, NamesDistinct, RunnersHaveProjects,
           HasProject, Present

LEMMA LeaveInv ==
    ASSUME CatalogAssumption, CatalogInv, NEW q \in Request, Leave(q), UNCHANGED edits
    PROVE  CatalogInv'
BY EditMoves DEF Leave

LEMMA CheckNameInv ==
    ASSUME CatalogAssumption, CatalogInv, NEW q \in Request, CheckName(q), UNCHANGED edits
    PROVE  CatalogInv'
<1> DEFINE e == edit[q]
           free == [e EXCEPT !.step = IF e.id = None THEN "commit" ELSE "save",
                             !.late = @ \ {"names"}]
<1>1. e \in Edit /\ e.step = "check" /\ EditInv(e, items)
  BY DEF CheckName, EditAt, CatalogInv, CatalogTypeOK
<1>2. CASE Taken(e.kind, e.entity.project, e.entity.name)
  BY <1>2, LeaveInv DEF CheckName
<1>3. CASE ~Taken(e.kind, e.entity.project, e.entity.name)
  <2>1. edit' = [edit EXCEPT ![q] = free] /\ items' = items
    BY <1>1, <1>3 DEF CheckName, CatalogInv, CatalogTypeOK
  <2>2. /\ free \in Edit /\ free.step = (IF e.id = None THEN "commit" ELSE "save")
        /\ free.late = e.late \ {"names"}
        /\ free.kind = e.kind /\ free.id = e.id /\ free.entity = e.entity
        /\ free.asked = e.asked /\ free.base = e.base
    BY <1>1 DEF Edit
  <2> HIDE DEF free
  <2>3. FormInv(free) /\ FreshInv(free, items)
    BY <1>1, <2>2 DEF EditInv, FormInv, FreshInv
  <2>4. NameInv(free, items)
    BY <1>3, <2>2 DEF NameInv, Clash, Taken, Siblings, Present
  <2> QED BY <2>1, <2>2, <2>3, <2>4, EditMoves DEF EditInv
<1> QED BY <1>2, <1>3

LEMMA RereadInv ==
    ASSUME CatalogAssumption, CatalogInv, NEW q \in Request, Reread(q), UNCHANGED edits
    PROVE  CatalogInv'
<1> DEFINE e == edit[q]
           current == items[e.kind][e.id]
           read == [e EXCEPT !.step = "commit", !.base = current]
<1>1. e \in Edit /\ e.step = "save" /\ EditInv(e, items) /\ e.id \in ItemId
  BY DEF Reread, EditAt, CatalogInv, CatalogTypeOK, EditInv, FormInv, Edit
<1>2. CASE current = None
  BY <1>2, LeaveInv DEF Reread
<1>3. CASE current # None
  <2>1. edit' = [edit EXCEPT ![q] = read] /\ items' = items
    BY <1>1, <1>3 DEF Reread, CatalogInv, CatalogTypeOK
  <2>2. current \in Record /\ current.project \in ProjectOf(e.kind)
    BY <1>1, <1>3 DEF CatalogInv, CatalogTypeOK, RowsInv, Present, Edit
  <2>3. /\ read \in Edit /\ read.step = "commit" /\ read.base = current
        /\ read.kind = e.kind /\ read.id = e.id /\ read.entity = e.entity
        /\ read.asked = e.asked /\ read.late = e.late
    BY <1>1, <2>2 DEF Edit
  <2> HIDE DEF read
  <2>4. EditInv(read, items)
    BY <1>1, <1>3, <2>2, <2>3 DEF EditInv, FormInv, FreshInv, NameInv
  <2> QED BY <2>1, <2>3, <2>4, EditMoves
<1> QED BY <1>2, <1>3

-----------------------------------------------------------------------------
(* Rows that change *)

(* Edit f is edit e, marked for what others have written.                  *)
Marked(e, f, gone) ==
    /\ e \in Edit /\ f \in Edit
    /\ f.kind = e.kind /\ f.id = e.id /\ f.asked = e.asked
    /\ f.step = e.step /\ f.entity = e.entity /\ f.base = e.base
    /\ e.late \subseteq f.late
    /\ \A x \in gone : x.kind = e.kind =>
         /\ x.id = e.id => "row" \in f.late
         /\ x.project = e.entity.project => "names" \in f.late

LEMMA Outdated ==
    ASSUME CatalogAssumption, CatalogTypeOK, NEW q \in Request, NEW gone, Outdate(q, gone)
    PROVE  /\ edit' \in [Request -> Edit \cup {None}]
           /\ edit'[q] = None
           /\ \A r \in Request \ {q} :
                /\ edit[r] = None => edit'[r] = None
                /\ edit[r] # None => Marked(edit[r], edit'[r], gone)
<1> DEFINE Late(r) == edit[r].late
                \cup {w \in {"row"} : \E x \in gone :
                        x.kind = edit[r].kind /\ x.id = edit[r].id}
                \cup {w \in {"names"} : \E x \in gone :
                        x.kind = edit[r].kind /\ x.project = edit[r].entity.project}
<1>1. edit' = [r \in Request |-> IF r = q THEN None
               ELSE IF edit[r] = None THEN None ELSE [edit[r] EXCEPT !.late = Late(r)]]
  BY DEF Outdate
<1>2. ASSUME NEW r \in Request, edit[r] # None
      PROVE  LET e == edit[r]
                 f == [e EXCEPT !.late = Late(r)] IN
               /\ e \in Edit /\ f \in Edit /\ f # None /\ f.late = Late(r)
               /\ f.kind = e.kind /\ f.id = e.id /\ f.asked = e.asked
               /\ f.step = e.step /\ f.entity = e.entity /\ f.base = e.base
  <2>1. edit[r] \in Edit
    BY <1>2 DEF CatalogTypeOK
  <2>2. Late(r) \in SUBSET {"row", "names"}
    BY <2>1 DEF Edit
  <2> HIDE DEF Late
  <2> QED BY <2>1, <2>2 DEF Edit, CatalogAssumption
<1>3. ASSUME NEW r \in Request
      PROVE  /\ edit[r].late \subseteq Late(r)
             /\ \A x \in gone : x.kind = edit[r].kind =>
                  /\ x.id = edit[r].id => "row" \in Late(r)
                  /\ x.project = edit[r].entity.project => "names" \in Late(r)
  OBVIOUS
<1> HIDE DEF Late
<1>4. edit' \in [Request -> Edit \cup {None}]
  BY <1>1, <1>2
<1>5. ASSUME NEW r \in Request \ {q}, edit[r] # None
      PROVE  Marked(edit[r], edit'[r], gone)
  BY <1>1, <1>2, <1>3, <1>5 DEF Marked
<1> QED BY <1>1, <1>4, <1>5

(* A row is written that has its project, and whose name is another's only *)
(* where the schema or the race allows it.                                 *)
LEMMA PutInv ==
    ASSUME CatalogAssumption, CatalogInv, NEW q \in Request, NEW k \in Kind, NEW i \in ItemId,
           NEW row \in Record, row.project \in ProjectOf(k),
           k = "runner" => row.raced \/ ~Clash(row.project, row.name, i, items),
           Put(q, k, i, row), UNCHANGED edits
    PROVE  CatalogInv'
<1>1. CASE Leave(q)
  BY <1>1, LeaveInv
<1>2. CASE ~Leave(q)
  <2> DEFINE gone == {[kind |-> k, id |-> i, project |-> row.project]}
  <2>1. /\ HasProject(k, row) /\ Unique(k, i, row)
        /\ items' = [items EXCEPT ![k][i] = row] /\ Outdate(q, gone)
    BY <1>2 DEF Put
  <2>2. row # None
    BY DEF CatalogAssumption
  <2>3. \A m \in Kind, j \in ItemId :
          items'[m][j] = IF m = k /\ j = i THEN row ELSE items[m][j]
    BY <2>1 DEF CatalogInv, CatalogTypeOK
  <2>4. \A m \in Kind : Present(m)' = Present(m) \cup {j \in {i} : m = k}
    BY <2>2, <2>3 DEF Present
  <2>5. CatalogTypeOK'
    BY <2>1, Outdated DEF CatalogInv, CatalogTypeOK
  <2>6. RowsInv'
    BY <2>3, <2>4 DEF CatalogInv, RowsInv, Present
  <2>7. RunnersHaveProjects'
    BY <2>1, <2>3, <2>4 DEF CatalogInv, RunnersHaveProjects, HasProject, Present, Kind
  <2>8. NamesDistinct'
    <3> SUFFICES ASSUME NEW m \in Kind, NEW a \in Present(m)', NEW b \in Present(m)',
                        a # b, items'[m][a].project = items'[m][b].project,
                        items'[m][a].name = items'[m][b].name
                 PROVE  m = "runner" /\ (items'[m][a].raced \/ items'[m][b].raced)
      BY DEF NamesDistinct
    <3>1. CASE m # k \/ (a # i /\ b # i)
      BY <2>3, <2>4, <3>1 DEF CatalogInv, NamesDistinct, Present
    <3>2. CASE m = k /\ k = "project" /\ (a = i \/ b = i)
      BY <2>1, <2>3, <2>4, <3>2 DEF Unique, Present
    <3>3. CASE m = k /\ k = "runner" /\ (a = i \/ b = i)
      BY <2>3, <2>4, <3>3 DEF Clash, Present
    <3> QED BY <3>1, <3>2, <3>3 DEF Kind
  <2>9. ASSUME NEW r \in Request, edit'[r] # None
        PROVE  EditInv(edit'[r], items')
    <3> DEFINE e == edit[r]
               f == edit'[r]
    <3>1. r # q /\ e # None /\ EditInv(e, items) /\ Marked(e, f, gone)
      BY <2>1, <2>9, Outdated DEF CatalogInv
    <3>2. /\ e \in Edit /\ f \in Edit
          /\ f.kind = e.kind /\ f.id = e.id /\ f.asked = e.asked
          /\ f.step = e.step /\ f.entity = e.entity /\ f.base = e.base
          /\ e.late \subseteq f.late
      BY <3>1 DEF Marked
    <3>3. k = e.kind => /\ i = e.id => "row" \in f.late
                        /\ row.project = e.entity.project => "names" \in f.late
      BY <3>1 DEF Marked
    <3> HIDE DEF e, f
    <3>4. FormInv(f)
      BY <3>1, <3>2 DEF EditInv, FormInv, ProjectOf
    <3>5. FreshInv(f, items')
      <4> SUFFICES ASSUME f.id # None, "row" \notin f.late
                   PROVE  FreshInv(f, items')
        BY DEF FreshInv
      <4>1. e.id \in ItemId /\ e.kind \in Kind /\ "row" \notin e.late
        BY <3>2 DEF Edit
      <4>2. items'[e.kind][e.id] = items[e.kind][e.id]
        BY <2>3, <3>3, <4>1
      <4> QED BY <3>1, <3>2, <4>1, <4>2 DEF EditInv, FreshInv
    <3>6. NameInv(f, items')
      <4> SUFFICES ASSUME f.kind = "runner", f.step \in {"save", "commit"}, f.late = {}
                   PROVE  \/ ~Clash(f.entity.project, f.entity.name, f.id, items')
                          \/ f.id # None /\ items'["runner"][f.id].raced
        BY DEF NameInv
      <4>1. \/ ~Clash(e.entity.project, e.entity.name, e.id, items)
            \/ e.id # None /\ items["runner"][e.id].raced
        BY <3>1, <3>2 DEF EditInv, NameInv
      <4>2. /\ k = "runner" => i # e.id /\ row.project # e.entity.project
            /\ e.id \in ItemId \cup {None} /\ "runner" \in Kind
        BY <3>2, <3>3 DEF Edit, Kind
      <4>3. e.id # None => items'["runner"][e.id] = items["runner"][e.id]
        BY <2>3, <4>2
      <4>4. Clash(e.entity.project, e.entity.name, e.id, items')
              => Clash(e.entity.project, e.entity.name, e.id, items)
        BY <2>3, <2>4, <4>2 DEF Clash, Present
      <4> QED BY <3>2, <4>1, <4>3, <4>4 DEF Clash
    <3> QED BY <3>4, <3>5, <3>6 DEF EditInv, f
  <2> QED BY <2>5, <2>6, <2>7, <2>8, <2>9 DEF CatalogInv
<1> QED BY <1>1, <1>2

LEMMA CommitCreateInv ==
    ASSUME CatalogAssumption, CatalogInv, NEW q \in Request, CommitCreate(q), UNCHANGED edits
    PROVE  CatalogInv'
<1> DEFINE e == edit[q]
           n == NextId(e.kind)
           row == [e.entity EXCEPT !.raced = e.late # {}]
<1>1. /\ e \in Edit /\ e.step = "commit" /\ e.id = None /\ EditInv(e, items)
      /\ n \in ItemId /\ Put(q, e.kind, n, row)
  BY DEF CommitCreate, EditAt, CatalogInv, CatalogTypeOK
<1>2. /\ row \in Record /\ row.project = e.entity.project /\ row.name = e.entity.name
      /\ row.raced = (e.late # {}) /\ e.kind \in Kind
  BY <1>1 DEF Edit, Record
<1> HIDE DEF n, row
<1>3. row.project \in ProjectOf(e.kind)
  BY <1>1, <1>2 DEF EditInv, FormInv
<1>4. e.kind = "runner" => row.raced \/ ~Clash(row.project, row.name, n, items)
  BY <1>1, <1>2 DEF EditInv, NameInv, Clash, CatalogAssumption
<1> HIDE DEF e
<1> QED BY <1>1, <1>2, <1>3, <1>4, PutInv

(* What an update writes is what it holds, unless the row was written late.*)
LEMMA WrittenRow ==
    ASSUME CatalogAssumption, CatalogInv, NEW q \in Request, EditAt(q, "commit"), edit[q].id # None,
           items[edit[q].kind][edit[q].id] # None
    PROVE  LET e == edit[q]
               current == items[e.kind][e.id]
               new == Written(e, current) IN
             /\ e \in Edit /\ e.id \in ItemId /\ e.kind \in Kind
             /\ new \in Record /\ new.project \in ProjectOf(e.kind)
             /\ new.raced = (current.raced \/ e.late # {})
             /\ "row" \notin e.late =>
                  /\ new.project = e.entity.project
                  /\ new.name = e.entity.name /\ new.text = e.entity.text
<1> DEFINE e == edit[q]
           current == items[e.kind][e.id]
           new == Written(e, current)
<1>1. e \in Edit /\ e.step = "commit" /\ EditInv(e, items)
  BY DEF EditAt, CatalogInv, CatalogTypeOK
<1>2. e.id \in ItemId /\ e.kind \in Kind /\ e.entity \in Record
  BY <1>1 DEF Edit
<1>3. e.base \in Record /\ e.base.project \in ProjectOf(e.kind)
  BY <1>1 DEF Edit, EditInv, FormInv
<1>4. current \in Record /\ current.project \in ProjectOf(e.kind)
  BY <1>2 DEF CatalogInv, CatalogTypeOK, RowsInv, Present
<1>5. e.entity.project \in ProjectOf(e.kind)
  BY <1>1 DEF EditInv, FormInv
<1>6. "row" \notin e.late => e.base = current
  BY <1>1 DEF EditInv, FreshInv
<1> HIDE DEF e, current
<1>7. new \in Record /\ new.project \in ProjectOf(e.kind)
  BY <1>1, <1>2, <1>3, <1>4, <1>5 DEF Written, Column, Record
<1>8. new.raced = (current.raced \/ e.late # {})
  BY DEF Written
<1>9. "row" \notin e.late =>
        /\ new.project = e.entity.project
        /\ new.name = e.entity.name /\ new.text = e.entity.text
  BY <1>6 DEF Written, Column
<1> QED BY <1>1, <1>2, <1>7, <1>8, <1>9 DEF e, current

LEMMA CommitUpdateInv ==
    ASSUME CatalogAssumption, CatalogInv, NEW q \in Request, CommitUpdate(q), UNCHANGED edits
    PROVE  CatalogInv'
<1> DEFINE e == edit[q]
           current == items[e.kind][e.id]
           new == Written(e, current)
<1>1. EditAt(q, "commit") /\ e.id # None
  BY DEF CommitUpdate
<1>2. CASE current = None
  BY <1>2, LeaveInv DEF CommitUpdate
<1>3. CASE current # None
  <2>1. Put(q, e.kind, e.id, new)
    BY <1>3 DEF CommitUpdate
  <2>2. /\ e \in Edit /\ e.id \in ItemId /\ e.kind \in Kind
        /\ new \in Record /\ new.project \in ProjectOf(e.kind)
        /\ new.raced = (current.raced \/ e.late # {})
        /\ "row" \notin e.late =>
             /\ new.project = e.entity.project
             /\ new.name = e.entity.name /\ new.text = e.entity.text
    BY <1>1, <1>3, WrittenRow
  <2>3. e.step = "commit" /\ NameInv(e, items)
    BY <1>1 DEF EditAt, CatalogInv, EditInv
  <2> HIDE DEF new
  <2>4. e.kind = "runner" => new.raced \/ ~Clash(new.project, new.name, e.id, items)
    <3> SUFFICES ASSUME e.kind = "runner", ~new.raced
                 PROVE  ~Clash(new.project, new.name, e.id, items)
      OBVIOUS
    <3>1. e.late = {} /\ ~current.raced
      BY <2>2
    <3>2. ~Clash(e.entity.project, e.entity.name, e.id, items)
      BY <2>3, <3>1 DEF NameInv
    <3> QED BY <2>2, <3>1, <3>2
  <2> HIDE DEF e
  <2> QED BY <2>1, <2>2, <2>4, PutInv
<1> QED BY <1>2, <1>3

(* Rows go, a project's runners with it.                                   *)
LEMMA DeleteInv ==
    ASSUME CatalogAssumption, CatalogInv, NEW q \in Request, NEW k \in Kind, NEW i \in ItemId,
           Delete(q, k, i)
    PROVE  CatalogInv'
<1> DEFINE gone == {x \in [kind : Kind, id : ItemId, project : ItemId \cup {None}] :
                      /\ x.id \in Present(x.kind)
                      /\ x.project = items[x.kind][x.id].project
                      /\ \/ x.kind = k /\ x.id = i
                         \/ k = "project" /\ x.project = i}
           Goes(m, j) == \E x \in gone : x.kind = m /\ x.id = j
<1>1. /\ items' = [m \in Kind |-> [j \in ItemId |->
                      IF Goes(m, j) THEN None ELSE items[m][j]]]
      /\ Outdate(q, gone) /\ edits' = edits + 1 /\ edits < MaxEdits
  BY DEF Delete, Arrives
<1>2. ASSUME NEW m \in Kind, NEW j \in Present(m)
      PROVE  Goes(m, j) <=> \/ m = k /\ j = i
                            \/ k = "project" /\ items[m][j].project = i
  <2> DEFINE x == [kind |-> m, id |-> j, project |-> items[m][j].project]
  <2>1. j \in ItemId /\ items[m][j] \in Record
    BY DEF Present, CatalogInv, CatalogTypeOK
  <2>2. x \in [kind : Kind, id : ItemId, project : ItemId \cup {None}]
    BY <2>1 DEF Record
  <2>3. x.kind = m /\ x.id = j /\ x.project = items[m][j].project
    OBVIOUS
  <2> HIDE DEF x
  <2>4. x \in gone <=> \/ m = k /\ j = i
                       \/ k = "project" /\ items[m][j].project = i
    BY <2>2, <2>3
  <2>5. ASSUME NEW y \in gone, y.kind = m, y.id = j
        PROVE  \/ m = k /\ j = i
               \/ k = "project" /\ items[m][j].project = i
    BY <2>5
  <2> HIDE DEF gone
  <2> QED BY <2>3, <2>4, <2>5
<1> HIDE DEF gone
<1>3. \A m \in Kind, j \in ItemId : items'[m][j] \in {None, items[m][j]}
  BY <1>1
<1> HIDE DEF Goes
<1>4. CatalogTypeOK'
  BY <1>1, Outdated DEF CatalogInv, CatalogTypeOK, CatalogAssumption
<1>5. RowsInv' /\ NamesDistinct'
  BY <1>3 DEF CatalogInv, RowsInv, NamesDistinct, Present
<1>6. RunnersHaveProjects'
  <2> SUFFICES ASSUME NEW j \in Present("runner")'
               PROVE  items'["runner"][j].project \in Present("project")'
    BY DEF RunnersHaveProjects, HasProject
  <2> DEFINE p == items["runner"][j].project
  <2>1. j \in ItemId /\ "runner" \in Kind /\ "project" \in Kind
    BY DEF Present, Kind
  <2>2. j \in Present("runner") /\ items'["runner"][j] = items["runner"][j]
    BY <1>3, <2>1 DEF Present
  <2>3. ~Goes("runner", j)
    BY <1>1, <2>1 DEF Present
  <2>4. p \in Present("project") /\ p \in ItemId
    BY <2>2 DEF CatalogInv, RunnersHaveProjects, HasProject, Present
  <2>5. items["project"][p].project = None
    BY <2>1, <2>4 DEF CatalogInv, RowsInv, ProjectOf
  <2>6. ~Goes("project", p)
    BY <1>2, <2>1, <2>2, <2>3, <2>4, <2>5 DEF CatalogAssumption
  <2>7. items'["project"][p] = items["project"][p]
    BY <1>1, <2>1, <2>4, <2>6
  <2> QED BY <2>2, <2>4, <2>7 DEF Present
<1>7. ASSUME NEW r \in Request, edit'[r] # None
      PROVE  EditInv(edit'[r], items')
  <2> DEFINE e == edit[r]
             f == edit'[r]
  <2>1. r # q /\ e # None /\ EditInv(e, items) /\ Marked(e, f, gone)
    BY <1>1, <1>7, Outdated DEF CatalogInv
  <2>2. /\ e \in Edit /\ f \in Edit
        /\ f.kind = e.kind /\ f.id = e.id /\ f.asked = e.asked
        /\ f.step = e.step /\ f.entity = e.entity /\ f.base = e.base
        /\ e.late \subseteq f.late
    BY <2>1 DEF Marked
  <2>3. "row" \notin f.late /\ e.id # None =>
          items'[e.kind][e.id] = items[e.kind][e.id]
    <3> SUFFICES ASSUME "row" \notin f.late, e.id # None
                 PROVE  ~Goes(e.kind, e.id)
      BY <1>1, <2>2 DEF Edit
    <3> QED BY <2>1 DEF Marked, Goes
  <2> HIDE DEF e, f
  <2>4. FormInv(f)
    BY <2>1, <2>2 DEF EditInv, FormInv, ProjectOf
  <2>5. FreshInv(f, items')
    BY <2>1, <2>2, <2>3 DEF EditInv, FreshInv
  <2>6. Clash(e.entity.project, e.entity.name, e.id, items')
          => Clash(e.entity.project, e.entity.name, e.id, items)
    BY <1>3 DEF Clash, Kind
  <2>7. NameInv(f, items')
    BY <2>1, <2>2, <2>3, <2>6 DEF EditInv, NameInv
  <2> QED BY <2>4, <2>5, <2>7 DEF EditInv, f
<1> QED BY <1>4, <1>5, <1>6, <1>7 DEF CatalogInv

LEMMA CatalogNextInv ==
    ASSUME CatalogAssumption, CatalogInv, [CatalogNext]_catalogVars PROVE CatalogInv'
<1>1. ASSUME NEW q \in Request, NEW k \in Kind, Create(q, k) \/ Update(q, k) PROVE CatalogInv'
  BY <1>1, CreateInv, UpdateInv
<1>2. ASSUME NEW q \in Request, UNCHANGED edits,
             \/ CheckName(q) \/ Reread(q) \/ CommitCreate(q) \/ CommitUpdate(q)
      PROVE  CatalogInv'
  BY <1>2, CheckNameInv, RereadInv, CommitCreateInv, CommitUpdateInv
<1>3. ASSUME NEW q \in Request, NEW k \in Kind, NEW i \in ItemId, Delete(q, k, i)
      PROVE  CatalogInv'
  BY <1>3, DeleteInv
<1>4. CASE UNCHANGED catalogVars
  BY <1>4 DEF catalogVars, CatalogInv, CatalogTypeOK, RowsInv, NamesDistinct,
     RunnersHaveProjects, HasProject, Present
<1> QED BY <1>1, <1>2, <1>3, <1>4 DEF CatalogNext

(* An update that commits while nobody has written its row changes what it *)
(* was given and nothing else.                                             *)
LEMMA OmittedStep ==
    ASSUME CatalogAssumption, CatalogInv, CatalogNext PROVE OmittedKept
<1> SUFFICES ASSUME NEW q \in Request, EditAt(q, "commit"), edit[q].id # None,
                    items' # items, edit'[q] = None, "row" \notin edit[q].late
             PROVE  LET current == items[edit[q].kind][edit[q].id]
                        new == items'[edit[q].kind][edit[q].id] IN
                      /\ "name" \notin edit[q].asked => new.name = current.name
                      /\ "text" \notin edit[q].asked => new.text = current.text
  BY DEF OmittedKept
<1>1. edit[q] # None /\ edit[q] \in Edit /\ FreshInv(edit[q], items)
  BY DEF EditAt, CatalogInv, CatalogTypeOK, EditInv
<1>2. CommitUpdate(q)
  <2>1. ASSUME NEW r \in Request, NEW k \in Kind, Create(r, k) \/ Update(r, k)
        PROVE  FALSE
    BY <2>1 DEF Create, Update, Begin
  <2>2. ASSUME NEW r \in Request, CheckName(r) \/ Reread(r) PROVE FALSE
    BY <2>2 DEF CheckName, Reread, Leave
  <2>3. ASSUME NEW r \in Request, NEW gone, r # q, Outdate(r, gone) PROVE FALSE
    BY <1>1, <2>3, Outdated DEF CatalogInv, Marked, CatalogAssumption
  <2>4. ASSUME NEW r \in Request, CommitCreate(r) PROVE FALSE
    BY <2>3, <2>4 DEF CommitCreate, Put, Leave
  <2>5. ASSUME NEW r \in Request, CommitUpdate(r) PROVE r = q
    BY <2>3, <2>5 DEF CommitUpdate, Put, Leave
  <2>6. ASSUME NEW r \in Request, NEW k \in Kind, NEW i \in ItemId, Delete(r, k, i)
        PROVE  FALSE
    BY <1>1, <2>3, <2>6 DEF Delete, Arrives
  <2> QED BY <2>1, <2>2, <2>4, <2>5, <2>6 DEF CatalogNext
<1> DEFINE e == edit[q]
           current == items[e.kind][e.id]
           new == Written(e, current)
<1>3. current # None /\ Put(q, e.kind, e.id, new)
  BY <1>2 DEF CommitUpdate, Leave
<1>4. items' = [items EXCEPT ![e.kind][e.id] = new]
  BY <1>3 DEF Put, Leave
<1>5. /\ e.id \in ItemId /\ e.kind \in Kind
      /\ new.name = e.entity.name /\ new.text = e.entity.text
  BY <1>3, WrittenRow
<1> HIDE DEF new
<1>6. items'[e.kind][e.id] = new
  BY <1>4, <1>5 DEF CatalogInv, CatalogTypeOK
<1> QED BY <1>1, <1>5, <1>6 DEF FreshInv

-----------------------------------------------------------------------------

(* The invariant of Catalog.                                               *)
LEMMA CatalogInvariant == ASSUME CatalogAssumption PROVE CatalogSpec => []CatalogInv
<1>1. CatalogInit => CatalogInv
  BY CatalogInitInv
<1>2. CatalogInv /\ [CatalogNext]_catalogVars => CatalogInv'
  BY CatalogNextInv
<1> QED BY <1>1, <1>2, PTL DEF CatalogSpec

(* Whatever creates, updates and deletes overlap, names are apart but for  *)
(* the race of the check, runners have their projects, and an update spares*)
(* what it was not given but for the race of its reads (ProjectService,    *)
(* RunnerService, models/project.py, models/runner.py).                    *)
THEOREM CatalogFaithfulHolds ==
    ASSUME CatalogAssumption PROVE CatalogSpec => CatalogFaithful
<1>1. CatalogSpec => []CatalogInv
  BY CatalogInvariant
<1>2. CatalogInv => NamesDistinct /\ RunnersHaveProjects
  BY DEF CatalogInv
<1>3. CatalogInv /\ [CatalogNext]_catalogVars => [OmittedKept]_catalogVars
  BY OmittedStep
<1> QED BY <1>1, <1>2, <1>3, PTL DEF CatalogSpec, CatalogFaithful

-----------------------------------------------------------------------------
(* The days of an expression *)

(* The days an item is handed over as, where APScheduler takes it.         *)
Named(i) == {w \in Dow : Weekday(i.lo) <= (w + 6) % 7 /\ (w + 6) % 7 <= Weekday(i.hi)}
Goes(i) == i.range /\ SundayLast(i.lo) >= SundayLast(i.hi)

(* No item that is taken names a day it does not mean; one that does not   *)
(* go on from Sunday to Monday is taken, and names all the days it means.  *)
LEMMA ItemAgrees ==
    ASSUME NEW i \in Item
    PROVE  /\ Ordered(i) => Named(i) \subseteq MeantBy(i)
           /\ ~Goes(i) => Ordered(i) /\ Named(i) = MeantBy(i)
<1> DEFINE lo == i.lo
           hi == i.hi
           from == IF lo \in {0, 7} THEN 6 ELSE lo - 1
           to == IF hi \in {0, 7} THEN 6 ELSE hi - 1
<1>1. /\ lo \in 0..7 /\ hi \in 0..7 /\ i.range \in BOOLEAN
      /\ i.range \/ lo = hi
  BY DEF Item
<1>2. \A n \in 0..7 : /\ (n + 6) % 7 = IF n \in {0, 7} THEN 6 ELSE n - 1
                      /\ n % 7 = IF n = 7 THEN 0 ELSE n
  OBVIOUS
<1>3. Weekday(lo) = from /\ Weekday(hi) = to
  BY <1>1, <1>2 DEF Weekday
<1>4. lo % 7 = (IF lo = 7 THEN 0 ELSE lo) /\ hi % 7 = (IF hi = 7 THEN 0 ELSE hi)
  BY <1>1, <1>2
<1>5. ASSUME NEW w \in Dow
      PROVE  w \in Named(i) <=>
               LET d == IF w = 0 THEN 6 ELSE w - 1 IN from <= d /\ d <= to
  <2>1. w \in 0..7 /\ w # 7
    BY DEF Dow
  <2>2. (w + 6) % 7 = IF w = 0 THEN 6 ELSE w - 1
    BY <1>2, <2>1
  <2> QED BY <1>3, <2>2 DEF Named, lo, hi
<1>6. ASSUME NEW w \in Dow
      PROVE  w \in MeantBy(i) <=>
               LET first == IF lo = 7 THEN 0 ELSE lo
                   last == IF hi = 7 THEN 0 ELSE hi IN
               CASE ~i.range -> w = first
                 [] i.range /\ first < last -> first <= w /\ w <= last
                 [] OTHER -> first <= w \/ w <= last
  BY <1>4 DEF MeantBy, lo, hi
<1>7. Ordered(i) <=> from <= to
  BY <1>3 DEF Ordered, lo, hi
<1>8. Goes(i) <=> i.range /\ (IF lo = 0 THEN 7 ELSE lo) >= (IF hi = 0 THEN 7 ELSE hi)
  BY DEF Goes, SundayLast
<1> HIDE DEF lo, hi
<1>9. ASSUME NEW w \in Dow, w \in Named(i), from <= to PROVE w \in MeantBy(i)
  <2>1. w \in 0..6
    BY DEF Dow
  <2>2. CASE i.range
    BY <1>1, <1>5, <1>6, <1>9, <2>1, <2>2
  <2>3. CASE ~i.range
    BY <1>1, <1>5, <1>6, <1>9, <2>1, <2>3
  <2> QED BY <1>1, <2>2, <2>3
<1>10. ASSUME ~Goes(i) PROVE from <= to
  BY <1>1, <1>8, <1>10
<1>11. ASSUME ~Goes(i), NEW w \in Dow, w \in MeantBy(i) PROVE w \in Named(i)
  <2>1. w \in 0..6
    BY DEF Dow
  <2>2. CASE i.range
    BY <1>1, <1>5, <1>6, <1>8, <1>11, <2>1, <2>2
  <2>3. CASE ~i.range
    BY <1>1, <1>5, <1>6, <1>11, <2>1, <2>3
  <2> QED BY <1>1, <2>2, <2>3
<1>12. Named(i) \subseteq Dow /\ MeantBy(i) \subseteq Dow
  BY DEF Named, MeantBy
<1> QED BY <1>7, <1>9, <1>10, <1>11, <1>12

(* The days of a field are those of its items.                             *)
LEMMA FieldDays ==
    ASSUME NEW e \in [dom : DomField, dow : DowField], e.dow # All
    PROVE  /\ e.dow \subseteq Item
           /\ Scheduled(e.dow) = UNION {Named(i) : i \in e.dow}
           /\ Meant(e.dow) = UNION {MeantBy(i) : i \in e.dow}
BY DEF DowField, Scheduled, Meant, Named

(* A trigger fires on no day its expression does not mean, and on all that *)
(* it does but for the two exceptions of DaysAgree.                        *)
LEMMA TriggerAgrees ==
    ASSUME NEW e \in [dom : DomField, dow : DowField]
    PROVE  /\ Trigger(e) \subseteq CronFires(e)
           /\ ~PastSunday(e) /\ (e.dom = All \/ e.dow = All) =>
                Trigger(e) = CronFires(e)
<1>1. CASE e.dow = All
  BY <1>1 DEF Trigger, CronFires, Refused, Scheduled, Meant
<1>2. CASE e.dow # All
  <2>1. ~Refused(e) => Scheduled(e.dow) \subseteq Meant(e.dow)
    BY <1>2, FieldDays, ItemAgrees DEF Refused
  <2>2. ~PastSunday(e) => ~Refused(e) /\ Scheduled(e.dow) = Meant(e.dow)
    <3> SUFFICES ASSUME ~PastSunday(e) PROVE ~Refused(e) /\ Scheduled(e.dow) = Meant(e.dow)
      OBVIOUS
    <3>1. \A i \in e.dow : i \in Item /\ ~Goes(i)
      BY <1>2, FieldDays DEF PastSunday, Goes
    <3>2. \A i \in e.dow : Ordered(i) /\ Named(i) = MeantBy(i)
      BY <3>1, ItemAgrees
    <3> QED BY <1>2, <3>2, FieldDays DEF Refused
  <2>3. Trigger(e) \subseteq CronFires(e)
    BY <1>2, <2>1 DEF Trigger, CronFires
  <2>4. ~PastSunday(e) /\ e.dom = All => Trigger(e) = CronFires(e)
    BY <1>2, <2>2 DEF Trigger, CronFires
  <2> QED BY <1>2, <2>3, <2>4
<1> QED BY <1>1, <1>2

CronInv == CronTypeOK /\ (added => fires = Trigger(expression))

(* The invariant of CronDays.                                              *)
LEMMA CronInvariant == CronSpec => []CronInv
<1>1. CronInit => CronInv
  BY DEF CronInit, CronInv, CronTypeOK
<1>2. CronInv /\ [CronNext]_cronVars => CronInv'
  <2> SUFFICES ASSUME CronInv, [CronNext]_cronVars PROVE CronInv'
    OBVIOUS
  <2>1. CASE AddJob
    <3>1. /\ expression' = expression /\ added' = TRUE
          /\ fires' = Trigger(expression)
      BY <2>1 DEF AddJob
    <3>2. fires' \subseteq Date \X Dow
      BY <3>1 DEF Trigger
    <3> QED BY <3>1, <3>2 DEF CronInv, CronTypeOK
  <2>2. CASE UNCHANGED cronVars
    BY <2>2 DEF cronVars, CronInv, CronTypeOK
  <2> QED BY <2>1, <2>2 DEF CronNext
<1> QED BY <1>1, <1>2, PTL DEF CronSpec

(* Whatever numbers, ranges and lists an expression has, its job fires on  *)
(* no day it does not mean, and on all the days it means but for the two   *)
(* exceptions of DaysAgree.                                                *)
THEOREM DaysAgreeHolds == CronSpec => []DaysAgree
<1>1. CronSpec => []CronInv
  BY CronInvariant
<1>2. CronInv => DaysAgree
  <2> SUFFICES ASSUME CronInv, added PROVE DaysAgree
    BY DEF DaysAgree
  <2>1. fires = Trigger(expression) /\ expression \in [dom : DomField, dow : DowField]
    BY DEF CronInv, CronTypeOK
  <2> QED BY <2>1, TriggerAgrees DEF DaysAgree
<1> QED BY <1>1, <1>2, PTL
=============================================================================
