---------------------------- MODULE Workspace_proofs ----------------------------
(****************************************************************************)
(* Proofs about the services of a workspace, for any number of requests:    *)
(* what is published of its apps, what is called of its capabilities, what  *)
(* is recorded of its events, what is written of its conversations and what *)
(* is indexed and searched of its documents.                                *)
(****************************************************************************)
EXTENDS CapabilityCalls, ChatApps, AuditTrail, ChatTurns, Knowledge, SequenceTheorems,
        FunctionTheorems, NumberFacts, TLAPS

--------------------------------------------------------------------------------
(****************************************************************************)
(* Apps.                                                                    *)
(****************************************************************************)
Orchestration == {"auto", "flow"}
SomeGraph == Graph \cup {NoGraph}
SomeCategory == Category \cup {NoCategory}
AppRow == [there : BOOLEAN, status : {"draft", "published"}, orchestration : Orchestration,
           graph : SomeGraph, category : SomeCategory, published : Orchestration \X SomeGraph]
EditRow == [pc : {"off", "write"}, kind : {"none", "create", "update", "publish"}, app : App \cup {NoApp}, read : AppRow,
            field : {"none", "orchestration", "graph", "category"}, to : Orchestration \cup SomeGraph \cup SomeCategory]
KeyRow == [status : {"none", "active", "revoked"}, app : App \cup {NoApp}]
CallRow == [pc : {"off", "app", "run"}, app : App \cup {NoApp}, row : AppRow]

\* A field is changed to one of its values.
Suits(field, to) ==
    /\ field = "orchestration" => to \in Orchestration
    /\ field = "graph" => to \in SomeGraph
    /\ field = "category" => to \in SomeCategory
EditFits(e) ==
    /\ edits[e].pc = "off" => edits[e] = NoEdit
    /\ edits[e].pc = "write" => edits[e].app \in App
    /\ edits[e].kind = "update" => edits[e].field # "none" /\ Suits(edits[e].field, edits[e].to)

AppsTInv ==
    /\ apps \in [App -> AppRow]
    /\ categories \subseteq Category
    /\ keys \in [Key -> KeyRow]
    /\ edits \in [Editor -> EditRow]
    /\ calls \in [Caller -> CallRow]
    /\ quiet \in BOOLEAN
    /\ \A e \in Editor : EditFits(e)
    /\ \A k \in Key : keys[k].status # "none" => keys[k].app \in App
    /\ \A s \in Caller : calls[s].pc = "app" => calls[s].app \in App

\* What runs was published as it is.
Validated(row) == <<row.orchestration, row.graph>> = row.published /\ CheckFlowFields(row)

\* As long as the requests of the workbench did not overlap, a request that is
\* about to write finds the app as it read it, so that a publication validates
\* what it publishes, and an edit of what was published makes it a draft.
WriteSound(e) ==
    LET edit == edits[e] IN edit.pc = "write" =>
    /\ edit.kind # "none"
    /\ edit.kind = "create" => edit.read.status = "draft" /\ CheckCategory(edit.read.category)
    /\ edit.kind = "update" =>
          /\ apps[edit.app].status = edit.read.status
          /\ edit.field = "category" => CheckCategory(edit.to)
    /\ edit.kind = "publish" =>
          /\ apps[edit.app].orchestration = edit.read.orchestration /\ apps[edit.app].graph = edit.read.graph
          /\ CheckFlowFields(apps[edit.app]) /\ CheckCategory(edit.read.category)
Quietly ==
    /\ \A e, f \in Editor : edits[e].pc = "write" /\ edits[f].pc = "write" => e = f
    /\ \A e \in Editor : WriteSound(e)
    /\ \A a \in App : CheckCategory(apps[a].category)
    /\ \A a \in App : apps[a].status = "published" => Validated(apps[a])
    /\ \A s \in Caller : calls[s].pc = "run" => Validated(calls[s].row)

AppsInv == AppsTInv /\ (quiet => Quietly)

\* What stands for no row, no request and no call.
LEMMA NoRowTyped == NoRow \in AppRow /\ NoRow.status = "draft" /\ NoRow.category = NoCategory
  BY DEF NoRow, AppRow, Orchestration, SomeGraph, SomeCategory

LEMMA NoEditTyped == NoEdit \in EditRow /\ NoEdit.pc = "off" /\ NoEdit.kind = "none"
  BY NoRowTyped DEF NoEdit, EditRow, SomeGraph

LEMMA NoCallTyped == NoCall \in CallRow /\ NoCall.pc = "off"
  BY NoRowTyped DEF NoCall, CallRow

\* At the beginning there is no app and no request.
LEMMA AppsInitInv == AppsInit => AppsInv
  <1> SUFFICES ASSUME AppsInit PROVE AppsInv
    OBVIOUS
  <1>1. AppsTInv
    BY NoRowTyped, NoEditTyped, NoCallTyped DEF AppsInit, AppsTInv, EditFits, KeyRow
  <1>2. Quietly
    BY NoRowTyped, NoEditTyped, NoCallTyped DEF AppsInit, Quietly, WriteSound, CheckCategory
  <1> QED
    BY <1>1, <1>2 DEF AppsInv

\* One field of a row is changed.
Changed(row, field, to) == [row EXCEPT ![field] = to]
LEMMA RowChanged ==
    ASSUME NEW row \in AppRow, NEW field \in {"orchestration", "graph", "category"}, NEW to, Suits(field, to)
    PROVE  LET u == Changed(row, field, to)
           IN  /\ u \in AppRow /\ u.status = row.status /\ u.there = row.there
               /\ u.category = IF field = "category" THEN to ELSE row.category
  <1>1. CASE field = "orchestration"
    BY <1>1 DEF AppRow, Suits, Changed
  <1>2. CASE field = "graph"
    BY <1>2 DEF AppRow, Suits, Changed
  <1>3. CASE field = "category"
    BY <1>3 DEF AppRow, Suits, Changed
  <1> QED
    BY <1>1, <1>2, <1>3

\* The status alone is changed.
LEMMA StatusChanged ==
    ASSUME NEW row \in AppRow, NEW status \in {"draft", "published"}, NEW u, u = [row EXCEPT !.status = status]
    PROVE  u \in AppRow /\ u.status = status /\ u.category = row.category
  BY DEF AppRow

Shown(row, category, o, g) == [row EXCEPT !.status = "published", !.category = category, !.published = <<o, g>>]

\* A publication, as a row.
LEMMA RowPublished ==
    ASSUME NEW row \in AppRow, NEW category \in SomeCategory, NEW o \in Orchestration, NEW g \in SomeGraph
    PROVE  LET u == Shown(row, category, o, g)
           IN  /\ u \in AppRow /\ u.status = "published" /\ u.category = category /\ u.published = <<o, g>>
               /\ u.orchestration = row.orchestration /\ u.graph = row.graph
  BY DEF AppRow, Shown

Created(o, g, c) == [NoRow EXCEPT !.there = TRUE, !.orchestration = o, !.graph = g, !.category = c]

\* A new app, as a row.
LEMMA RowCreated ==
    ASSUME NEW o \in Orchestration, NEW g \in SomeGraph, NEW c \in SomeCategory
    PROVE  Created(o, g, c) \in AppRow /\ Created(o, g, c).status = "draft" /\ Created(o, g, c).category = c
  BY NoRowTyped DEF AppRow, Created

\* Another category leaves the rest of the row.
LEMMA Categorised ==
    ASSUME NEW row \in AppRow, NEW category \in SomeCategory, NEW u, u = [row EXCEPT !.category = category]
    PROVE  /\ u \in AppRow /\ u.category = category /\ u.status = row.status
           /\ u.orchestration = row.orchestration /\ u.graph = row.graph /\ u.published = row.published
  BY DEF AppRow

\* A request begins: it is the only one, or the time is not quiet any more.
LEMMA BeginKeeps ==
    ASSUME AppsInv, NEW e \in Editor, NEW a \in App, NEW kind \in {"create", "update", "publish"}, NEW row \in AppRow,
           NEW field \in {"none", "orchestration", "graph", "category"}, NEW to \in Orchestration \cup SomeGraph \cup SomeCategory,
           Begin(e, a, kind, row, field, to),
           kind = "update" => field # "none" /\ Suits(field, to),
           quiet => /\ kind = "create" => row.status = "draft" /\ CheckCategory(row.category)
                    /\ kind = "update" => apps[a].status = row.status /\ (field = "category" => CheckCategory(to))
                    /\ kind = "publish" => /\ apps[a].orchestration = row.orchestration /\ apps[a].graph = row.graph
                                           /\ CheckFlowFields(apps[a]) /\ CheckCategory(row.category)
    PROVE  AppsInv'
  <1> DEFINE edit == [pc |-> "write", kind |-> kind, app |-> a, read |-> row, field |-> field, to |-> to]
  <1>1. /\ edits' = [edits EXCEPT ![e] = edit] /\ quiet' = (quiet /\ AllIdle)
        /\ UNCHANGED <<apps, categories, keys, calls>>
    BY DEF Begin
  <1>2. edit \in EditRow
    BY DEF EditRow
  <1>3. /\ edit.pc = "write" /\ edit.kind = kind /\ edit.app = a /\ edit.read = row /\ edit.field = field /\ edit.to = to
    OBVIOUS
  <1> HIDE DEF edit
  <1>4. edits \in [Editor -> EditRow] /\ quiet \in BOOLEAN
    BY DEF AppsInv, AppsTInv
  <1>5. edits'[e] = edit /\ \A f \in Editor : f # e => edits'[f] = edits[f]
    BY <1>1, <1>4
  <1>6. AppsTInv'
    <2>1. edits' \in [Editor -> EditRow] /\ quiet' \in BOOLEAN
      BY <1>1, <1>2, <1>4 DEF AllIdle
    <2>2. ASSUME NEW f \in Editor PROVE EditFits(f)'
      <3>1. EditFits(f)
        BY DEF AppsInv, AppsTInv
      <3>2. CASE f = e
        BY <1>3, <1>5, <3>2 DEF EditFits
      <3>3. CASE f # e
        BY <1>5, <3>1, <3>3 DEF EditFits
      <3> QED
        BY <3>2, <3>3
    <2> QED
      BY <1>1, <2>1, <2>2 DEF AppsInv, AppsTInv
  <1>7. ASSUME quiet' PROVE Quietly'
    <2>1. quiet /\ AllIdle /\ Quietly
      BY <1>1, <1>7 DEF AppsInv
    <2>2. \A f \in Editor : edits[f].pc # "write"
      BY <2>1, NoEditTyped DEF AllIdle
    <2>3. ASSUME NEW f \in Editor PROVE WriteSound(f)'
      <3>1. CASE f = e
        BY <1>1, <1>3, <1>5, <2>1, <3>1 DEF WriteSound, CheckCategory, CheckFlowFields
      <3>2. CASE f # e
        BY <1>5, <2>2, <3>2 DEF WriteSound
      <3> QED
        BY <3>1, <3>2
    <2>4. \A f, g \in Editor : edits'[f].pc = "write" /\ edits'[g].pc = "write" => f = g
      BY <1>5, <2>2
    <2> QED
      BY <1>1, <2>1, <2>3, <2>4 DEF Quietly, CheckCategory, Validated, CheckFlowFields
  <1> QED
    BY <1>6, <1>7 DEF AppsInv

\* A request writes and is done: what it leaves in the app has a known category
\* and, if it is published, was validated.
LEMMA WriteKeeps ==
    ASSUME AppsInv, NEW e \in Editor, edits[e].pc = "write", Done(e), NEW u \in AppRow,
           apps' = [apps EXCEPT ![edits[e].app] = u],
           quiet => CheckCategory(u.category) /\ (u.status = "published" => Validated(u))
    PROVE  AppsInv'
  <1>1. edits' = [edits EXCEPT ![e] = NoEdit] /\ UNCHANGED <<categories, keys, calls, quiet>>
    BY DEF Done
  <1>2. edits \in [Editor -> EditRow] /\ apps \in [App -> AppRow] /\ edits[e].app \in App
    BY DEF AppsInv, AppsTInv, EditFits
  <1>3. edits'[e] = NoEdit /\ \A f \in Editor : f # e => edits'[f] = edits[f]
    BY <1>1, <1>2
  <1>4. AppsTInv'
    <2>1. apps' \in [App -> AppRow] /\ edits' \in [Editor -> EditRow]
      BY <1>1, <1>2, NoEditTyped
    <2>2. ASSUME NEW f \in Editor PROVE EditFits(f)'
      BY <1>3, NoEditTyped DEF AppsInv, AppsTInv, EditFits
    <2> QED
      BY <1>1, <2>1, <2>2 DEF AppsInv, AppsTInv
  <1>5. ASSUME quiet PROVE Quietly'
    <2>1. Quietly
      BY <1>5 DEF AppsInv
    <2>2. ASSUME NEW f \in Editor PROVE edits'[f].pc # "write"
      BY <1>3, <2>1, NoEditTyped DEF Quietly
    <2>3. ASSUME NEW a \in App PROVE apps'[a].category \in categories' \cup {NoCategory} /\ (apps'[a].status = "published" => Validated(apps'[a]))
      <3>1. CASE a = edits[e].app
        BY <1>1, <1>2, <1>5, <3>1 DEF CheckCategory
      <3>2. CASE a # edits[e].app
        BY <1>1, <1>2, <2>1, <3>2 DEF CheckCategory, Quietly
      <3> QED
        BY <3>1, <3>2
    <2> QED
      BY <1>1, <2>1, <2>2, <2>3 DEF Quietly, WriteSound, Validated, CheckFlowFields, CheckCategory
  <1> QED
    BY <1>1, <1>4, <1>5 DEF AppsInv

\* Each of the requests writes as WriteKeeps allows.
LEMMA AppWriteKeeps ==
    ASSUME AppsInv, NEW e \in Editor, WriteCreate(e) \/ WriteUpdate(e) \/ WritePublish(e) \/ EditorLost(e)
    PROVE  AppsInv'
  <1> DEFINE a == edits[e].app
             edit == edits[e]
  <1>1. /\ apps \in [App -> AppRow] /\ edit \in EditRow /\ edit.pc = "write" /\ Done(e)
        /\ EditFits(e)
    BY DEF AppsInv, AppsTInv, WriteCreate, WriteUpdate, WritePublish, EditorLost
  <1>2. a \in App /\ apps[a] \in AppRow /\ edit.read \in AppRow
    BY <1>1 DEF EditFits, EditRow
  <1>3. quiet => WriteSound(e) /\ CheckCategory(apps[a].category) /\ (apps[a].status = "published" => Validated(apps[a]))
    BY <1>2 DEF AppsInv, Quietly
  <1>4. CASE WriteCreate(e)
    <2>1. apps' = [apps EXCEPT ![a] = edit.read] /\ edit.kind = "create"
      BY <1>4 DEF WriteCreate
    <2>2. quiet => CheckCategory(edit.read.category) /\ edit.read.status # "published"
      BY <1>1, <1>3, <2>1 DEF WriteSound
    <2> QED
      BY <1>1, <1>2, <2>1, <2>2, WriteKeeps
  <1>5. CASE WriteUpdate(e)
    <2> DEFINE changed == Changed(apps[a], edit.field, edit.to)
               drafted == [changed EXCEPT !.status = "draft"]
               u == IF ~apps[a].there THEN apps[a] ELSE IF edit.read.status = "published" THEN drafted ELSE changed
    <2>1. apps' = [apps EXCEPT ![a] = u] /\ edit.kind = "update"
      BY <1>5 DEF WriteUpdate, Changed
    <2>2. edit.field \in {"orchestration", "graph", "category"} /\ Suits(edit.field, edit.to)
      BY <1>1, <2>1 DEF EditFits, EditRow
    <2>3. /\ changed \in AppRow /\ changed.status = apps[a].status
          /\ changed.category = IF edit.field = "category" THEN edit.to ELSE apps[a].category
      BY <1>2, <2>2, RowChanged
    <2> HIDE DEF changed
    <2>4. drafted \in AppRow /\ drafted.status = "draft" /\ drafted.category = changed.category
      BY <2>3, StatusChanged
    <2>5. quiet => /\ apps[a].status = edit.read.status
                   /\ edit.field = "category" => CheckCategory(edit.to)
      BY <1>1, <1>3, <2>1 DEF WriteSound
    <2>6. edit.read.status \in {"draft", "published"}
      BY <1>2 DEF AppRow
    <2> HIDE DEF drafted
    <2>7. u \in AppRow /\ (quiet => CheckCategory(u.category) /\ (u.status = "published" => Validated(u)))
      BY <1>2, <1>3, <2>3, <2>4, <2>5, <2>6
    <2> HIDE DEF u
    <2> QED
      BY <1>1, <2>1, <2>7, WriteKeeps
  <1>6. CASE WritePublish(e)
    <2> DEFINE shown == Shown(apps[a], edit.read.category, edit.read.orchestration, edit.read.graph)
               u == IF apps[a].there THEN shown ELSE apps[a]
    <2>1. apps' = [apps EXCEPT ![a] = u] /\ edit.kind = "publish"
      BY <1>1, <1>2, <1>6 DEF WritePublish, Shown
    <2>2. edit.read.category \in SomeCategory /\ edit.read.orchestration \in Orchestration /\ edit.read.graph \in SomeGraph
      BY <1>2 DEF AppRow
    <2>3. /\ shown \in AppRow /\ shown.status = "published" /\ shown.category = edit.read.category
          /\ shown.published = <<edit.read.orchestration, edit.read.graph>>
          /\ shown.orchestration = apps[a].orchestration /\ shown.graph = apps[a].graph
      BY <1>2, <2>2, RowPublished
    <2> HIDE DEF shown
    <2>4. quiet => CheckCategory(shown.category) /\ Validated(shown)
      BY <1>1, <1>3, <2>1, <2>3 DEF WriteSound, Validated, CheckFlowFields
    <2>5. u \in AppRow /\ (quiet => CheckCategory(u.category) /\ (u.status = "published" => Validated(u)))
      BY <1>2, <1>3, <2>3, <2>4
    <2> HIDE DEF u
    <2> QED
      BY <1>1, <2>1, <2>5, WriteKeeps
  <1>7. CASE EditorLost(e)
    <2>1. apps' = [apps EXCEPT ![a] = apps[a]]
      BY <1>1, <1>2, <1>7 DEF EditorLost
    <2> QED
      BY <1>1, <1>2, <1>3, <2>1, WriteKeeps
  <1> QED
    BY <1>4, <1>5, <1>6, <1>7

\* The vocabulary changes and all apps with it, while nobody writes.
LEMMA RelabelKeeps ==
    ASSUME AppsInv, NEW c \in Category, NEW n \in SomeCategory, categories' \subseteq Category, Relabel(c, n),
           quiet' = (quiet /\ AllIdle), UNCHANGED <<keys, edits, calls>>,
           categories \ {c} \subseteq categories', n \in categories' \cup {NoCategory}
    PROVE  AppsInv'
  <1>1. /\ apps \in [App -> AppRow] /\ quiet \in BOOLEAN
        /\ apps' = [a \in App |-> IF apps[a].category = c THEN [apps[a] EXCEPT !.category = n] ELSE apps[a]]
    BY DEF AppsInv, AppsTInv, Relabel
  <1>2. ASSUME NEW a \in App
        PROVE  /\ apps'[a] \in AppRow /\ apps'[a].status = apps[a].status /\ (Validated(apps[a]) => Validated(apps'[a]))
               /\ apps'[a].category = IF apps[a].category = c THEN n ELSE apps[a].category
    <2>1. CASE apps[a].category = c
      <3>1. apps'[a] = [apps[a] EXCEPT !.category = n] /\ apps[a] \in AppRow
        BY <1>1, <2>1
      <3>2. /\ apps'[a] \in AppRow /\ apps'[a].category = n /\ apps'[a].status = apps[a].status
            /\ apps'[a].orchestration = apps[a].orchestration /\ apps'[a].graph = apps[a].graph
            /\ apps'[a].published = apps[a].published
        BY <3>1, Categorised
      <3> QED
        BY <2>1, <3>2 DEF Validated, CheckFlowFields
    <2>2. CASE apps[a].category # c
      BY <1>1, <2>2
    <2> QED
      BY <2>1, <2>2
  <1>3. AppsTInv'
    <2>1. apps' \in [App -> AppRow]
      BY <1>1, <1>2
    <2>2. quiet' \in BOOLEAN
      BY <1>1 DEF AllIdle
    <2> QED
      BY <2>1, <2>2 DEF AppsInv, AppsTInv, EditFits
  <1>4. ASSUME quiet' PROVE Quietly'
    <2>1. AllIdle /\ Quietly
      BY <1>4 DEF AppsInv
    <2>2. \A f \in Editor : edits'[f].pc # "write"
      BY <2>1, NoEditTyped DEF AllIdle
    <2>3. \A a \in App : apps'[a].category \in categories' \cup {NoCategory}
      BY <1>2, <2>1 DEF Quietly, CheckCategory
    <2> QED
      BY <1>2, <2>1, <2>2, <2>3 DEF Quietly, WriteSound, Validated, CheckFlowFields, CheckCategory
  <1> QED
    BY <1>3, <1>4 DEF AppsInv

\* An app that is deleted is one that is not there.
LEMMA DeleteKeeps ==
    ASSUME AppsInv, NEW a \in App, DeleteApp(a)
    PROVE  AppsInv'
  <1>1. /\ apps \in [App -> AppRow] /\ quiet \in BOOLEAN /\ keys \in [Key -> KeyRow]
        /\ apps' = [apps EXCEPT ![a] = NoRow] /\ quiet' = (quiet /\ AllIdle)
        /\ keys' = [k \in Key |-> IF keys[k].app = a THEN [status |-> "none", app |-> NoApp] ELSE keys[k]]
        /\ UNCHANGED <<categories, edits, calls>>
    BY DEF AppsInv, AppsTInv, DeleteApp
  <1>2. apps' \in [App -> AppRow] /\ quiet' \in BOOLEAN
    BY <1>1, NoRowTyped DEF AllIdle
  <1>3. keys' \in [Key -> KeyRow]
    BY <1>1 DEF KeyRow
  <1>4. \A k \in Key : keys'[k].status # "none" => keys'[k].app \in App
    BY <1>1 DEF AppsInv, AppsTInv
  <1>5. AppsTInv'
    BY <1>1, <1>2, <1>3, <1>4 DEF AppsInv, AppsTInv, EditFits
  <1>6. ASSUME quiet' PROVE Quietly'
    <2>1. AllIdle /\ Quietly
      BY <1>1, <1>6 DEF AppsInv
    <2>2. \A f \in Editor : edits'[f].pc # "write"
      BY <1>1, <2>1, NoEditTyped DEF AllIdle
    <2>3. ASSUME NEW b \in App PROVE apps'[b].category \in categories' \cup {NoCategory} /\ (apps'[b].status = "published" => Validated(apps'[b]))
      BY <1>1, <2>1, NoRowTyped DEF Quietly, CheckCategory
    <2> QED
      BY <1>1, <2>1, <2>2, <2>3 DEF Quietly, WriteSound, Validated, CheckFlowFields, CheckCategory
  <1> QED
    BY <1>5, <1>6 DEF AppsInv

\* The other steps write neither apps nor edits.
LEMMA OutsideKeeps ==
    ASSUME AppsInv, UNCHANGED <<apps, edits, quiet>>,
           categories \subseteq categories', categories' \subseteq Category,
           keys' \in [Key -> KeyRow], calls' \in [Caller -> CallRow],
           \A k \in Key : keys'[k].status # "none" => keys'[k].app \in App,
           \A s \in Caller : calls'[s].pc = "app" => calls'[s].app \in App,
           quiet => \A s \in Caller : calls'[s].pc = "run" => Validated(calls'[s].row)
    PROVE  AppsInv'
  <1>1. AppsTInv'
    BY DEF AppsInv, AppsTInv, EditFits
  <1>2. ASSUME quiet PROVE Quietly'
    <2>1. Quietly
      BY <1>2 DEF AppsInv
    <2>2. \A c : CheckCategory(c) => CheckCategory(c)'
      BY DEF CheckCategory
    <2>3. ASSUME NEW e \in Editor PROVE WriteSound(e)'
      BY <2>1, <2>2 DEF Quietly, WriteSound, CheckFlowFields, CheckCategory
    <2> QED
      BY <1>2, <2>1, <2>2, <2>3 DEF Quietly, Validated, CheckFlowFields, CheckCategory
  <1> QED
    BY <1>1, <1>2 DEF AppsInv

\* Every step keeps the invariant of the apps.
LEMMA AppsNextInv == AppsInv /\ [AppsNext]_appVars => AppsInv'
  <1> SUFFICES ASSUME AppsInv, [AppsNext]_appVars PROVE AppsInv'
    OBVIOUS
  <1>1. /\ apps \in [App -> AppRow] /\ categories \subseteq Category /\ keys \in [Key -> KeyRow]
        /\ calls \in [Caller -> CallRow] /\ quiet \in BOOLEAN
        /\ \A k \in Key : keys[k].status # "none" => keys[k].app \in App
        /\ \A s \in Caller : calls[s].pc = "app" => calls[s].app \in App
    BY DEF AppsInv, AppsTInv
  <1>2. quiet => \A s \in Caller : calls[s].pc = "run" => Validated(calls[s].row)
    BY DEF AppsInv, Quietly
  <1>3. ASSUME NEW e \in Editor, NEW a \in App, NEW o \in Orchestration, NEW g \in SomeGraph, NEW c \in SomeCategory,
               BeginCreate(e, a, o, g, c)
        PROVE  AppsInv'
    <2> DEFINE row == Created(o, g, c)
    <2>2. row \in AppRow /\ row.status = "draft" /\ row.category = c
      BY RowCreated
    <2>3. CheckCategory(c) /\ Begin(e, a, "create", row, "none", NoGraph)
      BY <1>3 DEF BeginCreate, Created
    <2>4. NoGraph \in Orchestration \cup SomeGraph \cup SomeCategory
      BY DEF SomeGraph
    <2> HIDE DEF row
    <2> QED
      BY <2>2, <2>3, <2>4, BeginKeeps
  <1>4. ASSUME NEW e \in Editor, NEW a \in App, NEW field \in {"orchestration", "graph", "category"}, NEW to, Suits(field, to),
               BeginUpdate(e, a, field, to)
        PROVE  AppsInv'
    <2>1. to \in Orchestration \cup SomeGraph \cup SomeCategory
      BY <1>4 DEF Suits
    <2>2. (field = "category" => CheckCategory(to)) /\ Begin(e, a, "update", apps[a], field, to)
      BY <1>4 DEF BeginUpdate
    <2> QED
      BY <1>1, <1>4, <2>1, <2>2, BeginKeeps
  <1>5. ASSUME NEW e \in Editor, NEW a \in App, NEW c \in Category, BeginPublish(e, a, c) PROVE AppsInv'
    <2> DEFINE row == [apps[a] EXCEPT !.category = c]
    <2>1. /\ c \in categories \cup {apps[a].category} /\ CheckFlowFields(apps[a])
          /\ Begin(e, a, "publish", row, "none", NoGraph)
      BY <1>5 DEF BeginPublish
    <2>2. row \in AppRow /\ row.category = c /\ row.orchestration = apps[a].orchestration /\ row.graph = apps[a].graph
      BY <1>1, Categorised DEF SomeCategory
    <2>3. quiet => CheckCategory(c)
      BY <2>1 DEF AppsInv, Quietly, CheckCategory
    <2>4. NoGraph \in Orchestration \cup SomeGraph \cup SomeCategory
      BY DEF SomeGraph
    <2> HIDE DEF row
    <2> QED
      BY <2>1, <2>2, <2>3, <2>4, BeginKeeps
  <1>6. ASSUME NEW c \in Category, NEW n \in Category, RenameCategory(c, n) PROVE AppsInv'
    <2>1. n \in SomeCategory /\ categories' = (categories \ {c}) \cup {n} /\ Relabel(c, n)
          /\ quiet' = (quiet /\ AllIdle) /\ UNCHANGED <<keys, edits, calls>>
      BY <1>6 DEF RenameCategory, SomeCategory
    <2> QED
      BY <1>1, <2>1, RelabelKeeps
  <1>7. ASSUME NEW c \in Category, DeleteCategory(c) PROVE AppsInv'
    <2>1. NoCategory \in SomeCategory /\ categories' = categories \ {c} /\ Relabel(c, NoCategory)
          /\ quiet' = (quiet /\ AllIdle) /\ UNCHANGED <<keys, edits, calls>>
      BY <1>7 DEF DeleteCategory, SomeCategory
    <2> QED
      BY <1>1, <2>1, RelabelKeeps
  <1>8. CASE EnsureDefaultCategories
    BY <1>1, <1>2, <1>8, ChatAppsConstants, OutsideKeeps DEF EnsureDefaultCategories
  <1>9. ASSUME NEW c \in Category, CreateCategory(c) PROVE AppsInv'
    BY <1>1, <1>2, <1>9, OutsideKeeps DEF CreateCategory
  <1>10. ASSUME NEW k \in Key, NEW a \in App, CreateApiKey(k, a) PROVE AppsInv'
    <2>1. keys' = [keys EXCEPT ![k] = [status |-> "active", app |-> a]] /\ UNCHANGED <<apps, categories, edits, calls, quiet>>
      BY <1>10 DEF CreateApiKey
    <2>2. keys' \in [Key -> KeyRow] /\ \A l \in Key : keys'[l].status # "none" => keys'[l].app \in App
      BY <1>1, <2>1 DEF KeyRow
    <2> QED
      BY <1>1, <1>2, <2>1, <2>2, OutsideKeeps
  <1>11. ASSUME NEW k \in Key, RevokeApiKey(k) PROVE AppsInv'
    <2>1. keys[k].status = "active" /\ keys' = [keys EXCEPT ![k].status = "revoked"] /\ UNCHANGED <<apps, categories, edits, calls, quiet>>
      BY <1>11 DEF RevokeApiKey
    <2>2. keys' \in [Key -> KeyRow] /\ \A l \in Key : keys'[l].status # "none" => keys'[l].app \in App
      BY <1>1, <2>1 DEF KeyRow
    <2> QED
      BY <1>1, <1>2, <2>1, <2>2, OutsideKeeps
  <1>12. ASSUME NEW s \in Caller, NEW k \in Key, VerifyApiKey(s, k) PROVE AppsInv'
    <2> DEFINE call == [NoCall EXCEPT !.pc = "app", !.app = keys[k].app]
    <2>1. keys[k].app \in App /\ calls' = [calls EXCEPT ![s] = call] /\ UNCHANGED <<apps, categories, keys, edits, quiet>>
      BY <1>1, <1>12 DEF VerifyApiKey
    <2>2. call \in CallRow /\ call.pc = "app" /\ call.app = keys[k].app
      BY <2>1, NoCallTyped DEF CallRow
    <2> HIDE DEF call
    <2> QED
      BY <1>1, <1>2, <2>1, <2>2, OutsideKeeps
  <1>13. ASSUME NEW s \in Caller, ApiChat(s) PROVE AppsInv'
    <2> DEFINE call == IF apps[calls[s].app].status = "published"
                       THEN [calls[s] EXCEPT !.pc = "run", !.row = apps[calls[s].app]] ELSE NoCall
    <2>1. calls[s].pc = "app" /\ calls' = [calls EXCEPT ![s] = call] /\ UNCHANGED <<apps, categories, keys, edits, quiet>>
      BY <1>1, <1>13 DEF ApiChat
    <2>2. apps[calls[s].app] \in AppRow /\ calls[s].app \in App
      BY <1>1, <2>1
    <2>3. call \in CallRow /\ call.pc # "app"
      BY <1>1, <2>2, NoCallTyped DEF CallRow
    <2>4. quiet /\ call.pc = "run" => Validated(call.row)
      <3>1. call.pc = "run" => apps[calls[s].app].status = "published" /\ call.row = apps[calls[s].app]
        BY <1>1, <2>2, NoCallTyped DEF CallRow
      <3> HIDE DEF call
      <3> QED
        BY <2>2, <3>1 DEF AppsInv, Quietly
    <2> HIDE DEF call
    <2> QED
      BY <1>1, <1>2, <2>1, <2>3, <2>4, OutsideKeeps
  <1>14. ASSUME NEW s \in Caller, EndCall(s) PROVE AppsInv'
    BY <1>1, <1>2, <1>14, NoCallTyped, OutsideKeeps DEF EndCall
  <1>15. CASE UNCHANGED appVars
    BY <1>1, <1>2, <1>15, OutsideKeeps DEF appVars
  <1>16. ASSUME NEW e \in Editor, NEW a \in App,
                \/ \E o \in Orchestration : BeginUpdate(e, a, "orchestration", o)
                \/ \E g \in SomeGraph : BeginUpdate(e, a, "graph", g)
                \/ \E c \in SomeCategory : BeginUpdate(e, a, "category", c)
         PROVE  AppsInv'
    BY <1>4, <1>16 DEF Suits
  <1> QED
    BY <1>3, <1>5, <1>6, <1>7, <1>8, <1>9, <1>10, <1>11, <1>12, <1>13, <1>14, <1>15, <1>16, AppWriteKeeps, DeleteKeeps
    DEF AppsNext, Orchestration, SomeGraph, SomeCategory

\* Every field of the apps, categories, keys and requests of the workbench holds
\* a value of its set, and a request that is about to write is about an app.
THEOREM AppsTypeCorrect == AppsSpec => []AppsTInv
  <1>1. AppsInv => AppsTInv
    BY DEF AppsInv
  <1> QED
    BY <1>1, AppsInitInv, AppsNextInv, PTL DEF AppsSpec

\* While no two requests of the workbench overlapped, what the public endpoint
\* runs is what a publication validated, and the category of every app is one of
\* the vocabulary, for any number of apps, editors, keys, callers and categories.
THEOREM AppsCorrect == AppsSpec => []AppsAsPublished
  <1>1. AppsInv => AppsAsPublished
    BY DEF AppsInv, Quietly, Validated, AppsAsPublished, ServedAsPublished, CategoriesKnown
  <1> QED
    BY <1>1, AppsInitInv, AppsNextInv, PTL DEF AppsSpec

--------------------------------------------------------------------------------
(****************************************************************************)
(* Calls.                                                                   *)
(****************************************************************************)
CapabilityRow == [there : BOOLEAN, status : {"active", "deprecated"}, type : {"query", "command"},
                  needs : SUBSET Permission, adapter : Adapter \cup {"none"}]
Calling == {"required", "allowed", "row", "permissions", "adapter", "waiting"}
StepRow == [pc : Calling \cup {"off", "over"}, capability : Capability \cup {Rule}, via : {"flow", "invoke"},
            approved : BOOLEAN, needs : SUBSET Permission, row : CapabilityRow,
            outer : 0..3, inner : 0..3, made : 0..9, late : 0..3]
ChangeRow == [pc : {"off", "write"}, capability : Capability \cup {Rule}, row : CapabilityRow]

CallsTInv ==
    /\ capabilities \in [Capability -> CapabilityRow]
    /\ permissions \subseteq Permission
    /\ steps \in [StepRun -> StepRow]
    /\ changes \in [Admin -> ChangeRow]
    /\ \A a \in Admin : changes[a].pc = "write" => changes[a].capability \in Capability
    /\ \A s \in StepRun : steps[s].pc \in Calling => steps[s].capability \in Capability

\* What a step has called is within its attempts so far.
Counted(t) ==
    /\ t.pc \in {"off", "required", "allowed"} => t.made = 0
    /\ t.pc \in {"row", "permissions"} => t.via = "flow" /\ t.outer >= 1 /\ t.made <= 3 * (t.outer - 1)
    /\ t.pc = "adapter" => t.inner >= 1
    /\ t.pc = "adapter" /\ t.via = "flow" => t.outer >= 1 /\ t.made <= 3 * (t.outer - 1) + t.inner - 1
    /\ t.pc = "adapter" /\ t.via = "invoke" => t.made <= t.inner - 1
    /\ t.pc = "waiting" => t.via = "flow"

\* May the step t call?  Callable is this of the step of s.
Passes(t, row) == t.via = "flow" => row.there /\ row.status = "active" /\ (row.type = "command" => t.approved)
MayCall(t) == capabilities[t.capability].needs \subseteq permissions /\ Passes(t, capabilities[t.capability])

\* What a step has called since it could not be called any more are calls of the
\* attempt it is at; a step that checks again has read what is there now, unless
\* something has changed, and then it counts afresh.
LateCounted(t) ==
    /\ t.pc = "adapter" => t.late <= t.inner - 1 \/ MayCall(t)
    /\ t.pc = "permissions" /\ t.late # 0 => t.row = capabilities[t.capability] /\ Passes(t, t.row)
    /\ t.pc = "off" \/ (t.via = "invoke" /\ t.pc \in {"required", "allowed"}) => t.late = 0

StepsInv == \A s \in StepRun : Counted(steps[s]) /\ LateCounted(steps[s])

\* Plans are of what was offered, and so is what is cached.
PlanRow == [pc : {"off", "cache", "model", "rule", "planned"}, offered : SUBSET Capability,
            steps : SUBSET (Capability \cup {Rule})]
PlansInv ==
    /\ plans \in [Planner -> PlanRow]
    /\ planCache \subseteq [offered : SUBSET Capability, steps : SUBSET Capability]
    /\ \A e \in planCache : e.steps \subseteq e.offered
    /\ PlansAreOffered

CallsInv == CallsTInv /\ StepsInv /\ PlansInv

\* What stands for no capability, step, change and plan.
LEMMA NoCapabilityTyped == NoCapability \in CapabilityRow
  BY DEF NoCapability, CapabilityRow
LEMMA NoStepTyped ==
    /\ NoStep \in StepRow /\ NoStep.pc = "off" /\ NoStep.made = 0 /\ NoStep.late = 0 /\ NoStep.outer = 0 /\ NoStep.inner = 0
    /\ NoStep.via = "flow"
  BY NoCapabilityTyped DEF NoStep, StepRow
LEMMA NoChangeTyped == NoChange \in ChangeRow /\ NoChange.pc = "off"
  BY NoCapabilityTyped DEF NoChange, ChangeRow
LEMMA NoPlanTyped == NoPlan \in PlanRow /\ NoPlan.pc = "off"
  BY DEF NoPlan, PlanRow

\* At the beginning nothing is registered and nothing runs.
LEMMA CallsInitInv == CallsInit => CallsInv
  <1> SUFFICES ASSUME CallsInit PROVE CallsInv
    OBVIOUS
  <1>1. CallsTInv
    BY NoCapabilityTyped, NoStepTyped, NoChangeTyped DEF CallsInit, CallsTInv, Calling
  <1>2. StepsInv
    BY NoStepTyped DEF CallsInit, StepsInv, Counted, LateCounted
  <1>3. PlansInv
    BY NoPlanTyped DEF CallsInit, PlansInv, PlansAreOffered
  <1> QED
    BY <1>1, <1>2, <1>3 DEF CallsInv

\* A step moves to u.
LEMMA StepMoves ==
    ASSUME CallsInv, NEW s \in StepRun, NEW u \in StepRow, Step(s, u),
           u.pc \in Calling => u.capability \in Capability, Counted(u), LateCounted(u)
    PROVE  CallsInv'
  <1>1. steps' = [steps EXCEPT ![s] = u] /\ UNCHANGED <<capabilities, permissions, changes, plans, planCache>>
    BY DEF Step
  <1>2. steps \in [StepRun -> StepRow]
    BY DEF CallsInv, CallsTInv
  <1>3. steps' \in [StepRun -> StepRow] /\ steps'[s] = u /\ \A r \in StepRun : r # s => steps'[r] = steps[r]
    BY <1>1, <1>2
  <1>4. CallsTInv'
    BY <1>1, <1>3 DEF CallsInv, CallsTInv
  <1>5. ASSUME NEW t, LateCounted(t) PROVE LateCounted(t)'
    BY <1>1, <1>5 DEF LateCounted, MayCall, Passes
  <1>6. ASSUME NEW r \in StepRun, NEW t, t = steps'[r] PROVE Counted(t) /\ LateCounted(t)
    BY <1>3, <1>6 DEF CallsInv, StepsInv
  <1>7. StepsInv'
    <2>1. ASSUME NEW r \in StepRun PROVE Counted(steps[r])'
      BY <1>6 DEF Counted
    <2>2. ASSUME NEW r \in StepRun PROVE LateCounted(steps[r])'
      BY <1>1, <1>6 DEF LateCounted, MayCall, Passes
    <2> QED
      BY <2>1, <2>2 DEF StepsInv
  <1>8. PlansInv'
    BY <1>1 DEF CallsInv, PlansInv, PlansAreOffered
  <1> QED
    BY <1>4, <1>7, <1>8 DEF CallsInv

Forgetful(t) == [t EXCEPT !.late = 0]

\* A step that counts afresh has no late call.
LEMMA Forgets ==
    ASSUME NEW t \in StepRow
    PROVE  LET u == Forgetful(t)
           IN  /\ u \in StepRow /\ u.late = 0 /\ u.pc = t.pc /\ u.capability = t.capability /\ u.via = t.via
               /\ u.outer = t.outer /\ u.inner = t.inner /\ u.made = t.made
  BY DEF StepRow, Forgetful

\* What an administrator changes makes the steps count afresh.
LEMMA AdministratorWrites ==
    ASSUME CallsInv, Forget, UNCHANGED <<plans, planCache>>,
           capabilities' \in [Capability -> CapabilityRow], permissions' \subseteq Permission,
           changes' \in [Admin -> ChangeRow],
           \A a \in Admin : changes'[a].pc = "write" => changes'[a].capability \in Capability
    PROVE  CallsInv'
  <1>1. steps' = [s \in StepRun |-> Forgetful(steps[s])] /\ steps \in [StepRun -> StepRow]
    BY DEF Forget, Forgetful, CallsInv, CallsTInv
  <1>2. ASSUME NEW s \in StepRun
        PROVE  /\ steps'[s] \in StepRow /\ steps'[s].late = 0 /\ steps'[s].pc = steps[s].pc
               /\ steps'[s].capability = steps[s].capability /\ steps'[s].via = steps[s].via
               /\ steps'[s].outer = steps[s].outer /\ steps'[s].inner = steps[s].inner /\ steps'[s].made = steps[s].made
    <2>1. steps'[s] = Forgetful(steps[s]) /\ steps[s] \in StepRow
      BY <1>1
    <2> QED
      BY <2>1, Forgets
  <1>3. CallsTInv'
    <2>1. steps' \in [StepRun -> StepRow]
      BY <1>1, <1>2
    <2> QED
      BY <1>2, <2>1 DEF CallsInv, CallsTInv
  <1>4. StepsInv'
    <2>1. ASSUME NEW s \in StepRun PROVE Counted(steps[s])'
      BY <1>2 DEF Counted, CallsInv, StepsInv
    <2>2. ASSUME NEW s \in StepRun PROVE LateCounted(steps[s])'
      <3>1. steps'[s].pc = "adapter" => steps'[s].inner >= 1 /\ steps'[s].inner \in 0..3
        BY <1>2, <2>1 DEF Counted, StepRow
      <3> QED
        BY <1>2, <3>1 DEF LateCounted
    <2> QED
      BY <2>1, <2>2 DEF StepsInv
  <1>5. PlansInv'
    BY DEF CallsInv, PlansInv, PlansAreOffered
  <1> QED
    BY <1>3, <1>4, <1>5 DEF CallsInv

\* One field of a capability is changed.
LEMMA RowFieldChanged ==
    ASSUME NEW row \in CapabilityRow, NEW field \in {"type", "needs", "adapter"}, NEW to,
           field = "type" => to \in {"query", "command"}, field = "needs" => to \subseteq Permission,
           field = "adapter" => to \in Adapter
    PROVE  [row EXCEPT ![field] = to] \in CapabilityRow
  <1>1. CASE field = "type"
    BY <1>1 DEF CapabilityRow
  <1>2. CASE field = "needs"
    BY <1>2 DEF CapabilityRow
  <1>3. CASE field = "adapter"
    BY <1>3 DEF CapabilityRow
  <1> QED
    BY <1>1, <1>2, <1>3

\* Its status is one of the two.
LEMMA StatusWritten ==
    ASSUME NEW row \in CapabilityRow, NEW status \in {"active", "deprecated"}
    PROVE  [row EXCEPT !.status = status] \in CapabilityRow
  BY DEF CapabilityRow

\* Only the changes under way are written.
LEMMA ChangesMove ==
    ASSUME CallsInv, UNCHANGED <<capabilities, permissions, steps, plans, planCache>>,
           changes' \in [Admin -> ChangeRow],
           \A a \in Admin : changes'[a].pc = "write" => changes'[a].capability \in Capability
    PROVE  CallsInv'
  <1>1. CallsTInv'
    BY DEF CallsInv, CallsTInv
  <1>2. StepsInv'
    BY DEF CallsInv, StepsInv, Counted, LateCounted, MayCall, Passes
  <1>3. PlansInv'
    BY DEF CallsInv, PlansInv, PlansAreOffered
  <1> QED
    BY <1>1, <1>2, <1>3 DEF CallsInv

\* Whatever an administrator does keeps the invariant.
LEMMA AdministrateKeeps == CallsInv /\ Administrate => CallsInv'
  <1> SUFFICES ASSUME CallsInv, Administrate PROVE CallsInv'
    OBVIOUS
  <1>1. /\ capabilities \in [Capability -> CapabilityRow] /\ permissions \subseteq Permission /\ changes \in [Admin -> ChangeRow]
        /\ \A a \in Admin : changes[a].pc = "write" => changes[a].capability \in Capability
    BY DEF CallsInv, CallsTInv
  <1>2. ASSUME NEW c \in Capability, DeprecateCapability(c) PROVE CallsInv'
    <2>1. capabilities' = [capabilities EXCEPT ![c] = [capabilities[c] EXCEPT !.status = "deprecated"]]
          /\ Forget /\ UNCHANGED <<permissions, changes, plans, planCache>>
      BY <1>2 DEF DeprecateCapability
    <2>2. capabilities' \in [Capability -> CapabilityRow]
      BY <1>1, <2>1, StatusWritten
    <2> QED
      BY <1>1, <2>1, <2>2, AdministratorWrites
  <1>3. ASSUME NEW c \in Capability, NEW type \in {"query", "command"}, NEW needs \in SUBSET Permission, NEW d \in Adapter,
               CreateCapability(c, type, needs, d)
        PROVE  CallsInv'
    <2>1. capabilities' = [capabilities EXCEPT ![c] =
             [there |-> TRUE, status |-> "active", type |-> type, needs |-> needs, adapter |-> d]]
          /\ Forget /\ UNCHANGED <<permissions, changes, plans, planCache>>
      BY <1>3 DEF CreateCapability
    <2>2. [there |-> TRUE, status |-> "active", type |-> type, needs |-> needs, adapter |-> d] \in CapabilityRow
      BY DEF CapabilityRow
    <2>3. capabilities' \in [Capability -> CapabilityRow]
      BY <1>1, <2>1, <2>2
    <2> QED
      BY <1>1, <2>1, <2>3, AdministratorWrites
  <1>4. ASSUME NEW a \in Admin, WriteChange(a) PROVE CallsInv'
    <2>1. /\ capabilities' = [c \in Capability |->
               IF c = changes[a].capability THEN [changes[a].row EXCEPT !.status = capabilities[c].status]
               ELSE capabilities[c]]
          /\ changes' = [changes EXCEPT ![a] = NoChange]
          /\ Forget /\ UNCHANGED <<permissions, plans, planCache>>
      BY <1>4 DEF WriteChange
    <2>2. changes[a].row \in CapabilityRow /\ \A c \in Capability : capabilities[c].status \in {"active", "deprecated"}
      BY <1>1 DEF ChangeRow, CapabilityRow
    <2>3. \A c \in Capability : [changes[a].row EXCEPT !.status = capabilities[c].status] \in CapabilityRow
      BY <2>2, StatusWritten
    <2>4. capabilities' \in [Capability -> CapabilityRow]
      BY <1>1, <2>1, <2>3
    <2>5. changes' \in [Admin -> ChangeRow] /\ \A b \in Admin : changes'[b].pc = "write" => changes'[b].capability \in Capability
      BY <1>1, <2>1, NoChangeTyped
    <2> QED
      BY <1>1, <2>1, <2>4, <2>5, AdministratorWrites
  <1>5. ASSUME NEW a \in Admin, ChangeFails(a) PROVE CallsInv'
    <2>1. changes' = [changes EXCEPT ![a] = NoChange] /\ UNCHANGED <<capabilities, permissions, steps, plans, planCache>>
      BY <1>5 DEF ChangeFails
    <2>2. changes' \in [Admin -> ChangeRow] /\ \A b \in Admin : changes'[b].pc = "write" => changes'[b].capability \in Capability
      BY <1>1, <2>1, NoChangeTyped
    <2> QED
      BY <2>1, <2>2, ChangesMove
  <1>6. ASSUME NEW a \in Admin, NEW c \in Capability, NEW field \in {"type", "needs", "adapter"}, NEW to,
               field = "type" => to \in {"query", "command"}, field = "needs" => to \subseteq Permission,
               field = "adapter" => to \in Adapter, BeginChange(a, c, field, to)
        PROVE  CallsInv'
    <2> DEFINE row == [capabilities[c] EXCEPT ![field] = to]
    <2>1. /\ changes' = [changes EXCEPT ![a] = [pc |-> "write", capability |-> c, row |-> row]]
          /\ UNCHANGED <<capabilities, permissions, steps, plans, planCache>>
      BY <1>6 DEF BeginChange
    <2>2. row \in CapabilityRow
      BY <1>1, <1>6, RowFieldChanged
    <2> HIDE DEF row
    <2>3. [pc |-> "write", capability |-> c, row |-> row] \in ChangeRow
      BY <2>2 DEF ChangeRow
    <2>4. changes' \in [Admin -> ChangeRow] /\ \A b \in Admin : changes'[b].pc = "write" => changes'[b].capability \in Capability
      BY <1>1, <2>1, <2>3
    <2> QED
      BY <2>1, <2>4, ChangesMove
  <1>7. ASSUME NEW granted \in SUBSET Permission, SetPermissions(granted) PROVE CallsInv'
    BY <1>1, <1>7, AdministratorWrites DEF SetPermissions
  <1>8. ASSUME NEW a \in Admin, NEW c \in Capability,
               \/ \E type \in {"query", "command"} : BeginChange(a, c, "type", type)
               \/ \E needs \in (SUBSET Permission) \ {{}} : BeginChange(a, c, "needs", needs)
               \/ \E d \in Adapter : BeginChange(a, c, "adapter", d)
        PROVE  CallsInv'
    BY <1>6, <1>8
  <1> QED
    BY <1>2, <1>3, <1>4, <1>5, <1>7, <1>8 DEF Administrate

-------------------------------------------------------------------------------
(* Steps                                                                    *)

\* A step that is over has no more calls to make.
LEMMA OverCounted ==
    ASSUME NEW t, t.made \in 0..9, t.late \in 0..3
    PROVE  StepOver(t) \in StepRow /\ StepOver(t).pc = "over" /\ Counted(StepOver(t)) /\ LateCounted(StepOver(t))
  <1>1. StepOver(t) \in StepRow /\ StepOver(t).pc = "over"
    BY NoStepTyped DEF StepOver, StepRow
  <1> QED
    BY <1>1 DEF Counted, LateCounted

\* Another attempt has as many calls as there were attempts before it.
Again(t, made, late) == [t EXCEPT !.pc = "row", !.row = NoCapability, !.outer = @ + 1, !.inner = 0, !.made = made, !.late = late]
LEMMA AgainCounted ==
    ASSUME NEW t \in StepRow, NEW made \in 0..9, NEW late \in 0..3,
           t.via = "flow", t.outer \in 1..2, made <= 3 * t.outer
    PROVE  LET u == Again(t, made, late)
           IN  u \in StepRow /\ u.pc = "row" /\ u.capability = t.capability /\ Counted(u) /\ LateCounted(u)
  <1> DEFINE u == Again(t, made, late)
  <1>1. /\ u \in StepRow /\ u.pc = "row" /\ u.capability = t.capability /\ u.via = t.via
        /\ u.outer = t.outer + 1 /\ u.made = made /\ u.late = late
    <2> DEFINE v == [t EXCEPT !.pc = "row", !.row = NoCapability, !.outer = @ + 1]
    <2>0. t.outer + 1 \in 0..3 /\ 0 \in 0..3
      OBVIOUS
    <2>1. /\ v \in StepRow /\ v.pc = "row" /\ v.capability = t.capability /\ v.via = t.via /\ v.outer = t.outer + 1
      BY <2>0, NoCapabilityTyped DEF StepRow, Calling
    <2>2. u = [v EXCEPT !.inner = 0, !.made = made, !.late = late]
      BY DEF Again
    <2> HIDE DEF u, v
    <2> QED
      BY <2>0, <2>1, <2>2 DEF StepRow
  <1> HIDE DEF u
  <1>2. Counted(u) /\ LateCounted(u)
    BY <1>1 DEF Counted, LateCounted
  <1> QED
    BY <1>1, <1>2 DEF u

\* An attempt that fails is tried again, or was the last one.
LEMMA FailedCounted ==
    ASSUME CallsInv, NEW s \in StepRun, steps[s].pc \in {"row", "permissions"}
    PROVE  LET u == AttemptFailed(s)
           IN  u \in StepRow /\ (u.pc \in Calling => u.capability \in Capability) /\ Counted(u) /\ LateCounted(u)
  <1> DEFINE t == steps[s]
  <1>1. /\ t \in StepRow /\ t.capability \in Capability /\ t.made \in 0..9 /\ t.late \in 0..3 /\ t.outer \in 0..3
        /\ t.via = "flow" /\ t.outer >= 1 /\ t.made <= 3 * (t.outer - 1)
    BY DEF CallsInv, CallsTInv, StepsInv, Counted, Calling, StepRow
  <1>2. CASE t.outer < 3
    <2>1. AttemptFailed(s) = Again(t, t.made, t.late)
      BY <1>1, <1>2 DEF AttemptFailed, Attempts, Again, StepRow
    <2> QED
      BY SMTT(30), <1>1, <1>2, <2>1, AgainCounted
  <1>3. CASE ~(t.outer < 3)
    BY <1>1, <1>3, OverCounted DEF AttemptFailed, Attempts, Calling
  <1> QED
    BY <1>2, <1>3

\* Each step of a call but the call itself keeps the invariant.
LEMMA StepActionsKeep ==
    ASSUME CallsInv, NEW s \in StepRun,
           \/ \E c \in Capability, via \in {"flow", "invoke"}, approved \in BOOLEAN : BeginStep(s, c, via, approved)
           \/ RequiredPermissions(s) \/ BeforeStep(s) \/ ReadCapability(s) \/ CheckPermissions(s)
           \/ Approve(s) \/ Reject(s) \/ EndStep(s)
    PROVE  CallsInv'
  <1> DEFINE t == steps[s]
  <1>1. /\ t \in StepRow /\ Counted(t) /\ LateCounted(t) /\ (t.pc \in Calling => t.capability \in Capability)
        /\ capabilities \in [Capability -> CapabilityRow] /\ permissions \subseteq Permission
    BY DEF CallsInv, CallsTInv, StepsInv
  <1>2. t.made \in 0..9 /\ t.late \in 0..3 /\ t.outer \in 0..3 /\ t.inner \in 0..3 /\ t.via \in {"flow", "invoke"}
    BY <1>1 DEF StepRow
  <1>0. 0 \in 0..3 /\ 1 \in 0..3 /\ 0 \in 0..9 /\ {} \in SUBSET Permission
    OBVIOUS
  <1>3. StepOver(t) \in StepRow /\ StepOver(t).pc \notin Calling /\ Counted(StepOver(t)) /\ LateCounted(StepOver(t))
    BY <1>2, OverCounted DEF Calling
  <1>4. ASSUME NEW c \in Capability, NEW via \in {"flow", "invoke"}, NEW approved \in BOOLEAN, BeginStep(s, c, via, approved)
        PROVE  CallsInv'
    <2> DEFINE u == [NoStep EXCEPT !.pc = "required", !.capability = c, !.via = via, !.approved = approved]
    <2>1. u \in StepRow /\ u.pc = "required" /\ u.capability = c /\ u.made = 0 /\ u.late = 0
      BY NoStepTyped DEF StepRow, Calling
    <2>2. Step(s, u)
      BY <1>4 DEF BeginStep
    <2> HIDE DEF u
    <2>3. Counted(u) /\ LateCounted(u)
      BY <2>1 DEF Counted, LateCounted
    <2> QED
      BY <2>1, <2>2, <2>3, StepMoves
  <1>5. CASE RequiredPermissions(s)
    <2> DEFINE needs == capabilities[t.capability].needs
               u == [t EXCEPT !.pc = "allowed", !.needs = needs]
    <2>1. t.pc = "required" /\ Step(s, u) /\ t.capability \in Capability
      BY <1>1, <1>5 DEF RequiredPermissions, Calling
    <2>2. needs \subseteq Permission
      BY <1>1, <2>1 DEF CapabilityRow
    <2> HIDE DEF needs
    <2>3. u \in StepRow /\ u.pc = "allowed" /\ u.capability = t.capability /\ u.made = t.made /\ u.late = t.late /\ u.via = t.via
      BY <1>1, <2>2 DEF StepRow, Calling
    <2> HIDE DEF u
    <2>4. Counted(u) /\ LateCounted(u)
      BY <1>1, <2>1, <2>3 DEF Counted, LateCounted
    <2> QED
      BY <2>1, <2>3, <2>4, StepMoves
  <1>6. CASE BeforeStep(s)
    <2>1. t.pc = "allowed" /\ t.capability \in Capability /\ t.made = 0
      BY <1>1, <1>6 DEF BeforeStep, Calling, Counted
    <2>2. CASE ~(t.needs \subseteq permissions)
      BY <1>3, <1>6, <2>2, StepMoves DEF BeforeStep
    <2>3. CASE t.needs \subseteq permissions /\ t.via = "invoke"
      <3> DEFINE u == [t EXCEPT !.pc = "adapter", !.needs = {}, !.inner = 1]
      <3>1. Step(s, u) /\ t.late = 0
        BY <1>1, <1>6, <2>1, <2>3 DEF BeforeStep, LateCounted
      <3>2. /\ u \in StepRow /\ u.pc = "adapter" /\ u.capability = t.capability /\ u.made = t.made /\ u.late = t.late
            /\ u.via = t.via /\ u.inner = 1
        BY <1>0, <1>1 DEF StepRow, Calling
      <3> HIDE DEF u
      <3>3. Counted(u) /\ LateCounted(u)
        BY <2>1, <2>3, <3>1, <3>2 DEF Counted, LateCounted
      <3> QED
        BY <2>1, <3>1, <3>2, <3>3, StepMoves
    <2>4. CASE t.needs \subseteq permissions /\ t.via # "invoke"
      <3> DEFINE u == [t EXCEPT !.pc = "row", !.needs = {}, !.outer = 1]
      <3>1. Step(s, u) /\ t.via = "flow"
        BY <1>2, <1>6, <2>4 DEF BeforeStep
      <3>2. /\ u \in StepRow /\ u.pc = "row" /\ u.capability = t.capability /\ u.made = t.made /\ u.late = t.late
            /\ u.via = t.via /\ u.outer = 1
        BY <1>0, <1>1 DEF StepRow, Calling
      <3> HIDE DEF u
      <3>3. Counted(u) /\ LateCounted(u)
        BY <2>1, <3>1, <3>2 DEF Counted, LateCounted
      <3> QED
        BY <2>1, <3>1, <3>2, <3>3, StepMoves
    <2> QED
      BY <2>2, <2>3, <2>4
  <1>7. CASE ReadCapability(s)
    <2> DEFINE row == capabilities[t.capability]
    <2>1. t.pc = "row" /\ t.capability \in Capability /\ row \in CapabilityRow
      BY <1>1, <1>7 DEF ReadCapability, Calling
    <2>2. CASE ~row.there \/ row.status # "active"
      BY <1>7, <2>1, <2>2, FailedCounted, StepMoves DEF ReadCapability
    <2>3. CASE row.there /\ row.status = "active" /\ row.type = "command" /\ ~t.approved
      <3> DEFINE u == [t EXCEPT !.pc = "waiting"]
      <3>1. Step(s, u)
        BY <1>7, <2>3 DEF ReadCapability
      <3>2. u \in StepRow /\ u.pc = "waiting" /\ u.capability = t.capability /\ u.via = t.via
        BY <1>0, <1>1 DEF StepRow, Calling
      <3> HIDE DEF u
      <3>3. Counted(u) /\ LateCounted(u)
        BY <1>1, <2>1, <3>2 DEF Counted, LateCounted
      <3> QED
        BY <2>1, <3>1, <3>2, <3>3, StepMoves
    <2>4. CASE row.there /\ row.status = "active" /\ ~(row.type = "command" /\ ~t.approved)
      <3> DEFINE u == [t EXCEPT !.pc = "permissions", !.row = row]
      <3>1. Step(s, u)
        BY <1>7, <2>4 DEF ReadCapability
      <3>2. /\ u \in StepRow /\ u.pc = "permissions" /\ u.capability = t.capability /\ u.via = t.via /\ u.row = row
            /\ u.outer = t.outer /\ u.made = t.made /\ u.late = t.late /\ u.approved = t.approved
        BY <1>1, <2>1 DEF StepRow, Calling
      <3> HIDE DEF u
      <3>3. Counted(u)
        BY <1>1, <2>1, <3>2 DEF Counted
      <3>4. LateCounted(u)
        BY <2>4, <3>2 DEF LateCounted, Passes
      <3> QED
        BY <2>1, <3>1, <3>2, <3>3, <3>4, StepMoves
    <2> QED
      BY <2>2, <2>3, <2>4
  <1>8. CASE CheckPermissions(s)
    <2> DEFINE fine == t.row.needs \subseteq permissions /\ Dispatched(t.capability, t.row) \in Known
    <2>1. t.pc = "permissions" /\ t.capability \in Capability
      BY <1>1, <1>8 DEF CheckPermissions, Calling
    <2>2. CASE fine
      <3> DEFINE u == [t EXCEPT !.pc = "adapter", !.inner = 1]
      <3>1. Step(s, u)
        BY <1>8, <2>2 DEF CheckPermissions
      <3>2. /\ u \in StepRow /\ u.pc = "adapter" /\ u.capability = t.capability /\ u.via = t.via /\ u.inner = 1
            /\ u.outer = t.outer /\ u.made = t.made /\ u.late = t.late /\ u.approved = t.approved
        BY <1>0, <1>1 DEF StepRow, Calling
      <3> HIDE DEF u
      <3>3. Counted(u)
        BY <1>1, <1>2, <2>1, <3>2 DEF Counted
      <3>4. u.late # 0 => MayCall(u)
        BY <1>1, <2>1, <2>2, <3>2 DEF LateCounted, MayCall, Passes
      <3>5. LateCounted(u)
        BY <1>2, <3>2, <3>4 DEF LateCounted
      <3> QED
        BY <2>1, <3>1, <3>2, <3>3, <3>5, StepMoves
    <2>3. CASE ~fine
      BY <1>8, <2>1, <2>3, FailedCounted, StepMoves DEF CheckPermissions
    <2> QED
      BY <2>2, <2>3
  <1>9. CASE Approve(s)
    <2> DEFINE u == [t EXCEPT !.pc = "required", !.approved = TRUE, !.outer = 0, !.made = 0]
    <2>1. t.pc = "waiting" /\ t.capability \in Capability /\ t.via = "flow" /\ Step(s, u)
      BY <1>1, <1>9 DEF Approve, Calling, Counted
    <2>2. u \in StepRow /\ u.pc = "required" /\ u.capability = t.capability /\ u.via = t.via /\ u.made = 0
      BY <1>0, <1>1 DEF StepRow, Calling
    <2> HIDE DEF u
    <2>3. Counted(u) /\ LateCounted(u)
      BY <2>1, <2>2 DEF Counted, LateCounted
    <2> QED
      BY <2>1, <2>2, <2>3, StepMoves
  <1>10. CASE Reject(s)
    BY <1>3, <1>10, StepMoves DEF Reject
  <1>11. CASE EndStep(s)
    <2>1. Counted(NoStep) /\ LateCounted(NoStep) /\ NoStep.pc \notin Calling
      BY NoStepTyped DEF Counted, LateCounted, Calling
    <2> QED
      BY <1>11, <2>1, NoStepTyped, StepMoves DEF EndStep
  <1> QED
    BY <1>4, <1>5, <1>6, <1>7, <1>8, <1>9, <1>10, <1>11

\* A call counts, and it is a late one if the step may not call any more; the
\* attempts of both levels bound how many of them there are.
LEMMA CallKeeps ==
    ASSUME CallsInv, NEW s \in StepRun, NEW outcome \in {"answer", "connector", "other"}, CallAdapter(s, outcome)
    PROVE  CallsInv'
  <1> DEFINE t == steps[s]
             late == IF Callable(s) THEN t.late ELSE t.late + 1
             step == [t EXCEPT !.made = @ + 1, !.late = IF Callable(s) THEN @ ELSE @ + 1]
             failed == AttemptFailed(s)
             over == [failed EXCEPT !.made = step.made, !.late = step.late]
  <1>1. /\ t \in StepRow /\ Counted(t) /\ LateCounted(t) /\ t.pc = "adapter" /\ t.capability \in Capability
    BY DEF CallsInv, CallsTInv, StepsInv, CallAdapter, Calling
  <1>2. /\ t.made \in 0..9 /\ t.late \in 0..3 /\ t.outer \in 0..3 /\ t.inner \in 0..3 /\ t.via \in {"flow", "invoke"}
        /\ t.inner >= 1
        /\ t.via = "flow" => t.outer >= 1 /\ t.made <= 3 * (t.outer - 1) + t.inner - 1
        /\ t.via = "invoke" => t.made <= t.inner - 1
        /\ t.late <= t.inner - 1 \/ MayCall(t)
    BY <1>1 DEF StepRow, Counted, LateCounted
  <1>3. Callable(s) <=> MayCall(t)
    BY DEF Callable, MayCall, Passes
  <1>4. late \in 0..3 /\ (MayCall(t) => late = t.late) /\ (~MayCall(t) => late <= t.inner)
    BY <1>2, <1>3
  <1>5. t.made + 1 \in 0..9 /\ (t.via = "flow" => t.made + 1 <= 3 * t.outer)
    BY <1>2
  <1>6. step = [t EXCEPT !.made = t.made + 1, !.late = late]
    BY <1>1 DEF StepRow
  <1> HIDE DEF late
  <1>7. /\ step \in StepRow /\ step.made = t.made + 1 /\ step.late = late /\ step.inner = t.inner /\ step.pc = "adapter"
        /\ step.capability = t.capability /\ step.via = t.via /\ step.outer = t.outer /\ step.approved = t.approved
    BY <1>1, <1>4, <1>5, <1>6 DEF StepRow
  <1>8. Step(s, IF outcome = "connector" /\ step.inner < Attempts THEN [step EXCEPT !.inner = @ + 1]
                ELSE IF outcome = "connector" THEN over ELSE StepOver(step))
    BY DEF CallAdapter
  <1> HIDE DEF step
  <1>9. CASE outcome = "connector" /\ step.inner < Attempts
    <2> DEFINE u == [step EXCEPT !.inner = @ + 1]
    <2>1. Step(s, u) /\ t.inner < 3
      BY <1>7, <1>8, <1>9 DEF Attempts
    <2>2. /\ u \in StepRow /\ u.pc = "adapter" /\ u.made = t.made + 1 /\ u.late = late /\ u.inner = t.inner + 1
          /\ u.capability = t.capability /\ u.via = t.via /\ u.outer = t.outer /\ u.approved = t.approved
      BY <1>2, <1>7, <2>1 DEF StepRow
    <2> HIDE DEF u
    <2>3. Counted(u)
      BY <1>2, <2>2 DEF Counted
    <2>4. MayCall(u) <=> MayCall(t)
      BY <2>2 DEF MayCall, Passes
    <2>5. LateCounted(u)
      BY <1>2, <1>4, <2>2, <2>4 DEF LateCounted
    <2> QED
      BY <1>1, <2>1, <2>2, <2>3, <2>5, StepMoves
  <1>10. CASE outcome = "connector" /\ ~(step.inner < Attempts)
    <2>1. Step(s, over)
      BY <1>8, <1>10
    <2>2. CASE t.via = "flow" /\ t.outer < 3
      <3>1. over = Again(t, t.made + 1, late)
        <4>1. failed = [t EXCEPT !.pc = "row", !.row = NoCapability, !.outer = @ + 1, !.inner = 0]
          BY <2>2 DEF AttemptFailed, Attempts
        <4>2. over = [failed EXCEPT !.made = t.made + 1, !.late = late]
          BY <1>7
        <4> HIDE DEF over, failed
        <4> QED
          BY <1>1, <4>1, <4>2 DEF Again, StepRow
      <3> HIDE DEF over
      <3> QED
        <4>1. /\ over \in StepRow /\ over.pc = "row" /\ over.capability = t.capability
              /\ Counted(over) /\ LateCounted(over)
          <5>1. t.outer \in 1..2 /\ t.made + 1 <= 3 * t.outer /\ t.via = "flow"
            BY <1>2, <1>5, <2>2
          <5> DEFINE n == t.made + 1
          <5>2. n \in 0..9 /\ n <= 3 * t.outer /\ over = Again(t, n, late)
            BY <1>5, <3>1, <5>1
          <5> HIDE DEF n
          <5> QED
            BY <1>1, <1>4, <5>1, <5>2, AgainCounted
        <4> QED
          BY <1>1, <2>1, <4>1, StepMoves
    <2>3. CASE ~(t.via = "flow" /\ t.outer < 3)
      <3>1. failed = StepOver(t)
        BY <2>3 DEF AttemptFailed, Attempts
      <3>2. over = StepOver(step)
        BY <3>1, <1>7, NoStepTyped DEF StepOver, StepRow
      <3> HIDE DEF over
      <3>3. StepOver(step) \in StepRow /\ StepOver(step).pc \notin Calling /\ Counted(StepOver(step)) /\ LateCounted(StepOver(step))
        BY <1>4, <1>5, <1>7, OverCounted DEF Calling
      <3> QED
        BY <2>1, <3>2, <3>3, StepMoves
    <2> QED
      BY <2>2, <2>3
  <1>11. CASE outcome # "connector"
    <2>1. StepOver(step) \in StepRow /\ StepOver(step).pc \notin Calling /\ Counted(StepOver(step)) /\ LateCounted(StepOver(step))
      BY <1>4, <1>5, <1>7, OverCounted DEF Calling
    <2> QED
      BY <1>8, <1>11, <2>1, StepMoves
  <1> QED
    BY <1>9, <1>10, <1>11

-------------------------------------------------------------------------------
(* Plans                                                                    *)

\* A plan moves on to another one of what was offered.
LEMMA PlanKeeps ==
    ASSUME CallsInv, NEW p \in Planner, NEW plan \in PlanRow, Plan(p, plan),
           plan.pc = "planned" => plan.steps \subseteq plan.offered \/ plan.steps = {Rule},
           planCache' \subseteq [offered : SUBSET Capability, steps : SUBSET Capability],
           \A e \in planCache' : e.steps \subseteq e.offered
    PROVE  CallsInv'
  <1>1. plans' = [plans EXCEPT ![p] = plan] /\ UNCHANGED <<capabilities, permissions, steps, changes>>
    BY DEF Plan
  <1>2. plans \in [Planner -> PlanRow] /\ PlansAreOffered
    BY DEF CallsInv, PlansInv
  <1>3. CallsTInv' /\ StepsInv'
    BY <1>1 DEF CallsInv, CallsTInv, StepsInv, Counted, LateCounted, MayCall, Passes
  <1>4. plans' \in [Planner -> PlanRow] /\ plans'[p] = plan /\ \A q \in Planner : q # p => plans'[q] = plans[q]
    BY <1>1, <1>2
  <1>5. PlansAreOffered'
    BY <1>2, <1>4 DEF PlansAreOffered
  <1> QED
    BY <1>3, <1>4, <1>5 DEF CallsInv, PlansInv

\* Each step of the planner keeps the invariant.
LEMMA PlanActionsKeep ==
    ASSUME CallsInv, NEW p \in Planner,
           \/ \E offered \in SUBSET Capability : ListForPlanning(p, offered)
           \/ \E named \in SUBSET Capability : AskModel(p, named)
           \/ LookUpPlan(p) \/ AskRules(p) \/ EndPlan(p)
    PROVE  CallsInv'
  <1>1. /\ plans[p] \in PlanRow /\ planCache \subseteq [offered : SUBSET Capability, steps : SUBSET Capability]
        /\ \A e \in planCache : e.steps \subseteq e.offered
    BY DEF CallsInv, PlansInv
  <1>2. ASSUME NEW offered \in SUBSET Capability, ListForPlanning(p, offered) PROVE CallsInv'
    <2> DEFINE plan == [pc |-> "cache", offered |-> offered, steps |-> {}]
    <2>1. plan \in PlanRow /\ plan.pc # "planned"
      BY DEF PlanRow
    <2>2. Plan(p, plan) /\ planCache' = planCache
      BY <1>2 DEF ListForPlanning
    <2> HIDE DEF plan
    <2> QED
      BY <1>1, <2>1, <2>2, PlanKeeps
  <1>3. ASSUME NEW named \in SUBSET Capability, AskModel(p, named) PROVE CallsInv'
    <2> DEFINE valid == named \cap plans[p].offered
               entry == [offered |-> plans[p].offered, steps |-> valid]
    <2>1. plans[p].pc = "model"
      BY <1>3 DEF AskModel
    <2>2. CASE valid = {}
      <3> DEFINE plan == [plans[p] EXCEPT !.pc = "rule"]
      <3>1. Plan(p, plan) /\ planCache' = planCache
        BY <1>3, <2>2 DEF AskModel
      <3>2. plan \in PlanRow /\ plan.pc # "planned"
        BY <1>1 DEF PlanRow
      <3> HIDE DEF plan
      <3> QED
        BY <1>1, <3>1, <3>2, PlanKeeps
    <2>3. CASE valid # {}
      <3> DEFINE plan == [plans[p] EXCEPT !.pc = "planned", !.steps = valid]
      <3>1. Plan(p, plan) /\ planCache' = {e \in planCache : e.offered # plans[p].offered} \cup {entry}
        BY <1>3, <2>3 DEF AskModel
      <3>2. valid \subseteq Capability /\ valid \subseteq plans[p].offered /\ plans[p].offered \subseteq Capability
        BY <1>1 DEF PlanRow
      <3>3. entry \in [offered : SUBSET Capability, steps : SUBSET Capability] /\ entry.steps \subseteq entry.offered
        BY <3>2
      <3> HIDE DEF valid, entry
      <3>4. plan \in PlanRow /\ plan.steps \subseteq plan.offered
        BY <1>1, <3>2 DEF PlanRow
      <3>5. /\ planCache' \subseteq [offered : SUBSET Capability, steps : SUBSET Capability]
            /\ \A e \in planCache' : e.steps \subseteq e.offered
        BY <1>1, <3>1, <3>3
      <3> HIDE DEF plan
      <3> QED
        BY <3>1, <3>4, <3>5, PlanKeeps
    <2> QED
      BY <2>2, <2>3
  <1>4. CASE LookUpPlan(p)
    <2>1. CASE Cached(plans[p].offered) # {}
      <3>1. PICK e \in Cached(plans[p].offered) : Plan(p, [plans[p] EXCEPT !.pc = "planned", !.steps = e.steps])
        BY <1>4, <2>1 DEF LookUpPlan
      <3> DEFINE plan == [plans[p] EXCEPT !.pc = "planned", !.steps = e.steps]
      <3>2. e \in planCache /\ e.offered = plans[p].offered /\ e.steps \subseteq Capability /\ e.steps \subseteq plans[p].offered
        BY <1>1, <3>1 DEF Cached
      <3>3. plan \in PlanRow /\ plan.steps \subseteq plan.offered
        BY <1>1, <3>2 DEF PlanRow
      <3>4. Plan(p, plan) /\ planCache' = planCache
        BY <1>4, <3>1 DEF LookUpPlan
      <3> HIDE DEF plan
      <3> QED
        BY <1>1, <3>3, <3>4, PlanKeeps
    <2>2. CASE Cached(plans[p].offered) = {}
      <3> DEFINE plan == [plans[p] EXCEPT !.pc = IF plans[p].offered = {} THEN "rule" ELSE "model"]
      <3>1. Plan(p, plan) /\ planCache' = planCache
        BY <1>4, <2>2 DEF LookUpPlan
      <3>2. plan \in PlanRow /\ plan.pc # "planned"
        BY <1>1 DEF PlanRow
      <3> HIDE DEF plan
      <3> QED
        BY <1>1, <3>1, <3>2, PlanKeeps
    <2> QED
      BY <2>1, <2>2
  <1>5. CASE AskRules(p)
    <2> DEFINE ruled == [plans[p] EXCEPT !.pc = "planned", !.steps = {Rule}]
    <2>1. ruled \in PlanRow /\ ruled.steps = {Rule}
      BY <1>1 DEF PlanRow
    <2>2. planCache' = planCache /\ (Plan(p, NoPlan) \/ Plan(p, ruled))
      BY <1>5 DEF AskRules
    <2> HIDE DEF ruled
    <2> QED
      BY <1>1, <2>1, <2>2, NoPlanTyped, PlanKeeps
  <1>6. CASE EndPlan(p)
    BY <1>1, <1>6, NoPlanTyped, PlanKeeps DEF EndPlan
  <1> QED
    BY <1>2, <1>3, <1>4, <1>5, <1>6

\* Every step keeps the invariant of the calls.
LEMMA CallsNextInv == CallsInv /\ [CallNext \/ PlanNext]_callVars => CallsInv'
  <1> SUFFICES ASSUME CallsInv, [CallNext \/ PlanNext]_callVars PROVE CallsInv'
    OBVIOUS
  <1>1. ASSUME NEW e \in planCache, Expire(e) PROVE CallsInv'
    <2>1. planCache' = planCache \ {e} /\ UNCHANGED <<capabilities, permissions, steps, changes, plans>>
      BY <1>1 DEF Expire
    <2>2. CallsTInv' /\ StepsInv'
      BY <2>1 DEF CallsInv, CallsTInv, StepsInv, Counted, LateCounted, MayCall, Passes
    <2>3. PlansInv'
      BY <2>1 DEF CallsInv, PlansInv, PlansAreOffered
    <2> QED
      BY <2>2, <2>3 DEF CallsInv
  <1>2. CASE UNCHANGED callVars
    BY <1>2, ChangesMove DEF callVars, CallsInv, CallsTInv
  <1> QED
    BY <1>1, <1>2, AdministrateKeeps, StepActionsKeep, CallKeeps, PlanActionsKeep DEF CallNext, PlanNext

\* Every field of the capabilities, steps, changes and plans holds a value of its
\* set, and a step that is under way is about a capability.
THEOREM CallsTypeCorrect == CallsSpec => []CallsTInv
  <1>1. CallsInv => CallsTInv
    BY DEF CallsInv
  <1> QED
    BY <1>1, CallsInitInv, CallsNextInv, PTL DEF CallsSpec

\* A step calls its adapter nine times at most, of which at most three are late:
\* made after the capability could not be called any more; and a plan is
\* of what was offered to the model, or the one step of the dictionary.  For any
\* number of steps, capabilities, permissions, administrators and planners.
THEOREM CapabilitiesGoverned == CallsSpec => []CapabilitiesAreGoverned
  <1>1. CallsInv => CapabilitiesAreGoverned
    <2> SUFFICES ASSUME CallsInv PROVE CapabilitiesAreGoverned
      OBVIOUS
    <2>1. ASSUME NEW s \in StepRun PROVE steps[s].made <= 3 * 3 /\ steps[s].late <= 3
      <3>1. steps[s] \in StepRow
        BY DEF CallsInv, CallsTInv
      <3> QED
        BY <3>1 DEF StepRow
    <2> QED
      BY <2>1 DEF CallsInv, PlansInv, CapabilitiesAreGoverned, CallsAreGoverned, Attempts
  <1> QED
    BY <1>1, CallsInitInv, CallsNextInv, PTL DEF CallsSpec

--------------------------------------------------------------------------------
(****************************************************************************)
(* The audit log.                                                           *)
(****************************************************************************)
AuditTInv ==
    /\ reachable \in BOOLEAN /\ calm \in BOOLEAN
    /\ client \in {"none", "connecting", "connected"}
    /\ publishing \in [Event -> {"no", "task", "connecting", "sending", "over"}]
    /\ stream \in Seq(Event) /\ delivered \in 0..Len(stream)
    /\ consumer \in [pc : {"down", "connecting", "reading", "idle", "dispatching", "acking"},
                     attempts : Nat, batch : Seq(Event)]
    /\ consumer.batch # <<>> <=> consumer.pc \in {"dispatching", "acking"}
    /\ handling \subseteq Event
    /\ recorded \in [Event -> Nat]

\* No event is twice among the entries that were not delivered, or in a batch.
Distinct ==
    /\ \A j, k \in delivered + 1..Len(stream) : stream[j] = stream[k] => j = k
    /\ \A j, k \in DOMAIN consumer.batch : consumer.batch[j] = consumer.batch[k] => j = k

Ahead(e) == publishing[e] = "no" \/ Waits(e)

\* An event is at one place of its way at most, and at one of them while all is calm.
OnItsWay(e) ==
    /\ recorded[e] <= 1
    /\ e \in handling => recorded[e] = 0
    /\ Undispatched(e) => recorded[e] = 0 /\ e \notin handling
    /\ Unread(e) => recorded[e] = 0 /\ e \notin handling /\ ~Undispatched(e)
    /\ Ahead(e) => recorded[e] = 0 /\ e \notin handling /\ ~Undispatched(e) /\ ~Unread(e)
    /\ calm /\ publishing[e] # "no" =>
          Waits(e) \/ Unread(e) \/ Undispatched(e) \/ e \in handling \/ recorded[e] = 1

\* While all is calm the worker is acknowledging what is pending.
Acknowledges == calm => pending = ToSet(consumer.batch) /\ (consumer.batch # <<>> => reachable)

AuditInv == AuditTInv /\ Distinct /\ Acknowledges /\ \A e \in Event : OnItsWay(e)

\* At the beginning nothing was published.
LEMMA AuditInitInv == AuditInit => AuditInv
  <1> SUFFICES ASSUME AuditInit PROVE AuditInv
    OBVIOUS
  <1>1. AuditTInv
    BY EmptySeq DEF AuditInit, AuditTInv, Stopped
  <1>2. Distinct
    BY DEF AuditInit, Distinct, Stopped
  <1>3. Acknowledges
    BY DEF AuditInit, Acknowledges, Stopped, ToSet
  <1>4. ASSUME NEW e \in Event PROVE OnItsWay(e)
    BY DEF AuditInit, OnItsWay, Ahead, Waits, Unread, Undispatched, Stopped
  <1> QED
    BY <1>1, <1>2, <1>3, <1>4 DEF AuditInv

\* The API server moves events to the stream and nothing else: a task is the
\* only place of its event.
LEMMA ServerMoves ==
    ASSUME AuditInv,
           UNCHANGED <<stream, delivered, pending, consumer, handling, recorded>>,
           reachable' \in BOOLEAN, calm' \in BOOLEAN, client' \in {"none", "connecting", "connected"},
           publishing' \in [Event -> {"no", "task", "connecting", "sending", "over"}],
           calm' => calm /\ (reachable => reachable'),
           \A e \in Event : /\ publishing'[e] = "no" => publishing[e] = "no"
                            /\ publishing'[e] \in {"task", "connecting", "sending"} => Ahead(e)
                            /\ calm' /\ Waits(e) => publishing'[e] \in {"task", "connecting", "sending"},
           \A e \in Event : calm' /\ publishing[e] = "no" => publishing'[e] # "over"
    PROVE  AuditInv'
  <1>1. AuditTInv'
    BY DEF AuditInv, AuditTInv
  <1>2. Distinct'
    BY DEF AuditInv, Distinct
  <1>3. Acknowledges'
    BY DEF AuditInv, Acknowledges, AuditTInv
  <1>4. ASSUME NEW e \in Event PROVE OnItsWay(e)'
    <2>1. Unread(e)' = Unread(e) /\ Undispatched(e)' = Undispatched(e)
      BY DEF Unread, Undispatched
    <2>2. OnItsWay(e)
      BY DEF AuditInv
    <2>3. Ahead(e)' => Ahead(e)
      BY DEF Ahead, Waits
    <2>4. calm' /\ Waits(e) => Waits(e)'
      BY DEF Waits
    <2>5. calm' /\ publishing[e] = "no" /\ publishing'[e] # "no" => Waits(e)'
      BY DEF Waits
    <2> QED
      BY <2>1, <2>2, <2>3, <2>4, <2>5 DEF OnItsWay
  <1> QED
    BY <1>1, <1>2, <1>3, <1>4 DEF AuditInv

\* An entry that is added is the last one; what is trimmed are the first ones.
LEMMA AddKeeps ==
    ASSUME AuditInv, NEW e \in Event, AddToStream(e)
    PROVE  AuditInv'
  <1> DEFINE entries == Append(stream, e)
             l == Len(stream)
  <1>1. /\ stream \in Seq(Event) /\ l \in Nat /\ delivered \in 0..l /\ calm \in BOOLEAN /\ reachable \in BOOLEAN
        /\ publishing \in [Event -> {"no", "task", "connecting", "sending", "over"}]
    BY DEF AuditInv, AuditTInv
  <1>2. /\ publishing[e] = "sending" /\ publishing' = [publishing EXCEPT ![e] = "over"]
        /\ UNCHANGED <<reachable, client, pending, consumer, handling, recorded>>
    BY DEF AddToStream, Moves
  <1>3. entries \in Seq(Event) /\ Len(entries) = l + 1 /\ entries[l + 1] = e /\ \A j \in 1..l : entries[j] = stream[j]
    BY <1>1, AppendProperties
  <1>4. /\ Waits(e) /\ ~Waits(e)' /\ publishing'[e] = "over"
        /\ \A f \in Event \ {e} : publishing'[f] = publishing[f]
    BY <1>1, <1>2 DEF Waits
  <1>5. ~Unread(e) /\ recorded[e] = 0 /\ e \notin handling /\ ~Undispatched(e)
    BY <1>4 DEF AuditInv, OnItsWay, Ahead
  <1>6. \A f \in Event : Undispatched(f)' = Undispatched(f)
    BY <1>2 DEF Undispatched
  <1>7. CASE reachable
    <2>1. PICK k \in 0..IF Len(entries) > MaxStream THEN Len(entries) - MaxStream ELSE 0 :
             /\ stream' = SubSeq(entries, k + 1, Len(entries))
             /\ delivered' = IF delivered > k THEN delivered - k ELSE 0
             /\ calm' = (calm /\ k <= delivered)
      BY <1>7 DEF AddToStream
    <2>2. k \in 0..l
      BY <1>1, <1>3, AuditConstants
    <2> HIDE DEF entries
    <2>3. stream' \in Seq(Event) /\ Len(stream') = l + 1 - k /\ \A i \in 1..l + 1 - k : stream'[i] = entries[k + i]
      <3>1. k + 1 \in 1..Len(entries) /\ Len(entries) \in k + 1..Len(entries)
        BY <1>1, <1>3, <2>2
      <3> QED
        BY <1>1, <1>3, <2>1, <2>2, <3>1, SubSeqProperties
    <2>4. delivered' \in 0..Len(stream') /\ calm' \in BOOLEAN
      BY SMTT(30), <1>1, <2>1, <2>2, <2>3
    <2>5. ASSUME NEW i \in delivered' + 1..Len(stream')
          PROVE  /\ i \in 1..l + 1 - k /\ stream'[i] = entries[k + i] /\ k + i \in delivered + 1..l + 1
                 /\ k + i <= l => k + i \in 1..l /\ entries[k + i] = stream[k + i]
      BY <1>1, <1>3, <2>1, <2>2, <2>3
    <2>6. ASSUME NEW f \in Event, Unread(f)' PROVE f = e \/ Unread(f)
      <3>1. PICK i \in delivered' + 1..Len(stream') : stream'[i] = f
        BY <2>6 DEF Unread
      <3>2. k + i \in delivered + 1..l + 1 /\ entries[k + i] = f /\ (k + i <= l => entries[k + i] = stream[k + i])
        BY <2>5, <3>1
      <3>3. CASE k + i <= l
        <4>1. k + i \in delivered + 1..l /\ stream[k + i] = f
          BY <1>1, <3>2, <3>3
        <4> QED
          BY <4>1 DEF Unread
      <3>4. CASE ~(k + i <= l)
        <4>1. k + i = l + 1
          BY <1>1, <3>2, <3>4
        <4> QED
          BY <1>3, <3>2, <4>1
      <3> QED
        BY <3>3, <3>4
    <2>7. ASSUME NEW f \in Event, calm', Unread(f) PROVE Unread(f)'
      <3>1. PICK j \in delivered + 1..Len(stream) : stream[j] = f
        BY <2>7 DEF Unread
      <3>2. j - k \in delivered' + 1..Len(stream') /\ stream'[j - k] = f
        <4>1. k <= delivered /\ delivered' = delivered - k /\ j \in 1..l /\ j > delivered
          <5>1. k <= delivered
            BY <2>1, <2>7
          <5> QED
            BY <1>1, <2>1, <2>2, <3>1, <5>1
        <4>2. j - k \in 1..l + 1 - k /\ k + (j - k) = j /\ j - k \in delivered' + 1..Len(stream')
          BY <1>1, <2>2, <2>3, <4>1
        <4> QED
          BY <1>3, <2>3, <3>1, <4>1, <4>2
      <3> QED
        BY <3>2 DEF Unread
    <2>8. ASSUME calm' PROVE Unread(e)'
      <3>1. l + 1 - k \in delivered' + 1..Len(stream') /\ stream'[l + 1 - k] = e
        BY <1>1, <1>3, <2>1, <2>2, <2>3, <2>8
      <3> QED
        BY <3>1 DEF Unread
    <2>9. AuditTInv'
      BY <1>1, <1>2, <2>3, <2>4 DEF AuditInv, AuditTInv
    <2>10. Distinct'
      <3>1. ASSUME NEW i \in delivered' + 1..Len(stream'), NEW j \in delivered' + 1..Len(stream'), stream'[i] = stream'[j]
            PROVE  i = j
        <4>1. \A n \in delivered + 1..l : stream[n] # e
          BY <1>5 DEF Unread
        <4>2. \A m, n \in delivered + 1..l : stream[m] = stream[n] => m = n
          BY DEF AuditInv, Distinct
        <4>3. k + i = k + j
          <5>1. /\ k + i \in delivered + 1..l + 1 /\ entries[k + i] = entries[k + j]
                /\ k + j \in delivered + 1..l + 1
            BY <2>5, <3>1
          <5>2. ASSUME NEW m \in delivered + 1..l + 1 PROVE m = l + 1 \/ (m \in delivered + 1..l /\ entries[m] = stream[m])
            BY <1>1, <1>3
          <5> QED
            BY <1>3, <4>1, <4>2, <5>1, <5>2
        <4> QED
          BY <2>2, <2>5, <4>3
      <3> QED
        BY <1>2, <3>1 DEF AuditInv, Distinct
    <2>11. Acknowledges'
      BY <1>2, <2>1 DEF AuditInv, Acknowledges
    <2>12. ASSUME NEW f \in Event PROVE OnItsWay(f)'
      <3>1. OnItsWay(f)
        BY DEF AuditInv
      <3>2. CASE f = e
        BY <1>2, <1>4, <1>5, <1>6, <2>8, <3>2 DEF OnItsWay, Ahead
      <3>3. CASE f # e
        <4>1. Ahead(f)' = Ahead(f) /\ Waits(f)' = Waits(f)
          BY <1>4, <3>3 DEF Ahead, Waits
        <4> QED
          BY <1>2, <1>4, <1>6, <2>1, <2>6, <2>7, <3>1, <3>3, <4>1 DEF OnItsWay
      <3> QED
        BY <3>2, <3>3
    <2> QED
      BY <2>9, <2>10, <2>11, <2>12 DEF AuditInv
  <1>8. CASE ~reachable
    <2>1. calm' = FALSE /\ UNCHANGED <<stream, delivered>>
      BY <1>8 DEF AddToStream
    <2>2. AuditTInv' /\ Distinct' /\ Acknowledges'
      <3>1. publishing' \in [Event -> {"no", "task", "connecting", "sending", "over"}]
        BY <1>1, <1>2
      <3>2. AuditTInv'
        BY <1>2, <2>1, <3>1 DEF AuditInv, AuditTInv
      <3>3. Distinct'
        BY <1>2, <2>1 DEF AuditInv, Distinct
      <3> QED
        BY <2>1, <3>2, <3>3 DEF Acknowledges
    <2>3. ASSUME NEW f \in Event PROVE OnItsWay(f)'
      <3>1. OnItsWay(f) /\ Unread(f)' = Unread(f)
        BY <2>1 DEF AuditInv, Unread
      <3>2. Ahead(f)' => Ahead(f)
        BY <1>4 DEF Ahead, Waits
      <3> QED
        BY <1>2, <1>6, <2>1, <3>1, <3>2 DEF OnItsWay
    <2> QED
      BY <2>2, <2>3 DEF AuditInv
  <1> QED
    BY <1>7, <1>8

\* A read takes the next entries, of which the worker has none at that time.
LEMMA ReadKeeps ==
    ASSUME AuditInv, ReadGroup
    PROVE  AuditInv'
  <1> DEFINE last == IF Len(stream) - delivered < Count THEN Len(stream) ELSE delivered + Count
             batch == SubSeq(stream, delivered + 1, last)
  <1>1. /\ stream \in Seq(Event) /\ Len(stream) \in Nat /\ delivered \in 0..Len(stream)
        /\ consumer.pc = "reading" /\ consumer.batch = <<>>
        /\ consumer \in [pc : {"down", "connecting", "reading", "idle", "dispatching", "acking"},
                         attempts : Nat, batch : Seq(Event)]
    BY DEF AuditInv, AuditTInv, ReadGroup
  <1>2. /\ reachable /\ batch # <<>>
        /\ consumer' = [consumer EXCEPT !.pc = "dispatching", !.batch = batch]
        /\ delivered' = last /\ pending' = pending \cup ToSet(batch)
        /\ UNCHANGED <<reachable, client, publishing, stream, handling, recorded, calm>>
    BY DEF ReadGroup
  <1>3. last \in delivered..Len(stream)
    BY <1>1, AuditConstants
  <1> HIDE DEF last
  <1>4. last # delivered
    BY <1>1, <1>2, <1>3, SubSeqProperties
  <1>5. batch \in Seq(Event) /\ Len(batch) = last - delivered /\ \A k \in 1..last - delivered : batch[k] = stream[delivered + k]
    <2>1. delivered + 1 \in 1..Len(stream) /\ last \in delivered + 1..Len(stream)
      BY <1>1, <1>3, <1>4
    <2> QED
      BY <1>1, <1>3, <2>1, SubSeqProperties
  <1> HIDE DEF batch
  <1>6. consumer'.pc = "dispatching" /\ consumer'.batch = batch /\ DOMAIN batch = 1..last - delivered
    BY <1>1, <1>2, <1>3, <1>5
  <1>7. AuditTInv'
    <2>1. consumer' \in [pc : {"down", "connecting", "reading", "idle", "dispatching", "acking"},
                         attempts : Nat, batch : Seq(Event)]
      BY <1>1, <1>2, <1>5
    <2> QED
      BY SMTT(30), <1>1, <1>2, <1>3, <1>6, <2>1 DEF AuditInv, AuditTInv
  <1>8. \A m, n \in delivered + 1..Len(stream) : stream[m] = stream[n] => m = n
    BY DEF AuditInv, Distinct
  <1>9. Distinct'
    <2>1. ASSUME NEW j \in DOMAIN batch, NEW k \in DOMAIN batch, batch[j] = batch[k] PROVE j = k
      <3>1. delivered + j \in delivered + 1..Len(stream) /\ delivered + k \in delivered + 1..Len(stream)
        BY <1>1, <1>3, <1>6
      <3>2. delivered + j = delivered + k
        BY <1>5, <1>6, <1>8, <2>1, <3>1
      <3> QED
        BY <1>1, <1>3, <1>6, <3>2
    <2>2. ASSUME NEW j \in delivered' + 1..Len(stream'), NEW k \in delivered' + 1..Len(stream'), stream'[j] = stream'[k]
          PROVE  j = k
      BY SMTT(30), <1>1, <1>2, <1>3, <1>8, <2>2
    <2> QED
      BY <1>6, <2>1, <2>2 DEF Distinct
  <1>10. Acknowledges'
    BY <1>1, <1>2, <1>6 DEF AuditInv, Acknowledges, ToSet
  <1>11. ASSUME NEW e \in Event PROVE OnItsWay(e)'
    <2>1. OnItsWay(e) /\ ~Undispatched(e)
      BY <1>1 DEF AuditInv, Undispatched
    <2>2. Undispatched(e)' => Unread(e)
      <3>1. ASSUME NEW k \in DOMAIN batch, batch[k] = e PROVE delivered + k \in delivered + 1..Len(stream) /\ stream[delivered + k] = e
        BY SMTT(30), <1>1, <1>3, <1>5, <1>6, <3>1
      <3> QED
        BY <1>6, <3>1 DEF Undispatched, Unread
    <2>3. Unread(e)' => Unread(e)
      BY <1>1, <1>2, <1>3 DEF Unread
    <2>4. Unread(e) => Unread(e)' \/ Undispatched(e)'
      <3>1. ASSUME NEW n \in delivered + 1..Len(stream), stream[n] = e
            PROVE  n \in last + 1..Len(stream) \/ (n - delivered \in DOMAIN batch /\ batch[n - delivered] = e)
        BY SMTT(30), <1>1, <1>3, <1>5, <1>6, <3>1
      <3> QED
        BY <1>2, <1>6, <3>1 DEF Undispatched, Unread
    <2>5. ~(Unread(e)' /\ Undispatched(e)')
      <3>1. ASSUME NEW n \in last + 1..Len(stream), stream[n] = e, NEW k \in DOMAIN batch, batch[k] = e PROVE FALSE
        <4>1. n \in delivered + 1..Len(stream) /\ delivered + k \in delivered + 1..Len(stream) /\ n # delivered + k
          BY <1>1, <1>3, <1>6
        <4>2. stream[delivered + k] = e
          BY <1>5, <1>6, <3>1
        <4> QED
          BY <1>8, <3>1, <4>1, <4>2
      <3> QED
        BY <1>2, <1>6, <3>1 DEF Undispatched, Unread
    <2>6. Ahead(e)' = Ahead(e) /\ Waits(e)' = Waits(e)
      BY <1>2 DEF Ahead, Waits
    <2> QED
      BY <1>2, <2>1, <2>2, <2>3, <2>4, <2>5, <2>6 DEF OnItsWay
  <1> QED
    BY <1>7, <1>9, <1>10, <1>11 DEF AuditInv

\* The first of a batch is handed to the handler, and is the only one of its event.
LEMMA DispatchKeeps ==
    ASSUME AuditInv, Dispatch
    PROVE  AuditInv'
  <1> DEFINE x == consumer.batch[1]
  <1>1. /\ consumer.pc = "dispatching" /\ consumer.batch # <<>> /\ consumer.batch \in Seq(Event)
        /\ consumer \in [pc : {"down", "connecting", "reading", "idle", "dispatching", "acking"},
                         attempts : Nat, batch : Seq(Event)]
    BY DEF AuditInv, AuditTInv, Dispatch
  <1>2. x \in Event /\ Head(consumer.batch) = x /\ 1 \in DOMAIN consumer.batch
    BY <1>1
  <1>3. /\ handling' = handling \cup {x} /\ consumer' = [consumer EXCEPT !.pc = "acking"]
        /\ UNCHANGED <<reachable, client, publishing, stream, delivered, pending, recorded, calm>>
    BY <1>2 DEF Dispatch
  <1>4. /\ consumer' \in [pc : {"down", "connecting", "reading", "idle", "dispatching", "acking"},
                          attempts : Nat, batch : Seq(Event)]
        /\ consumer'.pc = "acking" /\ consumer'.batch = consumer.batch
    BY <1>1, <1>3
  <1>5. AuditTInv' /\ Distinct' /\ Acknowledges'
    BY <1>1, <1>2, <1>3, <1>4 DEF AuditInv, AuditTInv, Distinct, Acknowledges
  <1>6. ASSUME NEW e \in Event PROVE OnItsWay(e)'
    <2>1. OnItsWay(e)
      BY DEF AuditInv
    <2>2. Undispatched(x)
      BY <1>1, <1>2 DEF Undispatched
    <2>3. Ahead(e)' = Ahead(e) /\ Waits(e)' = Waits(e) /\ Unread(e)' = Unread(e)
      BY <1>3 DEF Ahead, Waits, Unread
    <2>4. Undispatched(e)' => Undispatched(e) /\ e # x
      BY <1>1, <1>2, <1>4 DEF Undispatched, AuditInv, Distinct
    <2>5. Undispatched(e) => Undispatched(e)' \/ e = x
      BY <1>1, <1>2, <1>4 DEF Undispatched
    <2>6. (e \in handling)' <=> e \in handling \/ e = x
      BY <1>3
    <2> QED
      BY <1>3, <2>1, <2>2, <2>3, <2>4, <2>5, <2>6 DEF OnItsWay
  <1> QED
    BY <1>5, <1>6 DEF AuditInv

\* The rest of the batch is what was not dispatched yet, or is given up.
LEMMA AcknowledgeKeeps ==
    ASSUME AuditInv, Acknowledge
    PROVE  AuditInv'
  <1> DEFINE b == consumer.batch
             rest == IF reachable THEN Tail(b) ELSE <<>>
  <1>1. /\ consumer.pc = "acking" /\ b # <<>> /\ b \in Seq(Event) /\ reachable \in BOOLEAN
    BY DEF AuditInv, AuditTInv, Acknowledge
  <1>2. /\ Head(b) = b[1] /\ Tail(b) \in Seq(Event) /\ Len(b) \in Nat \ {0} /\ Len(Tail(b)) = Len(b) - 1
        /\ DOMAIN b = 1..Len(b) /\ DOMAIN Tail(b) = 1..Len(b) - 1
        /\ \A k \in 1..Len(b) - 1 : Tail(b)[k] = b[k + 1]
    BY <1>1
  <1>3. /\ pending' = IF reachable THEN pending \ {b[1]} ELSE pending
        /\ consumer' = Following(rest)
        /\ UNCHANGED <<reachable, client, publishing, stream, delivered, handling, recorded, calm>>
    BY <1>2 DEF Acknowledge
  <1>4. rest \in Seq(Event)
    BY <1>2, EmptySeq
  <1>5. /\ consumer' \in [pc : {"down", "connecting", "reading", "idle", "dispatching", "acking"},
                          attempts : Nat, batch : Seq(Event)]
        /\ consumer'.pc = IF rest = <<>> THEN "reading" ELSE "dispatching"
        /\ consumer'.batch = rest
    <2> HIDE DEF rest
    <2>1. consumer' = [pc |-> IF rest = <<>> THEN "reading" ELSE "dispatching", attempts |-> 0, batch |-> rest]
      BY <1>3 DEF Following, Stopped
    <2> QED
      BY <1>4, <2>1
  <1>6. AuditTInv'
    BY <1>3, <1>4, <1>5 DEF AuditInv, AuditTInv
  <1>7. \A j, k \in DOMAIN b : b[j] = b[k] => j = k
    BY DEF AuditInv, Distinct
  <1>8. Distinct'
    <2>1. ASSUME NEW j \in DOMAIN rest, NEW k \in DOMAIN rest, rest[j] = rest[k] PROVE j = k
      <3>1. CASE reachable
        <4>1. /\ j \in 1..Len(b) - 1 /\ k \in 1..Len(b) - 1 /\ b[j + 1] = b[k + 1]
          BY <1>2, <2>1, <3>1
        <4>2. j + 1 = k + 1
          BY <1>2, <1>7, <4>1
        <4> QED
          BY <1>2, <4>1, <4>2
      <3>2. CASE ~reachable
        BY <3>2
      <3> QED
        BY <1>1, <3>1, <3>2
    <2> HIDE DEF rest
    <2> QED
      BY <1>3, <1>5, <2>1 DEF AuditInv, Distinct
  <1>9. Acknowledges'
    <2>1. CASE calm
      <3>1. reachable /\ pending = {b[k] : k \in DOMAIN b}
        BY <1>1, <2>1 DEF AuditInv, Acknowledges, ToSet
      <3>2. pending' = {b[k] : k \in DOMAIN b} \ {b[1]} /\ consumer'.batch = Tail(b)
        BY <1>3, <1>5, <3>1
      <3>3. {b[k] : k \in DOMAIN b} \ {b[1]} \subseteq {Tail(b)[k] : k \in DOMAIN Tail(b)}
        <4>1. ASSUME NEW k \in DOMAIN b, b[k] # b[1] PROVE k - 1 \in DOMAIN Tail(b) /\ Tail(b)[k - 1] = b[k]
          BY <1>2, <4>1
        <4> QED
          BY ZenonT(30), <4>1
      <3>4. {Tail(b)[k] : k \in DOMAIN Tail(b)} \subseteq {b[k] : k \in DOMAIN b} \ {b[1]}
        <4>1. ASSUME NEW k \in DOMAIN Tail(b) PROVE k + 1 \in DOMAIN b /\ Tail(b)[k] = b[k + 1] /\ b[k + 1] # b[1]
          <5>1. k + 1 \in DOMAIN b /\ 1 \in DOMAIN b /\ k + 1 # 1 /\ Tail(b)[k] = b[k + 1]
            BY <1>2
          <5> QED
            BY <1>7, <5>1
        <4> QED
          BY <4>1
      <3> QED
        <4>1. pending' = {Tail(b)[k] : k \in DOMAIN Tail(b)}
          BY <3>2, <3>3, <3>4
        <4>2. pending' = ToSet(consumer'.batch) /\ reachable'
          BY ZenonT(30), <1>3, <3>1, <3>2, <4>1 DEF ToSet
        <4> QED
          BY <4>2 DEF Acknowledges
    <2>2. CASE ~calm
      BY <1>3, <2>2 DEF Acknowledges
    <2> QED
      BY <2>1, <2>2
  <1>10. ASSUME NEW e \in Event PROVE OnItsWay(e)'
    <2>1. OnItsWay(e)
      BY DEF AuditInv
    <2>2. Ahead(e)' = Ahead(e) /\ Waits(e)' = Waits(e) /\ Unread(e)' = Unread(e)
      BY <1>3 DEF Ahead, Waits, Unread
    <2>3. Undispatched(e)' => Undispatched(e)
      <3>1. ASSUME NEW k \in DOMAIN rest, rest[k] = e PROVE k + 1 \in DOMAIN b /\ b[k + 1] = e /\ k + 1 > 1
        BY <1>1, <1>2, <3>1
      <3> HIDE DEF rest
      <3> QED
        BY <1>5, <3>1 DEF Undispatched
    <2>4. calm /\ Undispatched(e) => Undispatched(e)'
      <3> SUFFICES ASSUME calm, Undispatched(e) PROVE Undispatched(e)'
        OBVIOUS
      <3>1. reachable
        BY <1>1 DEF AuditInv, Acknowledges
      <3>2. PICK k \in DOMAIN b : b[k] = e /\ k > 1
        BY <1>1 DEF Undispatched
      <3>3. k - 1 \in DOMAIN Tail(b) /\ Tail(b)[k - 1] = e /\ Tail(b) # <<>>
        BY <1>2, <3>2
      <3>4. consumer'.batch = Tail(b) /\ consumer'.pc = "dispatching"
        BY <1>5, <3>1, <3>3
      <3> QED
        BY <3>3, <3>4 DEF Undispatched
    <2> QED
      BY <1>3, <2>1, <2>2, <2>3, <2>4 DEF OnItsWay
  <1> QED
    BY <1>6, <1>8, <1>9, <1>10 DEF AuditInv

\* A handler records an event it has, or loses it.
LEMMA HandlerKeeps ==
    ASSUME AuditInv, NEW e \in Event, AuditHandler(e)
    PROVE  AuditInv'
  <1>1. /\ e \in handling /\ handling' = handling \ {e} /\ recorded \in [Event -> Nat] /\ calm \in BOOLEAN
        /\ UNCHANGED <<reachable, client, publishing, stream, delivered, pending, consumer>>
    BY DEF AuditHandler, AuditInv, AuditTInv
  <1>2. \/ recorded' = [recorded EXCEPT ![e] = @ + 1] /\ calm' = calm
        \/ recorded' = recorded /\ calm' = FALSE
    BY DEF AuditHandler
  <1>3. recorded[e] = 0
    BY <1>1 DEF AuditInv, OnItsWay
  <1>4. recorded' \in [Event -> Nat] /\ calm' \in BOOLEAN /\ (calm' => calm)
    <2>1. CASE recorded' = [recorded EXCEPT ![e] = @ + 1] /\ calm' = calm
      <3>1. recorded' \in [Event -> Nat]
        BY <1>1, <2>1
      <3> QED
        BY <1>1, <2>1, <3>1
    <2>2. CASE recorded' = recorded /\ calm' = FALSE
      BY <1>1, <2>2
    <2> QED
      BY <1>2, <2>1, <2>2
  <1>5. AuditTInv' /\ Distinct' /\ Acknowledges'
    BY <1>1, <1>4 DEF AuditInv, AuditTInv, Distinct, Acknowledges
  <1>6. ASSUME NEW f \in Event PROVE OnItsWay(f)'
    <2>1. OnItsWay(f)
      BY DEF AuditInv
    <2>2. Ahead(f)' = Ahead(f) /\ Waits(f)' = Waits(f) /\ Unread(f)' = Unread(f) /\ Undispatched(f)' = Undispatched(f)
      BY <1>1 DEF Ahead, Waits, Unread, Undispatched
    <2>3. CASE f = e
      <3>1. ~Ahead(f) /\ ~Unread(f) /\ ~Undispatched(f) /\ (f \in handling)' = FALSE
        BY <1>1, <2>1, <2>3 DEF OnItsWay
      <3>2. recorded'[f] <= 1 /\ (calm' => recorded'[f] = 1)
        BY <1>1, <1>2, <1>3, <2>3
      <3> QED
        BY <2>2, <3>1, <3>2 DEF OnItsWay
    <2>4. CASE f # e
      <3>1. recorded'[f] = recorded[f] /\ ((f \in handling)' <=> f \in handling)
        BY <1>1, <1>2, <2>4
      <3>2. publishing' = publishing /\ (calm' => calm)
        BY <1>1, <1>4
      <3> HIDE DEF Ahead, Unread, Undispatched, Waits
      <3> QED
        BY <2>1, <2>2, <3>1, <3>2 DEF OnItsWay
    <2> QED
      BY <2>3, <2>4
  <1> QED
    BY <1>5, <1>6 DEF AuditInv

\* A worker that has no batch, or is about to have none, moves no event.
LEMMA WorkerMoves ==
    ASSUME AuditInv,
           UNCHANGED <<reachable, client, publishing, stream, delivered, pending, recorded>>,
           consumer' \in [pc : {"down", "connecting", "reading", "idle"}, attempts : Nat, batch : {<<>>}],
           \/ UNCHANGED <<handling, calm>> /\ consumer.batch = <<>>
           \/ handling' = {} /\ calm' = FALSE
    PROVE  AuditInv'
  <1>1. /\ consumer' \in [pc : {"down", "connecting", "reading", "idle", "dispatching", "acking"},
                          attempts : Nat, batch : Seq(Event)]
        /\ consumer'.batch = <<>> /\ consumer'.pc \notin {"dispatching", "acking"}
    BY EmptySeq
  <1>2. AuditTInv'
    <2>1. handling' \subseteq Event /\ calm' \in BOOLEAN
      BY DEF AuditInv, AuditTInv
    <2> QED
      BY <1>1, <2>1 DEF AuditInv, AuditTInv
  <1>4. Distinct' /\ Acknowledges'
    BY <1>1 DEF AuditInv, Distinct, Acknowledges
  <1>3. ASSUME NEW e \in Event PROVE OnItsWay(e)'
    <2>1. OnItsWay(e) /\ (consumer.batch = <<>> => ~Undispatched(e))
      BY DEF AuditInv, Undispatched
    <2>2. Ahead(e)' = Ahead(e) /\ Waits(e)' = Waits(e) /\ Unread(e)' = Unread(e) /\ ~Undispatched(e)'
      BY <1>1 DEF Ahead, Waits, Unread, Undispatched
    <2> QED
      BY <2>1, <2>2 DEF OnItsWay
  <1> QED
    BY <1>2, <1>3, <1>4 DEF AuditInv

\* Every step keeps the invariant of the log.
LEMMA AuditNextInv == AuditInv /\ [AuditNext]_auditVars => AuditInv'
  <1> SUFFICES ASSUME AuditInv, [AuditNext]_auditVars PROVE AuditInv'
    OBVIOUS
  <1>1. /\ reachable \in BOOLEAN /\ calm \in BOOLEAN /\ client \in {"none", "connecting", "connected"}
        /\ publishing \in [Event -> {"no", "task", "connecting", "sending", "over"}]
        /\ consumer \in [pc : {"down", "connecting", "reading", "idle", "dispatching", "acking"},
                         attempts : Nat, batch : Seq(Event)]
        /\ consumer.batch # <<>> <=> consumer.pc \in {"dispatching", "acking"}
    BY DEF AuditInv, AuditTInv
  <1>2. CASE RedisTurns
    BY <1>1, <1>2, ServerMoves DEF RedisTurns, Ahead, Waits
  <1>3. CASE ServerRestarts
    BY <1>1, <1>3, ServerMoves DEF ServerRestarts, Ahead, Waits
  <1>4. ASSUME NEW e \in Event, PublishEvent(e) PROVE AuditInv'
    BY <1>1, <1>4, ServerMoves DEF PublishEvent, Moves, Ahead, Waits
  <1>5. ASSUME NEW e \in Event, EnsureRedis(e) PROVE AuditInv'
    <2> DEFINE pc == CASE client = "none" -> "connecting" [] client = "connecting" -> "over" [] OTHER -> "sending"
    <2>1. pc \in {"connecting", "over", "sending"} /\ (pc = "over" => client = "connecting")
      BY <1>1
    <2>2. /\ publishing[e] = "task" /\ publishing' = [publishing EXCEPT ![e] = pc]
          /\ client' = IF client = "none" THEN "connecting" ELSE client
          /\ calm' = (calm /\ client # "connecting")
          /\ UNCHANGED <<reachable, stream, delivered, pending, consumer, handling, recorded>>
      BY <1>5 DEF EnsureRedis, Moves
    <2> HIDE DEF pc
    <2> QED
      BY <1>1, <2>1, <2>2, ServerMoves DEF Ahead, Waits
  <1>6. ASSUME NEW e \in Event, Connect(e) PROVE AuditInv'
    BY <1>1, <1>6, ServerMoves DEF Connect, Moves, Ahead, Waits
  <1>7. CASE StartConsumer
    BY <1>1, <1>7, WorkerMoves DEF StartConsumer, Stopped
  <1>8. CASE ConnectConsumer
    BY <1>1, <1>8, WorkerMoves DEF ConnectConsumer, Stopped
  <1>9. CASE ConsumerStops
    BY <1>1, <1>9, WorkerMoves DEF ConsumerStops, Stopped
  <1>10. CASE UNCHANGED auditVars
    BY <1>1, <1>10, ServerMoves DEF auditVars, Ahead, Waits
  <1> QED
    BY <1>2, <1>3, <1>4, <1>5, <1>6, <1>7, <1>8, <1>9, <1>10,
       AddKeeps, ReadKeeps, DispatchKeeps, AcknowledgeKeeps, HandlerKeeps
    DEF AuditNext

\* One of five is one.
LEMMA OneOfFive ==
    ASSUME NEW a \in BOOLEAN, NEW b \in BOOLEAN, NEW c \in BOOLEAN, NEW d \in BOOLEAN, NEW f \in BOOLEAN,
           a \/ b \/ c \/ d \/ f,
           ~(a /\ b), ~(a /\ c), ~(a /\ d), ~(a /\ f), ~(b /\ c), ~(b /\ d), ~(b /\ f), ~(c /\ d), ~(c /\ f), ~(d /\ f)
    PROVE  Cardinality({p \in 1..5 : <<a, b, c, d, f>>[p]}) = 1
  <1> DEFINE T == <<a, b, c, d, f>>
             S == {p \in 1..5 : T[p]}
  <1>1. T[1] = a /\ T[2] = b /\ T[3] = c /\ T[4] = d /\ T[5] = f
    OBVIOUS
  <1>2. 1..5 = {1, 2, 3, 4, 5}
    OBVIOUS
  <1>3. CASE a
    <2>1. S = {1}
      <3> HIDE DEF T
      <3>1. \A p \in 1..5 : T[p] <=> p = 1
        BY <1>1, <1>2, <1>3
      <3> QED
        BY <1>2, <3>1
    <2> QED
      BY <2>1, FS_Singleton
  <1>4. CASE b
    <2>1. S = {2}
      <3> HIDE DEF T
      <3>1. \A p \in 1..5 : T[p] <=> p = 2
        BY <1>1, <1>2, <1>4
      <3> QED
        BY <1>2, <3>1
    <2> QED
      BY <2>1, FS_Singleton
  <1>5. CASE c
    <2>1. S = {3}
      <3> HIDE DEF T
      <3>1. \A p \in 1..5 : T[p] <=> p = 3
        BY <1>1, <1>2, <1>5
      <3> QED
        BY <1>2, <3>1
    <2> QED
      BY <2>1, FS_Singleton
  <1>6. CASE d
    <2>1. S = {4}
      <3> HIDE DEF T
      <3>1. \A p \in 1..5 : T[p] <=> p = 4
        BY <1>1, <1>2, <1>6
      <3> QED
        BY <1>2, <3>1
    <2> QED
      BY <2>1, FS_Singleton
  <1>7. CASE f
    <2>1. S = {5}
      <3> HIDE DEF T
      <3>1. \A p \in 1..5 : T[p] <=> p = 5
        BY <1>1, <1>2, <1>7
      <3> QED
        BY <1>2, <3>1
    <2> QED
      BY <2>1, FS_Singleton
  <1> QED
    BY <1>3, <1>4, <1>5, <1>6, <1>7

\* The five places of an event are counted.
LEMMA AuditInvTells == AuditInv => AuditedOnce
  <1> SUFFICES ASSUME AuditInv PROVE AuditedOnce
    OBVIOUS
  <1>1. ASSUME NEW e \in Event, calm, publishing[e] # "no"
        PROVE  Cardinality({p \in 1..5 : <<Waits(e), Unread(e), Undispatched(e), e \in handling, recorded[e] = 1>>[p]}) = 1
    <2>1. OnItsWay(e)
      BY DEF AuditInv
    <2>2. /\ Waits(e) \in BOOLEAN /\ Unread(e) \in BOOLEAN /\ Undispatched(e) \in BOOLEAN
          /\ (e \in handling) \in BOOLEAN /\ (recorded[e] = 1) \in BOOLEAN
      BY DEF Waits, Unread, Undispatched
    <2>3. Waits(e) \/ Unread(e) \/ Undispatched(e) \/ e \in handling \/ recorded[e] = 1
      BY <1>1, <2>1 DEF OnItsWay
    <2>4. /\ Waits(e) => ~Unread(e) /\ ~Undispatched(e) /\ e \notin handling /\ recorded[e] # 1
          /\ Unread(e) => ~Undispatched(e) /\ e \notin handling /\ recorded[e] # 1
          /\ Undispatched(e) => e \notin handling /\ recorded[e] # 1
          /\ e \in handling => recorded[e] # 1
      BY <2>1 DEF OnItsWay, Ahead
    <2> DEFINE H == e \in handling
               R == recorded[e] = 1
    <2>5. /\ Waits(e) \/ Unread(e) \/ Undispatched(e) \/ H \/ R
          /\ ~(Waits(e) /\ Unread(e)) /\ ~(Waits(e) /\ Undispatched(e)) /\ ~(Waits(e) /\ H) /\ ~(Waits(e) /\ R)
          /\ ~(Unread(e) /\ Undispatched(e)) /\ ~(Unread(e) /\ H) /\ ~(Unread(e) /\ R)
          /\ ~(Undispatched(e) /\ H) /\ ~(Undispatched(e) /\ R) /\ ~(H /\ R)
          /\ H \in BOOLEAN /\ R \in BOOLEAN
      BY <2>3, <2>4
    <2>6. Cardinality({p \in 1..5 : <<Waits(e), Unread(e), Undispatched(e), H, R>>[p]}) = 1
      <3> HIDE DEF Waits, Unread, Undispatched, H, R
      <3> QED
        BY <2>2, <2>5, OneOfFive
    <2> QED
      BY <2>6
  <1>2. \A e \in Event : recorded[e] <= 1
    BY DEF AuditInv, OnItsWay
  <1> QED
    BY <1>1, <1>2 DEF AuditedOnce, AuditInv, Acknowledges

\* The way of an event keeps its shape.
THEOREM AuditTypeCorrect == AuditSpec => []AuditTInv
  <1>1. AuditInv => AuditTInv
    BY DEF AuditInv
  <1> QED
    BY <1>1, AuditInitInv, AuditNextInv, PTL DEF AuditSpec

\* No event is recorded twice, and none is lost while neither a process, the
\* connection nor a write failed: it is on its way at exactly one place or is
\* recorded, and what the worker has not acknowledged is the batch it has.  For
\* any number of events and any bound of the stream.
THEOREM AuditedCorrect == AuditSpec => []AuditedOnce
  BY AuditInitInv, AuditNextInv, AuditInvTells, PTL DEF AuditSpec

--------------------------------------------------------------------------------
(****************************************************************************)
(* Messages of a conversation.                                              *)
(****************************************************************************)
Message == [seq : Nat \ {0}, role : {"user", "assistant"}, turn : Turn, cites : Turn \cup {NoTurn}]
Phase == {"off", "question", "history", "retrieve", "context", "stream", "answer", "cite", "over"}
\* What a turn was given to read may be anything here.
TurnRow(x) == x \in [pc : Phase, seq : Nat, history : {x.history}, facts : {x.facts}, alone : {x.alone}]

TurnsTInv ==
    /\ conversation \in [there : BOOLEAN, count : Nat, entities : Turn \cup {NoTurn}, relations : Turn \cup {NoTurn}]
    /\ messages \subseteq Message
    /\ turns = [t \in Turn |-> turns[t]]
    /\ \A t \in Turn : TurnRow(turns[t])

\* The number a turn has read is one that is taken, or the next one; a turn that
\* has not asked yet has no message.
Numbered ==
    /\ {m.seq : m \in messages} = 1..conversation.count
    /\ \A m, n \in messages : m.seq = n.seq => m = n
Ordered == \A m, n \in messages : m.turn = n.turn /\ m.role = "user" /\ n.role = "assistant" => m.seq < n.seq
Asking(t) ==
    /\ turns[t].seq <= conversation.count + 1
    /\ turns[t].pc \in {"off", "question"} => \A m \in messages : m.turn # t

TurnsInv == TurnsTInv /\ Numbered /\ Ordered /\ \A t \in Turn : Asking(t)

\* A turn that has not begun.
LEMMA WaitingTyped == TurnRow(Waiting) /\ Waiting.pc = "off" /\ Waiting.seq = 0
  BY DEF TurnRow, Waiting, Phase

\* At the beginning the conversation is empty.
LEMMA TurnsInitInv == ChatInit => TurnsInv
  <1> SUFFICES ASSUME ChatInit PROVE TurnsInv
    OBVIOUS
  <1>1. TurnsTInv
    BY WaitingTyped DEF ChatInit, TurnsTInv
  <1>2. Numbered /\ Ordered
    BY DEF ChatInit, Numbered, Ordered
  <1>3. ASSUME NEW t \in Turn PROVE Asking(t)
    BY WaitingTyped DEF ChatInit, Asking
  <1> QED
    BY <1>1, <1>2, <1>3 DEF TurnsInv

\* A turn moves on, without a message.
LEMMA TurnMoves ==
    ASSUME TurnsInv, NEW t \in Turn, NEW u, TurnRow(u), turns' = [turns EXCEPT ![t] = u], UNCHANGED messages,
           conversation' \in [there : BOOLEAN, count : Nat, entities : Turn \cup {NoTurn}, relations : Turn \cup {NoTurn}],
           conversation'.count = conversation.count,
           u.seq <= conversation.count + 1, u.pc \in {"off", "question"} => turns[t].pc \in {"off", "question"}
    PROVE  TurnsInv'
  <1>1. turns = [r \in Turn |-> turns[r]]
    BY DEF TurnsInv, TurnsTInv
  <1>2. turns'[t] = u /\ (\A r \in Turn : r # t => turns'[r] = turns[r]) /\ turns' = [r \in Turn |-> turns'[r]]
    BY <1>1
  <1>3. ASSUME NEW r \in Turn, NEW x, x = turns'[r] PROVE TurnRow(x)
    BY <1>2, <1>3 DEF TurnsInv, TurnsTInv
  <1>4. TurnsTInv'
    BY <1>2, <1>3 DEF TurnsInv, TurnsTInv, TurnRow
  <1>5. Numbered' /\ Ordered'
    BY DEF TurnsInv, Numbered, Ordered
  <1>6. ASSUME NEW r \in Turn PROVE Asking(r)'
    BY <1>2 DEF TurnsInv, Asking
  <1> QED
    BY <1>4, <1>5, <1>6 DEF TurnsInv

\* A turn that is over.
LEMMA OverTyped ==
    ASSUME NEW t \in Turn
    PROVE  TurnRow(Over(t)) /\ Over(t).pc = "over" /\ Over(t).seq = 0
  BY WaitingTyped DEF Over, TurnRow, Phase

\* A turn that fails writes no message.
LEMMA TurnFailsKeeps ==
    ASSUME TurnsInv, NEW t \in Turn, turns' = [turns EXCEPT ![t] = Over(t)], UNCHANGED <<conversation, messages>>
    PROVE  TurnsInv'
  <1>1. conversation \in [there : BOOLEAN, count : Nat, entities : Turn \cup {NoTurn}, relations : Turn \cup {NoTurn}]
    BY DEF TurnsInv, TurnsTInv
  <1>2. /\ conversation' \in [there : BOOLEAN, count : Nat, entities : Turn \cup {NoTurn}, relations : Turn \cup {NoTurn}]
        /\ conversation'.count = conversation.count /\ UNCHANGED messages
    BY <1>1
  <1>3. TurnRow(Over(t)) /\ Over(t).seq <= conversation.count + 1 /\ Over(t).pc \notin {"off", "question"}
    BY <1>1, OverTyped
  <1> QED
    BY <1>2, <1>3, TurnMoves

\* A new message is the last one.
LEMMA InsertKeeps ==
    ASSUME TurnsInv, NEW t \in Turn, NEW author \in {"user", "assistant"}, NEW next \in {"history", "cite"},
           turns[t].seq # 0, author = "user" => turns[t].pc = "question", Insert(t, author, next)
    PROVE  TurnsInv'
  <1> DEFINE new == [seq |-> turns[t].seq, role |-> author, turn |-> t, cites |-> NoTurn]
             n == conversation.count
             u == [turns[t] EXCEPT !.pc = next, !.seq = 0]
  <1>1. /\ conversation \in [there : BOOLEAN, count : Nat, entities : Turn \cup {NoTurn}, relations : Turn \cup {NoTurn}]
        /\ messages \subseteq Message /\ turns = [r \in Turn |-> turns[r]] /\ TurnRow(turns[t])
        /\ Numbered /\ Ordered /\ Asking(t)
    BY DEF TurnsInv, TurnsTInv
  <1>2. n \in Nat /\ turns[t].seq \in Nat \ {0} /\ turns[t].seq <= n + 1
    BY <1>1 DEF Asking, TurnRow
  <1>3. CASE \A m \in messages : m.seq # turns[t].seq
    <2>1. turns[t].seq = n + 1
      <3>1. turns[t].seq \notin {m.seq : m \in messages}
        BY <1>3
      <3>2. turns[t].seq \notin 1..n
        BY <1>1, <3>1 DEF Numbered
      <3> QED
        BY <1>2, <3>2
    <2>2. /\ messages' = messages \cup {new} /\ conversation' = [conversation EXCEPT !.count = @ + 1]
          /\ turns' = [turns EXCEPT ![t] = u]
      BY <1>1, <1>3 DEF Insert
    <2>3. /\ new \in Message /\ new.seq = n + 1 /\ new.turn = t /\ new.role = author
      BY <1>2, <2>1 DEF Message
    <2>4. /\ conversation' \in [there : BOOLEAN, count : Nat, entities : Turn \cup {NoTurn}, relations : Turn \cup {NoTurn}]
          /\ conversation'.count = n + 1
      BY <1>1, <1>2, <2>2
    <2>5. TurnRow(u) /\ u.pc = next /\ u.seq = 0
      BY <1>1 DEF TurnRow, Phase
    <2> HIDE DEF u, new
    <2>6. turns'[t] = u /\ (\A r \in Turn : r # t => turns'[r] = turns[r]) /\ turns' = [r \in Turn |-> turns'[r]]
      BY <1>1, <2>2
    <2>7. ASSUME NEW r \in Turn, NEW x, x = turns'[r] PROVE TurnRow(x)
      BY <2>5, <2>6, <2>7 DEF TurnsInv, TurnsTInv
    <2>8. TurnsTInv'
      BY <1>1, <2>2, <2>3, <2>4, <2>6, <2>7 DEF TurnsTInv, TurnRow
    <2>9. \A m \in messages : m.seq \in 1..n
      BY <1>1 DEF Numbered
    <2>10. Numbered'
      <3>1. {m.seq : m \in messages'} = {m.seq : m \in messages} \cup {n + 1}
        BY <2>2, <2>3
      <3>2. 1..n \cup {n + 1} = 1..n + 1
        BY <1>2
      <3>3. {m.seq : m \in messages'} = 1..conversation'.count
        BY <1>1, <2>4, <3>1, <3>2 DEF Numbered
      <3>4. n + 1 \notin 1..n
        BY <1>2
      <3>5. ASSUME NEW k \in messages', NEW m \in messages', k.seq = m.seq PROVE k = m
        BY <1>1, <2>2, <2>3, <2>9, <3>4, <3>5 DEF Numbered
      <3> QED
        BY <3>3, <3>5 DEF Numbered
    <2>11. Ordered'
      <3>1. ASSUME NEW k \in messages', NEW m \in messages', k.turn = m.turn, k.role = "user", m.role = "assistant"
            PROVE  k.seq < m.seq
        <4>1. CASE k \in messages /\ m \in messages
          BY <1>1, <3>1, <4>1 DEF Ordered
        <4>2. CASE k \in messages /\ m = new
          <5>1. k.seq \in 1..n /\ m.seq = n + 1
            BY <2>3, <2>9, <4>2
          <5> QED
            BY <1>2, <5>1
        <4>3. CASE k = new /\ m \in messages
          <5>1. turns[t].pc = "question" /\ m.turn = t
            BY <2>3, <3>1, <4>3
          <5> QED
            BY <1>1, <4>3, <5>1 DEF Asking
        <4>4. CASE k = new /\ m = new
          BY <3>1, <4>4
        <4> QED
          BY <2>2, <4>1, <4>2, <4>3, <4>4
      <3> QED
        BY <3>1 DEF Ordered
    <2>12. ASSUME NEW r \in Turn PROVE Asking(r)'
      <3>1. Asking(r) /\ TurnRow(turns[r])
        BY DEF TurnsInv, TurnsTInv
      <3>2. turns[r].seq \in Nat
        BY <3>1 DEF TurnRow
      <3>3. CASE r = t
        BY <1>2, <2>4, <2>5, <2>6, <3>3 DEF Asking
      <3>4. CASE r # t
        <4>1. turns'[r].seq <= conversation'.count + 1
          BY <1>2, <2>4, <2>6, <3>1, <3>2, <3>4 DEF Asking
        <4>2. turns'[r].pc \in {"off", "question"} => \A m \in messages' : m.turn # r
          BY <2>2, <2>3, <2>6, <3>1, <3>4 DEF Asking
        <4> QED
          BY <4>1, <4>2 DEF Asking
      <3> QED
        BY <3>3, <3>4
    <2> QED
      BY <2>8, <2>10, <2>11, <2>12 DEF TurnsInv
  <1>4. CASE ~(\A m \in messages : m.seq # turns[t].seq)
    BY <1>4, TurnFailsKeeps DEF Insert
  <1> QED
    BY <1>3, <1>4

\* The citations are added to an answer; it stays the message it was.
LEMMA CitationsKeep ==
    ASSUME TurnsInv, NEW t \in Turn, SetCitations(t)
    PROVE  TurnsInv'
  <1> DEFINE Cited(m) == IF m.turn = t /\ m.role = "assistant" THEN [m EXCEPT !.cites = t] ELSE m
  <1>1. messages' = {Cited(m) : m \in messages} /\ turns' = [turns EXCEPT ![t] = Over(t)] /\ UNCHANGED conversation
    BY DEF SetCitations
  <1>2. messages \subseteq Message /\ Numbered /\ Ordered /\ turns = [r \in Turn |-> turns[r]]
    BY DEF TurnsInv, TurnsTInv
  <1>3. ASSUME NEW m \in messages
        PROVE  Cited(m) \in Message /\ Cited(m).seq = m.seq /\ Cited(m).turn = m.turn /\ Cited(m).role = m.role
    BY <1>2 DEF Message
  <1> HIDE DEF Cited
  <1>4. turns'[t] = Over(t) /\ (\A r \in Turn : r # t => turns'[r] = turns[r]) /\ turns' = [r \in Turn |-> turns'[r]]
    BY <1>1, <1>2
  <1>5. ASSUME NEW r \in Turn, NEW x, x = turns'[r] PROVE TurnRow(x)
    BY <1>4, <1>5, OverTyped DEF TurnsInv, TurnsTInv
  <1>6. TurnsTInv'
    <2>1. messages' \subseteq Message
      BY <1>1, <1>3
    <2> QED
      BY <1>1, <1>4, <1>5, <2>1 DEF TurnsInv, TurnsTInv, TurnRow
  <1>7. {m.seq : m \in messages'} = {m.seq : m \in messages}
    BY <1>1, <1>3
  <1>8. Numbered'
    BY <1>1, <1>2, <1>3, <1>7 DEF Numbered
  <1>9. Ordered'
    BY <1>1, <1>2, <1>3 DEF Ordered
  <1>10. ASSUME NEW r \in Turn PROVE Asking(r)'
    <2>1. Asking(r)
      BY DEF TurnsInv
    <2>2. conversation.count \in Nat
      BY DEF TurnsInv, TurnsTInv
    <2>3. CASE r = t
      BY <1>1, <1>4, <2>2, <2>3, OverTyped DEF Asking
    <2>4. CASE r # t
      <3>1. turns'[r] = turns[r]
        BY <1>4, <2>4
      <3>2. ASSUME \A m \in messages : m.turn # r PROVE \A m \in messages' : m.turn # r
        BY <1>1, <1>3, <3>2
      <3> QED
        BY <1>1, <2>1, <3>1, <3>2 DEF Asking
    <2> QED
      BY <2>3, <2>4
  <1> QED
    BY <1>6, <1>8, <1>9, <1>10 DEF TurnsInv

\* A turn that begins has no message yet.
LEMMA BeginKeepsTurns ==
    ASSUME TurnsInv, NEW t \in Turn, BeginTurn(t)
    PROVE  TurnsInv'
  <1> DEFINE others == {u \in Turn \ {t} : Running(u)}
             first == [Waiting EXCEPT !.pc = "question", !.alone = others = {}]
  <1>1. /\ turns[t].pc = "off" /\ conversation' = [conversation EXCEPT !.there = TRUE]
        /\ turns' = [u \in Turn |-> IF u = t THEN first
                                    ELSE IF u \in others THEN [turns[u] EXCEPT !.alone = FALSE] ELSE turns[u]]
        /\ UNCHANGED messages
    BY DEF BeginTurn
  <1>2. TurnRow(first) /\ first.pc = "question" /\ first.seq = 0
    BY WaitingTyped DEF TurnRow, Phase
  <1> HIDE DEF first
  <1>3. conversation \in [there : BOOLEAN, count : Nat, entities : Turn \cup {NoTurn}, relations : Turn \cup {NoTurn}]
    BY DEF TurnsInv, TurnsTInv
  <1>4. /\ conversation' \in [there : BOOLEAN, count : Nat, entities : Turn \cup {NoTurn}, relations : Turn \cup {NoTurn}]
        /\ conversation'.count = conversation.count
    BY <1>1, <1>3
  <1>5. ASSUME NEW r \in Turn, NEW x, x = turns'[r]
        PROVE  /\ TurnRow(x)
               /\ r = t => x.pc = "question" /\ x.seq = 0
               /\ r # t => x.pc = turns[r].pc /\ x.seq = turns[r].seq
    <2>1. TurnRow(turns[r])
      BY DEF TurnsInv, TurnsTInv
    <2>2. CASE r = t
      BY <1>1, <1>2, <1>5, <2>2
    <2>3. CASE r # t /\ r \in others
      <3>1. x = [turns[r] EXCEPT !.alone = FALSE]
        BY <1>1, <1>5, <2>3
      <3> QED
        BY <2>1, <2>3, <3>1 DEF TurnRow
    <2>4. CASE r # t /\ r \notin others
      BY <1>1, <1>5, <2>1, <2>4
    <2> QED
      BY <2>2, <2>3, <2>4
  <1>6. TurnsTInv'
    <2>1. turns' = [r \in Turn |-> turns'[r]]
      BY <1>1
    <2> QED
      BY <1>1, <1>4, <1>5, <2>1 DEF TurnsInv, TurnsTInv, TurnRow
  <1>7. Numbered' /\ Ordered'
    BY <1>1, <1>4 DEF TurnsInv, Numbered, Ordered
  <1>8. ASSUME NEW r \in Turn PROVE Asking(r)'
    <2>1. Asking(r) /\ Asking(t) /\ conversation.count \in Nat
      BY <1>3 DEF TurnsInv
    <2>2. CASE r = t
      BY <1>1, <1>4, <1>5, <2>1, <2>2 DEF Asking
    <2>3. CASE r # t
      BY <1>1, <1>4, <1>5, <2>1, <2>3 DEF Asking
    <2> QED
      BY <2>2, <2>3
  <1> QED
    BY <1>6, <1>7, <1>8 DEF TurnsInv

\* Every step keeps the invariant of the messages.
LEMMA TurnsNextInv == TurnsInv /\ [ChatNext]_chatVars => TurnsInv'
  <1> SUFFICES ASSUME TurnsInv, [ChatNext]_chatVars PROVE TurnsInv'
    OBVIOUS
  <1>1. /\ conversation \in [there : BOOLEAN, count : Nat, entities : Turn \cup {NoTurn}, relations : Turn \cup {NoTurn}]
        /\ Numbered
    BY DEF TurnsInv, TurnsTInv
  <1>2. conversation.count \in Nat
    BY <1>1
  <1>3. ASSUME NEW t \in Turn, NextSeq(t) PROVE TurnsInv'
    <2> DEFINE u == [turns[t] EXCEPT !.seq = Max({0} \cup {m.seq : m \in messages}) + 1]
    <2>1. turns' = [turns EXCEPT ![t] = u] /\ UNCHANGED <<conversation, messages>>
      BY <1>3 DEF NextSeq
    <2>2. Max({0} \cup {m.seq : m \in messages}) = conversation.count
      <3>1. {0} \cup {m.seq : m \in messages} = 0..conversation.count
        BY <1>1, <1>2 DEF Numbered
      <3> QED
        BY <1>2, <3>1 DEF Max
    <2>3. TurnRow(turns[t])
      BY DEF TurnsInv, TurnsTInv
    <2>4. TurnRow(u) /\ u.pc = turns[t].pc /\ u.seq = conversation.count + 1
      BY <1>2, <2>2, <2>3 DEF TurnRow
    <2> HIDE DEF u
    <2>5. u.seq <= conversation.count + 1 /\ (u.pc \in {"off", "question"} => turns[t].pc \in {"off", "question"})
      BY <1>2, <2>4
    <2>6. /\ conversation' \in [there : BOOLEAN, count : Nat, entities : Turn \cup {NoTurn}, relations : Turn \cup {NoTurn}]
          /\ conversation'.count = conversation.count /\ UNCHANGED messages
      BY <1>1, <2>1
    <2> QED
      BY <2>1, <2>4, <2>5, <2>6, TurnMoves
  <1>4. ASSUME NEW t \in Turn, NEW pc \in Phase \ {"off", "question"}, NEW u, TurnRow(u), u.pc = pc,
               u.seq = turns[t].seq \/ u.seq = 0,
               turns' = [turns EXCEPT ![t] = u], UNCHANGED messages,
               conversation' \in [there : BOOLEAN, count : Nat, entities : Turn \cup {NoTurn}, relations : Turn \cup {NoTurn}],
               conversation'.count = conversation.count
        PROVE  TurnsInv'
    <2>1. u.seq <= conversation.count + 1
      BY <1>2, <1>4 DEF TurnsInv, Asking
    <2> QED
      BY <1>4, <2>1, TurnMoves
  <1>5. ASSUME NEW t \in Turn PROVE TurnRow(turns[t])
    BY DEF TurnsInv, TurnsTInv
  <1>6. ASSUME NEW t \in Turn, CollectHistory(t) PROVE TurnsInv'
    <2> DEFINE u == [turns[t] EXCEPT !.pc = "retrieve", !.history = RecentPairs(Recent)]
    <2>1. turns' = [turns EXCEPT ![t] = u] /\ UNCHANGED <<conversation, messages>>
      BY <1>6 DEF CollectHistory
    <2>2. TurnRow(u) /\ u.pc = "retrieve" /\ u.seq = turns[t].seq
      BY <1>5 DEF TurnRow, Phase
    <2> HIDE DEF u
    <2> QED
      BY <1>1, <1>4, <2>1, <2>2 DEF Phase
  <1>7. ASSUME NEW t \in Turn, NEW planned \in BOOLEAN, Retrieve(t, planned) PROVE TurnsInv'
    <2> DEFINE pc == IF planned THEN "context" ELSE "stream"
               u == [turns[t] EXCEPT !.pc = pc,
                        !.facts = IF planned THEN {conversation.entities, conversation.relations} \ {NoTurn} ELSE {}]
    <2>1. turns' = [turns EXCEPT ![t] = u] /\ UNCHANGED <<conversation, messages>>
      BY <1>7 DEF Retrieve
    <2>2. pc \in {"context", "stream"}
      OBVIOUS
    <2> HIDE DEF pc
    <2>3. TurnRow(u) /\ u.pc = pc /\ u.seq = turns[t].seq
      BY <1>5, <2>2 DEF TurnRow, Phase
    <2> HIDE DEF u
    <2> QED
      BY <1>1, <1>4, <2>1, <2>2, <2>3 DEF Phase
  <1>8. ASSUME NEW t \in Turn, WriteContext(t) PROVE TurnsInv'
    <2> DEFINE u == [turns[t] EXCEPT !.pc = "stream"]
    <2>1. /\ turns' = [turns EXCEPT ![t] = u] /\ UNCHANGED messages
          /\ conversation' \in {conversation, [conversation EXCEPT !.entities = t],
                                [conversation EXCEPT !.entities = t, !.relations = t]}
      BY <1>8 DEF WriteContext
    <2>2. /\ conversation' \in [there : BOOLEAN, count : Nat, entities : Turn \cup {NoTurn}, relations : Turn \cup {NoTurn}]
          /\ conversation'.count = conversation.count
      BY <1>1, <2>1
    <2>3. TurnRow(u) /\ u.pc = "stream" /\ u.seq = turns[t].seq
      BY <1>5 DEF TurnRow, Phase
    <2> HIDE DEF u
    <2> QED
      BY <1>4, <2>1, <2>2, <2>3 DEF Phase
  <1>9. ASSUME NEW t \in Turn, Stream(t) PROVE TurnsInv'
    <2> DEFINE u == [Waiting EXCEPT !.pc = "answer", !.alone = turns[t].alone]
    <2>1. turns' = [turns EXCEPT ![t] = u] /\ UNCHANGED <<conversation, messages>>
      BY <1>9 DEF Stream
    <2>2. TurnRow(u) /\ u.pc = "answer" /\ u.seq = 0
      BY WaitingTyped DEF TurnRow, Phase
    <2> HIDE DEF u
    <2> QED
      BY <1>1, <1>4, <2>1, <2>2 DEF Phase
  <1>10. ASSUME NEW t \in Turn, AddQuestion(t) PROVE TurnsInv'
    BY <1>10, InsertKeeps DEF AddQuestion
  <1>11. ASSUME NEW t \in Turn, AddAnswer(t) PROVE TurnsInv'
    BY <1>11, InsertKeeps DEF AddAnswer
  <1>12. ASSUME NEW t \in Turn, TurnFails(t) PROVE TurnsInv'
    BY <1>12, TurnFailsKeeps DEF TurnFails
  <1>13. CASE UNCHANGED chatVars
    BY <1>13 DEF chatVars, TurnsInv, TurnsTInv, TurnRow, Numbered, Ordered, Asking
  <1> QED
    BY <1>3, <1>6, <1>7, <1>8, <1>9, <1>10, <1>11, <1>12, <1>13, BeginKeepsTurns, CitationsKeep DEF ChatNext

\* Messages with numbers of their own are as many as their numbers.
LEMMA CountedOnce ==
    ASSUME TurnsInv
    PROVE  Cardinality(messages) = conversation.count
  <1> DEFINE n == conversation.count
             f == [m \in messages |-> m.seq]
  <1>1. n \in Nat /\ Numbered
    BY DEF TurnsInv, TurnsTInv
  <1>2. f \in Bijection(messages, 1..n)
    <2>1. \A m \in messages : m.seq \in 1..n
      BY <1>1 DEF Numbered
    <2>2. \A k \in 1..n : \E m \in messages : m.seq = k
      BY <1>1 DEF Numbered
    <2>3. \A m, k \in messages : m.seq = k.seq => m = k
      BY <1>1 DEF Numbered
    <2>4. f \in [messages -> 1..n] /\ \A m \in messages : f[m] = m.seq
      BY <2>1
    <2> HIDE DEF f, n
    <2>5. \A m, k \in messages : f[m] = f[k] => m = k
      BY <2>3, <2>4
    <2>6. \A k \in 1..n : \E m \in messages : f[m] = k
      BY <2>2, <2>4
    <2> QED
      BY <2>4, <2>5, <2>6, Fun_IsBij
  <1>3. ExistsBijection(1..n, messages)
    BY <1>2, Fun_ExistsBijSymmetric DEF ExistsBijection
  <1> QED
    BY <1>1, <1>3, FS_CountingElements

\* Every field of the conversation, its messages and its turns holds a value of
\* its set; only what a turn was given to read is left open.
THEOREM TurnsTypeCorrect == ChatSpec => []TurnsTInv
  <1>1. TurnsInv => TurnsTInv
    BY DEF TurnsInv
  <1> QED
    BY <1>1, TurnsInitInv, TurnsNextInv, PTL DEF ChatSpec

\* As long as no two turns overlapped: an answer follows its question, a turn has
\* at most one of each, one turn runs at a time, and its question is the last
\* message until it is answered; what it was given to read is what the messages
\* that are there tell.
AllAlone == \A u \in Turn : turns[u].alone
Asked == {"history", "retrieve", "context", "stream", "answer"}
Reading == {"retrieve", "context", "stream"}
Unbroken ==
    \A m \in messages : m.role = "assistant" =>
        \E q \in messages : q.role = "user" /\ q.turn = m.turn /\ q.seq + 1 = m.seq
Single == \A m, n \in messages : m.turn = n.turn /\ m.role = n.role => m = n
OneRuns == \A t, u \in Turn : Running(t) /\ Running(u) => t = u
Unanswered(t) ==
    turns[t].pc \in Asked =>
        /\ \A m \in messages : m.turn = t => m.role = "user"
        /\ \E q \in messages : q.role = "user" /\ q.turn = t /\ q.seq = conversation.count
Informed(t) == turns[t].pc \in Reading => turns[t].history = RecentPairs(Recent)
Begun == {t \in Turn : turns[t].pc # "off"}

Serial == Unbroken /\ Single /\ OneRuns /\ \A t \in Turn : Unanswered(t) /\ Informed(t)
AloneSoFar == \A t \in Turn : turns[t].pc = "off" => turns[t].alone
SerialInv == TurnsInv /\ IsFiniteSet(Begun) /\ AloneSoFar /\ (AllAlone => Serial)

\* At the beginning nothing has been written.
LEMMA SerialInitInv == ChatInit => SerialInv
  <1> SUFFICES ASSUME ChatInit PROVE SerialInv
    OBVIOUS
  <1>1. /\ messages = {} /\ \A t \in Turn : turns[t] = Waiting
    BY DEF ChatInit
  <1>2. \A t \in Turn : turns[t].pc = "off"
    BY <1>1, WaitingTyped
  <1>3. Begun = {}
    BY <1>2 DEF Begun
  <1>4. Serial
    BY <1>1, <1>2 DEF Serial, Unbroken, Single, OneRuns, Running, Unanswered, Informed, Asked, Reading
  <1>5. AloneSoFar
    BY <1>1 DEF AloneSoFar, Waiting
  <1> QED
    BY <1>3, <1>4, <1>5, TurnsInitInv, FS_EmptySet DEF SerialInv

\* A turn that is under way moves on, without a message.
LEMMA SerialMoves ==
    ASSUME SerialInv, TurnsInv', NEW t \in Turn, NEW u, turns' = [turns EXCEPT ![t] = u],
           UNCHANGED messages, conversation'.count = conversation.count,
           Running(t), u.pc # "off", u.alone = turns[t].alone,
           u.pc \in Asked => turns[t].pc \in Asked,
           AllAlone /\ u.pc \in Reading => u.history = RecentPairs(Recent)
    PROVE  SerialInv'
  <1>1. turns = [r \in Turn |-> turns[r]]
    BY DEF SerialInv, TurnsInv, TurnsTInv
  <1>2. turns'[t] = u /\ \A r \in Turn : r # t => turns'[r] = turns[r]
    BY <1>1
  <1>3. Begun' \subseteq Begun
    BY <1>2 DEF Begun, Running
  <1>4. IsFiniteSet(Begun')
    BY <1>3, FS_Subset DEF SerialInv
  <1>5. ASSUME AllAlone' PROVE Serial'
    <2>1. AllAlone
      BY <1>2, <1>5 DEF AllAlone
    <2>2. Serial
      BY <2>1 DEF SerialInv
    <2>3. Unbroken' /\ Single'
      BY <2>2 DEF Serial, Unbroken, Single
    <2>4. OneRuns'
      BY <1>2, <2>2 DEF Serial, OneRuns, Running
    <2>5. Recent' = Recent
      BY DEF Recent, Ranked
    <2>6. ASSUME NEW r \in Turn PROVE Unanswered(r)' /\ Informed(r)'
      <3>1. CASE r = t
        <4>1. Unanswered(t)'
          BY <1>2, <2>2 DEF Serial, Unanswered
        <4>2. Informed(t)'
          BY <1>2, <2>1, <2>5 DEF Informed
        <4> QED
          BY <3>1, <4>1, <4>2
      <3>2. CASE r # t
        BY <1>2, <2>2, <2>5, <3>2 DEF Serial, Unanswered, Informed
      <3> QED
        BY <3>1, <3>2
    <2> QED
      BY <2>3, <2>4, <2>6 DEF Serial
  <1>6. AloneSoFar'
    BY <1>2 DEF SerialInv, AloneSoFar
  <1> QED
    BY <1>4, <1>5, <1>6 DEF SerialInv

\* What is left of a turn that is over.
LEMMA OverLeft ==
    ASSUME NEW t \in Turn
    PROVE  Over(t).pc = "over" /\ Over(t).alone = turns[t].alone
  BY DEF Over, Waiting

\* A turn that fails writes no message.
LEMMA FailingSerial ==
    ASSUME SerialInv, TurnsInv', NEW t \in Turn, Running(t), turns' = [turns EXCEPT ![t] = Over(t)],
           UNCHANGED <<conversation, messages>>
    PROVE  SerialInv'
  <1> DEFINE u == Over(t)
  <1>1. u.pc = "over" /\ u.alone = turns[t].alone
    BY OverLeft
  <1> HIDE DEF u
  <1>2. turns' = [turns EXCEPT ![t] = u]
    BY DEF u
  <1>3. u.pc # "off" /\ u.pc \notin Asked /\ u.pc \notin Reading
    BY <1>1 DEF Asked, Reading
  <1> QED
    BY <1>1, <1>2, <1>3, SerialMoves

\* A question follows the other messages, and an answer its question.
LEMMA InsertSerial ==
    ASSUME SerialInv, TurnsInv', NEW t \in Turn, NEW author \in {"user", "assistant"}, NEW next \in {"history", "cite"},
           turns[t].seq # 0, author = "user" => turns[t].pc = "question" /\ next = "history",
           author = "assistant" => turns[t].pc = "answer" /\ next = "cite", Insert(t, author, next)
    PROVE  SerialInv'
  <1> DEFINE new == [seq |-> turns[t].seq, role |-> author, turn |-> t, cites |-> NoTurn]
             n == conversation.count
             u == [turns[t] EXCEPT !.pc = next, !.seq = 0]
  <1>1. /\ conversation \in [there : BOOLEAN, count : Nat, entities : Turn \cup {NoTurn}, relations : Turn \cup {NoTurn}]
        /\ messages \subseteq Message /\ turns = [r \in Turn |-> turns[r]] /\ TurnRow(turns[t])
        /\ Numbered /\ Ordered /\ Asking(t)
    BY DEF SerialInv, TurnsInv, TurnsTInv
  <1>2. n \in Nat /\ turns[t].seq \in Nat \ {0} /\ turns[t].seq <= n + 1 /\ Running(t)
    BY <1>1 DEF Asking, TurnRow, Running
  <1>3. CASE \A m \in messages : m.seq # turns[t].seq
    <2>1. turns[t].seq = n + 1
      <3>1. turns[t].seq \notin {m.seq : m \in messages}
        BY <1>3
      <3>2. turns[t].seq \notin 1..n
        BY <1>1, <3>1 DEF Numbered
      <3> QED
        BY <1>2, <3>2
    <2>2. /\ messages' = messages \cup {new} /\ conversation' = [conversation EXCEPT !.count = @ + 1]
          /\ turns' = [turns EXCEPT ![t] = u]
      BY <1>1, <1>3 DEF Insert
    <2>3. new.seq = n + 1 /\ new.turn = t /\ new.role = author
      BY <2>1
    <2>4. conversation'.count = n + 1
      BY <1>1, <1>2, <2>2
    <2>5. u.pc = next /\ u.alone = turns[t].alone
      BY <1>1 DEF TurnRow
    <2> HIDE DEF u, new
    <2>6. turns'[t] = u /\ \A r \in Turn : r # t => turns'[r] = turns[r]
      BY <1>1, <2>2
    <2>7. Begun' \subseteq Begun
      BY <1>2, <2>6 DEF Begun, Running
    <2>8. IsFiniteSet(Begun')
      BY <2>7, FS_Subset DEF SerialInv
    <2>9. ASSUME AllAlone' PROVE Serial'
      <3>1. AllAlone
        BY <2>5, <2>6, <2>9 DEF AllAlone
      <3>2. Serial
        BY <3>1 DEF SerialInv
      <3>3. author = "user" => \A m \in messages : m.turn # t
        BY <1>1 DEF Asking
      <3>4. author = "assistant" =>
                /\ \A m \in messages : m.turn = t => m.role = "user"
                /\ \E q \in messages : q.role = "user" /\ q.turn = t /\ q.seq = n
        BY <3>2 DEF Serial, Unanswered, Asked
      <3>5. Unbroken'
        <4>1. ASSUME NEW m \in messages', m.role = "assistant"
              PROVE  \E q \in messages' : q.role = "user" /\ q.turn = m.turn /\ q.seq + 1 = m.seq
          <5>1. CASE m \in messages
            BY <2>2, <3>2, <4>1, <5>1 DEF Serial, Unbroken
          <5>2. CASE m = new
            BY <2>2, <2>3, <3>4, <4>1, <5>2
          <5> QED
            BY <2>2, <5>1, <5>2
        <4> QED
          BY <4>1 DEF Unbroken
      <3>6. Single'
        <4>1. ASSUME NEW m \in messages, m.turn = t, m.role = author PROVE FALSE
          BY <3>3, <3>4, <4>1
        <4>2. ASSUME NEW m \in messages', NEW k \in messages', m.turn = k.turn, m.role = k.role PROVE m = k
          <5>1. CASE m \in messages /\ k \in messages
            BY <3>2, <4>2, <5>1 DEF Serial, Single
          <5>2. CASE m \in messages /\ k = new
            BY <2>3, <4>1, <4>2, <5>2
          <5>3. CASE m = new /\ k \in messages
            BY <2>3, <4>1, <4>2, <5>3
          <5>4. CASE m = new /\ k = new
            BY <5>4
          <5> QED
            BY <2>2, <4>2, <5>1, <5>2, <5>3, <5>4
        <4> QED
          BY <4>2 DEF Single
      <3>7. OneRuns'
        BY <1>2, <2>6, <3>2 DEF Serial, OneRuns, Running
      <3>8. ASSUME NEW r \in Turn PROVE Unanswered(r)' /\ Informed(r)'
        <4>1. CASE r = t
          <5>1. Informed(t)'
            BY <2>5, <2>6 DEF Informed, Reading
          <5>2. CASE author = "user"
            <6>1. \A m \in messages' : m.turn = t => m.role = "user"
              BY <2>2, <2>3, <3>3, <5>2
            <6>2. new \in messages' /\ new.role = "user" /\ new.turn = t /\ new.seq = conversation'.count
              BY <2>2, <2>3, <2>4, <5>2
            <6> QED
              BY <4>1, <5>1, <6>1, <6>2 DEF Unanswered
          <5>3. CASE author = "assistant"
            <6>1. turns'[t].pc = "cite"
              BY <2>5, <2>6, <5>3
            <6> QED
              BY <4>1, <5>1, <6>1 DEF Unanswered, Asked
          <5> QED
            BY <5>2, <5>3
        <4>2. CASE r # t
          <5>1. ~Running(r) /\ turns'[r] = turns[r]
            BY <1>2, <2>6, <3>2, <4>2 DEF Serial, OneRuns
          <5> QED
            BY <5>1 DEF Running, Unanswered, Informed, Asked, Reading
        <4> QED
          BY <4>1, <4>2
      <3> QED
        BY <3>5, <3>6, <3>7, <3>8 DEF Serial
    <2>10. AloneSoFar'
      BY <1>2, <2>5, <2>6 DEF SerialInv, AloneSoFar, Running
    <2> QED
      BY <2>8, <2>9, <2>10 DEF SerialInv
  <1>4. CASE ~(\A m \in messages : m.seq # turns[t].seq)
    BY <1>2, <1>4, FailingSerial DEF Insert
  <1> QED
    BY <1>3, <1>4

\* The citations are added to an answer, after which no turn runs.
LEMMA CitationsSerial ==
    ASSUME SerialInv, TurnsInv', NEW t \in Turn, SetCitations(t)
    PROVE  SerialInv'
  <1> DEFINE Cited(m) == IF m.turn = t /\ m.role = "assistant" THEN [m EXCEPT !.cites = t] ELSE m
  <1>1. /\ messages' = {Cited(m) : m \in messages} /\ turns' = [turns EXCEPT ![t] = Over(t)] /\ UNCHANGED conversation
        /\ Running(t)
    BY DEF SetCitations, Running
  <1>2. messages \subseteq Message /\ turns = [r \in Turn |-> turns[r]]
    BY DEF SerialInv, TurnsInv, TurnsTInv
  <1>3. ASSUME NEW m \in messages
        PROVE  Cited(m).seq = m.seq /\ Cited(m).turn = m.turn /\ Cited(m).role = m.role
    BY <1>2 DEF Message
  <1> HIDE DEF Cited
  <1>4. /\ turns'[t].pc = "over" /\ turns'[t].alone = turns[t].alone
        /\ \A r \in Turn : r # t => turns'[r] = turns[r]
    BY <1>1, <1>2, OverLeft
  <1>5. Begun' \subseteq Begun
    BY <1>1, <1>4 DEF Begun, Running
  <1>6. IsFiniteSet(Begun')
    BY <1>5, FS_Subset DEF SerialInv
  <1>7. ASSUME AllAlone' PROVE Serial'
    <2>1. Serial
      <3>1. AllAlone
        BY <1>4, <1>7 DEF AllAlone
      <3> QED
        BY <3>1 DEF SerialInv
    <2>2. ASSUME NEW r \in Turn PROVE ~Running(r)'
      BY <1>1, <1>4, <2>1 DEF Serial, OneRuns, Running
    <2>3. Unbroken'
      <3>1. ASSUME NEW k \in messages', k.role = "assistant"
            PROVE  \E q \in messages' : q.role = "user" /\ q.turn = k.turn /\ q.seq + 1 = k.seq
        <4>1. PICK m \in messages : k = Cited(m)
          BY <1>1, <3>1
        <4>2. PICK q \in messages : q.role = "user" /\ q.turn = m.turn /\ q.seq + 1 = m.seq
          BY <1>3, <2>1, <3>1, <4>1 DEF Serial, Unbroken
        <4>3. Cited(q) \in messages'
          BY <1>1
        <4> QED
          BY <1>3, <4>1, <4>2, <4>3
      <3> QED
        BY <3>1 DEF Unbroken
    <2>4. Single'
      BY <1>1, <1>3, <2>1 DEF Serial, Single
    <2> QED
      BY <2>2, <2>3, <2>4 DEF Serial, OneRuns, Running, Unanswered, Informed, Asked, Reading
  <1>8. AloneSoFar'
    BY <1>1, <1>4 DEF SerialInv, AloneSoFar
  <1> QED
    BY <1>6, <1>7, <1>8 DEF SerialInv

\* A turn that begins is alone if no other runs.
LEMMA BeginSerial ==
    ASSUME SerialInv, TurnsInv', NEW t \in Turn, BeginTurn(t)
    PROVE  SerialInv'
  <1> DEFINE others == {u \in Turn \ {t} : Running(u)}
             first == [Waiting EXCEPT !.pc = "question", !.alone = others = {}]
  <1>1. /\ turns[t].pc = "off" /\ conversation' = [conversation EXCEPT !.there = TRUE]
        /\ turns' = [u \in Turn |-> IF u = t THEN first
                                    ELSE IF u \in others THEN [turns[u] EXCEPT !.alone = FALSE] ELSE turns[u]]
        /\ UNCHANGED messages
    BY DEF BeginTurn
  <1>2. first.pc = "question" /\ (first.alone <=> others = {})
    BY DEF Waiting
  <1> HIDE DEF first
  <1>3. turns'[t] = first /\ \A r \in Turn : r \notin others /\ r # t => turns'[r] = turns[r]
    BY <1>1
  <1>4. ASSUME NEW r \in others PROVE turns'[r].pc = turns[r].pc
    <2>1. TurnRow(turns[r]) /\ turns'[r] = [turns[r] EXCEPT !.alone = FALSE]
      BY <1>1 DEF SerialInv, TurnsInv, TurnsTInv
    <2> QED
      BY <2>1 DEF TurnRow
  <1>5. IsFiniteSet(Begun')
    <2>1. Begun' \subseteq Begun \cup {t}
      BY <1>3, <1>4 DEF Begun
    <2>2. IsFiniteSet(Begun \cup {t})
      BY FS_AddElement DEF SerialInv
    <2> QED
      BY <2>1, <2>2, FS_Subset
  <1>6. ASSUME AllAlone' PROVE Serial'
    <2>1. others = {}
      BY <1>2, <1>3, <1>6 DEF AllAlone
    <2>2. \A r \in Turn : r # t => turns'[r] = turns[r] /\ ~Running(r)
      BY <1>3, <2>1
    <2>3. turns[t].alone
      BY <1>1 DEF SerialInv, AloneSoFar
    <2>4. AllAlone
      BY <1>6, <2>2, <2>3 DEF AllAlone
    <2>5. Serial
      BY <2>4 DEF SerialInv
    <2>6. Unbroken' /\ Single'
      BY <1>1, <2>5 DEF Serial, Unbroken, Single
    <2>7. OneRuns'
      BY <2>2 DEF OneRuns, Running
    <2>8. ASSUME NEW r \in Turn PROVE Unanswered(r)' /\ Informed(r)'
      <3>1. r = t => turns'[r].pc = "question"
        BY <1>2, <1>3
      <3>2. r # t => turns'[r].pc \in {"off", "over"}
        BY <2>2 DEF Running
      <3> QED
        BY <3>1, <3>2 DEF Unanswered, Informed, Asked, Reading
    <2> QED
      BY <2>6, <2>7, <2>8 DEF Serial
  <1>7. AloneSoFar'
    BY <1>2, <1>3, <1>4 DEF SerialInv, AloneSoFar, Running
  <1> QED
    BY <1>5, <1>6, <1>7 DEF SerialInv

\* Every step keeps the invariant of the conversation.
LEMMA SerialNextInv == SerialInv /\ [ChatNext]_chatVars => SerialInv'
  <1> SUFFICES ASSUME SerialInv, [ChatNext]_chatVars PROVE SerialInv'
    OBVIOUS
  <1>1. /\ conversation \in [there : BOOLEAN, count : Nat, entities : Turn \cup {NoTurn}, relations : Turn \cup {NoTurn}]
        /\ TurnsInv /\ \A t \in Turn : TurnRow(turns[t])
    BY DEF SerialInv, TurnsInv, TurnsTInv
  <1>2. TurnsInv'
    BY <1>1, TurnsNextInv
  <1>3. ASSUME NEW t \in Turn, NEW u, turns' = [turns EXCEPT ![t] = u], UNCHANGED messages,
               conversation'.count = conversation.count,
               turns[t].pc \in Asked \cup {"question"}, u.alone = turns[t].alone,
               u.pc # "off", u.pc \in Asked => turns[t].pc \in Asked,
               AllAlone /\ u.pc \in Reading => u.history = RecentPairs(Recent)
        PROVE  SerialInv'
    <2>1. Running(t)
      BY <1>3 DEF Running, Asked
    <2> QED
      BY <1>2, <1>3, <2>1, SerialMoves
  <1>4. ASSUME NEW t \in Turn, NextSeq(t) PROVE SerialInv'
    <2> DEFINE u == [turns[t] EXCEPT !.seq = Max({0} \cup {m.seq : m \in messages}) + 1]
    <2>1. turns' = [turns EXCEPT ![t] = u] /\ UNCHANGED <<conversation, messages>> /\ turns[t].pc \in {"question", "answer"}
      BY <1>4 DEF NextSeq
    <2>2. u.pc = turns[t].pc /\ u.alone = turns[t].alone
      BY <1>1 DEF TurnRow
    <2> HIDE DEF u
    <2>3. /\ conversation'.count = conversation.count /\ turns[t].pc \in Asked \cup {"question"}
          /\ u.pc # "off" /\ (u.pc \in Asked => turns[t].pc \in Asked)
          /\ AllAlone /\ u.pc \in Reading => u.history = RecentPairs(Recent)
      BY <2>1, <2>2 DEF Asked, Reading
    <2> QED
      BY <1>3, <2>1, <2>2, <2>3
  <1>5. ASSUME NEW t \in Turn, CollectHistory(t) PROVE SerialInv'
    <2> DEFINE u == [turns[t] EXCEPT !.pc = "retrieve", !.history = RecentPairs(Recent)]
    <2>1. turns' = [turns EXCEPT ![t] = u] /\ UNCHANGED <<conversation, messages>> /\ turns[t].pc = "history"
      BY <1>5 DEF CollectHistory
    <2>2. u.pc = "retrieve" /\ u.alone = turns[t].alone /\ u.history = RecentPairs(Recent)
      BY <1>1 DEF TurnRow
    <2> HIDE DEF u
    <2>3. /\ conversation'.count = conversation.count /\ turns[t].pc \in Asked /\ u.pc # "off"
          /\ AllAlone /\ u.pc \in Reading => u.history = RecentPairs(Recent)
      BY <2>1, <2>2 DEF Asked
    <2> QED
      BY <1>3, <2>1, <2>2, <2>3
  <1>6. ASSUME NEW t \in Turn, NEW planned \in BOOLEAN, Retrieve(t, planned) PROVE SerialInv'
    <2> DEFINE pc == IF planned THEN "context" ELSE "stream"
               u == [turns[t] EXCEPT !.pc = pc,
                        !.facts = IF planned THEN {conversation.entities, conversation.relations} \ {NoTurn} ELSE {}]
    <2>1. turns' = [turns EXCEPT ![t] = u] /\ UNCHANGED <<conversation, messages>> /\ turns[t].pc = "retrieve"
      BY <1>6 DEF Retrieve
    <2>2. pc \in {"context", "stream"}
      OBVIOUS
    <2> HIDE DEF pc
    <2>3. u.pc = pc /\ u.alone = turns[t].alone /\ u.history = turns[t].history
      BY <1>1 DEF TurnRow
    <2> HIDE DEF u
    <2>4. /\ turns[t].pc \in Asked /\ u.pc # "off" /\ conversation'.count = conversation.count
          /\ AllAlone /\ u.pc \in Reading => u.history = RecentPairs(Recent)
      BY <2>1, <2>2, <2>3 DEF Asked, Reading, SerialInv, Serial, Informed
    <2> QED
      BY <1>3, <2>1, <2>3, <2>4
  <1>7. ASSUME NEW t \in Turn, WriteContext(t) PROVE SerialInv'
    <2> DEFINE u == [turns[t] EXCEPT !.pc = "stream"]
    <2>1. /\ turns' = [turns EXCEPT ![t] = u] /\ UNCHANGED messages /\ turns[t].pc = "context"
          /\ conversation' \in {conversation, [conversation EXCEPT !.entities = t],
                                [conversation EXCEPT !.entities = t, !.relations = t]}
      BY <1>7 DEF WriteContext
    <2>2. conversation'.count = conversation.count
      BY <1>1, <2>1
    <2>3. u.pc = "stream" /\ u.alone = turns[t].alone /\ u.history = turns[t].history
      BY <1>1 DEF TurnRow
    <2> HIDE DEF u
    <2>4. /\ turns[t].pc \in Asked /\ u.pc # "off" /\ conversation'.count = conversation.count
          /\ AllAlone /\ u.pc \in Reading => u.history = RecentPairs(Recent)
      BY <2>1, <2>2, <2>3 DEF Asked, Reading, SerialInv, Serial, Informed
    <2> QED
      BY <1>3, <2>1, <2>3, <2>4
  <1>8. ASSUME NEW t \in Turn, Stream(t) PROVE SerialInv'
    <2> DEFINE u == [Waiting EXCEPT !.pc = "answer", !.alone = turns[t].alone]
    <2>1. turns' = [turns EXCEPT ![t] = u] /\ UNCHANGED <<conversation, messages>> /\ turns[t].pc = "stream"
      BY <1>8 DEF Stream
    <2>2. u.pc = "answer" /\ u.alone = turns[t].alone
      BY DEF Waiting
    <2> HIDE DEF u
    <2>3. /\ conversation'.count = conversation.count /\ turns[t].pc \in Asked /\ u.pc # "off"
          /\ AllAlone /\ u.pc \in Reading => u.history = RecentPairs(Recent)
      BY <2>1, <2>2 DEF Asked, Reading
    <2> QED
      BY <1>3, <2>1, <2>2, <2>3
  <1>9. ASSUME NEW t \in Turn, AddQuestion(t) PROVE SerialInv'
    BY <1>2, <1>9, InsertSerial DEF AddQuestion
  <1>10. ASSUME NEW t \in Turn, AddAnswer(t) PROVE SerialInv'
    BY <1>2, <1>10, InsertSerial DEF AddAnswer
  <1>11. ASSUME NEW t \in Turn, TurnFails(t) PROVE SerialInv'
    BY <1>2, <1>11, FailingSerial DEF TurnFails
  <1>12. CASE UNCHANGED chatVars
    <2>1. UNCHANGED <<conversation, messages, turns>>
      BY <1>12 DEF chatVars
    <2>2. Recent' = Recent
      BY <2>1 DEF Recent, Ranked
    <2>3. Begun' = Begun /\ (AloneSoFar => AloneSoFar') /\ (AllAlone' => AllAlone)
      BY <2>1 DEF Begun, AloneSoFar, AllAlone
    <2>4. (Unbroken => Unbroken') /\ (Single => Single') /\ (OneRuns => OneRuns')
      BY <2>1 DEF Unbroken, Single, OneRuns, Running
    <2>5. \A t \in Turn : (Unanswered(t) => Unanswered(t)') /\ (Informed(t) => Informed(t)')
      BY <2>1, <2>2 DEF Unanswered, Informed
    <2>6. Serial => Serial'
      BY <2>4, <2>5 DEF Serial
    <2> QED
      BY <1>2, <2>3, <2>6 DEF SerialInv
  <1> QED
    BY <1>2, <1>4, <1>5, <1>6, <1>7, <1>8, <1>9, <1>10, <1>11, <1>12, BeginSerial, CitationsSerial DEF ChatNext

\* As many as there are, if each is paired with one of its own.
LEMMA NoMoreThan ==
    ASSUME NEW S, NEW T, IsFiniteSet(T), NEW f, f \in [S -> T], \A x, y \in S : f[x] = f[y] => x = y
    PROVE  IsFiniteSet(S) /\ Cardinality(S) \in Nat /\ Cardinality(T) \in Nat /\ Cardinality(S) <= Cardinality(T)
  <1>1. f \in Injection(S, T)
    BY Fun_IsInj
  <1> QED
    BY <1>1, FS_Injection, FS_CardinalityType

\* Two sets have no more members together than one by one.
LEMMA AtMostBoth ==
    ASSUME NEW S, NEW T, IsFiniteSet(S), IsFiniteSet(T)
    PROVE  /\ IsFiniteSet(S \cup T)
           /\ Cardinality(S) \in Nat /\ Cardinality(T) \in Nat /\ Cardinality(S \cup T) \in Nat
           /\ Cardinality(S \cup T) <= Cardinality(S) + Cardinality(T)
  <1>1. /\ IsFiniteSet(S \cup T)
        /\ Cardinality(S \cup T) = Cardinality(S) + Cardinality(T) - Cardinality(S \cap T)
    BY FS_Union
  <1>2. IsFiniteSet(S \cap T)
    BY FS_Intersection
  <1>3. Cardinality(S) \in Nat /\ Cardinality(T) \in Nat
    BY FS_CardinalityType
  <1>4. Cardinality(S \cap T) \in Nat /\ Cardinality(S \cup T) \in Nat
    BY <1>1, <1>2, FS_CardinalityType
  <1> QED
    BY <1>1, <1>3, <1>4

\* Where each place but the first is in E, before one of E, or in B.
LEMMA Neighbours ==
    ASSUME NEW L \in Nat, NEW E \in SUBSET (1..L), NEW B \in SUBSET (1..L),
           \A j \in 1..L : j = 1 \/ j \in E \/ j \in B \/ j + 1 \in E
    PROVE  L <= 2 * Cardinality(E) + Cardinality(B) + 1
  <1> DEFINE D == {j \in 1..L : j + 1 \in E}
             f == [j \in D |-> j + 1]
             W == 1..L
  <1>1. IsFiniteSet(W) /\ Cardinality(W) = L
    BY FS_Interval
  <1>2. f \in [D -> E] /\ \A x, y \in D : f[x] = f[y] => x = y
    OBVIOUS
  <1>3. W \subseteq (E \cup D) \cup (B \cup {1}) /\ E \in SUBSET W /\ B \in SUBSET W
    OBVIOUS
  <1> HIDE DEF D, f, W
  <1>4. IsFiniteSet(E) /\ IsFiniteSet(B)
    BY <1>1, <1>3, FS_Subset
  <1>5. IsFiniteSet(D) /\ Cardinality(D) \in Nat /\ Cardinality(D) <= Cardinality(E)
    BY <1>2, <1>4, NoMoreThan
  <1>6. IsFiniteSet({1}) /\ Cardinality({1}) = 1
    BY FS_Singleton
  <1> DEFINE U == E \cup D
             V == B \cup {1}
  <1>7. /\ IsFiniteSet(U) /\ Cardinality(U) \in Nat /\ Cardinality(E) \in Nat
        /\ Cardinality(U) <= Cardinality(E) + Cardinality(D)
    BY <1>4, <1>5, AtMostBoth
  <1>8. /\ IsFiniteSet(V) /\ Cardinality(V) \in Nat /\ Cardinality(B) \in Nat
        /\ Cardinality(V) <= Cardinality(B) + Cardinality({1})
    BY <1>4, <1>6, AtMostBoth
  <1>9. W \in SUBSET (U \cup V)
    BY <1>3
  <1> HIDE DEF U, V
  <1>10. /\ IsFiniteSet(U \cup V) /\ Cardinality(U \cup V) \in Nat
         /\ Cardinality(U \cup V) <= Cardinality(U) + Cardinality(V)
    BY <1>7, <1>8, AtMostBoth
  <1>11. Cardinality(W) <= Cardinality(U \cup V)
    BY <1>9, <1>10, FS_Subset
  <1> QED
    BY <1>1, <1>5, <1>6, <1>7, <1>8, <1>10, <1>11

\* The messages up to a number are as many as the number.
LEMMA CountedUpTo ==
    ASSUME TurnsInv, NEW k \in 0..conversation.count
    PROVE  Cardinality({m \in messages : m.seq <= k}) = k
  <1> DEFINE S == {m \in messages : m.seq <= k}
             f == [m \in S |-> m.seq]
  <1>1. conversation.count \in Nat /\ Numbered
    BY DEF TurnsInv, TurnsTInv
  <1>2. f \in Bijection(S, 1..k)
    <2>1. \A m \in S : m.seq \in 1..k
      BY <1>1 DEF Numbered
    <2>2. \A j \in 1..k : \E m \in S : m.seq = j
      BY <1>1 DEF Numbered
    <2>3. \A m, n \in S : m.seq = n.seq => m = n
      BY <1>1 DEF Numbered
    <2> HIDE DEF S
    <2>4. f \in [S -> 1..k] /\ \A m \in S : f[m] = m.seq
      BY <2>1
    <2> HIDE DEF f
    <2>5. \A m, n \in S : f[m] = f[n] => m = n
      BY <2>3, <2>4
    <2>6. \A j \in 1..k : \E m \in S : f[m] = j
      BY <2>2, <2>4
    <2> QED
      BY <2>4, <2>5, <2>6, Fun_IsBij
  <1>3. ExistsBijection(1..k, S)
    <2> HIDE DEF S, f
    <2> QED
      BY <1>2, Fun_ExistsBijSymmetric DEF ExistsBijection
  <1> HIDE DEF S
  <1>4. Cardinality(S) = k
    BY <1>3, FS_CountingElements
  <1> QED
    BY <1>4 DEF S

\* The message in a place is the one with its number.
LEMMA RankedBySeq ==
    ASSUME TurnsInv
    PROVE  /\ Ranked \in Seq(messages) /\ Len(Ranked) = conversation.count
           /\ \A k \in 1..conversation.count : Ranked[k] \in messages /\ Ranked[k].seq = k
  <1> DEFINE n == conversation.count
             R == [k \in 1..n |-> CHOOSE m \in messages : Cardinality({x \in messages : x.seq <= m.seq}) = k]
  <1>1. n \in Nat /\ Numbered /\ Cardinality(messages) = n
    BY CountedOnce DEF TurnsInv, TurnsTInv
  <1>2. Ranked = R
    BY <1>1 DEF Ranked
  <1>3. ASSUME NEW k \in 1..n PROVE R[k] \in messages /\ R[k].seq = k
    <2>1. \A m \in messages : m.seq \in 1..n
      BY <1>1 DEF Numbered
    <2>2. ASSUME NEW m \in messages PROVE Cardinality({x \in messages : x.seq <= m.seq}) = m.seq
      <3> DEFINE j == m.seq
      <3>1. j \in 0..conversation.count
        BY <1>1, <2>1
      <3> HIDE DEF j
      <3>2. Cardinality({x \in messages : x.seq <= j}) = j
        BY <3>1, CountedUpTo
      <3> QED
        BY <3>2 DEF j
    <2>3. \E m \in messages : m.seq = k
      BY <1>1 DEF Numbered
    <2>4. \E m \in messages : Cardinality({x \in messages : x.seq <= m.seq}) = k
      BY <2>2, <2>3
    <2>5. R[k] = CHOOSE m \in messages : Cardinality({x \in messages : x.seq <= m.seq}) = k
      OBVIOUS
    <2> HIDE DEF R
    <2>6. R[k] \in messages /\ Cardinality({x \in messages : x.seq <= R[k].seq}) = k
      BY <2>4, <2>5
    <2> QED
      BY <2>2, <2>6
  <1>4. R \in [1..n -> messages]
    BY <1>3
  <1> HIDE DEF R
  <1>5. R \in Seq(messages) /\ Len(R) = n
    BY <1>1, <1>4
  <1> QED
    BY <1>2, <1>3, <1>5

\* What a turn reads of the conversation are the messages before its question,
\* as many as its window has room for.
LEMMA RecentIs ==
    ASSUME TurnsInv, NEW q \in messages, q.role = "user", q.seq = conversation.count,
           NEW lo, lo = IF conversation.count > 4 * Pairs THEN conversation.count - 4 * Pairs ELSE 1
    PROVE  /\ conversation.count \in Nat \ {0} /\ lo \in 1..conversation.count
           /\ Recent \in Seq(messages) /\ Len(Recent) = conversation.count - lo
           /\ \A i \in 1..(conversation.count - lo) : Recent[i] \in messages /\ Recent[i].seq = lo + i - 1
  <1> DEFINE n == conversation.count
             W == SubSeq(Ranked, lo, n)
  <1>1. Pairs \in Nat \ {0} /\ n \in Nat /\ Numbered
    BY ChatTurnsConstants DEF TurnsInv, TurnsTInv
  <1>2. q.seq \in 1..n
    BY <1>1 DEF Numbered
  <1>3. n \in Nat \ {0} /\ lo \in 1..n
    BY <1>1, <1>2
  <1>4. Max({1, n - 4 * Pairs}) = lo
    <2>1. n - 4 * Pairs \in Int
      BY <1>1
    <2>2. lo = IF n - 4 * Pairs > 0 THEN n - 4 * Pairs ELSE 1
      BY <1>1
    <2> DEFINE d == n - 4 * Pairs
    <2> HIDE DEF d
    <2> QED
      BY <2>1, <2>2 DEF Max, d
  <1>5. /\ Ranked \in Seq(messages) /\ Len(Ranked) = n
        /\ \A k \in 1..n : Ranked[k] \in messages /\ Ranked[k].seq = k
    BY RankedBySeq
  <1>6. /\ W \in Seq(messages) /\ Len(W) = n - lo + 1
        /\ \A i \in 1..(n - lo + 1) : W[i] = Ranked[lo + i - 1]
    <2>1. \A i \in lo..n : Ranked[i] \in messages
      BY <1>3, <1>5
    <2>2. lo \in Int /\ n \in Int /\ lo <= n
      BY <1>3
    <2> HIDE DEF n
    <2> QED
      BY <2>1, <2>2, SubSeqProperties
  <1>7. \A i \in 1..(n - lo + 1) : W[i] \in messages /\ W[i].seq = lo + i - 1
    <2>1. ASSUME NEW i \in 1..(n - lo + 1) PROVE lo + i - 1 \in 1..n
      BY <1>3
    <2> QED
      BY ZenonT(30), <1>5, <1>6, <2>1
  <1>8. Recent = IF W # <<>> /\ Last(W).role = "user" THEN Front(W) ELSE W
    BY <1>4, <1>5 DEF Recent
  <1> HIDE DEF W
  <1>9. W # <<>> /\ Last(W) = q
    <2>1. n - lo + 1 \in 1..(n - lo + 1) /\ n - lo + 1 # 0 /\ lo + (n - lo + 1) - 1 = n
      BY <1>3
    <2>2. W[n - lo + 1] \in messages /\ W[n - lo + 1].seq = n
      BY <1>7, <2>1
    <2>3. W[n - lo + 1] = q
      BY <1>1, <2>2 DEF Numbered
    <2>4. Len(<<>>) = 0
      OBVIOUS
    <2> QED
      BY <1>6, <2>1, <2>3, <2>4 DEF Last
  <1>10. Recent = SubSeq(W, 1, n - lo)
    <2>1. Len(W) - 1 = n - lo
      BY <1>3, <1>6
    <2> QED
      BY <1>8, <1>9, <2>1 DEF Front
  <1>11. /\ Recent \in Seq(messages) /\ Len(Recent) = n - lo
         /\ \A i \in 1..(n - lo) : Recent[i] = W[i]
    <2> DEFINE L == n - lo
    <2>1. L \in Nat /\ 1 \in Int /\ L \in Int /\ \A i \in 1..L : W[i] \in messages
      BY <1>3, <1>7
    <2>2. Recent = SubSeq(W, 1, L)
      BY <1>10
    <2> HIDE DEF L
    <2>3. /\ SubSeq(W, 1, L) \in Seq(messages) /\ Len(SubSeq(W, 1, L)) = IF 1 <= L THEN L - 1 + 1 ELSE 0
          /\ \A i \in 1..(L - 1 + 1) : SubSeq(W, 1, L)[i] = W[1 + i - 1]
      BY <2>1, SubSeqProperties
    <2>4. L - 1 + 1 = L /\ (\A i \in 1..L : 1 + i - 1 = i) /\ (~(1 <= L) => L = 0)
      BY <2>1
    <2>5. Recent \in Seq(messages) /\ Len(Recent) = L /\ \A i \in 1..L : Recent[i] = W[i]
      BY <2>1, <2>2, <2>3, <2>4
    <2> QED
      BY <2>5 DEF L
  <1>12. \A i \in 1..(n - lo) : i \in 1..(n - lo + 1)
    BY <1>3
  <1> QED
    BY <1>3, <1>7, <1>11, <1>12

\* The pairs a turn reads are the last of the questions it can see that were
\* answered, each with its answer.
LEMMA HistoryTells ==
    ASSUME SerialInv, Serial, NEW t \in Turn, turns[t].pc \in Asked,
           NEW answered, answered = {m.turn : m \in {x \in messages : x.role = "assistant" /\ x.turn # t}},
           NEW h, h = RecentPairs(Recent)
    PROVE  /\ \A k \in DOMAIN h : h[k][1] = h[k][2] /\ h[k][1] \in answered
           /\ Cardinality({u \in Turn : turns[u].pc = "over"} \ answered) <= 2 * Pairs =>
                 Len(h) = Min({Pairs, Cardinality(answered)})
  <1> DEFINE n == conversation.count
             lo == IF n > 4 * Pairs THEN n - 4 * Pairs ELSE 1
             R == Recent
             L == n - lo
             E == {i \in 2..Len(R) : R[i].role = "assistant" /\ R[i - 1].role = "user"}
             F == {i \in E : Cardinality({j \in E : j > i}) < Pairs}
             over == {u \in Turn : turns[u].pc = "over"}
             B == {j \in 1..L : R[j].role = "user" /\ R[j].turn \notin answered}
  <1>1. /\ TurnsInv /\ messages \subseteq Message /\ Unbroken /\ Single /\ OneRuns /\ Unanswered(t)
        /\ IsFiniteSet(Begun) /\ \A u \in Turn : Asking(u) /\ TurnRow(turns[u])
    BY DEF SerialInv, Serial, TurnsInv, TurnsTInv
  <1>2. Pairs \in Nat \ {0}
    BY ChatTurnsConstants
  <1>3. PICK q \in messages : q.role = "user" /\ q.turn = t /\ q.seq = n
    BY <1>1 DEF Unanswered
  <1>4. /\ n \in Nat \ {0} /\ lo \in 1..n /\ R \in Seq(messages) /\ Len(R) = L
        /\ \A i \in 1..L : R[i] \in messages /\ R[i].seq = lo + i - 1
    <2> HIDE DEF lo
    <2>1. lo = IF conversation.count > 4 * Pairs THEN conversation.count - 4 * Pairs ELSE 1
      BY DEF lo
    <2> QED
      BY <1>1, <1>3, <2>1, RecentIs
  <1>5. \A m \in messages : m.seq \in 1..n /\ m.turn \in Turn /\ m.role \in {"user", "assistant"}
    BY <1>1 DEF Message, TurnsInv, Numbered
  <1>6. \A m, k \in messages : m.seq = k.seq => m = k
    BY <1>1 DEF TurnsInv, Numbered
  <1>7. L \in Nat /\ E \in SUBSET (1..L) /\ B \in SUBSET (1..L) /\ F \in SUBSET E /\ F \in SUBSET (1..L)
    <2> HIDE DEF lo
    <2> QED
      BY <1>4
  <1>8. h = [k \in 1..Cardinality(F) |->
                LET i == CHOOSE i \in F : Cardinality({j \in F : j <= i}) = k IN <<R[i - 1].turn, R[i].turn>>]
    BY DEF RecentPairs
  <1>9. \A i \in 2..L : i \in 1..L /\ i - 1 \in 1..L /\ lo + i - 1 \in Nat /\ lo + (i - 1) - 1 \in Nat
    <2> HIDE DEF lo
    <2> QED
      BY SMTT(30), <1>4
  <1> HIDE DEF lo, L, R
  \* An answer stands after its question.
  <1>10. ASSUME NEW i \in 2..L, R[i].role = "assistant"
         PROVE  i \in E /\ R[i - 1].turn = R[i].turn /\ R[i].turn \in answered
    <2>0. i \in 2..Len(R)
      BY <1>4
    <2>1. i \in 1..L /\ i - 1 \in 1..L
      BY <1>9
    <2>2. R[i] \in messages /\ R[i].seq = lo + i - 1 /\ R[i - 1] \in messages /\ R[i - 1].seq = lo + (i - 1) - 1
      BY <1>4, <2>1
    <2>3. PICK m \in messages : m.role = "user" /\ m.turn = R[i].turn /\ m.seq + 1 = R[i].seq
      BY <1>1, <1>10, <2>2 DEF Unbroken
    <2>4. m.seq = R[i - 1].seq
      BY <1>4, <1>5, <2>2, <2>3
    <2>5. m = R[i - 1]
      BY <1>6, <2>2, <2>4
    <2>6. R[i].turn # t
      BY <1>1, <1>10, <2>2 DEF Unanswered
    <2> QED
      BY <1>10, <2>0, <2>2, <2>3, <2>5, <2>6
  <1>11. ASSUME NEW i \in E PROVE i \in 2..L /\ R[i].role = "assistant" /\ R[i - 1].turn = R[i].turn /\ R[i].turn \in answered
    BY <1>4, <1>10
  \* A question that was answered stands before its answer.
  <1>12. ASSUME NEW j \in 1..L, R[j].role = "user", R[j].turn \in answered PROVE j + 1 \in E
    <2>1. R[j] \in messages /\ R[j].seq = lo + j - 1
      BY <1>4
    <2>2. PICK m \in messages : m.role = "assistant" /\ m.turn = R[j].turn
      BY <1>12
    <2>3. PICK x \in messages : x.role = "user" /\ x.turn = m.turn /\ x.seq + 1 = m.seq
      BY <1>1, <2>2 DEF Unbroken
    <2>4. x = R[j]
      BY <1>1, <1>12, <2>1, <2>2, <2>3 DEF Single
    <2>5. m.seq = lo + j /\ m.seq # n
      <3>1. m # q
        BY <1>3, <2>2
      <3>2. m.seq # n
        BY <1>3, <1>6, <3>1
      <3> QED
        BY <1>4, <2>1, <2>3, <2>4, <3>2
    <2>6. j + 1 \in 2..L /\ j + 1 \in 1..L
      <3>1. m.seq \in 1..n
        BY <1>5
      <3>2. j \in Nat \ {0} /\ lo \in Nat /\ n \in Nat /\ lo + j \in 1..n /\ lo + j # n
        BY <1>4, <1>7, <2>5, <3>1
      <3>3. lo + j <= n - 1
        BY <3>2
      <3>4. j + 1 <= n - lo
        BY <3>2, <3>3
      <3> QED
        BY <1>7, <3>2, <3>4 DEF L
    <2>7. R[j + 1] \in messages /\ R[j + 1].seq = lo + (j + 1) - 1
      BY <1>4, <2>6
    <2>8. R[j + 1].seq = m.seq
      BY <1>4, <2>5, <2>7
    <2>9. R[j + 1] = m
      BY <1>6, <2>7, <2>8
    <2> QED
      BY <1>10, <2>2, <2>6, <2>9
  \* One that was not is of a turn that is over.
  <1>13. ASSUME NEW j \in B PROVE R[j].turn \in over \ answered
    <2>1. j \in 1..L /\ R[j] \in messages /\ R[j].seq = lo + j - 1 /\ R[j].role = "user" /\ R[j].turn \notin answered
      BY <1>4
    <2>2. R[j].seq # n
      BY <1>4, <2>1 DEF L
    <2>3. R[j].turn # t
      BY <1>1, <1>3, <2>1, <2>2 DEF Single
    <2>4. R[j].turn \in Turn
      BY <1>5, <2>1
    <2>5. Running(t)
      BY DEF Running, Asked
    <2>6. ~Running(R[j].turn)
      BY <1>1, <2>3, <2>4, <2>5 DEF OneRuns
    <2>7. turns[R[j].turn].pc \notin {"off", "question"}
      BY <1>1, <2>1, <2>4 DEF Asking
    <2> QED
      BY <2>1, <2>4, <2>6, <2>7 DEF Running
  <1>14. /\ IsFiniteSet(answered) /\ Cardinality(answered) \in Nat
         /\ IsFiniteSet(over \ answered) /\ Cardinality(over \ answered) \in Nat
    <2>1. answered \subseteq Begun
      BY <1>1, <1>5 DEF Begun, Asking
    <2>2. over \ answered \subseteq Begun
      BY DEF Begun
    <2> HIDE DEF over
    <2> QED
      BY <1>1, <2>1, <2>2, FS_Subset, FS_CardinalityType
  <1>15. IsFiniteSet(E) /\ Cardinality(E) \in Nat /\ Cardinality(E) <= Cardinality(answered)
    <2> DEFINE f == [i \in E |-> R[i].turn]
    <2> HIDE DEF E
    <2>1. f \in [E -> answered] /\ \A i \in E : f[i] = R[i].turn
      BY <1>11
    <2> HIDE DEF f
    <2>2. ASSUME NEW i \in E, NEW j \in E, f[i] = f[j] PROVE i = j
      <3>1. i \in 1..L /\ j \in 1..L /\ R[i].role = "assistant" /\ R[j].role = "assistant"
        BY <1>7, <1>11
      <3>2. R[i] \in messages /\ R[j] \in messages /\ R[i].seq = lo + i - 1 /\ R[j].seq = lo + j - 1
        BY <1>4, <3>1
      <3>3. R[i] = R[j]
        BY <1>1, <2>1, <2>2, <3>1, <3>2 DEF Single
      <3> QED
        BY <1>4, <1>7, <3>1, <3>2, <3>3
    <2> QED
      BY <1>14, <2>1, <2>2, NoMoreThan
  <1>16. IsFiniteSet(B) /\ Cardinality(B) \in Nat /\ Cardinality(B) <= Cardinality(over \ answered)
    <2> DEFINE f == [j \in B |-> R[j].turn]
               C == over \ answered
    <2>1. \A j \in B : j \in 1..L /\ R[j].role = "user"
      OBVIOUS
    <2>2. \A j \in B : R[j].turn \in C
      BY <1>13
    <2>3. IsFiniteSet(C)
      BY <1>14
    <2> HIDE DEF B, C
    <2>4. f \in [B -> C] /\ \A j \in B : f[j] = R[j].turn
      BY <2>2
    <2> HIDE DEF f
    <2>5. ASSUME NEW i \in B, NEW j \in B, f[i] = f[j] PROVE i = j
      <3>1. R[i] \in messages /\ R[j] \in messages /\ R[i].seq = lo + i - 1 /\ R[j].seq = lo + j - 1
        BY <1>4, <2>1
      <3>2. R[i] = R[j]
        BY <1>1, <2>1, <2>4, <2>5, <3>1 DEF Single
      <3> QED
        BY <1>4, <1>7, <2>1, <3>1, <3>2
    <2> QED
      BY <2>3, <2>4, <2>5, NoMoreThan DEF C
  <1>17. ASSUME lo = 1 PROVE Cardinality(answered) <= Cardinality(E)
    <2>1. ASSUME NEW a \in answered PROVE \E i \in E : R[i].turn = a
      <3>1. PICK m \in messages : m.role = "assistant" /\ m.turn = a /\ m.turn # t
        BY <2>1
      <3>2. PICK x \in messages : x.role = "user" /\ x.turn = m.turn /\ x.seq + 1 = m.seq
        BY <1>1, <3>1 DEF Unbroken
      <3> DEFINE i == m.seq
      <3>3. i \in 1..n /\ x.seq \in 1..n /\ m # q
        BY <1>3, <1>5, <3>1
      <3>4. i # n
        BY <1>3, <1>6, <3>3
      <3>5. i \in 2..L /\ i \in 1..L
        BY <1>4, <1>17, <3>2, <3>3, <3>4 DEF L
      <3>6. R[i] \in messages /\ R[i].seq = lo + i - 1
        BY <1>4, <3>5
      <3>7. R[i] = m
        BY <1>6, <1>17, <3>3, <3>6
      <3>8. i \in E
        BY <1>10, <3>1, <3>5, <3>7
      <3> QED
        BY <3>1, <3>7, <3>8
    <2> DEFINE f == [a \in answered |-> CHOOSE i \in E : R[i].turn = a]
    <2> HIDE DEF E
    <2>2. \A a \in answered : f[a] \in E /\ R[f[a]].turn = a
      BY <2>1
    <2>3. f \in [answered -> E]
      BY <2>2
    <2> HIDE DEF f
    <2>4. \A a, b \in answered : f[a] = f[b] => a = b
      BY <2>2
    <2> QED
      BY <1>15, <2>3, <2>4, NoMoreThan
  <1>18. ASSUME lo # 1, Cardinality(over \ answered) <= 2 * Pairs PROVE Pairs <= Cardinality(E)
    <2>1. L = 4 * Pairs
      <3>1. n > 4 * Pairs /\ lo = n - 4 * Pairs
        BY <1>18 DEF lo
      <3> QED
        BY <1>2, <1>4, <3>1 DEF L
    <2>2. ASSUME NEW j \in 1..L PROVE j = 1 \/ j \in E \/ j \in B \/ j + 1 \in E
      <3>1. R[j].role \in {"user", "assistant"}
        BY <1>4, <1>5
      <3>2. CASE R[j].role = "user"
        BY <1>12, <3>2
      <3>3. CASE R[j].role = "assistant" /\ j # 1
        <4>1. j \in 2..L
          BY <1>7, <3>3
        <4> QED
          BY <1>10, <3>3, <4>1
      <3> QED
        BY <3>1, <3>2, <3>3
    <2>3. L <= 2 * Cardinality(E) + Cardinality(B) + 1
      <3> HIDE DEF E, B
      <3> QED
        BY <1>7, <2>2, Neighbours
    <2> HIDE DEF E, B, over
    <2> QED
      BY <1>2, <1>14, <1>15, <1>16, <1>18, <2>1, <2>3
  <1>19. Cardinality(F) = IF Cardinality(E) <= Pairs THEN Cardinality(E) ELSE Pairs
    <2> HIDE DEF E
    <2> QED
      BY <1>2, <1>7, Latest
  <1>20. Cardinality(F) \in Nat
    <2> HIDE DEF E, F
    <2> QED
      BY <1>2, <1>15, <1>19
  <1>21. DOMAIN h = 1..Cardinality(F) /\ Len(h) = Cardinality(F)
    <2> DEFINE e(k) == LET i == CHOOSE i \in F : Cardinality({j \in F : j <= i}) = k IN <<R[i - 1].turn, R[i].turn>>
               c == Cardinality(F)
    <2>1. h = [k \in 1..c |-> e(k)] /\ c \in Nat
      BY <1>8, <1>20
    <2> HIDE DEF e, c
    <2>2. h \in [1..c -> {e(k) : k \in 1..c}] /\ DOMAIN h = 1..c
      BY <2>1
    <2>3. Len(h) = c
      BY <2>1, <2>2
    <2> QED
      BY <2>2, <2>3 DEF c
  <1>22. ASSUME NEW k \in DOMAIN h PROVE h[k][1] = h[k][2] /\ h[k][1] \in answered
    <2> DEFINE i == CHOOSE i \in F : Cardinality({j \in F : j <= i}) = k
    <2>1. k \in 1..Cardinality(F) /\ h[k] = <<R[i - 1].turn, R[i].turn>>
      BY <1>8, <1>21
    <2>2. \E x \in F : Cardinality({j \in F : j <= x}) = k
      <3> HIDE DEF F, i
      <3> QED
        BY <1>7, <2>1, Ranks
    <2>3. i \in F
      <3> HIDE DEF F
      <3> QED
        BY <2>2
    <2> HIDE DEF i
    <2>4. i \in E
      BY <2>3
    <2> QED
      BY <1>11, <2>1, <2>4
  <1>23. ASSUME Cardinality(over \ answered) <= 2 * Pairs PROVE Len(h) = Min({Pairs, Cardinality(answered)})
    <2> DEFINE a == Cardinality(answered)
    <2>1. Cardinality(F) = IF a <= Pairs THEN a ELSE Pairs
      <3> HIDE DEF E, F, B, over, lo
      <3> QED
        BY <1>2, <1>14, <1>15, <1>17, <1>18, <1>19, <1>23
    <2>2. a \in Nat
      BY <1>14
    <2> HIDE DEF a
    <2>3. Min({Pairs, a}) = IF a <= Pairs THEN a ELSE Pairs
      BY <1>2, <2>2 DEF Min
    <2> QED
      BY <1>21, <2>1, <2>3 DEF a
  <1> QED
    BY <1>22, <1>23

\* What a turn is given to read of the conversation is true, if no turns overlapped.
LEMMA HistoryFollows == SerialInv => HistoryIsTrue
  <1> SUFFICES ASSUME SerialInv PROVE HistoryIsTrue
    OBVIOUS
  <1>1. ASSUME NEW t \in Turn, AllAlone, turns[t].pc \in Reading,
               NEW h, h = turns[t].history,
               NEW answered, answered = {m.turn : m \in {x \in messages : x.role = "assistant" /\ x.turn # t}}
        PROVE  /\ \A k \in DOMAIN h : h[k][1] = h[k][2] /\ h[k][1] \in answered
               /\ Cardinality({u \in Turn : turns[u].pc = "over"} \ answered) <= 2 * Pairs =>
                     Len(h) = Min({Pairs, Cardinality(answered)})
    <2>1. Serial
      BY <1>1 DEF SerialInv
    <2>2. h = RecentPairs(Recent)
      BY <1>1, <2>1 DEF Serial, Informed
    <2>3. turns[t].pc \in Asked
      BY <1>1 DEF Asked, Reading
    <2> QED
      BY <1>1, <2>1, <2>2, <2>3, HistoryTells
  <1> QED
    BY <1>1 DEF HistoryIsTrue, AllAlone, Reading

\* The messages of a conversation are whole, and what a turn is told of them is
\* a true story as long as its turns did not overlap: each pair is a question
\* and the answer to it, and as many of them as were asked for and are there.
\* For any number of turns, of pairs and of questions that were never answered.
THEOREM TranscriptsAreTrue == ChatSpec => []TranscriptIsTrue
  <1>1. SerialInv => TranscriptIsTrue
    BY CountedOnce, HistoryFollows DEF SerialInv, TurnsInv, Numbered, Ordered, TranscriptWhole, TranscriptIsTrue
  <1> QED
    BY <1>1, SerialInitInv, SerialNextInv, PTL DEF ChatSpec

--------------------------------------------------------------------------------
(****************************************************************************)
(* Knowledge bases.                                                         *)
(****************************************************************************)
SomeDomain == Domain \cup {NoDomain}
BaseRow == [there : BOOLEAN, domain : SomeDomain, located : BOOLEAN]
Chunk == [batch : Batch, doc : Document, embedded : BOOLEAN]
IndexerRow == [pc : {"off", "create", "list", "chunk", "embed", "undo"}, kind : {"none", "upload", "document", "base"},
               base : Base \cup {NoBase}, doc : Document \cup {NoDocument}, batch : Batch \cup {0},
               todo : SUBSET Document, listed : SUBSET Document, old : SUBSET Batch]
SearchRow == [pc : {"off", "gate", "lanes", "answered"}, bases : SUBSET Base, domains : SUBSET SomeDomain,
              gate : SUBSET SomeDomain, found : SUBSET (Document \X SomeDomain)]

\* A job has a batch while it embeds it, and old ones only after they were listed.
IndexerFits(u) ==
    /\ u.pc \in {"embed", "undo"} <=> u.batch # 0
    /\ u.pc \in {"create", "embed", "undo"} => u.doc \in Document
    /\ u.pc = "create" => u.kind = "upload"
    /\ u.pc = "list" => u.todo = u.listed /\ u.kind = "base" /\ u.old = {}
    /\ u.kind = "upload" => u.old = {}

RecordsTyped ==
    /\ bases \in [Base -> BaseRow]
    /\ documents \in [Document -> {"none", "active", "disabled", "deleted"}]
    /\ role \in [admin : BOOLEAN, granted : SUBSET Domain, bases : SUBSET Base]
    /\ searches \in [Searcher -> SearchRow]
IndexTyped ==
    /\ chunks \subseteq Chunk
    /\ jobs \in [Indexer -> IndexerRow]
    /\ \A j \in Indexer : IndexerFits(jobs[j])
KnowledgeTInv == RecordsTyped /\ IndexTyped

\* A search finds in its last step.
Found == FoundIsReadable /\ \A s \in Searcher : searches[s].pc # "answered" => searches[s].found = {}

\* A batch is of one pass over one document, and of one job, which has not
\* embedded it and did not list it.
Named == \A c, e \in chunks : c.batch = e.batch => c = e
Writing(j) ==
    /\ \A k \in Indexer \ {j} : jobs[j].batch # 0 => jobs[k].batch # jobs[j].batch
    /\ \A c \in chunks : c.batch = jobs[j].batch => ~c.embedded /\ c.doc = jobs[j].doc
    /\ jobs[j].batch \notin jobs[j].old

\* Of two jobs that listed batches of a document, the later one has listed all of
\* them that the earlier one did and that are still there.
ListedAfter(j, k) ==
    \A c, e \in chunks :
        c.doc = e.doc /\ c.batch \in jobs[j].old /\ e.batch \in jobs[k].old => c.batch \in jobs[k].old \/ e.batch \in jobs[j].old

\* As long as an old batch of a document is there, so is the new one, embedded or
\* about to be.
HasOld(j, d) == \E c \in chunks : c.doc = d /\ c.batch \in jobs[j].old
Pending(j) == jobs[j].batch # 0 /\ HasOld(j, jobs[j].doc) => \E c \in chunks : c.batch = jobs[j].batch
Renewed(j) ==
    \A d \in Document : HasOld(j, d) /\ d \notin jobs[j].todo =>
        \/ jobs[j].kind = "base" /\ d \notin jobs[j].listed
        \/ \E c \in chunks : c.doc = d /\ c.embedded /\ c.batch \notin jobs[j].old

JobSound(j) == Writing(j) /\ Pending(j) /\ Renewed(j) /\ \A k \in Indexer : ListedAfter(j, k)
IndexInv == IndexTyped /\ Named /\ \A j \in Indexer : JobSound(j)
KnowledgeInv == RecordsTyped /\ Found /\ IndexInv

\* A job that is not there.
LEMMA IdleTyped == Idle \in IndexerRow /\ IndexerFits(Idle) /\ Idle.batch = 0 /\ Idle.old = {}
  BY KnowledgeConstants DEF Idle, IndexerRow, IndexerFits

\* At the beginning nothing is indexed.
LEMMA KnowledgeInitInv == KnowledgeInit => KnowledgeInv
  <1> SUFFICES ASSUME KnowledgeInit PROVE KnowledgeInv
    OBVIOUS
  <1>1. NotSearching \in SearchRow /\ NotSearching.found = {} /\ NotSearching.pc = "off"
    BY DEF NotSearching, SearchRow
  <1>2. RecordsTyped
    BY <1>1 DEF KnowledgeInit, RecordsTyped, BaseRow, SomeDomain
  <1>3. Found
    BY <1>1 DEF KnowledgeInit, Found, FoundIsReadable
  <1>4. IndexTyped /\ Named
    BY IdleTyped DEF KnowledgeInit, IndexTyped, Named
  <1>5. ASSUME NEW j \in Indexer PROVE JobSound(j)
    BY IdleTyped DEF KnowledgeInit, JobSound, Writing, Pending, HasOld, Renewed, ListedAfter
  <1> QED
    BY <1>2, <1>3, <1>4, <1>5 DEF KnowledgeInv, IndexInv

\* The index is the chunks and the jobs.
LEMMA IndexUntouched == IndexInv /\ UNCHANGED <<chunks, jobs>> => IndexInv'
  BY DEF IndexInv, IndexTyped, Named, JobSound, Writing, Pending, HasOld, Renewed, ListedAfter

\* The batches of some documents are those of their chunks.
LEMMA BatchesOfDocuments ==
    ASSUME Named, NEW ds, NEW c \in chunks
    PROVE  c.batch \in BatchesOf(ds) <=> c.doc \in ds
  BY DEF Named, BatchesOf

\* A job begins, lists the batches of some documents, or is over.
LEMMA JobLists ==
    ASSUME IndexInv, NEW j \in Indexer, NEW ds, NEW u \in IndexerRow, IndexerFits(u),
           u.batch = 0, u.old = BatchesOf(ds), \A d \in ds : d \in u.todo \/ (u.kind = "base" /\ d \notin u.listed),
           jobs' = [jobs EXCEPT ![j] = u], UNCHANGED chunks
    PROVE  IndexInv'
  <1>1. /\ IndexTyped /\ Named /\ \A k \in Indexer : JobSound(k)
        /\ jobs'[j] = u /\ \A k \in Indexer : k # j => jobs'[k] = jobs[k]
    BY DEF IndexInv, IndexTyped
  <1>2. IndexTyped' /\ Named'
    BY <1>1 DEF IndexTyped, Named
  <1>3. \A c \in chunks : c.batch # 0
    BY <1>1, KnowledgeConstants DEF IndexTyped, Chunk
  <1>4. \A c \in chunks : c.batch \in u.old <=> c.doc \in ds
    BY <1>1, BatchesOfDocuments
  <1>5. 0 \notin u.old
    BY KnowledgeConstants DEF IndexerRow
  <1>6. ASSUME NEW k \in Indexer PROVE Writing(k)'
    <2>1. CASE k = j
      BY <1>1, <1>3, <1>5, <2>1 DEF Writing
    <2>2. CASE k # j
      BY <1>1, <2>2 DEF JobSound, Writing
    <2> QED
      BY <2>1, <2>2
  <1>7. ASSUME NEW k \in Indexer PROVE Pending(k)' /\ Renewed(k)'
    <2>1. CASE k = j
      BY <1>1, <1>4, <2>1 DEF Pending, Renewed, HasOld
    <2>2. CASE k # j
      BY <1>1, <2>2 DEF JobSound, Pending, Renewed, HasOld
    <2> QED
      BY <2>1, <2>2
  <1>8. ASSUME NEW k \in Indexer, NEW l \in Indexer PROVE ListedAfter(k, l)'
    <2>1. CASE k # j /\ l # j
      BY <1>1, <2>1 DEF JobSound, ListedAfter
    <2>2. CASE k = j \/ l = j
      BY <1>1, <1>4, <2>2 DEF ListedAfter
    <2> QED
      BY <2>1, <2>2
  <1> QED
    BY <1>2, <1>6, <1>7, <1>8 DEF IndexInv, JobSound

\* A job is over.
LEMMA JobEnds ==
    ASSUME IndexInv, NEW j \in Indexer, jobs' = [jobs EXCEPT ![j] = Idle], UNCHANGED chunks
    PROVE  IndexInv'
  <1>1. Idle.old = BatchesOf({})
    BY IdleTyped DEF BatchesOf
  <1> QED
    BY <1>1, IdleTyped, JobLists

\* Batches are deleted and some jobs end; of a document whose old batch stays,
\* the new one that a job counts on stays as well.
LEMMA ChunksGo ==
    ASSUME IndexInv, NEW bs, NEW gone, chunks' = Without(bs),
           jobs' = [k \in Indexer |-> IF k \in gone THEN Idle ELSE jobs[k]],
           \A k \in Indexer : \A c, e \in chunks :
              /\ k \notin gone /\ e.doc = c.doc /\ e.batch \in jobs[k].old /\ e.batch \notin bs /\ c.batch \notin jobs[k].old
              /\ c.embedded \/ c.batch = jobs[k].batch
              => c.batch \notin bs
    PROVE  IndexInv'
  <1>1. /\ IndexTyped /\ Named /\ \A k \in Indexer : JobSound(k)
        /\ \A k \in Indexer : jobs'[k] = IF k \in gone THEN Idle ELSE jobs[k]
        /\ \A c : c \in chunks' <=> c \in chunks /\ c.batch \notin bs
    BY DEF IndexInv, Without
  <1>2. IndexTyped' /\ Named'
    BY <1>1, IdleTyped DEF IndexTyped, Named
  <1>3. \A c \in chunks : c.batch # 0
    BY <1>1, KnowledgeConstants DEF IndexTyped, Chunk
  <1>4. ASSUME NEW k \in Indexer PROVE Writing(k)'
    <2>1. CASE k \in gone
      BY <1>1, <1>3, <2>1, IdleTyped DEF Writing
    <2>2. CASE k \notin gone
      BY <1>1, <2>2, IdleTyped DEF JobSound, Writing
    <2> QED
      BY <2>1, <2>2
  <1>5. ASSUME NEW k \in Indexer PROVE Pending(k)'
    <2>1. CASE k \in gone
      BY <1>1, <2>1, IdleTyped DEF Pending
    <2>2. CASE k \notin gone
      <3> SUFFICES ASSUME jobs[k].batch # 0, NEW e \in chunks', e.doc = jobs[k].doc, e.batch \in jobs[k].old
                   PROVE  \E c \in chunks' : c.batch = jobs[k].batch
        BY <1>1, <2>2 DEF Pending, HasOld
      <3>1. PICK c \in chunks : c.batch = jobs[k].batch
        BY <1>1 DEF JobSound, Pending, HasOld
      <3>2. c.doc = jobs[k].doc /\ c.batch \notin jobs[k].old
        BY <1>1, <3>1 DEF JobSound, Writing
      <3> QED
        BY <1>1, <2>2, <3>1, <3>2
    <2> QED
      BY <2>1, <2>2
  <1>6. ASSUME NEW k \in Indexer PROVE Renewed(k)'
    <2>1. CASE k \in gone
      BY <1>1, <2>1, IdleTyped DEF Renewed, HasOld
    <2>2. CASE k \notin gone
      <3> SUFFICES ASSUME NEW d \in Document, NEW e \in chunks', e.doc = d, e.batch \in jobs[k].old, d \notin jobs[k].todo,
                          ~(jobs[k].kind = "base" /\ d \notin jobs[k].listed)
                   PROVE  \E c \in chunks' : c.doc = d /\ c.embedded /\ c.batch \notin jobs[k].old
        BY <1>1, <2>2 DEF Renewed, HasOld
      <3>1. PICK c \in chunks : c.doc = d /\ c.embedded /\ c.batch \notin jobs[k].old
        BY <1>1 DEF JobSound, Renewed, HasOld
      <3> QED
        BY <1>1, <2>2, <3>1
    <2> QED
      BY <2>1, <2>2
  <1>7. ASSUME NEW k \in Indexer, NEW l \in Indexer PROVE ListedAfter(k, l)'
    <2>1. CASE k \in gone \/ l \in gone
      BY <1>1, <2>1, IdleTyped DEF ListedAfter
    <2>2. CASE k \notin gone /\ l \notin gone
      BY <1>1, <2>2 DEF JobSound, ListedAfter
    <2> QED
      BY <2>1, <2>2
  <1> QED
    BY <1>2, <1>4, <1>5, <1>6, <1>7 DEF IndexInv, JobSound

\* The chunks of a document are deleted with it.
LEMMA DocumentsGo ==
    ASSUME IndexInv, NEW ds, chunks' = Without(BatchesOf(ds)), UNCHANGED jobs
    PROVE  IndexInv'
  <1> DEFINE bs == BatchesOf(ds)
             gone == {}
  <1>1. Named /\ chunks' = Without(bs) /\ jobs' = [k \in Indexer |-> IF k \in gone THEN Idle ELSE jobs[k]]
    BY DEF IndexInv, IndexTyped
  <1>2. \A c \in chunks : c.batch \in BatchesOf(ds) <=> c.doc \in ds
    BY <1>1, BatchesOfDocuments
  <1>3. \A k \in Indexer : \A c, e \in chunks :
           /\ k \notin gone /\ e.doc = c.doc /\ e.batch \in jobs[k].old /\ e.batch \notin bs /\ c.batch \notin jobs[k].old
           /\ c.embedded \/ c.batch = jobs[k].batch
           => c.batch \notin bs
    BY <1>2
  <1> HIDE DEF bs, gone
  <1> QED
    BY <1>1, <1>3, ChunksGo

\* What is undone is not embedded, and is no other job's.
LEMMA UndoKeeps ==
    ASSUME IndexInv, NEW j \in Indexer, Undo(j)
    PROVE  IndexInv'
  <1>1. /\ jobs[j].pc = "undo" /\ chunks' = Without({jobs[j].batch}) /\ jobs' = [jobs EXCEPT ![j] = Idle]
        /\ IndexTyped /\ JobSound(j) /\ IndexerFits(jobs[j])
    BY DEF Undo, IndexInv, IndexTyped
  <1>2. jobs' = [k \in Indexer |-> IF k \in {j} THEN Idle ELSE jobs[k]]
    BY <1>1 DEF IndexTyped
  <1>3. jobs[j].batch # 0
    BY <1>1 DEF IndexerFits
  <1>4. ASSUME NEW k \in Indexer \ {j}, NEW c \in chunks, c.embedded \/ c.batch = jobs[k].batch
        PROVE  c.batch \notin {jobs[j].batch}
    BY <1>1, <1>3, <1>4 DEF JobSound, Writing
  <1>5. \A k \in Indexer : \A c, e \in chunks :
           /\ k \notin {j} /\ e.doc = c.doc /\ e.batch \in jobs[k].old /\ e.batch \notin {jobs[j].batch} /\ c.batch \notin jobs[k].old
           /\ c.embedded \/ c.batch = jobs[k].batch
           => c.batch \notin {jobs[j].batch}
    BY <1>4
  <1> QED
    BY ZenonT(30), <1>1, <1>2, <1>5, ChunksGo

\* A job drops what it listed: another job that has listed less of a document
\* does not count on any of it.
LEMMA DropOldKeeps ==
    ASSUME IndexInv, NEW j \in Indexer, DropOld(j)
    PROVE  IndexInv'
  <1> DEFINE bs == jobs[j].old
             gone == {j}
  <1>1. /\ chunks' = Without(bs) /\ jobs' = [jobs EXCEPT ![j] = Idle]
        /\ IndexTyped /\ JobSound(j) /\ \A k \in Indexer : JobSound(k)
    BY DEF DropOld, IndexInv
  <1>2. jobs' = [k \in Indexer |-> IF k \in gone THEN Idle ELSE jobs[k]]
    BY <1>1 DEF IndexTyped
  <1>3. ASSUME NEW k \in Indexer, NEW c \in chunks, NEW e \in chunks,
               e.doc = c.doc, e.batch \in jobs[k].old, e.batch \notin jobs[j].old, c.batch \notin jobs[k].old
        PROVE  c.batch \notin jobs[j].old
    BY <1>1, <1>3 DEF JobSound, ListedAfter
  <1>4. \A k \in Indexer : \A c, e \in chunks :
           /\ k \notin gone /\ e.doc = c.doc /\ e.batch \in jobs[k].old /\ e.batch \notin bs /\ c.batch \notin jobs[k].old
           /\ c.embedded \/ c.batch = jobs[k].batch
           => c.batch \notin bs
    BY <1>3
  <1> HIDE DEF bs, gone
  <1> QED
    BY <1>1, <1>2, <1>4, ChunksGo

\* New chunks have a name that nobody mentions.
LEMMA CreateChunksKeeps ==
    ASSUME IndexInv, NEW j \in Indexer, NEW d \in Document, CreateChunks(j, d)
    PROVE  IndexInv'
  <1>1. /\ IndexTyped /\ Named /\ \A k \in Indexer : JobSound(k)
        /\ jobs[j].pc = "chunk" /\ d \in jobs[j].todo /\ jobs[j] \in IndexerRow /\ IndexerFits(jobs[j])
    BY DEF IndexInv, IndexTyped, CreateChunks
  <1>2. CASE Present(d) /\ \E b \in Batch : Fresh(b)
    <2> DEFINE b == CHOOSE x \in Batch : Fresh(x)
               new == [batch |-> b, doc |-> d, embedded |-> FALSE]
               u == [jobs[j] EXCEPT !.pc = "embed", !.doc = d, !.batch = b]
    <2>1. b \in Batch /\ Fresh(b)
      BY <1>2
    <2> HIDE DEF b
    <2>2. chunks' = chunks \cup {new} /\ jobs' = [jobs EXCEPT ![j] = u]
      BY <1>1, <1>2 DEF CreateChunks, IndexTyped, b
    <2>3. new \in Chunk /\ new.batch = b /\ new.doc = d /\ ~new.embedded /\ b # 0
      BY <2>1, KnowledgeConstants DEF Chunk
    <2>4. /\ u \in IndexerRow /\ IndexerFits(u) /\ u.batch = b /\ u.doc = d /\ u.old = jobs[j].old /\ u.todo = jobs[j].todo
          /\ u.kind = jobs[j].kind /\ u.listed = jobs[j].listed
      BY <1>1, <2>1, <2>3 DEF IndexerRow, IndexerFits
    <2> HIDE DEF new, u
    <2>5. jobs'[j] = u /\ \A k \in Indexer : k # j => jobs'[k] = jobs[k]
      BY <1>1, <2>2 DEF IndexTyped
    <2>6. (\A c \in chunks : c.batch # b) /\ \A k \in Indexer : jobs[k].batch # b /\ b \notin jobs[k].old
      BY <2>1 DEF Fresh
    <2>7. IndexTyped' /\ Named'
      BY <1>1, <2>2, <2>3, <2>4, <2>5, <2>6 DEF IndexTyped, Named
    <2>8. ASSUME NEW k \in Indexer PROVE /\ jobs'[k].old = jobs[k].old /\ jobs'[k].todo = jobs[k].todo
                                         /\ jobs'[k].kind = jobs[k].kind /\ jobs'[k].listed = jobs[k].listed
      BY <2>4, <2>5
    <2>10. ASSUME NEW k \in Indexer, NEW c \in chunks', c.batch \in jobs[k].old PROVE c \in chunks
      BY <2>2, <2>3, <2>6, <2>10
    <2>11. ASSUME NEW k \in Indexer PROVE Writing(k)'
      <3>1. CASE k = j
        BY <1>1, <2>2, <2>3, <2>4, <2>5, <2>6, <3>1 DEF Writing
      <3>2. CASE k # j
        BY <1>1, <2>2, <2>3, <2>4, <2>5, <2>6, <3>2 DEF JobSound, Writing
      <3> QED
        BY <3>1, <3>2
    <2>12. ASSUME NEW k \in Indexer PROVE Pending(k)'
      <3>1. CASE k = j
        BY <2>2, <2>3, <2>4, <2>5, <3>1 DEF Pending
      <3>2. CASE k # j
        <4>1. jobs'[k] = jobs[k]
          BY <2>5, <3>2
        <4>2. jobs[k].batch # 0 /\ HasOld(k, jobs[k].doc) => \E c \in chunks : c.batch = jobs[k].batch
          BY <1>1 DEF JobSound, Pending
        <4> QED
          BY <2>2, <2>10, <4>1, <4>2 DEF Pending, HasOld
      <3> QED
        BY <3>1, <3>2
    <2>13. ASSUME NEW k \in Indexer PROVE Renewed(k)'
      BY <1>1, <2>2, <2>8, <2>10 DEF JobSound, Renewed, HasOld
    <2>14. ASSUME NEW k \in Indexer, NEW l \in Indexer PROVE ListedAfter(k, l)'
      BY <1>1, <2>8, <2>10 DEF JobSound, ListedAfter
    <2> QED
      BY <2>7, <2>11, <2>12, <2>13, <2>14 DEF IndexInv, JobSound
  <1>3. CASE ~Present(d)
    BY <1>1, <1>3, JobEnds DEF CreateChunks
  <1> QED
    BY <1>2, <1>3 DEF CreateChunks

\* The new chunks of a document are embedded, if they are still there.
LEMMA EmbedKeeps ==
    ASSUME IndexInv, NEW j \in Indexer, Embed(j)
    PROVE  IndexInv'
  <1> DEFINE Embedded(c) == [c EXCEPT !.embedded = @ \/ c.batch = jobs[j].batch]
             more == [jobs[j] EXCEPT !.pc = "chunk", !.todo = @ \ {jobs[j].doc}, !.doc = NoDocument, !.batch = 0]
             u == IF jobs[j].kind = "upload" THEN Idle ELSE more
  <1>1. /\ IndexTyped /\ Named /\ \A k \in Indexer : JobSound(k)
        /\ jobs[j].pc = "embed" /\ jobs[j] \in IndexerRow /\ IndexerFits(jobs[j])
        /\ chunks' = {Embedded(c) : c \in chunks} /\ jobs' = [jobs EXCEPT ![j] = u]
    BY DEF IndexInv, IndexTyped, Embed
  <1>2. ASSUME NEW c \in chunks
        PROVE  /\ Embedded(c) \in Chunk /\ Embedded(c).batch = c.batch /\ Embedded(c).doc = c.doc
               /\ Embedded(c).embedded <=> c.embedded \/ c.batch = jobs[j].batch
    BY <1>1 DEF IndexTyped, Chunk
  <1>3. /\ u \in IndexerRow /\ IndexerFits(u) /\ u.batch = 0
        /\ u.old # {} => /\ u.old = jobs[j].old /\ u.todo = jobs[j].todo \ {jobs[j].doc}
                         /\ u.kind = jobs[j].kind /\ u.listed = jobs[j].listed
    <2>1. /\ more \in IndexerRow /\ more.batch = 0 /\ more.old = jobs[j].old /\ more.todo = jobs[j].todo \ {jobs[j].doc}
          /\ more.kind = jobs[j].kind /\ more.listed = jobs[j].listed /\ more.pc = "chunk"
      BY <1>1 DEF IndexerRow
    <2>2. IndexerFits(more)
      BY <1>1, <2>1 DEF IndexerFits
    <2> HIDE DEF more
    <2> QED
      BY <2>1, <2>2, IdleTyped
  <1> HIDE DEF Embedded, u
  <1>4. jobs'[j] = u /\ \A k \in Indexer : k # j => jobs'[k] = jobs[k]
    BY <1>1 DEF IndexTyped
  <1>5. IndexTyped'
    BY <1>1, <1>2, <1>3, <1>4 DEF IndexTyped
  <1>6. Named'
    BY <1>1, <1>2 DEF Named
  <1>7. jobs[j].batch # 0 /\ \A c \in chunks : c.batch # 0
    BY <1>1, KnowledgeConstants DEF IndexTyped, Chunk, IndexerFits
  <1>8. \A k \in Indexer : 0 \notin jobs'[k].old
    BY <1>5, KnowledgeConstants DEF IndexTyped, IndexerRow
  <1>9. ASSUME NEW k \in Indexer PROVE Writing(k)'
    <2>1. CASE k = j
      BY <1>1, <1>2, <1>3, <1>4, <1>7, <1>8, <2>1 DEF Writing
    <2>2. CASE k # j
      <3>1. jobs'[k] = jobs[k] /\ jobs'[j].batch = 0
        BY <1>3, <1>4, <2>2
      <3>2. Writing(k) /\ Writing(j)
        BY <1>1 DEF JobSound
      <3>3. ASSUME NEW c \in chunks, c.batch = jobs[k].batch PROVE ~Embedded(c).embedded /\ Embedded(c).doc = jobs[k].doc
        BY <1>2, <1>7, <2>2, <3>2, <3>3 DEF Writing
      <3> QED
        BY <1>1, <1>2, <1>4, <3>1, <3>2, <3>3 DEF Writing
    <2> QED
      BY <2>1, <2>2
  <1>10. ASSUME NEW k \in Indexer PROVE Pending(k)'
    <2>1. CASE k = j
      BY <1>3, <1>4, <2>1 DEF Pending
    <2>2. CASE k # j
      BY <1>1, <1>2, <1>4, <2>2 DEF JobSound, Pending, HasOld
    <2> QED
      BY <2>1, <2>2
  <1>11. ASSUME NEW k \in Indexer PROVE Renewed(k)'
    <2>1. CASE k = j
      <3> SUFFICES ASSUME NEW d \in Document, NEW e \in chunks, e.doc = d, e.batch \in u.old, d \notin u.todo,
                          ~(u.kind = "base" /\ d \notin u.listed)
                   PROVE  \E c \in chunks' : c.doc = d /\ c.embedded /\ c.batch \notin u.old
        BY <1>1, <1>2, <1>4, <2>1 DEF Renewed, HasOld
      <3>1. /\ u.old = jobs[j].old /\ u.todo = jobs[j].todo \ {jobs[j].doc} /\ u.kind = jobs[j].kind
            /\ u.listed = jobs[j].listed /\ HasOld(j, d)
        BY <1>3 DEF HasOld
      <3>2. \E c \in chunks : c.doc = d /\ (c.embedded \/ c.batch = jobs[j].batch) /\ c.batch \notin u.old
        <4>1. CASE d \notin jobs[j].todo
          BY <1>1, <3>1, <4>1 DEF JobSound, Renewed
        <4>2. CASE d = jobs[j].doc
          BY <1>1, <1>7, <3>1, <4>2 DEF JobSound, Pending, Writing
        <4> QED
          BY <3>1, <4>1, <4>2
      <3> QED
        BY <1>1, <1>2, <3>2
    <2>2. CASE k # j
      <3>1. jobs'[k] = jobs[k] /\ Renewed(k)
        BY <1>1, <1>4, <2>2 DEF JobSound
      <3> QED
        BY <1>1, <1>2, <3>1 DEF Renewed, HasOld
    <2> QED
      BY <2>1, <2>2
  <1>12. ASSUME NEW k \in Indexer, NEW l \in Indexer PROVE ListedAfter(k, l)'
    <2>1. jobs'[k].old \in {{}, jobs[k].old} /\ jobs'[l].old \in {{}, jobs[l].old}
      BY <1>3, <1>4
    <2>2. ListedAfter(k, l)
      BY <1>1 DEF JobSound
    <2>3. ASSUME NEW c \in chunks, NEW e \in chunks, c.doc = e.doc, c.batch \in jobs'[k].old, e.batch \in jobs'[l].old
          PROVE  c.batch \in jobs'[l].old \/ e.batch \in jobs'[k].old
      BY <2>1, <2>2, <2>3 DEF ListedAfter
    <2> QED
      BY <1>1, <1>2, <2>3 DEF ListedAfter
  <1> QED
    BY <1>5, <1>6, <1>9, <1>10, <1>11, <1>12 DEF IndexInv, JobSound

LEMMA FoundTyped ==
    ASSUME NEW r \in SearchRow, NEW found \in SUBSET (Document \X SomeDomain)
    PROVE  [r EXCEPT !.pc = "answered", !.found = found] \in SearchRow
  BY DEF SearchRow

\* The records around the index keep their types.
LEMMA RecordsKeep == RecordsTyped /\ IndexTyped /\ [KnowledgeNext]_knowledgeVars => RecordsTyped'
  <1> SUFFICES ASSUME RecordsTyped, IndexTyped, [KnowledgeNext]_knowledgeVars PROVE RecordsTyped'
    OBVIOUS
  <1> USE DEF RecordsTyped
  <1>1. ASSUME NEW s \in Searcher, NEW q \in SearchRow, searches' = [searches EXCEPT ![s] = q], UNCHANGED <<bases, documents, role>>
        PROVE  RecordsTyped'
    BY <1>1
  <1>2. NotSearching \in SearchRow
    BY DEF NotSearching, SearchRow
  <1>3. ASSUME NEW s \in Searcher, NEW ds \in SUBSET Domain, RouteQuery(s, ds) PROVE RecordsTyped'
    <2> DEFINE candidates == RoleDomainAccess(ds)
               located == Located(candidates)
               anywhere == Located(IF role.admin THEN Domain \cup {NoDomain} ELSE role.granted)
               q == [NotSearching EXCEPT !.pc = "gate", !.domains = candidates, !.bases = IF located # {} THEN located ELSE anywhere]
    <2>1. searches' = [searches EXCEPT ![s] = q] /\ UNCHANGED <<bases, documents, role>>
      BY <1>3 DEF RouteQuery, indexVars
    <2>2. candidates \subseteq SomeDomain /\ located \subseteq Base /\ anywhere \subseteq Base
      BY DEF RoleDomainAccess, Located, SomeDomain
    <2> HIDE DEF candidates, located, anywhere
    <2>3. q \in SearchRow
      BY <1>2, <2>2 DEF SearchRow
    <2> HIDE DEF q
    <2> QED
      BY <1>1, <2>1, <2>3
  <1>4. ASSUME NEW s \in Searcher, NEW bs \in SUBSET Base, NEW ds \in SUBSET Domain, ExplicitScope(s, bs, ds) PROVE RecordsTyped'
    <2>1. [NotSearching EXCEPT !.pc = "gate", !.bases = bs, !.domains = ds] \in SearchRow
      BY <1>2 DEF SearchRow, SomeDomain
    <2> QED
      BY <1>1, <1>4, <2>1 DEF ExplicitScope, indexVars
  <1>5. ASSUME NEW s \in Searcher, RoleScope(s) PROVE RecordsTyped'
    <2> DEFINE gate == IF role.admin THEN Domain \cup {NoDomain} ELSE role.granted
               q == [searches[s] EXCEPT !.pc = "lanes", !.gate = gate]
    <2>1. searches' = [searches EXCEPT ![s] = q] /\ UNCHANGED <<bases, documents, role>>
      BY <1>5 DEF RoleScope, indexVars
    <2>2. gate \subseteq SomeDomain /\ searches[s] \in SearchRow
      BY DEF SomeDomain
    <2> HIDE DEF gate
    <2>3. q \in SearchRow
      BY <2>2 DEF SearchRow
    <2> HIDE DEF q
    <2> QED
      BY <1>1, <2>1, <2>3
  <1>6. ASSUME NEW s \in Searcher, NEW matching \in SUBSET Document, Search(s, matching) PROVE RecordsTyped'
    <2> DEFINE found == {<<d, bases[BaseOf[d]].domain>> : d \in {x \in matching : Conditions(searches[s], x)}}
               q == [searches[s] EXCEPT !.pc = "answered", !.found = found]
    <2>1. searches' = [searches EXCEPT ![s] = q] /\ UNCHANGED <<bases, documents, role>>
      BY <1>6 DEF Search, indexVars
    <2>2. found \subseteq Document \X SomeDomain
      <3>1. ASSUME NEW x \in found PROVE x \in Document \X SomeDomain
        <4>1. PICK d \in matching : x = <<d, bases[BaseOf[d]].domain>>
          OBVIOUS
        <4>2. d \in Document /\ bases[BaseOf[d]] \in BaseRow
          BY KnowledgeConstants
        <4> HIDE DEF found
        <4> QED
          BY <4>1, <4>2 DEF BaseRow
      <3> QED
        BY <3>1
    <2> HIDE DEF found
    <2>3. q \in SearchRow
      BY <2>2, FoundTyped
    <2> HIDE DEF q
    <2> QED
      BY <1>1, <2>1, <2>3
  <1>7. ASSUME NEW s \in Searcher, EndSearch(s) PROVE RecordsTyped'
    BY <1>1, <1>2, <1>7 DEF EndSearch, indexVars
  <1>8. ASSUME NEW d \in Document, SetStatus(d) PROVE RecordsTyped'
    BY <1>8 DEF SetStatus
  <1>9. ASSUME NEW b \in Base, NEW dm \in Domain, UpdateBase(b, dm) PROVE RecordsTyped'
    BY <1>9 DEF UpdateBase, BaseRow, SomeDomain
  <1>10. ASSUME NEW g \in SUBSET Domain, GrantDomains(g) PROVE RecordsTyped'
    BY <1>10 DEF GrantDomains, indexVars
  <1>11. ASSUME NEW d \in Document, DeleteDocument(d) PROVE RecordsTyped'
    BY <1>11 DEF DeleteDocument
  <1>12. ASSUME NEW b \in Base, DeleteBase(b) PROVE RecordsTyped'
    <2>1. bases' \in [Base -> BaseRow]
      BY <1>12 DEF DeleteBase, BaseRow
    <2>2. documents' \in [Document -> {"none", "active", "disabled", "deleted"}]
      BY <1>12 DEF DeleteBase
    <2> QED
      BY <1>12, <2>1, <2>2 DEF DeleteBase
  <1>13. ASSUME NEW j \in Indexer, CreateDocument(j) PROVE RecordsTyped'
    <2>1. jobs[j].doc \in Document
      BY <1>13 DEF CreateDocument, IndexTyped, IndexerFits
    <2> QED
      BY <1>13, <2>1 DEF CreateDocument
  <1>14. ASSUME UNCHANGED <<bases, documents, role, searches>> PROVE RecordsTyped'
    BY <1>14
  <1>15. CASE SearchNext
    <2>1. {} \in SUBSET Base /\ {} \in SUBSET Domain
      OBVIOUS
    <2> QED
      BY <1>3, <1>4, <1>5, <1>6, <1>7, <1>8, <1>9, <1>10, <1>15, <2>1 DEF SearchNext
  <1>16. CASE IndexNext
    <2>1. ASSUME NEW j \in Indexer, NEW d \in Document, BeginUpload(j, d) \/ BeginReindex(j, d) \/ CreateChunks(j, d)
          PROVE  RecordsTyped'
      BY <1>14, <2>1 DEF BeginUpload, BeginReindex, CreateChunks, indexVars
    <2>2. ASSUME NEW j \in Indexer, NEW b \in Base, BeginReindexBase(j, b) \/ ListChunks(j, b) PROVE RecordsTyped'
      BY <1>14, <2>2 DEF BeginReindexBase, ListChunks, indexVars
    <2>3. ASSUME NEW j \in Indexer, Embed(j) \/ EmbedFails(j) \/ Undo(j) PROVE RecordsTyped'
      BY <1>14, <2>3 DEF Embed, EmbedFails, Undo, indexVars
    <2>4. ASSUME NEW j \in Indexer, DropOld(j) \/ IndexerLost(j) PROVE RecordsTyped'
      BY <1>14, <2>4 DEF DropOld, IndexerLost, indexVars
    <2> QED
      BY <1>11, <1>12, <1>13, <1>16, <2>1, <2>2, <2>3, <2>4 DEF IndexNext
  <1>17. CASE UNCHANGED knowledgeVars
    BY <1>14, <1>17 DEF knowledgeVars
  <1> QED
    BY <1>15, <1>16, <1>17 DEF KnowledgeNext

\* What a search finds has passed the gate.
LEMMA FoundKeeps == RecordsTyped /\ Found /\ [KnowledgeNext]_knowledgeVars => Found'
  <1> SUFFICES ASSUME RecordsTyped, Found, [KnowledgeNext]_knowledgeVars PROVE Found'
    OBVIOUS
  <1>0. role'.bases = role.bases
    <2>1. CASE UNCHANGED role
      BY <2>1
    <2>2. ASSUME NEW g \in SUBSET Domain, GrantDomains(g) PROVE role'.bases = role.bases
      BY <2>2 DEF GrantDomains, RecordsTyped
    <2>3. CASE SearchNext
      BY <2>1, <2>2, <2>3 DEF SearchNext, RouteQuery, ExplicitScope, RoleScope, Search, EndSearch, SetStatus, UpdateBase
    <2>4. CASE IndexNext
      BY ZenonT(30), <2>1, <2>4
         DEF IndexNext, BeginUpload, BeginReindex, CreateChunks, BeginReindexBase, ListChunks, Embed, EmbedFails, Undo, DropOld,
             IndexerLost, CreateDocument, DeleteDocument, DeleteBase
    <2>5. CASE UNCHANGED knowledgeVars
      BY <2>1, <2>5 DEF knowledgeVars
    <2> QED
      BY <2>3, <2>4, <2>5 DEF KnowledgeNext
  <1>1. ASSUME UNCHANGED searches PROVE Found'
    BY <1>0, <1>1 DEF Found, FoundIsReadable
  <1>2. ASSUME NEW s \in Searcher, NEW q, q.pc # "answered" => q.found = {},
               \A x \in q.found : x[2] \in q.gate /\ BaseOf[x[1]] \in role.bases,
               searches' = [searches EXCEPT ![s] = q]
        PROVE  Found'
    <2>1. ASSUME NEW r \in Searcher PROVE searches'[r] = IF r = s THEN q ELSE searches[r]
      BY <1>2 DEF RecordsTyped
    <2> QED
      BY <1>0, <1>2, <2>1 DEF Found, FoundIsReadable
  <1>3. NotSearching.found = {} /\ NotSearching.pc = "off"
    BY DEF NotSearching
  <1>4. ASSUME NEW s \in Searcher, NEW ds \in SUBSET Domain, RouteQuery(s, ds) PROVE Found'
    <2> DEFINE candidates == RoleDomainAccess(ds)
               located == Located(candidates)
               anywhere == Located(IF role.admin THEN Domain \cup {NoDomain} ELSE role.granted)
               q == [NotSearching EXCEPT !.pc = "gate", !.domains = candidates, !.bases = IF located # {} THEN located ELSE anywhere]
    <2>1. searches' = [searches EXCEPT ![s] = q]
      BY <1>4 DEF RouteQuery
    <2>2. q.found = {}
      BY DEF NotSearching
    <2> HIDE DEF q
    <2> QED
      BY <1>2, <2>1, <2>2
  <1>5. ASSUME NEW s \in Searcher, NEW bs, NEW ds, ExplicitScope(s, bs, ds) PROVE Found'
    <2> DEFINE q == [NotSearching EXCEPT !.pc = "gate", !.bases = bs, !.domains = ds]
    <2>1. searches' = [searches EXCEPT ![s] = q] /\ q.found = {}
      BY <1>5 DEF ExplicitScope, NotSearching
    <2> HIDE DEF q
    <2> QED
      BY <1>2, <2>1
  <1>6. ASSUME NEW s \in Searcher, RoleScope(s) PROVE Found'
    <2> DEFINE q == [searches[s] EXCEPT !.pc = "lanes", !.gate = IF role.admin THEN Domain \cup {NoDomain} ELSE role.granted]
    <2>1. searches' = [searches EXCEPT ![s] = q] /\ searches[s].pc = "gate"
      BY <1>6 DEF RoleScope
    <2>2. searches[s].found = {}
      BY <2>1 DEF Found
    <2>3. q.found = {}
      BY <2>2 DEF RecordsTyped, SearchRow
    <2> HIDE DEF q
    <2> QED
      BY <1>2, <2>1, <2>3
  <1>7. ASSUME NEW s \in Searcher, NEW matching \in SUBSET Document, Search(s, matching) PROVE Found'
    <2> DEFINE found == {<<d, bases[BaseOf[d]].domain>> : d \in {x \in matching : Conditions(searches[s], x)}}
               q == [searches[s] EXCEPT !.pc = "answered", !.found = found]
    <2>1. searches' = [searches EXCEPT ![s] = q]
      BY <1>7 DEF Search
    <2>2. ASSUME NEW x \in found PROVE x[2] \in searches[s].gate /\ BaseOf[x[1]] \in role.bases
      <3>1. PICK d \in matching : Conditions(searches[s], d) /\ x = <<d, bases[BaseOf[d]].domain>>
        OBVIOUS
      <3> QED
        BY <3>1 DEF Conditions
    <2> HIDE DEF found
    <2>3. q.pc = "answered" /\ q.found = found /\ q.gate = searches[s].gate
      BY DEF RecordsTyped, SearchRow
    <2> HIDE DEF q
    <2> QED
      BY <1>2, <2>1, <2>2, <2>3
  <1>8. ASSUME NEW s \in Searcher, EndSearch(s) PROVE Found'
    BY <1>2, <1>3, <1>8 DEF EndSearch
  <1>9. CASE SearchNext
    BY <1>1, <1>4, <1>5, <1>6, <1>7, <1>8, <1>9 DEF SearchNext, SetStatus, UpdateBase, GrantDomains
  <1>10. CASE IndexNext
    BY ZenonT(30), <1>1, <1>10
       DEF IndexNext, BeginUpload, BeginReindex, CreateChunks, BeginReindexBase, ListChunks, Embed, EmbedFails, Undo, DropOld,
           IndexerLost, CreateDocument, DeleteDocument, DeleteBase
  <1>11. CASE UNCHANGED knowledgeVars
    BY <1>1, <1>11 DEF knowledgeVars
  <1> QED
    BY <1>9, <1>10, <1>11 DEF KnowledgeNext

\* Every step keeps the invariant of the index.
LEMMA IndexNextInv == IndexInv /\ [KnowledgeNext]_knowledgeVars => IndexInv'
  <1> SUFFICES ASSUME IndexInv, [KnowledgeNext]_knowledgeVars PROVE IndexInv'
    OBVIOUS
  <1>1. \A j \in Indexer : jobs[j] \in IndexerRow /\ IndexerFits(jobs[j])
    BY DEF IndexInv, IndexTyped
  <1>2. BatchesOf({}) = {}
    BY DEF BatchesOf
  <1>3. ASSUME NEW j \in Indexer, NEW d \in Document, BeginUpload(j, d) PROVE IndexInv'
    <2> DEFINE u == [Idle EXCEPT !.pc = "create", !.kind = "upload", !.doc = d]
    <2>1. jobs' = [jobs EXCEPT ![j] = u] /\ UNCHANGED chunks
      BY <1>3 DEF BeginUpload, indexVars
    <2>2. u \in IndexerRow /\ IndexerFits(u) /\ u.batch = 0 /\ u.old = {}
      BY IdleTyped DEF IndexerRow, IndexerFits
    <2> HIDE DEF u
    <2> QED
      BY <1>2, <2>1, <2>2, JobLists
  <1>4. ASSUME NEW j \in Indexer, NEW d \in Document, BeginReindex(j, d) PROVE IndexInv'
    <2> DEFINE u == [Idle EXCEPT !.pc = "chunk", !.kind = "document", !.todo = {d}, !.old = BatchesOf({d})]
    <2>1. jobs' = [jobs EXCEPT ![j] = u] /\ UNCHANGED chunks
      BY <1>4 DEF BeginReindex, indexVars
    <2>2. BatchesOf({d}) \subseteq Batch
      BY DEF BatchesOf, IndexInv, IndexTyped, Chunk
    <2>3. u \in IndexerRow /\ IndexerFits(u) /\ u.batch = 0 /\ u.old = BatchesOf({d}) /\ u.todo = {d}
      BY <2>2, IdleTyped DEF IndexerRow, IndexerFits
    <2> HIDE DEF u
    <2>4. \A x \in {d} : x \in u.todo \/ (u.kind = "base" /\ x \notin u.listed)
      BY <2>3
    <2> QED
      BY <2>1, <2>3, <2>4, JobLists
  <1>5. ASSUME NEW j \in Indexer, NEW b \in Base, BeginReindexBase(j, b) PROVE IndexInv'
    <2> DEFINE ds == DocumentsOf(b)
               u == [Idle EXCEPT !.pc = "list", !.kind = "base", !.base = b, !.todo = ds, !.listed = ds]
    <2>1. jobs' = [jobs EXCEPT ![j] = u] /\ UNCHANGED chunks
      BY <1>5 DEF BeginReindexBase, indexVars
    <2>2. ds \subseteq Document
      BY DEF DocumentsOf
    <2> HIDE DEF ds
    <2>3. u \in IndexerRow /\ IndexerFits(u) /\ u.batch = 0 /\ u.old = {}
      BY <2>2, IdleTyped DEF IndexerRow, IndexerFits
    <2> HIDE DEF u
    <2> QED
      BY <1>2, <2>1, <2>3, JobLists
  <1>6. ASSUME NEW j \in Indexer, NEW b \in Base, ListChunks(j, b) PROVE IndexInv'
    <2> DEFINE ds == DocumentsOf(b)
               u == [jobs[j] EXCEPT !.pc = "chunk", !.old = BatchesOf(ds)]
    <2>1. jobs' = [jobs EXCEPT ![j] = u] /\ UNCHANGED chunks /\ jobs[j].pc = "list"
      BY <1>6 DEF ListChunks, indexVars, IndexInv, IndexTyped
    <2> HIDE DEF ds
    <2>2. BatchesOf(ds) \subseteq Batch
      BY DEF BatchesOf, IndexInv, IndexTyped, Chunk
    <2>3. jobs[j].todo = jobs[j].listed /\ jobs[j].kind = "base" /\ jobs[j].batch = 0
      BY <1>1, <2>1 DEF IndexerFits
    <2>4. u \in IndexerRow /\ u.pc = "chunk" /\ u.batch = 0 /\ u.old = BatchesOf(ds) /\ u.kind = "base" /\ u.todo = u.listed
      BY <1>1, <2>2, <2>3 DEF IndexerRow
    <2> HIDE DEF u
    <2>5. IndexerFits(u)
      BY <2>4 DEF IndexerFits
    <2> QED
      BY <2>1, <2>4, <2>5, JobLists
  <1>7. ASSUME NEW j \in Indexer, CreateDocument(j) PROVE IndexInv'
    <2>1. jobs[j].pc = "create" /\ jobs[j].batch = 0 /\ jobs[j].doc \in Document
      BY <1>1, <1>7 DEF CreateDocument, IndexerFits
    <2>2. CASE jobs' = [jobs EXCEPT ![j] = Idle]
      BY <1>7, <2>2, JobEnds DEF CreateDocument
    <2>3. CASE jobs' = [jobs EXCEPT ![j].pc = "chunk", ![j].todo = {jobs[j].doc}]
      <3> DEFINE u == [jobs[j] EXCEPT !.pc = "chunk", !.todo = {jobs[j].doc}]
      <3>1. jobs' = [jobs EXCEPT ![j] = u] /\ UNCHANGED chunks
        BY <1>7, <2>3 DEF CreateDocument, IndexInv, IndexTyped
      <3>2. jobs[j].old = {}
        BY <1>1, <2>1 DEF IndexerFits
      <3>3. u \in IndexerRow /\ u.pc = "chunk" /\ u.batch = 0 /\ u.old = {}
        BY <1>1, <2>1, <3>2 DEF IndexerRow
      <3> HIDE DEF u
      <3>4. IndexerFits(u)
        BY <3>3 DEF IndexerFits
      <3> QED
        BY <1>2, <3>1, <3>3, <3>4, JobLists
    <2> QED
      BY <1>7, <2>2, <2>3 DEF CreateDocument
  <1>8. ASSUME NEW j \in Indexer, EmbedFails(j) PROVE IndexInv'
    <2>1. CASE jobs[j].kind = "upload"
      BY <1>8, <2>1, JobEnds DEF EmbedFails, indexVars, IndexInv, IndexTyped
    <2>2. CASE jobs[j].kind # "upload"
      <3> DEFINE u == [jobs[j] EXCEPT !.pc = "undo"]
      <3>1. jobs' = [jobs EXCEPT ![j] = u] /\ UNCHANGED chunks /\ jobs[j].pc = "embed"
        BY <1>8, <2>2 DEF EmbedFails, indexVars, IndexInv, IndexTyped
      <3>2. /\ u \in IndexerRow /\ u.pc = "undo" /\ u.batch = jobs[j].batch /\ u.kind = jobs[j].kind /\ u.old = jobs[j].old
            /\ u.doc = jobs[j].doc /\ u.todo = jobs[j].todo /\ u.listed = jobs[j].listed
        BY <1>1 DEF IndexerRow
      <3> HIDE DEF u
      <3>3. IndexerFits(u)
        BY <1>1, <3>1, <3>2 DEF IndexerFits
      <3>4. jobs' \in [Indexer -> IndexerRow] /\ jobs'[j] = u /\ \A k \in Indexer : k # j => jobs'[k] = jobs[k]
        BY <3>1, <3>2 DEF IndexInv, IndexTyped
      <3>5. IndexTyped' /\ Named'
        BY <3>1, <3>3, <3>4 DEF IndexInv, IndexTyped, Named
      <3>6. \A k \in Indexer : /\ jobs'[k].batch = jobs[k].batch /\ jobs'[k].kind = jobs[k].kind /\ jobs'[k].old = jobs[k].old
                               /\ jobs'[k].doc = jobs[k].doc /\ jobs'[k].todo = jobs[k].todo /\ jobs'[k].listed = jobs[k].listed
        BY <3>2, <3>4
      <3>7. ASSUME NEW k \in Indexer PROVE Writing(k)' /\ Pending(k)'
        BY <3>1, <3>6 DEF IndexInv, JobSound, Writing, Pending, HasOld
      <3>8. ASSUME NEW k \in Indexer PROVE Renewed(k)'
        BY <3>1, <3>6 DEF IndexInv, JobSound, Renewed, HasOld
      <3>9. ASSUME NEW k \in Indexer, NEW l \in Indexer PROVE ListedAfter(k, l)'
        BY <3>1, <3>6 DEF IndexInv, JobSound, ListedAfter
      <3> QED
        BY <3>5, <3>7, <3>8, <3>9 DEF IndexInv, JobSound
    <2> QED
      BY <2>1, <2>2
  <1>9. ASSUME NEW j \in Indexer, IndexerLost(j) PROVE IndexInv'
    BY <1>9, JobEnds DEF IndexerLost, indexVars
  <1>10. ASSUME NEW d \in Document, DeleteDocument(d) PROVE IndexInv'
    BY <1>10, DocumentsGo DEF DeleteDocument
  <1>11. ASSUME NEW b \in Base, DeleteBase(b) PROVE IndexInv'
    BY <1>11, DocumentsGo DEF DeleteBase
  <1>12. CASE IndexNext
    BY <1>3, <1>4, <1>5, <1>6, <1>7, <1>8, <1>9, <1>10, <1>11, <1>12, CreateChunksKeeps, EmbedKeeps, UndoKeeps, DropOldKeeps
       DEF IndexNext
  <1>13. CASE SearchNext
    BY <1>13, IndexUntouched
       DEF SearchNext, RouteQuery, ExplicitScope, RoleScope, Search, EndSearch, SetStatus, UpdateBase, GrantDomains, indexVars
  <1>14. CASE UNCHANGED knowledgeVars
    BY <1>14, IndexUntouched DEF knowledgeVars
  <1> QED
    BY <1>12, <1>13, <1>14 DEF KnowledgeNext

\* What one step may never do to the index.
KeepsIndex ==
    \A d \in Document : Indexed(d) /\ ~Indexed(d)' =>
        \/ ~Present(d)'
        \/ \E j \in Indexer : jobs[j].kind = "base" /\ jobs'[j] = Idle /\ d \notin jobs[j].listed

\* A document stays indexed: a batch that is undone was not embedded, and an old
\* one goes when the new one is there.
LEMMA StepKeepsIndex == RecordsTyped /\ IndexInv /\ [KnowledgeNext]_knowledgeVars => KeepsIndex
  <1> SUFFICES ASSUME RecordsTyped, IndexInv, [KnowledgeNext]_knowledgeVars,
                      NEW d \in Document, NEW e \in chunks, e.doc = d, e.embedded, ~Indexed(d)', Present(d)',
                      \A j \in Indexer : ~(jobs[j].kind = "base" /\ jobs'[j] = Idle /\ d \notin jobs[j].listed)
               PROVE  FALSE
    BY DEF KeepsIndex, Indexed
  <1>1. IndexTyped /\ Named /\ \A j \in Indexer : JobSound(j) /\ IndexerFits(jobs[j])
    BY DEF IndexInv, IndexTyped
  <1>2. ~(chunks \subseteq chunks')
    BY DEF Indexed
  <1>3. ASSUME NEW j \in Indexer, Embed(j) PROVE FALSE
    <2>1. [e EXCEPT !.embedded = @ \/ e.batch = jobs[j].batch] \in chunks'
      BY <1>3 DEF Embed
    <2>2. LET c == [e EXCEPT !.embedded = @ \/ e.batch = jobs[j].batch] IN c.doc = d /\ c.embedded
      BY <1>1 DEF IndexTyped, Chunk
    <2> QED
      BY <2>1, <2>2 DEF Indexed
  <1>4. ASSUME NEW j \in Indexer, Undo(j) PROVE FALSE
    <2>1. e.batch # jobs[j].batch
      BY <1>1 DEF JobSound, Writing
    <2> QED
      BY <1>4, <2>1 DEF Undo, Without, Indexed
  <1>5. ASSUME NEW j \in Indexer, DropOld(j) PROVE FALSE
    <2>1. chunks' = Without(jobs[j].old) /\ jobs[j].todo = {} /\ jobs'[j] = Idle
      BY <1>1, <1>5 DEF DropOld, IndexTyped
    <2>2. e.batch \in jobs[j].old
      BY <2>1 DEF Without, Indexed
    <2>3. \E c \in chunks : c.doc = d /\ c.embedded /\ c.batch \notin jobs[j].old
      BY <1>1, <2>1, <2>2 DEF JobSound, Renewed, HasOld
    <2> QED
      BY <2>1, <2>3 DEF Without, Indexed
  <1>6. ASSUME NEW ds, chunks' = Without(BatchesOf(ds)), d \notin ds PROVE FALSE
    <2>1. e.batch \notin BatchesOf(ds)
      BY <1>1, <1>6, BatchesOfDocuments
    <2> QED
      BY <1>6, <2>1 DEF Without, Indexed
  <1>7. ASSUME NEW x \in Document, DeleteDocument(x) PROVE FALSE
    <2>1. d \notin {x}
      BY <1>7 DEF DeleteDocument, Present, RecordsTyped
    <2> QED
      BY <1>6, <1>7, <2>1 DEF DeleteDocument
  <1>8. ASSUME NEW b \in Base, DeleteBase(b) PROVE FALSE
    <2>1. d \notin DocumentsOf(b)
      BY <1>8 DEF DeleteBase, Present
    <2> QED
      BY <1>6, <1>8, <2>1 DEF DeleteBase
  <1>9. CASE IndexNext
    BY ZenonT(30), <1>2, <1>3, <1>4, <1>5, <1>7, <1>8, <1>9
       DEF IndexNext, BeginUpload, BeginReindex, CreateChunks, BeginReindexBase, ListChunks, EmbedFails, IndexerLost, CreateDocument,
           indexVars
  <1>10. CASE SearchNext
    BY <1>2, <1>10
       DEF SearchNext, RouteQuery, ExplicitScope, RoleScope, Search, EndSearch, SetStatus, UpdateBase, GrantDomains, indexVars
  <1> QED
    BY <1>2, <1>9, <1>10 DEF KnowledgeNext, knowledgeVars

\* Every field of the bases, documents, chunks, jobs and searches holds a value of
\* its set, and a job has a batch exactly while it embeds it.
THEOREM KnowledgeTypeCorrect == KnowledgeSpec => []KnowledgeTInv
  <1>1. KnowledgeInv => KnowledgeTInv
    BY DEF KnowledgeInv, KnowledgeTInv, IndexInv
  <1>2. KnowledgeInv /\ [KnowledgeNext]_knowledgeVars => KnowledgeInv'
    BY RecordsKeep, FoundKeeps, IndexNextInv DEF KnowledgeInv, IndexInv
  <1> QED
    BY <1>1, <1>2, KnowledgeInitInv, PTL DEF KnowledgeSpec

\* A document that search can rank stays so until it is deleted, however many
\* requests index it again at the same time, fail or are lost, unless it came
\* into a base while the base was listed; and a search returns only what lies in
\* the domains that its role had.  For any number of documents, bases, jobs and
\* searches.
THEOREM KnowledgeKept == KnowledgeSpec => KnowledgeIsKept
  <1>1. KnowledgeInv /\ [KnowledgeNext]_knowledgeVars => KnowledgeInv'
    BY RecordsKeep, FoundKeeps, IndexNextInv DEF KnowledgeInv, IndexInv
  <1>2. KnowledgeInv /\ [KnowledgeNext]_knowledgeVars => [KeepsIndex]_knowledgeVars
    BY StepKeepsIndex DEF KnowledgeInv
  <1>3. KnowledgeInv => FoundIsReadable
    BY DEF KnowledgeInv, Found
  <1> QED
    BY <1>1, <1>2, <1>3, KnowledgeInitInv, PTL DEF KnowledgeSpec, KnowledgeIsKept, IndexKept, KeepsIndex
================================================================================
