-------------------------------- MODULE ChatApps --------------------------------
(****************************************************************************)
(* Chat apps: they are edited, published and deleted in the workbench,      *)
(* classified by the categories of the tenant, and called from outside with *)
(* keys.  An edit or a publication reads the app in one transaction and     *)
(* writes it in a later one, without looking at it again.                   *)
(****************************************************************************)
EXTENDS FiniteSets

CONSTANTS
    App,        \* apps by their id
    Graph,      \* flow schemas that pass validate_flow_schema
    Category,   \* names of categories
    Default,    \* the names that an empty vocabulary is filled with
    Key,        \* API keys
    Editor,     \* requests of the workbench
    Caller,     \* requests from outside
    NoGraph, NoCategory, NoApp

ASSUME ChatAppsConstants ==
    /\ Default \subseteq Category /\ Default # {}
    /\ NoGraph \notin Graph /\ NoCategory \notin Category /\ NoApp \notin App

VARIABLES
    apps,       \* [there, status, orchestration, graph, category, published] of each app
    categories, \* the vocabulary
    keys,       \* [status, app] of each key
    edits,      \* [pc, kind, app, read, field, to] of each editor
    calls,      \* [pc, app, row] of each caller
    quiet       \* no request has overlapped another one; only properties read it

appVars == <<apps, categories, keys, edits, calls, quiet>>

\* published: what the last publication validated; only properties read it.
NoRow == [there |-> FALSE, status |-> "draft", orchestration |-> "auto", graph |-> NoGraph,
          category |-> NoCategory, published |-> <<"auto", NoGraph>>]
NoEdit == [pc |-> "off", kind |-> "none", app |-> NoApp, read |-> NoRow, field |-> "none", to |-> NoGraph]
NoCall == [pc |-> "off", app |-> NoApp, row |-> NoRow]

AppsInit ==
    /\ apps = [a \in App |-> NoRow]
    /\ categories = {}
    /\ keys = [k \in Key |-> [status |-> "none", app |-> NoApp]]
    /\ edits = [e \in Editor |-> NoEdit]
    /\ calls = [s \in Caller |-> NoCall]
    /\ quiet = TRUE

AllIdle == \A e \in Editor : edits[e] = NoEdit
CheckFlowFields(row) == row.orchestration = "flow" => row.graph # NoGraph
CheckCategory(c) == c \in categories \cup {NoCategory}

-------------------------------------------------------------------------------
(* Requests of the workbench: read and check, then write                    *)

Begin(e, a, kind, row, field, to) ==
    /\ edits[e] = NoEdit
    /\ edits' = [edits EXCEPT ![e] =
           [pc |-> "write", kind |-> kind, app |-> a, read |-> row, field |-> field, to |-> to]]
    /\ quiet' = (quiet /\ AllIdle)
    /\ UNCHANGED <<apps, categories, keys, calls>>

\* Both a category that is given and one that is stored must be known.
BeginCreate(e, a, orchestration, graph, category) ==
    LET row == [NoRow EXCEPT !.there = TRUE, !.orchestration = orchestration,
                             !.graph = graph, !.category = category]
    IN /\ apps[a] = NoRow /\ \A f \in Editor : edits[f].app # a
       /\ CheckFlowFields(row) /\ CheckCategory(category)
       /\ Begin(e, a, "create", row, "none", NoGraph)

\* One field is changed; the flow is checked if it is about the flow.
BeginUpdate(e, a, field, to) ==
    /\ apps[a].there
    /\ field \in {"orchestration", "graph"} => CheckFlowFields([apps[a] EXCEPT ![field] = to])
    /\ field = "category" => CheckCategory(to)
    /\ Begin(e, a, "update", apps[a], field, to)

\* The form may name another category; an app without one is not published.
BeginPublish(e, a, category) ==
    /\ apps[a].there /\ apps[a].status = "draft"
    /\ category # NoCategory /\ category \in categories \cup {apps[a].category}
    /\ CheckFlowFields(apps[a])
    /\ Begin(e, a, "publish", [apps[a] EXCEPT !.category = category], "none", NoGraph)

Done(e) == edits' = [edits EXCEPT ![e] = NoEdit] /\ UNCHANGED <<categories, keys, calls, quiet>>

WriteCreate(e) ==
    /\ edits[e].pc = "write" /\ edits[e].kind = "create"
    /\ apps' = [apps EXCEPT ![edits[e].app] = edits[e].read]
    /\ Done(e)

\* Mutant: an edit leaves a published app published.
WriteUpdateInPlace(e) ==
    /\ edits[e].pc = "write" /\ edits[e].kind = "update"
    /\ apps' = [apps EXCEPT ![edits[e].app] = IF @.there THEN [@ EXCEPT ![edits[e].field] = edits[e].to] ELSE @]
    /\ Done(e)

\* An app that was published when it was read is a draft again.
WriteUpdate(e) ==
    LET edit == edits[e]
        edited == [apps[edit.app] EXCEPT ![edit.field] = edit.to]
    IN /\ edit.pc = "write" /\ edit.kind = "update"
       /\ apps' = [apps EXCEPT ![edit.app] =
              IF ~@.there THEN @
              ELSE IF edit.read.status = "published" THEN [edited EXCEPT !.status = "draft"] ELSE edited]
       /\ Done(e)

\* The category that was read is written back.
WritePublish(e) ==
    /\ edits[e].pc = "write" /\ edits[e].kind = "publish"
    /\ apps' = [apps EXCEPT ![edits[e].app] =
           IF @.there
           THEN [@ EXCEPT !.status = "published", !.category = edits[e].read.category,
                          !.published = <<edits[e].read.orchestration, edits[e].read.graph>>]
           ELSE @]
    /\ Done(e)

EditorLost(e) ==
    /\ edits[e].pc = "write" /\ Done(e) /\ UNCHANGED apps

\* Its keys go with it; an app with flow runs cannot be deleted.
DeleteApp(a) ==
    /\ apps[a].there
    /\ apps' = [apps EXCEPT ![a] = NoRow]
    /\ keys' = [k \in Key |-> IF keys[k].app = a THEN [status |-> "none", app |-> NoApp] ELSE keys[k]]
    /\ quiet' = (quiet /\ AllIdle)
    /\ UNCHANGED <<categories, edits, calls>>

-------------------------------------------------------------------------------
(* The vocabulary: one transaction each                                     *)

\* Looking at an empty vocabulary fills it.
EnsureDefaultCategories ==
    /\ categories = {}
    /\ categories' = Default
    /\ UNCHANGED <<apps, keys, edits, calls, quiet>>

CreateCategory(c) ==
    /\ c \notin categories
    /\ categories' = categories \cup {c}
    /\ UNCHANGED <<apps, keys, edits, calls, quiet>>

Relabel(c, n) == apps' = [a \in App |-> IF apps[a].category = c THEN [apps[a] EXCEPT !.category = n] ELSE apps[a]]

RenameCategory(c, n) ==
    /\ c \in categories /\ n \notin categories
    /\ categories' = (categories \ {c}) \cup {n}
    /\ Relabel(c, n)
    /\ quiet' = (quiet /\ AllIdle)
    /\ UNCHANGED <<keys, edits, calls>>

\* Published apps of the category stay published without one.
DeleteCategory(c) ==
    /\ c \in categories
    /\ categories' = categories \ {c}
    /\ Relabel(c, NoCategory)
    /\ quiet' = (quiet /\ AllIdle)
    /\ UNCHANGED <<keys, edits, calls>>

-------------------------------------------------------------------------------
(* Calls from outside                                                       *)

CreateApiKey(k, a) ==
    /\ keys[k].status = "none" /\ apps[a].there
    /\ keys' = [keys EXCEPT ![k] = [status |-> "active", app |-> a]]
    /\ UNCHANGED <<apps, categories, edits, calls, quiet>>

RevokeApiKey(k) ==
    /\ keys[k].status = "active"
    /\ keys' = [keys EXCEPT ![k].status = "revoked"]
    /\ UNCHANGED <<apps, categories, edits, calls, quiet>>

\* The key names the app, which is read in a transaction of its own.
VerifyApiKey(s, k) ==
    /\ calls[s] = NoCall /\ keys[k].status = "active"
    /\ calls' = [calls EXCEPT ![s] = [NoCall EXCEPT !.pc = "app", !.app = keys[k].app]]
    /\ UNCHANGED <<apps, categories, keys, edits, quiet>>

\* The row that was read here is the one that is run.
ApiChat(s) ==
    /\ calls[s].pc = "app"
    /\ calls' = [calls EXCEPT ![s] = IF apps[calls[s].app].status = "published"
                                     THEN [@ EXCEPT !.pc = "run", !.row = apps[calls[s].app]] ELSE NoCall]
    /\ UNCHANGED <<apps, categories, keys, edits, quiet>>

EndCall(s) ==
    /\ calls[s].pc = "run"
    /\ calls' = [calls EXCEPT ![s] = NoCall]
    /\ UNCHANGED <<apps, categories, keys, edits, quiet>>

AppsNext ==
    \/ \E e \in Editor, a \in App :
          \/ \E o \in {"auto", "flow"}, g \in Graph \cup {NoGraph}, c \in Category \cup {NoCategory} :
                BeginCreate(e, a, o, g, c)
          \/ \E o \in {"auto", "flow"} : BeginUpdate(e, a, "orchestration", o)
          \/ \E g \in Graph \cup {NoGraph} : BeginUpdate(e, a, "graph", g)
          \/ \E c \in Category \cup {NoCategory} : BeginUpdate(e, a, "category", c)
          \/ \E c \in Category : BeginPublish(e, a, c)
    \/ \E e \in Editor : WriteCreate(e) \/ WriteUpdate(e) \/ WritePublish(e) \/ EditorLost(e)
    \/ \E a \in App : DeleteApp(a)
    \/ EnsureDefaultCategories
    \/ \E c \in Category : CreateCategory(c) \/ DeleteCategory(c) \/ \E n \in Category : RenameCategory(c, n)
    \/ \E k \in Key : RevokeApiKey(k) \/ \E a \in App : CreateApiKey(k, a)
    \/ \E s \in Caller : ApiChat(s) \/ EndCall(s) \/ \E k \in Key : VerifyApiKey(s, k)

AppsSpec == AppsInit /\ [][AppsNext]_appVars

-------------------------------------------------------------------------------
\* Each field holds a value of its set.
AppsTypeOK ==
    /\ \A a \in App : /\ apps[a].status \in {"draft", "published"}
                      /\ apps[a].graph \in Graph \cup {NoGraph}
                      /\ apps[a].category \in Category \cup {NoCategory}
    /\ categories \subseteq Category

\* A call from outside runs the flow that a publication has validated, through
\* any edits, revocations and deletions, as long as no edit and publication of
\* the workbench overlapped.
ServedAsPublished ==
    quiet => \A s \in Caller : calls[s].pc = "run" =>
                 /\ <<calls[s].row.orchestration, calls[s].row.graph>> = calls[s].row.published
                 /\ CheckFlowFields(calls[s].row)

\* The category of an app is one of the vocabulary after any renames and
\* deletions that did not overlap a request that had read the old name.
CategoriesKnown == quiet => \A a \in App : CheckCategory(apps[a].category)

AppsAsPublished == ServedAsPublished /\ CategoriesKnown
===============================================================================
