------------------------------ MODULE MCWorkspace ------------------------------
(****************************************************************************)
(* The services a workspace is made of: its knowledge bases, the turns of a *)
(* conversation, the apps they belong to, the capabilities they call, and   *)
(* the audit of all that.                                                   *)
(* They share no state, so the run composes them by parts: the variable     *)
(* part names the service that moves, and the others stay as they were.     *)
(****************************************************************************)
EXTENDS Knowledge, ChatTurns, ChatApps, CapabilityCalls, AuditTrail, TLC

CONSTANTS t1, t2, t3, b1, b2, h1, p1, cp1, cp2

MCBaseOf == [d \in Document |-> IF d = t3 THEN b2 ELSE b1]
MCText == [d \in Document |-> h1]

MCGuess == [c \in Capability |-> IF c = cp1 THEN "tool.fetch" ELSE "none"]

VARIABLE part

-------------------------------------------------------------------------------
\* Two documents of one base are uploaded and indexed in any way ...
IndexInit ==
    /\ KnowledgeInit
    /\ \A b \in Base : bases[b].located /\ bases[b].domain = NoDomain
    /\ ~role.admin /\ role.bases = Base
IndexStep ==
    /\ IndexNext
    /\ documents'[t3] = documents[t3] /\ bases'[b2] = bases[b2]
    /\ \A j \in Indexer : jobs'[j].doc # t3 /\ jobs'[j].base # b2

\* ... or one document of each of two indexed bases is searched.
SearchInit ==
    /\ bases \in [Base -> [there : {TRUE}, domain : Domain \cup {NoDomain}, located : BOOLEAN]]
    /\ documents = [d \in Document |-> IF d = t2 THEN "none" ELSE "active"]
    /\ chunks = {[batch |-> IF d = t3 THEN 1 ELSE 2, doc |-> d, embedded |-> TRUE] : d \in Document \ {t2}}
    /\ jobs = [j \in Indexer |-> Idle]
    /\ role \in [admin : BOOLEAN, granted : {{}}, bases : {Base, {b1}}]
    /\ searches = [s \in Searcher |-> NotSearching]

KnowledgeRests ==
    /\ bases = [b \in Base |-> [there |-> FALSE, domain |-> NoDomain, located |-> FALSE]]
    /\ documents = [d \in Document |-> "none"]
    /\ chunks = {}
    /\ jobs = [j \in Indexer |-> Idle]
    /\ role = [admin |-> FALSE, granted |-> {}, bases |-> {}]
    /\ searches = [s \in Searcher |-> NotSearching]

\* The turns begin in the order of their numbers, at most two run at a time,
\* and the last one only of a conversation whose turns did not overlap.
TurnStep ==
    /\ ChatNext
    /\ \A t \in Turn : turns[t].pc = "off" => \A u \in Turn : u > t => turns'[u].pc = "off"
    /\ Cardinality({t \in Turn : turns'[t].pc \notin {"off", "over"}}) <= 2
    /\ (\E t \in Turn : ~turns'[t].alone) => turns'[4].pc = "off"

\* After two requests overlapped, what is under way is still written.
AppsStep ==
    /\ AppsNext
    /\ ~quiet => /\ keys' = keys /\ calls' = calls /\ categories' = categories
                 /\ \A e \in Editor : edits'[e] = NoEdit \/ edits'[e] = edits[e]

\* One capability is administrated and called; it needs one permission, or that
\* and one the role never has ...
CallStep ==
    /\ CallNext
    /\ permissions' \subseteq {p1}
    /\ capabilities'[cp2] = capabilities[cp2]
    /\ \A s \in StepRun : steps'[s].capability = cp1
    /\ \A c \in Capability : p1 \in capabilities'[c].needs \/ capabilities'[c] = NoCapability
    /\ \A a \in Admin : changes'[a] # NoChange => changes'[a].capability = cp1 /\ p1 \in changes'[a].row.needs

\* ... or two capabilities come, and the plans are made of them.
PlanStep ==
    /\ PlanNext
    /\ permissions' = permissions /\ changes' = changes
    /\ \A c \in Capability :
          \/ capabilities'[c] = capabilities[c]
          \/ capabilities'[c] = [NoCapability EXCEPT !.there = TRUE, !.needs = {p1}]

-------------------------------------------------------------------------------
MCInit ==
    /\ ChatInit /\ AppsInit /\ CallsInit
    /\ \/ part = "index" /\ IndexInit
       \/ part = "search" /\ SearchInit
       \/ part \in {"turns", "apps", "calls", "plans", "audit"} /\ KnowledgeRests
    /\ AuditInit /\ (part # "audit" => reachable)

MCNext ==
    /\ UNCHANGED part
    /\ \/ part = "index" /\ IndexStep /\ UNCHANGED <<chatVars, appVars, callVars, auditVars>>
       \/ part = "search" /\ SearchNext /\ UNCHANGED <<chatVars, appVars, callVars, auditVars>>
       \/ part = "turns" /\ TurnStep /\ UNCHANGED <<knowledgeVars, appVars, callVars, auditVars>>
       \/ part = "apps" /\ AppsStep /\ UNCHANGED <<knowledgeVars, chatVars, callVars, auditVars>>
       \/ part = "calls" /\ CallStep /\ UNCHANGED <<knowledgeVars, chatVars, appVars, auditVars>>
       \/ part = "plans" /\ PlanStep /\ UNCHANGED <<knowledgeVars, chatVars, appVars, auditVars>>
       \/ part = "audit" /\ AuditNext /\ UNCHANGED <<knowledgeVars, chatVars, appVars, callVars>>

MCSpec == MCInit /\ [][MCNext]_<<part, knowledgeVars, chatVars, appVars, callVars, auditVars>>
===============================================================================
