--------------------------- MODULE QuestionPlanning ---------------------------
(****************************************************************************)
(* From an understood question to its evidence: the intent selects one of   *)
(* three plans, a plan that finds nothing to work on falls back on the      *)
(* search for facts and says why, and the turn leaves the entities that it  *)
(* was about in its conversation.  The facts stay as they are; entities and *)
(* relation types come and go between any two queries.                      *)
(****************************************************************************)
EXTENDS QuestionUnderstanding, EvidenceRanking

CONSTANTS
    Leads,       \* the active facts, pairs of a source and a target entity
    Alike,       \* [Entity -> the entity its name finds when it is gone, or NoEntity]
    QueryTypes   \* entity types that a query capability operates on

\* An intent that nobody classified is taken for FACT.
StructuredIntent(result) == IF result.intent = "none" THEN "FACT" ELSE result.intent

PlanOf(intent) ==
    IF intent \in {"RELATION", "ATTRIBUTE", "LIST", "MULTI_HOP"} THEN "relation"
    ELSE IF intent \in {"AGGREGATION", "COMPARISON", "TREND"} THEN "aggregation" ELSE "fact"
MaxHops(intent) == IF intent = "MULTI_HOP" THEN 2 ELSE 1

\* Of CAUSAL and MIXED the selection says that they have no plan of their own.
SelectPlan(a) ==
    LET intent == StructuredIntent(asked[a].result)
    IN /\ asked[a].pc = "plan"
       /\ Goes(a, [asked[a] EXCEPT !.pc = PlanOf(intent), !.plan = PlanOf(intent), !.ran = PlanOf(intent),
                       !.reason = intent \in {"CAUSAL", "MIXED"}, !.candidates = {}, !.rules = NoResult])
       /\ UNCHANGED upgradeCache

FallBack(a) == [asked[a] EXCEPT !.pc = "fact", !.ran = "fact", !.reason = TRUE]
Found(a, evidence) == [asked[a] EXCEPT !.pc = "answered", !.evidence = evidence]
Piece(channel, about) == [channel |-> channel, about |-> about]

\* The name of an entity finds the entity, or another one that is like it.
Lookup(e) == IF e \in entities THEN {e} ELSE {Alike[e]} \cap entities

-------------------------------------------------------------------------------
(* plan_fact                                                                *)

\* The three layers of a search: the profiles of entities that the question
\* names, their neighbours in the graph, and chunks.
KnowledgeLayers(profiled, chunks) ==
    {Piece("profile", {e}) : e \in profiled}
        \cup (UNION {{Piece("graph", {w.target}) : w \in {v \in GraphQuery(Leads, e, 2) : v.target # e}} : e \in profiled})
        \cup (IF chunks THEN {Piece("chunk", {})} ELSE {})

\* The question is routed and searched; without an embedding there are no chunks,
\* and nothing at all when it led to no domain.  A search that fails has found
\* nothing.
PlanFact(a, embedded, routed, profiled, chunks) ==
    /\ asked[a].pc = "fact"
    /\ profiled \subseteq asked[a].question.names \cap entities
    /\ ~embedded => ~chunks /\ (~routed => profiled = {})
    /\ Goes(a, Found(a, KnowledgeLayers(profiled, chunks)))
    /\ UNCHANGED upgradeCache

-------------------------------------------------------------------------------
(* plan_relation                                                            *)

\* The mentions are looked up again, whether they are identified or not.
ResolveEntity(a) ==
    LET found == UNION {Lookup(e) : e \in asked[a].result.entities}
    IN /\ asked[a].pc = "relation"
       /\ Goes(a, IF found = {} THEN FallBack(a) ELSE [asked[a] EXCEPT !.pc = "graph", !.anchors = found])
       /\ UNCHANGED upgradeCache

QueryGraph(a) ==
    LET hops == MaxHops(StructuredIntent(asked[a].result))
        targets == UNION {{w.target : w \in GraphQuery(Leads, e, hops)} : e \in asked[a].anchors}
    IN /\ asked[a].pc = "graph"
       /\ Goes(a, IF targets = {} THEN [asked[a] EXCEPT !.pc = "chunks"]
                  ELSE Found(a, {Piece("graph", {e}) : e \in targets}))
       /\ UNCHANGED upgradeCache

SearchChunks(a, found) ==
    /\ asked[a].pc = "chunks"
    /\ Goes(a, Found(a, IF found THEN {Piece("chunk", {})} ELSE {}))
    /\ UNCHANGED upgradeCache

-------------------------------------------------------------------------------
(* plan_aggregation                                                         *)

ResolveWithQuery(a) ==
    /\ asked[a].pc = "aggregation"
    /\ Goes(a, [asked[a] EXCEPT !.pc =
                    IF \E e \in asked[a].result.entities : TypeOf[e] \in QueryTypes THEN "execute" ELSE "subgraph"])
    /\ UNCHANGED upgradeCache

\* Only counts can be executed; a role without a domain counts nothing, and
\* that is an answer.
ExecuteCapabilityQuery(a, allowed) ==
    LET counted == {e \in entities : \E n \in asked[a].result.entities : TypeOf[e] = TypeOf[n]}
    IN /\ asked[a].pc = "execute"
       /\ Goes(a, IF asked[a].result.operation \in {"SUM", "AVG", "MAX", "MIN"}
                  THEN [asked[a] EXCEPT !.pc = "subgraph"]
                  ELSE Found(a, {Piece("capability", IF allowed THEN counted ELSE {})}))
       /\ UNCHANGED upgradeCache

\* A count from one identified entity over the facts.
CountsFrom(result) ==
    /\ result.operation \in {"COUNT", "none"} /\ result.counted # {}
    /\ result.identified /\ Cardinality(result.entities) = 1

DescendantCount(anchor, counted) ==
    {e \in Descendants(Leads, anchor, 3) \cap entities : TypeOf[e] \in counted}

SubgraphCount(a, allowed) ==
    LET result == asked[a].result
        anchor == CHOOSE e \in result.entities : TRUE
    IN /\ asked[a].pc = "subgraph"
       /\ Goes(a, IF ~CountsFrom(result) THEN FallBack(a)
                  ELSE [Found(a, {Piece("capability", IF allowed THEN DescendantCount(anchor, result.counted) ELSE {})})
                            EXCEPT !.anchors = {anchor}])
       /\ UNCHANGED upgradeCache

-------------------------------------------------------------------------------
\* A turn with entities leaves them in the conversation, unless that fails.
UpdateContext(a, last) ==
    /\ asked[a].pc = "answered"
    /\ last \in asked[a].result.entities \cup {lastEntity}
    /\ lastEntity' = last
    /\ asked' = [asked EXCEPT ![a] = NotAsked]
    /\ UNCHANGED <<entities, relationTypes, upgradeCache>>

PlanningNext ==
    \E a \in Asker :
        \/ SelectPlan(a)
        \/ \E embedded, routed, chunks \in BOOLEAN : \E profiled \in SUBSET Entity :
              PlanFact(a, embedded, routed, profiled, chunks)
        \/ ResolveEntity(a) \/ QueryGraph(a) \/ ResolveWithQuery(a)
        \/ \E found \in BOOLEAN : SearchChunks(a, found)
        \/ \E allowed \in BOOLEAN : ExecuteCapabilityQuery(a, allowed) \/ SubgraphCount(a, allowed)
        \/ \E last \in Entity \cup {NoEntity} : UpdateContext(a, last)

QuestionsNext == UnderstandNext \/ PlanningNext
QuestionsSpec == QuestionsInit /\ [][QuestionsNext]_questionVars

-------------------------------------------------------------------------------
\* An answer is of the plan of its intent or says why it is not; structured
\* evidence is only of a question that asked for it, and what is said of the
\* graph follows from an entity that the plan started at, which has a name like
\* one that was understood, or of one the question names.
AnswersFollowIntent ==
    \A a \in Asker : asked[a].pc = "answered" =>
        LET intent == StructuredIntent(asked[a].result)
            ran == asked[a].ran
        IN /\ ran # PlanOf(intent) \/ intent \in {"CAUSAL", "MIXED"} <=> asked[a].reason
           /\ \A p \in asked[a].evidence :
                 /\ p.channel = "capability" => ran = "aggregation"
                 /\ p.channel = "graph" =>
                       \E e \in p.about, from \in asked[a].anchors \cup asked[a].question.names :
                           e \in Reached(Leads, from, 2)
           /\ ran = "relation" =>
                 \A e \in asked[a].anchors : \E n \in asked[a].result.entities : e \in {n, Alike[n]}
           /\ ran = "aggregation" /\ asked[a].anchors # {} =>
                 asked[a].anchors = asked[a].result.entities /\ Cardinality(asked[a].anchors) = 1

\* From the question to its evidence: what is understood is grounded in the
\* ontology of this request, and the answer is of the plan that was asked for.
AnswersAreGrounded == UnderstandingIsGrounded /\ CacheIsBounded /\ AnswersFollowIntent
===============================================================================
