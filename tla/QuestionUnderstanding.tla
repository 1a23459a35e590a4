------------------------- MODULE QuestionUnderstanding -------------------------
(****************************************************************************)
(* The understanding of a question: rules extract its fields from the text, *)
(* the entities and the relation types of the tenant, their coverage is the *)
(* confidence, and when it is low the language model may fill in what the   *)
(* rules missed.  Answers of the model, and its failures, are kept in a     *)
(* cache by question alone.  What the understanding leads to is the module  *)
(* QuestionPlanning.                                                        *)
(****************************************************************************)
EXTENDS Integers, Sequences, FiniteSets, SequencesExt

CONSTANTS
    Entity, NoEntity,
    TypeOf,       \* [Entity -> entity type]
    RelationType,
    Sources,      \* [RelationType -> set of entity types it leads from]
    Question,     \* [names, refers, hinted, keywords, verbs, operation, counted, dated, constrained]
    Answer,       \* of the model: [intent, entities, wellFormed, identified, relations]
    NoAnswer,     \* the model is not reachable, or does not answer in JSON
    Asker,        \* requests that ask a question in one conversation
    Threshold,    \* of the confidence, in thousandths
    MaxCached     \* _UPGRADE_CACHE_MAX

ASSUME QuestionConstants ==
    /\ NoEntity \notin Entity /\ NoAnswer \notin Answer
    /\ IsFiniteSet(Entity) /\ \A x \in Answer : x.entities \subseteq Entity
    /\ Threshold \in 0..1000 /\ MaxCached \in Nat \ {0}

VARIABLES
    entities,      \* entities that are active
    relationTypes, \* relation types that are active
    lastEntity,    \* the last entity of the last turn that named any
    asked,         \* [Asker -> a question on its way; see NotAsked]
    upgradeCache   \* sequence of [question, answer], oldest first

questionVars == <<entities, relationTypes, lastEntity, asked, upgradeCache>>

Intents == {"FACT", "ATTRIBUTE", "RELATION", "MULTI_HOP", "LIST", "AGGREGATION", "COMPARISON", "TREND", "CAUSAL", "MIXED"}
Fields == {"time", "entities", "relations", "intent", "constraints", "operation"}

\* What is known of a question; entities are identified unless the model named
\* them, and counted holds the type whose instances are to be counted.
NoResult == [entities |-> {}, identified |-> TRUE, relations |-> {}, intent |-> "none", operation |-> "none",
             counted |-> {}, relevant |-> {}, hits |-> {}, ambiguous |-> FALSE, confidence |-> 0]

\* rules is the result of the rules, for the property; the fields after it are
\* those of the plan.
NoQuestion == [names |-> {}, refers |-> FALSE, hinted |-> FALSE, keywords |-> {}, verbs |-> {}, operation |-> "none",
               counted |-> {}, dated |-> FALSE, constrained |-> FALSE]
NotAsked == [pc |-> "off", question |-> NoQuestion, context |-> NoEntity, candidates |-> {},
             result |-> NoResult, rules |-> NoResult, upgraded |-> FALSE,
             plan |-> "none", ran |-> "none", reason |-> FALSE, anchors |-> {}, evidence |-> {}]

QuestionsInit ==
    /\ entities = Entity /\ relationTypes = RelationType
    /\ lastEntity = NoEntity /\ upgradeCache = <<>>
    /\ asked = [a \in Asker |-> NotAsked]

\* The next state of a question that changes nothing else, or only the cache.
Goes(a, record) == asked' = [asked EXCEPT ![a] = record] /\ UNCHANGED <<entities, relationTypes, lastEntity>>

-------------------------------------------------------------------------------
(* The rules                                                                *)

\* Aggregation before relation before fact; the other intents have no keywords.
ClassifyIntent(q) ==
    IF "AGGREGATION" \in q.keywords THEN "AGGREGATION"
    ELSE IF "RELATION" \in q.keywords THEN "RELATION"
    ELSE IF "FACT" \in q.keywords THEN "FACT" ELSE "none"

\* A year or a month is both a time and a constraint on the documents.
ExtractedTime(q) == [hit |-> q.dated \/ q.constrained, constraints |-> q.constrained]

\* Entities that the text names; when it names none and refers to one, the one
\* of the conversation, which may be gone since.
ExtractedEntities(q, context) ==
    IF q.names \cap entities # {} THEN q.names \cap entities
    ELSE IF q.refers THEN {context} \ {NoEntity} ELSE {}

\* The relations of the verbs that are known and lead from one of the entities.
ExtractedRelations(q, named, candidates) ==
    {r \in q.verbs \cap candidates : \E e \in named : TypeOf[e] \in Sources[r]}

\* A count is of the type that its noun names, unless none or several are.
ExtractedOperation(q, resolved) ==
    [operation |-> q.operation, counted |-> IF q.operation = "COUNT" /\ resolved THEN q.counted ELSE {}]

\* A field that the question does not touch does not lower the coverage.
Relevant(q, context) ==
    {"intent"} \cup (IF ExtractedTime(q).hit THEN {"time"} ELSE {}) \cup (IF q.verbs # {} THEN {"relations"} ELSE {})
        \cup (IF q.operation # "none" THEN {"operation"} ELSE {})
        \cup (IF ExtractedTime(q).constraints THEN {"constraints"} ELSE {})
        \cup (IF q.hinted \/ q.refers \/ context # NoEntity THEN {"entities"} ELSE {})

\* The share of the relevant fields that were hit, in thousandths, less 0.2 when
\* keywords of two intents were found.
Confidence(relevant, hits, ambiguous) ==
    LET n == Cardinality(relevant)
        coverage == (2000 * Cardinality(relevant \cap hits) + n) \div (2 * n)
    IN IF ~ambiguous THEN coverage ELSE IF coverage < 200 THEN 0 ELSE coverage - 200

Missing(result) == result.relevant \ result.hits

\* The result of the rules.
Understood(q, context, named, candidates, resolved) ==
    LET relations == ExtractedRelations(q, named, candidates)
        intent == ClassifyIntent(q)
        operation == ExtractedOperation(q, resolved)
        hits == {f \in Fields : \/ f = "time" /\ ExtractedTime(q).hit
                                \/ f = "entities" /\ named # {}
                                \/ f = "relations" /\ relations # {}
                                \/ f = "intent" /\ intent # "none"
                                \/ f = "constraints" /\ ExtractedTime(q).constraints
                                \/ f = "operation" /\ q.operation # "none"}
        ambiguous == Cardinality(q.keywords) > 1
    IN [entities |-> named, identified |-> TRUE, relations |-> relations, intent |-> intent,
        operation |-> operation.operation, counted |-> operation.counted,
        relevant |-> Relevant(q, context), hits |-> hits, ambiguous |-> ambiguous,
        confidence |-> Confidence(Relevant(q, context), hits, ambiguous)]

\* The context is the entity of the conversation, or one of the message before.
Ask(a, q, previous) ==
    /\ asked[a].pc = "off"
    /\ lastEntity # NoEntity => previous = NoEntity
    /\ Goes(a, [NotAsked EXCEPT !.pc = "candidates", !.question = q,
                    !.context = IF lastEntity # NoEntity THEN lastEntity ELSE previous])
    /\ UNCHANGED upgradeCache

FetchRelationCandidates(a) ==
    /\ asked[a].pc = "candidates"
    /\ Goes(a, [asked[a] EXCEPT !.pc = "entities", !.candidates = relationTypes])
    /\ UNCHANGED upgradeCache

ExtractEntities(a) ==
    /\ asked[a].pc = "entities"
    /\ Goes(a, [asked[a] EXCEPT !.pc = "rules",
                    !.result.entities = ExtractedEntities(asked[a].question, asked[a].context)])
    /\ UNCHANGED upgradeCache

Understand(a, resolved) ==
    LET q == asked[a].question
        result == Understood(q, asked[a].context, asked[a].result.entities, asked[a].candidates, resolved)
    IN /\ asked[a].pc = "rules" /\ (resolved => q.counted # {})
       /\ Goes(a, [asked[a] EXCEPT !.pc = "upgrade", !.result = result, !.rules = result])
       /\ UNCHANGED upgradeCache

-------------------------------------------------------------------------------
(* The upgrade                                                              *)

\* Mutant: the relations of an answer were checked when it was cached.
CheckedBefore(relations, candidates) == relations

ValidateRelations(relations, candidates) == relations \cap candidates

\* What the model adds: only fields that the rules missed, a known intent, and
\* relations of the candidates.  Entities that are no records end the merge
\* where they were asked for.
Merged(result, answer, candidates) ==
    LET fails == "entities" \in Missing(result) /\ answer.entities # {} /\ ~answer.wellFormed
        intent == IF "intent" \in Missing(result) /\ answer.intent \in Intents THEN answer.intent ELSE result.intent
        relations == IF result.relations # {} \/ fails THEN result.relations
                     ELSE ValidateRelations(answer.relations, candidates)
        named == IF result.entities # {} \/ ~answer.wellFormed THEN result.entities ELSE answer.entities
        hits == result.hits \cup (IF intent # "none" THEN {"intent"} ELSE {})
                    \cup (IF relations # {} THEN {"relations"} ELSE {}) \cup (IF named # {} THEN {"entities"} ELSE {})
    IN [result EXCEPT !.intent = intent, !.relations = relations, !.entities = named, !.hits = hits,
                      !.identified = (named = result.entities \/ answer.identified),
                      !.confidence = Confidence(result.relevant, hits, result.ambiguous)]

\* A negative answer leaves the result of the rules as it is.
Upgraded(a, answer) ==
    [asked[a] EXCEPT !.pc = "plan", !.upgraded = TRUE,
                     !.result = IF answer = NoAnswer THEN @ ELSE Merged(@, answer, asked[a].candidates)]

Cached(q) == {i \in DOMAIN upgradeCache : upgradeCache[i].question = q}

\* The model is left alone when the rules suffice or the caller wants no model;
\* an answer to the same question is taken from the cache, whatever its context was.
BeginUpgrade(a, useLlm) ==
    LET result == asked[a].result
    IN /\ asked[a].pc = "upgrade"
       /\ Goes(a, IF ~useLlm \/ result.confidence >= Threshold THEN [asked[a] EXCEPT !.pc = "plan"]
                  ELSE IF Missing(result) = {} THEN [asked[a] EXCEPT !.pc = "plan", !.result.confidence = 1000]
                  ELSE IF Cached(asked[a].question) # {}
                  THEN Upgraded(a, upgradeCache[CHOOSE i \in Cached(asked[a].question) : TRUE].answer)
                  ELSE [asked[a] EXCEPT !.pc = "model"])
       /\ UNCHANGED upgradeCache

\* The answer goes to the end of the cache, in place of another to the same
\* question, and the first entry leaves a full one.
JsonComplete(a, answer) ==
    LET known == Cached(asked[a].question)
        others == IF known = {} THEN upgradeCache ELSE RemoveAt(upgradeCache, CHOOSE i \in known : TRUE)
        kept == Append(others, [question |-> asked[a].question, answer |-> answer])
    IN /\ asked[a].pc = "model"
       /\ Goes(a, Upgraded(a, answer))
       /\ upgradeCache' = IF Len(kept) > MaxCached THEN Tail(kept) ELSE kept

-------------------------------------------------------------------------------
\* Others remove and restore entities and relation types.
OntologyMoves ==
    /\ \/ \E e \in Entity : /\ entities' = (IF e \in entities THEN entities \ {e} ELSE entities \cup {e})
                            /\ UNCHANGED relationTypes
       \/ \E r \in RelationType :
             /\ relationTypes' = (IF r \in relationTypes THEN relationTypes \ {r} ELSE relationTypes \cup {r})
             /\ UNCHANGED entities
    /\ UNCHANGED <<lastEntity, asked, upgradeCache>>

UnderstandNext ==
    \/ \E a \in Asker :
          \/ \E q \in Question, previous \in entities \cup {NoEntity} : Ask(a, q, previous)
          \/ FetchRelationCandidates(a) \/ ExtractEntities(a)
          \/ \E resolved \in BOOLEAN : Understand(a, resolved)
          \/ \E useLlm \in BOOLEAN : BeginUpgrade(a, useLlm)
          \/ \E answer \in Answer \cup {NoAnswer} : JsonComplete(a, answer)
    \/ OntologyMoves

-------------------------------------------------------------------------------
\* What was understood is grounded in this request: however old the answer of
\* the model and whatever changed since, each relation is one of the candidates
\* that were read for the question; what the rules found stands; the model was
\* asked only below the threshold; and the confidence counts the hits.
UnderstandingIsGrounded ==
    \A a \in Asker : asked[a].pc \in {"upgrade", "model", "plan"} =>
        LET result == asked[a].result
            rules == asked[a].rules
        IN /\ result.relations \subseteq asked[a].candidates
           /\ rules.hits \subseteq result.hits
           /\ "intent" \in rules.hits => result.intent = rules.intent
           /\ "entities" \in rules.hits => result.entities = rules.entities
           /\ "relations" \in rules.hits => result.relations = rules.relations
           /\ asked[a].upgraded => rules.confidence < Threshold
           /\ \/ result.confidence = Confidence(result.relevant, result.hits, result.ambiguous)
              \/ Missing(result) = {} /\ result.confidence = 1000

\* The cache holds one answer for a question, and no more answers than it may.
CacheIsBounded ==
    /\ Len(upgradeCache) <= MaxCached
    /\ \A i, j \in DOMAIN upgradeCache : upgradeCache[i].question = upgradeCache[j].question => i = j
===============================================================================
