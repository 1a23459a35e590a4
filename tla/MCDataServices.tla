---------------------------- MODULE MCDataServices ----------------------------
(****************************************************************************)
(* What feeds the ABox and what is asked of it, checked side by side: the   *)
(* synchronisation of a data source, the profiles that are compiled, the    *)
(* datasets that are uploaded as files, the files of facts that are         *)
(* imported, the questions that are understood and answered, and the order  *)
(* of the evidence.  A behaviour is of one part, and the variables of the   *)
(* others stay.                                                             *)
(****************************************************************************)
EXTENDS DataSync, EntityProfiles, FileDatasets, RelationFacts, QuestionPlanning

CONSTANTS x1, x2,        \* source and target of the facts
          m1, s1, r1,    \* a mine, the shearer it leads to, and a relation type
          a2,            \* the second request
          mine, shearer, kpi, c1, c2    \* entity types and codes of an import

MCEnds == [f \in Statement |-> <<x1, x2>>]

\* The fact's target is renamed, compiled after a change, and nothing else.
ProfileStep ==
    /\ ProfilesNext
    /\ \A e \in Editor : editing'[e].change # Deprecation(x2)
    /\ \A p \in ProfileReader : compilingProfile'[p].entity # x2

-------------------------------------------------------------------------------
\* Three questions: a count of what a mine leads to, a pronoun with a verb and
\* nothing else, and one with keywords of two intents.
MCTypeOf == [e \in Entity |-> IF e = m1 THEN "mine" ELSE "shearer"]
MCSources == [r \in RelationType |-> {"mine"}]
Count == [NoQuestion EXCEPT !.names = {m1}, !.keywords = {"AGGREGATION"}, !.operation = "COUNT", !.counted = {"shearer"}]
Pronoun == [NoQuestion EXCEPT !.refers = TRUE, !.verbs = {r1}]
Mixed == [NoQuestion EXCEPT !.names = {m1, s1}, !.keywords = {"RELATION", "FACT"}, !.verbs = {r1}]
MCQuestion == {Count, Pronoun, Mixed}
MCAnswer == {[intent |-> "CAUSAL", entities |-> {s1}, wellFormed |-> TRUE, identified |-> FALSE, relations |-> {r1}],
             [intent |-> "AGGREGATION", entities |-> {m1}, wellFormed |-> FALSE, identified |-> FALSE, relations |-> {r1}],
             [intent |-> "MULTI_HOP", entities |-> {m1}, wellFormed |-> TRUE, identified |-> TRUE, relations |-> {}]}
MCLeads == {<<m1, s1>>}
MCAlike == [e \in Entity |-> IF e = s1 THEN m1 ELSE NoEntity]

\* One entity or relation type is away at a time, the message before was about
\* the mine, and of two requests one waits for the model while the other goes on.
QuestionStep ==
    /\ QuestionsNext
    /\ Cardinality(Entity \ entities') + Cardinality(RelationType \ relationTypes') <= 1
    /\ \A a \in Asker : asked'[a].context = s1 => s1 \in {lastEntity, asked[a].context}
    /\ asked'[a2].pc # "off" =>
          asked'[a2].question = Pronoun /\ \E a \in Asker : asked'[a].pc \in {"off", "model"}

-------------------------------------------------------------------------------
\* Two files to import: one with a mine, a shearer, and a metric that is no
\* instance; and one that names its shearer twice and states it both ways.
MCFile == {[rows |-> << <<mine, c1>>, <<shearer, c2>>, <<kpi, c1>> >>, facts |-> {<<c1, c2>>}],
           [rows |-> << <<shearer, c1>>, <<shearer, c1>> >>, facts |-> {<<c1, c2>>, <<c2, c1>>}]}

\* The relation is created for both types and an edit keeps the mines on one
\* side, the shearers on the other, or both; there are two entities and two
\* facts, of which one comes without a check; one dry run counts at a time.
ImportStep ==
    /\ RelationNext
    /\ relation.status = "none" =>
          relation'.source = relation'.target /\ relation'.source \in {{}, {mine, shearer}}
    /\ \A q \in RelationEdit : relationEdits'[q].source \in {{}, {mine}} /\ relationEdits'[q].target \in {{}, {shearer}}
    /\ Cardinality(stated') <= 2 /\ Cardinality(abox') <= 2
    /\ importing' = importing => stated' \ stated \subseteq {<< <<shearer, c1>>, <<shearer, c1>> >>}
    /\ abox \ abox' \subseteq {<<mine, c1>>}
    /\ \A f, g \in File : NoFacts \in {previews'[f], previews'[g]} \/ f = g

-------------------------------------------------------------------------------
\* What is ranked: all facts between four entities, one of which may lead to
\* itself; all graph lanes of three hits next to short lanes of the others; and
\* all lists of three pieces of evidence for the three kinds of intent.
Facts == {e \in (1..4) \X (1..4) : e[1] # e[2]} \cup {<<1, 1>>}
UpTo3(S) == UNION {[1..n -> S] : n \in 0..3}
GraphHits == [key : {"g1", "g2"}, depth : 1..2, relevance : 0..1]
Evidence == [channel : {"graph", "chunk"}, ref : {"x", "y"}, confidence : 1..2, role : {"auxiliary"}, conflict : {FALSE}]

VARIABLES part, sample

NoSample == [of |-> "nothing"]
Samples ==
    \/ \E facts \in SUBSET Facts : sample = [of |-> "facts", facts |-> facts]
    \/ \E hits \in UpTo3(GraphHits), profiled \in {<<>>, <<"p1">>, <<"p1", "p2">>}, chunks \in {<<>>, <<"c1">>, <<"c1", "c2">>} :
          sample = [of |-> "lanes", hits |-> hits, profiled |-> profiled, chunks |-> chunks]
    \/ \E evidence \in UpTo3(Evidence), intent \in {"FACT", "RELATION", "MIXED"} :
          sample = [of |-> "roles", evidence |-> evidence, intent |-> intent]

MCInit ==
    /\ part \in {"sync", "profiles", "files", "imports", "questions", "ranking"}
    /\ IF part = "ranking" THEN Samples ELSE sample = NoSample
    /\ SyncInit /\ ProfilesInit /\ FilesInit /\ RelationInit /\ QuestionsInit

MCNext ==
    /\ UNCHANGED <<part, sample>>
    /\ \/ part = "sync" /\ SyncNext /\ UNCHANGED <<profileVars, fileVars, relationVars, questionVars>>
       \/ part = "profiles" /\ ProfileStep /\ UNCHANGED <<syncVars, fileVars, relationVars, questionVars>>
       \/ part = "files" /\ FilesNext /\ UNCHANGED <<syncVars, profileVars, relationVars, questionVars>>
       \/ part = "imports" /\ ImportStep /\ UNCHANGED <<syncVars, profileVars, fileVars, questionVars>>
       \/ part = "questions" /\ QuestionStep /\ UNCHANGED <<syncVars, profileVars, fileVars, relationVars>>

MCSpec == MCInit /\ [][MCNext]_<<part, sample, syncVars, profileVars, fileVars, relationVars, questionVars>>

\* Every variable of the first four holds a value of its set.
MCTypeOK == SyncTypeOK /\ ProfilesTypeOK /\ FilesTypeOK /\ RelationTypeOK

\* Counts over the facts are exact, no layer of a search pushes another out, and
\* of the evidence with one source the best stands, the primary first.
EvidenceIsRanked ==
    /\ sample.of = "facts" => DescendantsExact(sample.facts, 1, 3)
    /\ sample.of = "lanes" => FusionIsFair(sample.profiled, sample.hits, sample.chunks, "start")
    /\ sample.of = "roles" => RolesExact(sample.evidence, sample.intent)
===============================================================================
