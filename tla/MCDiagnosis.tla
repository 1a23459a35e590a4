------------------------------ MODULE MCDiagnosis -----------------------------
(****************************************************************************)
(* From the catalog to a diagnosis: the release of packs in manifests, the  *)
(* references that follow their sources, the import of source models, the   *)
(* compiler of the Case A blueprints, the way of a request from its entry   *)
(* to its plan, and the diagnoses on a blueprint, on one graph with         *)
(* everything around it or on every graph with nothing else.  A behaviour   *)
(* is of one part, and the variables of the others stay as they are.        *)
(****************************************************************************)
EXTENDS CatalogManifests, CatalogRefs, SnapshotImport, CaseACompiler, BlueprintPlanning

CONSTANTS c1, c2, mid, eff,     \* nodes of the diagnosis
          v1, v2,               \* workers
          i1, i2,               \* revisions of the dataset, and the contexts that pin them
          y1                    \* an entity

\* Every graph of two causes, a node between and the effect, with one positive
\* or one more costly negative edge between each two in order; and one graph.
Pairs == {<<c1, c2>>, <<c1, mid>>, <<c2, mid>>, <<c1, eff>>, <<c2, eff>>, <<mid, eff>>}
Labels == {<<"+", 1>>, <<"-", 2>>, <<"none", 0>>}
Labelled(f) == {[from |-> p[1], to |-> p[2], effect |-> f[p][1], cost |-> f[p][2]] :
                   p \in {p \in Pairs : f[p][1] # "none"}}
OneGraph == Labelled([p \in Pairs |-> IF p = <<c2, eff>> THEN <<"-", 2>> ELSE <<"+", 1>>])
AllGraphs == {Labelled(f) : f \in [Pairs -> Labels]}

Seen(x, y, z) == [n \in Required |-> IF n = c1 THEN x ELSE IF n = c2 THEN y ELSE z]
MCObserved == {Seen("up", "unchanged", "up"), Seen("up", "data_unavailable", "up"), Seen("up", "up", "data_unavailable"),
               Seen("failed", "up", "down"), Seen("up", "up", "unchanged"), Seen("unchanged", "down", "down")}

\* The first revision lacks an optional node, and the second one has two
\* providers of a node.
MCOrder == <<c1, c2, eff>>
MCProviders ==
    [r \in Prepared |-> [n \in Required |-> IF r = i1 /\ n = c2 THEN 0 ELSE IF r = i2 /\ n = c1 THEN 2 ELSE 1]]
MCRows ==
    [k \in Prepared \X Required \X (Entity \cup {Site}) |->
        IF k[2] = c2 THEN "unchanged" ELSE IF k[2] = c1 /\ (k[1] = i1) = (k[3] = y1) THEN "down" ELSE "up"]

\* The packages that are imported: an ontology of two entities that the context
\* may be related to, a graph, and what the requirement on its middle node means.
Of(y) == [subject |-> "x", relation |-> "of", object |-> y]
Bundle(id, number, graph, facts, y, config, about) ==
    [intact |-> TRUE,
     snapshot |-> [id |-> id, model |-> "m", version |-> number, nodes |-> {c1, mid, eff},
                   edges |-> [e \in graph |-> e], entries |-> {c1}, rules |-> {mid}, about |-> about,
                   requirements |-> {[key |-> "k1", node |-> c1, relation |-> "context", type |-> "site"],
                                     [key |-> "k2", node |-> mid, relation |-> "of", type |-> "metric"]}],
     ontology |-> [domains |-> {"d1", "d2"},
                   types |-> [t \in {"site", "metric"} |-> IF t = "site" THEN "d1" ELSE "d2"],
                   relations |-> [r \in {"of"} |-> [from |-> "site", to |-> "metric"]],
                   entities |-> [z \in {"x", "y", "z"} |-> IF z = "x" THEN "site" ELSE "metric"],
                   facts |-> facts],
     context |-> "x", expected |-> [k \in {"k1", "k2"} |-> IF k = "k1" THEN "x" ELSE y],
     algorithm |-> [id |-> "a", config |-> config]]
Chain == {<<c1, mid>>, <<mid, eff>>}
MCFixture ==
    {Bundle("s1", 1, graph, {Of("y")}, "y", 1, {"site"}) : graph \in {Chain, Chain \cup {<<eff, c1>>}, {<<c1, mid>>, <<mid, c1>>}}}
        \cup {Bundle("s2", number, {<<c1, mid>>}, {Of("y")}, "y", 1, {"site"}) : number \in {1, 2}}
        \cup {Bundle("s1", 1, {<<c1, mid>>}, facts, y, 1, {"site"}) :
                  facts \in {{}, {Of("z")}, {Of("y"), Of("z")}}, y \in {"y", "z"}}
        \cup {Bundle("s1", 1, {<<c1, mid>>}, {Of("y")}, "y", 2, about) : about \in {{"site"}, {"site", "metric"}}}

\* The handlers of references are alike, and so are those that publish manifests.
Alike == Permutations(Handler) \cup Permutations(Publisher)

VARIABLE part

FirstHash == CHOOSE x \in Hash : TRUE

\* The parts that do not run start in one of their initial states.
MCInit ==
    /\ part \in {"packs", "manifests", "refs", "import", "compiler", "planning", "ranking", "diagnosis"}
    /\ PacksInit /\ ManifestsInit
    /\ RefsInit /\ \A o \in Object : source[o].hash = FirstHash
    /\ ImportInit
    /\ CompilerInit /\ (part # "compiler" => passed = {} /\ registered = FALSE)
    /\ ReasoningInit /\ (part # "ranking" => snapshot = OneGraph)
    /\ PlanningInit /\ published = i1
    /\ part # "diagnosis" => targets = CHOOSE f \in [Related -> {{x} : x \in Entity}] : TRUE

\* The release, without failures of the fulfilment, on requests of one of the users.
Release ==
    /\ ReleaseNext
    /\ \A q \in Change : changes'[q].status # "none" =>
          /\ changes'[q].status # "fulfillment_failed"
          /\ changes'[q].requester = CHOOSE u \in User : TRUE

\* The references, whose source has one of its contents in all stages of its life
\* and the other one only while it is active.
References == RefsNext /\ \A o \in Object : source'[o].status = "active" \/ source'[o].hash = FirstHash

\* Others change one of the entities and the fact.
Import ==
    /\ ImportNext
    /\ \A k \in DOMAIN ontology : k \in {<<"entity", "y">>, <<"fact", "of">>} \/ ontology'[k] # Changed

\* Diagnoses of one context ...
OneContext == \A i \in Prepared \ {i1} : contexts'[i] = NoContext

\* ... or of all, on the way from the entry, where contexts do not get late, and
\* the second worker is only asked for the first revision and goes up to its plan.
Planning ==
    /\ PlanningNext
    /\ \A i \in Prepared : contexts'[i] # NoContext => ~contexts'[i].late
    /\ \A n \in Related : Cardinality(targets'[n]) < 2
    /\ planning'[v2].pin \in {NoContext, i1} /\ planning'[v2].records = <<>>
    /\ rival' => planning'[v1] = NotPlanning
    /\ ~known' => planning'[v1].pc \in {"off", "found", "checked", "entered"}
    /\ rival' \/ ~known' => diagnosing'[v1] = Resting

MCNext ==
    /\ UNCHANGED part
    /\ \/ part = "packs" /\ PacksNext /\ UNCHANGED <<importVars, manifestVars, refVars, compilerVars, reasoningVars, blueprintVars>>
       \/ part = "manifests" /\ Release /\ UNCHANGED <<importVars, refVars, compilerVars, reasoningVars, blueprintVars>>
       \/ part = "refs" /\ References
             /\ UNCHANGED <<importVars, packVars, manifestVars, compilerVars, reasoningVars, blueprintVars>>
       \/ part = "import" /\ Import
             /\ UNCHANGED <<packVars, manifestVars, refVars, compilerVars, reasoningVars, blueprintVars>>
       \/ part = "compiler" /\ CompilerNext
             /\ UNCHANGED <<importVars, packVars, manifestVars, refVars, reasoningVars, blueprintVars>>
       \/ part = "planning" /\ Planning
             /\ UNCHANGED <<importVars, packVars, manifestVars, refVars, compilerVars>>
       \/ part = "ranking" /\ DiagnosisStep([Required -> Moving]) /\ diagnosing'[v2] = diagnosing[v2] /\ OneContext
             /\ UNCHANGED <<importVars, packVars, manifestVars, refVars, compilerVars, blueprintVars>>
       \/ part = "diagnosis" /\ ReasoningNext /\ OneContext
             /\ UNCHANGED <<importVars, packVars, manifestVars, refVars, compilerVars, blueprintVars>>

MCSpec == MCInit /\ [][MCNext]_<<part, packVars, manifestVars, refVars, importVars, compilerVars, reasoningVars, blueprintVars>>

\* Every variable of all parts holds a value of its set.
MCTypeOK == PacksTypeOK /\ RefsTypeOK /\ CompilerTypeOK /\ ReasoningTypeOK

\* From the package to the archive nothing is lost or made up: a snapshot comes in
\* as it was exported, the ranking is the exact one of the graph and the records,
\* and what is archived on the way from the entry is what was pinned.
DiagnosedAsDeclared ==
    /\ ImportsAreWhole
    /\ RankingExact
    /\ part = "planning" => TraceShowsWhatWasPinned

\* What others have pinned is never rewritten: the revisions of the manifest,
\* the content hashes of references, the contexts and traces of diagnoses.
NeverRewritten == RevisionsStay /\ PinsNeverDrift /\ ContextsArePinned
===============================================================================
