---------------------------- MODULE SnapshotImport ----------------------------
(****************************************************************************)
(* The import of a causal snapshot package: the package is verified before  *)
(* anything is written, then the ontology it needs and the source model go  *)
(* into the tenant in one transaction, and at last its algorithm into the   *)
(* registry of the platform, in another.                                    *)
(****************************************************************************)
EXTENDS Integers, FiniteSets

CONSTANTS
    Fixture,    \* the packages that are imported; see the operators on them below
    Importer,
    Changed     \* the content of an ontology row that somebody else has changed

VARIABLES
    ontology,   \* [key -> content] of the rows of data domains, types, relations, entities, facts
    models,     \* [model -> data domain]
    modelVersions, \* [version -> [pointer, testing, rows]]
    snapshots,  \* [id -> [version, content]], each with a validation run that passed
    algorithms, \* [id -> configuration], of the registry
    imports     \* [pc, package] of each importer

importVars == <<ontology, models, modelVersions, snapshots, algorithms, imports>>

Empty == [k \in {} |-> k]
NoImport == [pc |-> "off", package |-> Empty]

ImportInit ==
    /\ ontology = Empty /\ models = Empty /\ modelVersions = Empty
    /\ snapshots = Empty /\ algorithms = Empty
    /\ imports = [i \in Importer |-> NoImport]

-------------------------------------------------------------------------------
(* Verification: p.snapshot is a graph of nodes and edges, [key -> <<source,*)
(* target>>], with entries, rules and evidence requirements; p.ontology has *)
(* types with their domains, relations between types, entities and facts.   *)

\* Nodes that a path of at most n edges leads to.
Descendants(s) ==
    LET Below[n \in Nat] ==
            IF n = 0 THEN [x \in s.nodes |-> {}]
            ELSE LET shorter == Below[n - 1]
                 IN [x \in s.nodes |-> UNION {{s.edges[e][2]} \cup shorter[s.edges[e][2]] :
                                                  e \in {f \in DOMAIN s.edges : s.edges[f][1] = x}}]
    IN Below[Cardinality(s.nodes)]

ValidSnapshotGraph(s) ==
    /\ s.entries \subseteq s.nodes
    /\ \A e \in DOMAIN s.edges : /\ {s.edges[e][1], s.edges[e][2]} \subseteq s.nodes
                                 /\ s.edges[e][1] # s.edges[e][2]
    /\ \A x \in s.nodes : x \notin Descendants(s)[x]
    /\ \A r \in s.requirements : r.node \in s.nodes
    /\ s.rules \subseteq s.nodes

ValidOntology(o) ==
    /\ o.domains # {}
    /\ \A t \in DOMAIN o.types : o.types[t] \in o.domains
    /\ \A r \in DOMAIN o.relations : {o.relations[r].from, o.relations[r].to} \subseteq DOMAIN o.types
    /\ \A x \in DOMAIN o.entities : o.entities[x] \in DOMAIN o.types
    /\ \A f \in o.facts :
          /\ {f.subject, f.object} \subseteq DOMAIN o.entities /\ f.relation \in DOMAIN o.relations
          /\ o.entities[f.subject] = o.relations[f.relation].from
          /\ o.entities[f.object] = o.relations[f.relation].to

\* The entities a requirement can mean: that of the context, or those that one
\* relation leads to from there.
Candidates(p, r) ==
    LET o == p.ontology
        reached == IF r.relation = "context" THEN {p.context}
                   ELSE {f.object : f \in {g \in o.facts : g.subject = p.context /\ g.relation = r.relation}}
    IN {x \in reached : o.entities[x] = r.type}

\* Each requirement means exactly one entity, the one that the package expects.
BindingsResolve(p) ==
    /\ p.context \in DOMAIN p.ontology.entities
    /\ \A r \in p.snapshot.requirements :
          /\ r.relation # "context" =>
                /\ r.relation \in DOMAIN p.ontology.relations
                /\ p.ontology.entities[p.context] = p.ontology.relations[r.relation].from
          /\ Candidates(p, r) = {p.expected[r.key]}
    /\ DOMAIN p.expected = {r.key : r \in p.snapshot.requirements}

\* The types that the model is about are of one data domain.
Domains(p) == {p.ontology.types[t] : t \in p.snapshot.about \cap DOMAIN p.ontology.types}

Verified(p) == p.intact /\ ValidSnapshotGraph(p.snapshot) /\ ValidOntology(p.ontology) /\ BindingsResolve(p)

-------------------------------------------------------------------------------
(* The rows of a package                                                    *)

OntologyRows(p) ==
    LET o == p.ontology
        keys == ({"domain"} \X o.domains) \cup ({"type"} \X DOMAIN o.types)
                    \cup ({"relation"} \X DOMAIN o.relations) \cup ({"entity"} \X DOMAIN o.entities)
                    \cup ({"fact"} \X {f.relation : f \in o.facts})
    IN [k \in keys |->
           CASE k[1] = "type" -> <<o.types[k[2]]>>
             [] k[1] = "relation" -> <<o.relations[k[2]].from, o.relations[k[2]].to>>
             [] k[1] = "entity" -> <<o.entities[k[2]]>>
             [] k[1] = "fact" -> LET f == CHOOSE g \in o.facts : g.relation = k[2] IN <<f.subject, f.object>>
             [] OTHER -> <<>>]

\* A node has the type of the entity that its requirement means, or else that
\* of the context; one table for each kind of row.
ModelRows(p) ==
    LET s == p.snapshot
        TypeOf(x) == LET meant == {p.expected[r.key] : r \in {q \in s.requirements : q.node = x}}
                     IN p.ontology.entities[CHOOSE y \in meant \cup {p.context} : meant # {} => y \in meant]
    IN [k \in ({"node"} \X s.nodes) \cup ({"edge"} \X DOMAIN s.edges) \cup ({"rule"} \X s.rules)
                  \cup ({"binding"} \X {r.key : r \in s.requirements}) |->
           CASE k[1] = "node" -> <<TypeOf(k[2]), k[2] \in s.entries>>
             [] k[1] = "edge" -> s.edges[k[2]]
             [] k[1] = "binding" -> <<p.expected[k[2]]>>
             [] OTHER -> <<>>]

\* INSERT ... ON CONFLICT DO NOTHING
Keeping(old, new) == [k \in DOMAIN old \cup DOMAIN new |-> IF k \in DOMAIN old THEN old[k] ELSE new[k]]
Agree(old, new) == \A k \in DOMAIN old \cap DOMAIN new : old[k] = new[k]

-------------------------------------------------------------------------------
(* The import                                                               *)

Load(i, p) ==
    /\ imports[i] = NoImport /\ Verified(p)
    /\ imports' = [imports EXCEPT ![i] = [pc |-> "tenant", package |-> p]]
    /\ UNCHANGED <<ontology, models, modelVersions, snapshots, algorithms>>

Version(p) == IF p.snapshot.version \in DOMAIN modelVersions THEN modelVersions[p.snapshot.version]
              ELSE [pointer |-> "none", testing |-> TRUE, rows |-> Empty]

\* What is there and differs from the package is a conflict; rows of the model
\* are not compared, and what a version is about is part of the content.
ImportConflicts(p) ==
    LET s == p.snapshot
    IN \/ ~Agree(ontology, OntologyRows(p))
       \/ Cardinality(Domains(p)) # 1
       \/ s.model \in DOMAIN models /\ models[s.model] \notin Domains(p)
       \/ ~Version(p).testing
       \/ s.id \in DOMAIN snapshots /\ (snapshots[s.id].version # s.version \/ snapshots[s.id].content # s)
       \/ Version(p).pointer \notin {"none", s.id}

\* One transaction, and nothing of it when there is a conflict.
ImportTenant(i) ==
    LET p == imports[i].package
        s == p.snapshot
    IN /\ imports[i].pc = "tenant"
       /\ IF ImportConflicts(p)
          THEN /\ imports' = [imports EXCEPT ![i] = NoImport]
               /\ UNCHANGED <<ontology, models, modelVersions, snapshots, algorithms>>
          ELSE /\ ontology' = Keeping(ontology, OntologyRows(p))
               /\ models' = Keeping(models, [m \in {s.model} |-> CHOOSE d \in Domains(p) : TRUE])
               /\ modelVersions' = [v \in DOMAIN modelVersions \cup {s.version} |->
                      IF v = s.version
                      THEN [Version(p) EXCEPT !.pointer = s.id, !.rows = Keeping(@, ModelRows(p))]
                      ELSE modelVersions[v]]
               /\ snapshots' = Keeping(snapshots, [id \in {s.id} |-> [version |-> s.version, content |-> s]])
               /\ imports' = [imports EXCEPT ![i].pc = "registry"]
               /\ UNCHANGED algorithms

\* The row of another configuration is a conflict, and the tenant keeps its part.
RegisterAlgorithm(i) ==
    LET a == imports[i].package.algorithm
    IN /\ imports[i].pc = "registry"
       /\ algorithms' = Keeping(algorithms, [id \in {a.id} |-> a.config])
       /\ imports' = [imports EXCEPT ![i] = NoImport]
       /\ UNCHANGED <<ontology, models, modelVersions, snapshots>>

\* Either transaction fails, or the process ends between them.
ImportFails(i) ==
    /\ imports[i].pc # "off"
    /\ imports' = [imports EXCEPT ![i] = NoImport]
    /\ UNCHANGED <<ontology, models, modelVersions, snapshots, algorithms>>

\* Others edit the ontology and move the version on.
OntologyChanges(k) ==
    /\ k \in DOMAIN ontology /\ ontology' = [ontology EXCEPT ![k] = Changed]
    /\ UNCHANGED <<models, modelVersions, snapshots, algorithms, imports>>

VersionMoves(v) ==
    /\ v \in DOMAIN modelVersions /\ modelVersions[v].testing
    /\ modelVersions' = [modelVersions EXCEPT ![v].testing = FALSE]
    /\ UNCHANGED <<ontology, models, snapshots, algorithms, imports>>

ImportNext ==
    \/ \E i \in Importer : ImportTenant(i) \/ RegisterAlgorithm(i) \/ ImportFails(i) \/ \E p \in Fixture : Load(i, p)
    \/ \E k \in DOMAIN ontology : OntologyChanges(k)
    \/ \E v \in DOMAIN modelVersions : VersionMoves(v)

ImportSpec == ImportInit /\ [][ImportNext]_importVars

-------------------------------------------------------------------------------
\* The packages with the content of a snapshot of the tenant.
Imported(id) == {p \in Fixture : p.snapshot = snapshots[id].content}

\* What a version points to is the snapshot of one verified package, its rows
\* are the rows of that snapshot and of no other, though none of them is ever
\* compared, and its graph can be drawn in one direction.
ImportedWhole ==
    \A v \in DOMAIN modelVersions :
        LET s == snapshots[modelVersions[v].pointer]
        IN /\ s.version = v
           /\ \E p \in Imported(modelVersions[v].pointer) : modelVersions[v].rows = ModelRows(p)
           /\ \E rank \in [s.content.nodes -> 1..Cardinality(s.content.nodes)] :
                 \A e \in DOMAIN s.content.edges : rank[s.content.edges[e][1]] < rank[s.content.edges[e][2]]

\* An algorithm is registered only after a tenant import that needs it, so no
\* conflict in the tenant leaves one behind.
RegistryFollows ==
    \A a \in DOMAIN algorithms :
        \E id \in DOMAIN snapshots : \E p \in Imported(id) : p.algorithm = [id |-> a, config |-> algorithms[a]]

\* A package that is in can be imported again after a failure of the registry,
\* unless others have changed what it relies on.
Retryable ==
    \A id \in DOMAIN snapshots : \A p \in Imported(id) :
        Verified(p) /\ modelVersions[p.snapshot.version].testing /\ Agree(ontology, OntologyRows(p))
            => ~ImportConflicts(p)

ImportsAreWhole == ImportedWhole /\ RegistryFollows /\ Retryable
===============================================================================
