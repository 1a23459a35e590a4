----------------------------- MODULE CausalContent ----------------------------
(****************************************************************************)
(* The graph of one version: its nodes, edges, rules and evidence           *)
(* requirements are put and deleted one at a time while it is a draft, are  *)
(* analysed when it is submitted and again when it is published, and are    *)
(* frozen in between.  Each command locks the version row: one action.  A   *)
(* catalog reference that does not resolve refuses the put, the submission  *)
(* or the publication that needs it; the catalog is left out here, as any   *)
(* command may also just not be sent.                                       *)
(****************************************************************************)
EXTENDS Naturals, FiniteSets

CONSTANTS
    Node,       \* node keys
    Edge,       \* edge keys
    Rule,       \* rule keys
    Target,     \* the node the diagnostic target names as entry point
    NodeShape,  \* the [entry, observable] a put may ask for
    NoNode, NoEdge

ASSUME ContentConstants ==
    /\ IsFiniteSet(Node)
    /\ Target \in Node
    /\ NodeShape \subseteq [entry : BOOLEAN, observable : BOOLEAN]
    /\ NoNode \notin NodeShape
    /\ NoEdge \notin Node \X Node

VARIABLES
    stage,      \* status of the version
    nodes,      \* the row of each node key, or NoNode
    edges,      \* the end points of each edge key, or NoEdge
    rules,      \* rule keys that have a row
    evidence    \* level of the evidence requirement of each node

contentVars == <<stage, nodes, edges, rules, evidence>>

Level == {"none", "optional", "required"}

Present == {n \in Node : nodes[n] # NoNode}
Drawn == {e \in Edge : edges[e] # NoEdge}

-------------------------------------------------------------------------------
(****************************************************************************)
(* The analysis of a content.                                               *)
(****************************************************************************)
\* Self loops and dangling edges are reported and kept out of the adjacency.
Adjacency == [n \in Present |->
    {m \in Present \ {n} : \E e \in Drawn : edges[e] = <<n, m>>}]

\* The depth-first search with a set of nodes on the path and one of nodes done.
HasCycle(adjacency) ==
    LET all == DOMAIN adjacency
        visit[at \in [todo : SUBSET all, path : SUBSET all, done : SUBSET all]] ==
            IF at.todo = {} THEN [cycle |-> FALSE, done |-> at.done]
            ELSE LET n == CHOOSE x \in at.todo : TRUE
                     below == IF n \in at.path THEN [cycle |-> TRUE, done |-> at.done]
                              ELSE IF n \in at.done THEN [cycle |-> FALSE, done |-> at.done]
                              ELSE visit[[todo |-> adjacency[n], path |-> at.path \cup {n}, done |-> at.done]]
                 IN IF below.cycle THEN below
                    ELSE visit[[todo |-> at.todo \ {n}, path |-> at.path, done |-> below.done \cup {n}]]
    IN visit[[todo |-> all, path |-> {}, done |-> {}]].cycle

\* The worklist search from one node to another.
Reaches(adjacency, from, to) ==
    LET all == DOMAIN adjacency
        search[at \in [pending : SUBSET all, seen : SUBSET all]] ==
            IF at.pending = {} THEN FALSE
            ELSE LET n == CHOOSE x \in at.pending : TRUE
                     more == IF n \in at.seen THEN {} ELSE adjacency[n]
                 IN \/ n = to
                    \/ search[[pending |-> (at.pending \ {n}) \cup more, seen |-> at.seen \cup {n}]]
    IN search[[pending |-> {from}, seen |-> {}]]

Entries == {n \in Present : nodes[n].entry}

EntryIssue ==
    \/ Cardinality(Entries) # 1
    \/ \E n \in Entries : n # Target \/ ~nodes[n].observable

EdgeIssue ==
    \/ \E e \in Drawn : edges[e][1] = edges[e][2]
    \/ \E e \in Drawn : ~({edges[e][1], edges[e][2]} \subseteq Present)

CycleIssue == HasCycle(Adjacency)

ReachIssue ==
    Cardinality(Entries) = 1 /\ \E n \in Present \ Entries, entry \in Entries : ~Reaches(Adjacency, n, entry)

EvidenceIssue == \E n \in Present : nodes[n].observable /\ evidence[n] # "required"

\* The analysis has found nothing of severity error.
AnalysisPasses ==
    ~(EntryIssue \/ EdgeIssue \/ CycleIssue \/ ReachIssue \/ EvidenceIssue)

-------------------------------------------------------------------------------
(****************************************************************************)
(* The commands of a draft.                                                 *)
(****************************************************************************)
ContentInit ==
    /\ stage = "draft"
    /\ nodes = [n \in Node |-> NoNode] /\ edges = [e \in Edge |-> NoEdge]
    /\ rules = {} /\ evidence = [n \in Node |-> "none"]

\* Insert or overwrite; the evidence of an overwritten node stays.
PutNode(n, shape) ==
    /\ stage = "draft"
    /\ nodes' = [nodes EXCEPT ![n] = shape]
    /\ UNCHANGED <<stage, edges, rules, evidence>>

PutEdge(e, from, to) ==
    /\ stage = "draft"
    /\ {from, to} \subseteq Present
    /\ edges' = [edges EXCEPT ![e] = <<from, to>>]
    /\ UNCHANGED <<stage, nodes, rules, evidence>>

PutRule(r) ==
    /\ stage = "draft"
    /\ rules' = rules \cup {r}
    /\ UNCHANGED <<stage, nodes, edges, evidence>>

\* The requirement and its capability contracts, one of them primary.
PutEvidence(n, level) ==
    /\ stage = "draft"
    /\ n \in Present
    /\ evidence' = [evidence EXCEPT ![n] = level]
    /\ UNCHANGED <<stage, nodes, edges, rules>>

\* Mutant: only the edges that leave a node depend on it.
DependentsOut(n) == {e \in Drawn : n = edges[e][1]}

Dependents(n) == {e \in Drawn : n \in {edges[e][1], edges[e][2]}}

DeleteNode(n) ==
    /\ stage = "draft" /\ n \in Present
    /\ Dependents(n) = {} /\ evidence[n] = "none"
    /\ nodes' = [nodes EXCEPT ![n] = NoNode]
    /\ UNCHANGED <<stage, edges, rules, evidence>>

DeleteEdge(e) ==
    /\ stage = "draft" /\ e \in Drawn
    /\ edges' = [edges EXCEPT ![e] = NoEdge]
    /\ UNCHANGED <<stage, nodes, rules, evidence>>

DeleteRule(r) ==
    /\ stage = "draft" /\ r \in rules
    /\ rules' = rules \ {r}
    /\ UNCHANGED <<stage, nodes, edges, evidence>>

DeleteEvidence(n) ==
    /\ stage = "draft" /\ evidence[n] # "none"
    /\ evidence' = [evidence EXCEPT ![n] = "none"]
    /\ UNCHANGED <<stage, nodes, edges, rules>>

-------------------------------------------------------------------------------
(****************************************************************************)
(* Review and publication of what was written.                              *)
(****************************************************************************)
Submit ==
    /\ stage = "draft" /\ AnalysisPasses
    /\ stage' = "in_review"
    /\ UNCHANGED <<nodes, edges, rules, evidence>>

Reject ==
    /\ stage = "in_review"
    /\ stage' = "draft"
    /\ UNCHANGED <<nodes, edges, rules, evidence>>

PublishContent ==
    /\ stage = "in_review" /\ AnalysisPasses
    /\ stage' = "published"
    /\ UNCHANGED <<nodes, edges, rules, evidence>>

\* A new draft version with copies of the children of the published one.
CloneChildren ==
    /\ stage = "published"
    /\ stage' = "draft"
    /\ UNCHANGED <<nodes, edges, rules, evidence>>

ContentNext ==
    \/ \E n \in Node, shape \in NodeShape : PutNode(n, shape)
    \/ \E e \in Edge, from \in Node, to \in Node : PutEdge(e, from, to)
    \/ \E r \in Rule : PutRule(r) \/ DeleteRule(r)
    \/ \E n \in Node, level \in Level \ {"none"} : PutEvidence(n, level)
    \/ \E n \in Node : DeleteNode(n) \/ DeleteEvidence(n)
    \/ \E e \in Edge : DeleteEdge(e)
    \/ Submit \/ Reject \/ PublishContent \/ CloneChildren

ContentSpec == ContentInit /\ [][ContentNext]_contentVars

-------------------------------------------------------------------------------
ContentTypeOK ==
    /\ stage \in {"draft", "in_review", "published"}
    /\ nodes \in [Node -> NodeShape \cup {NoNode}]
    /\ edges \in [Edge -> (Node \X Node) \cup {NoEdge}]
    /\ rules \subseteq Rule
    /\ evidence \in [Node -> Level]

\* No sequence of puts and deletes leaves an edge or an evidence requirement of
\* a node that does not exist: foreign keys are not declared on these tables.
NothingDangles ==
    /\ \A e \in Drawn : {edges[e][1], edges[e][2]} \subseteq Present
    /\ \A n \in Node : evidence[n] # "none" => n \in Present

\* What a node leads to: whatever no set avoids that is closed under the edges
\* and holds the targets of the node's own.
Arrows == {edges[e] : e \in Drawn}
Leads ==
    LET arrows == Arrows
        closed == {S \in SUBSET Node : \A r \in arrows : r[1] \in S => r[2] \in S}
    IN  {p \in Node \X Node :
            \A S \in closed : (\A r \in arrows : r[1] = p[1] => r[2] \in S) => p[2] \in S}

\* A content under review or published is a causal graph the algorithm can
\* propagate along: acyclic, every node leads to the one entry point, which is
\* the diagnostic target, and every observable node has required evidence.
ReviewedIsSound ==
    stage # "draft" =>
        /\ LET leads == Leads
           IN /\ \A n \in Node : <<n, n>> \notin leads
              /\ \A n \in Present \ {Target} : <<n, Target>> \in leads
        /\ {n \in Present : nodes[n].entry} = {Target}
        /\ \A n \in Present : nodes[n].observable => evidence[n] = "required"

\* The two graph searches of the analysis agree with the closure in every
\* graph that the commands can draw, also in those that do not pass.
SearchesExact ==
    LET leads == Leads
        next == Adjacency
    IN /\ HasCycle(next) <=> \E n, m \in Present : n # m /\ <<n, m>> \in leads /\ <<m, n>> \in leads
       /\ \A n, m \in Present : Reaches(next, n, m) <=> n = m \/ <<n, m>> \in leads

\* The graph of the draft never dangles and is sound once it is reviewed, and the
\* searches of the analysis are exact.  The searches look at nodes and edges
\* only, whatever evidence and rules there are.
DraftIsSound ==
    /\ NothingDangles /\ ReviewedIsSound
    /\ rules = {} /\ evidence = [n \in Node |-> "none"] => SearchesExact
===============================================================================
