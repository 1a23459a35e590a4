------------------------------ MODULE FlowGraph ------------------------------
(****************************************************************************)
(* The Chatflow declaration layer: what orchestrator/workflow_dsl.py does   *)
(* to a flow_schema before anything runs.  A graph is a record              *)
(*   ids    the node ids in declaration order (a duplicate-free sequence)   *)
(*   type   node id -> node type                                            *)
(*   edges  the edges in declaration order: [source, target, handle]        *)
(*   left   condition -> the node whose output it reads                     *)
(*   op     condition -> "exists" or "compare" (the seven comparing ops)    *)
(*   comp   the step nodes that carry a compensate_call                     *)
(* A missing sourceHandle is "".  "llm" stands for the node types that run  *)
(* an adapter unconditionally (llm, knowledge, chat_history, qu, tool).     *)
(* Node payloads, wording of errors and canvas data are left out.           *)
(****************************************************************************)
EXTENDS Integers, Sequences, FiniteSets, SequencesExt

NodeType == {"start", "end", "answer", "condition", "step", "capability",
             "human_approval", "llm", "mcp", "note"}
Handle == {"", "error", "true", "false"}
Side == {"then", "else", "success", "error"}

NodesOf(g) == ToSet(g.ids)
OfType(g, T) == {n \in NodesOf(g) : g.type[n] \in T}
Start(g) == CHOOSE n \in NodesOf(g) : g.type[n] = "start"
Incoming(g, n) == {e \in ToSet(g.edges) : e.target = n}
Outgoing(g, n) == {e \in ToSet(g.edges) : e.source = n}
Handles(g, n) == {e.handle : e \in Outgoing(g, n)}

(****************************************************************************)
(* Nodes reached from S along the edges E, S included.                      *)
(****************************************************************************)
Closure(g, S, E) ==
    LET sweep[i \in 0..Len(g.ids)] ==
            IF i = 0 THEN S
            ELSE LET seen == sweep[i-1]
                 IN  seen \cup {e.target : e \in {f \in E : f.source \in seen}}
    IN  sweep[Len(g.ids)]

Reversed(E) == {[source |-> e.target, target |-> e.source, handle |-> e.handle] : e \in E}

(****************************************************************************)
(* _topo_order: Kahn's algorithm with a FIFO queue.  kahn[i] is the state   *)
(* after i pops; a node is queued when its last incoming edge is removed.   *)
(****************************************************************************)
Relax(s, e) ==
    LET left == s.indeg[e.target] - 1
    IN  [s EXCEPT !.indeg = [@ EXCEPT ![e.target] = left],
                  !.queue = IF left = 0 THEN Append(@, e.target) ELSE @]

\* The members of s that are in S, in the order of s.
Among(s, S) ==
    LET kept[i \in 0..Len(s)] ==
            IF i = 0 THEN <<>>
            ELSE LET before == kept[i-1] IN IF s[i] \in S THEN Append(before, s[i]) ELSE before
    IN  kept[Len(s)]

\* The head of the queue is taken, then its edges in order of declaration.
Pop(g, s) ==
    LET node == Head(s.queue)
        relaxed[k \in 0..Len(g.edges)] ==
            IF k = 0 THEN [s EXCEPT !.queue = Tail(@), !.order = Append(@, node)]
            ELSE LET t == relaxed[k-1]
                 IN  IF g.edges[k].source = node THEN Relax(t, g.edges[k]) ELSE t
    IN  relaxed[Len(g.edges)]

Indegree(g, n) == Cardinality({k \in DOMAIN g.edges : g.edges[k].target = n})

\* Mutant: the plan keeps the order of declaration.
KahnOrderDeclared(g) == g.ids

KahnOrder(g) ==
    LET kahn[i \in 0..Len(g.ids)] ==
            IF i = 0
            THEN [indeg |-> [n \in NodesOf(g) |-> Indegree(g, n)], order |-> <<>>,
                  queue |-> Among(g.ids, {n \in NodesOf(g) : Indegree(g, n) = 0})]
            ELSE LET s == kahn[i-1] IN IF s.queue = <<>> THEN s ELSE Pop(g, s)
    IN  kahn[Len(g.ids)].order

HasTopoOrder(g) == Len(KahnOrder(g)) = Len(g.ids)

(****************************************************************************)
(* validate_workflow: the structural rules, one conjunct per rule.          *)
(****************************************************************************)
NodeRule(g, n) ==
    LET outs == Outgoing(g, n)
    IN  IF g.type[n] = "condition"
        THEN Cardinality(outs) = 2 /\ Handles(g, n) = {"true", "false"}
        ELSE /\ Cardinality(outs) <= 2
             /\ Cardinality(outs) = 2 => Handles(g, n) = {"", "error"}
             /\ Cardinality(outs) = 1 => Handles(g, n) # {"error"}

EndpointRules(g) ==
    /\ Cardinality(OfType(g, {"start"})) = 1
    /\ Cardinality(OfType(g, {"end"})) <= 1
    /\ OfType(g, {"end", "answer"}) # {}
    /\ \A n \in OfType(g, {"start", "note"}) : Incoming(g, n) = {}
    /\ \A n \in OfType(g, {"end", "answer", "note"}) : Outgoing(g, n) = {}
    /\ Len(g.ids) > 1 => Outgoing(g, Start(g)) # {}

EdgeRules(g) ==
    /\ \A e \in ToSet(g.edges) : e.source \in NodesOf(g) /\ e.target \in NodesOf(g)
    /\ \A e \in ToSet(g.edges) : e.source # e.target
    /\ IsInjective(g.edges)

\* Acyclicity and reachability are only looked at when the flow has an end node.
ShapeRules(g) ==
    OfType(g, {"end"}) # {} =>
        /\ HasTopoOrder(g)
        /\ LET E == ToSet(g.edges)
           IN  OfType(g, NodeType \ {"note"})
                   \subseteq Closure(g, {Start(g)}, E)
                             \cap Closure(g, OfType(g, {"end", "answer"}), Reversed(E))

ValidGraph(g) ==
    /\ EdgeRules(g)
    /\ EndpointRules(g)
    /\ \A n \in NodesOf(g) : NodeRule(g, n)
    /\ ShapeRules(g)

(****************************************************************************)
(* _compile_graph.  A branch is named by the node that decides it: a        *)
(* condition (cond:<id>) or a node with an error edge (result:<id>).        *)
(****************************************************************************)
ResultBranches(g) ==
    {n \in NodesOf(g) : "error" \in Handles(g, n)}

\* The branch labels an edge adds to the context of its source.
EdgeLabel(g, e) ==
    IF g.type[e.source] = "condition"
    THEN {<<e.source, IF e.handle = "true" THEN "then" ELSE "else">>}
    ELSE IF e.source \in ResultBranches(g)
         THEN {<<e.source, IF e.handle = "error" THEN "error" ELSE "success">>}
         ELSE {}

Contexts(g, gate, n) == {gate[e.source] \cup EdgeLabel(g, e) : e \in Incoming(g, n)}
Common(contexts) == {l \in UNION contexts : \A c \in contexts : l \in c}

\* Mutant: an edge adds no label to the context of its source.
MergedUnlabelled(g, gate, n) == Common({gate[e.source] : e \in Incoming(g, n)})

\* Mutant: a join unites its contexts.
MergedUnited(g, gate, n) == UNION Contexts(g, gate, n)

\* A join keeps what all of its incoming contexts have in common.
Merged(g, gate, n) == Common(Contexts(g, gate, n))

\* The forward pass, in Kahn's order.
Gates(g) ==
    LET order == KahnOrder(g)
        passed[i \in 0..Len(order)] ==
            IF i = 0 THEN [n \in NodesOf(g) |-> {}]
            ELSE LET gate == passed[i-1]
                 IN  [gate EXCEPT ![order[i]] = Merged(g, gate, order[i])]
    IN  passed[Len(order)]

\* start, end and note produce no execution item.
Executable == NodeType \ {"start", "end", "note"}

CapabilityCalls(g) == OfType(g, {"step", "capability"})

\* One human_approval node anywhere marks every capability call as approved.
AlreadyApproved(g) ==
    IF OfType(g, {"human_approval"}) # {} THEN CapabilityCalls(g) ELSE {}

CompiledWorkflow(g) ==
    [ids       |-> OfType(g, Executable),
     sequence  |-> Among(KahnOrder(g), OfType(g, Executable)),
     type      |-> g.type,
     gate      |-> Gates(g),
     branching |-> ResultBranches(g),
     approved  |-> AlreadyApproved(g),
     left      |-> g.left,
     op        |-> g.op,
     comp      |-> g.comp]

\* compile_flow_schema accepts: validated, ordered, every node type implemented.
Compilable(g) == ValidGraph(g) /\ HasTopoOrder(g) /\ OfType(g, {"mcp"}) = {}
==============================================================================
