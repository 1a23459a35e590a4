----------------------------- MODULE FlowCompile -----------------------------
(****************************************************************************)
(* Compiling a flow_schema: from any declared graph to the linear plan that *)
(* the executor walks, or to a rejection.  The compiler is a function, so   *)
(* the machine has one step; what is checked is the plan it produces,       *)
(* against definitions that share nothing with the algorithm: reachability  *)
(* for the order, cuts for the gates, paths actually taken for skipping.    *)
(****************************************************************************)
EXTENDS FlowGraph

CONSTANT Graphs     \* the declared graphs a flow author may submit

\* Nodes and edges are lists, no id is there twice and every type is known; an
\* edge may still name nodes that do not exist.
ASSUME GraphsAssumption ==
    \A g \in Graphs :
        /\ g.ids \in Seq(NodesOf(g)) /\ IsInjective(g.ids)
        /\ g.type \in [NodesOf(g) -> NodeType]
        /\ g.edges \in Seq(ToSet(g.edges))

VARIABLES graph,    \* the flow_schema submitted
          verdict,  \* "pending", then "accepted" or "rejected"
          plan      \* the CompiledWorkflow, once accepted
compileVars == <<graph, verdict, plan>>

CompileInit == graph \in Graphs /\ verdict = "pending" /\ plan = <<>>

Accept ==
    /\ verdict = "pending"
    /\ Compilable(graph)
    /\ verdict' = "accepted"
    /\ plan' = CompiledWorkflow(graph)
    /\ UNCHANGED graph

Reject ==
    /\ verdict = "pending"
    /\ ~Compilable(graph)
    /\ verdict' = "rejected"
    /\ UNCHANGED <<graph, plan>>

CompileNext == Accept \/ Reject
CompileSpec == CompileInit /\ [][CompileNext]_compileVars

Accepted == verdict = "accepted"

-------------------------------------------------------------------------------
(****************************************************************************)
(* Reference definitions.                                                   *)
(****************************************************************************)
Deciders == OfType(graph, {"condition"}) \cup ResultBranches(graph)

SidesOf(b) == IF graph.type[b] = "condition" THEN {"then", "else"} ELSE {"success", "error"}

\* A run's decisions: one side for every branch, as a set of labels.
Decisions == {{<<b, pick[b]>> : b \in Deciders} :
                pick \in {p \in [Deciders -> Side] : \A b \in Deciders : p[b] \in SidesOf(b)}}

\* The nodes on a path from start that takes only the decided sides.
Taken(outcome) ==
    Closure(graph, {Start(graph)},
            {e \in ToSet(graph.edges) : EdgeLabel(graph, e) \subseteq outcome})

\* The nodes whose gate the executor finds satisfied; a branch that is itself
\* gated away decides nothing.
Running(outcome) ==
    LET runs[n \in NodesOf(graph)] ==
            \A l \in plan.gate[n] : l \in outcome /\ runs[l[1]]
    IN  {n \in NodesOf(graph) : runs[n]}

Roots == {n \in NodesOf(graph) : Incoming(graph, n) = {}}

\* l lies on every way to n: without the edges labelled l nothing leads to n.
Separates(l, n) ==
    n \notin Closure(graph, Roots, {e \in ToSet(graph.edges) : l \notin EdgeLabel(graph, e)})

\* However the branches of n's gate go on, one of n's incoming contexts is met.
Covered(n) ==
    \A outcome \in Decisions :
        plan.gate[n] \subseteq outcome =>
            \/ Incoming(graph, n) = {}
            \/ \E e \in Incoming(graph, n) :
                  plan.gate[e.source] \cup EdgeLabel(graph, e) \subseteq outcome

Structured ==
    /\ OfType(graph, {"end"}) # {}
    /\ \A n \in NodesOf(graph) : Covered(n)

-------------------------------------------------------------------------------
\* The plan is pending, rejected, or gates each node by branches of the graph.
CompileTypeOK ==
    /\ verdict \in {"pending", "accepted", "rejected"}
    /\ Accepted => plan.gate \in [NodesOf(graph) -> SUBSET (Deciders \X Side)]

\* No graph with a cycle gets a plan, not even one without an end node, whose
\* shape validate_workflow does not look at, and Kahn's order is a topological
\* order of the executable nodes of the others: each appears once, after
\* everything that leads to it (_topo_order).
SequenceExact ==
    Accepted =>
        /\ \A n \in NodesOf(graph) :
               n \notin Closure(graph, {e.target : e \in Outgoing(graph, n)}, ToSet(graph.edges))
        /\ IsInjective(plan.sequence) /\ ToSet(plan.sequence) = plan.ids
        /\ \A i, j \in DOMAIN plan.sequence :
               plan.sequence[j] \in Closure(graph, {plan.sequence[i]}, ToSet(graph.edges)) => i <= j

\* The forward pass with intersections at the joins computes exactly the branch
\* sides that every path to the node must take (the meaning CompiledWorkflow's
\* docstring gives to a gate).
GateIsCut ==
    Accepted =>
        \A n \in NodesOf(graph) :
            plan.gate[n] = {l \in Deciders \X Side : Separates(l, n)}

\* Whatever is decided, no node on the path taken is skipped; and when every
\* join covers the sides it merges, no other node runs (a note, which nothing
\* leads to, has no gate and produces no item).
GatesFollowPath ==
    Accepted => \A outcome \in Decisions :
        /\ Taken(outcome) \subseteq Running(outcome)
        /\ Structured => Running(outcome) \ OfType(graph, {"note"}) = Taken(outcome)
==============================================================================
