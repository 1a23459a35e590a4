----------------------------- MODULE MCFlowExec ------------------------------
(****************************************************************************)
(* Small flows for FlowPaths: start st, last node en and a, b, c between    *)
(* them, one graph per shape that matters, every assignment of node types,  *)
(* registry types and compensations that the shape allows.                  *)
(****************************************************************************)
EXTENDS FlowPaths

CONSTANTS st, a, b, c, en

MCNode == {st, a, b, c, en}
Middle == {a, b, c}

go(x, y) == [source |-> x, target |-> y, handle |-> ""]
on(h, x, y) == [source |-> x, target |-> y, handle |-> h]

\* A graph of the given shape; its conditions read the output of a.
Graph(edges, type, op, comp) ==
    [ids   |-> <<st, a, b, c, en>>,
     type  |-> [n \in MCNode |-> CASE n = st -> "start" [] n = en -> "end" [] OTHER -> type[n]],
     edges |-> edges,
     left  |-> [n \in MCNode |-> a],
     op    |-> [n \in MCNode |-> op],
     comp  |-> comp]

\* The compiled graph with the registry facts of its capabilities.
Flow(g, command, undo) ==
    CompiledWorkflow(g) @@ [command |-> command, undo |-> undo, cut |-> FALSE, graph |-> g]

\* Every way to type a, b, c with the types T[a], T[b], T[c].
Typings(T) == {t \in [Middle -> UNION {T[n] : n \in Middle}] : \A n \in Middle : t[n] \in T[n]}
Steps(t, T) == {n \in Middle : t[n] \in T}

\* Every choice of commands among the capabilities.
WithCommands(edges, T, op) ==
    UNION {{Flow(Graph(edges, t, op, {}), cmd, {}) : cmd \in SUBSET Steps(t, {"capability", "step"})} :
           t \in Typings(T)}

\* Every choice of compensations, none of the capabilities a command unless in cmd.
WithCompensations(edges, T, op, cmd) ==
    UNION {{Flow(Graph(edges, t, op, cs), cmd, us) :
               cs \in SUBSET Steps(t, {"step"}), us \in SUBSET Steps(t, {"capability"})} :
           t \in Typings(T)}

-------------------------------------------------------------------------------
(****************************************************************************)
(* Shapes.                                                                  *)
(****************************************************************************)
Chain == <<go(st, a), go(a, b), go(b, c), go(c, en)>>
\* b is a condition between c and en.
Fork == <<go(st, a), go(a, b), on("true", b, c), on("false", b, en), go(c, en)>>
\* a's error edge leads around b to c.
ErrorFirst == <<go(st, a), go(a, b), on("error", a, c), go(b, en), go(c, en)>>
\* a's error edge leads to the end, its success through b and c.
ErrorOut == <<go(st, a), go(a, b), on("error", a, en), go(b, c), go(c, en)>>
\* b's error edge leads to c, its success to the end.
ErrorLater == <<go(st, a), go(a, b), go(b, en), on("error", b, c), go(c, en)>>

plain == {"llm", "capability"}
any == plain \cup {"human_approval"}

\* Runs that suspend, no error edge, no compensation.
SuspendingFlows ==
    WithCommands(Chain, [n \in Middle |-> any], "exists")
    \cup UNION {WithCommands(Fork, [n \in Middle |-> IF n = b THEN {"condition"} ELSE any], op) :
                op \in {"exists", "compare"}}

\* Error edges, suspensions, no compensation.
ErrorEdgeFlows ==
    UNION {WithCommands(shape, [n \in Middle |-> any], "exists") : shape \in {ErrorFirst, ErrorOut, ErrorLater}}

\* Compensations and error edges, nothing to approve.
CompensatedFlows ==
    UNION {WithCompensations(shape, [n \in Middle |-> {"step", "capability"}], "exists", {}) :
           shape \in {Chain, ErrorFirst, ErrorOut, ErrorLater}}

\* A bit of everything, with turns that may be cut off at any step.
Interrupted(flows) == {[f EXCEPT !.cut = TRUE] : f \in flows}
gated == {"capability", "human_approval"}
CutFlows ==
    Interrupted(WithCommands(ErrorLater, [n \in Middle |-> IF n = a THEN gated ELSE {"capability"}], "exists")
        \cup WithCommands(Fork, [n \in Middle |-> IF n = b THEN {"condition"} ELSE {"capability"}], "exists")
        \cup WithCompensations(Chain, [n \in Middle |-> IF n = b THEN {"capability"} ELSE {"step"}], "exists", {b})
        \cup WithCompensations(ErrorLater, [n \in Middle |-> {"step"}], "exists", {b, c}))

\* Compensations in runs that wait between b and c, or for the command b, and a
\* condition that may fail.
SuspendedSagas ==
    UNION {WithCompensations(shape, [n \in Middle |-> IF n = b THEN {"step"} \cup gated ELSE {"step"}], "exists", {b}) :
           shape \in {Chain, ErrorFirst, ErrorLater}}
    \cup WithCompensations(Fork, [n \in Middle |-> IF n = b THEN {"condition"} ELSE {"step"}], "compare", {})

AllFlows == SuspendingFlows \cup CompensatedFlows \cup ErrorEdgeFlows \cup CutFlows \cup SuspendedSagas

\* One flow: what a does can be undone, b waits for a human, c may fail.
OneSaga == {f \in SuspendedSagas : f.graph.edges = Chain /\ f.type[b] = "human_approval" /\ f.comp = {a}}

-------------------------------------------------------------------------------
(****************************************************************************)
(* The promise of FlowPaths that holds of some flows only.                  *)
(****************************************************************************)
HasErrorEdge == \E e \in Elements(flow.graph.edges) : e.handle = "error"
Whole == ~flow.cut /\ ~(HasErrorEdge /\ Suspending(flow))

\* A run that is not cut off and does not mix error edges with suspensions
\* completes along the path its decisions take.
WholeRunsTakePath == Whole => CompletedTookPath
==============================================================================
