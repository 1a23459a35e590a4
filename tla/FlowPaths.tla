------------------------------ MODULE FlowPaths ------------------------------
(****************************************************************************)
(* The executor against the graph it was compiled from: which nodes a run   *)
(* executes, compared with the path its decisions take through the graph,   *)
(* and against the promise its flow_runs row makes (RunLifecycle).          *)
(* A flow carries its graph in the extra field "graph".                     *)
(****************************************************************************)
EXTENDS FlowExec, FlowGraph

\* The nodes on the path the run's decisions take from start.
TakenPath ==
    LET G == flow.graph
        outcome == UNION {{<<n, d>> : d \in decided[n]} : n \in Node}
    IN  Closure(G, {Start(G)}, {e \in ToSet(G.edges) : EdgeLabel(G, e) \subseteq outcome})

StepsOf(f) == {n \in f.ids : f.type[n] # "condition"}

\* A completed run, however many turns it took, has a result for every step on
\* the path its decisions took, and for no other step: nothing taken is skipped
\* and nothing untaken is invoked.
CompletedTookPath ==
    status = "completed" =>
        {n \in StepsOf(flow) : pool[n] # NoResult} = StepsOf(flow) \cap TakenPath

\* A flow at which a run can wait for a human.
Suspending(f) ==
    \E i \in 1..Len(f.sequence) :
        \/ f.type[f.sequence[i]] = "human_approval"
        \/ f.sequence[i] \in f.command \ f.approved

\* A run whose turns may be cut off, or end rolled back, which cannot be stored,
\* and leave it waiting, to be answered again.
Torn(f) == f.cut \/ (f.comp \cup f.undo # {} /\ Suspending(f))

Run == INSTANCE RunLifecycle
    WITH phase <- IF row.status \in Over THEN "over" ELSE row.status,
         busy <- status # "idle",
         done <- [n \in Node |-> Cardinality({i \in DOMAIN effects : effects[i] = n})],
         torn <- Torn(flow)

\* The detailed run implements the life cycle its row shows.
ImplementsRunLifecycle == Run!Spec
==============================================================================
