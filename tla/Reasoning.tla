------------------------------- MODULE Reasoning ------------------------------
(****************************************************************************)
(* A diagnosis on a compiled blueprint: Prepare resolves the targets of the *)
(* evidence requirements in the ABox and pins them in a context, the        *)
(* evidence is acquired, Evaluate propagates signs along the pinned graph   *)
(* and ranks the causes, and the result is archived, which consumes the     *)
(* context.  Prepare, Evaluate and the archive are one transaction each;    *)
(* between them the ABox and the blueprint change, the context is cancelled *)
(* or expires, and other workers evaluate the same context.                 *)
(*                                                                          *)
(* The score of a path is a product of strengths and confidences; here an   *)
(* edge has a cost, the negated logarithm of its factor, and costs add up.  *)
(****************************************************************************)
EXTENDS Naturals, Sequences, FiniteSets, FiniteSetsExt

CONSTANTS
    Factor,     \* nodes of the causal graph
    Goal,       \* the effect node
    Cause,      \* the nodes of role cause
    Needed,     \* the nodes with a required evidence requirement
    Graphs,     \* snapshots: sets of edges [from, to, effect, cost]
    MaxDepth,   \* of the pinned algorithm profile
    Related,    \* the nodes bound by an outbound relation; the others by the goal entity
    Entity,     \* entities of the ABox
    Observed,   \* acquisition records that may come out, see Record
    Prepared,   \* prepare identities: blueprint version, goal and time window
    Worker,     \* callers that evaluate
    NoContext

ASSUME ReasoningConstants ==
    /\ Goal \in Factor \ Cause /\ Cause \subseteq Factor /\ Needed \subseteq Factor
    /\ Related \subseteq Cause \cup {Goal}
    /\ MaxDepth \in Nat \ {0}

Required == Cause \cup {Goal}   \* the nodes with a requirement

VARIABLES
    snapshot,   \* the graph of the blueprint's source snapshot
    compiled,   \* the blueprint version is the compiled one
    targets,    \* active facts: the entities the relation of each requirement leads to
    contexts,   \* reasoning_contexts: [status, bound, late] of each identity
    traces,     \* reasoning_traces: [records, status, ranking, bound] of each identity with a trace
    diagnosing  \* [pc, id, records, result] of each worker

reasoningVars == <<snapshot, compiled, targets, contexts, traces, diagnosing>>

Resting == [pc |-> "rest", id |-> NoContext, records |-> <<>>, result |-> NoContext]

ReasoningInit ==
    /\ snapshot \in Graphs /\ compiled = TRUE
    /\ targets \in [Related -> {{x} : x \in Entity}]
    /\ contexts = [i \in Prepared |-> NoContext] /\ traces = [i \in {} |-> NoContext]
    /\ diagnosing = [w \in Worker |-> Resting]

-------------------------------------------------------------------------------
(****************************************************************************)
(* Sign propagation.                                                        *)
(****************************************************************************)
\* The simple paths from a node to the goal, as sequences of edges.
EdgePaths(graph, from) ==
    LET visit[n \in Factor, visited \in SUBSET Factor, depth \in 0..MaxDepth + 1] ==
            IF depth > MaxDepth THEN {}
            ELSE IF n = Goal THEN {<<>>}
            ELSE UNION {{<<e>> \o path : path \in visit[e.to, visited \cup {e.to}, depth + 1]} :
                        e \in {e \in graph : e.from = n /\ e.to \notin visited}}
    IN visit[from, {from}, 0] \ {<<>>}

Propagate(direction, effect) ==
    IF effect = "+" THEN direction ELSE IF direction = "up" THEN "down" ELSE "up"

PathCost(path) == MapThenSumSet(LAMBDA k : path[k].cost, DOMAIN path)
PathSign(path, direction) ==
    IF Cardinality({k \in DOMAIN path : path[k].effect = "-"}) % 2 = 0 THEN direction
    ELSE Propagate(direction, "-")

Moving == {"up", "down"}

\* A path that contradicts the observed goal is vetoed; of the others the one
\* with the best score counts, and of these the shortest.
BestPath(graph, records, n) ==
    LET supporting == {p \in EdgePaths(graph, n) : PathSign(p, records[n]) = records[Goal]}
    IN IF supporting = {} THEN <<>>
       ELSE CHOOSE p \in supporting : \A q \in supporting :
                \/ PathCost(p) < PathCost(q)
                \/ PathCost(p) = PathCost(q) /\ Len(p) <= Len(q)

\* The causes that move, with the cost and the length of their best path.
Ranking(graph, records) ==
    {[node |-> n, cost |-> PathCost(BestPath(graph, records, n)), hops |-> Len(BestPath(graph, records, n))] :
        n \in {n \in Cause : records[n] \in Moving /\ BestPath(graph, records, n) # <<>>}}

\* What one acquisition ends with: a direction of the observed value under the
\* rule of its node, no data, or a failure of the infrastructure.
Record == Moving \cup {"unchanged", "data_unavailable", "failed"}

Result(status, ranking) == [status |-> status, ranking |-> ranking]

\* The pinned graph can only be evaluated if the effect was seen to move.
Evaluable(records) ==
    \/ \E n \in Required : records[n] = "failed"
    \/ \E n \in Needed : records[n] = "data_unavailable"
    \/ records[Goal] \in Moving

EvaluateGraph(graph, records) ==
    LET missing == {n \in Required : records[n] = "data_unavailable"}
        ranking == Ranking(graph, records)
    IN IF \E n \in Required : records[n] = "failed" THEN Result("BLOCKED", {})
       ELSE IF missing \cap Needed # {} THEN Result("FAILED", {})
       ELSE IF ranking = {} THEN Result("FAILED", {})
       ELSE Result(IF missing # {} THEN "PARTIAL" ELSE "COMPLETE", ranking)

\* The rows of reasoning_contexts.
ContextRow == [status : {"prepared", "consumed", "expired", "cancelled"}, bound : [Related -> SUBSET Entity], late : BOOLEAN]

ASSUME NoContextConstant == NoContext \notin ContextRow

-------------------------------------------------------------------------------
(****************************************************************************)
(* The surroundings change.                                                 *)
(****************************************************************************)
FactsChange(n, found) ==
    /\ targets[n] # found
    /\ targets' = [targets EXCEPT ![n] = found]
    /\ UNCHANGED <<snapshot, compiled, contexts, traces, diagnosing>>

BlueprintSuperseded ==
    /\ compiled /\ compiled' = FALSE
    /\ UNCHANGED <<snapshot, targets, contexts, traces, diagnosing>>

ExpiryPasses(i) ==
    /\ contexts[i] # NoContext /\ ~contexts[i].late
    /\ contexts' = [contexts EXCEPT ![i].late = TRUE]
    /\ UNCHANGED <<snapshot, compiled, targets, traces, diagnosing>>

-------------------------------------------------------------------------------
(****************************************************************************)
(* The services.                                                            *)
(****************************************************************************)
\* Every binding has to find exactly one target.  A context that is there is
\* returned if it is prepared, and refuses its identity for ever if it is not.
Prepare(i) ==
    /\ compiled /\ contexts[i] = NoContext
    /\ \A n \in Related : Cardinality(targets[n]) = 1
    /\ contexts' = [contexts EXCEPT ![i] = [status |-> "prepared", bound |-> targets, late |-> FALSE]]
    /\ UNCHANGED <<snapshot, compiled, targets, traces, diagnosing>>

\* Reading a context expires it if it is late; nothing else does.
GetContext(i) ==
    /\ contexts[i] # NoContext /\ contexts[i].status = "prepared" /\ contexts[i].late
    /\ contexts' = [contexts EXCEPT ![i].status = "expired"]
    /\ UNCHANGED <<snapshot, compiled, targets, traces, diagnosing>>

CancelContext(i) ==
    /\ contexts[i] # NoContext /\ contexts[i].status = "prepared"
    /\ contexts' = [contexts EXCEPT ![i].status = "cancelled"]
    /\ UNCHANGED <<snapshot, compiled, targets, traces, diagnosing>>

\* One record for every requirement of the context; the plan's acquisitions
\* have all reached a terminal state.
Acquire(w, i, records) ==
    /\ diagnosing[w] = Resting /\ contexts[i] # NoContext
    /\ diagnosing' = [diagnosing EXCEPT ![w] =
           [pc |-> "acquired", id |-> i, records |-> records, result |-> NoContext]]
    /\ UNCHANGED <<snapshot, compiled, targets, contexts, traces>>

Evaluate(w) ==
    LET i == diagnosing[w].id
        row == diagnosing[w]
        records == row.records
    IN /\ row.pc = "acquired"
       /\ diagnosing' = [diagnosing EXCEPT ![w] =
              IF contexts[i].status = "prepared" /\ Evaluable(records)
              THEN [row EXCEPT !.pc = "evaluated", !.result = EvaluateGraph(snapshot, records)]
              ELSE Resting]
       /\ UNCHANGED <<snapshot, compiled, targets, contexts, traces>>

\* Mutant: the targets as they are now.
TraceNow(w) ==
    LET x == diagnosing[w]
    IN [records |-> x.records, bound |-> targets, status |-> x.result.status, ranking |-> x.result.ranking]

\* The row of a trace.
TraceOf(w) ==
    LET x == diagnosing[w]
    IN [records |-> x.records, bound |-> contexts[x.id].bound, status |-> x.result.status, ranking |-> x.result.ranking]

\* The context is locked.  With a trace of the same input the archive is
\* reused, with another one it is refused, and a context that was cancelled or
\* expired after the evaluation refuses it too.
Archive(w) ==
    LET i == diagnosing[w].id
    IN /\ diagnosing[w].pc = "evaluated"
       /\ IF i \notin DOMAIN traces /\ contexts[i].status = "prepared"
          THEN /\ traces' = [k \in DOMAIN traces \cup {i} |-> IF k = i THEN TraceOf(w) ELSE traces[k]]
               /\ contexts' = [contexts EXCEPT ![i].status = "consumed"]
          ELSE UNCHANGED <<traces, contexts>>
       \* The caller is done, or has lost the answer and archives again.
       /\ diagnosing' \in {diagnosing, [diagnosing EXCEPT ![w] = Resting]}
       /\ UNCHANGED <<snapshot, compiled, targets>>

WorkerLost(w) ==
    /\ diagnosing[w] # Resting
    /\ diagnosing' = [diagnosing EXCEPT ![w] = Resting]
    /\ UNCHANGED <<snapshot, compiled, targets, contexts, traces>>

DiagnosisStep(observed) ==
    \/ \E i \in Prepared : Prepare(i)
    \/ \E w \in Worker :
          \/ \E i \in Prepared, records \in observed : Acquire(w, i, records)
          \/ Evaluate(w)

ReasoningNext ==
    \/ DiagnosisStep(Observed)
    \/ \E n \in Related, found \in SUBSET Entity : FactsChange(n, found)
    \/ BlueprintSuperseded
    \/ \E i \in Prepared : ExpiryPasses(i) \/ GetContext(i) \/ CancelContext(i)
    \/ \E w \in Worker : Archive(w) \/ WorkerLost(w)

ReasoningSpec == ReasoningInit /\ [][ReasoningNext]_reasoningVars

-------------------------------------------------------------------------------
ReasoningTypeOK ==
    /\ compiled \in BOOLEAN /\ targets \in [Related -> SUBSET Entity]
    /\ \A i \in Prepared : contexts[i] # NoContext =>
          contexts[i].status \in {"prepared", "consumed", "expired", "cancelled"}
    /\ \A w \in Worker : diagnosing[w].pc \in {"rest", "acquired", "evaluated"}

\* A trace is the one and only outcome of its context: it is there exactly when
\* the context is consumed, it is bound to the targets the context was prepared
\* with, whatever the ABox has become since, and it can be recomputed from what
\* it stores alone.
TraceExplainsItself ==
    \A i \in Prepared :
        /\ i \in DOMAIN traces <=> contexts[i] # NoContext /\ contexts[i].status = "consumed"
        /\ i \in DOMAIN traces =>
              LET t == traces[i]
              IN /\ t.bound = contexts[i].bound /\ \A n \in Related : Cardinality(t.bound[n]) = 1
                 /\ Result(t.status, t.ranking) = EvaluateGraph(snapshot, t.records)

\* No step leaves a context that was consumed, cancelled or expired, and none
\* changes what a context has pinned or a trace has stored.
ContextsArePinned ==
    [][\A i \in Prepared :
          /\ contexts[i] # NoContext =>
                /\ contexts'[i].bound = contexts[i].bound
                /\ contexts[i].status # "prepared" => contexts'[i].status = contexts[i].status
          /\ i \in DOMAIN traces => i \in DOMAIN traces' /\ traces'[i] = traces[i]]_reasoningVars

\* The least cost of a walk from n to the goal with the given parity of
\* negative edges and at most k edges, by dynamic programming; Far if none.
Far == 1000
Cheapest(graph, n, odd) ==
    LET best[k \in 0..MaxDepth, m \in Factor, parity \in BOOLEAN] ==
            IF m = Goal THEN IF parity THEN Far ELSE 0
            ELSE IF k = 0 THEN Far
            ELSE Min({Far} \cup {e.cost + best[k - 1, e.to, parity # (e.effect = "-")] :
                                    e \in {e \in graph : e.from = m}})
    IN best[MaxDepth, n, odd]

\* The search for simple paths ranks a cause exactly when some walk of at most
\* MaxDepth edges explains the goal's direction by its own, at the cost of the
\* cheapest one.
RankingExact ==
    \A w \in Worker : diagnosing[w].pc = "evaluated" /\ diagnosing[w].result.status \in {"COMPLETE", "PARTIAL"} =>
        LET records == diagnosing[w].records
            cost(n) == Cheapest(snapshot, n, records[n] # records[Goal])
        IN {<<r.node, r.cost>> : r \in diagnosing[w].result.ranking}
               = {<<n, cost(n)>> : n \in {n \in Cause : records[n] \in Moving /\ cost(n) < Far}}
===============================================================================
