--------------------------- MODULE BlueprintPlanning ---------------------------
(****************************************************************************)
(* The way of a request into a diagnosis: the entry finds the one compiled  *)
(* blueprint of the intent, checks who asks about what, and pins what is    *)
(* published of the dataset; Prepare pins the targets; the projection makes *)
(* a plan of tasks from the pinned context; the tasks run one after the     *)
(* other, and their records go to Evaluate and the archive.  Each step is a *)
(* transaction of its own, and between two of them blueprints are compiled, *)
(* facts change, datasets are published and contexts are cancelled.         *)
(*                                                                          *)
(* The identities of contexts differ in the pinned revision of the dataset, *)
(* so that a context is named by it.                                        *)
(****************************************************************************)
EXTENDS Reasoning

CONSTANTS
    Order,      \* the required nodes, in the order of their requirement keys
    Site,       \* the goal entity
    Providers,  \* [revision -> [node -> how many providers of its manifest serve it]]
    Rows        \* [<<revision, node, target>> -> what its rows show]

ASSUME PlanningConstants ==
    /\ Order \in Seq(Required) /\ \A n \in Required : \E k \in DOMAIN Order : Order[k] = n
    /\ \A j, k \in DOMAIN Order : Order[j] = Order[k] => j = k
    /\ Site \notin Entity
    /\ \A r \in Prepared, n \in Required, x \in Entity \cup {Site} : Rows[r, n, x] \in Record \ {"failed"}

VARIABLES
    rival,      \* another blueprint with the intent is compiled
    known,      \* the role exists and the goal entity is active
    published,  \* the revision of the dataset that is published
    planning    \* [pc, pin, tasks, records] of each worker

blueprintVars == <<rival, known, published, planning>>

NotPlanning == [pc |-> "off", pin |-> NoContext, tasks |-> <<>>, records |-> <<>>]

PlanningInit ==
    /\ rival = FALSE /\ known = TRUE /\ published \in Prepared
    /\ planning = [w \in Worker |-> NotPlanning]

-------------------------------------------------------------------------------
\* The surroundings of the entry change.
SurroundingsChange ==
    /\ rival' \in BOOLEAN /\ known' \in BOOLEAN /\ (known' \/ ~rival')
    /\ UNCHANGED <<published, planning>> /\ UNCHANGED reasoningVars

\* A publication brings the facts of its revision with it.
Publish(r) ==
    /\ published' = r
    /\ \E n \in Related, found \in SUBSET Entity : targets' = [targets EXCEPT ![n] = found]
    /\ UNCHANGED <<rival, known, planning, snapshot, compiled, contexts, traces, diagnosing>>

\* A worker goes on to the next step, or its request is refused.
Proceed(w, next) ==
    /\ planning' = [planning EXCEPT ![w] = next]
    /\ UNCHANGED <<rival, known, published>>

-------------------------------------------------------------------------------
(****************************************************************************)
(* The entry.                                                               *)
(****************************************************************************)
\* None or more than one match is refused.
DiscoverBlueprint(w) ==
    /\ planning[w] = NotPlanning /\ diagnosing[w] = Resting
    /\ compiled /\ ~rival
    /\ Proceed(w, [NotPlanning EXCEPT !.pc = "found"])
    /\ UNCHANGED reasoningVars

ValidateRoleAndTarget(w) ==
    /\ planning[w].pc = "found"
    /\ Proceed(w, IF known THEN [planning[w] EXCEPT !.pc = "checked"] ELSE NotPlanning)
    /\ UNCHANGED reasoningVars

PinDataset(w) ==
    /\ planning[w].pc = "checked"
    /\ Proceed(w, [planning[w] EXCEPT !.pc = "entered", !.pin = published])
    /\ UNCHANGED reasoningVars

\* A prepared context of the same identity is used again; one that is not
\* prepared any more refuses it, and so does a target that is not found.
PrepareEntered(w) ==
    LET i == planning[w].pin
        admits == compiled /\ known
    IN /\ planning[w].pc = "entered"
       /\ IF admits /\ contexts[i] = NoContext /\ \A n \in Related : Cardinality(targets[n]) = 1
          THEN Prepare(i) /\ Proceed(w, [planning[w] EXCEPT !.pc = "prepared"])
          ELSE /\ UNCHANGED reasoningVars
               /\ Proceed(w, IF admits /\ contexts[i] # NoContext /\ contexts[i].status = "prepared"
                             THEN [planning[w] EXCEPT !.pc = "prepared"] ELSE NotPlanning)

-------------------------------------------------------------------------------
(****************************************************************************)
(* The plan.                                                                *)
(****************************************************************************)
\* The manifest binds a node to its one provider; an optional one may stay
\* unbound, and is a task all the same.
Bindable(r) ==
    \A n \in Required : Providers[r][n] = 1 \/ (Providers[r][n] = 0 /\ n \notin Needed)

TargetOf(bound, n) == IF n \in Related THEN CHOOSE x \in Entity : bound[n] = {x} ELSE Site

TasksOf(r, bound) ==
    [k \in DOMAIN Order |->
        [node |-> Order[k], target |-> TargetOf(bound, Order[k]), served |-> Providers[r][Order[k]] = 1]]

\* Mutant: the targets are resolved again.
ProjectAfresh(w) ==
    LET i == planning[w].pin
        fits == contexts[i].status = "prepared" /\ Bindable(i) /\ \A n \in Related : Cardinality(targets[n]) = 1
    IN /\ planning[w].pc = "prepared"
       /\ Proceed(w, IF fits THEN [planning[w] EXCEPT !.pc = "planned", !.tasks = TasksOf(i, targets)]
                     ELSE NotPlanning)
       /\ UNCHANGED reasoningVars

\* The acquisitions in order; the evaluation depends on all of them, the output
\* on the evaluation.
Project(w) ==
    LET i == planning[w].pin
    IN /\ planning[w].pc = "prepared"
       /\ Proceed(w, IF contexts[i].status = "prepared" /\ Bindable(i)
                     THEN [planning[w] EXCEPT !.pc = "planned", !.tasks = TasksOf(i, contexts[i].bound)]
                     ELSE NotPlanning)
       /\ UNCHANGED reasoningVars

\* What an acquisition of the pinned revision ends with, unless it fails.
Outcome(r, task) ==
    IF task.served THEN Rows[r, task.node, task.target] ELSE "data_unavailable"

\* The next task runs; with the last record the evaluation has what it needs.
\* A revision that cannot be read fails the task after its retries.
AcquireNext(w) ==
    LET i == planning[w].pin
        task == planning[w].tasks[Len(planning[w].records) + 1]
    IN /\ planning[w].pc = "planned"
       /\ \E outcome \in {Outcome(i, task), "failed"} :
             LET records == Append(planning[w].records, outcome)
                 complete == Len(records) = Len(planning[w].tasks)
             IN IF complete
                THEN /\ Acquire(w, i, [n \in Required |-> records[CHOOSE k \in DOMAIN Order : Order[k] = n]])
                     /\ Proceed(w, NotPlanning)
                ELSE /\ Proceed(w, [planning[w] EXCEPT !.records = records])
                     /\ UNCHANGED reasoningVars

PlannerLost(w) ==
    /\ planning[w] # NotPlanning
    /\ Proceed(w, NotPlanning)
    /\ UNCHANGED reasoningVars

PlanningNext ==
    \/ SurroundingsChange
    \/ \E r \in Prepared : Publish(r)
    \/ \E w \in Worker :
          \/ DiscoverBlueprint(w) \/ ValidateRoleAndTarget(w) \/ PinDataset(w) \/ PrepareEntered(w)
          \/ Project(w) \/ AcquireNext(w) \/ PlannerLost(w)
    \/ /\ \/ BlueprintSuperseded
          \/ \E n \in Related, found \in SUBSET Entity : FactsChange(n, found)
          \/ \E i \in Prepared : ExpiryPasses(i) \/ GetContext(i) \/ CancelContext(i)
          \/ \E w \in Worker : Evaluate(w) \/ Archive(w) \/ WorkerLost(w)
       /\ UNCHANGED blueprintVars

PlanningSpec == PlanningInit /\ ReasoningInit /\ [][PlanningNext]_<<reasoningVars, blueprintVars>>

-------------------------------------------------------------------------------
\* Two plans on one context are the same plan.  The archive of a diagnosis shows
\* for every node what the pinned revision holds of the target that Prepare has
\* bound, or that its acquisition failed, whatever was published and whatever
\* the facts became since; and nothing is evaluated whose evidence could not be
\* bound in that revision.
TraceShowsWhatWasPinned ==
    /\ \A v \in Worker, w \in Worker :
          planning[v].pc = "planned" /\ planning[w].pc = "planned" /\ planning[v].pin = planning[w].pin =>
              planning[v].tasks = planning[w].tasks
    /\ \A i \in DOMAIN traces :
          /\ Bindable(i)
          /\ \A k \in DOMAIN Order :
                traces[i].records[Order[k]] \in {Outcome(i, TasksOf(i, traces[i].bound)[k]), "failed"}
===============================================================================
