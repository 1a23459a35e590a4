# EARP: TLA+ models, model checking and proofs

EARP is a server for enterprise reasoning applications. Its core program is
`src/apps/earp-server/src/earp_server` (below, `ES/`): a FastAPI application, a
PostgreSQL schema, a Redis-backed event stream, a job queue, a scheduler and
workers. This directory models the part of it that carries state over several
steps of several actors, together with the pure algorithms those steps rely on.

Everything said here about the program was translated from its code. A theorem
or a passing run therefore speaks of the program as far as the mapping of its
definitions to lines (`PROJECT.json`, `map`) is right; the abstractions are named
in the modules and in section 6.

## 1. Inventory

| Component (`ES/`) | State | Operations | What is hard | What makes it correct | Modules |
|---|---|---|---|---|---|
| Chatflow compiler (`orchestrator/workflow_dsl.py`) | none | validate, order, gate, compile | joins of nested branches, error edges, flows without an end | the order is topological; a node runs exactly on the paths that reach it | FlowGraph, FlowCompile |
| Plan executor (`orchestrator/multi_step.py`, `step_runner.py`, `compensation.py`) | pool, chosen sides, saga, position: the memory of one turn | walk, suspend, resume, roll back | what survives a suspension, what a failure undoes | decisions and completed nodes survive turns, a failure undoes what completed | FlowExec, FlowPaths |
| Capability gate (`connector.py`) | the approval in the context of a call | call, retry, plan with the model | an approval that pays twice, retries inside one execution | one execution per approval, and at most nine invocations of the adapter | FlowExec, CapabilityCalls |
| Turns (`conversation/chat_service.py`, `flow_runs.py`) | `flow_runs` | create, find waiting, update, finish, expire | parallel requests, three transactions per turn, no lock | one waiting run, final outcomes, no double execution | FlowExec, FlowRuns |
| Scheduler (`entrypoints/scheduler.py`), HTTP application (`main.py`, `main_v2.py`) | SSE tasks | timeout scan; dispatch, cancel on disconnect | scans racing turns; a turn cut off anywhere | every waiting run ends | FlowRuns, FlowExec |
| Conversations and apps (`conversation/*_service.py`) | messages, contexts, apps, categories, keys | automatic turn, edit, publish, classify, call | turns are not serialised; read and write in two transactions | the transcript is what was said; callers get what was published | ChatTurns, ChatApps |
| Evaluation runs (`ontology/eval_*.py`) with the task queue and workers (`infra/task_queue.py`, `entrypoints/worker.py`) | `eval_runs`, results, jobs | start, score, cancel, recover | cancel against finish, restart against TTL | an ended run stops, completed means complete, nothing is repeated without a retry | EvalRuns |
| Data source sync (`ontology/sync_jobs.py`, `import_service.py`, `connector_service.py`) | rule with heartbeat, entities, facts | trigger, copy row by row, recover; import a file, dry run | overlapping jobs, failures between the transactions of a row | every row is copied, once; an import does what its dry run said | DataSync, RelationFacts |
| ABox, enrichment, search (`ontology/abox_service.py`, `enrichment.py`, `search.py`) | entities, facts, profiles, timeline | upsert, revoke, compile, look up, rank | hooks that fail; reads and writes in two transactions | what is served as fresh is true; counts and fusions are exact | EntityProfiles, EvidenceRanking, RelationFacts |
| TBox (`ontology/tbox_service.py`) | types, relation types, change requests | propose, approve, reject, apply | stewards racing, writers of instances racing a move | requests tell what happened; instances follow their type; facts fit their relation | TBoxGovernance, RelationFacts |
| Questions (`ontology/understanding.py`, `planning.py`, `capability_query.py`) | a cache, the last entities of a conversation | understand, upgrade, plan, answer | an ontology that changes between queries; cached answers | answers are grounded in the ontology of their request | QuestionUnderstanding, QuestionPlanning, EvidenceRanking |
| Causal models (`causal_model_management/`) | versions, snapshots, attempts, pointer, idempotency records | draft, submit, review, publish, compile, activate, archive | replays and competing commands, content edited after review | what is published passed its review; one blueprint serves the active version; one effect per key | CausalModels, CausalContent, CausalCommands |
| Capability catalog (`catalog/`) | refs, packs, manifests, pointer, events, cursors | register, pull, webhook, pack, approve, activate, revoke, resolve | fetch first and commit later; three transactions of an activation | what is served was approved and signed; references follow their source | CatalogRefs, CatalogPacks, CatalogManifests |
| Business model compiler and reasoning (`bmc/`, `planner/`) | compile records, blueprints, contexts, trace records | import, compile, enter, prepare, plan, acquire, evaluate, archive | two compilers; surroundings that change between the steps of a request | one current blueprint; what is shown is what was pinned; rankings are exact | CaseACompiler, SnapshotImport, BlueprintPlanning, Reasoning |
| File datasets (`file_dataset.py`) | directories, revisions, pins | stage, publish, pin, acquire | files are written in place, crashes | a pinned revision is served whole | FileDatasets |
| Knowledge bases (`knowledge/`) | documents, chunks, embeddings, routing | upload, embed, reindex, delete, search | deletion of what another request is writing; failures in the middle | no searchable chunk is lost by a reindex; a search stays in its scope | Knowledge |
| Capabilities and policy (`capability/`, `runtime/invoke.py`, `policy/`, `orchestrator/layers.py`, `infra/llm_cache.py`) | registry rows, permissions, cached plans | register, deprecate, grant, invoke, plan | rows change between discovery and call; two levels of retries | a call was allowed when it was checked; at most nine attempts | CapabilityCalls |
| Event bus and audit (`infra/redis_eventbus.py`, `audit/consumer.py`) | stream, pending entries, log | publish, read, dispatch, acknowledge | lost connections, restarts, trimming | no event is recorded twice, none is lost while nothing fails | AuditTrail |
| Checkpoints, database and tenancy, copilot, plugins and MCP, SDK, front ends | - | - | - | - | not modelled (section 6) |

`PROJECT.json` lists every component with its files and status, and under
`hazards` what is hard to test, each at its line, with the properties that would
catch it going wrong.

### How the parts interact

*A Chatflow turn.* A user's message arrives as one asyncio task
(`_chat_dispatch`, `chat_stream_ep`), which calls `flow_chat`. It reads the newest
`waiting_human` row of the conversation (transaction 1). With one, it rebuilds
the node pool from `node_state`, and the executor walks the plan again from the
start: nodes in the pool are passed over, the suspended node gets the answer.
Without one, it creates a row and executes from the start. At the end of the
turn a third transaction stores `waiting_human` with the completed results, or
the final status. The row does not say that a turn is in progress, and no lock
is held between the transactions. Every minute the scheduler selects waiting
rows older than the TTL and sets them to `timeout`, also those whose resuming turn
is in progress; a late message does the same for the row it finds, unless the
suspended node has an error edge.

*From ontology to diagnosis.* The TBox says which types and relations there are;
data source jobs and imports fill the ABox with entities and facts; profiles are
compiled from them for searches and answers. A causal model refers to types and
catalog entries; its published snapshot is compiled and activated as the one
current blueprint of its intent. A request for a diagnosis finds that blueprint,
pins entities and the published revision of a dataset in a context, acquires
observations, and evaluates the pinned graph.

*What is shared.* The components meet in PostgreSQL under READ COMMITTED. Where
the code takes a row lock, a command is one action of the model; where it does
not, the model has the steps between which others come in.

## 2. Modules

| Module | Models | Reading guide |
|---|---|---|
| `FlowGraph` | `validate_workflow`, `_topo_order`, `_compile_graph` | pure operators; Kahn's state is a function of the number of pops, the gates one of the position in the order |
| `FlowCompile` | `compile_flow_schema` | a one-step machine with reference definitions (`Closure`, `Separates`, `Taken`) that share nothing with the algorithm |
| `FlowExec` | one run: `_execute_plan`, the gate, `flow_chat` around it | one action for each way the loop handles an item, in the order in which the code asks |
| `FlowPaths` | FlowExec composed with FlowGraph | executed nodes against the path through the graph; refinement of RunLifecycle |
| `RunLifecycle` | what a row promises its readers | the abstract specification |
| `FlowRuns` | the rows of one conversation under overlapping requests, scan, clock, crashes | each request is a process whose transactions are its steps |
| `EvalRuns` | evaluation runs, requests, job queue, workers, recovery | each session is a step; the queue is external |
| `DataSync` | one rule, its jobs, its source | the three transactions of a row, heartbeats by batches |
| `EntityProfiles` | profiles and the changes that make them stale | a change begins and commits in two steps and is stamped with its beginning; a compilation reads, begins to write and writes |
| `FileDatasets` | directories, revisions, pins | writing files and recording them are two steps; either may be the last |
| `RelationFacts` | a relation type, its edits, imports and dry runs | an import checks against what it read at its start |
| `TBoxGovernance` | an entity type, change requests, writers of instances | an approval reads, applies and marks in up to three transactions; a move checks first and updates then |
| `QuestionUnderstanding`, `QuestionPlanning` | rules, upgrade and cache; the three plans | one query of the ontology per step |
| `EvidenceRanking` | walks, fusion, roles | functions without a state, with reference definitions |
| `CausalModels` | versions, snapshots, attempts, activation | a command locks model and version: one action |
| `CausalContent` | the graph of one draft | puts and deletes, analysis at submission and publication |
| `CausalCommands` | idempotency keys, row lock, expected revision | the steps of one transaction, repetitions, competitors |
| `CatalogRefs` | registration, refresh, webhooks, pulls, revocation | every path fetches first and commits later |
| `CatalogPacks`, `CatalogManifests` | packs, change requests; manifests, pointer, resolver | adding an entry is two steps, activating a manifest three |
| `CaseACompiler`, `SnapshotImport` | compile records and blueprints; import of source models | transactions that can only see what was committed |
| `Reasoning`, `BlueprintPlanning` | contexts, evaluation, archive; entry, plan, tasks | the products of strengths are sums of costs |
| `Knowledge` | documents, chunks, reindexing, searching in scope | requests are jobs that stop between any two transactions |
| `ChatTurns`, `ChatApps` | automatic turns; apps, categories, keys | turns and edits overlap |
| `CapabilityCalls` | registry, policy, gate, retries, plans | both levels of the connector's retries are counted |
| `AuditTrail` | an event's way into the log | Redis and both processes fail and return |
| `*_proofs`, `NumberFacts` | theorems | section 5 |
| `MC*` | instances for TLC | section 3 |

Composed: FlowPaths (FlowExec and FlowGraph, refining RunLifecycle),
CatalogManifests (extends CatalogPacks), BlueprintPlanning (extends Reasoning),
QuestionPlanning (extends QuestionUnderstanding and EvidenceRanking). Components
that share no state are only checked in one run, with a variable `part` that says
which of them a behaviour is about.

### From the code to the state

*FlowExec.* `row` is the `flow_runs` row (`status`, `pending_node_id`,
`node_state`). `status`, `mode`, `pos`, `pool`, `chosen`, `saga` are the locals
of `_execute_plan` and the arguments with which `flow_chat` calls it; they go
when the turn ends (`EndTurn`). `awaited` is the node the turn resumes at, and
`scanned` says that the scheduler has selected the row and not updated it yet.
`calls`, `effects`, `grants`, `decided`, `undone`, `mark`, `turns` are history
variables: no code reads them, the properties do. `calls` counts invocations of the
adapter: one execution makes any number of them in `Tries`, at most nine, because
`Connector.execute` makes three attempts and `capability.call` goes through it once
more (`connector.py:142`, `:473`, `:485`). `mark` is where the turn began in the
histories of effects and compensations.
A node's output is abstracted to what a condition that reads it can tell:
`hit`, `miss`, `null` (a completed result whose value is missing), or it
`failed`. The loop asks in this order: is the item a condition; is it the
suspended node; is it in the pool of the earlier turns; is its gate satisfied;
only then is it invoked. The guards of `TakeBranch`, `Resume*`, `PassRecorded`,
`SkipUntaken`, `Suspend`, `Invoke` keep this order. `Settle` is the common tail
of both invocation paths: pool, saga, result branch, fail-fast rule.

*FlowRuns.* A run is named by the request that created it. `pc` walks through
`unsent`, then (`expiring`) `creating` or `executing`, `saving`, `done`. `Arrive`
is transaction 1, `LazyTimeOut`, `CreateRun`, `UpdateWaiting`, `FinishRun` are the
writing ones; between them anything may happen. `Scan` and `Expire` are the
SELECT and the UPDATE of `expire_waiting_approvals`.

*EvalRuns.* `runs` has the `eval_runs` rows, reduced to `status` and to whether
`heartbeat_at` is older than the TTL. `start` and `cancelling` are the places
between two statements of `start_run` with its route and of `cancel_run`. `task`
is what a worker holds of a run in memory; it goes when the worker does, and the
job then stays `doing` and is not fetched again. Every step of a task may raise
(`Raise`); the handler's own write may raise too (`JobRaises`), the only way an
exception leaves the job, and then the queue retries it.

*DataSync.* The clock counts changes of the source, so that a stamp is compared
with what a fetch could have seen. A job beats every `BatchSize` rows and can die
at any step; its successor starts over.

*CausalCommands.* A request's `pc` walks through the look-up of its key, the lock
of the version and the commit of effect and record together. `NoLostUpdate` and
`OneEffectPerKey` are about what lies between them.

*Names and payloads* are members of small sets everywhere; a hash is the content
it identifies, a signature a flag.

Mutants (operators with a comment `Mutant:`) stand before the definition they
distort. They are not part of the model: each is a plausible bug that the
property it is listed with must detect.

## 3. Runs

| Run | Instance | Question |
|---|---|---|
| `flows` | parts: every graph of start, three middle nodes (condition, capability with an error edge, approval, answer, note) and a last node, cycles and orphans included; chains, forks and three error-edge shapes of five nodes with every choice of commands and compensations, some of them cut off anywhere | is the order topological, are cycles refused even where `validate_workflow` does not look, is a gate exactly the set of unavoidable branch sides, is no taken node skipped; are the invocations of commands paid for by replies, does a failing turn compensate in reverse what completed in it, is the path taken exactly, is a waiting run resolved, does the run implement `RunLifecycle` |
| `flow_runs` | three messages, scans, crashes and unstorable outcomes in any interleaving | what holds while messages do not overlap, and what holds without locks |
| `eval_runs` | one run of three cases, two workers, two retries | does an ended run stop after the case in hand, does completed mean complete, is repetition due to retries alone, do restarts free every stuck run |
| `governance` | parts: two versions of a model with two users; a draft of three nodes and two edges, with rules or evidence; five commands of two requests sent four times; an entity type with two requests and two stewards, or one request and three stewards | is what is published reviewed, sound and served by one blueprint; does each key take effect once; do instances follow their type |
| `diagnosis` | parts: packs, manifests, references, imports, compilers, planning, diagnoses on one graph with everything around it and on all 729 signed graphs of four factors | is what is served approved, signed and what its source says; is what is built whole, what is shown pinned, what is ranked exact |
| `data_services` | parts: sync, profiles, files, imports, questions, and the ranking of all small sets of evidence | is every row copied once, is fresh true, is pinned whole, do facts fit, are answers grounded and their evidence counted and ranked exactly |
| `workspace` | parts: indexing and searching, turns, apps, calls, plans, audit | is the transcript what was said, do callers get what was published, was a call allowed, is an event recorded once |
| `flow_lost_branch`, `flow_lost_saga`, `runs_double_execution`, `sync_skips_changes`, `catalog_revoked_resolves` (violated) | one family or instance each | section 4 |

### What the properties hold

In the run `flows`:

* `CommandsApproved`: a reply that does not reject a command pays for one execution of
  it, and so for at most nine invocations of its adapter.
* `TurnsCompensate`: a step that fails undoes what completed *in its own turn* and has a
  compensation, in reverse. Its instance has flows that suspend between what completed
  and what fails. What earlier turns completed is not undone, which `flow_lost_saga`
  shows; nor is the registry's compensation of the command the turn was approved for;
  and a condition that cannot be evaluated undoes nothing (`multi_step.py:358-364`).
* `WholeRunsTakePath`: runs that are not cut off and do not mix error edges with
  suspensions; the mixture is what `flow_lost_branch` shows.
* `ImplementsRunLifecycle`: a row may time out during the turn that resumes its run,
  and then the outcome of that turn counts in the end. Only a run whose turns may leave
  no outcome (`Torn`) can repeat a node.

Several properties of the other composite runs are conjunctions of named parts, so
that one run asks all that is to be asked of a component:

* `ModelsAreGoverned`: the published snapshot of a version is what was checked at
  its submission, valid, and published by another user than the submitter unless
  an administrator did it; a model has exactly one current blueprint if it has an
  active snapshot, else none, and that blueprint pins the snapshot and is the
  artifact of a successful attempt.
* `DraftIsSound`: no dangling end in a draft, what passed its review is sound, the
  searches of the analysis agree with their definitions.
* `FreshIsTrue`: a profile that is served as it is tells the entity's own name and its
  active facts, unless a change of the entity was open when the profile's compilation
  read it or opened before that began to write. Stamps are the beginnings of
  transactions (`abox_service.py:79`, `:372`, `:559`), so such a profile may look newer
  than the change it missed (section 4).
* `TypesAreGoverned`: instances have the domain of their type or none, and change
  requests tell what they did.
* `ReleasedAsApproved` (`FulfilledAsApproved`, `ServedAsSigned`): packs and
  manifests are served as they were approved and signed. `CompiledAsRecorded` and
  `TraceExplainsItself` stand alone. `DiagnosedAsDeclared` (`ImportsAreWhole`,
  `RankingExact`, `TraceShowsWhatWasPinned`): imports are whole, scores are the
  exact sums, and a trace shows what its context pinned. `NeverRewritten`
  (`RevisionsStay`, `PinsNeverDrift`, `ContextsArePinned`) is the action property
  of that run.
* `AnswersAreGrounded` (`UnderstandingIsGrounded`, `CacheIsBounded`,
  `AnswersFollowIntent`): what is understood of a question uses the ontology as its
  request saw it, from a bounded cache, and its answer is of the plan asked for.
  `EvidenceIsRanked` (`DescendantsExact`, `FusionIsFair`, `RolesExact`): counts over the
  facts, the fusion of the layers and the roles of the evidence are exact.
* `TranscriptIsTrue` (`TranscriptWhole`, `HistoryIsTrue`): messages are numbered
  without a gap, and while turns do not overlap the history a turn is given
  consists of questions and the answers to them, as many as were asked for.
* `KnowledgeIsKept` (with `IndexKept`): a document that a search can rank stays so
  until it is deleted, except one that came into a base while that base was being
  listed for its reindexing; what a search finds is in the domains and the bases its
  role may read.
* `CapabilitiesAreGoverned`: a step of a plan calls its adapter at most nine times,
  at most three of them after it may no longer be called; plans consist of
  capabilities that were on offer or of the dictionary's step.

### Bounds and why they are enough

* *Graphs:* three middle nodes allow a nested condition, an error edge inside a
  branch, a join of three contexts, cycles of two and three nodes and an orphan.
  The compiler looks at nodes one by one and at joins pairwise.
* *Flows:* something before a suspension, the suspension, something after it; the
  shapes are the positions of a condition or of one error edge relative to it.
  Compensations meet a suspension in front of them, behind them and between.
  A completed output is `miss` or `null` only where a condition reads it (`ReadVerdicts`).
* *`Tries` = {0, 1, 9}:* no invocation, one, and the most that one execution makes.
* *`MaxTurns` = 4:* a chain of three nodes suspends at most three times, so the
  bound cuts only runs whose turns are cut off. The proofs have no such bound.
* *Messages:* one to create a run, one to answer it, one to find it suspended
  again or to overlap.
* *Evaluation:* a first, a middle and a last case; two workers, since one may
  recover a run the other still works at; two retries, so that an attempt can
  follow a repeated one.
* *Governance:* two versions, since activation supersedes one by the other;
  revisions up to five, a cycle of edit, submission, rejection and resubmission;
  two attempts and pins, so that an artifact can be current again; four sends,
  a command, its repetition, its competitor and a reuse of its key.
* *Diagnosis:* two publishers and two compilers overlap pairwise; four factors
  have direct, two-step and contradicting paths at the depth bound of 2.
  Handlers of references, and publishers of manifests, are interchangeable
  (`Alike`). The references' source goes through all its stages with one content and
  has another one while active: a changed hash blocks a refresh whatever the status.
  The manifests' part has the requests of one user and no failed fulfilment, which
  the part of the packs has.
* *Data services:* two editors whose changes overlap a compilation, and four writing
  transactions: two changes, a profile before them and one after or between
  (`MaxClock`); of the fact's target only what reaches the source is done to it
  (`ProfileStep`); two rows over a batch of two, so that a job can be between
  beats; two workers for the overlap; two changes of the clock before and during
  a job; three packages of which one is invalid and two uploads that overlap.
* *Workspace:* four turns are more than the window of pairs; three documents in
  two bases; three events in a stream that keeps two.
* `CHECK_DEADLOCK FALSE` everywhere: compilation ends, a run ends, a conversation
  ends with its last message, and bounded counters run out.
* `MCSpec` constraints that restrict a part (one of two files, one edit per side)
  are guards in the MC modules and said there.

### Fairness

`FlowExec!Spec` has weak fairness on `Step`: a turn in progress is an asyncio
task whose awaits return (adapters have timeouts), so it goes on unless it is
cut off. It has weak fairness on `Scan` and on `Expire`: the scheduler's loop runs
each minute, the TTL passes, and its UPDATE follows its SELECT
(crashes of the scan are in `FlowRuns`). There is none on replies, rejections or aborts.
`FlowRuns!Spec` has weak fairness on the progress of each request, on the
passing of the TTL and on `Scan`, and strong fairness on `Expire`: a crash
disables it, and the restarted scheduler selects the same rows again, so it is
enabled infinitely often. `WaitingEnds` therefore assumes that not every scan is
cut off between its two statements. `EvalRuns!Spec` has weak fairness on the
steps of a task and on the passing of the TTL, and strong fairness on starting a
worker with a successful recovery. `RestartsRecover` moreover has the premise
that some worker is stopped again and again: without a start there is no
recovery, and a start that comes sooner than the TTL recovers nothing. The other
specifications state no fairness and no liveness.

## 4. Where code and text disagree

With a run each:

* `flow_lost_branch`: a node with an error edge that completed *before* a
  suspension has no chosen side in the resumed turn (`multi_step.py:533`), so
  everything on its success edge is skipped and the run completes without it.
* `flow_lost_saga`: each turn begins with an empty saga (`multi_step.py:309`), so a
  failure after a suspension does not compensate what completed before it (docstring
  `:155`). `TurnsCompensate` states what the code does instead.
* `runs_double_execution`: two messages that overlap both resume the run
  (`chat_service.py:557`) and both execute its command (`multi_step.py:304` says
  that executed nodes are not replayed).
* `sync_skips_changes`: the job stamps the rule before the fetch reads that stamp
  as `since` (`sync_jobs.py:82`), so an incremental fetch skips what changed
  since the previous one (`arch/guides/earp-fde-user-guide.md:888`).
* `catalog_revoked_resolves`: the resolver answers from the status frozen in the
  active manifest (`resolver.py:60`), so a reference revoked afterwards still
  resolves (`arch/design/2026-09-01-n01a-catalog-phase1-design-jqmk.md:774`).

Found by runs that made room for others; each follows from the modules as they are:

* A join's gate is the intersection of its contexts (`workflow_dsl.py:601`): for
  `c1 -true-> c2 -true-> x`, `c2 -false-> y`, `c1 -false-> y`, the contexts of `y`
  share no label, so `y` runs even when `x`'s side is taken, against the module
  docstring (`:10`). `GatesFollowPath` states the class of flows that are exact.
* `rolled_back` violates the status CHECK of migration 0031
  (`chat_service.py:751`), so storing that outcome raises and the row stays.
* Activating the version that is active already supersedes it by itself
  (`activation.py:136`), against the rule of one active version in
  `arch/design/2026-08-30-causal-model-management-n01-detailed-design.md:144`;
  `ModelsAreGoverned` therefore speaks of what a model serves, and
  `AfterActivation` has the case.

Seen while modelling:

* *Chatflow.* The compensation the registry declares for an approved command is
  put on the copy made for the approval and never registered. A failed node with
  an error edge is invoked again by the resumed turn. A condition that cannot be
  evaluated fails the plan and undoes nothing (`multi_step.py:358`). A turn cut off after an effect is
  repeated by the next reply. Two overlapping first messages leave two waiting
  runs. A timeout and a turn resumed just in time overwrite one another, so a run that timed
  out can complete, or wait again. One approval can invoke the adapter nine times.
* *Evaluation.* `_finish_run` and `cancel_run` do not look at the status they
  overwrite. Two starts both pass the busy check. A worker that restarts sooner
  than the TTL leaves its run `running`. `sync_builtin` reuses case ids; cases are
  read, changed and written without a lock; deleting cases lowers the "completed"
  that `get_run` reports.
* *Causal models.* `put_node` may change the entity type of a node after its
  evidence was validated (`service.py:640`, `:812`). Approving and then retrying
  with one key meets the UNIQUE of the outbox, which nothing consumes
  (`main.py:908`).
* *Catalog.* After a revocation the row of the pointer stays, and the next
  publication inserts it again and fails. A pull revives inactive references, and
  a page that cannot be applied stops all later pulls.
* *Reasoning.* An identity whose context was cancelled, expired or consumed can
  never be prepared again (`trace.py:199`). A prepared context is used after its
  `expires_at` until somebody reads it. A plan that requires two providers of one
  node refuses every request on that identity. The import of a snapshot does not
  compare model rows.
* *Ontology.* A rejected change may become applied by an approval in progress.
  The check of a narrowing and its UPDATE are two statements. Importing one file
  twice duplicates its facts; a code that two types share is resolved
  arbitrarily; `add_fact` does not look whether a relation type is deprecated. A
  renamed target does not make the profiles of its sources stale. A profile whose
  compilation overlaps the transaction of a change can be stamped later than the
  change and be served as fresh without it. A move to a domain is applied even if the
  domain or the type is deactivated between its check and its update
  (`tbox_service.py:618`).
* *File datasets.* Publishing can go back to an older hash after a newer one; the
  publication takes the data domain from the CSV.
* *Questions.* The upgrade cache keeps failures for ever, evicts by age of
  insertion, and ignores the tenant's later changes (`understanding.py:30`). An
  intent nothing matches is FACT. Graph hits of a search carry no fact id, so they
  share a key and are marked as conflicts. `plan_relation` looks entities up
  again by mention. Graph queries include deprecated entities, counts do not; an
  id the model invented is counted as 0; the path test is a test on substrings.
* *Workspace.* An edit of an app racing its publication leaves edited content
  published; a publication writes back the category it read. Deleting a category
  leaves published apps without one; an app with flow runs cannot be deleted.
  Two changes of a capability lose one. Concurrent turns mix their pairs in the
  history, and a window of 4N+1 messages can lose a pair. A context can join the
  relations of one turn and the entities of a later one.
* *Knowledge.* A failed upload leaves its document row, so that the same text is
  a duplicate from then on (`main.py:1092`); looking for duplicates is not atomic
  with the insertion. A base whose reindex fails midway keeps the earlier
  documents indexed twice. The routing index is not rebuilt by status changes.
* *Capabilities.* The fallback of the planner is not validated against the
  capabilities on offer. An invocation runs deprecated capabilities, and a 403 of
  the policy leaves its row pending. The check for the last administrator is
  separate from the change (`roles_service.py:209`).
* *Audit.* Events are lost while the client connects and after a failed XADD; the
  acknowledgement precedes the row, pending entries are never read again, and the
  consumer gives up after five attempts; `arch/reviews/m0-m6-holistic-review.md:131`
  describes an acknowledgement after processing.

## 5. Proofs

Every theorem holds for all values of the constants that satisfy the assumption
named in the component's module, and for behaviours of any length; the bounds of
the runs (`MaxTurns` and the like) play no role in it except where they are
guards of an action. Each invariant below was checked by TLC on the instances of
section 3 before it was proved.

| Module | Theorem | States |
|---|---|---|
| `Flow_proofs` | `CyclesAreFound` | Kahn's order is complete exactly for graphs without a cycle |
| | `PlansAreTyped`, `PlansAreOrdered`, `PlansAreCut`, `PlansFollowPaths` | types, `SequenceExact`, `GateIsCut`, `GatesFollowPath` |
| | `TypeCorrect`, `ApprovalsPay` | `TypeOK`, `CommandsApproved` |
| | `ImplementsLifecycle` | `Spec => ImplementsRunLifecycle` |
| `FlowRuns_proofs` | `TypesCorrect`, `RepliesCorrect`, `SerialCorrect`, `FinishedFinal` | types, `RepliesPay`, `SerialConversation`, `FinishedIsFinal` |
| `Ontology_proofs` | `TypesTypeCorrect`, `TypesGoverned` | types, `TypesAreGoverned` |
| | `FactsTypeCorrect`, `FactsGoverned` | types, `FactsAreGoverned` |
| | `EvalTypeCorrect`, `CancellationStops`, `AttemptsPay`, `CompletedScored` | types, `StopsPromptly`, `RepeatsNeedRetries`, `CompletedIsComplete` of evaluation runs |
| `DataServices_proofs` | `SyncTypeCorrect`, `SyncCorrect` | types, `SyncIsFaithful` |
| | `ProfilesTypeCorrect`, `FreshCorrect` | types, `FreshIsTrue` |
| | `FilesTypeCorrect`, `PinnedCorrect` | types, `PinnedIsServedWhole` |
| | `QuestionsAreGrounded` | `AnswersAreGrounded` |
| | `CountsAreExact` | `DescendantsExact` (a part of `EvidenceIsRanked`) for every set of facts |
| `Causal_proofs` | `CommandsTypeCorrect`, `OncePerKey`, `NothingLost` | types, `OneEffectPerKey`, `NoLostUpdate` |
| | `ModelsTypeCorrect`, `ModelsGoverned`, `LastKnownGood` | types, `ModelsAreGoverned`, `LastKnownGoodServes` |
| | `ContentTypeCorrect`, `SearchesCorrect`, `DraftsAreSound` | types, `SearchesExact`, `DraftIsSound` |
| `Workspace_proofs` | `AppsTypeCorrect`, `AppsCorrect` | types, `AppsAsPublished` |
| | `CallsTypeCorrect`, `CapabilitiesGoverned` | types, `CapabilitiesAreGoverned` |
| | `AuditTypeCorrect`, `AuditedCorrect` | types, `AuditedOnce` |
| | `TurnsTypeCorrect`, `TranscriptsAreTrue` | types, `TranscriptIsTrue` |
| | `KnowledgeTypeCorrect`, `KnowledgeKept` | types, `KnowledgeIsKept` |
| `Diagnosis_proofs` | `ReleaseTypeCorrect`, `ReleaseCorrect`, `RevisionsKept` | types, `ReleasedAsApproved`, `RevisionsStay` |
| | `RefsTypeCorrect`, `ReferencesFollow`, `PinsKept` | types, `FollowsSource`, `PinsNeverDrift` |
| | `CompilerTypeCorrect`, `CompiledCorrect` | types, `CompiledAsRecorded` |
| | `ReasoningTypeCorrect`, `TracesExplain`, `ContextsPinned` | types, `TraceExplainsItself`, `ContextsArePinned` |
| | `PlansShowPinned` | `TraceShowsWhatWasPinned` (a part of `DiagnosedAsDeclared`) |

`RevisionsKept`, `PinsKept` and `ContextsPinned` are together the three conjuncts of
`NeverRewritten`. Leaves that need more time than the provers take by default name
their prover (`SMTT(30)`, `ZenonT(30)`). `NumberFacts` has what the others need about numbers and extrema of finite sets.

### Compiling a flow (`Flow_proofs`)

The theorems hold for every set of graphs of which `GraphsAssumption` is true: ids
are not there twice, types are known, edges are a list that may name nodes which
do not exist, lead in circles or be there several times. The algorithms are
functions of a number (sweeps, pops, edges relaxed, positions of the order), and
induction over a number is not out of reach: `NumberFacts` derives from the least
element of a set of numbers that a set which holds 0 and each successor holds
every number up to N (`Counting`), that a function defined step by step exists
(`Stepwise`) and has its type (`Stepped`). No library theorem with an
operator as its parameter is needed. The argument, from the bottom:

1. `Closure` is the least set that contains S and is closed under E: each sweep
   that adds nothing is the last, and there are as many sweeps as nodes
   (`NodesCounted`, `ClosureSweep`, `ClosureLeast`).
2. While Kahn's algorithm runs, the count of a node is the number of its
   incoming edges whose source has not been popped, and the queue holds exactly
   the nodes without such edges that have not been popped
   (`RelaxCounts`, `PopCounts`, `UnsortedCounts`). So what is popped comes after
   its sources (`KahnTopological`); and if the order is not complete, each node
   left has a source that is left, so walking backwards comes to a node that
   leads to itself (`CycleExists`, `CyclesAreFound`).
3. The gates are a fixed point of `Merged` (`GatesFixed`: when a node is passed its
   sources have been and are never written again), and such a fixed point is the
   cut: a label that lies on all ways lies on all ways to each source or is the edge's,
   by induction along the order (`GateCuts`).
4. The runs of a decision are a recursion from a node to the branches of its
   gate, which come earlier in the order (`GateEarlier`, `RunningExact`). A node
   on the path taken has its gate decided and its branches on the path
   (`TakenMeets`, `TakenRuns`). Conversely, if each join covers what it merges, a node that
   runs has an incoming edge whose context was decided, and by induction along
   the order its source is on the path (`RunsTaken`).

Proving `GatesFollowPath` showed the earlier form of its second part to be false: a
note has no incoming edge, so its gate is empty and it "runs" on every path
without being on it. The compiler makes no item of a note, so the property now sets
notes aside, and the instance of the run has notes.

### One run (`Flow_proofs`)

`FlowExecAssumption` asks of a flow what the compiler guarantees: `sequence`
lists nodes without repetition, which is `SequenceExact` and proved above,
and the sets of commands and approvals contain nodes.

`TypeOK` is not inductive alone: that `Item` is a node needs the position to be
positive and, when the turn has suspended, within the sequence (`PositionOK`).
`CommandsApproved` is not inductive either. Between the reply and the command
the turn carries a grant nobody has used, and the command's execution relies on
it. `GrantsCover` adds that, while the resumed turn has not come to the
suspended node yet (`Unspent`), one grant more than the invocations so far need is
there: `calls` is at most nine times one *less* than the grants.
Then

1. a reply makes its grant unspent and adds one to the node's grants
   (`NextGrants`);
2. an ordinary invocation never counts for a command that needs approval, as
   `capability.call` raises before the adapter;
3. the granted execution finds the grant unspent, since nodes occur once in the
   sequence, invokes its adapter at most nine times (`Tries`), and leaves the grant
   spent: the turn is past the node or no longer running
   (`GrantSpent`);
4. every other step leaves the counters alone and makes nothing unspent
   (`Uncounted`, `MovingOn`).

`ImplementsLifecycle` is the refinement of `RunLifecycle`, the promise to those
who only see the row: a run begins once, nothing of it happens outside a turn, it
is over for good once it is over and no turn is in progress, and no node takes
effect twice. A waiting row may expire *during* the turn that resumes it, whose
outcome is stored after all; so the promise has `busy` beside the phase. Initial
states map to initial states and every step to a step or a stutter. The invariant
`RunInv` is `TypeOK` with `Phases` (which row goes with which state of the turn),
`Unstored` (without compensations no outcome is `rolled_back`, and a flow at which
nothing suspends never waits) and, unless the run is torn, `Recalled`: what
happened is on record in the row while the run waits and in the pool while it runs,
and nothing ahead of a turn has happened that the turn would do again. A run is torn
(`Torn(flow)`) if its turns may be cut off, or if it declares compensations and
can suspend: the outcome `rolled_back` cannot be stored (section 4), so that a turn
may leave the row waiting as before, and the next reply executes again what it
executed. Of a torn run the abstract specification promises all but that effects
happen once. The theorem covers both kinds and has no hypothesis on the flows.

### One conversation (`FlowRuns_proofs`)

`Paid` carries `RepliesPay`: the executions of a run's command plus the approving
turns that are on their way to execute it are at most the approving messages
of the run. `Serial` carries `SerialConversation` and
`FinishedIsFinal`: while nothing has disturbed the conversation, one call at most
is in flight and no scan with it (`Alone`); the call holds the one run that waits,
or has created its own (`Holds`); and a run that waits has been suspended once more
than its command was executed, unless a turn that executed it is about to save
(`Owes`). A message or a scan that meets a call in flight, a turn that is cut off
and an outcome that cannot be stored set `disturbed` for good, and `SerialConversation` speaks of the time before; `RepliesPay` needs no
hypothesis.

### Types and facts (`Ontology_proofs`)

* `LockInv`: a writer of instances has the domain of the type for as long as it
  shares the lock of the type's row, and no domain if there was no row to lock, so
  no move comes between its read and its write. `ReviewInv`: an approval that only
  has to mark its request has taken effect and is no move, and a request's status
  agrees with whether it took effect. `CheckInv`: a move is checked without a lock, but
  what is checked and not applied yet is a move, of a type that exists.
* `FitInv`: what an import in progress is going to write (`TodoFits`), what it
  believes of the relation (`SeesRelation`) and what an editor has checked
  (`WriteFits`, `NotYetCreated`) fit the relation as it is, or the fact is one the
  check does not cover.
* `PromiseInv`: a preview that counts is what any import would take that starts now
  (`PreviewIsNow`), what an import expects is what it takes once all its rows are
  there (`ExpectsRows`), and it works through its rows in their order (`InOrder`).
  The last row with a code decides what the code stands for, so the proof takes
  greatest rows of finite sets (`NumberFacts`).

### Evaluation runs (`Ontology_proofs`)

All four use `Phases`: no row before `InsertRun`, no job before `Enqueue`, a task
only while its job is `doing`. That is what makes a dead worker's job stay dead,
and what a queue that handed jobs out again would break. `Stopping` adds that a
run with a late result is not running, and that its task, if there is one, has
not passed the check before another case. `Paid` adds that a job waiting in the
queue, and a task for the cases ahead of it, has one result per case less than
it may have; a retry allows one more. `Scored` adds that the cases behind a task
have results.

### Data services (`DataServices_proofs`)

* *Sync:* `RowsFaithful` (a row that was fetched is the outside row of some time up
  to the fetch, and the present one unless that changed since), `CopyFaithful`,
  `CopyAtHand` (between the transactions of a row its entity is there once and its
  fact not yet), and `JobAccounts` (a row that has not changed since the fetch is
  copied, has failed, is at hand or is still to come). The hypothesis of
  `SyncIsFaithful`, that no jobs overlapped, is a history variable that a second
  job sets; jobs that die and their successors are included. TLC checked the
  invariant on 4 million states.
* *Profiles:* stamps are the beginnings of transactions, so the order of stamps is not
  that of commits. `ReadTrue`: what a compilation read, unless a change has raced it
  (`raced`), still tells the entity's name and active facts until the compilation begins
  to write (`Rests`), and from then on unless the entity's row or one of its facts has a
  younger stamp; every change still open will have one (`Holds`). `StoredTrue` says the
  latter of a stored profile that is not `tainted`. Hooks may fail everywhere. The profile's timeline and the facts that point at
  the entity are needed for no part of it.
* *Files:* `FilesServed`: what is staged, published or pinned was written once at
  least, what is published or pinned is a published revision, and an answer was
  computed from a directory that was whole.

* *Questions:* the invariant says of each request what its phase may rely on
  (`RowInv`): until the model has answered, the result is that of the rules, whose
  relations are among the candidates that were read; an upgraded one keeps what the
  rules hit and has the confidence of its own fields; from the choice of a plan on,
  the plan is that of the intent or there is a reason. Each
  phase has a lemma of its own (`AskRow` to `AnswerRow`), and other requests touch a
  row only through the cache, whose questions stay distinct (`CacheTakes`). The
  evidence follows from the walks: what is first reached after n hops ends a walk of
  n hops, each part of whose path was reached earlier (`WalksReach`,
  `ShortestWalks`), so a query of the graph finds exactly what its facts lead to
  (`QueriesReach`, `LayersReach`), although the breadth first search of the code marks
  nodes and not paths. `CountsAreExact` says the same of the counting operator, for
  every depth. TLC checked the invariant on the 258 160 states of the questions in
  the run `data_services`.

### Causal models (`Causal_proofs`)

* *Commands:* the idempotency record of a key tells all that happened for that key,
  and the holder of a version's lock found it in an admissible state at the
  revision its client named. The lock is what keeps both true until the commit.
* *Models:* `VersionTrue` (a version has a snapshot, its own, once it is published
  and not before; one in review holds what passed), `SnapshotTrue` (a snapshot is
  what was checked, and by whom it was published), `AttemptTrue` (an attempt is about the
  snapshot of its version) and `Served` (blueprints come from successful attempts,
  the compiled one is that of the pointer). TLC checked them on 348 270 states.
  `LastKnownGood` is the action property: the pointer leaves a snapshot only for an
  artifact of a published version or when the version is archived.

* *Drafts:* the invariant is short (types, nothing dangles, what left the draft has
  passed the analysis and was not touched since); the work is in what the analysis
  means. Both searches recur on what they have left: nodes not taken yet,
  then nodes at hand (`LeftOver`); `Recursively` turns that rank into the existence
  of the recursive function, `ByRank` into an induction over its arguments.
  `SearchMeans`: a worklist search that ends without the goal has found a set
  that nothing leads out of (`ReachesExact`). `VisitMeans`: while a depth-first
  search finds no cycle, what is done leads only to what is done and none of
  it leads back to itself, and the path leads to all that is to do
  (`HasCycleExact`); a mark that were set before a node's children are visited, or never
  removed from the path, would break `DescentSound`. `CycleHasTwo` and `LeadsAhead`
  relate the adjacency, which has no self loops, to the edges.
  `SearchesCorrect` is stronger than the part of `DraftIsSound` that TLC checks: it
  holds with any rules and evidence. `Leads`, the reference, is the least
  closed set and not a computation.

### A workspace (`Workspace_proofs`)

* *Apps:* `AppsAsPublished` speaks of the time before two requests of the workbench
  overlapped (`quiet`), and so does `Quietly`: one request at most is between its
  read and its write, and it finds the app as it read it (`WriteSound`): one that
  publishes has checked the flow it publishes, one that edits what was published
  makes it a draft again. So what is published was validated as it is, and so was
  what a call of the public endpoint has read.
* *Calls:* `Counted` bounds what a step has called by its attempts so far, three
  inside each of three outside. `LateCounted` says that a step which checks
  afresh (the second and third outer attempt) reads what is there now, so if
  the step has made late calls it finds the capability not callable; what is
  changed again is counted afresh. So only the three inner attempts of one
  check can be late.
* *Audit:* `OnItsWay` puts an event at one place of its way at most and, while
  nothing failed (`calm`), at one at least. It needs `Distinct` (no event is twice
  among the undelivered entries or in a batch) and `Acknowledges` (what is pending
  is the batch).
* *Turns:* `Numbered` (the numbers are those from one to the count of the
  conversation, each once: the unique key refuses a number that is taken, and
  that turn ends) and `Asking` (the number that a turn has read is taken or the
  next one, and a turn that has not asked has no message). `Serial` speaks of the
  time before two turns overlapped: each answer directly follows its question
  (`Unbroken`), a turn has one of each at most (`Single`), one turn runs
  (`OneRuns`), and until it answers its question is the last message
  (`Unanswered`), so that what it has read is still what the messages tell
  (`Informed`). That the window of 4N + 1 messages is wide enough is a matter of
  counting (`HistoryTells`): of the 4N before the question, each but the first is an
  answer in a pair, the question before one, or a question of a turn that ended without an
  answer (`Neighbours`); if at most 2N of them are of the last kind, N pairs are left.
* *Knowledge:* a batch is of one pass over one document (`Named`), and the one a job is
  about to embed is its own, not embedded yet and none it listed (`Writing`). What makes
  overlapping jobs safe is the order in which they listed: of two jobs that listed
  a document's batches, the later listed all the earlier did (`ListedAfter`), so
  as long as an old batch of a document is there, so is a new one: about to be
  embedded (`Pending`), or embedded and not listed by this job (`Renewed`). A base is listed in two steps, its documents and
  their batches, and a document that comes between them is the exception of
  `IndexKept`. TLC checked the invariant on 632 105 states.

### From the catalog to a diagnosis (`Diagnosis_proofs`)

* *Release:* a request that was fulfilled is the only one for its pack, and its
  attempts but the last have failed (`PublishedOnce`, `AttemptsFit`); a published
  pack cannot be published or hashed again. `SignedOnly` adds that every stored
  revision and every publication under way has signed content, that signed content
  has its entries of packs as they were hashed (`Locked`), and that the pointer is at a
  revision that is there and not revoked. `Locked` is stable because the hash of a
  published pack is, whatever entries come into the pack later.
* *References:* `FollowsSource` speaks of the time in which events came in their order
  and nothing overlapped, failed or was revoked (`settled`), and so does `Settled`:
  a handler and a pull are not under way together (`Alone`); what a handler has
  fetched is the source as it is, or the object has a change that was not heard of
  yet (`FetchedNow`), and so is what a pull has fetched for each object on its page
  (`PageIsNow`); a reference whose object's last change was seen has the status and
  the hash of the source, or is inactive (`RefRight`). A change counts as seen once
  its event is `processed` or a pull's cursor is past it, not when it is recorded,
  since a handler records before it fetches. TLC checked the invariant on
  1 078 163 states. `PinsKept` needs only the types.
* *Compiler:* `OwnInputs` (two transactions never have one input: the row of the
  record is locked) makes `CompilationFits` stable: what a transaction has read of
  its record still holds when it writes. `VersionsFit` carries the property: the
  persisted versions are the recorded successes, and the activation leaves one current.
* *Diagnoses:* a worker that evaluated holds the evaluation of its own records
  (`Diagnoses`); a context has one target for each requirement (`ContextBound`);
  the trace is there exactly when the context is consumed, with the targets it
  bound (`TraceTells`), since archiving needs a context that is still prepared.
  The evaluation itself stays an opaque operator of the graph and the records: the
  theorem holds for every graph.
* *Plans:* a plan holds the tasks of the targets that its context has bound
  (`PlanFits`), its records so far are what these tasks give in the pinned revision,
  or failures, and so are the records of a diagnosis and a trace (`DiagnosesShow`).
  Contexts of a plan are never prepared again (`ContextsPinned`), so what others
  publish and relate meanwhile does not show.

TLC checked the four invariants on all 564 841 states of the run `diagnosis`, and
on 1 806 256 states of the same instance without its symmetry and with more freedom
of sources and users.

### Only model-checked

* Every liveness property (`WaitingEnds`, `WaitingResolves`, `RestartsRecover`).
* The rankings and sums (`RankingExact`, and of `EvidenceIsRanked` the fusion and the
  roles): they are folds and sorts of the community modules, whose definitions the
  provers cannot unfold.
* `TurnsCompensate` and `WholeRunsTakePath`: the one compares selections of sequences,
  recursive operators of the standard modules; the other holds for families of flows
  only (section 4), and the path it speaks of is the closure of a graph.
* `ImportsAreWhole`: that a package which failed can be imported again (`Retryable`)
  depends on the packages there are, and is no consequence of the assumptions; the
  rest of it is in section 7.

## 6. Not modelled, and why

* *Inside modelled components:* resuming from a checkpoint and `interrupt()`, which
  `flow_chat` does not use; the legacy step list of `MultiStepExecutor.execute`;
  templates and node payloads (data); messages, traces and titles of a flow turn;
  the enrichment loop of the scheduler; the protocols of adapters and sources
  (their outcomes are choices); the fixture provider adapter;
  `KnowledgeQueryPlanFragmentHandler`, which nothing in production calls.
* *Checkpoints and durability:* written for the legacy path only.
* *Database, tenancy and credentials:* one tenant is modelled; row level security,
  key encryption and migrations other than the constraints used are data or I/O.
* *Copilot, plugins and MCP, SDK libraries, front ends:* single-row operations,
  stubs, clients.
* A hazard without a property: a flow that is edited while a run of it is
  suspended (the flow of a run is fixed in FlowExec).

`PROJECT.json` gives each component's status with what is left out of it.

## 7. Plan

Next to be proved:

* `SnapshotImport`: that what was imported is whole and the registry follows.

Next to be modelled: a flow edited while suspended; two evaluation sets and the
editing of a set while it is run; the legacy path with checkpoints.

The project keeps a dozen runs, so that it stays quick to check: as modules
arrive, violated runs whose cause is settled make room, and their facts move to
section 4.
