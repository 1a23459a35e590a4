------------------------------ MODULE FlowExec ------------------------------
(****************************************************************************)
(* One Chatflow run: MultiStepExecutor._execute_plan walking a compiled     *)
(* plan, and the flow_chat turns around it that start the run, suspend it   *)
(* for a human, resume it with the next message and write its outcome to    *)
(* flow_runs.  Turns of one run do not overlap here; FlowRuns is about the  *)
(* requests and the scheduler that do.                                      *)
(*                                                                          *)
(* A turn can be cut off anywhere (process crash, cancelled SSE task, 403   *)
(* raised by PolicyLayer.before_step): its memory is lost, the row stays.   *)
(****************************************************************************)
EXTENDS Naturals, Sequences, FiniteSets

CONSTANTS Node,         \* node ids
          NoNode,       \* pending_node_id IS NULL
          Flows,        \* compiled plans with the registry facts of their nodes
          Verdicts,     \* what a completed output means to a condition reading it
          Tries,        \* how often one execution of a command may invoke its adapter
          MaxTurns      \* bound: how many turns a run may take

(****************************************************************************)
(* A flow is a CompiledWorkflow (FlowGraph) plus                            *)
(*   command   its capability nodes whose registry row has type=command     *)
(*   undo      its capability nodes whose execution declares compensate_call*)
(*   cut       whether its turns may be cut off                             *)
(****************************************************************************)
Sides == {"then", "else", "success", "error"}

FlowsAssumption ==
    /\ NoNode \notin Node
    /\ \A f \in Flows :
        /\ f.sequence \in Seq(Node)
        /\ \A i, j \in 1..Len(f.sequence) : f.sequence[i] = f.sequence[j] => i = j
        /\ \A i \in 1..Len(f.sequence) :
               /\ f.gate[f.sequence[i]] \subseteq Node \X Sides
               /\ f.left[f.sequence[i]] \in Node
        /\ f.command \subseteq Node
        /\ f.approved \subseteq Node
        /\ f.cut \in BOOLEAN

VerdictsAssumption == Verdicts \subseteq {"hit", "miss", "null"}

\* Connector.execute makes three attempts, and capability.call goes through it
\* once more for the adapter: one execution invokes the adapter up to nine times.
Attempts == 3
MostTries == Attempts * Attempts

ASSUME FlowExecAssumption ==
    FlowsAssumption /\ VerdictsAssumption /\ Tries \subseteq 0..MostTries /\ MaxTurns \in Nat

VARIABLES
    flow,       \* the flow of this run
    row,        \* its flow_runs row: status, pending_node_id, node_state
    status,     \* the turn in progress: "idle" when there is none
    mode,       \* how the turn came about (resume_* arguments of execute)
    awaited,    \* the node the turn resumes at (resume_pending_node)
    pos,        \* position in plan.sequence
    pool,       \* node -> result, the source of conditions and templates
    chosen,     \* branch -> side decided in this turn
    saga,       \* registered compensations, in order of registration
    scanned,    \* whether the scheduler's scan has selected the row
    calls,      \* history: adapter invocations per command that needs approval
    effects,    \* history: nodes whose invocation completed, in order
    grants,     \* history: replies per node that did not reject it
    decided,    \* history: the sides ever decided per branch
    undone,     \* history: compensations attempted, in order
    mark,       \* history: how many effects and compensations preceded the turn
    turns       \* history: turns begun

memory == <<mode, awaited, pos, pool, chosen, saga>>
history == <<calls, effects, grants, decided, undone, mark, turns>>
vars == <<flow, row, status, scanned, memory, history>>

\* What the executor itself never changes.
surroundings == <<flow, row, scanned, mode, awaited, grants, mark, turns>>

NoResult == "absent"
Results == {NoResult, "failed"} \cup Verdicts
Undecided == "undecided"

Elements(s) == {s[i] : i \in 1..Len(s)}

\* flow_runs_status_check after migration 0031.
Storable == {"running", "waiting_human", "completed", "failed", "timeout", "cancelled", "rejected"}
Outcomes == {"waiting_human", "completed", "failed", "rolled_back", "rejected"}
Over == {"completed", "failed", "timeout", "cancelled", "rejected"}

EmptyPool == [n \in Node |-> NoResult]
NothingChosen == [n \in Node |-> Undecided]

Init ==
    /\ flow \in Flows
    /\ row = [status |-> "none", pending |-> NoNode, saved |-> EmptyPool]
    /\ status = "idle"
    /\ scanned = FALSE
    /\ mode = "fresh" /\ awaited = NoNode /\ pos = 1 /\ pool = EmptyPool
    /\ chosen = NothingChosen /\ saga = <<>>
    /\ calls = [n \in Node |-> 0] /\ grants = [n \in Node |-> 0]
    /\ effects = <<>> /\ undone = <<>>
    /\ decided = [n \in Node |-> {}]
    /\ mark = [effects |-> 0, undone |-> 0]
    /\ turns = 0

-------------------------------------------------------------------------------
(****************************************************************************)
(* Turns (flow_chat).                                                       *)
(****************************************************************************)
BeginTurn(m, node, p) ==
    /\ turns < MaxTurns
    /\ turns' = turns + 1
    /\ mark' = [effects |-> Len(effects), undone |-> Len(undone)]
    /\ status' = "running"
    /\ mode' = m /\ awaited' = node /\ pos' = 1 /\ pool' = p
    /\ chosen' = NothingChosen /\ saga' = <<>>
    /\ UNCHANGED <<flow, scanned, calls, effects, decided, undone>>

\* The memory of a turn goes with it.
EndTurn ==
    /\ status' = "idle"
    /\ mode' = "fresh" /\ awaited' = NoNode /\ pos' = 1 /\ pool' = EmptyPool
    /\ chosen' = NothingChosen /\ saga' = <<>>
    /\ UNCHANGED <<flow, scanned, history>>

\* First message: no waiting run, create_run and execute from the start.
StartRun ==
    /\ status = "idle" /\ row.status = "none"
    /\ row' = [row EXCEPT !.status = "running"]
    /\ BeginTurn("fresh", NoNode, EmptyPool)
    /\ UNCHANGED grants

\* The next message answers the suspended run; the pool is rebuilt from
\* node_state, the row itself is not touched until the turn is over.
Reply(answer) ==
    /\ status = "idle" /\ row.status = "waiting_human"
    /\ BeginTurn(answer, row.pending, row.saved)
    /\ grants' = IF answer = "approve" THEN [grants EXCEPT ![row.pending] = @ + 1] ELSE grants
    /\ UNCHANGED row

\* The message comes after the TTL and the suspended node has an error edge:
\* the run goes on along it.
LateReplyFails ==
    /\ status = "idle" /\ row.status = "waiting_human"
    /\ row.pending \in flow.branching
    /\ BeginTurn("expired", row.pending, row.saved)
    /\ UNCHANGED <<row, grants>>

\* The row times out, whatever it is by now.
TimeOut ==
    /\ row' = [row EXCEPT !.status = "timeout", !.pending = NoNode]
    /\ UNCHANGED <<flow, status, memory, history>>

\* The late message finds no error edge: it ends the run and starts another.
LateReplyEnds ==
    /\ status = "idle" /\ row.status = "waiting_human"
    /\ row.pending \notin flow.branching
    /\ TimeOut
    /\ UNCHANGED scanned

\* Mutant: only runs that have completed something are scanned.
ScanStarted ==
    /\ ~scanned /\ row.status = "waiting_human"
    /\ row.saved # EmptyPool
    /\ scanned' = TRUE
    /\ UNCHANGED <<flow, row, status, memory, history>>

\* The scheduler's scan selects a row that waits past its TTL, be a turn that
\* resumes the run in progress or not, and does not look at edges.
Scan ==
    /\ ~scanned /\ row.status = "waiting_human"
    /\ scanned' = TRUE
    /\ UNCHANGED <<flow, row, status, memory, history>>

\* Then it updates the row, by its id.
Expire ==
    /\ scanned
    /\ TimeOut
    /\ scanned' = FALSE

-------------------------------------------------------------------------------
(****************************************************************************)
(* The executor's loop: one action per way an item of plan.sequence is      *)
(* handled, in the order the code asks.                                     *)
(****************************************************************************)
Looping == status = "running" /\ pos <= Len(flow.sequence)
Item == flow.sequence[pos]
IsCondition(n) == flow.type[n] = "condition"
IsCapability(n) == flow.type[n] \in {"step", "capability"}

\* Mutant: a decided branch satisfies both sides.
GateDecided(n) == \A l \in flow.gate[n] : chosen[l[1]] # Undecided

GateSatisfied(n) == \A l \in flow.gate[n] : chosen[l[1]] = l[2]

\* Commands that nobody approved in the flow itself.
Gated == flow.command \ flow.approved

\* Mutant: approval_granted sticks to the whole resumed turn.
AsksHumanAfresh(n) == flow.type[n] = "human_approval" \/ (n \in Gated /\ mode = "fresh")

\* capability.call raises ApprovalPending for a command nobody has approved;
\* human.approval always does.
AsksHuman(n) == flow.type[n] = "human_approval" \/ n \in Gated

Choose(n, side) ==
    /\ chosen' = [chosen EXCEPT ![n] = side]
    /\ decided' = [decided EXCEPT ![n] = @ \cup {side}]

\* evaluate_condition: what the left operand's result makes of it.
Evaluate(c) ==
    LET r == pool[flow.left[c]]
    IN  CASE flow.op[c] = "exists" -> IF r \in {"hit", "miss"} THEN "then" ELSE "else"
          [] r = "hit"             -> "then"
          [] r = "miss"            -> "else"
          [] OTHER                 -> "unresolved"

TakeBranch ==
    /\ Looping /\ IsCondition(Item) /\ GateSatisfied(Item)
    /\ Evaluate(Item) # "unresolved"
    /\ Choose(Item, Evaluate(Item))
    /\ pos' = pos + 1
    /\ UNCHANGED <<surroundings, status, pool, saga, calls, effects, undone>>

\* ConditionEvaluationError: the plan fails on the spot, without a rollback.
ConditionFails ==
    /\ Looping /\ IsCondition(Item) /\ GateSatisfied(Item)
    /\ Evaluate(Item) = "unresolved"
    /\ status' = "failed"
    /\ UNCHANGED <<flow, row, scanned, memory, history>>

Resuming == mode # "fresh"
AtPending == Resuming /\ Item = awaited
Recorded == Resuming /\ ~AtPending /\ pool[Item] # NoResult

\* Every step: the item is at hand and earlier cases did not apply.
FreshItem == ~IsCondition(Item) /\ ~AtPending /\ ~Recorded

\* In the pool of the earlier turns: not replayed, and nothing else either.
PassRecorded ==
    /\ Looping /\ ~IsCondition(Item) /\ Recorded
    /\ pos' = pos + 1
    /\ UNCHANGED <<flow, row, status, scanned, mode, awaited, pool, chosen, saga, history>>

SkipUntaken ==
    /\ Looping /\ (IsCondition(Item) \/ FreshItem)
    /\ ~GateSatisfied(Item)
    /\ pos' = pos + 1
    /\ UNCHANGED <<flow, row, status, scanned, mode, awaited, pool, chosen, saga, history>>

\* ApprovalPending reaches the loop: the turn ends waiting for a human.
Suspend ==
    /\ Looping /\ FreshItem /\ GateSatisfied(Item)
    /\ AsksHuman(Item)
    /\ status' = "waiting_human"
    /\ UNCHANGED <<flow, row, scanned, memory, history>>

\* A step's result arrives: pool, branch, and the fail-fast rule.
Settle(r, register) ==
    /\ pool' = [pool EXCEPT ![Item] = r]
    /\ effects' = IF r = "failed" THEN effects ELSE Append(effects, Item)
    /\ saga' = IF register THEN Append(saga, Item) ELSE saga
    /\ IF Item \in flow.branching
       THEN /\ Choose(Item, IF r = "failed" THEN "error" ELSE "success")
            /\ pos' = pos + 1 /\ UNCHANGED status
       ELSE /\ UNCHANGED <<chosen, decided>>
            /\ IF r = "failed"
               THEN status' = "unwinding" /\ UNCHANGED pos
               ELSE pos' = pos + 1 /\ UNCHANGED status

\* The adapter is invoked k times before the result r: not at all if something
\* before it fails, again after each ConnectorError.
Invocations(r) == {k \in Tries : r # "failed" => k > 0}

CountCalls(k) == calls' = IF Item \in Gated THEN [calls EXCEPT ![Item] = @ + k] ELSE calls

\* An ordinary step.  A command that needs approval can only fail here: its
\* capability is unknown or deprecated, which is looked at before the gate.
Invoke(r, k) ==
    /\ Looping /\ FreshItem /\ GateSatisfied(Item)
    /\ flow.type[Item] # "human_approval"
    /\ AsksHuman(Item) => r = "failed"
    /\ k \in IF AsksHuman(Item) THEN {0} ELSE Invocations(r)
    /\ CountCalls(k)
    /\ Settle(r, r # "failed" /\ Item \in flow.comp \cup flow.undo)
    /\ UNCHANGED <<surroundings, undone>>

\* The suspended node after a timeout: failed, along its error edge.
ResumeFailed ==
    /\ Looping /\ ~IsCondition(Item) /\ AtPending
    /\ mode = "expired"
    /\ pool' = [pool EXCEPT ![Item] = "failed"]
    /\ Choose(Item, "error")
    /\ pos' = pos + 1
    /\ UNCHANGED <<surroundings, status, saga, calls, effects, undone>>

\* The suspended command and a reply that rejects it: the run is over.
ResumeRejected ==
    /\ Looping /\ IsCapability(Item) /\ AtPending
    /\ mode = "reject"
    /\ pool' = [pool EXCEPT ![Item] = "failed"]
    /\ IF Item \in flow.branching
       THEN Choose(Item, "error")
       ELSE UNCHANGED <<chosen, decided>>
    /\ status' = "rejected"
    /\ UNCHANGED <<surroundings, pos, saga, calls, effects, undone>>

\* The suspended command and any other reply: it runs with approval_granted.
\* Its compensation is registered from the plan's own step, whatever the result;
\* the one the registry declares was put on the granted copy.
ResumeGranted(r, k) ==
    /\ Looping /\ IsCapability(Item) /\ AtPending
    /\ mode = "approve"
    /\ k \in Invocations(r) /\ CountCalls(k)
    /\ Settle(r, Item \in flow.comp)
    /\ UNCHANGED <<surroundings, undone>>

\* A suspended human_approval node: the message is its output.
ResumeReplied(r) ==
    /\ Looping /\ ~IsCondition(Item) /\ ~IsCapability(Item) /\ AtPending
    /\ mode \in {"approve", "reject"}
    /\ r \in Verdicts
    /\ pool' = [pool EXCEPT ![Item] = r]
    /\ IF Item \in flow.branching
       THEN Choose(Item, "success")
       ELSE UNCHANGED <<chosen, decided>>
    /\ pos' = pos + 1
    /\ UNCHANGED <<surroundings, status, saga, calls, effects, undone>>

\* Mutant: compensations in order of registration.
CompensateForward ==
    /\ status = "unwinding" /\ saga # <<>>
    /\ undone' = Append(undone, Head(saga))
    /\ saga' = Tail(saga)
    /\ status' = IF Len(saga) = 1 THEN "rolled_back" ELSE status
    /\ UNCHANGED <<surroundings, pos, pool, chosen, calls, effects, decided>>

\* SagaCompensation.rollback: last registered first, failures swallowed.
Compensate ==
    /\ status = "unwinding" /\ saga # <<>>
    /\ undone' = Append(undone, saga[Len(saga)])
    /\ saga' = SubSeq(saga, 1, Len(saga) - 1)
    /\ status' = IF Len(saga) = 1 THEN "rolled_back" ELSE status
    /\ UNCHANGED <<surroundings, pos, pool, chosen, calls, effects, decided>>

\* Nothing registered: the failure is the outcome.
FailFast ==
    /\ status = "unwinding" /\ saga = <<>>
    /\ status' = "failed"
    /\ UNCHANGED <<flow, row, scanned, memory, history>>

Complete ==
    /\ status = "running" /\ pos > Len(flow.sequence)
    /\ status' = "completed"
    /\ UNCHANGED <<flow, row, scanned, memory, history>>

-------------------------------------------------------------------------------
(****************************************************************************)
(* The tail of flow_chat.                                                   *)
(****************************************************************************)
\* Mutant: nothing is kept.
SavedNothing == EmptyPool

\* Only the completed results are kept.
SavedPool == [n \in Node |-> IF pool[n] \in Verdicts THEN pool[n] ELSE NoResult]

\* update_waiting
SaveWaiting ==
    /\ status = "waiting_human"
    /\ row' = [status |-> "waiting_human", pending |-> Item, saved |-> SavedPool]
    /\ EndTurn

\* Mutant: a status no constraint allows is stored.
FinishRunUnchecked ==
    /\ status \in Outcomes \ {"waiting_human"}
    /\ row' = [row EXCEPT !.status = status, !.pending = NoNode]
    /\ EndTurn

\* finish_run: a status the CHECK constraint refuses raises, and the row stays.
FinishRun ==
    /\ status \in Outcomes \ {"waiting_human"}
    /\ row' = IF status \in Storable
              THEN [row EXCEPT !.status = status, !.pending = NoNode]
              ELSE row
    /\ EndTurn

\* The turn is cut off.
Abort ==
    /\ flow.cut
    /\ status # "idle"
    /\ EndTurn
    /\ UNCHANGED row

Step ==
    \/ TakeBranch \/ ConditionFails \/ PassRecorded \/ SkipUntaken \/ Suspend
    \/ \E r \in Results \ {NoResult} :
           ResumeReplied(r) \/ \E k \in Tries \cup {0} : Invoke(r, k) \/ ResumeGranted(r, k)
    \/ ResumeFailed \/ ResumeRejected
    \/ Compensate \/ FailFast \/ Complete
    \/ SaveWaiting \/ FinishRun

Next ==
    \/ StartRun
    \/ \E answer \in {"approve", "reject"} : Reply(answer)
    \/ LateReplyFails \/ LateReplyEnds
    \/ Scan \/ Expire
    \/ Step
    \/ Abort

\* A turn in progress goes on (the event loop runs it); the scheduler scans
\* waiting runs every minute and updates what it has selected.
Spec == Init /\ [][Next]_vars /\ WF_vars(Step) /\ WF_vars(Scan) /\ WF_vars(Expire)

-------------------------------------------------------------------------------
(****************************************************************************)
(* Properties.                                                              *)
(****************************************************************************)
TypeOK ==
    /\ row \in [status : Storable \cup {"none"}, pending : Node \cup {NoNode},
                saved : [Node -> Results]]
    /\ status \in Outcomes \cup {"idle", "running", "unwinding"}
    /\ scanned \in BOOLEAN
    /\ mode \in {"fresh", "approve", "reject", "expired"} /\ awaited \in Node \cup {NoNode}
    /\ pos \in Nat
    /\ pool \in [Node -> Results]
    /\ chosen \in [Node -> Sides \cup {Undecided}]
    /\ saga \in Seq(Node)
    /\ calls \in [Node -> Nat] /\ grants \in [Node -> Nat]
    /\ effects \in Seq(Node) /\ undone \in Seq(Node)
    /\ decided \in [Node -> SUBSET Sides]
    /\ mark \in [effects : Nat, undone : Nat]
    /\ turns \in 0..MaxTurns

\* A reply that does not reject a command pays for one execution of it, and that
\* for at most nine invocations of its adapter: however turns are suspended,
\* expired or cut off, no reply is used twice and none to another node counts
\* (the approval gate of capability.call under the retries of Connector.execute).
CommandsApproved == \A n \in Gated : calls[n] <= MostTries * grants[n]

Backwards(s) == [i \in 1..Len(s) |-> s[Len(s) + 1 - i]]
Compensable == flow.comp \cup flow.undo
Failed == status \in {"failed", "rolled_back"}

\* When a step fails, its turn has compensated what completed in it and has a
\* compensation, each once, last completed first.  What earlier turns completed
\* stays, and so does the effect of a command this turn was approved for unless
\* the plan itself declares how to compensate it; then it is compensated even if
\* it failed (the sagas of _execute_plan).
TurnsCompensate ==
    Failed /\ ~IsCondition(Item) =>
        LET done == SubSeq(effects, mark.effects + 1, Len(effects))
            gone == SubSeq(undone, mark.undone + 1, Len(undone))
            Owed(n) == n \in flow.comp \/ n \in flow.undo \ {awaited}
            Completed(n) == pool[n] # "failed"
        IN  /\ SelectSeq(gone, Completed) = Backwards(SelectSeq(done, Owed))
            /\ \A n \in Elements(gone) : Completed(n) \/ n = awaited

\* When a run fails, what completed and has a compensation has been compensated
\* ("On step failure: rolls back completed steps via SagaCompensation",
\* MultiStepExecutor.execute).
FailureCompensates ==
    Failed => undone = Backwards(SelectSeq(effects, LAMBDA n : n \in Compensable))

\* A run waiting for a human reaches a final status.
WaitingResolves == row.status = "waiting_human" ~> row.status \in Over
==============================================================================
