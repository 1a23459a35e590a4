---------------------------- MODULE CapabilityCalls ----------------------------
(****************************************************************************)
(* Capabilities: they are registered, changed and deprecated, planned with  *)
(* by the language model, and called.  A call passes the policy layer, and  *)
(* in a flow the connector's own gate, before its adapter runs; each of the *)
(* two levels of the connector tries three times.                           *)
(****************************************************************************)
EXTENDS Integers

CONSTANTS
    Capability, \* capability ids
    Permission,
    Adapter,    \* adapters of the declarations used here, with "none"
    Guess,      \* [Capability -> adapter]: what domain.name stands for, or "none"
    Rule,       \* capability of the business dictionary for the intent
    StepRun,    \* steps under way
    Admin,      \* requests that change capabilities
    Planner     \* requests for a plan

VARIABLES
    capabilities, \* [there, status, type, needs, adapter] of each capability
    permissions,  \* of the role that makes the calls
    steps,        \* [pc, capability, via, approved, needs, row, outer, inner, made, late] of each step
    changes,      \* [pc, capability, row] of each administrator
    plans,        \* [pc, offered, steps] of each request for a plan
    planCache     \* set of [offered, steps]: what the model answered to the same prompt

callVars == <<capabilities, permissions, steps, changes, plans, planCache>>

Attempts == 3  \* stop_after_attempt of Connector.execute

NoCapability == [there |-> FALSE, status |-> "active", type |-> "query", needs |-> {}, adapter |-> "none"]
NoStep == [pc |-> "off", capability |-> Rule, via |-> "flow", approved |-> FALSE, needs |-> {},
           row |-> NoCapability, outer |-> 0, inner |-> 0, made |-> 0, late |-> 0]
NoChange == [pc |-> "off", capability |-> Rule, row |-> NoCapability]
NoPlan == [pc |-> "off", offered |-> {}, steps |-> {}]

CallsInit ==
    /\ capabilities = [c \in Capability |-> NoCapability]
    /\ permissions = {}
    /\ steps = [s \in StepRun |-> NoStep]
    /\ changes = [a \in Admin |-> NoChange]
    /\ plans = [p \in Planner |-> NoPlan]
    /\ planCache = {}

-------------------------------------------------------------------------------
(* What the adapters may do: answer, raise a ConnectorError, which is tried *)
(* again, or raise anything else, which is not.                             *)

LlmPrompt == {"answer", "connector", "other"}
KnowledgeSearch == {"answer", "connector", "other"}
ChatHistory == {"answer", "connector", "other"}
QuAnswer == {"answer", "connector", "other"}
ToolFetch == {"answer", "connector", "other"}
Outcomes(adapter) ==
    CASE adapter = "demo.echo" -> {"answer"}
      [] adapter = "llm.prompt" -> LlmPrompt
      [] adapter = "knowledge.search" -> KnowledgeSearch
      [] adapter = "chat.history" -> ChatHistory
      [] adapter = "qu.answer" -> QuAnswer
      [] adapter = "tool.fetch" -> ToolFetch
      [] OTHER -> {"connector"}
Known == {"demo.echo", "llm.prompt", "knowledge.search", "chat.history", "qu.answer", "tool.fetch"}

\* The adapter that is declared, or else the one that domain.name is taken for.
Dispatched(c, row) == IF row.adapter # "none" THEN row.adapter ELSE Guess[c]

-------------------------------------------------------------------------------
(* Administration                                                           *)

\* late counts the calls of a step since the last change; only properties read it.
Forget == steps' = [s \in StepRun |-> [steps[s] EXCEPT !.late = 0]]

CreateCapability(c, type, needs, adapter) ==
    /\ ~capabilities[c].there
    /\ capabilities' = [capabilities EXCEPT ![c] =
           [there |-> TRUE, status |-> "active", type |-> type, needs |-> needs, adapter |-> adapter]]
    /\ Forget
    /\ UNCHANGED <<permissions, changes, plans, planCache>>

\* The row is read, and written back whole but for its status.
BeginChange(a, c, field, to) ==
    /\ changes[a] = NoChange
    /\ capabilities[c].there /\ capabilities[c].status = "active"
    /\ changes' = [changes EXCEPT ![a] =
           [pc |-> "write", capability |-> c, row |-> [capabilities[c] EXCEPT ![field] = to]]]
    /\ UNCHANGED <<capabilities, permissions, steps, plans, planCache>>

WriteChange(a) ==
    /\ changes[a].pc = "write"
    /\ capabilities' = [c \in Capability |->
           IF c = changes[a].capability THEN [changes[a].row EXCEPT !.status = capabilities[c].status]
           ELSE capabilities[c]]
    /\ changes' = [changes EXCEPT ![a] = NoChange]
    /\ Forget
    /\ UNCHANGED <<permissions, plans, planCache>>

ChangeFails(a) ==
    /\ changes[a].pc = "write"
    /\ changes' = [changes EXCEPT ![a] = NoChange]
    /\ UNCHANGED <<capabilities, permissions, steps, plans, planCache>>

\* There is no way back.
DeprecateCapability(c) ==
    /\ capabilities[c].there /\ capabilities[c].status = "active"
    /\ capabilities' = [capabilities EXCEPT ![c].status = "deprecated"]
    /\ Forget
    /\ UNCHANGED <<permissions, changes, plans, planCache>>

SetPermissions(granted) ==
    /\ permissions' = granted /\ granted # permissions
    /\ Forget
    /\ UNCHANGED <<capabilities, changes, plans, planCache>>

Step(s, step) ==
    /\ steps' = [steps EXCEPT ![s] = step]
    /\ UNCHANGED <<capabilities, permissions, changes, plans, planCache>>

StepOver(step) == [NoStep EXCEPT !.pc = "over", !.made = step.made, !.late = step.late]

-------------------------------------------------------------------------------
(* The policy layer, before a step                                          *)

\* A flow names any capability, and may have a human approve it before; an
\* invocation must discover it first, whatever its status, and goes by its
\* domain and name.
BeginStep(s, c, via, approved) ==
    /\ steps[s].pc = "off"
    /\ via = "invoke" => capabilities[c].there /\ ~approved
    /\ Step(s, [NoStep EXCEPT !.pc = "required", !.capability = c, !.via = via, !.approved = approved])

\* What the capability requires and what the role has are read one after the
\* other; a capability that is not there requires nothing.
RequiredPermissions(s) ==
    /\ steps[s].pc = "required"
    /\ Step(s, [steps[s] EXCEPT !.pc = "allowed", !.needs = capabilities[steps[s].capability].needs])

BeforeStep(s) ==
    /\ steps[s].pc = "allowed"
    /\ Step(s, IF ~(steps[s].needs \subseteq permissions) THEN StepOver(steps[s])
               ELSE IF steps[s].via = "invoke" THEN [steps[s] EXCEPT !.pc = "adapter", !.needs = {}, !.inner = 1]
               ELSE [steps[s] EXCEPT !.pc = "row", !.needs = {}, !.outer = 1])

-------------------------------------------------------------------------------
(* Connector.execute                                                        *)

\* Mutant: a new attempt goes straight to the adapter that was dispatched.
RedispatchFailed(s) ==
    IF steps[s].via = "flow" /\ steps[s].outer < Attempts
    THEN [steps[s] EXCEPT !.pc = IF @ = "adapter" THEN "adapter" ELSE "row", !.outer = @ + 1, !.inner = 1]
    ELSE StepOver(steps[s])

\* A ConnectorError at the outer level: from the beginning, or the last one.
AttemptFailed(s) ==
    IF steps[s].via = "flow" /\ steps[s].outer < Attempts
    THEN [steps[s] EXCEPT !.pc = "row", !.row = NoCapability, !.outer = @ + 1, !.inner = 0]
    ELSE StepOver(steps[s])

\* A capability that is missing or deprecated is an error; a command that was
\* not approved suspends the run.
ReadCapability(s) ==
    /\ steps[s].pc = "row"
    /\ LET row == capabilities[steps[s].capability]
       IN Step(s, IF ~row.there \/ row.status # "active" THEN AttemptFailed(s)
                  ELSE IF row.type = "command" /\ ~steps[s].approved THEN [steps[s] EXCEPT !.pc = "waiting"]
                  ELSE [steps[s] EXCEPT !.pc = "permissions", !.row = row])

CheckPermissions(s) ==
    /\ steps[s].pc = "permissions"
    /\ Step(s, IF /\ steps[s].row.needs \subseteq permissions
                  /\ Dispatched(steps[s].capability, steps[s].row) \in Known
               THEN [steps[s] EXCEPT !.pc = "adapter", !.inner = 1]
               ELSE AttemptFailed(s))

\* May the call go ahead as things are now?
Callable(s) ==
    LET row == capabilities[steps[s].capability]
    IN /\ row.needs \subseteq permissions
       /\ steps[s].via = "flow" => /\ row.there /\ row.status = "active"
                                   /\ row.type = "command" => steps[s].approved

\* The adapter runs; the inner level tries three times.
CallAdapter(s, outcome) ==
    LET step == [steps[s] EXCEPT !.made = @ + 1, !.late = IF Callable(s) THEN @ ELSE @ + 1]
        adapter == IF step.via = "flow" THEN Dispatched(step.capability, step.row) ELSE Guess[step.capability]
        failed == AttemptFailed(s)
    IN /\ steps[s].pc = "adapter" /\ outcome \in Outcomes(adapter)
       /\ Step(s, IF outcome = "connector" /\ step.inner < Attempts THEN [step EXCEPT !.inner = @ + 1]
                  ELSE IF outcome = "connector"
                  THEN [failed EXCEPT !.made = step.made, !.late = step.late]
                  ELSE StepOver(step))

\* The answer of a human: the step runs again from its layers, or never.
Approve(s) ==
    /\ steps[s].pc = "waiting"
    /\ Step(s, [steps[s] EXCEPT !.pc = "required", !.approved = TRUE, !.outer = 0, !.made = 0])
Reject(s) == steps[s].pc = "waiting" /\ Step(s, StepOver(steps[s]))

EndStep(s) == steps[s].pc = "over" /\ Step(s, NoStep)

-------------------------------------------------------------------------------
(* Plans of the language model                                              *)

Plan(p, plan) ==
    /\ plans' = [plans EXCEPT ![p] = plan]
    /\ UNCHANGED <<capabilities, permissions, steps, changes>>

\* All capabilities, or those that fit the entities of the intent.
ListForPlanning(p, offered) ==
    /\ plans[p] = NoPlan
    /\ offered \subseteq {c \in Capability : capabilities[c].there}
    /\ offered = {} => \A c \in Capability : ~capabilities[c].there
    /\ Plan(p, [pc |-> "cache", offered |-> offered, steps |-> {}]) /\ UNCHANGED planCache

\* The key of the cache holds the capabilities that are offered.
Cached(offered) == {e \in planCache : e.offered = offered}

LookUpPlan(p) ==
    /\ plans[p].pc = "cache"
    /\ IF Cached(plans[p].offered) # {}
       THEN \E e \in Cached(plans[p].offered) : Plan(p, [plans[p] EXCEPT !.pc = "planned", !.steps = e.steps])
       ELSE Plan(p, [plans[p] EXCEPT !.pc = IF plans[p].offered = {} THEN "rule" ELSE "model"])
    /\ UNCHANGED planCache

\* The model names any capabilities; those that were not offered are dropped.
AskModel(p, named) ==
    LET valid == named \cap plans[p].offered
    IN /\ plans[p].pc = "model"
       /\ IF valid = {}
          THEN Plan(p, [plans[p] EXCEPT !.pc = "rule"]) /\ UNCHANGED planCache
          ELSE /\ Plan(p, [plans[p] EXCEPT !.pc = "planned", !.steps = valid])
               /\ planCache' = {e \in planCache : e.offered # plans[p].offered}
                                   \cup {[offered |-> plans[p].offered, steps |-> valid]}

\* Without an answer the dictionary decides, offered or not, if it knows the intent.
AskRules(p) ==
    /\ plans[p].pc = "rule"
    /\ \E planned \in {NoPlan, [plans[p] EXCEPT !.pc = "planned", !.steps = {Rule}]} : Plan(p, planned)
    /\ UNCHANGED planCache

EndPlan(p) == plans[p].pc = "planned" /\ Plan(p, NoPlan) /\ UNCHANGED planCache

Expire(e) ==
    /\ planCache' = planCache \ {e}
    /\ UNCHANGED <<capabilities, permissions, steps, changes, plans>>

-------------------------------------------------------------------------------
Administrate ==
    \/ \E c \in Capability : DeprecateCapability(c)
    \/ \E c \in Capability, type \in {"query", "command"}, needs \in (SUBSET Permission) \ {{}}, d \in Adapter :
          CreateCapability(c, type, needs, d)
    \/ \E a \in Admin : WriteChange(a) \/ ChangeFails(a)
    \/ \E a \in Admin, c \in Capability :
          \/ \E type \in {"query", "command"} : BeginChange(a, c, "type", type)
          \/ \E needs \in (SUBSET Permission) \ {{}} : BeginChange(a, c, "needs", needs)
          \/ \E d \in Adapter : BeginChange(a, c, "adapter", d)
    \/ \E granted \in SUBSET Permission : SetPermissions(granted)

CallNext ==
    \/ Administrate
    \/ \E s \in StepRun :
          \/ \E c \in Capability, via \in {"flow", "invoke"}, approved \in BOOLEAN : BeginStep(s, c, via, approved)
          \/ RequiredPermissions(s) \/ BeforeStep(s) \/ ReadCapability(s) \/ CheckPermissions(s)
          \/ \E outcome \in {"answer", "connector", "other"} : CallAdapter(s, outcome)
          \/ Approve(s) \/ Reject(s) \/ EndStep(s)

PlanNext ==
    \/ Administrate
    \/ \E p \in Planner :
          \/ \E offered \in SUBSET Capability : ListForPlanning(p, offered)
          \/ \E named \in SUBSET Capability : AskModel(p, named)
          \/ LookUpPlan(p) \/ AskRules(p) \/ EndPlan(p)
    \/ \E e \in planCache : Expire(e)

CallsSpec == CallsInit /\ [][CallNext \/ PlanNext]_callVars

-------------------------------------------------------------------------------
\* Each field holds a value of its set.
CallsTypeOK ==
    /\ \A c \in Capability : /\ capabilities[c].status \in {"active", "deprecated"}
                             /\ capabilities[c].needs \subseteq Permission
    /\ permissions \subseteq Permission

\* However the two levels of retries and the failures of the adapter fall, one
\* run of a step calls its adapter nine times at most, and once a capability is
\* deprecated, made a command, or closed to the role, a step that is under way
\* against it runs it three times more at most.
CallsAreGoverned == \A s \in StepRun : steps[s].made <= Attempts * Attempts /\ steps[s].late <= Attempts

\* A plan is what the model chose from the capabilities that were offered to
\* it, however old the answer, or the one step of the dictionary.
PlansAreOffered ==
    \A p \in Planner : plans[p].pc = "planned" => plans[p].steps \subseteq plans[p].offered \/ plans[p].steps = {Rule}

\* What is governed of a capability: the calls that are made of it, and the
\* plans that name it.
CapabilitiesAreGoverned == CallsAreGoverned /\ PlansAreOffered
===============================================================================
