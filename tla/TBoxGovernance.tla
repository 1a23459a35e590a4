---------------------------- MODULE TBoxGovernance ----------------------------
(****************************************************************************)
(* The governed life of one entity type: change requests that create,       *)
(* deprecate, reactivate it or move it to another data domain, reviewed by  *)
(* somebody else than the requester, and the instances that are written     *)
(* into it at the same time.  The data domain decides who may see an        *)
(* instance, and an instance has the domain of its type.                    *)
(*                                                                          *)
(* An approval reads the request in one transaction and applies it in a     *)
(* second.  A move is applied and marked in that second transaction; the    *)
(* other actions are marked in a third.  A move checks what it needs, then  *)
(* locks the row of the type, and the writer of an instance shares that     *)
(* lock until it commits.                                                   *)
(****************************************************************************)
EXTENDS Naturals, FiniteSets

CONSTANTS
    Domain,     \* data domains
    TypeChange, \* change requests
    Steward,    \* users who request and review
    Instance,   \* identities new instances may get
    Author,     \* requests that write instances
    NoDomain

ASSUME TBoxConstants == NoDomain \notin Domain

VARIABLES
    entityType,     \* [status, domain] of the type's row; status "none" without one
    activeDomains,  \* data domains of status active
    requested,      \* [status, action, domain, by] of each change request
    reviewing,      \* per steward: the change whose approval has been admitted, [pc, change]
    instances,      \* [status, domain] of each instance
    authoring,      \* [pc, domain, locks] of each author, who may share the lock of the type
    tookEffect      \* changes that have taken effect (history)

tboxVars == <<entityType, activeDomains, requested, reviewing, instances, authoring, tookEffect>>

NoInstance == [status |-> "none", domain |-> NoDomain]
AtRest == [pc |-> "rest", change |-> NoDomain]
NotWriting == [pc |-> "rest", domain |-> NoDomain, locks |-> FALSE]

\* No writer of an instance holds the type's row; there may be no row to hold.
TypeUnlocked == \A a \in Author : ~authoring[a].locks

TBoxInit ==
    /\ entityType = [status |-> "none", domain |-> NoDomain]
    /\ activeDomains = Domain
    /\ requested = [q \in TypeChange |-> [status |-> "none"]]
    /\ reviewing = [s \in Steward |-> AtRest]
    /\ instances = [i \in Instance |-> NoInstance]
    /\ authoring = [a \in Author |-> NotWriting]
    /\ tookEffect = {}

-------------------------------------------------------------------------------
\* A domain is switched off or on by the administration.
DomainSwitched(d) ==
    /\ activeDomains' = IF d \in activeDomains THEN activeDomains \ {d} ELSE activeDomains \cup {d}
    /\ UNCHANGED <<entityType, requested, reviewing, instances, authoring, tookEffect>>

\* What is checked of a request before it is stored.
Plausible(action, d) ==
    CASE action = "create" -> entityType.status = "none"
      [] action = "update" -> entityType.status = "active" /\ d \in activeDomains /\ d # entityType.domain
      [] OTHER -> d = NoDomain

SubmitChange(q, s, action, d) ==
    /\ requested[q].status = "none" /\ Plausible(action, d)
    /\ requested' = [requested EXCEPT ![q] = [status |-> "pending", action |-> action, domain |-> d, by |-> s]]
    /\ UNCHANGED <<entityType, activeDomains, reviewing, instances, authoring, tookEffect>>

\* The first transaction of an approval.
AdmitApproval(s, q) ==
    /\ reviewing[s] = AtRest
    /\ requested[q].status = "pending" /\ requested[q].by # s
    /\ reviewing' = [reviewing EXCEPT ![s] = [pc |-> "apply", change |-> q]]
    /\ UNCHANGED <<entityType, activeDomains, requested, instances, authoring, tookEffect>>

\* The row of the type is created, deprecated or reactivated.  An action that
\* finds another status changes nothing; only creation takes it for an error.
ChangeType(action, d) ==
    LET from == CASE action = "create" -> "none" [] action = "deprecate" -> "active" [] OTHER -> "deprecated"
    IN IF entityType.status # from THEN UNCHANGED entityType
       ELSE /\ TypeUnlocked
            /\ entityType' = [status |-> IF action = "deprecate" THEN "deprecated" ELSE "active",
                              domain |-> IF action = "create" THEN d ELSE entityType.domain]

\* The administration has routes of its own that ask for no request.
TypeChangedDirectly(action, d) ==
    /\ ChangeType(action, d)
    /\ UNCHANGED <<activeDomains, requested, reviewing, instances, authoring, tookEffect>>

\* A creation that is refused leaves its request pending.
ApplyStatus(s) ==
    LET q == reviewing[s].change
        action == requested[q].action
        refused == action = "create" /\ entityType.status # "none"
    IN /\ reviewing[s].pc = "apply" /\ action # "update"
       /\ ChangeType(action, requested[q].domain)
       /\ tookEffect' = tookEffect \cup (IF refused THEN {} ELSE {q})
       /\ reviewing' = [reviewing EXCEPT ![s] = IF refused THEN AtRest ELSE [@ EXCEPT !.pc = "mark"]]
       /\ UNCHANGED <<activeDomains, requested, instances, authoring>>

\* The third transaction; it does not look at the status of the request again.
MarkApplied(s) ==
    /\ reviewing[s].pc = "mark"
    /\ requested' = [requested EXCEPT ![reviewing[s].change].status = "applied"]
    /\ reviewing' = [reviewing EXCEPT ![s] = AtRest]
    /\ UNCHANGED <<entityType, activeDomains, instances, authoring, tookEffect>>

\* The second transaction of a move reads the type and the domain without a
\* lock; if one of them is not active the request stays pending.
CheckDomain(s) ==
    LET q == reviewing[s].change
        holds == entityType.status = "active" /\ requested[q].domain \in activeDomains
    IN /\ reviewing[s].pc = "apply" /\ requested[q].action = "update"
       /\ reviewing' = [reviewing EXCEPT ![s] = IF holds THEN [@ EXCEPT !.pc = "move"] ELSE AtRest]
       /\ UNCHANGED <<entityType, activeDomains, requested, instances, authoring, tookEffect>>

\* Its update waits for the writers; then type, instances and request move
\* together, also if the type or the domain is not active any more.
ApplyDomain(s) ==
    LET q == reviewing[s].change
        d == requested[q].domain
    IN /\ reviewing[s].pc = "move" /\ TypeUnlocked
       /\ entityType' = [entityType EXCEPT !.domain = d]
       /\ instances' = [i \in Instance |->
              IF instances[i].status \in {"active", "deprecated"}
              THEN [instances[i] EXCEPT !.domain = d] ELSE instances[i]]
       /\ requested' = [requested EXCEPT ![q].status = "applied"]
       /\ tookEffect' = tookEffect \cup {q}
       /\ reviewing' = [reviewing EXCEPT ![s] = AtRest]
       /\ UNCHANGED <<activeDomains, authoring>>

RejectChange(s, q) ==
    /\ requested[q].status = "pending"
    /\ requested' = [requested EXCEPT ![q].status = "rejected"]
    /\ UNCHANGED <<entityType, activeDomains, reviewing, instances, authoring, tookEffect>>

\* The connection is lost between two transactions of an approval.
ApprovalLost(s) ==
    /\ reviewing[s] # AtRest
    /\ reviewing' = [reviewing EXCEPT ![s] = AtRest]
    /\ UNCHANGED <<entityType, activeDomains, requested, instances, authoring, tookEffect>>

-------------------------------------------------------------------------------
\* Mutant: the type is read without a lock.
ReadTypeUnlocked(a) ==
    /\ authoring[a] = NotWriting
    /\ authoring' = [authoring EXCEPT ![a] = [pc |-> "write", domain |-> entityType.domain, locks |-> FALSE]]
    /\ UNCHANGED <<entityType, activeDomains, requested, reviewing, instances, tookEffect>>

\* The type's row is locked in share mode and its domain read; a type that is
\* not there has none, and nothing to lock.
ReadTypeDomain(a) ==
    /\ authoring[a] = NotWriting
    /\ authoring' = [authoring EXCEPT ![a] = [pc |-> "write", domain |-> entityType.domain,
                                              locks |-> entityType.status # "none"]]
    /\ UNCHANGED <<entityType, activeDomains, requested, reviewing, instances, tookEffect>>

\* A new instance, or the active one with the same business code again.  An
\* instance of a type that is not there is not refused; it has no domain.
WriteInstance(a, i) ==
    /\ authoring[a].pc = "write"
    /\ instances[i].status \in {"none", "active"}
    /\ instances' = [instances EXCEPT ![i] = [status |-> "active", domain |-> authoring[a].domain]]
    /\ authoring' = [authoring EXCEPT ![a] = NotWriting]
    /\ UNCHANGED <<entityType, activeDomains, requested, reviewing, tookEffect>>

\* A domain that is given and is not the one of the type, or a lost connection.
AuthoringAborts(a) ==
    /\ authoring[a] # NotWriting
    /\ authoring' = [authoring EXCEPT ![a] = NotWriting]
    /\ UNCHANGED <<entityType, activeDomains, requested, reviewing, instances, tookEffect>>

DeprecateInstance(i) ==
    /\ instances[i].status = "active"
    /\ instances' = [instances EXCEPT ![i].status = "deprecated"]
    /\ UNCHANGED <<entityType, activeDomains, requested, reviewing, authoring, tookEffect>>

TBoxNext ==
    \/ \E d \in Domain : DomainSwitched(d) \/ TypeChangedDirectly("create", d)
    \/ TypeChangedDirectly("deprecate", NoDomain)
    \/ \E q \in TypeChange, s \in Steward :
          \/ \E action \in {"create", "deprecate", "reactivate", "update"}, d \in Domain \cup {NoDomain} :
                SubmitChange(q, s, action, d)
          \/ AdmitApproval(s, q) \/ RejectChange(s, q)
    \/ \E s \in Steward : ApplyStatus(s) \/ MarkApplied(s) \/ CheckDomain(s) \/ ApplyDomain(s) \/ ApprovalLost(s)
    \/ \E a \in Author : ReadTypeDomain(a) \/ AuthoringAborts(a) \/ \E i \in Instance : WriteInstance(a, i)
    \/ \E i \in Instance : DeprecateInstance(i)

TBoxSpec == TBoxInit /\ [][TBoxNext]_tboxVars

-------------------------------------------------------------------------------
TBoxTypeOK ==
    /\ entityType \in [status : {"none", "active", "deprecated"}, domain : Domain \cup {NoDomain}]
    /\ instances \in [Instance -> [status : {"none", "active", "deprecated"}, domain : Domain \cup {NoDomain}]]
    /\ \A q \in TypeChange : requested[q].status \in {"none", "pending", "applied", "rejected"}
    /\ \A s \in Steward : reviewing[s].pc \in {"rest", "apply", "move", "mark"}
    /\ activeDomains \subseteq Domain

\* However a move of the type to another domain is interleaved with the writers
\* of its instances, no instance is left in a domain its type is not in: it has
\* the type's, or none if it was written before the type was there.
InstancesFollowType ==
    \A i \in Instance : instances[i].domain \in {entityType.domain, NoDomain}

\* A move has taken effect exactly when its request says applied, also when two
\* stewards approve it at once, another rejects it or an approval is lost; the
\* other actions at least when it does.
MovedAsRecorded ==
    \A q \in TypeChange : requested[q].status # "none" =>
        IF requested[q].action = "update" THEN requested[q].status = "applied" <=> q \in tookEffect
        ELSE requested[q].status = "applied" => q \in tookEffect

\* The instances of a governed type and the requests that govern it agree with
\* it: both of the above.
TypesAreGoverned == InstancesFollowType /\ MovedAsRecorded
===============================================================================
