---------------------------- MODULE Ontology_proofs ----------------------------
(****************************************************************************)
(* Proofs about the governance of the ontology, for any number of domains,  *)
(* stewards, writers, change requests, files and importers: instances       *)
(* follow their type and requests record what happened (TBoxGovernance);    *)
(* every fact that a check covers fits its relation, and an import takes    *)
(* what its dry run promised (RelationFacts).  And about the evaluation of  *)
(* what is answered from it, for any number of runs, cases, workers and     *)
(* retries (EvalRuns).                                                      *)
(****************************************************************************)
EXTENDS TBoxGovernance, RelationFacts, EvalRuns, NumberFacts, TLAPS

Actions == {"create", "deprecate", "reactivate", "update"}
SomeDomain == Domain \cup {NoDomain}
EntityTypeRow == [status : {"none", "active", "deprecated"}, domain : SomeDomain]
Unsent == [status : {"none"}]
Sent == [status : {"pending", "applied", "rejected"}, action : Actions, domain : SomeDomain, by : Steward]
Admitted == [pc : {"apply", "move", "mark"}, change : TypeChange]
Writing == [pc : {"rest", "write"}, domain : SomeDomain, locks : BOOLEAN]

\* Every variable has a value of its set; a request has the fields of one once
\* it is sent, and a steward at work has a change.
TypeTInv ==
    /\ entityType \in EntityTypeRow
    /\ activeDomains \subseteq Domain
    /\ requested \in [TypeChange -> Unsent \cup Sent]
    /\ reviewing \in [Steward -> {AtRest} \cup Admitted]
    /\ instances \in [Instance -> EntityTypeRow]
    /\ authoring \in [Author -> Writing]
    /\ \A s \in Steward : reviewing[s].pc # "rest" => requested[reviewing[s].change] \in Sent

\* The lock argument.  Without a row there is no domain.  Who writes has the
\* domain of the type for as long as it shares the lock of the row, and none if
\* there was no row to lock; so no move can come between its read and its write.
DomainOf(a) == authoring[a].domain = IF authoring[a].locks THEN entityType.domain ELSE NoDomain
LockInv ==
    /\ entityType.status = "none" => entityType.domain = NoDomain
    /\ \A a \in Author : DomainOf(a)
    /\ \A i \in Instance :
          /\ instances[i].status = "none" => instances[i].domain = NoDomain
          /\ instances[i].domain \in {entityType.domain, NoDomain}

\* A move that has been checked is of a type that has a row.
CheckedAt(s) == reviewing[s].pc = "move" =>
    entityType.status # "none" /\ requested[reviewing[s].change].action = "update"
CheckInv == \A s \in Steward : CheckedAt(s)

\* An approval that only has to be marked has taken effect and is no move.
ReviewAt(s) == reviewing[s].pc = "mark" =>
    requested[reviewing[s].change].action # "update" /\ reviewing[s].change \in tookEffect
RecordAt(q) ==
    IF requested[q].status = "none" THEN q \notin tookEffect
    ELSE IF requested[q].action = "update" THEN requested[q].status = "applied" <=> q \in tookEffect
    ELSE requested[q].status = "applied" => q \in tookEffect
ReviewInv == (\A s \in Steward : ReviewAt(s)) /\ (\A q \in TypeChange : RecordAt(q))

IInv == TypeTInv /\ CheckInv /\ LockInv /\ ReviewInv

-------------------------------------------------------------------------------
(* Typing                                                                   *)

LEMMA InitTypeTInv == TBoxInit => TypeTInv
  <1> SUFFICES ASSUME TBoxInit PROVE TypeTInv
    OBVIOUS
  <1>1. entityType \in EntityTypeRow /\ NoInstance \in EntityTypeRow /\ NotWriting \in Writing
    BY DEF TBoxInit, EntityTypeRow, SomeDomain, NoInstance, NotWriting, Writing
  <1>2. [status |-> "none"] \in Unsent /\ AtRest.pc = "rest"
    BY DEF Unsent, AtRest
  <1> QED
    BY <1>1, <1>2 DEF TBoxInit, TypeTInv

\* Changing the status of a sent request leaves a sent request with the same
\* action, domain and requester.
LEMMA StatusUpdate ==
    ASSUME TypeTInv, NEW q \in TypeChange, requested[q].status # "none", NEW status \in {"applied", "rejected"},
           requested' = [requested EXCEPT ![q].status = status]
    PROVE  /\ requested[q] \in Sent
           /\ requested' \in [TypeChange -> Unsent \cup Sent]
           /\ requested'[q] \in Sent /\ requested'[q].status = status
           /\ requested'[q].action = requested[q].action
           /\ \A r \in TypeChange : r # q => requested'[r] = requested[r]
  <1>1. requested[q] \in Sent
    BY DEF TypeTInv, Unsent
  <1>2. [requested[q] EXCEPT !.status = status] \in Sent
    BY <1>1 DEF Sent
  <1>3. requested' = [requested EXCEPT ![q] = [requested[q] EXCEPT !.status = status]]
    BY DEF TypeTInv
  <1> QED
    BY <1>1, <1>2, <1>3 DEF TypeTInv, Sent

\* Actions on the row of the type write a row, or leave it.
LEMMA ChangeTypeTyped ==
    ASSUME TypeTInv, NEW action \in Actions, NEW d \in SomeDomain, ChangeType(action, d)
    PROVE  entityType' \in EntityTypeRow
  BY DEF TypeTInv, ChangeType, EntityTypeRow, Actions

LEMMA NextTypeTInv == TypeTInv /\ [TBoxNext]_tboxVars => TypeTInv'
  <1> SUFFICES ASSUME TypeTInv, [TBoxNext]_tboxVars PROVE TypeTInv'
    OBVIOUS
  <1> USE DEF SomeDomain
  <1>1. CASE \E d \in Domain : DomainSwitched(d)
    BY <1>1 DEF TypeTInv, DomainSwitched
  <1>2. ASSUME NEW action \in Actions, NEW d \in SomeDomain, TypeChangedDirectly(action, d) PROVE TypeTInv'
    BY <1>2, ChangeTypeTyped DEF TypeTInv, TypeChangedDirectly
  <1>3. ASSUME NEW q \in TypeChange, NEW s \in Steward, NEW action \in Actions, NEW d \in SomeDomain,
               SubmitChange(q, s, action, d)
        PROVE  TypeTInv'
    <2>1. [status |-> "pending", action |-> action, domain |-> d, by |-> s] \in Sent
      BY DEF Sent
    <2> QED
      BY <1>3, <2>1 DEF TypeTInv, SubmitChange
  <1>4. ASSUME NEW q \in TypeChange, NEW s \in Steward, AdmitApproval(s, q) PROVE TypeTInv'
    <2>1. [pc |-> "apply", change |-> q] \in Admitted /\ requested[q] \in Sent
      BY <1>4 DEF TypeTInv, AdmitApproval, Admitted, Unsent
    <2> QED
      BY <1>4, <2>1 DEF TypeTInv, AdmitApproval
  <1>5. ASSUME NEW q \in TypeChange, NEW s \in Steward, RejectChange(s, q) PROVE TypeTInv'
    <2>1. /\ requested' \in [TypeChange -> Unsent \cup Sent] /\ requested'[q] \in Sent
          /\ \A r \in TypeChange : r # q => requested'[r] = requested[r]
      BY <1>5, StatusUpdate DEF RejectChange
    <2>2. \A r \in TypeChange : requested[r] \in Sent => requested'[r] \in Sent
      BY <2>1
    <2>3. reviewing' = reviewing /\ \A t \in Steward : reviewing[t].pc # "rest" => reviewing[t].change \in TypeChange
      BY <1>5 DEF RejectChange, TypeTInv, Admitted, AtRest
    <2> QED
      BY <1>5, <2>1, <2>2, <2>3 DEF TypeTInv, RejectChange
  <1>6. ASSUME NEW s \in Steward, ApplyStatus(s) PROVE TypeTInv'
    <2> DEFINE q == reviewing[s].change
    <2>1. reviewing[s] \in Admitted
      BY <1>6 DEF TypeTInv, ApplyStatus, AtRest
    <2>2. q \in TypeChange /\ requested[q].action \in Actions /\ requested[q].domain \in SomeDomain
      BY <1>6, <2>1 DEF TypeTInv, Admitted, Sent, ApplyStatus
    <2>3. entityType' \in EntityTypeRow
      BY <1>6, <2>2, ChangeTypeTyped DEF ApplyStatus
    <2>4. reviewing' \in [Steward -> {AtRest} \cup Admitted]
      BY <1>6, <2>1 DEF TypeTInv, ApplyStatus, Admitted
    <2>5. \A t \in Steward : reviewing'[t].pc # "rest" => reviewing[t].pc # "rest" /\ reviewing'[t].change = reviewing[t].change
      BY <1>6, <2>1 DEF TypeTInv, ApplyStatus, Admitted, AtRest
    <2> QED
      BY <1>6, <2>3, <2>4, <2>5 DEF TypeTInv, ApplyStatus
  <1>7. ASSUME NEW s \in Steward, MarkApplied(s) PROVE TypeTInv'
    <2> DEFINE q == reviewing[s].change
    <2>1. q \in TypeChange /\ requested[q] \in Sent
      BY <1>7 DEF TypeTInv, MarkApplied, Admitted, AtRest
    <2>2. requested[q].status # "none"
      BY <2>1 DEF Sent
    <2>3. /\ requested' \in [TypeChange -> Unsent \cup Sent] /\ requested'[q] \in Sent
          /\ \A r \in TypeChange : r # q => requested'[r] = requested[r]
      BY <1>7, <2>1, <2>2, StatusUpdate DEF MarkApplied
    <2>4. \A t \in Steward : reviewing'[t].pc # "rest" =>
              reviewing'[t] = reviewing[t] /\ reviewing[t].change \in TypeChange
      BY <1>7 DEF TypeTInv, MarkApplied, Admitted, AtRest
    <2> QED
      BY <1>7, <2>3, <2>4 DEF TypeTInv, MarkApplied
  <1>15. ASSUME NEW s \in Steward, CheckDomain(s) PROVE TypeTInv'
    <2>1. reviewing[s] \in Admitted
      BY <1>15 DEF TypeTInv, CheckDomain, AtRest
    <2>2. reviewing' \in [Steward -> {AtRest} \cup Admitted]
      BY <1>15, <2>1 DEF TypeTInv, CheckDomain, Admitted
    <2>3. \A t \in Steward : reviewing'[t].pc # "rest" => reviewing[t].pc # "rest" /\ reviewing'[t].change = reviewing[t].change
      BY <1>15, <2>1 DEF TypeTInv, CheckDomain, Admitted, AtRest
    <2> QED
      BY <1>15, <2>2, <2>3 DEF TypeTInv, CheckDomain
  <1>8. ASSUME NEW s \in Steward, ApplyDomain(s) PROVE TypeTInv'
    <2> DEFINE q == reviewing[s].change
    <2>1. q \in TypeChange /\ requested[q] \in Sent
      BY <1>8 DEF TypeTInv, ApplyDomain, Admitted, AtRest
    <2>2. requested[q].status # "none" /\ requested[q].domain \in SomeDomain
      BY <2>1 DEF Sent
    <2>3. /\ requested' \in [TypeChange -> Unsent \cup Sent]
          /\ \A r \in TypeChange : requested[r] \in Sent => requested'[r] \in Sent
      <3>1. /\ requested' \in [TypeChange -> Unsent \cup Sent] /\ requested'[q] \in Sent
            /\ \A r \in TypeChange : r # q => requested'[r] = requested[r]
        BY <1>8, <2>1, <2>2, StatusUpdate DEF ApplyDomain
      <3> QED
        BY <3>1
    <2>4. \A t \in Steward : reviewing'[t].pc # "rest" =>
              reviewing'[t] = reviewing[t] /\ reviewing[t].change \in TypeChange
      BY <1>8 DEF TypeTInv, ApplyDomain, Admitted, AtRest
    <2>5. reviewing' \in [Steward -> {AtRest} \cup Admitted]
      BY <1>8 DEF TypeTInv, ApplyDomain
    <2>6. entityType' \in EntityTypeRow
      BY <1>8, <2>2 DEF TypeTInv, ApplyDomain, EntityTypeRow
    <2>7. instances' \in [Instance -> EntityTypeRow]
      BY <1>8, <2>2 DEF TypeTInv, ApplyDomain, EntityTypeRow
    <2> QED
      BY <1>8, <2>3, <2>4, <2>5, <2>6, <2>7 DEF TypeTInv, ApplyDomain
  <1>9. ASSUME NEW s \in Steward, ApprovalLost(s) PROVE TypeTInv'
    BY <1>9 DEF TypeTInv, ApprovalLost, AtRest
  <1>10. ASSUME NEW a \in Author, ReadTypeDomain(a) PROVE TypeTInv'
    BY <1>10 DEF TypeTInv, ReadTypeDomain, EntityTypeRow, Writing
  <1>11. ASSUME NEW a \in Author, AuthoringAborts(a) PROVE TypeTInv'
    BY <1>11 DEF TypeTInv, AuthoringAborts, NotWriting, Writing
  <1>12. ASSUME NEW a \in Author, NEW i \in Instance, WriteInstance(a, i) PROVE TypeTInv'
    BY <1>12 DEF TypeTInv, WriteInstance, NotWriting, Writing, EntityTypeRow
  <1>13. ASSUME NEW i \in Instance, DeprecateInstance(i) PROVE TypeTInv'
    <2>1. [instances[i] EXCEPT !.status = "deprecated"] \in EntityTypeRow
      BY DEF TypeTInv, EntityTypeRow
    <2> QED
      BY <1>13, <2>1 DEF TypeTInv, DeprecateInstance
  <1>14. CASE UNCHANGED tboxVars
    BY <1>14 DEF TypeTInv, tboxVars
  <1> QED
    BY <1>1, <1>2, <1>3, <1>4, <1>5, <1>6, <1>7, <1>8, <1>9, <1>10, <1>11, <1>12, <1>13, <1>14, <1>15
    DEF TBoxNext, Actions

\* The type invariant of the module, for every behaviour.
THEOREM TypesTypeCorrect == TBoxSpec => []TBoxTypeOK
  <1>1. TypeTInv => TBoxTypeOK
    BY DEF TypeTInv, TBoxTypeOK, EntityTypeRow, SomeDomain, Unsent, Sent, AtRest, Admitted
  <1> QED
    BY <1>1, InitTypeTInv, NextTypeTInv, PTL DEF TBoxSpec

-------------------------------------------------------------------------------
(* What has been checked                                                    *)

LEMMA InitCheckInv == TBoxInit => CheckInv
  BY DEF TBoxInit, CheckInv, CheckedAt, AtRest

\* A type that has a row keeps it, and a request its action; so what was checked
\* of a move stays.
LEMMA ChecksKept ==
    ASSUME CheckInv, NEW s \in Steward, reviewing'[s].pc = "move" => reviewing'[s] = reviewing[s],
           entityType.status # "none" => entityType'.status # "none",
           reviewing[s].pc # "rest" => requested'[reviewing[s].change].action = requested[reviewing[s].change].action
    PROVE  CheckedAt(s)'
  BY DEF CheckInv, CheckedAt

LEMMA NextCheckInv == TypeTInv /\ CheckInv /\ [TBoxNext]_tboxVars => CheckInv'
  <1> SUFFICES ASSUME TypeTInv, CheckInv, [TBoxNext]_tboxVars PROVE CheckInv'
    OBVIOUS
  <1>0. \A s \in Steward : reviewing[s].pc # "rest" =>
            reviewing[s].change \in TypeChange /\ requested[reviewing[s].change] \in Sent
    BY DEF TypeTInv, Admitted, AtRest
  <1>1. entityType.status # "none" => entityType'.status # "none"
    <2>1. ASSUME NEW action \in Actions, NEW d \in SomeDomain, ChangeType(action, d), entityType.status # "none"
          PROVE  entityType'.status # "none"
      BY <2>1 DEF ChangeType
    <2>2. ASSUME NEW action \in Actions, NEW d \in SomeDomain, TypeChangedDirectly(action, d), entityType.status # "none"
          PROVE  entityType'.status # "none"
      BY <2>1, <2>2 DEF TypeChangedDirectly
    <2>3. ASSUME NEW s \in Steward, ApplyStatus(s), entityType.status # "none" PROVE entityType'.status # "none"
      <3>1. requested[reviewing[s].change] \in Sent
        BY <1>0, <2>3 DEF ApplyStatus
      <3> QED
        BY <2>1, <2>3, <3>1 DEF ApplyStatus, Sent
    <2>4. ASSUME NEW s \in Steward, ApplyDomain(s) PROVE entityType'.status = entityType.status
      BY <2>4 DEF ApplyDomain, TypeTInv, EntityTypeRow
    <2>5. CASE UNCHANGED entityType
      BY <2>5
    <2> QED
      BY <2>2, <2>3, <2>4, <2>5
      DEF TBoxNext, tboxVars, Actions, SomeDomain, DomainSwitched, SubmitChange, AdmitApproval, RejectChange,
          MarkApplied, ApprovalLost, CheckDomain, ReadTypeDomain, AuthoringAborts, WriteInstance, DeprecateInstance
  <1>2. \A q \in TypeChange : requested[q] \in Sent => requested'[q].action = requested[q].action
    <2>1. ASSUME NEW q \in TypeChange, requested[q].status # "none", NEW status \in {"applied", "rejected"},
                 requested' = [requested EXCEPT ![q].status = status]
          PROVE  \A r \in TypeChange : requested'[r].action = requested[r].action
      BY <2>1, StatusUpdate
    <2>2. ASSUME NEW q \in TypeChange, NEW s \in Steward, NEW action \in Actions, NEW d \in SomeDomain,
                 SubmitChange(q, s, action, d)
          PROVE  \A r \in TypeChange : requested[r] \in Sent => requested'[r] = requested[r]
      BY <2>2 DEF SubmitChange, TypeTInv, Sent
    <2>3. ASSUME NEW q \in TypeChange, NEW s \in Steward, RejectChange(s, q)
          PROVE  \A r \in TypeChange : requested'[r].action = requested[r].action
      BY <2>1, <2>3 DEF RejectChange
    <2>4. ASSUME NEW s \in Steward, MarkApplied(s) \/ ApplyDomain(s)
          PROVE  \A r \in TypeChange : requested'[r].action = requested[r].action
      <3>1. reviewing[s].change \in TypeChange /\ requested[reviewing[s].change].status # "none"
        BY <1>0, <2>4 DEF MarkApplied, ApplyDomain, Sent
      <3> QED
        BY <2>1, <2>4, <3>1 DEF MarkApplied, ApplyDomain
    <2>5. CASE UNCHANGED requested
      BY <2>5
    <2> QED
      BY <2>2, <2>3, <2>4, <2>5
      DEF TBoxNext, tboxVars, Actions, SomeDomain, DomainSwitched, TypeChangedDirectly, AdmitApproval, ApplyStatus,
          ApprovalLost, CheckDomain, ReadTypeDomain, AuthoringAborts, WriteInstance, DeprecateInstance
  <1>3. ASSUME NEW s \in Steward, CheckDomain(s) PROVE CheckInv'
    <2>1. reviewing[s] \in Admitted /\ requested[reviewing[s].change].action = "update" /\ requested' = requested
      BY <1>3 DEF CheckDomain, TypeTInv, AtRest
    <2>2. \A t \in Steward : t # s => reviewing'[t] = reviewing[t]
      BY <1>3 DEF CheckDomain, TypeTInv
    <2>3. reviewing'[s].pc = "move" => reviewing'[s].change = reviewing[s].change /\ entityType.status = "active"
      BY <1>3, <2>1 DEF CheckDomain, TypeTInv, AtRest, Admitted
    <2>4. CheckedAt(s)'
      BY <1>1, <2>1, <2>3 DEF CheckedAt
    <2>5. ASSUME NEW t \in Steward, t # s PROVE CheckedAt(t)'
      BY <1>1, <2>1, <2>2, <2>5, ChecksKept
    <2> QED
      BY <2>4, <2>5 DEF CheckInv
  <1>4. CASE \A s \in Steward : reviewing'[s].pc = "move" => reviewing'[s] = reviewing[s]
    BY <1>0, <1>1, <1>2, <1>4, ChecksKept DEF CheckInv
  <1>5. ASSUME NEW s \in Steward, ApplyStatus(s) PROVE \A t \in Steward : reviewing'[t].pc = "move" => reviewing'[t] = reviewing[t]
    BY <1>5 DEF ApplyStatus, TypeTInv, AtRest, Admitted
  <1>6. ASSUME NEW s \in Steward, MarkApplied(s) \/ ApplyDomain(s) \/ ApprovalLost(s)
        PROVE  \A t \in Steward : reviewing'[t].pc = "move" => reviewing'[t] = reviewing[t]
    BY <1>6 DEF MarkApplied, ApplyDomain, ApprovalLost, TypeTInv, AtRest
  <1>7. ASSUME NEW q \in TypeChange, NEW s \in Steward, AdmitApproval(s, q)
        PROVE  \A t \in Steward : reviewing'[t].pc = "move" => reviewing'[t] = reviewing[t]
    BY <1>7 DEF AdmitApproval, TypeTInv
  <1>8. CASE UNCHANGED reviewing
    BY <1>4, <1>8
  <1> QED
    BY <1>3, <1>4, <1>5, <1>6, <1>7, <1>8
    DEF TBoxNext, tboxVars, DomainSwitched, TypeChangedDirectly, SubmitChange, RejectChange, ReadTypeDomain,
        AuthoringAborts, WriteInstance, DeprecateInstance

-------------------------------------------------------------------------------
(* Instances follow their type                                              *)

\* The row of the type is written only while no author shares its lock; then no
\* author knows a domain, and creation gives the first domain to a type that
\* has none.
LEMMA ChangeTypeKeepsLock ==
    ASSUME TypeTInv, LockInv, NEW action \in Actions, NEW d \in SomeDomain, ChangeType(action, d),
           authoring' = authoring, instances' = instances
    PROVE  LockInv'
  <1>1. CASE entityType' = entityType
    BY <1>1 DEF LockInv, DomainOf
  <1>2. CASE entityType' # entityType
    <2>1. /\ TypeUnlocked
          /\ entityType'.status \in {"active", "deprecated"}
          /\ entityType.status # "none" => entityType'.domain = entityType.domain
      BY <1>2 DEF ChangeType, Actions, TypeTInv, EntityTypeRow
    <2>2. \A a \in Author : authoring[a].domain = NoDomain /\ ~authoring[a].locks
      BY <2>1 DEF LockInv, DomainOf, TypeUnlocked
    <2>3. \A i \in Instance : instances[i].domain \in {entityType'.domain, NoDomain}
      BY <2>1 DEF LockInv, TypeTInv, EntityTypeRow
    <2> QED
      BY <2>1, <2>2, <2>3 DEF LockInv, DomainOf
  <1> QED
    BY <1>1, <1>2

LEMMA NextLockInv == TypeTInv /\ CheckInv /\ LockInv /\ [TBoxNext]_tboxVars => LockInv'
  <1> SUFFICES ASSUME TypeTInv, CheckInv, LockInv, [TBoxNext]_tboxVars PROVE LockInv'
    OBVIOUS
  <1>1. ASSUME NEW action \in Actions, NEW d \in SomeDomain, TypeChangedDirectly(action, d) PROVE LockInv'
    BY <1>1, ChangeTypeKeepsLock DEF TypeChangedDirectly
  <1>2. ASSUME NEW s \in Steward, ApplyStatus(s) PROVE LockInv'
    <2>1. requested[reviewing[s].change] \in Sent
      BY <1>2 DEF TypeTInv, ApplyStatus
    <2> QED
      BY <1>2, <2>1, ChangeTypeKeepsLock DEF ApplyStatus, Sent
  <1>3. ASSUME NEW s \in Steward, ApplyDomain(s) PROVE LockInv'
    <2> DEFINE d == requested[reviewing[s].change].domain
    <2>1. /\ TypeUnlocked /\ entityType.status \in {"active", "deprecated"}
          /\ entityType' = [entityType EXCEPT !.domain = d]
          /\ instances' = [i \in Instance |->
                IF instances[i].status \in {"active", "deprecated"}
                THEN [instances[i] EXCEPT !.domain = d] ELSE instances[i]]
          /\ authoring' = authoring
      BY <1>3 DEF ApplyDomain, CheckInv, CheckedAt, TypeTInv, EntityTypeRow
    <2>2. entityType'.status # "none" /\ entityType'.domain = d
      BY <2>1 DEF TypeTInv, EntityTypeRow
    <2>3. \A a \in Author : authoring[a].domain = NoDomain /\ ~authoring[a].locks
      BY <2>1 DEF LockInv, DomainOf, TypeUnlocked
    <2>4. ASSUME NEW i \in Instance
          PROVE  /\ instances'[i].status = "none" => instances'[i].domain = NoDomain
                 /\ instances'[i].domain \in {d, NoDomain}
      <3>1. instances[i] \in EntityTypeRow
        BY DEF TypeTInv
      <3>2. CASE instances[i].status = "none"
        BY <2>1, <3>2 DEF LockInv
      <3>3. CASE instances[i].status \in {"active", "deprecated"}
        <4>1. instances'[i] = [instances[i] EXCEPT !.domain = d]
          BY <2>1, <3>3
        <4> QED
          BY <3>1, <3>3, <4>1 DEF EntityTypeRow
      <3> QED
        BY <3>1, <3>2, <3>3 DEF EntityTypeRow
    <2> QED
      BY <2>1, <2>2, <2>3, <2>4 DEF LockInv, DomainOf
  <1>4. ASSUME NEW a \in Author, ReadTypeDomain(a) PROVE LockInv'
    BY <1>4 DEF LockInv, DomainOf, TypeTInv, ReadTypeDomain, Writing
  <1>5. ASSUME NEW a \in Author, AuthoringAborts(a) PROVE LockInv'
    BY <1>5 DEF LockInv, DomainOf, TypeTInv, AuthoringAborts, NotWriting, Writing
  <1>6. ASSUME NEW a \in Author, NEW i \in Instance, WriteInstance(a, i) PROVE LockInv'
    <2>1. \A b \in Author : authoring'[b] \in {authoring[b], NotWriting}
      BY <1>6 DEF TypeTInv, WriteInstance
    <2>2. authoring[a].domain \in {entityType.domain, NoDomain}
      BY DEF LockInv, DomainOf
    <2> QED
      BY <1>6, <2>1, <2>2 DEF LockInv, DomainOf, TypeTInv, WriteInstance, NotWriting
  <1>7. ASSUME NEW i \in Instance, DeprecateInstance(i) PROVE LockInv'
    <2>1. instances'[i].status = "deprecated" /\ instances'[i].domain = instances[i].domain
      BY <1>7 DEF TypeTInv, DeprecateInstance, EntityTypeRow
    <2>2. \A j \in Instance : j # i => instances'[j] = instances[j]
      BY <1>7 DEF TypeTInv, DeprecateInstance
    <2> QED
      BY <1>7, <2>1, <2>2 DEF LockInv, DomainOf, DeprecateInstance
  <1>8. CASE UNCHANGED <<entityType, instances, authoring>>
    BY <1>8 DEF LockInv, DomainOf
  <1> QED
    BY <1>1, <1>2, <1>3, <1>4, <1>5, <1>6, <1>7, <1>8
    DEF TBoxNext, tboxVars, Actions, SomeDomain, DomainSwitched, SubmitChange, AdmitApproval, RejectChange,
        MarkApplied, ApprovalLost, CheckDomain

LEMMA InitLockInv == TBoxInit => LockInv
  BY DEF TBoxInit, LockInv, DomainOf, NotWriting, NoInstance

-------------------------------------------------------------------------------
(* Requests record what happened                                            *)

LEMMA InitReviewInv == TBoxInit => ReviewInv
  BY DEF TBoxInit, ReviewInv, ReviewAt, RecordAt, AtRest

\* What is said of a request that is left alone holds as long as it neither takes
\* effect nor stops having taken it.
LEMMA RecordsKept ==
    ASSUME ReviewInv, NEW q \in TypeChange, requested'[q] = requested[q], q \in tookEffect' <=> q \in tookEffect
    PROVE  RecordAt(q)'
  BY DEF ReviewInv, RecordAt

LEMMA NextReviewInv == TypeTInv /\ CheckInv /\ ReviewInv /\ [TBoxNext]_tboxVars => ReviewInv'
  <1> SUFFICES ASSUME TypeTInv, CheckInv, ReviewInv, [TBoxNext]_tboxVars PROVE ReviewInv'
    OBVIOUS
  <1>0. \A s \in Steward : reviewing[s].pc # "rest" =>
            reviewing[s].change \in TypeChange /\ requested[reviewing[s].change] \in Sent
    BY DEF TypeTInv, Admitted, AtRest
  <1>1. ASSUME NEW q \in TypeChange, NEW s \in Steward, NEW action \in Actions, NEW d \in SomeDomain,
               SubmitChange(q, s, action, d)
        PROVE  ReviewInv'
    <2>1. requested'[q] = [status |-> "pending", action |-> action, domain |-> d, by |-> s] /\ q \notin tookEffect
      BY <1>1 DEF SubmitChange, TypeTInv, ReviewInv, RecordAt
    <2>2. \A r \in TypeChange : r # q => requested'[r] = requested[r]
      BY <1>1 DEF SubmitChange, TypeTInv
    <2>3. \A t \in Steward : reviewing[t].pc = "mark" => reviewing[t].change # q
      BY <1>0, <1>1 DEF SubmitChange, Sent
    <2> QED
      BY <1>0, <1>1, <2>1, <2>2, <2>3 DEF SubmitChange, ReviewInv, ReviewAt, RecordAt
  <1>2. ASSUME NEW q \in TypeChange, NEW s \in Steward, AdmitApproval(s, q) PROVE ReviewInv'
    <2>1. \A t \in Steward : reviewing'[t].pc = "mark" => reviewing'[t] = reviewing[t]
      BY <1>2 DEF AdmitApproval, TypeTInv
    <2> QED
      BY <1>2, <2>1 DEF AdmitApproval, ReviewInv, ReviewAt, RecordAt
  <1>3. ASSUME NEW q \in TypeChange, NEW s \in Steward, RejectChange(s, q) PROVE ReviewInv'
    <2>1. /\ requested'[q].status = "rejected" /\ requested'[q].action = requested[q].action
          /\ \A r \in TypeChange : r # q => requested'[r] = requested[r]
      BY <1>3, StatusUpdate DEF RejectChange
    <2>2. requested[q].action = "update" => q \notin tookEffect
      BY <1>3 DEF RejectChange, ReviewInv, RecordAt
    <2> QED
      BY <1>0, <1>3, <2>1, <2>2 DEF RejectChange, ReviewInv, ReviewAt, RecordAt
  <1>4. ASSUME NEW s \in Steward, ApplyStatus(s) PROVE ReviewInv'
    <2> DEFINE q == reviewing[s].change
    <2>1. /\ q \in TypeChange /\ requested[q].status # "none" /\ requested[q].action # "update"
          /\ requested' = requested /\ tookEffect \subseteq tookEffect' /\ tookEffect' \subseteq tookEffect \cup {q}
      BY <1>0, <1>4 DEF ApplyStatus, Sent
    <2>2. \A t \in Steward : t # s => reviewing'[t] = reviewing[t]
      BY <1>4 DEF ApplyStatus, TypeTInv
    <2>3. reviewing'[s].pc = "mark" => reviewing'[s].change = q /\ q \in tookEffect'
      BY <1>4 DEF ApplyStatus, TypeTInv, AtRest, Admitted
    <2>4. \A r \in TypeChange : RecordAt(r)'
      BY <2>1 DEF ReviewInv, RecordAt
    <2> QED
      BY <2>1, <2>2, <2>3, <2>4 DEF ReviewInv, ReviewAt
  <1>5. ASSUME NEW s \in Steward, MarkApplied(s) PROVE ReviewInv'
    <2> DEFINE q == reviewing[s].change
    <2>1. q \in TypeChange /\ requested[q].status # "none" /\ requested[q].action # "update" /\ q \in tookEffect
      BY <1>0, <1>5 DEF MarkApplied, Sent, ReviewInv, ReviewAt
    <2>2. /\ requested'[q].status = "applied" /\ requested'[q].action = requested[q].action
          /\ \A r \in TypeChange : r # q => requested'[r] = requested[r]
      BY <1>5, <2>1, StatusUpdate DEF MarkApplied
    <2>3. \A t \in Steward : reviewing'[t].pc = "mark" => reviewing'[t] = reviewing[t]
      BY <1>5 DEF MarkApplied, TypeTInv, AtRest
    <2> QED
      BY <1>0, <1>5, <2>1, <2>2, <2>3 DEF MarkApplied, ReviewInv, ReviewAt, RecordAt
  <1>6. ASSUME NEW s \in Steward, ApplyDomain(s) PROVE ReviewInv'
    <2> DEFINE q == reviewing[s].change
    <2>1. q \in TypeChange /\ requested[q].status # "none" /\ requested[q].action = "update"
      BY <1>0, <1>6 DEF ApplyDomain, Sent, CheckInv, CheckedAt
    <2>2. \A t \in Steward : reviewing'[t].pc = "mark" => reviewing'[t] = reviewing[t]
      BY <1>6 DEF ApplyDomain, TypeTInv, AtRest
    <2>3. requested' = [requested EXCEPT ![q].status = "applied"] /\ tookEffect' = tookEffect \cup {q}
      BY <1>6 DEF ApplyDomain
    <2>4. /\ requested'[q].status = "applied" /\ requested'[q].action = requested[q].action
          /\ \A r \in TypeChange : r # q => requested'[r] = requested[r]
      BY <2>1, <2>3, StatusUpdate
    <2> QED
      BY <1>0, <2>1, <2>2, <2>3, <2>4 DEF ReviewInv, ReviewAt, RecordAt
  <1>9. ASSUME NEW s \in Steward, CheckDomain(s) PROVE ReviewInv'
    <2>1. \A t \in Steward : reviewing'[t].pc = "mark" => reviewing'[t] = reviewing[t]
      BY <1>9 DEF CheckDomain, TypeTInv, AtRest, Admitted
    <2> QED
      BY <1>9, <2>1 DEF CheckDomain, ReviewInv, ReviewAt, RecordAt
  <1>7. ASSUME NEW s \in Steward, ApprovalLost(s) PROVE ReviewInv'
    <2>1. \A t \in Steward : reviewing'[t].pc = "mark" => reviewing'[t] = reviewing[t]
      BY <1>7 DEF ApprovalLost, TypeTInv, AtRest
    <2> QED
      BY <1>7, <2>1 DEF ApprovalLost, ReviewInv, ReviewAt, RecordAt
  <1>8. CASE UNCHANGED <<requested, reviewing, tookEffect>>
    BY <1>8 DEF ReviewInv, ReviewAt, RecordAt
  <1> QED
    BY <1>1, <1>2, <1>3, <1>4, <1>5, <1>6, <1>7, <1>8, <1>9
    DEF TBoxNext, tboxVars, Actions, SomeDomain, DomainSwitched, TypeChangedDirectly, ReadTypeDomain,
        AuthoringAborts, WriteInstance, DeprecateInstance

-------------------------------------------------------------------------------
LEMMA IInvCorrect == TBoxSpec => []IInv
  <1>1. TBoxInit => IInv
    BY InitTypeTInv, InitCheckInv, InitLockInv, InitReviewInv DEF IInv
  <1>2. IInv /\ [TBoxNext]_tboxVars => IInv'
    BY NextTypeTInv, NextCheckInv, NextLockInv, NextReviewInv DEF IInv
  <1> QED
    BY <1>1, <1>2, PTL DEF TBoxSpec

\* Instances have the domain of their type, or none, and a change says applied
\* exactly when it took effect (a move) or only if it did (the others).
THEOREM TypesGoverned == TBoxSpec => []TypesAreGoverned
  <1>1. IInv => TypesAreGoverned
    <2>1. LockInv => InstancesFollowType
      BY DEF LockInv, InstancesFollowType
    <2>2. ReviewInv => MovedAsRecorded
      BY DEF ReviewInv, RecordAt, MovedAsRecorded
    <2> QED
      BY <2>1, <2>2 DEF IInv, TypesAreGoverned
  <1> QED
    BY <1>1, IInvCorrect, PTL


-------------------------------------------------------------------------------
(****************************************************************************)
(* The facts of a relation type.                                            *)
(****************************************************************************)
Types == SUBSET ObjectType
FactPair == EntityKey \X EntityKey
RelationRow == [status : {"none", "active", "deprecated"}, source : Types, target : Types]
Edit == [status : {"none", "pending", "applied"}, source : Types, target : Types]
Approving == [pc : {"plan", "write"}, edit : RelationEdit, source : Types, target : Types]
Importing == [pc : {"entities", "facts"}, file : File, sees : SUBSET RelationRow,
              codes : [Code -> ObjectType \cup {NoType}], todo : SUBSET (Nat \cup FactPair),
              accepted : {NoFacts} \cup SUBSET FactPair, expects : {NoFacts} \cup SUBSET FactPair,
              overtaken : BOOLEAN]

\* What is left to do of an import: rows, and then facts.
TodoOf(i) ==
    /\ importing[i].pc = "entities" => importing[i].todo \subseteq ValidRows(importing[i].file)
    /\ importing[i].pc = "facts" => importing[i].todo \subseteq FactPair

FactTInv ==
    /\ relation \in RelationRow
    /\ relationEdits \in [RelationEdit -> Edit]
    /\ approving \in [Reviewer -> {AtEase} \cup Approving]
    /\ abox \subseteq EntityKey
    /\ stated \subseteq FactPair
    /\ strays \subseteq stated
    /\ importing \in [Importer -> {NotImporting} \cup Importing]
    /\ previews \in [File -> {NoFacts} \cup SUBSET FactPair]
    /\ \A i \in Importer : TodoOf(i)

-------------------------------------------------------------------------------
\* The sides an approval is about to write hold the types of every covered fact,
\* an import that no edit overtook knows the relation as it is, and the facts it
\* is about to write fit what it knows.
WriteFits(r) == approving[r].pc = "write" => \A fact \in stated \ strays :
    /\ approving[r].source # {} => fact[1][1] \in approving[r].source
    /\ approving[r].target # {} => fact[2][1] \in approving[r].target
SeesRelation(i) == ~importing[i].overtaken => \A r \in importing[i].sees :
    r.source = relation.source /\ r.target = relation.target
TodoFits(i) == importing[i].pc = "facts" => \A fact \in importing[i].todo :
    \E r \in importing[i].sees : Fits(fact, r)

NotYetCreated == relation.status = "none" =>
    /\ relation.source = {}
    /\ \A r \in Reviewer : approving[r].pc # "write"
    /\ \A i \in Importer : importing[i].sees = {}

FitInv ==
    /\ FactsFitRelation
    /\ NotYetCreated
    /\ \A r \in Reviewer : WriteFits(r)
    /\ \A i \in Importer : SeesRelation(i) /\ TodoFits(i)

-------------------------------------------------------------------------------
\* A preview that counts is what any import would take that starts now ...
PreviewIsNow(f) == previews[f] # NoFacts =>
    /\ Unambiguous
    /\ \A codes \in CodesNow : previews[f] = ValidFacts(f, SeenRelation, CodesAfter(f, codes))

\* ... and what an import expects is what it takes once all of its rows are there.
ExpectsRows(i) == importing[i].pc = "entities" /\ importing[i].expects # NoFacts =>
    importing[i].expects = ValidFacts(importing[i].file, importing[i].sees,
                                      CodesAfter(importing[i].file, importing[i].codes))

\* An import works through its rows in their order, and the codes of the rows it
\* has written stand for the last of them.
Written(i) == ValidRows(importing[i].file) \ importing[i].todo
InOrder(i) == importing[i].pc = "entities" =>
    /\ \A k \in Written(i), j \in importing[i].todo : k < j
    /\ \A k \in Written(i) :
          (\A j \in Written(i) : importing[i].file.rows[j][2] = importing[i].file.rows[k][2] => j <= k)
             => importing[i].codes[importing[i].file.rows[k][2]] = importing[i].file.rows[k][1]

PromiseInv ==
    /\ \A f \in File : PreviewIsNow(f)
    /\ \A i \in Importer : ExpectsRows(i) /\ InOrder(i)
    /\ DryRunPredicts

-------------------------------------------------------------------------------
(* Rows and codes                                                           *)

\* The rows that are taken are numbered, and are entities.
LEMMA RowFacts ==
    ASSUME NEW file \in File
    PROVE  /\ \E n \in Nat : ValidRows(file) \subseteq 0..n
           /\ ValidRows(file) \subseteq Nat
           /\ \A k \in ValidRows(file) : file.rows[k] \in EntityKey /\ file.rows[k] = <<file.rows[k][1], file.rows[k][2]>>
  <1>1. file.rows \in Seq((ObjectType \cup OtherType) \X Code)
    BY RelationConstants
  <1>2. Len(file.rows) \in Nat /\ DOMAIN file.rows = 1..Len(file.rows)
    BY <1>1
  <1>3. \A k \in DOMAIN file.rows : file.rows[k] \in (ObjectType \cup OtherType) \X Code
    BY <1>1
  <1> QED
    BY <1>2, <1>3 DEF ValidRows, EntityKey

\* What is valid is a fact that fits a relation that was seen.
LEMMA ValidFactsFit ==
    ASSUME NEW file, NEW sees, NEW codes
    PROVE  /\ ValidFacts(file, sees, codes) \subseteq FactPair
           /\ \A fact \in ValidFacts(file, sees, codes) : \E r \in sees : Fits(fact, r)
  BY DEF ValidFacts, FactPair

-------------------------------------------------------------------------------
(* Typing                                                                   *)

LEMMA InitFactTInv == RelationInit => FactTInv
  <1> SUFFICES ASSUME RelationInit PROVE FactTInv
    OBVIOUS
  <1>1. relation \in RelationRow /\ relationEdits \in [RelationEdit -> Edit]
    BY DEF RelationInit, RelationRow, Edit, Types
  <1>2. previews \in [File -> {NoFacts} \cup SUBSET FactPair]
    BY DEF RelationInit, NoPreview
  <1>3. \A i \in Importer : TodoOf(i)
    BY DEF RelationInit, TodoOf, NotImporting
  <1> QED
    BY <1>1, <1>2, <1>3 DEF RelationInit, FactTInv

\* An edit leaves a relation, with the sides it leaves alone.
LEMMA EditedTyped ==
    ASSUME FactTInv, NEW edit, edit.source \in Types, edit.target \in Types
    PROVE  /\ Edited(edit) \in RelationRow
           /\ Edited(edit).status = relation.status
           /\ Edited(edit).source = IF edit.source = {} THEN relation.source ELSE edit.source
           /\ Edited(edit).target = IF edit.target = {} THEN relation.target ELSE edit.target
  BY DEF FactTInv, RelationRow, Edited

\* Who is at work is at work on something.
LEMMA AtWork ==
    ASSUME FactTInv
    PROVE  /\ \A r \in Reviewer : approving[r].pc \in {"plan", "write"} => approving[r] \in Approving
           /\ \A i \in Importer : importing[i].pc \in {"entities", "facts"} \/ importing[i] # NotImporting
                  => importing[i] \in Importing
           /\ NotImporting.pc = "off" /\ NotImporting.sees = {} /\ AtEase.pc = "rest"
  BY DEF FactTInv, AtEase, NotImporting

\* The next row of an import is one it has not written, with the least number.
LEMMA NextRow ==
    ASSUME FactTInv, NEW i \in Importer, importing[i].pc = "entities", importing[i].todo # {}
    PROVE  LET k == CHOOSE n \in importing[i].todo : \A j \in importing[i].todo : n <= j
           IN  k \in importing[i].todo /\ \A j \in importing[i].todo : k <= j
  <1>1. importing[i].todo \in SUBSET Nat
    BY AtWork, RowFacts DEF Importing, FactTInv, TodoOf
  <1> QED
    BY <1>1, LeastNumber

\* The codes that are read are types.
LEMMA CodesTyped == CodesNow \subseteq [Code -> ObjectType \cup {NoType}]
  BY DEF CodesNow

\* The steps of an import leave an import.
Loaded(file, codes) == [NotImporting EXCEPT !.pc = "entities", !.file = file, !.sees = SeenRelation,
                            !.codes = codes, !.todo = ValidRows(file), !.expects = previews[file]]

LEMMA ImportLoaded ==
    ASSUME FactTInv, NEW file \in File, NEW codes \in CodesNow
    PROVE  Loaded(file, codes) \in Importing
  <1>1. SeenRelation \subseteq RelationRow /\ ValidRows(file) \subseteq Nat
    BY RowFacts DEF SeenRelation, FactTInv
  <1>2. previews[file] \in {NoFacts} \cup SUBSET FactPair /\ codes \in [Code -> ObjectType \cup {NoType}]
    BY CodesTyped DEF FactTInv
  <1> QED
    BY <1>1, <1>2 DEF NotImporting, Importing, Loaded

LEMMA ImportSteps ==
    ASSUME NEW import \in Importing
    PROVE  /\ \A c \in Code, t \in ObjectType : \A k :
                  [import EXCEPT !.todo = import.todo \ {k}, !.codes = [import.codes EXCEPT ![c] = t]] \in Importing
           /\ \A valid \in SUBSET FactPair :
                  [import EXCEPT !.pc = "facts", !.todo = valid, !.accepted = valid] \in Importing
           /\ \A fact : [import EXCEPT !.todo = import.todo \ {fact}] \in Importing
           /\ [import EXCEPT !.overtaken = TRUE] \in Importing
  BY DEF Importing

\* What an action does to the imports: it does nothing, or one import makes a step.
LEMMA OneImport ==
    ASSUME FactTInv, NEW i \in Importer, NEW import \in {NotImporting} \cup Importing,
           importing' = [importing EXCEPT ![i] = import],
           import.pc = "entities" => import.todo \subseteq ValidRows(import.file),
           import.pc = "facts" => import.todo \subseteq FactPair
    PROVE  /\ importing' \in [Importer -> {NotImporting} \cup Importing]
           /\ \A j \in Importer : TodoOf(j)'
           /\ importing'[i] = import /\ \A j \in Importer : j # i => importing'[j] = importing[j]
  BY DEF FactTInv, TodoOf

LEMMA NextFactTInv == FactTInv /\ [RelationNext]_relationVars => FactTInv'
  <1> SUFFICES ASSUME FactTInv, [RelationNext]_relationVars PROVE FactTInv'
    OBVIOUS
  <1>1. ASSUME NEW s \in Types, NEW t \in Types, CreateRelation(s, t) PROVE FactTInv'
    BY <1>1 DEF CreateRelation, FactTInv, TodoOf, RelationRow, NoPreview, requestVars
  <1>2. ASSUME SwitchRelation PROVE FactTInv'
    <2>1. relation' \in RelationRow
      BY <1>2 DEF SwitchRelation, FactTInv, RelationRow
    <2> QED
      BY <1>2, <2>1 DEF SwitchRelation, FactTInv, TodoOf, NoPreview, requestVars
  <1>3. ASSUME NEW q \in RelationEdit, NEW s \in Types, NEW t \in Types, SubmitEdit(q, s, t) PROVE FactTInv'
    BY <1>3 DEF SubmitEdit, FactTInv, TodoOf, Edit
  <1>4. ASSUME NEW r \in Reviewer, NEW q \in RelationEdit, AdmitEdit(r, q) PROVE FactTInv'
    <2>1. [AtEase EXCEPT !.pc = "plan", !.edit = q] \in Approving
      BY DEF AtEase, Approving, Types
    <2> QED
      BY <1>4, <2>1 DEF AdmitEdit, FactTInv, TodoOf
  <1>5. ASSUME NEW r \in Reviewer, PlanEdit(r) PROVE FactTInv'
    <2> DEFINE new == Edited(relationEdits[approving[r].edit])
               plan == [pc |-> "write", edit |-> approving[r].edit,
                        source |-> IF new.source = relation.source THEN {} ELSE new.source,
                        target |-> IF new.target = relation.target THEN {} ELSE new.target]
    <2>1. approving[r].edit \in RelationEdit
      BY <1>5, AtWork DEF PlanEdit, Approving
    <2>2. new \in RelationRow
      BY <2>1, EditedTyped DEF FactTInv, Edit
    <2>3. plan \in Approving
      BY <2>1, <2>2 DEF Approving, RelationRow, Types
    <2>4. approving' \in [Reviewer -> {AtEase} \cup Approving]
      <3>1. approving' = [approving EXCEPT ![r] = IF PlanRelationUpdate(relationEdits[approving[r].edit]) THEN plan ELSE AtEase]
        BY <1>5 DEF PlanEdit
      <3> QED
        BY <2>3, <3>1 DEF FactTInv
    <2> QED
      BY <1>5, <2>4 DEF PlanEdit, FactTInv, TodoOf
  <1>6. ASSUME NEW r \in Reviewer, WriteEdit(r) PROVE FactTInv'
    <2>1. approving[r] \in Approving
      BY <1>6, AtWork DEF WriteEdit
    <2>2. relation' \in RelationRow
      BY <1>6, <2>1, EditedTyped DEF WriteEdit, Approving
    <2>3. relationEdits' \in [RelationEdit -> Edit]
      BY <1>6, <2>1 DEF WriteEdit, Approving, FactTInv, Edit
    <2>4. importing' \in [Importer -> {NotImporting} \cup Importing]
      BY <1>6, ImportSteps DEF WriteEdit, Overtaken, FactTInv
    <2>5. \A i \in Importer : importing'[i].pc = importing[i].pc /\ importing'[i].todo = importing[i].todo
                                 /\ importing'[i].file = importing[i].file
      BY <1>6 DEF WriteEdit, Overtaken, FactTInv, NotImporting, Importing
    <2>6. \A i \in Importer : TodoOf(i)'
      BY <2>5 DEF FactTInv, TodoOf
    <2> QED
      BY <1>6, <2>2, <2>3, <2>4, <2>6 DEF WriteEdit, FactTInv, NoPreview
  <1>7. ASSUME NEW r \in Reviewer, ApproverLost(r) PROVE FactTInv'
    BY <1>7 DEF ApproverLost, FactTInv, TodoOf
  <1>8. ASSUME NEW f \in File, DryRun(f) PROVE FactTInv'
    BY <1>8, ValidFactsFit DEF DryRun, FactTInv, TodoOf, requestVars
  <1>9. ASSUME NEW f \in File, NEW i \in Importer, LoadTBox(i, f) PROVE FactTInv'
    <2>1. PICK codes \in CodesNow : importing' = [importing EXCEPT ![i] = Loaded(f, codes)]
      BY <1>9 DEF LoadTBox, Loaded, FactTInv
    <2>2. Loaded(f, codes) \in Importing /\ Loaded(f, codes).pc = "entities"
          /\ Loaded(f, codes).todo \subseteq ValidRows(Loaded(f, codes).file)
      BY ImportLoaded DEF Loaded, NotImporting
    <2> QED
      BY <1>9, <2>1, <2>2, OneImport DEF LoadTBox, FactTInv, requestVars
  <1>10. ASSUME NEW i \in Importer, WriteEntityRow(i) PROVE FactTInv'
    <2> DEFINE k == CHOOSE n \in importing[i].todo : \A j \in importing[i].todo : n <= j
               row == importing[i].file.rows[k]
               import == [importing[i] EXCEPT !.todo = importing[i].todo \ {k},
                                              !.codes = [importing[i].codes EXCEPT ![row[2]] = row[1]]]
    <2>1. importing[i] \in Importing /\ importing[i].file \in File
      BY <1>10, AtWork DEF WriteEntityRow, Importing
    <2>2. k \in importing[i].todo /\ k \in ValidRows(importing[i].file)
      BY <1>10, NextRow DEF WriteEntityRow, FactTInv, TodoOf
    <2>3. importing' = [importing EXCEPT ![i].todo = importing[i].todo \ {k}, ![i].codes[row[2]] = row[1]]
      BY <1>10 DEF WriteEntityRow
    <2>4. abox' = abox \cup {row} /\ previews' \in {previews, NoPreview}
      BY <1>10 DEF WriteEntityRow
    <2> HIDE DEF k
    <2>5. row \in EntityKey /\ row[1] \in ObjectType /\ row[2] \in Code
      <3>1. row \in EntityKey
        BY <2>1, <2>2, RowFacts
      <3> QED
        BY <3>1 DEF EntityKey
    <2> HIDE DEF row
    <2>6. import \in Importing
      BY <2>1, <2>5, ImportSteps
    <2>7. importing' = [importing EXCEPT ![i] = import]
      BY <2>1, <2>3 DEF Importing, FactTInv
    <2>8. import.pc = "entities" /\ import.todo \subseteq ValidRows(import.file)
      BY <1>10, <2>1 DEF WriteEntityRow, FactTInv, TodoOf, Importing
    <2>9. abox' \subseteq EntityKey /\ previews' \in [File -> {NoFacts} \cup SUBSET FactPair]
      BY <2>5, <2>4 DEF FactTInv, NoPreview
    <2> HIDE DEF import
    <2> QED
      BY <1>10, <2>6, <2>7, <2>8, <2>9, OneImport DEF WriteEntityRow, FactTInv, requestVars
  <1>11. ASSUME NEW i \in Importer, ValidateFacts(i) PROVE FactTInv'
    <2> DEFINE valid == ValidFacts(importing[i].file, importing[i].sees, importing[i].codes)
               import == [importing[i] EXCEPT !.pc = "facts", !.todo = valid, !.accepted = valid]
    <2>1. importing[i] \in Importing /\ valid \in SUBSET FactPair
      BY <1>11, AtWork, ValidFactsFit DEF ValidateFacts
    <2>2. import \in Importing /\ import.pc = "facts" /\ import.todo \subseteq FactPair
      BY <2>1, ImportSteps DEF Importing
    <2>3. importing' = [importing EXCEPT ![i] = import]
      BY <1>11, <2>1 DEF ValidateFacts, Importing, FactTInv
    <2> HIDE DEF import
    <2> QED
      BY <1>11, <2>2, <2>3, OneImport DEF ValidateFacts, FactTInv, requestVars
  <1>12. ASSUME NEW i \in Importer, NEW fact \in importing[i].todo, WriteFact(i, fact) PROVE FactTInv'
    <2> DEFINE import == [importing[i] EXCEPT !.todo = importing[i].todo \ {fact}]
    <2>1. importing[i] \in Importing /\ fact \in FactPair
      BY <1>12, AtWork DEF WriteFact, FactTInv, TodoOf
    <2>2. import \in Importing /\ import.pc = "facts" /\ import.todo \subseteq FactPair
      BY <1>12, <2>1, ImportSteps DEF Importing, WriteFact, FactTInv, TodoOf
    <2>3. importing' = [importing EXCEPT ![i] = import]
      BY <1>12, <2>1 DEF WriteFact, Importing, FactTInv
    <2>4. stated' \subseteq FactPair /\ strays' \subseteq stated'
      BY <1>12, <2>1 DEF WriteFact, FactTInv
    <2> HIDE DEF import
    <2> QED
      BY <1>12, <2>2, <2>3, <2>4, OneImport DEF WriteFact, FactTInv, requestVars
  <1>13. ASSUME NEW i \in Importer, ImportEnds(i) PROVE FactTInv'
    BY <1>13, OneImport, AtWork DEF ImportEnds, FactTInv, requestVars
  <1>14. ASSUME NEW fact \in abox \X abox, AddFactUnchecked(fact) PROVE FactTInv'
    BY <1>14 DEF AddFactUnchecked, FactTInv, TodoOf, FactPair, requestVars
  <1>15. ASSUME NEW fact \in stated, RevokeFact(fact) PROVE FactTInv'
    BY <1>15 DEF RevokeFact, FactTInv, TodoOf, requestVars
  <1>16. ASSUME NEW e \in abox, DeprecateEntity(e) PROVE FactTInv'
    BY <1>16 DEF DeprecateEntity, FactTInv, TodoOf, NoPreview, requestVars
  <1>17. CASE UNCHANGED relationVars
    BY <1>17 DEF FactTInv, TodoOf, relationVars
  <1> QED
    BY <1>1, <1>2, <1>3, <1>4, <1>5, <1>6, <1>7, <1>8, <1>9, <1>10, <1>11, <1>12, <1>13, <1>14, <1>15, <1>16, <1>17
    DEF RelationNext, Types

\* Every variable has a value of its set, for every behaviour.
THEOREM FactsTypeCorrect == RelationSpec => []RelationTypeOK
  <1>1. FactTInv => RelationTypeOK
    BY DEF FactTInv, RelationTypeOK, RelationRow, Types, FactPair, AtEase, Approving
  <1> QED
    BY <1>1, InitFactTInv, NextFactTInv, PTL DEF RelationSpec

-------------------------------------------------------------------------------
(* Facts fit their relation                                                 *)

LEMMA InitFitInv == RelationInit => FitInv
  BY DEF RelationInit, FitInv, FactsFitRelation, WriteFits, SeesRelation, TodoFits, NotYetCreated, AtEase, NotImporting

\* An approval that writes now leaves a relation that the covered facts fit.
LEMMA EditedFits ==
    ASSUME FactTInv, FitInv, NEW r \in Reviewer, approving[r].pc = "write", NEW fact \in stated \ strays
    PROVE  Fits(fact, Edited(approving[r]))
  <1>1. approving[r].source \in Types /\ approving[r].target \in Types
    BY AtWork DEF Approving
  <1> QED
    BY <1>1, EditedTyped DEF FitInv, FactsFitRelation, WriteFits, Fits

\* Facts that are not stated, or that are not covered any more, disturb nothing.
LEMMA FewerFacts ==
    ASSUME FitInv, relation' = relation, approving' = approving, importing' = importing,
           stated' \ strays' \subseteq stated \ strays
    PROVE  FitInv'
  BY DEF FitInv, FactsFitRelation, WriteFits, SeesRelation, TodoFits, NotYetCreated, Fits

\* So does an import that forgets what it saw, or has less to do.
LEMMA OneImportFits ==
    ASSUME FactTInv, FitInv, NEW i \in Importer, NEW import, importing' = [importing EXCEPT ![i] = import],
           relation' = relation, approving' = approving, stated' = stated, strays' = strays,
           ~import.overtaken => \A r \in import.sees : r.source = relation.source /\ r.target = relation.target,
           import.pc = "facts" => \A fact \in import.todo : \E r \in import.sees : Fits(fact, r),
           relation.status = "none" => import.sees = {}
    PROVE  FitInv'
  <1>1. importing'[i] = import /\ \A j \in Importer : j # i => importing'[j] = importing[j]
    BY DEF FactTInv
  <1> QED
    BY <1>1 DEF FitInv, FactsFitRelation, WriteFits, SeesRelation, TodoFits, NotYetCreated, Fits

\* So does an import that goes on with what it saw.
LEMMA ImportGoesOn ==
    ASSUME FitInv, NEW i \in Importer, \A j \in Importer : j # i => importing'[j] = importing[j],
           importing'[i].sees = importing[i].sees, importing'[i].overtaken = importing[i].overtaken,
           importing'[i].pc = "facts" => \A fact \in importing'[i].todo : \E r \in importing[i].sees : Fits(fact, r),
           relation' = relation, approving' = approving, stated' = stated, strays' = strays
    PROVE  FitInv'
  <1>1. \A j \in Importer : SeesRelation(j)' /\ TodoFits(j)'
    BY DEF FitInv, SeesRelation, TodoFits, Fits
  <1>2. NotYetCreated'
    BY DEF FitInv, NotYetCreated
  <1>3. FactsFitRelation' /\ \A r \in Reviewer : WriteFits(r)'
    BY DEF FitInv, FactsFitRelation, WriteFits, Fits
  <1> QED
    BY <1>1, <1>2, <1>3 DEF FitInv

\* So does a reviewer who does not write.
LEMMA ReviewerWaits ==
    ASSUME FitInv, NEW r \in Reviewer, approving'[r].pc # "write",
           \A p \in Reviewer : p # r => approving'[p] = approving[p],
           relation' = relation, importing' = importing, stated' = stated, strays' = strays
    PROVE  FitInv'
  BY DEF FitInv, FactsFitRelation, WriteFits, SeesRelation, TodoFits, NotYetCreated, Fits

LEMMA NextFitInv == FactTInv /\ FitInv /\ [RelationNext]_relationVars => FitInv'
  <1> SUFFICES ASSUME FactTInv, FitInv, [RelationNext]_relationVars PROVE FitInv'
    OBVIOUS
  <1>1. ASSUME NEW s \in Types, NEW t \in Types, CreateRelation(s, t) PROVE FitInv'
    <2>1. stated \ strays = {}
      BY <1>1 DEF CreateRelation, FitInv, FactsFitRelation, NotYetCreated, Fits
    <2>2. relation'.status = "active" /\ UNCHANGED <<approving, importing, stated, strays>>
      BY <1>1 DEF CreateRelation, requestVars
    <2>3. \A i \in Importer : importing[i].sees = {}
      BY <1>1 DEF CreateRelation, FitInv, NotYetCreated
    <2> QED
      BY <2>1, <2>2, <2>3 DEF FitInv, FactsFitRelation, WriteFits, SeesRelation, TodoFits, NotYetCreated
  <1>2. ASSUME SwitchRelation PROVE FitInv'
    <2>1. /\ relation'.source = relation.source /\ relation'.target = relation.target /\ relation'.status # "none"
          /\ UNCHANGED <<approving, importing, stated, strays>>
      BY <1>2 DEF SwitchRelation, FactTInv, RelationRow, requestVars
    <2> QED
      BY <2>1 DEF FitInv, FactsFitRelation, WriteFits, SeesRelation, TodoFits, NotYetCreated, Fits
  <1>3. ASSUME NEW q \in RelationEdit, NEW s \in Types, NEW t \in Types, SubmitEdit(q, s, t) PROVE FitInv'
    BY <1>3, FewerFacts DEF SubmitEdit
  <1>4. ASSUME NEW r \in Reviewer, NEW q \in RelationEdit, AdmitEdit(r, q) PROVE FitInv'
    <2>1. approving'[r].pc # "write" /\ \A p \in Reviewer : p # r => approving'[p] = approving[p]
      BY <1>4 DEF AdmitEdit, FactTInv, AtEase
    <2> QED
      BY <1>4, <2>1, ReviewerWaits DEF AdmitEdit
  <1>5. ASSUME NEW r \in Reviewer, PlanEdit(r) PROVE FitInv'
    <2> DEFINE edit == relationEdits[approving[r].edit]
               new == Edited(edit)
               plan == [pc |-> "write", edit |-> approving[r].edit,
                        source |-> IF new.source = relation.source THEN {} ELSE new.source,
                        target |-> IF new.target = relation.target THEN {} ELSE new.target]
    <2>1. CASE ~PlanRelationUpdate(edit)
      <3>1. approving'[r].pc # "write" /\ \A p \in Reviewer : p # r => approving'[p] = approving[p]
        BY <1>5, <2>1 DEF PlanEdit, FactTInv, AtEase
      <3> QED
        BY <1>5, <3>1, ReviewerWaits DEF PlanEdit
    <2>2. CASE PlanRelationUpdate(edit)
      <3>1. approving' = [approving EXCEPT ![r] = plan] /\ UNCHANGED <<relation, importing, stated, strays>>
        BY <1>5, <2>2 DEF PlanEdit
      <3>2. approving'[r] = plan /\ \A p \in Reviewer : p # r => approving'[p] = approving[p]
        BY <3>1 DEF FactTInv
      <3>3. ASSUME NEW fact \in stated \ strays PROVE Fits(fact, new)
        <4>1. CASE Narrows(new)
          BY <2>2, <4>1 DEF PlanRelationUpdate
        <4>2. CASE ~Narrows(new)
          BY <4>2 DEF Narrows, Fits, FitInv, FactsFitRelation
        <4> QED
          BY <4>1, <4>2
      <3>4. relation.status # "none"
        BY <2>2 DEF PlanRelationUpdate
      <3>5. \A fact \in stated \ strays :
                /\ plan.source # {} => fact[1][1] \in plan.source
                /\ plan.target # {} => fact[2][1] \in plan.target
        BY <3>3 DEF Fits
      <3> HIDE DEF plan
      <3> QED
        BY <3>1, <3>2, <3>4, <3>5 DEF FitInv, FactsFitRelation, WriteFits, SeesRelation, TodoFits, NotYetCreated, Fits
    <2> QED
      BY <2>1, <2>2
  <1>6. ASSUME NEW r \in Reviewer, WriteEdit(r) PROVE FitInv'
    <2>1. FactsFitRelation'
      BY <1>6, EditedFits DEF WriteEdit, FactsFitRelation, Fits
    <2>2. \A p \in Reviewer : WriteFits(p)'
      BY <1>6 DEF WriteEdit, FitInv, WriteFits, FactTInv, AtEase
    <2>3. \A i \in Importer : importing'[i] = NotImporting \/ importing'[i].overtaken
      BY <1>6 DEF WriteEdit, Overtaken, FactTInv, Importing
    <2>4. \A i \in Importer : /\ importing'[i].pc = importing[i].pc /\ importing'[i].todo = importing[i].todo
                              /\ importing'[i].sees = importing[i].sees
      BY <1>6 DEF WriteEdit, Overtaken, FactTInv, NotImporting, Importing
    <2>5. relation'.status # "none"
      <3>1. approving[r].source \in Types /\ approving[r].target \in Types
        BY <1>6, AtWork DEF Approving, WriteEdit
      <3> QED
        BY <1>6, <3>1, EditedTyped DEF WriteEdit, FitInv, NotYetCreated
    <2> QED
      BY <2>1, <2>2, <2>3, <2>4, <2>5, AtWork DEF FitInv, SeesRelation, TodoFits, NotYetCreated, Fits
  <1>7. ASSUME NEW f \in File, NEW i \in Importer, LoadTBox(i, f) PROVE FitInv'
    <2>1. PICK codes \in CodesNow : importing' = [importing EXCEPT ![i] = Loaded(f, codes)]
      BY <1>7 DEF LoadTBox, Loaded, FactTInv
    <2>2. Loaded(f, codes).pc = "entities" /\ Loaded(f, codes).sees = SeenRelation
      BY DEF Loaded, NotImporting
    <2>3. \A r \in SeenRelation : r = relation /\ relation.status = "active"
      BY DEF SeenRelation
    <2> QED
      BY ZenonT(30), <1>7, <2>1, <2>2, <2>3, OneImportFits DEF LoadTBox, requestVars
  <1>8. ASSUME NEW i \in Importer, WriteEntityRow(i) PROVE FitInv'
    <2>1. importing[i] \in Importing
      BY <1>8, AtWork DEF WriteEntityRow
    <2>2. /\ importing'[i].pc = "entities" /\ importing'[i].sees = importing[i].sees
          /\ importing'[i].overtaken = importing[i].overtaken
          /\ \A j \in Importer : j # i => importing'[j] = importing[j]
      BY <1>8, <2>1 DEF WriteEntityRow, FactTInv, Importing
    <2> QED
      BY <1>8, <2>2, ImportGoesOn DEF WriteEntityRow, requestVars
  <1>9. ASSUME NEW i \in Importer, ValidateFacts(i) PROVE FitInv'
    <2> DEFINE valid == ValidFacts(importing[i].file, importing[i].sees, importing[i].codes)
    <2>1. importing[i] \in Importing
      BY <1>9, AtWork DEF ValidateFacts
    <2>2. /\ importing'[i].pc = "facts" /\ importing'[i].sees = importing[i].sees /\ importing'[i].todo = valid
          /\ importing'[i].overtaken = importing[i].overtaken
          /\ \A j \in Importer : j # i => importing'[j] = importing[j]
      BY <1>9, <2>1 DEF ValidateFacts, FactTInv, Importing
    <2>3. \A fact \in valid : \E r \in importing[i].sees : Fits(fact, r)
      BY ValidFactsFit
    <2> HIDE DEF valid
    <2> QED
      BY <1>9, <2>2, <2>3, ImportGoesOn DEF ValidateFacts, requestVars
  <1>10. ASSUME NEW i \in Importer, NEW fact \in importing[i].todo, WriteFact(i, fact) PROVE FitInv'
    <2>1. importing[i] \in Importing
      BY <1>10, AtWork DEF WriteFact
    <2>2. /\ importing'[i].pc = "facts" /\ importing'[i].sees = importing[i].sees
          /\ importing'[i].todo \subseteq importing[i].todo /\ importing'[i].overtaken = importing[i].overtaken
          /\ \A j \in Importer : j # i => importing'[j] = importing[j]
      BY <1>10, <2>1 DEF WriteFact, FactTInv, Importing
    <2>3. /\ \A j \in Importer : SeesRelation(j)' /\ TodoFits(j)'
          /\ NotYetCreated'
      BY <1>10, <2>2 DEF WriteFact, requestVars, FitInv, SeesRelation, TodoFits, NotYetCreated, Fits
    <2>4. CASE importing[i].overtaken \/ \E r \in Reviewer : approving[r].pc = "write"
      <3>1. stated' \ strays' \subseteq stated \ strays
        BY <1>10, <2>4 DEF WriteFact
      <3> QED
        BY <1>10, <2>3, <3>1 DEF WriteFact, requestVars, FitInv, FactsFitRelation, WriteFits, Fits
    <2>5. CASE ~importing[i].overtaken /\ \A r \in Reviewer : approving[r].pc # "write"
      <3>1. Fits(fact, relation)
        BY <1>10, <2>5 DEF WriteFact, FitInv, SeesRelation, TodoFits, Fits
      <3>2. stated' \ strays' \subseteq (stated \ strays) \cup {fact}
        BY <1>10, <2>5 DEF WriteFact
      <3> QED
        BY <1>10, <2>3, <2>5, <3>1, <3>2 DEF WriteFact, requestVars, FitInv, FactsFitRelation, WriteFits, Fits
    <2> QED
      BY <2>4, <2>5
  <1>11. ASSUME NEW i \in Importer, ImportEnds(i) PROVE FitInv'
    BY <1>11, OneImportFits, AtWork DEF ImportEnds, requestVars
  <1>12. CASE \E fact \in abox \X abox : AddFactUnchecked(fact)
    BY <1>12, FewerFacts DEF AddFactUnchecked, requestVars
  <1>13. CASE \E fact \in stated : RevokeFact(fact)
    BY <1>13, FewerFacts DEF RevokeFact, requestVars
  <1>14. CASE UNCHANGED <<relation, approving, importing, stated, strays>>
    BY <1>14, FewerFacts
  <1>15. ASSUME NEW r \in Reviewer, ApproverLost(r) PROVE FitInv'
    <2>1. approving'[r].pc # "write" /\ \A p \in Reviewer : p # r => approving'[p] = approving[p]
      BY <1>15 DEF ApproverLost, FactTInv, AtEase
    <2> QED
      BY <1>15, <2>1, ReviewerWaits DEF ApproverLost
  <1> QED
    BY <1>1, <1>2, <1>3, <1>4, <1>5, <1>6, <1>7, <1>8, <1>9, <1>10, <1>11, <1>12, <1>13, <1>14, <1>15
    DEF RelationNext, Types, relationVars, requestVars, DryRun, DeprecateEntity

-------------------------------------------------------------------------------
(* Dry runs promise what imports take                                       *)

\* Without two entities of one code, there is one way to read the codes.
LEMMA CodesUnique ==
    ASSUME FactTInv, Unambiguous, NEW codes \in CodesNow, NEW others \in CodesNow
    PROVE  codes = others
  <1>1. ASSUME NEW c \in Code PROVE codes[c] = others[c]
    <2>1. CASE \E t \in ObjectType : <<t, c>> \in abox
      <3>1. <<codes[c], c>> \in abox /\ <<others[c], c>> \in abox
        BY <2>1 DEF CodesNow
      <3> QED
        BY <3>1 DEF Unambiguous, FactTInv, EntityKey
    <2>2. CASE ~\E t \in ObjectType : <<t, c>> \in abox
      BY <2>2 DEF CodesNow
    <2> QED
      BY <2>1, <2>2
  <1> QED
    BY <1>1 DEF CodesNow

\* A row that was written already stands for its code in what comes after.
LEMMA CodesAfterRow ==
    ASSUME NEW file \in File, NEW codes \in [Code -> ObjectType \cup {NoType}], NEW k \in ValidRows(file), NEW t
    PROVE  CodesAfter(file, [codes EXCEPT ![file.rows[k][2]] = t]) = CodesAfter(file, codes)
  <1> DEFINE ks(c) == {n \in ValidRows(file) : file.rows[n][2] = c}
  <1>1. \A c \in Code : ks(c) = {} => [codes EXCEPT ![file.rows[k][2]] = t][c] = codes[c]
    OBVIOUS
  <1> QED
    BY <1>1 DEF CodesAfter

\* Once every row is written, nothing comes after.
LEMMA CodesAfterAll ==
    ASSUME NEW file \in File, NEW codes \in [Code -> ObjectType \cup {NoType}],
           \A k \in ValidRows(file) :
               (\A j \in ValidRows(file) : file.rows[j][2] = file.rows[k][2] => j <= k)
                   => codes[file.rows[k][2]] = file.rows[k][1]
    PROVE  CodesAfter(file, codes) = codes
  <1> DEFINE ks(c) == {k \in ValidRows(file) : file.rows[k][2] = c}
             last(c) == CHOOSE k \in ks(c) : \A j \in ks(c) : j <= k
  <1>1. ASSUME NEW c \in Code, ks(c) # {} PROVE file.rows[last(c)][1] = codes[c]
    <2>1. PICK n \in Nat : ValidRows(file) \subseteq 0..n
      BY RowFacts
    <2>2. \E k \in ks(c) : \A j \in ks(c) : j <= k
      BY <1>1, <2>1, GreatestNumber
    <2>3. last(c) \in ks(c) /\ \A j \in ks(c) : j <= last(c)
      BY <2>2
    <2> HIDE DEF last
    <2> QED
      BY <2>3
  <1>2. CodesAfter(file, codes) = [c \in Code |-> IF ks(c) = {} THEN codes[c] ELSE file.rows[last(c)][1]]
    BY DEF CodesAfter
  <1> HIDE DEF ks, last
  <1> QED
    BY <1>1, <1>2

\* What previews say stays as long as the relation and the entities do.
LEMMA PreviewsKept ==
    ASSUME NEW f \in File, PreviewIsNow(f), relation' = relation, abox' = abox, previews'[f] = previews[f]
    PROVE  PreviewIsNow(f)'
  <1>1. Unambiguous' = Unambiguous /\ CodesNow' = CodesNow /\ SeenRelation' = SeenRelation
    BY DEF Unambiguous, CodesNow, SeenRelation
  <1>2. \A codes : ValidFacts(f, SeenRelation, CodesAfter(f, codes))' = ValidFacts(f, SeenRelation, CodesAfter(f, codes))
    BY <1>1 DEF ValidFacts, CodesAfter, Fits
  <1> QED
    BY <1>1, <1>2 DEF PreviewIsNow

\* What is promised to an import stays as long as it does not work on its rows.
LEMMA ImportKept ==
    ASSUME NEW i \in Importer, ExpectsRows(i), InOrder(i),
           importing'[i] = importing[i] \/ importing'[i] = NotImporting \/ importing'[i] = [importing[i] EXCEPT !.overtaken = TRUE],
           importing[i] \in {NotImporting} \cup Importing
    PROVE  ExpectsRows(i)' /\ InOrder(i)'
  BY DEF ExpectsRows, InOrder, Written, NotImporting, Importing

LEMMA InitPromiseInv == RelationInit => PromiseInv
  BY DEF RelationInit, NoPreview, PromiseInv, PreviewIsNow, ExpectsRows, InOrder, DryRunPredicts, NotImporting

LEMMA NextPromiseInv == FactTInv /\ PromiseInv /\ [RelationNext]_relationVars => PromiseInv'
  <1> SUFFICES ASSUME FactTInv, PromiseInv, [RelationNext]_relationVars PROVE PromiseInv'
    OBVIOUS
  <1>a. ASSUME previews' = NoPreview PROVE \A f \in File : PreviewIsNow(f)'
    BY <1>a DEF PreviewIsNow, NoPreview
  <1>b. ASSUME previews' = previews, relation' = relation, abox' = abox PROVE \A f \in File : PreviewIsNow(f)'
    BY <1>b, PreviewsKept DEF PromiseInv
  <1>c. ASSUME importing' = importing PROVE DryRunPredicts' /\ \A i \in Importer : ExpectsRows(i)' /\ InOrder(i)'
    BY <1>c, ImportKept DEF PromiseInv, FactTInv, DryRunPredicts
  <1>d. ASSUME NEW i \in Importer, \A j \in Importer : j # i => importing'[j] = importing[j],
               ExpectsRows(i)', InOrder(i)',
               NoFacts \notin {importing'[i].accepted, importing'[i].expects} => importing'[i].accepted = importing'[i].expects
        PROVE  DryRunPredicts' /\ \A j \in Importer : ExpectsRows(j)' /\ InOrder(j)'
    BY <1>d, ImportKept DEF PromiseInv, FactTInv, DryRunPredicts
  <1>1. ASSUME NEW s \in Types, NEW t \in Types, CreateRelation(s, t) PROVE PromiseInv'
    BY <1>1, <1>a, <1>c DEF CreateRelation, PromiseInv
  <1>2. ASSUME SwitchRelation PROVE PromiseInv'
    BY <1>2, <1>a, <1>c DEF SwitchRelation, PromiseInv
  <1>3. ASSUME NEW r \in Reviewer, WriteEdit(r) PROVE PromiseInv'
    <2>1. \A i \in Importer : importing'[i] = NotImporting \/ importing'[i] = [importing[i] EXCEPT !.overtaken = TRUE]
      BY <1>3 DEF WriteEdit, Overtaken
    <2>2. \A i \in Importer : ExpectsRows(i)' /\ InOrder(i)'
      BY <2>1, ImportKept DEF PromiseInv, FactTInv
    <2>3. DryRunPredicts'
      <3>1. ASSUME NEW i \in Importer
            PROVE  \/ importing'[i].accepted = NoFacts
                   \/ importing'[i].accepted = importing[i].accepted /\ importing'[i].expects = importing[i].expects
        <4>1. importing[i] \in {NotImporting} \cup Importing
          BY DEF FactTInv
        <4>2. CASE importing'[i] = NotImporting
          BY <4>2 DEF NotImporting
        <4>3. CASE importing[i] = NotImporting /\ importing'[i] = [importing[i] EXCEPT !.overtaken = TRUE]
          BY <4>3 DEF NotImporting
        <4>4. CASE importing[i] \in Importing /\ importing'[i] = [importing[i] EXCEPT !.overtaken = TRUE]
          BY <4>4 DEF Importing
        <4> QED
          BY <2>1, <4>1, <4>2, <4>3, <4>4
      <3> QED
        BY <3>1 DEF PromiseInv, DryRunPredicts
    <2> QED
      BY <1>3, <1>a, <2>2, <2>3 DEF WriteEdit, PromiseInv
  <1>4. ASSUME NEW e \in abox, DeprecateEntity(e) PROVE PromiseInv'
    BY <1>4, <1>a, <1>c DEF DeprecateEntity, PromiseInv
  <1>5. ASSUME NEW f \in File, DryRun(f) PROVE PromiseInv'
    <2>1. PICK codes \in CodesNow :
              previews' = [previews EXCEPT ![f] = IF Unambiguous
                              THEN ValidFacts(f, SeenRelation, CodesAfter(f, codes)) ELSE NoFacts]
      BY <1>5 DEF DryRun
    <2>2. relation' = relation /\ abox' = abox /\ importing' = importing
      BY <1>5 DEF DryRun
    <2>3. ASSUME NEW g \in File, g # f PROVE PreviewIsNow(g)'
      BY <2>1, <2>2, <2>3, PreviewsKept DEF PromiseInv, FactTInv
    <2>4. PreviewIsNow(f)'
      <3>1. Unambiguous' = Unambiguous /\ CodesNow' = CodesNow /\ SeenRelation' = SeenRelation
        BY <2>2 DEF Unambiguous, CodesNow, SeenRelation
      <3>2. \A others : ValidFacts(f, SeenRelation, CodesAfter(f, others))' = ValidFacts(f, SeenRelation, CodesAfter(f, others))
        BY <3>1 DEF ValidFacts, CodesAfter, Fits
      <3>3. previews'[f] = IF Unambiguous THEN ValidFacts(f, SeenRelation, CodesAfter(f, codes)) ELSE NoFacts
        BY <2>1 DEF FactTInv
      <3>4. Unambiguous => \A others \in CodesNow : others = codes
        BY CodesUnique
      <3> QED
        BY <3>1, <3>2, <3>3, <3>4 DEF PreviewIsNow
    <2> QED
      BY <1>c, <2>2, <2>3, <2>4 DEF PromiseInv
  <1>6. ASSUME NEW f \in File, NEW i \in Importer, LoadTBox(i, f) PROVE PromiseInv'
    <2>1. PICK codes \in CodesNow : importing' = [importing EXCEPT ![i] = Loaded(f, codes)]
      BY <1>6 DEF LoadTBox, Loaded, FactTInv
    <2>2. importing'[i] = Loaded(f, codes) /\ \A j \in Importer : j # i => importing'[j] = importing[j]
      BY <2>1 DEF FactTInv
    <2>3. /\ Loaded(f, codes).pc = "entities" /\ Loaded(f, codes).file = f /\ Loaded(f, codes).sees = SeenRelation
          /\ Loaded(f, codes).codes = codes /\ Loaded(f, codes).todo = ValidRows(f)
          /\ Loaded(f, codes).accepted = NoFacts /\ Loaded(f, codes).expects = previews[f]
      BY DEF Loaded, NotImporting
    <2>4. InOrder(i)'
      BY <2>2, <2>3 DEF InOrder, Written
    <2>5. ExpectsRows(i)'
      <3>1. previews[f] # NoFacts => previews[f] = ValidFacts(f, SeenRelation, CodesAfter(f, codes))
        BY DEF PromiseInv, PreviewIsNow
      <3> QED
        BY <2>2, <2>3, <3>1 DEF ExpectsRows
    <2>6. \A g \in File : PreviewIsNow(g)'
      BY <1>6, <1>b DEF LoadTBox
    <2> QED
      BY <1>d, <2>2, <2>3, <2>4, <2>5, <2>6 DEF PromiseInv
  <1>7. ASSUME NEW i \in Importer, WriteEntityRow(i) PROVE PromiseInv'
    <2> DEFINE k == CHOOSE n \in importing[i].todo : \A j \in importing[i].todo : n <= j
               file == importing[i].file
               row == file.rows[k]
    <2>1. importing[i] \in Importing /\ file \in File /\ importing[i].codes \in [Code -> ObjectType \cup {NoType}]
      BY <1>7, AtWork DEF WriteEntityRow, Importing
    <2>2. /\ k \in importing[i].todo /\ k \in ValidRows(file)
          /\ \A j \in importing[i].todo : k <= j
      BY <1>7, NextRow DEF WriteEntityRow, FactTInv, TodoOf
    <2>3. /\ importing' = [importing EXCEPT ![i].todo = importing[i].todo \ {k}, ![i].codes[row[2]] = row[1]]
          /\ abox' = abox \cup {row} /\ previews' = IF row \in abox THEN previews ELSE NoPreview
          /\ relation' = relation
      BY <1>7 DEF WriteEntityRow
    <2> HIDE DEF k
    <2>4. /\ importing'[i].todo = importing[i].todo \ {k} /\ importing'[i].file = file
          /\ importing'[i].codes = [importing[i].codes EXCEPT ![row[2]] = row[1]]
          /\ importing'[i].sees = importing[i].sees /\ importing'[i].pc = importing[i].pc
          /\ importing'[i].accepted = importing[i].accepted /\ importing'[i].expects = importing[i].expects
          /\ \A j \in Importer : j # i => importing'[j] = importing[j]
      BY <2>1, <2>3 DEF FactTInv, Importing
    <2>5. ExpectsRows(i)'
      <3>1. CodesAfter(file, importing'[i].codes) = CodesAfter(file, importing[i].codes)
        <4>1. CodesAfter(file, [importing[i].codes EXCEPT ![file.rows[k][2]] = file.rows[k][1]])
                  = CodesAfter(file, importing[i].codes)
          BY <2>1, <2>2, CodesAfterRow
        <4> QED
          BY <2>4, <4>1
      <3>2. ExpectsRows(i)
        BY DEF PromiseInv
      <3> QED
        BY <2>4, <3>1, <3>2 DEF ExpectsRows
    <2>6. InOrder(i)'
      <3>1. importing[i].pc = "entities" /\ InOrder(i) /\ importing[i].todo \subseteq ValidRows(file)
            /\ ValidRows(file) \subseteq Nat
        BY <1>7, <2>1, RowFacts DEF WriteEntityRow, PromiseInv, FactTInv, TodoOf
      <3>2. Written(i)' = Written(i) \cup {k}
        BY <2>2, <2>4, <3>1 DEF Written
      <3>3. \A w \in Written(i)', j \in importing'[i].todo : w < j
        <4>1. \A w \in Written(i), j \in importing[i].todo : w < j
          BY <3>1 DEF InOrder
        <4>2. \A j \in importing[i].todo : j \in Nat /\ k <= j
          BY <2>2, <3>1
        <4>3. \A j \in importing'[i].todo : j \in importing[i].todo /\ k < j
          BY <2>2, <2>4, <3>1, <4>2
        <4> HIDE DEF Written
        <4> QED
          BY <3>2, <4>1, <4>3
      <3>4. \A w \in Written(i)' : file.rows[w][2] \in Code
        BY <2>1, <2>2, <3>1, <3>2, RowFacts DEF Written, EntityKey
      <3>5. ASSUME NEW w \in Written(i)',
                   \A j \in Written(i)' : file.rows[j][2] = file.rows[w][2] => j <= w
            PROVE  importing'[i].codes[file.rows[w][2]] = file.rows[w][1]
        <4>1. CASE w = k
          BY <2>1, <2>4, <3>4, <4>1
        <4>2. CASE w # k
          <5>1. w \in Written(i) /\ w < k
            BY <2>2, <3>1, <3>2, <4>2 DEF InOrder
          <5>2. file.rows[w][2] # file.rows[k][2]
            BY <2>2, <3>1, <3>2, <3>5, <5>1 DEF Written
          <5>3. importing[i].codes[file.rows[w][2]] = file.rows[w][1]
            BY <3>1, <3>2, <3>5, <5>1 DEF InOrder
          <5> QED
            BY <2>1, <2>4, <3>4, <5>2, <5>3
        <4> QED
          BY <4>1, <4>2
      <3> QED
        BY <2>4, <3>3, <3>5 DEF InOrder
    <2>7. \A f \in File : PreviewIsNow(f)'
      <3>1. CASE row \in abox
        BY <1>b, <2>3, <3>1
      <3>2. CASE row \notin abox
        BY <1>a, <2>3, <3>2
      <3> QED
        BY <3>1, <3>2
    <2>8. NoFacts \notin {importing'[i].accepted, importing'[i].expects} => importing'[i].accepted = importing'[i].expects
      BY <2>4 DEF PromiseInv, DryRunPredicts
    <2> QED
      BY <1>d, <2>4, <2>5, <2>6, <2>7, <2>8 DEF PromiseInv
  <1>8. ASSUME NEW i \in Importer, ValidateFacts(i) PROVE PromiseInv'
    <2> DEFINE valid == ValidFacts(importing[i].file, importing[i].sees, importing[i].codes)
    <2>1. importing[i] \in Importing /\ importing[i].file \in File /\ importing[i].codes \in [Code -> ObjectType \cup {NoType}]
      BY <1>8, AtWork DEF ValidateFacts, Importing
    <2>2. /\ importing'[i].pc = "facts" /\ importing'[i].accepted = valid /\ importing'[i].expects = importing[i].expects
          /\ \A j \in Importer : j # i => importing'[j] = importing[j]
          /\ relation' = relation /\ abox' = abox /\ previews' = previews
      BY <1>8, <2>1 DEF ValidateFacts, FactTInv, Importing
    <2>3. CodesAfter(importing[i].file, importing[i].codes) = importing[i].codes
      <3>1. importing[i].pc = "entities" /\ Written(i) = ValidRows(importing[i].file) /\ InOrder(i)
        BY <1>8 DEF ValidateFacts, Written, PromiseInv
      <3> QED
        BY <2>1, <3>1, CodesAfterAll DEF InOrder
    <2>4. importing[i].expects # NoFacts => importing[i].expects = valid
      BY <1>8, <2>3 DEF ValidateFacts, PromiseInv, ExpectsRows
    <2>5. ExpectsRows(i)' /\ InOrder(i)'
      BY <2>2 DEF ExpectsRows, InOrder
    <2> HIDE DEF valid
    <2>6. NoFacts \notin {importing'[i].accepted, importing'[i].expects} => importing'[i].accepted = importing'[i].expects
      BY <2>2, <2>4
    <2> QED
      BY <1>b, <1>d, <2>2, <2>5, <2>6 DEF PromiseInv
  <1>9. ASSUME NEW i \in Importer, NEW fact \in importing[i].todo, WriteFact(i, fact) PROVE PromiseInv'
    <2>1. importing[i] \in Importing
      BY <1>9, AtWork DEF WriteFact
    <2>2. /\ importing'[i].pc = "facts" /\ importing'[i].accepted = importing[i].accepted
          /\ importing'[i].expects = importing[i].expects
          /\ \A j \in Importer : j # i => importing'[j] = importing[j]
          /\ relation' = relation /\ abox' = abox /\ previews' = previews
      BY <1>9, <2>1 DEF WriteFact, FactTInv, Importing
    <2>3. ExpectsRows(i)' /\ InOrder(i)'
      BY <2>2 DEF ExpectsRows, InOrder
    <2>4. NoFacts \notin {importing'[i].accepted, importing'[i].expects} => importing'[i].accepted = importing'[i].expects
      BY <2>2 DEF PromiseInv, DryRunPredicts
    <2> QED
      BY <1>b, <1>d, <2>2, <2>3, <2>4 DEF PromiseInv
  <1>10. ASSUME NEW i \in Importer, ImportEnds(i) PROVE PromiseInv'
    <2>1. importing'[i] = NotImporting /\ \A j \in Importer : j # i => importing'[j] = importing[j]
      BY <1>10 DEF ImportEnds, FactTInv
    <2>2. ExpectsRows(i)' /\ InOrder(i)'
      BY <2>1 DEF ExpectsRows, InOrder, NotImporting
    <2>3. NoFacts \in {importing'[i].accepted, importing'[i].expects}
      BY <2>1 DEF NotImporting
    <2> QED
      BY <1>10, <1>b, <1>d, <2>1, <2>2, <2>3 DEF ImportEnds, PromiseInv
  <1>11. CASE UNCHANGED <<relation, abox, importing, previews>>
    BY <1>11, <1>b, <1>c DEF PromiseInv
  <1> QED
    BY <1>1, <1>2, <1>3, <1>4, <1>5, <1>6, <1>7, <1>8, <1>9, <1>10, <1>11
    DEF RelationNext, Types, relationVars, SubmitEdit, AdmitEdit, PlanEdit, ApproverLost, AddFactUnchecked, RevokeFact

-------------------------------------------------------------------------------
\* However a relation type is edited while facts are imported, deprecated and
\* revoked, every fact that a check covers joins types that it joins now, and an
\* import takes exactly what its dry run promised.
THEOREM FactsGoverned == RelationSpec => []FactsAreGoverned
  <1> DEFINE FactsInv == FactTInv /\ FitInv /\ PromiseInv
  <1>1. RelationInit => FactsInv
    BY InitFactTInv, InitFitInv, InitPromiseInv
  <1>2. FactsInv /\ [RelationNext]_relationVars => FactsInv'
    BY NextFactTInv, NextFitInv, NextPromiseInv
  <1>3. FactsInv => FactsAreGoverned
    BY DEF FitInv, PromiseInv, FactsAreGoverned
  <1> QED
    BY <1>1, <1>2, <1>3, PTL DEF RelationSpec

--------------------------------------------------------------------------------
(****************************************************************************)
(* Evaluation runs.                                                         *)
(****************************************************************************)
\* A run has a row once its request inserted it, a job once it enqueued it, and
\* a task only while the queue holds the job as being done.
Phases ==
    \A r \in Run :
        /\ start[r] \in {"unsent", "free"} => runs[r].status = "none" /\ r \notin cancelling
        /\ start[r] # "over" => job[r].status = "none"
        /\ task[r].pc # "none" => job[r].status = "doing"

TInv == TypeOK /\ Phases

\* A run that got a result after its end is not about to get another one.
StopsAt(r) ==
    /\ start[r] # "over" => late[r] = 0
    /\ late[r] <= 1
    /\ late[r] = 1 => ~Running(r) /\ task[r].pc \notin {"beat", "score"}
Stopping == \A r \in Run : StopsAt(r)

\* A case that is still ahead of a job, or of its next attempt, has been paid for.
PaidAt(r, c) ==
    /\ start[r] # "over" => results[r][c] = 0
    /\ results[r][c] <= 1 + job[r].tries
    /\ job[r].status = "todo" => results[r][c] <= job[r].tries
    /\ task[r].pc \in {"check", "beat", "score"} /\ c >= task[r].at => results[r][c] <= job[r].tries
Paid == \A r \in Run, c \in Case : PaidAt(r, c)

\* Behind the case a task is at, every case has a result.
ScoredAt(r, c) ==
    /\ task[r].pc \in {"check", "beat", "score"} /\ c < task[r].at => results[r][c] >= 1
    /\ task[r].pc = "finish" \/ runs[r].status = "completed" => results[r][c] >= 1
Scored == \A r \in Run, c \in Case : ScoredAt(r, c)

-------------------------------------------------------------------------------
\* The constants make cases numbers from 1 on.
LEMMA CaseFacts ==
    /\ Case \subseteq Nat
    /\ 1 \in Case /\ Cases \in Case
    /\ \A c \in Case : c # Cases => c + 1 \in Case
  BY EvalRunsAssumption DEF EvalRunsAssumption, Case

\* Everything is well typed at the start, and nothing has been requested.
LEMMA InitTInv == Init => TInv
  BY CaseFacts, EvalRunsAssumption
  DEF Init, TInv, TypeOK, Phases, NoTask, EvalRunsAssumption, Ended

\* Setting the status of a row, the heartbeat of a row, or the step of a task
\* leaves a row and a task.
LEMMA UpdatesTyped ==
    ASSUME TypeOK, NEW r \in Run
    PROVE  /\ \A status \in Ended :
                  [runs EXCEPT ![r].status = status] \in
                      [Run -> [status : Ended \cup {"none", "running"}, stale : BOOLEAN]]
           /\ [runs EXCEPT ![r].stale = FALSE] \in
                  [Run -> [status : Ended \cup {"none", "running"}, stale : BOOLEAN]]
           /\ \A pc \in {"check", "beat", "score", "finish", "failing"}, at \in Case :
                  /\ [task EXCEPT ![r].pc = pc] \in
                         [Run -> [pc : {"none", "check", "beat", "score", "finish", "failing"},
                                  worker : Worker \cup {NoWorker}, at : Case]]
                  /\ [task EXCEPT ![r].pc = pc, ![r].at = at] \in
                         [Run -> [pc : {"none", "check", "beat", "score", "finish", "failing"},
                                  worker : Worker \cup {NoWorker}, at : Case]]
  <1> DEFINE Row == [status : Ended \cup {"none", "running"}, stale : BOOLEAN]
             Task == [pc : {"none", "check", "beat", "score", "finish", "failing"},
                      worker : Worker \cup {NoWorker}, at : Case]
  <1>1. runs[r] \in Row /\ task[r] \in Task
    BY DEF TypeOK
  <1>2. ASSUME NEW status \in Ended
        PROVE  [runs EXCEPT ![r].status = status] \in [Run -> Row]
    <2>1. [runs[r] EXCEPT !.status = status] \in Row
      BY <1>1
    <2> QED
      BY <2>1 DEF TypeOK
  <1>3. [runs EXCEPT ![r].stale = FALSE] \in [Run -> Row]
    <2>1. [runs[r] EXCEPT !.stale = FALSE] \in Row
      BY <1>1
    <2> QED
      BY <2>1 DEF TypeOK
  <1>4. ASSUME NEW pc \in {"check", "beat", "score", "finish", "failing"}, NEW at \in Case
        PROVE  /\ [task EXCEPT ![r].pc = pc] \in [Run -> Task]
               /\ [task EXCEPT ![r].pc = pc, ![r].at = at] \in [Run -> Task]
    <2>1. [task[r] EXCEPT !.pc = pc] \in Task
      BY <1>1
    <2>2. [task EXCEPT ![r].pc = pc] \in [Run -> Task]
      BY <2>1 DEF TypeOK
    <2>3. [[task[r] EXCEPT !.pc = pc] EXCEPT !.at = at] \in Task
      BY <2>1
    <2>4. [[task EXCEPT ![r].pc = pc] EXCEPT ![r].at = at] \in [Run -> Task]
      BY <2>2, <2>3 DEF TypeOK
    <2>5. [task EXCEPT ![r].pc = pc, ![r].at = at] = [[task EXCEPT ![r].pc = pc] EXCEPT ![r].at = at]
      OBVIOUS
    <2> QED
      BY <2>2, <2>4, <2>5
  <1> QED
    BY <1>2, <1>3, <1>4

\* Returning from a task leaves a job and no task.
LEMMA ReturnTyped ==
    ASSUME TypeOK, NEW r \in Run, Return(r)
    PROVE  /\ task' \in [Run -> [pc : {"none", "check", "beat", "score", "finish", "failing"},
                                 worker : Worker \cup {NoWorker}, at : Case]]
           /\ job' \in [Run -> [status : {"none", "todo", "doing", "done"}, tries : 0..Retries]]
  BY ZenonT(30), CaseFacts DEF TypeOK, Return, NoTask

\* Every action keeps the types.
LEMMA NextTypeOK ==
    ASSUME TypeOK, [Next]_vars
    PROVE  TypeOK'
  <1>1. ASSUME NEW r \in Run, CheckBusy(r) PROVE TypeOK'
    BY <1>1 DEF TypeOK, CheckBusy
  <1>2. ASSUME NEW r \in Run, InsertRun(r) PROVE TypeOK'
    BY <1>2 DEF TypeOK, InsertRun
  <1>3. ASSUME NEW r \in Run, Enqueue(r) PROVE TypeOK'
    BY ZenonT(30), <1>3 DEF TypeOK, Enqueue
  <1>4. ASSUME NEW r \in Run, StartFails(r) PROVE TypeOK'
    BY <1>4 DEF TypeOK, StartFails
  <1>5. ASSUME NEW r \in Run, CancelRead(r) PROVE TypeOK'
    BY <1>5 DEF TypeOK, CancelRead, Running
  <1>6. ASSUME NEW r \in Run, CancelWrite(r) PROVE TypeOK'
    BY <1>6, UpdatesTyped DEF TypeOK, CancelWrite, Mark, Ended
  <1>7. ASSUME NEW w \in Worker, NEW r \in Run, Fetch(w, r) PROVE TypeOK'
    BY ZenonT(30), <1>7, CaseFacts DEF TypeOK, Fetch
  <1>8. ASSUME NEW r \in Run, Check(r) PROVE TypeOK'
    <2>1. CASE Running(r)
      <3>1. task' = [task EXCEPT ![r].pc = "beat"] /\ UNCHANGED <<runs, start, cancelling, job, up, results, late>>
        BY <1>8, <2>1 DEF Check
      <3>2. task' \in [Run -> [pc : {"none", "check", "beat", "score", "finish", "failing"},
                               worker : Worker \cup {NoWorker}, at : Case]]
        BY <3>1, UpdatesTyped, CaseFacts
      <3> QED
        BY <3>1, <3>2 DEF TypeOK
    <2>2. CASE ~Running(r)
      <3>1. Return(r) /\ UNCHANGED <<runs, start, cancelling, up, results, late>>
        BY <1>8, <2>2 DEF Check
      <3> QED
        BY <3>1, ReturnTyped DEF TypeOK
    <2> QED
      BY <2>1, <2>2
  <1>9. ASSUME NEW r \in Run, Beat(r) PROVE TypeOK'
    BY <1>9, UpdatesTyped DEF TypeOK, Beat
  <1>10. ASSUME NEW r \in Run, Score(r) PROVE TypeOK'
    <2>1. task[r].at \in Case
      BY <1>10 DEF TypeOK
    <2>2. (IF task[r].at = Cases THEN task[r].at ELSE task[r].at + 1) \in Case
      BY <2>1, CaseFacts
    <2>3. AfterCase(task[r].at) \in {"finish", "check"}
      BY DEF AfterCase
    <2>4. results' \in [Run -> [Case -> Nat]] /\ late' \in [Run -> Nat]
      BY <1>10, <2>1 DEF TypeOK, Score
    <2> QED
      BY <1>10, <2>2, <2>3, <2>4, UpdatesTyped DEF TypeOK, Score
  <1>11. ASSUME NEW r \in Run, Finish(r) PROVE TypeOK'
    BY <1>11, UpdatesTyped, ReturnTyped DEF TypeOK, Finish, Mark, Ended
  <1>12. ASSUME NEW r \in Run, Raise(r) PROVE TypeOK'
    BY ZenonT(30), <1>12 DEF TypeOK, Raise
  <1>13. ASSUME NEW r \in Run, FinishFailed(r) PROVE TypeOK'
    BY <1>13, UpdatesTyped, ReturnTyped DEF TypeOK, FinishFailed, Mark, Ended
  <1>14. ASSUME NEW r \in Run, JobRaises(r) PROVE TypeOK'
    BY <1>14, CaseFacts, EvalRunsAssumption DEF TypeOK, JobRaises, NoTask, EvalRunsAssumption
  <1>15. ASSUME NEW r \in Run, TimePasses(r) PROVE TypeOK'
    <2>1. runs' = [runs EXCEPT ![r].stale = TRUE] /\ UNCHANGED <<start, cancelling, job, task, up, results, late>>
      BY <1>15 DEF TimePasses
    <2>2. [runs[r] EXCEPT !.stale = TRUE] \in [status : Ended \cup {"none", "running"}, stale : BOOLEAN]
      <3>1. runs[r] \in [status : Ended \cup {"none", "running"}, stale : BOOLEAN]
        BY DEF TypeOK
      <3> HIDE DEF Ended
      <3> QED
        BY <3>1, Zenon
    <2>3. runs' \in [Run -> [status : Ended \cup {"none", "running"}, stale : BOOLEAN]]
      BY <2>1, <2>2 DEF TypeOK
    <2> QED
      BY <2>1, <2>3 DEF TypeOK
  <1>16. ASSUME NEW w \in Worker, Crash(w) PROVE TypeOK'
    BY <1>16, CaseFacts DEF TypeOK, Crash, NoTask
  <1>17. ASSUME NEW w \in Worker, StartWorker(w) PROVE TypeOK'
    BY <1>17 DEF TypeOK, StartWorker, Recover, Ended
  <1>18. ASSUME NEW w \in Worker, StartUnrecovered(w) PROVE TypeOK'
    BY <1>18 DEF TypeOK, StartUnrecovered
  <1>19. CASE UNCHANGED vars
    BY <1>19 DEF TypeOK, vars
  <1> QED
    BY <1>1, <1>2, <1>3, <1>4, <1>5, <1>6, <1>7, <1>8, <1>9, <1>10, <1>11, <1>12, <1>13, <1>14, <1>15, <1>16, <1>17, <1>18, <1>19 DEF Next, TaskStep

\* Every action keeps the phases.
LEMMA NextPhases ==
    ASSUME TypeOK, Phases, [Next]_vars
    PROVE  Phases'
  <1>1. ASSUME NEW r \in Run, CheckBusy(r) PROVE Phases'
    BY <1>1 DEF TypeOK, Phases, CheckBusy
  <1>2. ASSUME NEW r \in Run, InsertRun(r) PROVE Phases'
    BY <1>2 DEF TypeOK, Phases, InsertRun
  <1>3. ASSUME NEW r \in Run, Enqueue(r) PROVE Phases'
    BY <1>3 DEF TypeOK, Phases, Enqueue
  <1>4. ASSUME NEW r \in Run, StartFails(r) PROVE Phases'
    BY <1>4 DEF TypeOK, Phases, StartFails
  <1>5. ASSUME NEW r \in Run, CancelRead(r) PROVE Phases'
    BY <1>5 DEF TypeOK, Phases, CancelRead, Running
  <1>6. ASSUME NEW r \in Run, CancelWrite(r) PROVE Phases'
    BY <1>6 DEF TypeOK, Phases, CancelWrite, Mark
  <1>7. ASSUME NEW w \in Worker, NEW r \in Run, Fetch(w, r) PROVE Phases'
    BY <1>7 DEF TypeOK, Phases, Fetch
  <1>8. ASSUME NEW r \in Run, Check(r) PROVE Phases'
    <2> task[r].pc = "check" /\ UNCHANGED <<runs, start, cancelling, up, results, late>>
      BY <1>8 DEF Check
    <2>1. CASE Running(r)
      <3>1. task' = [task EXCEPT ![r].pc = "beat"] /\ UNCHANGED job
        BY <1>8, <2>1 DEF Check
      <3> QED
        BY <3>1 DEF TypeOK, Phases
    <2>2. CASE ~Running(r)
      <3>1. Return(r)
        BY <1>8, <2>2 DEF Check
      <3> QED
        BY <3>1 DEF TypeOK, Phases, Return, NoTask
    <2> QED
      BY <2>1, <2>2
  <1>9. ASSUME NEW r \in Run, Beat(r) PROVE Phases'
    BY <1>9 DEF TypeOK, Phases, Beat
  <1>10. ASSUME NEW r \in Run, Score(r) PROVE Phases'
    BY <1>10 DEF TypeOK, Phases, Score, AfterCase
  <1>11. ASSUME NEW r \in Run, Finish(r) PROVE Phases'
    BY <1>11 DEF TypeOK, Phases, Finish, Mark, Return, NoTask
  <1>12. ASSUME NEW r \in Run, Raise(r) PROVE Phases'
    BY <1>12 DEF TypeOK, Phases, Raise
  <1>13. ASSUME NEW r \in Run, FinishFailed(r) PROVE Phases'
    BY <1>13 DEF TypeOK, Phases, FinishFailed, Mark, Return, NoTask
  <1>14. ASSUME NEW r \in Run, JobRaises(r) PROVE Phases'
    BY <1>14 DEF TypeOK, Phases, JobRaises, NoTask
  <1>15. ASSUME NEW r \in Run, TimePasses(r) PROVE Phases'
    BY <1>15 DEF TypeOK, Phases, TimePasses
  <1>16. ASSUME NEW w \in Worker, Crash(w) PROVE Phases'
    BY <1>16 DEF TypeOK, Phases, Crash, NoTask
  <1>17. ASSUME NEW w \in Worker, StartWorker(w) PROVE Phases'
    BY <1>17 DEF TypeOK, Phases, StartWorker, Recover, Running
  <1>18. ASSUME NEW w \in Worker, StartUnrecovered(w) PROVE Phases'
    BY <1>18 DEF TypeOK, Phases, StartUnrecovered
  <1>19. CASE UNCHANGED vars
    BY <1>19 DEF TypeOK, Phases, vars
  <1> QED
    BY <1>1, <1>2, <1>3, <1>4, <1>5, <1>6, <1>7, <1>8, <1>9, <1>10, <1>11, <1>12, <1>13, <1>14, <1>15, <1>16, <1>17, <1>18, <1>19 DEF Next, TaskStep

\* Storing the result of a case counts one more result of this case, and one more
\* late result if the run has stopped; the task goes on behind the case.
Scores(r) ==
    /\ task[r].pc = "score" /\ task[r].at \in Case
    /\ UNCHANGED <<runs, start, job>>
    /\ \A x \in Run, c \in Case :
           results'[x][c] = IF x = r /\ c = task[r].at THEN results[x][c] + 1 ELSE results[x][c]
    /\ \A x \in Run : late'[x] = IF x = r /\ ~Running(r) THEN late[x] + 1 ELSE late[x]
    /\ \A x \in Run \ {r} : task'[x] = task[x]
    /\ \/ /\ task[r].at = Cases
          /\ task'[r].pc = "finish" /\ task'[r].at = task[r].at
       \/ /\ task[r].at # Cases
          /\ task'[r].pc = "check" /\ task'[r].at = task[r].at + 1

LEMMA ScoreEffect ==
    ASSUME TypeOK, NEW r \in Run, Score(r)
    PROVE  Scores(r)
  <1>1. /\ task[r].pc = "score" /\ task[r].at \in Case
        /\ UNCHANGED <<runs, start, job>>
    BY DEF Score, TypeOK
  <1>2. \A x \in Run, c \in Case :
            results'[x][c] = IF x = r /\ c = task[r].at THEN results[x][c] + 1 ELSE results[x][c]
    BY <1>1 DEF Score, TypeOK
  <1>3. \A x \in Run : late'[x] = IF x = r /\ ~Running(r) THEN late[x] + 1 ELSE late[x]
    <2>1. CASE Running(r)
      BY <2>1 DEF Score
    <2>2. CASE ~Running(r)
      BY <2>2 DEF Score, TypeOK
    <2> QED
      BY <2>1, <2>2
  <1>4. CASE task[r].at = Cases
    <2>1. task' = [task EXCEPT ![r].pc = "finish", ![r].at = task[r].at]
      BY <1>4 DEF Score, AfterCase
    <2>2. /\ \A x \in Run \ {r} : task'[x] = task[x]
          /\ task'[r].pc = "finish" /\ task'[r].at = task[r].at
      BY <2>1 DEF TypeOK
    <2> QED
      BY <1>1, <1>2, <1>3, <1>4, <2>2 DEF Scores
  <1>5. CASE task[r].at # Cases
    <2>1. task' = [task EXCEPT ![r].pc = "check", ![r].at = task[r].at + 1]
      BY <1>5 DEF Score, AfterCase
    <2>2. /\ \A x \in Run \ {r} : task'[x] = task[x]
          /\ task'[r].pc = "check" /\ task'[r].at = task[r].at + 1
      BY <2>1 DEF TypeOK
    <2> QED
      BY <1>1, <1>2, <1>3, <1>5, <2>2 DEF Scores
  <1> QED
    BY <1>4, <1>5

\* It keeps the promise to stop: a task scores only while nothing is late.
LEMMA ScoreStopping ==
    ASSUME TypeOK, Phases, Stopping, NEW r \in Run, Scores(r)
    PROVE  Stopping'
  <1> SUFFICES ASSUME NEW x \in Run PROVE StopsAt(x)'
    BY DEF Stopping
  <1>1. /\ late[x] \in Nat /\ StopsAt(x)
        /\ start[x] # "over" => job[x].status = "none"
        /\ task[x].pc # "none" => job[x].status = "doing"
    BY DEF TypeOK, Phases, Stopping
  <1>2. CASE x = r
    BY <1>1, <1>2 DEF Scores, Running, StopsAt
  <1>3. CASE x # r
    BY <1>1, <1>3 DEF Scores, Running, StopsAt
  <1> QED
    BY <1>2, <1>3

\* It stores what is paid for.
LEMMA ScorePaid ==
    ASSUME TypeOK, Phases, Paid, NEW r \in Run, Scores(r)
    PROVE  Paid'
  <1> SUFFICES ASSUME NEW x \in Run, NEW c \in Case PROVE PaidAt(x, c)'
    BY DEF Paid
  <1>1. /\ results[x][c] \in Nat /\ job[x].tries \in 0..Retries
        /\ task[x].at \in 1..Cases /\ c \in 1..Cases
    <2>1. results[x] \in [Case -> Nat] /\ job[x].tries \in 0..Retries /\ task[x].at \in Case
      BY DEF TypeOK
    <2> QED
      BY <2>1 DEF Case
  <1>2. /\ PaidAt(x, c)
        /\ start[x] # "over" => job[x].status = "none"
        /\ task[x].pc # "none" => job[x].status = "doing"
    BY DEF Paid, Phases
  <1>3. CASE x = r
    BY <1>1, <1>2, <1>3 DEF Scores, PaidAt
  <1>4. CASE x # r
    BY <1>1, <1>2, <1>4 DEF Scores, PaidAt
  <1> QED
    BY <1>3, <1>4

\* It leaves no case behind.
LEMMA ScoreScored ==
    ASSUME TypeOK, Phases, Scored, NEW r \in Run, Scores(r)
    PROVE  Scored'
  <1> SUFFICES ASSUME NEW x \in Run, NEW c \in Case PROVE ScoredAt(x, c)'
    BY DEF Scored
  <1>1. results[x][c] \in Nat /\ task[x].at \in 1..Cases /\ c \in 1..Cases
    BY DEF TypeOK, Case
  <1>2. ScoredAt(x, c)
    BY DEF Scored
  <1>3. CASE x = r
    BY <1>1, <1>2, <1>3, EvalRunsAssumption DEF Scores, ScoredAt, EvalRunsAssumption
  <1>4. CASE x # r
    BY <1>1, <1>2, <1>4 DEF Scores, ScoredAt
  <1> QED
    BY <1>3, <1>4

\* Every action keeps the promise to stop: a task is past its check only while
\* nothing is late.
LEMMA NextStopping ==
    ASSUME TypeOK, Phases, Stopping, [Next]_vars
    PROVE  Stopping'
  <1>1. ASSUME NEW r \in Run, CheckBusy(r) PROVE Stopping'
    BY <1>1 DEF TypeOK, Phases, Stopping, StopsAt, Running, CheckBusy
  <1>2. ASSUME NEW r \in Run, InsertRun(r) PROVE Stopping'
    BY <1>2 DEF TypeOK, Phases, Stopping, StopsAt, Running, InsertRun
  <1>3. ASSUME NEW r \in Run, Enqueue(r) PROVE Stopping'
    BY <1>3 DEF TypeOK, Phases, Stopping, StopsAt, Running, Enqueue
  <1>4. ASSUME NEW r \in Run, StartFails(r) PROVE Stopping'
    BY <1>4 DEF TypeOK, Phases, Stopping, StopsAt, Running, StartFails
  <1>5. ASSUME NEW r \in Run, CancelWrite(r) PROVE Stopping'
    BY <1>5 DEF TypeOK, Phases, Stopping, StopsAt, Running, CancelWrite, Mark
  <1>6. ASSUME NEW w \in Worker, NEW r \in Run, Fetch(w, r) PROVE Stopping'
    BY <1>6 DEF TypeOK, Phases, Stopping, StopsAt, Running, Fetch
  <1>7. ASSUME NEW r \in Run, Check(r) PROVE Stopping'
    <2> task[r].pc = "check" /\ UNCHANGED <<runs, start, cancelling, up, results, late>>
      BY <1>7 DEF Check
    <2>1. CASE Running(r)
      <3>1. task' = [task EXCEPT ![r].pc = "beat"] /\ UNCHANGED job
        BY <1>7, <2>1 DEF Check
      <3> QED
        BY <3>1, <2>1 DEF TypeOK, Phases, Stopping, StopsAt, Running
    <2>2. CASE ~Running(r)
      <3>1. Return(r)
        BY <1>7, <2>2 DEF Check
      <3> QED
        BY <3>1, <2>2 DEF TypeOK, Phases, Stopping, StopsAt, Running, Return, NoTask
    <2> QED
      BY <2>1, <2>2
  <1>8. ASSUME NEW r \in Run, Beat(r) PROVE Stopping'
    BY <1>8 DEF TypeOK, Phases, Stopping, StopsAt, Running, Beat
  <1>9. ASSUME NEW r \in Run, Score(r) PROVE Stopping'
    BY <1>9, ScoreEffect, ScoreStopping
  <1>10. ASSUME NEW r \in Run, Finish(r) PROVE Stopping'
    BY <1>10 DEF TypeOK, Phases, Stopping, StopsAt, Running, Finish, Mark, Return, NoTask
  <1>11. ASSUME NEW r \in Run, Raise(r) PROVE Stopping'
    BY <1>11 DEF TypeOK, Phases, Stopping, StopsAt, Running, Raise
  <1>12. ASSUME NEW r \in Run, FinishFailed(r) PROVE Stopping'
    BY <1>12 DEF TypeOK, Phases, Stopping, StopsAt, Running, FinishFailed, Mark, Return, NoTask
  <1>13. ASSUME NEW r \in Run, JobRaises(r) PROVE Stopping'
    BY <1>13 DEF TypeOK, Phases, Stopping, StopsAt, Running, JobRaises, NoTask
  <1>14. ASSUME NEW r \in Run, TimePasses(r) PROVE Stopping'
    BY <1>14 DEF TypeOK, Phases, Stopping, StopsAt, Running, TimePasses
  <1>15. ASSUME NEW w \in Worker, Crash(w) PROVE Stopping'
    BY <1>15 DEF TypeOK, Phases, Stopping, StopsAt, Running, Crash, NoTask
  <1>16. ASSUME NEW w \in Worker, StartWorker(w) PROVE Stopping'
    BY <1>16 DEF TypeOK, Phases, Stopping, StopsAt, Running, StartWorker, Recover
  <1>17. ASSUME NEW w \in Worker, StartUnrecovered(w) PROVE Stopping'
    BY <1>17 DEF TypeOK, Phases, Stopping, StopsAt, Running, StartUnrecovered
  <1>18. CASE UNCHANGED <<runs, start, task, late>>
    BY <1>18 DEF TypeOK, Phases, Stopping, StopsAt, Running
  <1> QED
    BY <1>1, <1>2, <1>3, <1>4, <1>5, <1>6, <1>7, <1>8, <1>9, <1>10, <1>11, <1>12, <1>13, <1>14, <1>15, <1>16, <1>17, <1>18
    DEF Next, TaskStep, vars, CancelRead

\* Every action keeps what is paid for paid for: an attempt begins with one result
\* per case less than it may store.
LEMMA NextPaid ==
    ASSUME TypeOK, Phases, Paid, [Next]_vars
    PROVE  Paid'
  <1>1. ASSUME NEW r \in Run, CheckBusy(r) PROVE Paid'
    BY <1>1 DEF TypeOK, Phases, Paid, PaidAt, CheckBusy
  <1>2. ASSUME NEW r \in Run, Enqueue(r) PROVE Paid'
    BY <1>2 DEF TypeOK, Phases, Paid, PaidAt, Enqueue
  <1>3. ASSUME NEW r \in Run, StartFails(r) PROVE Paid'
    BY <1>3 DEF TypeOK, Phases, Paid, PaidAt, StartFails
  <1>4. ASSUME NEW w \in Worker, NEW r \in Run, Fetch(w, r) PROVE Paid'
    BY <1>4, CaseFacts DEF TypeOK, Phases, Paid, PaidAt, Fetch
  <1>5. ASSUME NEW r \in Run, Check(r) PROVE Paid'
    <2> task[r].pc = "check" /\ UNCHANGED <<runs, start, cancelling, up, results, late>>
      BY <1>5 DEF Check
    <2>1. CASE Running(r)
      <3>1. task' = [task EXCEPT ![r].pc = "beat"] /\ UNCHANGED job
        BY <1>5, <2>1 DEF Check
      <3> QED
        BY <3>1 DEF TypeOK, Phases, Paid, PaidAt
    <2>2. CASE ~Running(r)
      <3>1. Return(r)
        BY <1>5, <2>2 DEF Check
      <3> QED
        BY <3>1 DEF TypeOK, Phases, Paid, PaidAt, Return, NoTask
    <2> QED
      BY <2>1, <2>2
  <1>6. ASSUME NEW r \in Run, Beat(r) PROVE Paid'
    BY <1>6 DEF TypeOK, Phases, Paid, PaidAt, Beat
  <1>7. ASSUME NEW r \in Run, Score(r) PROVE Paid'
    BY <1>7, ScoreEffect, ScorePaid
  <1>8. ASSUME NEW r \in Run, Finish(r) PROVE Paid'
    BY <1>8 DEF TypeOK, Phases, Paid, PaidAt, Finish, Mark, Return, NoTask
  <1>9. ASSUME NEW r \in Run, Raise(r) PROVE Paid'
    BY <1>9 DEF TypeOK, Phases, Paid, PaidAt, Raise
  <1>10. ASSUME NEW r \in Run, FinishFailed(r) PROVE Paid'
    BY <1>10 DEF TypeOK, Phases, Paid, PaidAt, FinishFailed, Mark, Return, NoTask
  <1>11. ASSUME NEW r \in Run, JobRaises(r) PROVE Paid'
    BY <1>11, CaseFacts DEF TypeOK, Phases, Paid, PaidAt, JobRaises, NoTask
  <1>12. ASSUME NEW w \in Worker, Crash(w) PROVE Paid'
    BY <1>12 DEF TypeOK, Phases, Paid, PaidAt, Crash, NoTask
  <1>13. ASSUME NEW r \in Run, InsertRun(r) PROVE Paid'
    BY <1>13 DEF TypeOK, Phases, Paid, PaidAt, InsertRun
  <1>14. CASE UNCHANGED <<start, results, job, task>>
    BY <1>14 DEF Paid, PaidAt
  <1> QED
    BY <1>1, <1>2, <1>3, <1>4, <1>5, <1>6, <1>7, <1>8, <1>9, <1>10, <1>11, <1>12, <1>13, <1>14
    DEF Next, TaskStep, vars, CancelRead, CancelWrite, TimePasses, StartWorker, StartUnrecovered

\* Every action keeps what is behind a task scored.
LEMMA NextScored ==
    ASSUME TypeOK, Phases, Scored, [Next]_vars
    PROVE  Scored'
  <1>1. ASSUME NEW r \in Run, InsertRun(r) PROVE Scored'
    BY <1>1 DEF TypeOK, Phases, Scored, ScoredAt, InsertRun
  <1>2. ASSUME NEW r \in Run, CancelWrite(r) PROVE Scored'
    BY <1>2 DEF TypeOK, Phases, Scored, ScoredAt, CancelWrite, Mark
  <1>3. ASSUME NEW w \in Worker, NEW r \in Run, Fetch(w, r) PROVE Scored'
    BY SMTT(30), <1>3, CaseFacts DEF TypeOK, Phases, Scored, ScoredAt, Fetch, Case
  <1>4. ASSUME NEW r \in Run, Check(r) PROVE Scored'
    <2> task[r].pc = "check" /\ UNCHANGED <<runs, start, cancelling, up, results, late>>
      BY <1>4 DEF Check
    <2>1. CASE Running(r)
      <3>1. task' = [task EXCEPT ![r].pc = "beat"] /\ UNCHANGED job
        BY <1>4, <2>1 DEF Check
      <3> QED
        BY <3>1 DEF TypeOK, Phases, Scored, ScoredAt
    <2>2. CASE ~Running(r)
      <3>1. Return(r)
        BY <1>4, <2>2 DEF Check
      <3> QED
        BY <3>1 DEF TypeOK, Phases, Scored, ScoredAt, Return, NoTask
    <2> QED
      BY <2>1, <2>2
  <1>5. ASSUME NEW r \in Run, Beat(r) PROVE Scored'
    BY <1>5 DEF TypeOK, Phases, Scored, ScoredAt, Beat
  <1>6. ASSUME NEW r \in Run, Score(r) PROVE Scored'
    BY <1>6, ScoreEffect, ScoreScored
  <1>7. ASSUME NEW r \in Run, Finish(r) PROVE Scored'
    BY <1>7 DEF TypeOK, Phases, Scored, ScoredAt, Finish, Mark, Return, NoTask
  <1>8. ASSUME NEW r \in Run, Raise(r) PROVE Scored'
    BY <1>8 DEF TypeOK, Phases, Scored, ScoredAt, Raise
  <1>9. ASSUME NEW r \in Run, FinishFailed(r) PROVE Scored'
    BY <1>9 DEF TypeOK, Phases, Scored, ScoredAt, FinishFailed, Mark, Return, NoTask
  <1>10. ASSUME NEW r \in Run, JobRaises(r) PROVE Scored'
    BY <1>10 DEF TypeOK, Phases, Scored, ScoredAt, JobRaises, NoTask
  <1>11. ASSUME NEW r \in Run, TimePasses(r) PROVE Scored'
    BY <1>11 DEF TypeOK, Phases, Scored, ScoredAt, TimePasses
  <1>12. ASSUME NEW w \in Worker, Crash(w) PROVE Scored'
    BY <1>12 DEF TypeOK, Phases, Scored, ScoredAt, Crash, NoTask
  <1>13. ASSUME NEW w \in Worker, StartWorker(w) PROVE Scored'
    BY <1>13 DEF TypeOK, Phases, Scored, ScoredAt, StartWorker, Recover
  <1>14. CASE UNCHANGED <<runs, results, task>>
    BY <1>14 DEF TypeOK, Phases, Scored, ScoredAt
  <1> QED
    BY <1>1, <1>2, <1>3, <1>4, <1>5, <1>6, <1>7, <1>8, <1>9, <1>10, <1>11, <1>12, <1>13, <1>14
    DEF Next, TaskStep, vars, CheckBusy, Enqueue, StartFails, CancelRead, StartUnrecovered

-------------------------------------------------------------------------------
\* The phases of a run are an invariant.
LEMMA PhasesKept == Spec => []TInv
  <1>1. TInv /\ [Next]_vars => TInv'
    BY NextTypeOK, NextPhases DEF TInv
  <1> QED
    BY InitTInv, <1>1, PTL DEF Spec

\* Rows, requests, jobs, tasks and results have their types in every behaviour
\* (start_run, cancel_run, run_eval_task, recover_stale_runs).
THEOREM EvalTypeCorrect == Spec => []TypeOK
  <1>1. TInv => TypeOK
    BY DEF TInv
  <1> QED
    BY PhasesKept, <1>1, PTL

\* A run that was cancelled or recovered stores one more result at most, whatever
\* the number of workers, cases and retries (the check before every case).
THEOREM CancellationStops == Spec => []StopsPromptly
  <1>1. Init => Stopping
    BY DEF Init, Stopping, StopsAt
  <1>2. TInv /\ Stopping /\ [Next]_vars => Stopping'
    BY NextStopping DEF TInv
  <1>3. Stopping => StopsPromptly
    BY DEF Stopping, StopsAt, StopsPromptly
  <1> QED
    BY <1>1, <1>2, <1>3, PhasesKept, PTL DEF Spec

\* A case gets one result per attempt of the queue at most: nothing a crash, a
\* restart or a recovery does scores it again (eval_run_cases has no unique
\* constraint).
THEOREM AttemptsPay == Spec => []RepeatsNeedRetries
  <1>1. Init => Paid
    BY CaseFacts DEF Init, Paid, PaidAt, NoTask
  <1>2. TInv /\ Paid /\ [Next]_vars => Paid'
    BY NextPaid DEF TInv
  <1>3. Paid => RepeatsNeedRetries
    BY DEF Paid, PaidAt, RepeatsNeedRetries
  <1> QED
    BY <1>1, <1>2, <1>3, PhasesKept, PTL DEF Spec

\* A run that is reported as completed has a result for every case of its set
\* (run_eval_task, _finish_run).
THEOREM CompletedScored == Spec => []CompletedIsComplete
  <1>1. Init => Scored
    BY DEF Init, Scored, ScoredAt, NoTask
  <1>2. TInv /\ Scored /\ [Next]_vars => Scored'
    BY NextScored DEF TInv
  <1>3. Scored => CompletedIsComplete
    BY DEF Scored, ScoredAt, CompletedIsComplete
  <1> QED
    BY <1>1, <1>2, <1>3, PhasesKept, PTL DEF Spec
===============================================================================
