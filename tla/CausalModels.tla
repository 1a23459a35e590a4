----------------------------- MODULE CausalModels -----------------------------
(****************************************************************************)
(* The life of one causal model: versions that are drafted, reviewed and    *)
(* published as immutable snapshots, compile attempts that turn a snapshot  *)
(* into a candidate artifact, and the activation that materialises one      *)
(* artifact as the current planning blueprint and moves the model's active  *)
(* pointer to its version.                                                  *)
(*                                                                          *)
(* Every command is one tenant transaction that locks the model row and the *)
(* version row before it reads them, so a command is one action.  A command *)
(* that is refused changes nothing and is not an action.  What a draft      *)
(* holds, and what a validation finds, is in CausalContent; here a content  *)
(* is a value that is valid or not.  How a command meets a repetition of    *)
(* itself or a competing one is in CausalCommands.                          *)
(****************************************************************************)
EXTENDS Naturals, Sequences, FiniteSets

CONSTANTS
    Actor,          \* users; the role of each is given by the sets below
    Admins,         \* actors whose role is is_admin
    Writers,        \* permission write_draft
    Checkers,       \* permission review
    Builders,       \* permissions compile and activate
    Content,        \* what a version may hold
    ValidContent,   \* the contents with no blocking issue
    EmptyContent,   \* a version that was not cloned
    CatalogState,   \* contents of the catalog entries the model refers to
    Retired,        \* a catalog state in which the entries no longer resolve
    NoActor, NoContent,
    MaxVersions, MaxRevision, MaxAttempts, MaxPins  \* bounds

ASSUME CausalConstants ==
    /\ Admins \subseteq Writers \cap Checkers \cap Builders
    /\ Writers \cup Checkers \cup Builders \subseteq Actor
    /\ ValidContent \subseteq Content
    /\ EmptyContent \in Content \ ValidContent
    /\ Retired \in CatalogState
    /\ NoActor \notin Actor
    /\ NoContent \notin Content
    /\ MaxVersions \in Nat /\ MaxRevision \in Nat /\ MaxAttempts \in Nat /\ MaxPins \in Nat \ {0}

VARIABLES
    modelVersions,  \* the versions of the model, in the order they were created
    snapshots,      \* published snapshots
    attempts,       \* compile attempts
    blueprints,     \* blueprint versions of the model's logical blueprint
    activePointer,  \* number of the active snapshot, 0 when there is none
    catalogNow,     \* what the catalog entries resolve to now
    stepPins        \* the active step type versions, 0 when a type has none

causalVars == <<modelVersions, snapshots, attempts, blueprints, activePointer, catalogNow, stepPins>>

GovernanceStatus == {"draft", "in_review", "published", "superseded", "archived"}
AttemptStatus == {"running", "success", "failed"}
BlueprintStatus == {"compiled", "superseded", "withdrawn"}

VersionRow == [status : GovernanceStatus, revision : Nat, content : Content,
               submitter : Actor \cup {NoActor}, checked : Content \cup {NoContent}, snapshot : Nat]
SnapshotRow == [version : Nat, content : Content, pin : CatalogState, publisher : Actor]
AttemptRow == [version : Nat, snapshot : Nat, status : AttemptStatus, pins : Nat]
BlueprintRow == [snapshot : Nat, pins : Nat, status : BlueprintStatus]

Versions == 1..Len(modelVersions)
Snapshots == 1..Len(snapshots)
Attempts == 1..Len(attempts)

\* The content passes the analysis against the catalog as it is now.
Passes(content) == content \in ValidContent /\ catalogNow # Retired

\* The version of the active snapshot, 0 when there is none.
ActiveVersion == IF activePointer = 0 THEN 0 ELSE snapshots[activePointer].version

UnchangedRuntime == UNCHANGED <<attempts, blueprints, activePointer>>
UnchangedWorld == UNCHANGED <<catalogNow, stepPins>>

-------------------------------------------------------------------------------
(****************************************************************************)
(* Authoring.                                                               *)
(****************************************************************************)
NewDraft(content) ==
    [status |-> "draft", revision |-> 1, content |-> content,
     submitter |-> NoActor, checked |-> NoContent, snapshot |-> 0]

CausalInit ==
    /\ modelVersions = <<>> /\ snapshots = <<>> /\ attempts = <<>> /\ blueprints = {}
    /\ activePointer = 0
    /\ catalogNow \in CatalogState /\ stepPins = 1

\* The model and its first version, an empty draft.
CreateModel(a) ==
    /\ modelVersions = <<>>
    /\ a \in Writers
    /\ catalogNow # Retired
    /\ modelVersions' = <<NewDraft(EmptyContent)>>
    /\ UNCHANGED snapshots /\ UnchangedRuntime /\ UnchangedWorld

\* The next version, empty or with the children of version from.
CreateVersion(a, from) ==
    /\ modelVersions # <<>> /\ Len(modelVersions) < MaxVersions
    /\ a \in Writers
    /\ from \in 0..Len(modelVersions)
    /\ modelVersions' = Append(modelVersions,
           NewDraft(IF from = 0 THEN EmptyContent ELSE modelVersions[from].content))
    /\ UNCHANGED snapshots /\ UnchangedRuntime /\ UnchangedWorld

\* Permission, lock, expected revision, draft.  The expected revision of a
\* command that succeeds is the current one.
DraftForWrite(a, v) ==
    /\ a \in Writers
    /\ modelVersions[v].status = "draft"
    /\ modelVersions[v].revision < MaxRevision

\* A put, a delete or a patch: some content that differs, one revision on.
WriteDraft(a, v, content) ==
    /\ DraftForWrite(a, v)
    /\ content # modelVersions[v].content
    /\ modelVersions' = [modelVersions EXCEPT ![v].content = content, ![v].revision = @ + 1]
    /\ UNCHANGED snapshots /\ UnchangedRuntime /\ UnchangedWorld

SubmitReview(a, v) ==
    /\ DraftForWrite(a, v)
    /\ Passes(modelVersions[v].content)
    /\ modelVersions' = [modelVersions EXCEPT ![v].status = "in_review", ![v].revision = @ + 1,
                             ![v].submitter = a, ![v].checked = modelVersions[v].content]
    /\ UNCHANGED snapshots /\ UnchangedRuntime /\ UnchangedWorld

\* Permission, lock, expected revision, in review.
InReview(a, v) ==
    /\ a \in Checkers
    /\ modelVersions[v].status = "in_review"
    /\ modelVersions[v].revision < MaxRevision

RejectReview(a, v) ==
    /\ InReview(a, v)
    /\ modelVersions' = [modelVersions EXCEPT ![v].status = "draft", ![v].revision = @ + 1]
    /\ UNCHANGED snapshots /\ UnchangedRuntime /\ UnchangedWorld

\* Mutant: a submitter publishes too.
AnyPublisher(a, v) == a \in Checkers

\* Nobody but an administrator publishes what it submitted.
MayPublish(a, v) == a \in Admins \/ modelVersions[v].submitter # a

\* Publishing analyses the content again and freezes it with the catalog
\* content hashes it resolved to.
Publish(a, v) ==
    /\ InReview(a, v)
    /\ MayPublish(a, v)
    /\ Passes(modelVersions[v].content)
    /\ snapshots' = Append(snapshots, [version |-> v, content |-> modelVersions[v].content,
                                       pin |-> catalogNow, publisher |-> a])
    /\ modelVersions' = [modelVersions EXCEPT ![v].status = "published", ![v].revision = @ + 1,
                             ![v].snapshot = Len(snapshots) + 1]
    /\ UnchangedRuntime /\ UnchangedWorld

-------------------------------------------------------------------------------
(****************************************************************************)
(* Compilation.                                                             *)
(****************************************************************************)
\* A new attempt; a retry names a failed attempt of the same version.
RequestCompile(a, v, parent) ==
    /\ Len(attempts) < MaxAttempts
    /\ a \in Builders
    /\ modelVersions[v].status = "published"
    /\ parent # 0 => attempts[parent].status = "failed" /\ attempts[parent].version = v
    /\ attempts' = Append(attempts, [version |-> v, snapshot |-> modelVersions[v].snapshot,
                                     status |-> "running", pins |-> 0])
    /\ UNCHANGED <<modelVersions, snapshots, blueprints, activePointer>> /\ UnchangedWorld

\* The artifact can be built: its version is still published, every catalog pin
\* still resolves to its content hash and both step types have an active version.
Buildable(c) ==
    /\ modelVersions[attempts[c].version].status = "published"
    /\ catalogNow = snapshots[attempts[c].snapshot].pin
    /\ stepPins # 0

\* The worker's step: an artifact, which is its snapshot and the step type
\* versions it pins, or a failure; both are final.
CompleteAttempt(c) ==
    /\ attempts[c].status = "running"
    /\ attempts' = [attempts EXCEPT
           ![c].status = IF Buildable(c) THEN "success" ELSE "failed",
           ![c].pins = IF Buildable(c) THEN stepPins ELSE 0]
    /\ UNCHANGED <<modelVersions, snapshots, blueprints, activePointer>> /\ UnchangedWorld

-------------------------------------------------------------------------------
(****************************************************************************)
(* Activation and archive.                                                  *)
(****************************************************************************)
\* The compiled blueprints that pin the active snapshot.
Current == {b \in blueprints : b.status = "compiled" /\ b.snapshot = activePointer}

\* The current blueprint ends as the given status.
Retire(status) == {IF b \in Current THEN [b EXCEPT !.status = status] ELSE b : b \in blueprints}

\* The artifact of attempt c is materialised; the model's blueprint may hold no
\* version with the same artifact hash and, afterwards, one compiled version.
Materialise(c) ==
    /\ \A b \in blueprints : ~(b.snapshot = attempts[c].snapshot /\ b.pins = attempts[c].pins)
    /\ \A b \in blueprints \ Current : b.status # "compiled"
    /\ blueprints' = Retire("superseded")
          \cup {[snapshot |-> attempts[c].snapshot, pins |-> attempts[c].pins, status |-> "compiled"]}

\* The version that was active is superseded, then the candidate moves on by
\* one revision; the two may be the same row.
AfterActivation(v) ==
    LET old == ActiveVersion
        superseded == IF old # 0 /\ modelVersions[old].status = "published"
                      THEN [modelVersions EXCEPT ![old].status = "superseded", ![old].revision = @ + 1]
                      ELSE modelVersions
    IN [superseded EXCEPT ![v].revision = @ + 1]

\* Mutant: any version that was published at some time.
ActivatableOnce(v) == modelVersions[v].snapshot # 0 /\ modelVersions[v].revision < MaxRevision

Activatable(v) == modelVersions[v].status = "published" /\ modelVersions[v].revision < MaxRevision

\* The expected active version and snapshot of a command that succeeds are the
\* current ones.
Activate(a, v, c) ==
    /\ a \in Builders
    /\ Activatable(v)
    /\ attempts[c].status = "success"
    /\ attempts[c].version = v /\ attempts[c].snapshot = modelVersions[v].snapshot
    /\ catalogNow = snapshots[attempts[c].snapshot].pin
    /\ activePointer # 0 => Cardinality(Current) = 1
    /\ Materialise(c)
    /\ modelVersions' = AfterActivation(v)
    /\ activePointer' = attempts[c].snapshot
    /\ UNCHANGED <<snapshots, attempts>> /\ UnchangedWorld

\* An active version takes the pointer and the current blueprint with it.
Archive(a, v) ==
    /\ a \in Checkers
    /\ modelVersions[v].status # "archived"
    /\ IF ActiveVersion = v
       THEN /\ Cardinality(Current) = 1
            /\ blueprints' = Retire("withdrawn")
            /\ activePointer' = 0
       ELSE UNCHANGED <<blueprints, activePointer>>
    /\ modelVersions' = [modelVersions EXCEPT ![v].status = "archived", ![v].revision = @ + 1]
    /\ UNCHANGED <<snapshots, attempts>> /\ UnchangedWorld

-------------------------------------------------------------------------------
(****************************************************************************)
(* The world around the model.                                              *)
(****************************************************************************)
\* A catalog entry changes, is retired or comes back.
CatalogChanges ==
    /\ catalogNow' \in CatalogState \ {catalogNow}
    /\ UNCHANGED <<modelVersions, snapshots, stepPins>> /\ UnchangedRuntime

\* A deployment registers other step type versions, or leaves a type with none.
StepTypesChange ==
    /\ stepPins' \in 0..MaxPins \ {stepPins}
    /\ UNCHANGED <<modelVersions, snapshots, catalogNow>> /\ UnchangedRuntime

CausalNext ==
    \/ \E a \in Actor : CreateModel(a)
    \/ \E a \in Actor, from \in 0..MaxVersions : CreateVersion(a, from)
    \/ \E v \in Versions, a \in Actor :
                              \/ \E content \in Content : WriteDraft(a, v, content)
                              \/ SubmitReview(a, v)
                              \/ RejectReview(a, v)
                              \/ Publish(a, v)
                              \/ Archive(a, v)
                              \/ \E parent \in {0} \cup Attempts : RequestCompile(a, v, parent)
                              \/ \E c \in Attempts : Activate(a, v, c)
    \/ \E c \in Attempts : CompleteAttempt(c)
    \/ CatalogChanges
    \/ StepTypesChange

CausalSpec == CausalInit /\ [][CausalNext]_causalVars

-------------------------------------------------------------------------------
(****************************************************************************)
(* Properties.                                                              *)
(****************************************************************************)
CausalTypeOK ==
    /\ modelVersions \in Seq(VersionRow) /\ snapshots \in Seq(SnapshotRow)
    /\ attempts \in Seq(AttemptRow) /\ blueprints \subseteq BlueprintRow
    /\ activePointer \in 0..Len(snapshots)
    /\ catalogNow \in CatalogState /\ stepPins \in 0..MaxPins

\* The model has a compiled blueprint exactly when it has an active snapshot, it
\* is the only one, it pins that snapshot and it is the artifact of a successful
\* attempt.  Activation, archive and a failed activation all keep this.
CurrentBlueprintIsActive ==
    /\ {b \in blueprints : b.status = "compiled"} = Current
    /\ IF activePointer = 0 THEN Current = {} ELSE Cardinality(Current) = 1
    /\ \A b \in blueprints : \E c \in Attempts :
          attempts[c].status = "success" /\ attempts[c].snapshot = b.snapshot /\ attempts[c].pins = b.pins

\* What is published is what was validated when it was submitted, whatever
\* happened to the drafts in between, it passed, and unless an administrator
\* published it, it was not the submitter.
PublishedAsSubmitted ==
    \A s \in Snapshots :
        LET v == modelVersions[snapshots[s].version]
        IN /\ snapshots[s].content = v.checked /\ v.checked = v.content
           /\ snapshots[s].content \in ValidContent
           /\ v.snapshot = s
           /\ snapshots[s].publisher \in Admins \/ snapshots[s].publisher # v.submitter

\* Versions are published as they were reviewed, and exactly the active one is
\* served, by one blueprint.
ModelsAreGoverned == CurrentBlueprintIsActive /\ PublishedAsSubmitted

\* The last known good version keeps serving: the pointer leaves a snapshot only
\* when its version is archived, or for an artifact of a version that was
\* published at that moment.
LastKnownGoodServes ==
    [][activePointer # activePointer' =>
          IF activePointer' = 0
          THEN modelVersions'[ActiveVersion].status = "archived"
          ELSE modelVersions[snapshots[activePointer'].version].status = "published"]_causalVars
==============================================================================
