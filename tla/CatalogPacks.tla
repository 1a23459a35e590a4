----------------------------- MODULE CatalogPacks -----------------------------
(****************************************************************************)
(* Packs of catalog references and the change requests that publish them.   *)
(* A pack is edited as a draft, one registered reference at a time; a       *)
(* request to publish it is submitted, approved by somebody else and        *)
(* fulfilled by an attempt that hashes the pack's pins and freezes it.  A   *)
(* failed attempt can be retried.                                           *)
(*                                                                          *)
(* A command on a request locks its row: one action.  Adding an entry reads *)
(* the status of the pack without a lock and inserts later: two actions.    *)
(****************************************************************************)
EXTENDS Naturals, Sequences, FiniteSets, SequencesExt

CONSTANTS
    Ref,        \* registered exact references, each with its content hash
    Pack,       \* pack versions
    Change,     \* identifiers of change requests
    User,       \* users with the permissions to request and to approve
    Overseers,  \* users that are administrators or have the pack's owner role
    NoUser,
    MaxTries    \* bound on the fulfilment attempts of a request

ASSUME PackConstants ==
    /\ Overseers \subseteq User
    /\ NoUser \notin User
    /\ MaxTries \in Nat

VARIABLES
    packs,      \* [status, hash] of each pack; the hash is the set of pins it was taken of
    pins,       \* the entries of each pack
    adding,     \* additions that have found their pack a draft and not inserted yet
    changes,    \* the row of each change request
    inactive    \* references whose row is inactive

packVars == <<packs, pins, adding, changes, inactive>>

ChangeStatus == {"none", "draft", "submitted", "approved_pending_fulfillment",
                 "rejected", "cancelled", "fulfilled", "fulfillment_failed"}
ChangeRow == [status : ChangeStatus, pack : Pack, requester : User, approver : User \cup {NoUser},
              attempts : Seq({"pending", "success", "failed"})]

PacksInit ==
    /\ packs = [p \in Pack |-> [status |-> "none", hash |-> {}]]
    /\ pins = [p \in Pack |-> {}] /\ adding = {}
    /\ changes = [q \in Change |-> [status |-> "none"]]
    /\ inactive = {}

-------------------------------------------------------------------------------
CreatePack(p) ==
    /\ packs[p].status = "none"
    /\ packs' = [packs EXCEPT ![p].status = "draft"]
    /\ UNCHANGED <<pins, adding, changes, inactive>>

BeginAddEntry(p, r) ==
    /\ packs[p].status = "draft" /\ r \notin inactive
    /\ adding' = adding \cup {<<p, r>>}
    /\ UNCHANGED <<packs, pins, changes, inactive>>

\* The insertion, whatever has become of the pack, or a lost connection.
FinishAddEntry(p, r) ==
    /\ <<p, r>> \in adding
    /\ adding' = adding \ {<<p, r>>}
    /\ \/ pins' = [pins EXCEPT ![p] = @ \cup {r}]
       \/ UNCHANGED pins
    /\ UNCHANGED <<packs, changes, inactive>>

RevokeRef(r) ==
    /\ r \notin inactive
    /\ inactive' = inactive \cup {r}
    /\ UNCHANGED <<packs, pins, adding, changes>>

-------------------------------------------------------------------------------
CreatePublishRequest(a, q, p) ==
    /\ changes[q].status = "none" /\ packs[p].status = "draft"
    /\ changes' = [changes EXCEPT ![q] = [status |-> "draft", pack |-> p, requester |-> a,
                                          approver |-> NoUser, attempts |-> <<>>]]
    /\ UNCHANGED <<packs, pins, adding, inactive>>

\* Who may see the request of a pack at all.
Sees(a, q) == a \in Overseers \/ changes[q].requester = a

\* The transition of a request from one of some statuses.
Transition(a, q, from, to) ==
    /\ changes[q].status \in from /\ Sees(a, q)
    /\ UNCHANGED <<packs, pins, adding, inactive>>
    /\ changes' = [changes EXCEPT ![q].status = to]

SubmitChange(a, q) == changes[q].status # "none" /\ changes[q].requester = a
                          /\ Transition(a, q, {"draft"}, "submitted")

CancelChange(a, q) == changes[q].status # "none" /\ changes[q].requester = a
                          /\ Transition(a, q, {"draft", "submitted"}, "cancelled")

RejectChange(a, q) == Transition(a, q, {"submitted"}, "rejected")

\* A new attempt, for which the owner of the pack is asked through the outbox.
Attempted(row) == [row EXCEPT !.status = "approved_pending_fulfillment",
                              !.attempts = Append(@, "pending")]

ApproveChange(a, q) ==
    /\ changes[q].status = "submitted" /\ Sees(a, q)
    /\ a # changes[q].requester
    /\ changes' = [changes EXCEPT ![q] = [Attempted(@) EXCEPT !.approver = a]]
    /\ UNCHANGED <<packs, pins, adding, inactive>>

RetryFulfilment(a, q) ==
    /\ changes[q].status = "fulfillment_failed" /\ Sees(a, q)
    /\ Len(changes[q].attempts) < MaxTries
    /\ changes' = [changes EXCEPT ![q] = Attempted(@)]
    /\ UNCHANGED <<packs, pins, adding, inactive>>

\* The request waits for the answer to its n-th attempt.
Pending(a, q, n) ==
    /\ changes[q].status = "approved_pending_fulfillment" /\ Sees(a, q)
    /\ n \in DOMAIN changes[q].attempts /\ changes[q].attempts[n] = "pending"

\* The owner's callback reports that the attempt has failed.
FailFulfilment(a, q, n) ==
    /\ Pending(a, q, n)
    /\ changes' = [changes EXCEPT ![q].status = "fulfillment_failed", ![q].attempts[n] = "failed"]
    /\ UNCHANGED <<packs, pins, adding, inactive>>

\* The pins the pack has now are hashed and the pack is published.
FulfilPackPublish(a, q, n) ==
    /\ Pending(a, q, n)
    /\ LET p == changes[q].pack
       IN /\ packs[p].status = "draft"
          /\ packs' = [packs EXCEPT ![p] = [status |-> "published", hash |-> pins[p]]]
    /\ changes' = [changes EXCEPT ![q].status = "fulfilled", ![q].attempts[n] = "success"]
    /\ UNCHANGED <<pins, adding, inactive>>

PacksNext ==
    \/ \E p \in Pack : CreatePack(p) \/ \E r \in Ref : BeginAddEntry(p, r) \/ FinishAddEntry(p, r)
    \/ \E r \in Ref : RevokeRef(r)
    \/ \E a \in User, q \in Change :
          \/ \E p \in Pack : CreatePublishRequest(a, q, p)
          \/ SubmitChange(a, q) \/ CancelChange(a, q) \/ RejectChange(a, q)
          \/ ApproveChange(a, q) \/ RetryFulfilment(a, q)
          \/ \E n \in 1..MaxTries : FailFulfilment(a, q, n) \/ FulfilPackPublish(a, q, n)

PacksSpec == PacksInit /\ [][PacksNext]_packVars

-------------------------------------------------------------------------------
PacksTypeOK ==
    /\ packs \in [Pack -> [status : {"none", "draft", "published"}, hash : SUBSET Ref]]
    /\ pins \in [Pack -> SUBSET Ref] /\ adding \subseteq Pack \X Ref /\ inactive \subseteq Ref
    /\ \A q \in Change : changes[q] = [status |-> "none"] \/ changes[q] \in ChangeRow

\* Somebody else has approved what is published, and each request is at one
\* point of its fulfilment: every attempt but the last has failed, and the last
\* one is what the status of the request says.
FulfilledAsApproved ==
    /\ \A p \in Pack : packs[p].status = "published" =>
          Cardinality({q \in Change : changes[q].status = "fulfilled" /\ changes[q].pack = p}) = 1
    /\ \A q \in Change : changes[q].status # "none" =>
          LET row == changes[q]
              AttemptsAre(last) == row.attempts # <<>> /\ Last(row.attempts) = last
          IN /\ row.attempts # <<>> => row.approver \notin {NoUser, row.requester}
             /\ \A n \in 1..Len(row.attempts) - 1 : row.attempts[n] = "failed"
             /\ CASE row.status = "approved_pending_fulfillment" -> AttemptsAre("pending")
                  [] row.status = "fulfilled" -> AttemptsAre("success")
                  [] row.status = "fulfillment_failed" -> AttemptsAre("failed")
                  [] OTHER -> row.attempts = <<>>
===============================================================================
