--------------------------- MODULE Diagnosis_proofs ----------------------------
(****************************************************************************)
(* Proofs about what a diagnosis is built from and how it is made: the      *)
(* release of the catalog's packs and manifests, the references to what is  *)
(* held elsewhere, the compilations of blueprints, the contexts and traces  *)
(* of diagnoses, and the plans that lead into them.                         *)
(****************************************************************************)
EXTENDS CatalogManifests, CatalogRefs, CaseACompiler, BlueprintPlanning, FiniteSetTheorems,
        SequenceTheorems, TLAPS

(****************************************************************************)
(* Packs and manifests of the catalog.                                      *)
(****************************************************************************)
PackRow == [status : {"none", "draft", "published"}, hash : SUBSET Ref]
NoRequest == [status |-> "none"]
PacksTInv ==
    /\ packs \in [Pack -> PackRow] /\ pins \in [Pack -> SUBSET Ref]
    /\ adding \subseteq Pack \X Ref /\ inactive \subseteq Ref
    /\ changes \in [Change -> ChangeRow \cup {NoRequest}]

\* Every attempt but the last has failed, and the status is that of the last.
AttemptsFit(x) ==
    LET n == Len(x.attempts)
    IN /\ n > 0 => x.approver \notin {NoUser, x.requester}
       /\ \A k \in 1..n - 1 : x.attempts[k] = "failed"
       /\ x.status = "approved_pending_fulfillment" => n > 0 /\ x.attempts[n] = "pending"
       /\ x.status = "fulfilled" => n > 0 /\ x.attempts[n] = "success"
       /\ x.status = "fulfillment_failed" => n > 0 /\ x.attempts[n] = "failed"
       /\ x.status \notin {"approved_pending_fulfillment", "fulfilled", "fulfillment_failed"} => n = 0

\* A pack is published by the one request that was fulfilled.
PublishedOnce ==
    /\ \A q \in Change : changes[q].status = "fulfilled" => packs[changes[q].pack].status = "published"
    /\ \A q, r \in Change :
          changes[q].status = "fulfilled" /\ changes[r].status = "fulfilled" /\ changes[q].pack = changes[r].pack => q = r
    /\ \A p \in Pack : packs[p].status = "published" =>
          \E q \in Change : changes[q].status = "fulfilled" /\ changes[q].pack = p

PacksInv ==
    /\ PacksTInv /\ PublishedOnce
    /\ \A q \in Change : changes[q].status # "none" => AttemptsFit(changes[q])

\* At the beginning there is no pack and no request.
LEMMA PacksInitInv == PacksInit => PacksInv
  BY DEF PacksInit, PacksInv, PacksTInv, PackRow, NoRequest, PublishedOnce

\* A request that is there is a whole row.
LEMMA RequestTyped ==
    ASSUME PacksTInv, NEW q \in Change, changes[q].status # "none"
    PROVE  changes[q] \in ChangeRow
  BY DEF PacksTInv, NoRequest

\* A row of a request is written that is not fulfilled, and was not before.
LEMMA RequestWritten ==
    ASSUME PacksInv, NEW q \in Change, NEW u \in ChangeRow, AttemptsFit(u), u.status # "fulfilled",
           changes[q].status # "fulfilled", changes' = [changes EXCEPT ![q] = u],
           UNCHANGED <<packs, pins, adding, inactive>>
    PROVE  PacksInv'
  <1>1. PacksTInv /\ changes'[q] = u /\ \A r \in Change : r # q => changes'[r] = changes[r]
    BY DEF PacksInv, PacksTInv
  <1>2. PacksTInv'
    BY <1>1 DEF PacksTInv
  <1>3. \A r \in Change : changes'[r].status = "fulfilled" <=> changes[r].status = "fulfilled"
    BY <1>1
  <1>4. \A r \in Change : changes[r].status = "fulfilled" => changes'[r] = changes[r]
    BY <1>1
  <1>5. PublishedOnce'
    BY <1>3, <1>4 DEF PacksInv, PublishedOnce
  <1>6. \A r \in Change : changes'[r].status # "none" => AttemptsFit(changes'[r])
    BY <1>1 DEF PacksInv
  <1> QED
    BY <1>2, <1>5, <1>6 DEF PacksInv

\* The status alone changes, between two statuses with no attempt.
LEMMA StatusMoves ==
    ASSUME PacksInv, NEW q \in Change, NEW a, NEW from, NEW to \in {"submitted", "cancelled", "rejected"},
           from \subseteq {"draft", "submitted"}, Transition(a, q, from, to)
    PROVE  PacksInv'
  <1> DEFINE u == [changes[q] EXCEPT !.status = to]
  <1>1. /\ changes[q].status \in {"draft", "submitted"} /\ changes' = [changes EXCEPT ![q] = u]
        /\ UNCHANGED <<packs, pins, adding, inactive>>
    BY DEF Transition
  <1>2. changes[q] \in ChangeRow /\ AttemptsFit(changes[q])
    BY <1>1, RequestTyped DEF PacksInv
  <1>3. /\ u \in ChangeRow /\ u.status = to /\ u.attempts = changes[q].attempts
        /\ u.approver = changes[q].approver /\ u.requester = changes[q].requester
    BY <1>2 DEF ChangeRow, ChangeStatus
  <1> HIDE DEF u
  <1>4. AttemptsFit(u)
    BY <1>1, <1>2, <1>3 DEF AttemptsFit
  <1> QED
    BY <1>1, <1>3, <1>4, RequestWritten

\* A new attempt waits behind those that failed.
LEMMA AttemptAdded ==
    ASSUME NEW x \in ChangeRow, AttemptsFit(x), x.status \in {"submitted", "fulfillment_failed"},
           NEW b \in User, b # x.requester, x.status = "fulfillment_failed" => b = x.approver
    PROVE  LET u == [Attempted(x) EXCEPT !.approver = b]
           IN u \in ChangeRow /\ AttemptsFit(u) /\ u.status = "approved_pending_fulfillment"
  <1> DEFINE u == [Attempted(x) EXCEPT !.approver = b]
             n == Len(x.attempts)
  <1>1. x.attempts \in Seq({"pending", "success", "failed"}) /\ n \in Nat
    BY DEF ChangeRow
  <1>2. /\ u \in ChangeRow /\ u.status = "approved_pending_fulfillment" /\ u.approver = b /\ u.requester = x.requester
        /\ u.attempts = Append(x.attempts, "pending")
    <2> DEFINE y == Attempted(x)
    <2>1. /\ y \in ChangeRow /\ y.status = "approved_pending_fulfillment" /\ y.requester = x.requester
          /\ y.attempts = Append(x.attempts, "pending")
      <3>1. Append(x.attempts, "pending") \in Seq({"pending", "success", "failed"})
        BY <1>1, AppendProperties
      <3> QED
        BY <3>1 DEF Attempted, ChangeRow, ChangeStatus
    <2> HIDE DEF y
    <2>2. u = [y EXCEPT !.approver = b]
      BY DEF y
    <2> HIDE DEF u
    <2> QED
      BY <2>1, <2>2 DEF ChangeRow
  <1>3. /\ Len(u.attempts) = n + 1 /\ u.attempts[n + 1] = "pending"
        /\ \A k \in 1..n : u.attempts[k] = x.attempts[k]
    BY <1>1, <1>2, AppendProperties
  <1>4. \A k \in 1..n : x.attempts[k] = "failed"
    BY <1>1 DEF AttemptsFit
  <1> HIDE DEF u, n
  <1>5. b # NoUser
    BY PackConstants
  <1>6. AttemptsFit(u)
    BY <1>1, <1>2, <1>3, <1>4, <1>5 DEF AttemptsFit
  <1> QED
    BY <1>2, <1>6 DEF u

\* What an answer makes of a request.
StatusAfter(answer) == IF answer = "success" THEN "fulfilled" ELSE "fulfillment_failed"

\* The one attempt that is pending is the last, and is answered.
LEMMA AttemptAnswered ==
    ASSUME NEW x \in ChangeRow, AttemptsFit(x), x.status = "approved_pending_fulfillment",
           NEW n \in DOMAIN x.attempts, x.attempts[n] = "pending",
           NEW answer \in {"success", "failed"}
    PROVE  LET to == StatusAfter(answer)
               u == [x EXCEPT !.status = to, !.attempts[n] = answer]
           IN u \in ChangeRow /\ AttemptsFit(u) /\ u.status = to /\ u.pack = x.pack
  <1> DEFINE to == StatusAfter(answer)
             u == [x EXCEPT !.status = to, !.attempts[n] = answer]
             m == Len(x.attempts)
             as == [x.attempts EXCEPT ![n] = answer]
  <1>1. x.attempts \in Seq({"pending", "success", "failed"}) /\ m \in Nat /\ n \in 1..m
    BY DEF ChangeRow
  <1>2. n = m /\ \A k \in 1..m - 1 : x.attempts[k] = "failed"
    BY <1>1 DEF AttemptsFit
  <1>3. as \in Seq({"pending", "success", "failed"}) /\ Len(as) = m /\ as[m] = answer /\ \A k \in 1..m - 1 : as[k] = x.attempts[k]
    BY <1>1, <1>2, ExceptSeq
  <1> HIDE DEF as
  <1>4. u \in ChangeRow /\ u.status = to /\ u.pack = x.pack /\ u.attempts = as /\ u.approver = x.approver /\ u.requester = x.requester
    BY <1>3 DEF ChangeRow, ChangeStatus, StatusAfter, as
  <1> HIDE DEF u, m
  <1>5. AttemptsFit(u)
    BY <1>1, <1>2, <1>3, <1>4 DEF AttemptsFit, StatusAfter, m
  <1> QED
    BY <1>4, <1>5 DEF u

\* A request is fulfilled: its pack was a draft and is published by it.
LEMMA FulfilKeeps ==
    ASSUME PacksInv, NEW a, NEW q \in Change, NEW n, FulfilPackPublish(a, q, n)
    PROVE  PacksInv'
  <1> DEFINE u == [changes[q] EXCEPT !.status = "fulfilled", !.attempts[n] = "success"]
             p == changes[q].pack
  <1>1. /\ changes[q].status = "approved_pending_fulfillment" /\ packs[p].status = "draft"
        /\ n \in DOMAIN changes[q].attempts /\ changes[q].attempts[n] = "pending"
        /\ packs' = [packs EXCEPT ![p] = [status |-> "published", hash |-> pins[p]]]
        /\ UNCHANGED <<pins, adding, inactive>>
    BY DEF FulfilPackPublish, Pending
  <1>2. changes[q] \in ChangeRow /\ p \in Pack /\ AttemptsFit(changes[q])
    BY <1>1, RequestTyped DEF PacksInv, ChangeRow
  <1>3. changes' = [changes EXCEPT ![q] = u]
    BY DEF FulfilPackPublish
  <1>4. u \in ChangeRow /\ AttemptsFit(u) /\ u.status = "fulfilled" /\ u.pack = p
    <2> DEFINE x == changes[q]
               to == StatusAfter("success")
               w == [x EXCEPT !.status = to, !.attempts[n] = "success"]
    <2>1. w \in ChangeRow /\ AttemptsFit(w) /\ w.status = to /\ w.pack = x.pack
      BY <1>1, <1>2, AttemptAnswered
    <2>2. to = "fulfilled"
      BY DEF StatusAfter
    <2>3. w = u
      BY <2>2
    <2> HIDE DEF w, u
    <2> QED
      BY <2>1, <2>2, <2>3
  <1> HIDE DEF u, p
  <1>5. /\ PacksTInv /\ changes'[q] = u /\ \A r \in Change : r # q => changes'[r] = changes[r]
        /\ packs'[p].status = "published" /\ \A o \in Pack : o # p => packs'[o] = packs[o]
    BY <1>1, <1>2, <1>3 DEF PacksInv, PacksTInv
  <1>6. PacksTInv'
    BY <1>1, <1>2, <1>3, <1>4, <1>5 DEF PacksTInv, PackRow
  <1>7. \A r \in Change : changes[r].status = "fulfilled" => changes[r].pack # p /\ r # q /\ changes[r].pack \in Pack
    BY <1>1, <1>5, RequestTyped DEF PacksInv, PublishedOnce, ChangeRow
  <1>8. PublishedOnce'
    BY <1>4, <1>5, <1>7 DEF PacksInv, PublishedOnce
  <1>9. \A r \in Change : changes'[r].status # "none" => AttemptsFit(changes'[r])
    BY <1>4, <1>5 DEF PacksInv
  <1> QED
    BY <1>6, <1>8, <1>9 DEF PacksInv

\* Every step keeps the invariant of the packs.
LEMMA PacksNextInv == PacksInv /\ [PacksNext]_packVars => PacksInv'
  <1> SUFFICES ASSUME PacksInv, [PacksNext]_packVars PROVE PacksInv'
    OBVIOUS
  <1>1. PacksTInv
    BY DEF PacksInv
  <1>2. ASSUME UNCHANGED <<packs, changes>>, pins' \in [Pack -> SUBSET Ref], adding' \subseteq Pack \X Ref, inactive' \subseteq Ref
        PROVE  PacksInv'
    BY <1>1, <1>2 DEF PacksInv, PacksTInv, PublishedOnce
  <1>3. ASSUME NEW p \in Pack, CreatePack(p) PROVE PacksInv'
    <2>1. packs' \in [Pack -> PackRow] /\ \A o \in Pack : packs'[o].status = "published" <=> packs[o].status = "published"
      BY <1>1, <1>3 DEF CreatePack, PacksTInv, PackRow
    <2>2. PacksTInv'
      BY <1>1, <1>3, <2>1 DEF CreatePack, PacksTInv
    <2>3. \A q \in Change : changes[q].status = "fulfilled" => changes[q].pack \in Pack
      BY <1>1, RequestTyped DEF ChangeRow
    <2> QED
      BY <1>3, <2>1, <2>2, <2>3 DEF CreatePack, PacksInv, PublishedOnce
  <1>4. ASSUME NEW p \in Pack, NEW r \in Ref, BeginAddEntry(p, r) \/ FinishAddEntry(p, r) PROVE PacksInv'
    <2>1. pins' \in [Pack -> SUBSET Ref]
      BY <1>1, <1>4 DEF BeginAddEntry, FinishAddEntry, PacksTInv
    <2> QED
      BY <1>1, <1>2, <1>4, <2>1 DEF BeginAddEntry, FinishAddEntry, PacksTInv
  <1>5. ASSUME NEW r \in Ref, RevokeRef(r) PROVE PacksInv'
    BY <1>1, <1>2, <1>5 DEF RevokeRef, PacksTInv
  <1>6. ASSUME NEW a \in User, NEW q \in Change, NEW p \in Pack, CreatePublishRequest(a, q, p) PROVE PacksInv'
    <2> DEFINE u == [status |-> "draft", pack |-> p, requester |-> a, approver |-> NoUser, attempts |-> <<>>]
    <2>1. u \in ChangeRow /\ AttemptsFit(u) /\ u.status = "draft"
      BY DEF ChangeRow, ChangeStatus, AttemptsFit
    <2>2. changes' = [changes EXCEPT ![q] = u] /\ changes[q].status = "none" /\ UNCHANGED <<packs, pins, adding, inactive>>
      BY <1>6 DEF CreatePublishRequest
    <2> HIDE DEF u
    <2> QED
      BY <2>1, <2>2, RequestWritten
  <1>7. ASSUME NEW a \in User, NEW q \in Change, SubmitChange(a, q) \/ CancelChange(a, q) \/ RejectChange(a, q) PROVE PacksInv'
    BY <1>7, StatusMoves DEF SubmitChange, CancelChange, RejectChange
  <1>8. ASSUME NEW a \in User, NEW q \in Change, ApproveChange(a, q) \/ RetryFulfilment(a, q) PROVE PacksInv'
    <2>1. changes[q].status \in {"submitted", "fulfillment_failed"}
      BY <1>8 DEF ApproveChange, RetryFulfilment
    <2>2. changes[q] \in ChangeRow /\ AttemptsFit(changes[q])
      BY <2>1, RequestTyped DEF PacksInv
    <2>3. PICK b \in User : /\ b # changes[q].requester /\ (changes[q].status = "fulfillment_failed" => b = changes[q].approver)
                            /\ changes' = [changes EXCEPT ![q] = [Attempted(changes[q]) EXCEPT !.approver = b]]
      <3>1. CASE ApproveChange(a, q)
        BY <3>1 DEF ApproveChange
      <3>2. CASE RetryFulfilment(a, q)
        <4> DEFINE x == changes[q]
                   b == x.approver
        <4>1. x.status = "fulfillment_failed" /\ changes' = [changes EXCEPT ![q] = Attempted(x)]
          BY <3>2 DEF RetryFulfilment
        <4>2. b \notin {NoUser, x.requester}
          BY <2>2, <4>1 DEF AttemptsFit
        <4>3. b \in User
          BY <2>2, <4>2 DEF ChangeRow
        <4>4. Attempted(x) = [Attempted(x) EXCEPT !.approver = b]
          BY <2>2 DEF Attempted, ChangeRow
        <4> HIDE DEF x, b
        <4>5. changes' = [changes EXCEPT ![q] = [Attempted(x) EXCEPT !.approver = b]]
          BY <4>1, <4>4
        <4> QED
          BY <4>1, <4>2, <4>3, <4>5 DEF x, b
      <3> QED
        BY <1>8, <3>1, <3>2
    <2> DEFINE u == [Attempted(changes[q]) EXCEPT !.approver = b]
    <2>4. u \in ChangeRow /\ AttemptsFit(u) /\ u.status = "approved_pending_fulfillment"
      BY <2>1, <2>2, <2>3, AttemptAdded
    <2>5. changes' = [changes EXCEPT ![q] = u] /\ UNCHANGED <<packs, pins, adding, inactive>>
      BY <1>8, <2>3 DEF ApproveChange, RetryFulfilment
    <2> HIDE DEF u
    <2> QED
      BY <2>1, <2>4, <2>5, RequestWritten
  <1>9. ASSUME NEW a \in User, NEW q \in Change, NEW n, FailFulfilment(a, q, n) PROVE PacksInv'
    <2> DEFINE u == [changes[q] EXCEPT !.status = "fulfillment_failed", !.attempts[n] = "failed"]
    <2>1. /\ changes[q].status = "approved_pending_fulfillment" /\ n \in DOMAIN changes[q].attempts /\ changes[q].attempts[n] = "pending"
          /\ changes' = [changes EXCEPT ![q] = u] /\ UNCHANGED <<packs, pins, adding, inactive>>
      BY <1>9 DEF FailFulfilment, Pending
    <2>2. changes[q] \in ChangeRow /\ AttemptsFit(changes[q])
      BY <2>1, RequestTyped DEF PacksInv
    <2>3. u \in ChangeRow /\ AttemptsFit(u) /\ u.status = "fulfillment_failed"
      <3> DEFINE x == changes[q]
                 to == StatusAfter("failed")
                 w == [x EXCEPT !.status = to, !.attempts[n] = "failed"]
      <3>1. w \in ChangeRow /\ AttemptsFit(w) /\ w.status = to /\ w.pack = x.pack
        BY <2>1, <2>2, AttemptAnswered
      <3>2. to = "fulfillment_failed"
        BY DEF StatusAfter
      <3>3. w = u
        BY <3>2
      <3> HIDE DEF w, u
      <3> QED
        BY <3>1, <3>2, <3>3
    <2> HIDE DEF u
    <2> QED
      BY <2>1, <2>3, RequestWritten
  <1>10. CASE UNCHANGED packVars
    BY <1>1, <1>2, <1>10 DEF packVars, PacksTInv
  <1>11. CASE PacksNext
    BY <1>3, <1>4, <1>5, <1>6, <1>7, <1>8, <1>9, <1>11, FulfilKeeps DEF PacksNext
  <1> QED
    BY <1>10, <1>11

\* What is published once stays as it was hashed.
LEMMA PublishedStays ==
    ASSUME PacksTInv, [PacksNext]_packVars, NEW p \in Pack, packs[p].status = "published"
    PROVE  packs'[p] = packs[p]
  <1>1. ASSUME NEW o \in Pack, CreatePack(o) PROVE packs'[p] = packs[p]
    BY <1>1 DEF CreatePack, PacksTInv
  <1>2. ASSUME NEW a \in User, NEW q \in Change, NEW n, FulfilPackPublish(a, q, n) PROVE packs'[p] = packs[p]
    BY <1>2 DEF FulfilPackPublish, PacksTInv
  <1>3. CASE UNCHANGED packs
    BY <1>3
  <1> QED
    BY ZenonT(30), <1>1, <1>2, <1>3
       DEF PacksNext, packVars, BeginAddEntry, FinishAddEntry, RevokeRef, CreatePublishRequest, SubmitChange, CancelChange,
           RejectChange, Transition, ApproveChange, RetryFulfilment, FailFulfilment

ManifestsTInv ==
    /\ manifests \in [Revision -> Stored \cup {NoManifest}]
    /\ pointer \in [row : BOOLEAN, revision : 0..MaxManifests, generation : Nat]
    /\ signed \subseteq Content
    /\ publishing \in [Publisher -> Publishing \cup {NoManifest}]

\* A manifest has locked packs as they were hashed, and has its entries of them.
Locked(c) ==
    /\ \A p \in DOMAIN c.lock : p \in Pack /\ packs[p].status = "published" /\ packs[p].hash = c.lock[p]
    /\ \A r \in c.usable : \E p \in DOMAIN c.lock : r \in c.lock[p]

\* What is stored or about to be published was signed, and the pointer is at a
\* revision that is there and not revoked.
SignedOnly ==
    /\ \A c \in signed : Locked(c)
    /\ \A n \in Revision : manifests[n] # NoManifest => manifests[n].content \in signed
    /\ \A w \in Publisher : publishing[w] # NoManifest => publishing[w].content \in signed
    /\ pointer.revision # 0 => manifests[pointer.revision] # NoManifest /\ ~manifests[pointer.revision].revoked

ReleaseInv == PacksInv /\ ManifestsTInv /\ SignedOnly

\* At the beginning nothing is signed.
LEMMA ReleaseInitInv == PacksInit /\ ManifestsInit => ReleaseInv
  <1> SUFFICES ASSUME PacksInit, ManifestsInit PROVE ReleaseInv
    OBVIOUS
  <1>1. ManifestsTInv
    BY ManifestConstants DEF ManifestsInit, ManifestsTInv
  <1>2. SignedOnly
    BY DEF ManifestsInit, SignedOnly
  <1> QED
    BY <1>1, <1>2, PacksInitInv DEF ReleaseInv

\* The packs may move on under the manifests.
LEMMA PacksStepKeeps ==
    ASSUME ReleaseInv, PacksNext, UNCHANGED manifestVars
    PROVE  ReleaseInv'
  <1>1. PacksInv' /\ ManifestsTInv'
    BY PacksNextInv DEF ReleaseInv, ManifestsTInv, manifestVars
  <1>2. \A p \in Pack : packs[p].status = "published" => packs'[p] = packs[p]
    BY PublishedStays DEF ReleaseInv, PacksInv
  <1>3. \A c \in signed : Locked(c)'
    BY <1>2 DEF ReleaseInv, SignedOnly, Locked
  <1> QED
    BY <1>1, <1>3 DEF ReleaseInv, SignedOnly, manifestVars

\* A manifest that is built of published packs locks them.
LEMMA ManifestLocks ==
    ASSUME PacksTInv, NEW n \in Revision, NEW chosen \in SUBSET Pack, \A p \in chosen : Composable(p)
    PROVE  Manifest(n, chosen) \in Content /\ Locked(Manifest(n, chosen))
  <1> DEFINE lock == PackLock(chosen)
             all == Entries(chosen)
  <1>1. Manifest(n, chosen) = [revision |-> n, lock |-> lock, entries |-> all, usable |-> all \ inactive]
    BY DEF Manifest
  <1>2. lock \in [chosen -> SUBSET Ref] /\ all \in SUBSET Ref
    BY DEF PacksTInv, PackRow, PackLock, Entries
  <1>3. /\ \A p \in chosen : p \in Pack /\ packs[p].status = "published" /\ packs[p].hash = lock[p]
        /\ \A r \in all : \E p \in chosen : r \in lock[p]
    BY DEF Composable, PackLock, Entries
  <1> HIDE DEF lock, all
  <1>4. lock \in UNION {[S -> SUBSET Ref] : S \in SUBSET Pack}
    BY <1>2
  <1>5. DOMAIN lock = chosen
    BY <1>2
  <1> QED
    BY <1>1, <1>2, <1>3, <1>4, <1>5 DEF Content, Locked

\* An old manifest locks the same under its new number.
LEMMA RepublishedLocks ==
    ASSUME ReleaseInv, NEW target \in Revision, NEW n \in Revision, manifests[target] # NoManifest
    PROVE  Republished(target, n) \in Content /\ Locked(Republished(target, n))
  <1> DEFINE c == manifests[target].content
             u == [c EXCEPT !.revision = n]
  <1>1. c \in signed /\ c \in Content /\ Locked(c)
    BY DEF ReleaseInv, ManifestsTInv, SignedOnly
  <1>2. Republished(target, n) = u
    BY DEF Republished
  <1> HIDE DEF c
  <1>3. u \in Content /\ u.lock = c.lock /\ u.usable = c.usable
    BY <1>1 DEF Content
  <1> HIDE DEF u
  <1> QED
    BY <1>1, <1>2, <1>3 DEF Locked

\* Another manifest is signed.
LEMMA SigningKeeps ==
    ASSUME ReleaseInv, NEW c \in Content, Locked(c), signed' = signed \cup {c},
           UNCHANGED packVars, UNCHANGED <<manifests, pointer, publishing>>
    PROVE  ReleaseInv'
  <1>1. PacksInv' /\ ManifestsTInv'
    BY PacksNextInv DEF ReleaseInv, ManifestsTInv
  <1>2. UNCHANGED packs
    BY DEF packVars
  <1>3. \A d \in signed' : Locked(d)'
    BY <1>2 DEF ReleaseInv, SignedOnly, Locked
  <1> QED
    BY <1>1, <1>3 DEF ReleaseInv, SignedOnly

\* A publisher begins with what was signed, or goes on or ends.
LEMMA PublisherKeeps ==
    ASSUME ReleaseInv, NEW w \in Publisher, NEW u \in Publishing \cup {NoManifest}, u # NoManifest => u.content \in signed,
           publishing' = [publishing EXCEPT ![w] = u], UNCHANGED packVars, UNCHANGED <<manifests, pointer, signed>>
    PROVE  ReleaseInv'
  <1>1. PacksInv' /\ ManifestsTInv'
    BY PacksNextInv DEF ReleaseInv, ManifestsTInv
  <1>2. \A v \in Publisher : publishing'[v] # NoManifest => publishing'[v].content \in signed
    BY DEF ReleaseInv, ManifestsTInv, SignedOnly
  <1>3. \A c \in signed : Locked(c)'
    BY DEF ReleaseInv, SignedOnly, Locked, packVars
  <1> QED
    BY <1>1, <1>2, <1>3 DEF ReleaseInv, SignedOnly

\* A manifest is stored under a number that is free, and becomes the active one.
LEMMA ActivationKeeps ==
    ASSUME ReleaseInv, NEW w \in Publisher, PublishAndActivate(w), UNCHANGED packVars
    PROVE  ReleaseInv'
  <1> DEFINE content == publishing[w].content
             n == content.revision
             u == [content |-> content, revoked |-> FALSE]
  <1>1. /\ publishing' = [publishing EXCEPT ![w] = NoManifest] /\ UNCHANGED signed /\ publishing[w] # NoManifest
        /\ \/ UNCHANGED <<manifests, pointer>>
           \/ /\ manifests[n] = NoManifest /\ manifests' = [manifests EXCEPT ![n] = u]
              /\ pointer' = [row |-> TRUE, revision |-> n, generation |-> pointer.generation + 1]
    BY DEF PublishAndActivate
  <1>2. CASE UNCHANGED <<manifests, pointer>>
    <2>1. NoManifest \in Publishing \cup {NoManifest}
      OBVIOUS
    <2> QED
      BY <1>1, <1>2, <2>1, PublisherKeeps
  <1>3. CASE /\ manifests[n] = NoManifest /\ manifests' = [manifests EXCEPT ![n] = u]
             /\ pointer' = [row |-> TRUE, revision |-> n, generation |-> pointer.generation + 1]
    <2>1. content \in Content /\ content \in signed
      BY <1>1 DEF ReleaseInv, ManifestsTInv, SignedOnly, Publishing
    <2>2. n \in Revision /\ n # 0 /\ n \in 0..MaxManifests
      BY <2>1, ManifestConstants DEF Content, Revision
    <2> HIDE DEF n, content
    <2>3. u \in Stored /\ u.content = content /\ ~u.revoked
      BY <2>1 DEF Stored
    <2> HIDE DEF u
    <2>4. u # NoManifest
      BY <2>3, ManifestConstants
    <2>5. /\ manifests'[n] = u /\ \A m \in Revision : m # n => manifests'[m] = manifests[m]
          /\ pointer'.revision = n
      BY <1>3, <2>2 DEF ReleaseInv, ManifestsTInv
    <2>6. PacksInv' /\ ManifestsTInv'
      BY <1>1, <1>3, <2>2, <2>3, PacksNextInv DEF ReleaseInv, ManifestsTInv
    <2>7. \A v \in Publisher : publishing'[v] # NoManifest => publishing'[v].content \in signed
      BY <1>1 DEF ReleaseInv, ManifestsTInv, SignedOnly
    <2>8. \A c \in signed : Locked(c)'
      BY DEF ReleaseInv, SignedOnly, Locked, packVars
    <2>9. \A m \in Revision : manifests'[m] # NoManifest => manifests'[m].content \in signed
      BY <2>1, <2>3, <2>5 DEF ReleaseInv, SignedOnly
    <2> QED
      BY <1>1, <2>3, <2>5, <2>6, <2>7, <2>8, <2>9, <2>4 DEF ReleaseInv, SignedOnly
  <1> QED
    BY <1>1, <1>2, <1>3

\* The active revision is marked, and there is no active one.
LEMMA RevocationKeeps ==
    ASSUME ReleaseInv, RevokeActive, UNCHANGED packVars
    PROVE  ReleaseInv'
  <1> DEFINE n == pointer.revision
             u == [manifests[n] EXCEPT !.revoked = TRUE]
  <1>1. /\ n # 0 /\ manifests' = [manifests EXCEPT ![n] = u]
        /\ pointer' = [pointer EXCEPT !.revision = 0, !.generation = pointer.generation + 1]
        /\ UNCHANGED <<signed, publishing>>
    BY DEF RevokeActive
  <1>2. n \in Revision /\ manifests[n] \in Stored /\ manifests[n].content \in signed
    BY <1>1, ManifestConstants DEF ReleaseInv, ManifestsTInv, SignedOnly, Revision
  <1>3. u \in Stored /\ u.content = manifests[n].content /\ u.revoked
    BY <1>2 DEF Stored
  <1> HIDE DEF n, u
  <1>4. manifests'[n] = u /\ \A m \in Revision : m # n => manifests'[m] = manifests[m]
    BY <1>1, <1>2 DEF ReleaseInv, ManifestsTInv
  <1>5. pointer'.revision = 0 /\ pointer' \in [row : BOOLEAN, revision : 0..MaxManifests, generation : Nat]
    <2>1. pointer \in [row : BOOLEAN, revision : 0..MaxManifests, generation : Nat] /\ 0 \in 0..MaxManifests
      BY ManifestConstants DEF ReleaseInv, ManifestsTInv
    <2>2. pointer.generation + 1 \in Nat
      BY <2>1
    <2> QED
      BY <1>1, <2>1, <2>2
  <1>6. PacksInv' /\ ManifestsTInv'
    BY <1>1, <1>2, <1>3, <1>5, PacksNextInv DEF ReleaseInv, ManifestsTInv
  <1>7. \A c \in signed : Locked(c)'
    BY DEF ReleaseInv, SignedOnly, Locked, packVars
  <1>8. \A m \in Revision : manifests'[m] # NoManifest => manifests'[m].content \in signed
    BY <1>2, <1>3, <1>4 DEF ReleaseInv, SignedOnly
  <1> QED
    BY <1>1, <1>5, <1>6, <1>7, <1>8 DEF ReleaseInv, SignedOnly

\* Every step keeps the invariant of the release.
LEMMA ReleaseNextInv == ReleaseInv /\ [ReleaseNext]_<<packVars, manifestVars>> => ReleaseInv'
  <1> SUFFICES ASSUME ReleaseInv, [ReleaseNext]_<<packVars, manifestVars>> PROVE ReleaseInv'
    OBVIOUS
  <1>1. ASSUME UNCHANGED packVars, NEW n \in Revision, NEW chosen \in SUBSET Pack, PreviewAndSign(n, chosen) PROVE ReleaseInv'
    <2> DEFINE c == Manifest(n, chosen)
    <2>1. /\ \A p \in chosen : Composable(p)
          /\ signed' = signed \cup {c} /\ UNCHANGED <<manifests, pointer, publishing>>
      BY <1>1 DEF PreviewAndSign
    <2>2. c \in Content /\ Locked(c)
      BY <2>1, ManifestLocks DEF ReleaseInv, PacksInv
    <2> HIDE DEF c
    <2> QED
      BY <1>1, <2>1, <2>2, SigningKeeps
  <1>2. ASSUME UNCHANGED packVars, NEW target \in Revision, NEW n \in Revision, SignRollback(target, n) PROVE ReleaseInv'
    <2> DEFINE c == Republished(target, n)
    <2>1. manifests[target] # NoManifest /\ signed' = signed \cup {c} /\ UNCHANGED <<manifests, pointer, publishing>>
      BY <1>2 DEF SignRollback
    <2>2. c \in Content /\ Locked(c)
      BY <2>1, RepublishedLocks
    <2> HIDE DEF c
    <2> QED
      BY <1>2, <2>1, <2>2, SigningKeeps
  <1>3. ASSUME UNCHANGED packVars, NEW w \in Publisher, NEW content \in signed, NEW expected \in 0..MaxManifests,
               publishing' = [publishing EXCEPT ![w] = [content |-> content, expected |-> expected, verified |-> FALSE]],
               UNCHANGED <<manifests, pointer, signed>>
        PROVE  ReleaseInv'
    <2> DEFINE u == [content |-> content, expected |-> expected, verified |-> FALSE]
    <2>1. u \in Publishing /\ u.content \in signed
      BY <1>3 DEF ReleaseInv, ManifestsTInv, Publishing
    <2>2. publishing' = [publishing EXCEPT ![w] = u]
      BY <1>3
    <2> HIDE DEF u
    <2> QED
      BY <1>3, <2>1, <2>2, PublisherKeeps
  <1>4. ASSUME UNCHANGED packVars, NEW w \in Publisher, NEW n \in Revision, NEW chosen \in SUBSET Pack, NEW e \in 0..MaxManifests,
               BuildFromPacks(w, n, chosen, e)
        PROVE  ReleaseInv'
    BY <1>3, <1>4 DEF BuildFromPacks
  <1>5. ASSUME UNCHANGED packVars, NEW w \in Publisher, NEW target \in Revision, NEW n \in Revision, Rollback(w, target, n)
        PROVE  ReleaseInv'
    <2>1. pointer.revision \in 0..MaxManifests
      BY DEF ReleaseInv, ManifestsTInv
    <2> QED
      BY <1>3, <1>5, <2>1 DEF Rollback
  <1>6. ASSUME UNCHANGED packVars, NEW w \in Publisher, Verify(w) PROVE ReleaseInv'
    <2> DEFINE u == [publishing[w] EXCEPT !.verified = TRUE]
    <2>1. /\ publishing[w] # NoManifest /\ UNCHANGED <<manifests, pointer, signed>>
          /\ publishing' = [publishing EXCEPT ![w] = u] \/ publishing' = [publishing EXCEPT ![w] = NoManifest]
      BY <1>6 DEF Verify
    <2>2. publishing[w] \in Publishing /\ publishing[w].content \in signed
      BY <2>1 DEF ReleaseInv, ManifestsTInv, SignedOnly
    <2>3. u \in Publishing /\ u.content \in signed
      BY <2>2 DEF Publishing
    <2> HIDE DEF u
    <2> QED
      BY <1>6, <2>1, <2>3, PublisherKeeps
  <1>7. CASE UNCHANGED packVars /\ UNCHANGED manifestVars
    <2>1. PacksInv' /\ ManifestsTInv'
      BY <1>7, PacksNextInv DEF ReleaseInv, ManifestsTInv, manifestVars
    <2>2. \A c \in signed : Locked(c)'
      BY <1>7 DEF ReleaseInv, SignedOnly, Locked, packVars
    <2> QED
      BY <1>7, <2>1, <2>2 DEF ReleaseInv, SignedOnly, manifestVars
  <1>8. CASE ManifestsStep
    BY <1>1, <1>2, <1>4, <1>5, <1>6, <1>8, ActivationKeeps, RevocationKeeps DEF ManifestsStep
  <1>9. CASE PacksNext /\ UNCHANGED manifestVars
    BY <1>9, PacksStepKeeps
  <1> QED
    BY <1>7, <1>8, <1>9 DEF ReleaseNext

\* Every field of the packs, requests, manifests and publishers holds a value of
\* its set.
THEOREM ReleaseTypeCorrect == ReleaseSpec => [](PacksTInv /\ ManifestsTInv)
  <1>1. ReleaseInv => PacksTInv /\ ManifestsTInv
    BY DEF ReleaseInv, PacksInv
  <1> QED
    BY <1>1, ReleaseInitInv, ReleaseNextInv, PTL DEF ReleaseSpec

\* The invariant of the packs tells that each was published by one request.
LEMMA ApprovedOnce == PacksInv => FulfilledAsApproved
  <1> SUFFICES ASSUME PacksInv PROVE FulfilledAsApproved
    OBVIOUS
  <1>1. ASSUME NEW p \in Pack, packs[p].status = "published"
        PROVE  Cardinality({q \in Change : changes[q].status = "fulfilled" /\ changes[q].pack = p}) = 1
    <2>1. PICK q \in Change : changes[q].status = "fulfilled" /\ changes[q].pack = p
      BY <1>1 DEF PacksInv, PublishedOnce
    <2>2. {r \in Change : changes[r].status = "fulfilled" /\ changes[r].pack = p} = {q}
      BY <2>1 DEF PacksInv, PublishedOnce
    <2> QED
      BY <2>2, FS_Singleton
  <1>2. ASSUME NEW q \in Change, changes[q].status # "none"
        PROVE  LET row == changes[q]
                   AttemptsAre(last) == row.attempts # <<>> /\ Last(row.attempts) = last
               IN /\ row.attempts # <<>> => row.approver \notin {NoUser, row.requester}
                  /\ \A n \in 1..Len(row.attempts) - 1 : row.attempts[n] = "failed"
                  /\ CASE row.status = "approved_pending_fulfillment" -> AttemptsAre("pending")
                       [] row.status = "fulfilled" -> AttemptsAre("success")
                       [] row.status = "fulfillment_failed" -> AttemptsAre("failed")
                       [] OTHER -> row.attempts = <<>>
    <2> DEFINE row == changes[q]
               as == row.attempts
    <2>1. AttemptsFit(row) /\ as \in Seq({"pending", "success", "failed"})
      BY <1>2, RequestTyped DEF PacksInv, ChangeRow
    <2>2. Last(as) = as[Len(as)] /\ Len(as) \in Nat /\ (as = <<>> <=> Len(as) = 0)
      BY <2>1, EmptySeq DEF Last
    <2>3. /\ as # <<>> => row.approver \notin {NoUser, row.requester}
          /\ \A n \in 1..Len(as) - 1 : as[n] = "failed"
      BY <2>1, <2>2 DEF AttemptsFit
    <2>4. /\ row.status = "approved_pending_fulfillment" => as # <<>> /\ Last(as) = "pending"
          /\ row.status = "fulfilled" => as # <<>> /\ Last(as) = "success"
          /\ row.status = "fulfillment_failed" => as # <<>> /\ Last(as) = "failed"
          /\ row.status \notin {"approved_pending_fulfillment", "fulfilled", "fulfillment_failed"} => as = <<>>
      BY <2>1, <2>2 DEF AttemptsFit
    <2> QED
      BY <2>3, <2>4
  <1> QED
    BY <1>1, <1>2 DEF FulfilledAsApproved

\* A pack is published by one request, which somebody else than its requester has
\* approved and whose last attempt succeeded; and what the active manifest serves
\* is of packs that are published as they were hashed, in a manifest that was
\* signed.  For any number of packs, requests, users and publishers.
THEOREM ReleaseCorrect == ReleaseSpec => []ReleasedAsApproved
  <1>1. ASSUME ReleaseInv, pointer.revision # 0 PROVE ServedAsSigned
    <2> DEFINE active == manifests[pointer.revision]
    <2>1. pointer.revision \in Revision
      BY <1>1, ManifestConstants DEF ReleaseInv, ManifestsTInv, Revision
    <2>2. active # NoManifest /\ ~active.revoked /\ active.content \in signed /\ Locked(active.content)
      BY <1>1, <2>1 DEF ReleaseInv, SignedOnly
    <2> QED
      BY <2>2 DEF ServedAsSigned, Resolves, Locked
  <1>2. ReleaseInv => ServedAsSigned
    BY <1>1 DEF ServedAsSigned
  <1>3. ReleaseInv => ReleasedAsApproved
    BY <1>2, ApprovedOnce DEF ReleaseInv, ReleasedAsApproved
  <1> QED
    BY <1>3, ReleaseInitInv, ReleaseNextInv, PTL DEF ReleaseSpec

\* What one step may never do to a stored revision.
RevisionStays ==
    /\ pointer'.revision # pointer.revision => pointer'.generation > pointer.generation
    /\ \A n \in Revision : manifests[n] # NoManifest =>
          /\ manifests'[n].content = manifests[n].content
          /\ manifests[n].revoked => manifests'[n].revoked /\ pointer'.revision # n

\* An activation takes a free number, a revocation marks the active revision, and
\* both count the generation.
LEMMA StepStays == ReleaseInv /\ [ReleaseNext]_<<packVars, manifestVars>> => RevisionStays
  <1> SUFFICES ASSUME ReleaseInv, [ReleaseNext]_<<packVars, manifestVars>> PROVE RevisionStays
    OBVIOUS
  <1>1. /\ pointer \in [row : BOOLEAN, revision : 0..MaxManifests, generation : Nat]
        /\ manifests \in [Revision -> Stored \cup {NoManifest}]
        /\ \A n \in Revision : manifests[n] # NoManifest /\ manifests[n].revoked => pointer.revision # n
        /\ 0 \notin Revision /\ \A n \in 0..MaxManifests : n # 0 => n \in Revision
    BY ManifestConstants DEF ReleaseInv, ManifestsTInv, SignedOnly, Revision
  <1>2. CASE UNCHANGED <<manifests, pointer>>
    BY <1>1, <1>2 DEF RevisionStays
  <1>3. ASSUME NEW w \in Publisher, PublishAndActivate(w), ~ UNCHANGED <<manifests, pointer>> PROVE RevisionStays
    <2> DEFINE content == publishing[w].content
               n == content.revision
    <2>1. /\ manifests[n] = NoManifest /\ publishing[w] # NoManifest
          /\ manifests' = [manifests EXCEPT ![n] = [content |-> content, revoked |-> FALSE]]
          /\ pointer' = [row |-> TRUE, revision |-> n, generation |-> pointer.generation + 1]
      BY <1>3 DEF PublishAndActivate
    <2>2. \A m \in Revision : manifests[m] # NoManifest => m # n /\ manifests'[m] = manifests[m]
      BY <1>1, <2>1
    <2>3. pointer'.revision = n /\ pointer'.generation = pointer.generation + 1 /\ pointer.generation \in Nat
      BY <1>1, <2>1
    <2>4. pointer'.generation > pointer.generation
      BY <2>3
    <2> HIDE DEF n
    <2> QED
      BY <2>2, <2>3, <2>4 DEF RevisionStays
  <1>4. CASE RevokeActive
    <2> DEFINE n == pointer.revision
    <2>1. /\ n # 0 /\ manifests' = [manifests EXCEPT ![n] = [manifests[n] EXCEPT !.revoked = TRUE]]
          /\ pointer' = [pointer EXCEPT !.revision = 0, !.generation = pointer.generation + 1]
      BY <1>4 DEF RevokeActive
    <2>2. n \in Revision /\ manifests[n] # NoManifest
      BY <1>1, <2>1 DEF ReleaseInv, SignedOnly
    <2>3. manifests[n] \in Stored
      BY <1>1, <2>2
    <2>4. manifests'[n].content = manifests[n].content
      BY <1>1, <2>1, <2>2, <2>3 DEF Stored
    <2>5. \A m \in Revision : m # n => manifests'[m] = manifests[m]
      BY <1>1, <2>1
    <2>6. pointer'.revision = 0 /\ pointer'.generation = pointer.generation + 1 /\ pointer.generation \in Nat
      BY <1>1, <2>1
    <2>7. pointer'.generation > pointer.generation
      BY <2>6
    <2>8. ASSUME NEW m \in Revision, manifests[m] # NoManifest
          PROVE  /\ manifests'[m].content = manifests[m].content
                 /\ manifests[m].revoked => manifests'[m].revoked /\ pointer'.revision # m
      BY <1>1, <2>4, <2>5, <2>6, <2>8
    <2> QED
      BY <2>7, <2>8 DEF RevisionStays
  <1> QED
    BY <1>2, <1>3, <1>4
       DEF ReleaseNext, ManifestsStep, PreviewAndSign, SignRollback, BuildFromPacks, Rollback, Verify, manifestVars

\* A stored revision is never written again but to revoke it, what was revoked is
\* not served again under its number, and every change of the pointer starts a new
\* generation.
THEOREM RevisionsKept == ReleaseSpec => RevisionsStay
  <1>1. ReleaseInv /\ [ReleaseNext]_<<packVars, manifestVars>> => [RevisionStays]_manifestVars
    BY StepStays
  <1> QED
    BY <1>1, ReleaseInitInv, ReleaseNextInv, PTL DEF ReleaseSpec, RevisionsStay, RevisionStays

--------------------------------------------------------------------------------
(****************************************************************************)
(* References of the catalog.                                               *)
(****************************************************************************)
EventStatus == {"none", "accepted", "ignored_out_of_order", "processed", "failed"}
\* What a handler has seen of the sequence numbers may be anything here.
HandlerRow(x) == x \in [pc : {"rest", "record", "refresh", "register"}, event : Nat, object : Object \cup {NoRef},
                        latest : {x.latest}, fetched : SourceState \cup {NoRef}]
HandlerFits(x, told, status) ==
    /\ x.pc = "rest" => x = Rest
    /\ x.pc # "rest" => x.object \in Object /\ (x.event # 0 => x.event \in DOMAIN told /\ told[x.event] = x.object)
    /\ x.pc = "record" => x.event # 0 /\ x.fetched = NoRef
    /\ x.pc \in {"refresh", "register"} /\ x.event # 0 => status[x.event] # "none"
PageFits ==
    pulled # NoRef =>
        /\ pulled = [page |-> pulled.page, upTo |-> pulled.upTo]
        /\ DOMAIN pulled.page \subseteq Object /\ pulled.page \in [DOMAIN pulled.page -> SourceState]
        /\ pulled.upTo \in cursor..Len(announced)
RefsTInv ==
    /\ source \in [Object -> SourceState] /\ announced \in Seq(Object)
    /\ refs \in [Object -> SourceState \cup {NoRef}]
    /\ events \in Seq(EventStatus) /\ Len(events) = Len(announced)
    /\ handling = [h \in Handler |-> handling[h]]
    /\ \A h \in Handler : HandlerRow(handling[h]) /\ HandlerFits(handling[h], announced, events)
    /\ cursor \in 0..Len(announced) /\ settled \in BOOLEAN
    /\ PageFits

\* The last change of an object is one that nothing on record tells of.
Unheard(o, n) ==
    \E f \in Events : announced[f] = o /\ f > n /\ events[f] = "none" /\ \A g \in Events : announced[g] = o => g <= f

\* While all is settled one handler or one pull is under way, what it has fetched
\* is how its source is unless an unheard change followed, and
\* a reference whose last change was seen is right.
Alone ==
    /\ \A h, k \in Handler : handling[h].pc # "rest" /\ handling[k].pc # "rest" => h = k
    /\ pulled # NoRef => \A h \in Handler : handling[h].pc = "rest"
FetchedNow(h) ==
    LET x == handling[h]
    IN /\ x.fetched # NoRef => x.fetched = source[x.object] \/ Unheard(x.object, cursor)
       /\ x.pc = "register" /\ x.event # 0 => refs[x.object] = NoRef
PageIsNow(o) ==
    pulled # NoRef =>
        IF o \in DOMAIN pulled.page THEN pulled.page[o] = source[o] \/ Unheard(o, pulled.upTo)
        ELSE \A f \in Events : announced[f] = o /\ f > cursor => f > pulled.upTo
LastSeen(o) ==
    \E e \in Events : /\ announced[e] = o /\ \A f \in Events : announced[f] = o => f <= e
                      /\ e <= cursor \/ events[e] = "processed"
RefRight(o) ==
    /\ refs[o] # NoRef
    /\ refs[o].status \in {source[o].status, "inactive"}
    /\ refs[o].hash = source[o].hash
Settled ==
    /\ Alone
    /\ \A h \in Handler : FetchedNow(h)
    /\ \A o \in Object : PageIsNow(o) /\ (LastSeen(o) => RefRight(o))
RefsInv == RefsTInv /\ (settled => Settled)

\* A change is of an object and has a status.
LEMMA EventsTyped ==
    ASSUME RefsTInv
    PROVE  /\ Len(announced) \in Nat /\ Events = 1..Len(announced) /\ DOMAIN events = Events
           /\ \A e \in Events : announced[e] \in Object /\ events[e] \in EventStatus
  BY DEF RefsTInv, Events

\* Nobody works.
LEMMA RestTyped == HandlerRow(Rest) /\ Rest.pc = "rest" /\ Rest.fetched = NoRef /\ Rest.event = 0
  BY DEF HandlerRow, Rest

LEMMA RestFits == ASSUME NEW told, NEW status PROVE HandlerFits(Rest, told, status)
  BY RestTyped DEF HandlerFits

\* At the beginning there is no reference.
LEMMA RefsInitInv == RefsInit => RefsInv
  <1> SUFFICES ASSUME RefsInit PROVE RefsInv
    OBVIOUS
  <1>1. source \in [Object -> SourceState]
    BY DEF RefsInit, SourceState, Lifecycle
  <1>2. announced \in Seq(Object) /\ events \in Seq(EventStatus) /\ Len(announced) = 0 /\ Len(events) = 0 /\ Events = {}
    BY DEF RefsInit, Events
  <1>3. RefsTInv
    BY <1>1, <1>2, RestTyped, RestFits DEF RefsInit, RefsTInv, PageFits, HandlerRow
  <1>4. Settled
    BY <1>2, RestTyped DEF RefsInit, Settled, Alone, FetchedNow, PageIsNow, LastSeen
  <1> QED
    BY <1>3, <1>4 DEF RefsInv

\* A handler moves to u, and an event keeps that it is on record.
LEMMA HandlerMoves ==
    ASSUME RefsTInv, NEW h \in Handler, NEW u, HandlerRow(u), HandlerFits(u, announced, events'),
           handling' = [handling EXCEPT ![h] = u], UNCHANGED <<source, announced, pulled, cursor>>,
           refs' \in [Object -> SourceState \cup {NoRef}], settled' \in BOOLEAN,
           events' \in Seq(EventStatus), Len(events') = Len(events),
           \A e \in Events : events[e] # "none" => events'[e] # "none"
    PROVE  /\ RefsTInv'
           /\ handling'[h] = u /\ \A k \in Handler : k # h => handling'[k] = handling[k]
  <1>1. handling'[h] = u /\ (\A k \in Handler : k # h => handling'[k] = handling[k]) /\ handling' = [k \in Handler |-> handling'[k]]
    BY DEF RefsTInv
  <1>2. ASSUME NEW k \in Handler, NEW x, x = handling'[k] PROVE HandlerRow(x) /\ HandlerFits(x, announced', events')
    <2>1. CASE k = h
      BY <1>1, <1>2, <2>1
    <2>2. CASE k # h
      <3>1. x = handling[k] /\ HandlerRow(x) /\ HandlerFits(x, announced, events)
        BY <1>1, <1>2, <2>2 DEF RefsTInv
      <3> QED
        BY <3>1 DEF HandlerFits, Events
    <2> QED
      BY <2>1, <2>2
  <1>3. PageFits'
    BY DEF RefsTInv, PageFits
  <1> QED
    BY <1>1, <1>2, <1>3 DEF RefsTInv, HandlerRow

\* While all is settled one is at work.
LEMMA OnlyOne ==
    ASSUME RefsInv, settled, NEW h \in Handler, handling[h].pc # "rest"
    PROVE  pulled = NoRef /\ \A k \in Handler : k # h => handling[k] = Rest
  BY DEF RefsInv, RefsTInv, Settled, Alone, HandlerFits

\* Its event ends with the status.
LEMMA EventEnds ==
    ASSUME RefsTInv, NEW h \in Handler, handling[h].pc \in {"refresh", "register"}, NEW status \in {"processed", "failed"},
           Finish(h, status)
    PROVE  LET e == handling[h].event
           IN /\ e # 0 => e \in Events /\ announced[e] = handling[h].object /\ events[e] # "none"
              /\ events' \in Seq(EventStatus) /\ Len(events') = Len(events)
              /\ \A f \in Events : events'[f] = IF e # 0 /\ f = e THEN status ELSE events[f]
  <1> DEFINE e == handling[h].event
  <1>1. HandlerRow(handling[h]) /\ HandlerFits(handling[h], announced, events)
    BY DEF RefsTInv
  <1>2. e # 0 => e \in Events /\ announced[e] = handling[h].object /\ events[e] # "none"
    BY <1>1 DEF HandlerFits, Events
  <1>3. CASE e = 0
    BY <1>3 DEF Finish, RefsTInv
  <1>4. CASE e # 0
    <2>1. events' = [events EXCEPT ![e] = status] /\ status \in EventStatus
      BY <1>4 DEF Finish, EventStatus
    <2>2. events \in Seq(EventStatus) /\ DOMAIN events = Events /\ e \in 1..Len(events)
      BY <1>2, <1>4, EventsTyped DEF RefsTInv
    <2>3. events' \in Seq(EventStatus) /\ Len(events') = Len(events)
      BY <2>1, <2>2, ExceptSeq
    <2> QED
      BY <1>2, <1>4, <2>1, <2>2, <2>3
  <1> QED
    BY <1>3, <1>4

\* A handler is done: what it leaves of the reference is what it has fetched, or
\* its event failed, or it had none.
LEMMA FinishKeeps ==
    ASSUME RefsInv, NEW h \in Handler, NEW o, o = handling[h].object, NEW status \in {"processed", "failed"},
           handling[h].pc \in {"refresh", "register"}, handling[h].fetched # NoRef,
           Finish(h, status), UNCHANGED <<source, announced, pulled, cursor, settled>>,
           refs' \in [Object -> SourceState \cup {NoRef}], \A a \in Object : a # o => refs'[a] = refs[a],
           \/ refs' = refs /\ (status = "failed" \/ handling[h].event = 0)
           \/ handling[h].fetched = source[o] =>
                 refs'[o] # NoRef /\ refs'[o].status \in {source[o].status, "inactive"} /\ refs'[o].hash = source[o].hash
           \/ ~settled
    PROVE  RefsInv'
  <1> DEFINE e == handling[h].event
  <1>1. RefsTInv /\ HandlerRow(handling[h]) /\ HandlerFits(handling[h], announced, events) /\ o \in Object
    BY DEF RefsInv, RefsTInv, HandlerFits
  <1>2. handling' = [handling EXCEPT ![h] = Rest]
    BY DEF Finish
  <1>3. e # 0 => e \in Events /\ announced[e] = o /\ events[e] # "none"
    BY <1>1 DEF HandlerFits, Events
  <1>4. /\ events' \in Seq(EventStatus) /\ Len(events') = Len(events)
        /\ \A f \in Events : events'[f] = IF e # 0 /\ f = e THEN status ELSE events[f]
    BY <1>1, EventEnds
  <1>5. \A f \in Events : events[f] # "none" => events'[f] # "none"
    BY <1>4
  <1>6. settled' \in BOOLEAN
    BY <1>1 DEF RefsTInv
  <1>7. RefsTInv' /\ handling'[h] = Rest /\ \A k \in Handler : k # h => handling'[k] = handling[k]
    BY <1>1, <1>2, <1>4, <1>5, <1>6, HandlerMoves, RestTyped, RestFits
  <1>8. ASSUME settled PROVE Settled'
    <2>1. pulled = NoRef /\ \A k \in Handler : handling'[k] = Rest
      BY <1>7, <1>8, OnlyOne
    <2>2. Alone' /\ (\A k \in Handler : FetchedNow(k)') /\ \A a \in Object : PageIsNow(a)'
      BY <2>1, RestTyped DEF Alone, FetchedNow, PageIsNow
    <2>3. FetchedNow(h) /\ \A a \in Object : LastSeen(a) => RefRight(a)
      BY <1>8 DEF RefsInv, Settled
    <2>4. Events' = Events
      BY DEF Events
    <2>5. ASSUME NEW a \in Object, LastSeen(a)' PROVE RefRight(a)'
      <3>1. PICK f \in Events : /\ announced[f] = a /\ \A g \in Events : announced[g] = a => g <= f
                                /\ f <= cursor \/ events'[f] = "processed"
        BY <2>4, <2>5 DEF LastSeen
      <3>2. CASE a # o \/ (refs' = refs /\ (status = "failed" \/ e = 0))
        <4>1. events'[f] = "processed" => events[f] = "processed"
          BY <1>3, <1>4, <3>1, <3>2
        <4>2. LastSeen(a)
          BY <3>1, <4>1 DEF LastSeen
        <4>3. refs'[a] = refs[a]
          BY <3>2
        <4> QED
          BY <2>3, <4>2, <4>3 DEF RefRight
      <3>3. CASE a = o /\ handling[h].fetched = source[o]
        <4>1. \/ refs'[o] # NoRef /\ refs'[o].status \in {source[o].status, "inactive"} /\ refs'[o].hash = source[o].hash
              \/ (refs' = refs /\ (status = "failed" \/ e = 0))
          BY <1>8, <3>3
        <4> QED
          BY <3>2, <3>3, <4>1 DEF RefRight
      <3>4. CASE a = o /\ Unheard(o, cursor)
        <4>1. PICK g \in Events : announced[g] = o /\ g > cursor /\ events[g] = "none" /\ \A i \in Events : announced[i] = o => i <= g
          BY <3>4 DEF Unheard
        <4>2. f \in Nat /\ g \in Nat /\ cursor \in Nat
          BY <1>1, EventsTyped DEF RefsTInv
        <4>3. f = g
          BY <3>1, <3>4, <4>1, <4>2
        <4> QED
          BY <1>3, <1>4, <3>1, <4>1, <4>2, <4>3
      <3> QED
        BY <2>3, <3>2, <3>3, <3>4 DEF FetchedNow
    <2> QED
      BY <2>2, <2>5 DEF Settled
  <1> QED
    BY <1>7, <1>8 DEF RefsInv

\* The source changes: its object has an unheard change, and the others none.
LEMMA SourceChangesKeeps ==
    ASSUME RefsInv, NEW o \in Object, NEW state \in SourceState, SourceChanges(o, state)
    PROVE  RefsInv'
  <1> DEFINE n == Len(announced)
  <1>1. /\ RefsTInv /\ source' = [source EXCEPT ![o] = state] /\ announced' = Append(announced, o) /\ events' = Append(events, "none")
        /\ UNCHANGED <<refs, handling, pulled, cursor, settled>>
    BY DEF RefsInv, SourceChanges
  <1>2. announced \in Seq(Object) /\ events \in Seq(EventStatus) /\ Len(events) = n /\ "none" \in EventStatus /\ n \in Nat
    BY <1>1 DEF RefsTInv, EventStatus
  <1>3. /\ announced' \in Seq(Object) /\ events' \in Seq(EventStatus) /\ Len(announced') = n + 1 /\ Len(events') = n + 1
        /\ \A e \in 1..n : announced'[e] = announced[e] /\ events'[e] = events[e]
        /\ announced'[n + 1] = o /\ events'[n + 1] = "none"
    BY <1>1, <1>2, AppendProperties
  <1>4. Events = 1..n /\ Events' = 1..n + 1 /\ DOMAIN announced' = Events'
    BY <1>2, <1>3 DEF Events
  <1>5. RefsTInv'
    <2>1. source' \in [Object -> SourceState] /\ cursor \in 0..n + 1
      BY <1>1, <1>2 DEF RefsTInv
    <2>2. PageFits'
      BY <1>1, <1>2, <1>3 DEF RefsTInv, PageFits
    <2>3. ASSUME NEW k \in Handler, NEW x, x = handling'[k] PROVE HandlerRow(x) /\ HandlerFits(x, announced', events')
      <3>1. HandlerRow(x) /\ HandlerFits(x, announced, events)
        BY <1>1, <2>3 DEF RefsTInv
      <3>2. DOMAIN announced = 1..n /\ DOMAIN announced' = 1..n + 1
        BY <1>2, <1>3
      <3>3. x.event \in DOMAIN announced => /\ x.event \in DOMAIN announced' /\ announced'[x.event] = announced[x.event]
                                            /\ events'[x.event] = events[x.event]
        BY <1>2, <1>3, <3>2
      <3> QED
        BY <3>1, <3>3 DEF HandlerFits
    <2> QED
      BY <1>1, <1>3, <2>1, <2>2, <2>3 DEF RefsTInv, HandlerRow
  <1>6. \A a \in Object : source'[a] = IF a = o THEN state ELSE source[a]
    BY <1>1 DEF RefsTInv
  <1>7. ASSUME NEW m \in 0..n PROVE Unheard(o, m)'
    <2>1. n + 1 \in Events' /\ announced'[n + 1] = o /\ n + 1 > m /\ events'[n + 1] = "none" /\ \A g \in Events' : g <= n + 1
      BY <1>2, <1>3, <1>4, <1>7
    <2> QED
      BY <2>1 DEF Unheard
  <1>8. ASSUME NEW a \in Object, a # o, NEW m, Unheard(a, m) PROVE \E f \in Events' : /\ announced'[f] = a /\ f > m
                      /\ events'[f] = "none" /\ \A g \in Events' : announced'[g] = a => g <= f
    <2>1. PICK f \in Events : announced[f] = a /\ f > m /\ events[f] = "none" /\ \A g \in Events : announced[g] = a => g <= f
      BY <1>8 DEF Unheard
    <2>2. ASSUME NEW g \in Events', announced'[g] = a PROVE g <= f
      <3>1. g \in 1..n
        <4>1. g \in 1..n + 1 /\ g # n + 1
          BY <1>3, <1>4, <1>8, <2>2
        <4> QED
          BY <1>2, <4>1
      <3>2. g \in Events /\ announced[g] = a
        BY <1>3, <1>4, <2>2, <3>1
      <3> QED
        BY <2>1, <3>2
    <2> QED
      BY <1>2, <1>3, <1>4, <2>1, <2>2
  <1>9. ASSUME settled PROVE Settled'
    <2>1. Settled
      BY <1>9 DEF RefsInv
    <2>2. Alone'
      BY <1>1, <2>1 DEF Settled, Alone
    <2>3. cursor \in 0..n /\ (pulled # NoRef => pulled.upTo \in 0..n)
      BY <1>1, <1>2 DEF RefsTInv, PageFits
    <2>4. ASSUME NEW h \in Handler PROVE FetchedNow(h)'
      <3>1. FetchedNow(h)
        BY <2>1 DEF Settled
      <3>2. handling[h].fetched # NoRef => handling[h].object \in Object
        BY <1>1, RestTyped DEF RefsTInv, HandlerFits
      <3>3. CASE handling[h].object = o
        BY <1>1, <1>7, <2>3, <3>1, <3>3 DEF FetchedNow
      <3>4. CASE handling[h].object # o
        <4>1. handling[h].object \in Object /\ Unheard(handling[h].object, cursor) => Unheard(handling[h].object, cursor)'
          BY <1>1, <1>8, <3>4 DEF Unheard
        <4>2. handling[h].object \in Object => source'[handling[h].object] = source[handling[h].object]
          BY <1>6, <3>4
        <4> QED
          BY <1>1, <3>1, <3>2, <4>1, <4>2 DEF FetchedNow
      <3> QED
        BY <3>3, <3>4
    <2>5. ASSUME NEW a \in Object PROVE PageIsNow(a)'
      <3> SUFFICES ASSUME pulled # NoRef PROVE PageIsNow(a)'
        BY <1>1 DEF PageIsNow
      <3>1. PageIsNow(a) /\ pulled.upTo \in 0..n
        BY <2>1, <2>3 DEF Settled
      <3>2. CASE a \in DOMAIN pulled.page
        <4>1. CASE a = o
          <5>1. Unheard(a, pulled.upTo)'
            BY <1>1, <1>7, <3>1, <4>1
          <5> QED
            BY <1>1, <3>2, <5>1 DEF PageIsNow
        <4>2. CASE a # o
          <5>1. Unheard(a, pulled.upTo) => Unheard(a, pulled.upTo)'
            BY <1>1, <1>8, <4>2 DEF Unheard
          <5>2. pulled.page[a] = source[a] \/ Unheard(a, pulled.upTo)
            BY <3>1, <3>2 DEF PageIsNow
          <5>3. source'[a] = source[a]
            BY <1>6, <4>2
          <5> QED
            BY <1>1, <3>2, <5>1, <5>2, <5>3 DEF PageIsNow
        <4> QED
          BY <4>1, <4>2
      <3>3. CASE a \notin DOMAIN pulled.page
        <4>1. \A f \in Events : announced[f] = a /\ f > cursor => f > pulled.upTo
          BY <3>1, <3>3 DEF PageIsNow
        <4>2. ASSUME NEW f \in Events', announced'[f] = a, f > cursor PROVE f > pulled.upTo
          BY <1>2, <1>3, <1>4, <3>1, <4>1, <4>2
        <4> QED
          BY <1>1, <3>3, <4>2 DEF PageIsNow
      <3> QED
        BY <3>2, <3>3
    <2>6. ASSUME NEW a \in Object, LastSeen(a)' PROVE RefRight(a)'
      <3>1. PICK e \in Events' : /\ announced'[e] = a /\ \A f \in Events' : announced'[f] = a => f <= e
                                 /\ e <= cursor \/ events'[e] = "processed"
        BY <1>1, <2>6 DEF LastSeen
      <3>2. a # o
        <4>1. CASE a = o
          <5>1. e = n + 1
            BY <1>2, <1>3, <1>4, <3>1, <4>1
          <5> QED
            BY <1>2, <1>3, <2>3, <3>1, <5>1
        <4> QED
          BY <4>1
      <3>3. e \in Events
        BY <1>2, <1>3, <1>4, <3>1, <3>2
      <3>4. LastSeen(a)
        <4>1. \A f \in Events : announced[f] = a => f <= e
          BY <1>2, <1>3, <1>4, <3>1
        <4>2. announced[e] = a
          BY <1>3, <1>4, <3>1, <3>3
        <4>3. e <= cursor \/ events[e] = "processed"
          BY <1>3, <1>4, <3>1, <3>3
        <4> QED
          BY <3>3, <4>1, <4>2, <4>3 DEF LastSeen
      <3>5. RefRight(a)
        BY <2>1, <3>4 DEF Settled
      <3> QED
        BY <1>1, <1>6, <3>2, <3>5 DEF RefRight
    <2> QED
      BY <2>2, <2>4, <2>5, <2>6 DEF Settled
  <1> QED
    BY <1>1, <1>5, <1>9 DEF RefsInv

\* A handler begins, when nobody else works, or time is not settled any more.
LEMMA HandlerBegins ==
    ASSUME RefsInv, NEW h \in Handler, NEW u, HandlerRow(u), HandlerFits(u, announced, events), u.fetched = NoRef, u.pc # "register" \/ u.event = 0,
           handling' = [handling EXCEPT ![h] = u], UNCHANGED <<source, announced, refs, events, pulled, cursor>>,
           settled' \in BOOLEAN, settled' => settled /\ Quiet
    PROVE  RefsInv'
  <1>1. RefsTInv' /\ handling'[h] = u /\ \A k \in Handler : k # h => handling'[k] = handling[k]
    <2>1. RefsTInv /\ refs' \in [Object -> SourceState \cup {NoRef}] /\ events' \in Seq(EventStatus) /\ Len(events') = Len(events)
          /\ HandlerFits(u, announced, events') /\ \A e \in Events : events[e] # "none" => events'[e] # "none"
      BY DEF RefsInv, RefsTInv
    <2> QED
      BY <2>1, HandlerMoves
  <1>2. ASSUME settled' PROVE Settled'
    <2>1. Settled /\ pulled = NoRef /\ \A k \in Handler : k # h => handling'[k].pc = "rest" /\ handling'[k].fetched = NoRef
      BY <1>1, <1>2, RestTyped DEF RefsInv, Quiet
    <2>2. Alone'
      BY <1>1, <2>1 DEF Alone
    <2>3. ASSUME NEW k \in Handler PROVE FetchedNow(k)'
      BY <1>1, <2>1 DEF FetchedNow
    <2>4. ASSUME NEW a \in Object PROVE PageIsNow(a)' /\ (LastSeen(a)' => RefRight(a)')
      BY <2>1 DEF Settled, PageIsNow, LastSeen, RefRight, Events
    <2> QED
      BY <2>2, <2>3, <2>4 DEF Settled
  <1> QED
    BY <1>1, <1>2 DEF RefsInv

\* A handler moves on; an event gets its first status, or none changes.
LEMMA HandlerSteps ==
    ASSUME RefsInv, NEW h \in Handler, handling[h].pc # "rest", NEW u, HandlerRow(u), HandlerFits(u, announced, events'),
           u.fetched # NoRef => u.fetched = source[u.object],
           u.pc = "register" /\ u.event # 0 => refs[u.object] = NoRef \/ ~settled,
           handling' = [handling EXCEPT ![h] = u], UNCHANGED <<source, announced, refs, pulled, cursor, settled>>,
           events' \in Seq(EventStatus), Len(events') = Len(events),
           \A e \in Events : (events[e] # "none" => events'[e] # "none") /\ (events'[e] = "processed" => events[e] = "processed")
    PROVE  RefsInv'
  <1>1. RefsTInv' /\ handling'[h] = u /\ \A k \in Handler : k # h => handling'[k] = handling[k]
    <2>1. RefsTInv /\ refs' \in [Object -> SourceState \cup {NoRef}] /\ settled' \in BOOLEAN
      BY DEF RefsInv, RefsTInv
    <2> QED
      BY <2>1, HandlerMoves
  <1>2. ASSUME settled PROVE Settled'
    <2>1. Settled /\ pulled = NoRef /\ \A k \in Handler : k # h => handling'[k].pc = "rest" /\ handling'[k].fetched = NoRef
      BY <1>1, <1>2, OnlyOne, RestTyped DEF RefsInv
    <2>2. Alone'
      BY <1>1, <2>1 DEF Alone
    <2>3. ASSUME NEW k \in Handler PROVE FetchedNow(k)'
      BY <1>1, <1>2, <2>1 DEF FetchedNow
    <2>4. ASSUME NEW a \in Object PROVE PageIsNow(a)'
      BY <2>1 DEF PageIsNow
    <2>5. ASSUME NEW a \in Object, LastSeen(a)' PROVE RefRight(a)'
      <3>1. LastSeen(a)
        BY <2>5 DEF LastSeen, Events
      <3> QED
        BY <2>1, <3>1 DEF Settled, RefRight
    <2> QED
      BY <2>2, <2>3, <2>4, <2>5 DEF Settled
  <1> QED
    BY <1>1, <1>2 DEF RefsInv

\* An event is put on record, or was on record before.
LEMMA RecordKeeps ==
    ASSUME RefsInv, NEW h \in Handler, RecordEvent(h)
    PROVE  RefsInv'
  <1> DEFINE e == handling[h].event
  <1>1. /\ RefsTInv /\ HandlerRow(handling[h]) /\ HandlerFits(handling[h], announced, events)
        /\ handling[h].pc = "record" /\ UNCHANGED <<source, announced, refs, pulled, cursor, settled>>
    BY DEF RefsInv, RefsTInv, RecordEvent
  <1>2. e \in Events /\ announced[e] = handling[h].object /\ handling[h].object \in Object /\ handling[h].fetched = NoRef
    BY <1>1 DEF HandlerFits, Events
  <1>3. CASE handling' = [handling EXCEPT ![h] = Rest] /\ UNCHANGED events
    <2>1. events' \in Seq(EventStatus)
      BY <1>1, <1>3 DEF RefsTInv
    <2> QED
      BY <1>1, <1>3, <2>1, RestTyped, RestFits, HandlerSteps
  <1>4. ASSUME events[e] = "none", NEW status \in {"ignored_out_of_order", "accepted"}, events' = [events EXCEPT ![e] = status]
        PROVE  /\ events' \in Seq(EventStatus) /\ Len(events') = Len(events) /\ events'[e] # "none"
               /\ \A f \in Events : (events[f] # "none" => events'[f] # "none") /\ (events'[f] = "processed" => events[f] = "processed")
    <2>1. events \in Seq(EventStatus) /\ DOMAIN events = Events /\ e \in 1..Len(events) /\ status \in EventStatus
      BY <1>1, <1>2, EventsTyped DEF RefsTInv, EventStatus
    <2>2. events' \in Seq(EventStatus) /\ Len(events') = Len(events)
      BY <1>4, <2>1, ExceptSeq
    <2> QED
      BY <1>2, <1>4, <2>1, <2>2
  <1>5. CASE events[e] = "none" /\ events' = [events EXCEPT ![e] = "ignored_out_of_order"] /\ handling' = [handling EXCEPT ![h] = Rest]
    BY <1>1, <1>4, <1>5, RestTyped, RestFits, HandlerSteps
  <1>6. CASE events[e] = "none" /\ events' = [events EXCEPT ![e] = "accepted"] /\ handling' = [handling EXCEPT ![h].pc = "refresh"]
    <2> DEFINE u == [handling[h] EXCEPT !.pc = "refresh"]
    <2>1. handling' = [handling EXCEPT ![h] = u]
      BY <1>1, <1>6 DEF RefsTInv
    <2>2. HandlerRow(u) /\ u.pc = "refresh" /\ u.event = e /\ u.object = handling[h].object /\ u.fetched = NoRef
      BY <1>1, <1>2 DEF HandlerRow
    <2> HIDE DEF u
    <2>3. HandlerFits(u, announced, events')
      BY <1>2, <1>4, <1>6, <2>2 DEF HandlerFits, Events
    <2> QED
      BY <1>1, <1>4, <1>6, <2>1, <2>2, <2>3, HandlerSteps
  <1> QED
    BY <1>3, <1>5, <1>6 DEF RecordEvent

\* A refresh finds the row with the hash of the source, and takes its status, or
\* it fails, or an event has to register the object.
LEMMA RefreshKeeps ==
    ASSUME RefsInv, NEW h \in Handler, CommitRefresh(h)
    PROVE  RefsInv'
  <1> DEFINE o == handling[h].object
             fetched == handling[h].fetched
  <1>1. /\ RefsTInv /\ HandlerRow(handling[h]) /\ HandlerFits(handling[h], announced, events)
        /\ handling[h].pc = "refresh" /\ fetched # NoRef /\ UNCHANGED <<source, announced, pulled, cursor, settled>>
    BY DEF RefsInv, RefsTInv, CommitRefresh
  <1>2. /\ o \in Object /\ fetched \in SourceState /\ refs \in [Object -> SourceState \cup {NoRef}]
        /\ events \in Seq(EventStatus)
    BY <1>1 DEF HandlerFits, HandlerRow, RefsTInv
  <1>3. CASE handling' = [handling EXCEPT ![h].pc = "register", ![h].fetched = NoRef] /\ refs[o] = NoRef /\ UNCHANGED <<refs, events>>
    <2> DEFINE u == [handling[h] EXCEPT !.pc = "register", !.fetched = NoRef]
    <2>1. handling' = [handling EXCEPT ![h] = u]
      BY <1>1, <1>3 DEF RefsTInv
    <2>2. HandlerRow(u) /\ u.pc = "register" /\ u.event = handling[h].event /\ u.object = o /\ u.fetched = NoRef
      BY <1>1 DEF HandlerRow
    <2> HIDE DEF u
    <2>3. HandlerFits(u, announced, events')
      BY <1>1, <1>3, <2>2 DEF HandlerFits
    <2>4. events' \in Seq(EventStatus)
      BY <1>2, <1>3
    <2> QED
      BY <1>1, <1>3, <2>1, <2>2, <2>3, <2>4, HandlerSteps
  <1>4. CASE Finish(h, "failed") /\ UNCHANGED refs
    <2>1. refs' \in [Object -> SourceState \cup {NoRef}]
      BY <1>2, <1>4
    <2> QED
      BY <1>1, <1>4, <2>1, FinishKeeps
  <1>5. CASE /\ refs[o] # NoRef /\ refs[o].hash = fetched.hash /\ Finish(h, "processed")
             /\ refs' = [refs EXCEPT ![o].status = IF @ = "inactive" THEN @ ELSE fetched.status]
    <2> DEFINE status == IF refs[o].status = "inactive" THEN refs[o].status ELSE fetched.status
               row == [refs[o] EXCEPT !.status = status]
    <2>1. refs' = [refs EXCEPT ![o] = row]
      BY <1>2, <1>5
    <2>2. status \in {"inactive", fetched.status} /\ status \in Lifecycle
      BY <1>2, <1>5 DEF SourceState
    <2> HIDE DEF status
    <2>3. row \in SourceState /\ row.status = status /\ row.hash = fetched.hash
      BY <1>2, <1>5, <2>2 DEF SourceState
    <2> HIDE DEF row
    <2>4. refs' \in [Object -> SourceState \cup {NoRef}] /\ refs'[o] = row /\ \A a \in Object : a # o => refs'[a] = refs[a]
      BY <1>2, <2>1, <2>3
    <2>5. handling[h].fetched = source[o] =>
             refs'[o] # NoRef /\ refs'[o].status \in {source[o].status, "inactive"} /\ refs'[o].hash = source[o].hash
      BY <2>2, <2>3, <2>4, RefConstants
    <2>6. /\ handling[h].pc \in {"refresh", "register"} /\ handling[h].fetched # NoRef /\ Finish(h, "processed")
          /\ UNCHANGED <<source, announced, pulled, cursor, settled>> /\ "processed" \in {"processed", "failed"}
          /\ o = handling[h].object /\ refs' \in [Object -> SourceState \cup {NoRef}] /\ \A a \in Object : a # o => refs'[a] = refs[a]
      BY <1>1, <1>5, <2>4
    <2> HIDE DEF o, fetched
    <2> QED
      BY <2>5, <2>6, FinishKeeps
  <1> QED
    BY <1>3, <1>4, <1>5 DEF CommitRefresh

\* An event registers what is missing; a request may find it registered.
LEMMA RegisterKeeps ==
    ASSUME RefsInv, NEW h \in Handler, CommitRegister(h)
    PROVE  RefsInv'
  <1> DEFINE o == handling[h].object
             fetched == handling[h].fetched
  <1>1. /\ RefsTInv /\ HandlerRow(handling[h]) /\ HandlerFits(handling[h], announced, events)
        /\ handling[h].pc = "register" /\ fetched # NoRef /\ UNCHANGED <<source, announced, pulled, cursor, settled>>
    BY DEF RefsInv, RefsTInv, CommitRegister
  <1>2. /\ o \in Object /\ fetched \in SourceState /\ refs \in [Object -> SourceState \cup {NoRef}]
    BY <1>1 DEF HandlerFits, HandlerRow, RefsTInv
  <1>3. CASE Finish(h, "failed") /\ UNCHANGED refs
    <2>1. refs' \in [Object -> SourceState \cup {NoRef}]
      BY <1>2, <1>3
    <2> QED
      BY <1>1, <1>3, <2>1, FinishKeeps
  <1>4. CASE refs[o] = NoRef /\ refs' = [refs EXCEPT ![o] = fetched] /\ Finish(h, "processed")
    <2>1. refs' \in [Object -> SourceState \cup {NoRef}] /\ refs'[o] = fetched /\ \A a \in Object : a # o => refs'[a] = refs[a]
      BY <1>2, <1>4
    <2> QED
      BY <1>1, <1>4, <2>1, FinishKeeps
  <1>5. CASE refs[o] # NoRef /\ UNCHANGED refs /\ Finish(h, "processed")
    <2>1. refs' \in [Object -> SourceState \cup {NoRef}]
      BY <1>2, <1>5
    <2>2. CASE handling[h].event = 0
      BY <1>1, <1>5, <2>1, <2>2, FinishKeeps
    <2>3. CASE handling[h].event # 0
      <3>1. ~settled
        BY <1>1, <1>5, <2>3 DEF RefsInv, Settled, FetchedNow
      <3> QED
        BY <1>1, <1>5, <2>1, <3>1, FinishKeeps
    <2> QED
      BY <2>2, <2>3
  <1> QED
    BY <1>3, <1>4, <1>5 DEF CommitRegister

\* An object is fetched as it is.
LEMMA FetchKeeps ==
    ASSUME RefsInv, NEW h \in Handler, Fetch(h)
    PROVE  RefsInv'
  <1> DEFINE u == [handling[h] EXCEPT !.fetched = source[handling[h].object]]
  <1>1. /\ RefsTInv /\ HandlerRow(handling[h]) /\ HandlerFits(handling[h], announced, events)
        /\ handling[h].pc \in {"refresh", "register"} /\ UNCHANGED <<source, announced, refs, events, pulled, cursor, settled>>
    BY DEF RefsInv, RefsTInv, Fetch
  <1>2. handling' = [handling EXCEPT ![h] = u]
    BY <1>1 DEF Fetch, RefsTInv
  <1>3. handling[h].object \in Object /\ source[handling[h].object] \in SourceState
    BY <1>1 DEF RefsTInv, HandlerFits
  <1>4. /\ HandlerRow(u) /\ u.pc = handling[h].pc /\ u.event = handling[h].event /\ u.object = handling[h].object
        /\ u.fetched = source[u.object]
    BY <1>1, <1>3 DEF HandlerRow
  <1> HIDE DEF u
  <1>5. HandlerFits(u, announced, events')
    BY <1>1, <1>4 DEF HandlerFits
  <1>6. u.pc = "register" /\ u.event # 0 => refs[u.object] = NoRef \/ ~settled
    BY <1>4 DEF RefsInv, Settled, FetchedNow
  <1>7. events' \in Seq(EventStatus)
    BY <1>1 DEF RefsTInv
  <1> QED
    BY <1>1, <1>2, <1>4, <1>5, <1>6, <1>7, HandlerSteps

\* A handler is lost with its event or without.
LEMMA HandlerFailsKeeps ==
    ASSUME RefsInv, NEW h \in Handler, HandlerFails(h)
    PROVE  RefsInv'
  <1>1. /\ RefsTInv /\ handling' = [handling EXCEPT ![h] = Rest] /\ handling[h].pc \in {"refresh", "register"}
        /\ settled' = FALSE /\ UNCHANGED <<source, announced, refs, pulled, cursor>>
    BY DEF RefsInv, HandlerFails, Finish
  <1>2. /\ events' \in Seq(EventStatus) /\ Len(events') = Len(events)
        /\ \A e \in Events : events[e] # "none" => events'[e] # "none"
    <2>1. CASE Finish(h, "failed")
      BY <1>1, <2>1, EventEnds
    <2>2. CASE UNCHANGED events
      BY <1>1, <2>2 DEF RefsTInv
    <2> QED
      BY <2>1, <2>2 DEF HandlerFails
  <1>3. refs' \in [Object -> SourceState \cup {NoRef}] /\ settled' \in BOOLEAN
    BY <1>1 DEF RefsTInv
  <1>4. RefsTInv'
    BY <1>1, <1>2, <1>3, HandlerMoves, RestTyped, RestFits
  <1> QED
    BY <1>1, <1>4 DEF RefsInv

\* A revocation is not settled.
LEMMA RevokeKeeps ==
    ASSUME RefsInv, NEW o \in Object, Revoke(o)
    PROVE  RefsInv'
  <1>1. /\ RefsTInv /\ refs[o] # NoRef /\ refs' = [refs EXCEPT ![o] = [refs[o] EXCEPT !.status = "inactive"]]
        /\ settled' = FALSE /\ UNCHANGED <<source, announced, events, handling, pulled, cursor>>
    BY DEF RefsInv, RefsTInv, Revoke
  <1>2. [refs[o] EXCEPT !.status = "inactive"] \in SourceState
    BY <1>1 DEF RefsTInv, SourceState, Lifecycle
  <1>3. refs' \in [Object -> SourceState \cup {NoRef}]
    BY <1>1, <1>2 DEF RefsTInv
  <1>4. RefsTInv'
    BY <1>1, <1>3 DEF RefsTInv, PageFits, HandlerRow, HandlerFits
  <1> QED
    BY <1>1, <1>4 DEF RefsInv

\* A page is of all that changed after the cursor, as it is.
LEMMA PullFetchKeeps ==
    ASSUME RefsInv, PullFetch
    PROVE  RefsInv'
  <1> DEFINE changed == {announced[e] : e \in (cursor + 1)..Len(announced)}
             page == [o \in changed |-> source[o]]
  <1>1. /\ RefsTInv /\ pulled' = [page |-> page, upTo |-> Len(announced)] /\ settled' = (settled /\ Quiet)
        /\ UNCHANGED <<source, announced, refs, events, handling, cursor>>
    BY DEF RefsInv, PullFetch
  <1>2. Len(announced) \in Nat /\ cursor \in 0..Len(announced) /\ Events = 1..Len(announced)
    BY <1>1, EventsTyped DEF RefsTInv
  <1>3. changed \subseteq Object
    BY <1>1, <1>2, EventsTyped
  <1>4. \A f \in Events : f > cursor => announced[f] \in changed
    BY <1>2
  <1> HIDE DEF changed
  <1>5. DOMAIN page = changed /\ page \in [changed -> SourceState] /\ \A o \in changed : page[o] = source[o]
    BY <1>1, <1>3 DEF RefsTInv
  <1> HIDE DEF page
  <1>6. pulled'.page = page /\ pulled'.upTo = Len(announced) /\ pulled' = [page |-> pulled'.page, upTo |-> pulled'.upTo]
    BY <1>1
  <1>7. PageFits'
    BY <1>1, <1>2, <1>3, <1>5, <1>6 DEF PageFits
  <1>8. RefsTInv'
    BY <1>1, <1>7 DEF RefsTInv, HandlerRow, HandlerFits
  <1>9. ASSUME settled' PROVE Settled'
    <2>1. Settled /\ \A h \in Handler : handling[h].pc = "rest"
      BY <1>1, <1>9, RestTyped DEF RefsInv, Quiet
    <2>2. Alone' /\ (\A h \in Handler : FetchedNow(h)')
      BY <1>1, <2>1 DEF Settled, Alone, FetchedNow, Unheard, Events
    <2>3. ASSUME NEW a \in Object PROVE PageIsNow(a)'
      BY <1>1, <1>4, <1>5, <1>6 DEF PageIsNow, Events
    <2>4. ASSUME NEW a \in Object PROVE LastSeen(a)' => RefRight(a)'
      BY <1>1, <2>1 DEF Settled, LastSeen, RefRight, Events
    <2> QED
      BY <2>2, <2>3, <2>4 DEF Settled
  <1> QED
    BY <1>8, <1>9 DEF RefsInv

\* References and cursor move together.
LEMMA PullCommitKeeps ==
    ASSUME RefsInv, PullCommit
    PROVE  RefsInv'
  <1> DEFINE page == pulled.page
  <1>1. /\ RefsTInv /\ pulled # NoRef /\ pulled' = NoRef /\ UNCHANGED <<source, announced, events, handling, settled>>
        /\ DOMAIN page \subseteq Object /\ page \in [DOMAIN page -> SourceState] /\ pulled.upTo \in cursor..Len(announced)
        /\ cursor \in 0..Len(announced) /\ Len(announced) \in Nat
    BY DEF RefsInv, RefsTInv, PullCommit, PageFits
  <1>2. CASE UNCHANGED <<refs, cursor>>
    <2>1. RefsTInv'
      BY <1>1, <1>2 DEF RefsTInv, PageFits, HandlerRow, HandlerFits
    <2>2. settled => Settled'
      BY <1>1, <1>2 DEF RefsInv, Settled, Alone, FetchedNow, Unheard, PageIsNow, LastSeen, RefRight, Events
    <2> QED
      BY <1>1, <2>1, <2>2 DEF RefsInv
  <1>3. CASE /\ refs' = [o \in Object |-> IF o \in DOMAIN page THEN page[o] ELSE refs[o]] /\ cursor' = pulled.upTo
    <2>1. refs' \in [Object -> SourceState \cup {NoRef}]
      BY <1>1, <1>3 DEF RefsTInv
    <2>2. cursor' \in 0..Len(announced)
      BY <1>1, <1>3
    <2>3. RefsTInv'
      BY <1>1, <2>1, <2>2 DEF RefsTInv, PageFits, HandlerRow, HandlerFits
    <2>4. ASSUME settled PROVE Settled'
      <3>1. Settled /\ \A h \in Handler : handling[h] = Rest
        BY <1>1, <2>4 DEF RefsInv, Settled, Alone, RefsTInv, HandlerFits
      <3>2. Alone' /\ (\A h \in Handler : FetchedNow(h)') /\ \A a \in Object : PageIsNow(a)'
        BY <1>1, <3>1, RestTyped DEF Alone, FetchedNow, PageIsNow
      <3>3. ASSUME NEW a \in Object, LastSeen(a)' PROVE RefRight(a)'
        <4>1. PICK e \in Events : /\ announced[e] = a /\ \A f \in Events : announced[f] = a => f <= e
                                  /\ e <= pulled.upTo \/ events[e] = "processed"
          BY <1>1, <1>3, <3>3 DEF LastSeen, Events
        <4>2. PageIsNow(a) /\ (LastSeen(a) => RefRight(a)) /\ e \in Nat
          BY <1>1, <3>1, EventsTyped DEF Settled
        <4>3. CASE a \notin DOMAIN page
          <5>1. ~(e > cursor) \/ e > pulled.upTo
            BY <1>1, <4>1, <4>2, <4>3 DEF PageIsNow
          <5>2. e <= cursor \/ events[e] = "processed"
            BY <1>1, <4>1, <4>2, <5>1
          <5>3. LastSeen(a)
            BY <4>1, <5>2 DEF LastSeen
          <5> QED
            BY <1>1, <1>3, <4>2, <4>3, <5>3 DEF RefRight
        <4>4. CASE a \in DOMAIN page /\ page[a] = source[a]
          <5>1. refs'[a] = source[a] /\ source[a] \in SourceState
            BY <1>1, <1>3, <4>4 DEF RefsTInv
          <5> QED
            BY <1>1, <5>1, RefConstants DEF RefRight
        <4>5. CASE a \in DOMAIN page /\ Unheard(a, pulled.upTo)
          <5>1. PICK f \in Events : /\ announced[f] = a /\ f > pulled.upTo /\ events[f] = "none"
                                    /\ \A g \in Events : announced[g] = a => g <= f
            BY <4>5 DEF Unheard
          <5>2. f \in Nat /\ f = e
            BY <1>1, <4>1, <4>2, <5>1, EventsTyped
          <5> QED
            BY <1>1, <4>1, <4>2, <5>1, <5>2
        <4> QED
          BY <1>1, <4>2, <4>3, <4>4, <4>5 DEF PageIsNow
      <3> QED
        BY <3>2, <3>3 DEF Settled
    <2> QED
      BY <1>1, <2>3, <2>4 DEF RefsInv
  <1> QED
    BY <1>2, <1>3 DEF PullCommit

\* Every step keeps the invariant of the references.
LEMMA RefsNextInv == RefsInv /\ [RefsNext]_refVars => RefsInv'
  <1> SUFFICES ASSUME RefsInv, [RefsNext]_refVars PROVE RefsInv'
    OBVIOUS
  <1>1. RefsTInv /\ settled \in BOOLEAN
    BY DEF RefsInv, RefsTInv
  <1>2. ASSUME NEW h \in Handler, NEW o \in Object, NEW operation \in {"register", "refresh"}, Request(h, o, operation)
        PROVE  RefsInv'
    <2> DEFINE u == [Rest EXCEPT !.pc = operation, !.object = o]
    <2>1. HandlerRow(u) /\ u.pc = operation /\ u.event = 0 /\ u.object = o /\ u.fetched = NoRef
      BY DEF HandlerRow, Rest
    <2>2. /\ handling' = [handling EXCEPT ![h] = u] /\ UNCHANGED <<source, announced, refs, events, pulled, cursor>>
          /\ settled' = (settled /\ Quiet)
      BY <1>2 DEF Request
    <2> HIDE DEF u
    <2>3. HandlerFits(u, announced, events)
      BY <2>1 DEF HandlerFits
    <2>4. settled' \in BOOLEAN /\ (settled' => settled /\ Quiet)
      BY <1>1, <2>2
    <2> QED
      BY <2>1, <2>2, <2>3, <2>4, HandlerBegins
  <1>3. ASSUME NEW h \in Handler, NEW e \in Events, ReceiveEvent(h, e) PROVE RefsInv'
    <2> DEFINE latest == Latest
               u == [Rest EXCEPT !.pc = "record", !.event = e, !.latest = latest, !.object = announced[e]]
    <2>1. e \in Nat \ {0} /\ announced[e] \in Object
      BY <1>1, EventsTyped
    <2>2. /\ handling' = [handling EXCEPT ![h] = u] /\ UNCHANGED <<source, announced, refs, events, pulled, cursor>>
          /\ settled' = (settled /\ Quiet /\ \A f \in 1..(e - 1) : events[f] # "none")
      BY <1>3 DEF ReceiveEvent
    <2> HIDE DEF latest
    <2>3. HandlerRow(u) /\ u.pc = "record" /\ u.event = e /\ u.object = announced[e] /\ u.fetched = NoRef
      BY <2>1 DEF HandlerRow, Rest
    <2> HIDE DEF u
    <2>4. HandlerFits(u, announced, events)
      BY <2>1, <2>3 DEF HandlerFits, Events
    <2>5. settled' \in BOOLEAN /\ (settled' => settled /\ Quiet)
      BY <1>1, <2>2
    <2> QED
      BY <2>2, <2>3, <2>4, <2>5, HandlerBegins
  <1>4. CASE UNCHANGED refVars
    BY <1>4 DEF refVars, RefsInv, RefsTInv, PageFits, HandlerRow, HandlerFits, Settled, Alone, FetchedNow, Unheard, PageIsNow,
                LastSeen, RefRight, Events
  <1> QED
    BY <1>2, <1>3, <1>4, SourceChangesKeeps, RevokeKeeps, RecordKeeps, FetchKeeps, RefreshKeeps, RegisterKeeps, HandlerFailsKeeps,
       PullFetchKeeps, PullCommitKeeps
       DEF RefsNext

\* Every field of the source, the references, the events and the handlers holds a
\* value of its set, and an event that is processed is on record.
THEOREM RefsTypeCorrect == RefsSpec => []RefsTInv
  <1>1. RefsInv => RefsTInv
    BY DEF RefsInv
  <1> QED
    BY <1>1, RefsInitInv, RefsNextInv, PTL DEF RefsSpec

\* While events come in order and nothing overlaps, fails or is revoked, a
\* reference whose last change was processed or pulled has the status and the
\* hash of its source, or is inactive; for any number of objects, handlers and
\* changes.
THEOREM ReferencesFollow == RefsSpec => []FollowsSource
  <1>1. RefsInv => FollowsSource
    BY DEF RefsInv, Settled, FollowsSource, LastSeen, RefRight
  <1> QED
    BY <1>1, RefsInitInv, RefsNextInv, PTL DEF RefsSpec

\* What one step may never do to a reference.
Pinned ==
    \A o \in Object : refs[o] # NoRef =>
        /\ refs'[o] # NoRef /\ refs'[o].hash = refs[o].hash
        /\ refs[o].status = "inactive" /\ refs'[o].status # "inactive" => pulled # pulled'

\* A refresh changes the status alone, a registration no row that is there, and a
\* pull none with another hash.
LEMMA StepPins == RefsTInv /\ [RefsNext]_refVars => Pinned
  <1> SUFFICES ASSUME RefsTInv, [RefsNext]_refVars, NEW o \in Object, refs[o] # NoRef
               PROVE  /\ refs'[o] # NoRef /\ refs'[o].hash = refs[o].hash
                      /\ refs[o].status = "inactive" /\ refs'[o].status # "inactive" => pulled # pulled'
    BY DEF Pinned
  <1>1. refs \in [Object -> SourceState \cup {NoRef}] /\ refs[o] \in SourceState
    BY DEF RefsTInv
  <1>2. ASSUME refs'[o] = refs[o]
        PROVE  /\ refs'[o] # NoRef /\ refs'[o].hash = refs[o].hash
               /\ refs[o].status = "inactive" /\ refs'[o].status # "inactive" => pulled # pulled'
    BY <1>2
  <1>3. ASSUME NEW a \in Object, NEW status \in Lifecycle, refs[a] # NoRef, refs[a].status = "inactive" => status = "inactive",
               refs' = [refs EXCEPT ![a] = [refs[a] EXCEPT !.status = status]]
        PROVE  /\ refs'[o] # NoRef /\ refs'[o].hash = refs[o].hash
               /\ refs[o].status = "inactive" /\ refs'[o].status # "inactive" => pulled # pulled'
    <2>1. CASE a # o
      BY <1>1, <1>2, <1>3, <2>1
    <2>2. CASE a = o
      <3>1. refs'[o] = [refs[o] EXCEPT !.status = status]
        BY <1>1, <1>3, <2>2
      <3>2. refs'[o] \in SourceState /\ refs'[o].hash = refs[o].hash /\ refs'[o].status = status
        BY <1>1, <1>3, <3>1 DEF SourceState
      <3> QED
        BY <1>3, <2>2, <3>2, RefConstants
    <2> QED
      BY <2>1, <2>2
  <1>4. ASSUME NEW a \in Object, Revoke(a) PROVE refs' = [refs EXCEPT ![a] = [refs[a] EXCEPT !.status = "inactive"]] /\ refs[a] # NoRef
    BY <1>1, <1>4 DEF Revoke
  <1>5. ASSUME NEW h \in Handler, CommitRefresh(h), refs' # refs
        PROVE  \E a \in Object, status \in Lifecycle :
                  /\ refs[a] # NoRef /\ (refs[a].status = "inactive" => status = "inactive")
                  /\ refs' = [refs EXCEPT ![a] = [refs[a] EXCEPT !.status = status]]
    <2> DEFINE a == handling[h].object
               status == IF refs[a].status = "inactive" THEN refs[a].status ELSE handling[h].fetched.status
    <2>1. a \in Object /\ handling[h].fetched \in SourceState
      BY <1>5 DEF RefsTInv, HandlerFits, HandlerRow, CommitRefresh
    <2>2. refs[a] # NoRef /\ refs' = [refs EXCEPT ![a] = [refs[a] EXCEPT !.status = status]]
      BY <1>1, <1>5, <2>1 DEF CommitRefresh
    <2>3. status \in Lifecycle /\ (refs[a].status = "inactive" => status = "inactive")
      BY <1>1, <2>1, <2>2 DEF SourceState
    <2> HIDE DEF a, status
    <2> QED
      BY <2>1, <2>2, <2>3
  <1>6. ASSUME NEW h \in Handler, CommitRegister(h) PROVE refs'[o] = refs[o]
    <2>1. handling[h].object \in Object
      BY <1>6 DEF RefsTInv, HandlerFits, CommitRegister
    <2> QED
      BY <1>1, <1>6, <2>1 DEF CommitRegister
  <1>7. ASSUME PullCommit, refs'[o] # refs[o] PROVE refs'[o] # NoRef /\ refs'[o].hash = refs[o].hash /\ pulled # pulled'
    <2>1. /\ o \in DOMAIN pulled.page /\ ~Conflicts(pulled.page) /\ refs'[o] = pulled.page[o] /\ pulled # NoRef /\ pulled' = NoRef
      BY <1>1, <1>7 DEF PullCommit
    <2>2. pulled.page[o] \in SourceState
      BY <2>1 DEF RefsTInv, PageFits
    <2> QED
      BY <2>1, <2>2, RefConstants DEF Conflicts
  <1>8. CASE \E a \in Object : Revoke(a)
    BY <1>1, <1>3, <1>4, <1>8 DEF Lifecycle
  <1>9. CASE \E h \in Handler : CommitRefresh(h)
    BY <1>2, <1>3, <1>5, <1>9
  <1>10. CASE (\E h \in Handler : CommitRegister(h)) \/ PullCommit
    BY <1>2, <1>6, <1>7, <1>10
  <1>11. CASE UNCHANGED refs
    BY <1>2, <1>11
  <1> QED
    BY <1>8, <1>9, <1>10, <1>11
       DEF RefsNext, SourceChanges, Request, ReceiveEvent, RecordEvent, Fetch, HandlerFails, PullFetch, refVars

\* An exact reference pins one content: its hash is never overwritten, and only a
\* pull takes an inactive reference back.
THEOREM PinsKept == RefsSpec => PinsNeverDrift
  <1>1. RefsInv /\ [RefsNext]_refVars => [Pinned]_refVars
    BY StepPins DEF RefsInv
  <1> QED
    BY <1>1, RefsInitInv, RefsNextInv, PTL DEF RefsSpec, PinsNeverDrift, Pinned

--------------------------------------------------------------------------------
(****************************************************************************)
(* Compilations.                                                            *)
(****************************************************************************)
\* What a transaction relies on about the record of its input.
CompilationFits(x) ==
    /\ x \in [input : CompileInput \cup {NoInput}, seen : SUBSET CompileInput,
              pc : {"off", "compile", "replay", "fail", "write"}]
    /\ x.pc = "off" <=> x.input = NoInput
    /\ x.pc # "off" =>
          /\ x.pc \in {"fail", "compile"} => compileRecords[x.input] = "none"
          /\ x.pc = "replay" => compileRecords[x.input] = "success"
          /\ x.pc \in {"replay", "write"} => ~x.input.dry
          /\ x.pc \in {"compile", "write"} => x.input.snapshot \in passed

CompilerTInv ==
    /\ passed \subseteq Snapshot /\ registered \in BOOLEAN
    /\ compileRecords \in [CompileInput -> {"none", "success", "failed"}]
    /\ compiling = [t \in Compiler |-> compiling[t]]
    /\ \A t \in Compiler : CompilationFits(compiling[t])

\* No two transactions have the same input.
OwnInputs ==
    \A t, u \in Compiler : t # u /\ compiling[t].pc # "off" => compiling[t].input # compiling[u].input

\* The compiled version, if one exists, is one of those that were persisted.
VersionsFit ==
    /\ persisted = {i \in CompileInput : compileRecords[i] = "success" /\ ~i.dry}
    /\ \A i \in CompileInput : compileRecords[i] = "success" => i.snapshot \in passed
    /\ IF persisted = {} THEN current = {} ELSE \E c \in persisted : current = {c}

CompilerInv == CompilerTInv /\ OwnInputs /\ VersionsFit

\* A transaction that has nothing to do.
LEMMA OffFits == CompilationFits(NotCompiling) /\ NotCompiling.pc = "off"
  BY DEF CompilationFits, NotCompiling

\* At the beginning there are no records and no versions.
LEMMA CompilerInitInv == CompilerInit => CompilerInv
  <1> SUFFICES ASSUME CompilerInit PROVE CompilerInv
    OBVIOUS
  <1>1. compiling = [t \in Compiler |-> compiling[t]] /\ \A t \in Compiler : compiling[t] = NotCompiling
    BY DEF CompilerInit
  <1>2. CompilerTInv
    BY <1>1, OffFits DEF CompilerInit, CompilerTInv
  <1>3. OwnInputs
    BY <1>1, OffFits DEF OwnInputs
  <1>4. VersionsFit
    BY DEF CompilerInit, VersionsFit
  <1> QED
    BY <1>2, <1>3, <1>4 DEF CompilerInv

\* More is valid or registered.
LEMMA SourcesKeep ==
    ASSUME CompilerInv, passed \subseteq passed', passed' \subseteq Snapshot, registered' \in BOOLEAN,
           UNCHANGED <<compileRecords, current, persisted, compiling>>
    PROVE  CompilerInv'
  BY DEF CompilerInv, CompilerTInv, CompilationFits, OwnInputs, VersionsFit

\* One transaction goes on, and touches no record but that of its input.
LEMMA TransactionKeeps ==
    ASSUME CompilerTInv, OwnInputs, NEW t \in Compiler, NEW x,
           CompilationFits(x)', x.pc # "off" => \A u \in Compiler : u # t => x.input # compiling[u].input,
           compiling' = [compiling EXCEPT ![t] = x], UNCHANGED <<passed, registered>>,
           compileRecords' \in [CompileInput -> {"none", "success", "failed"}],
           \A i \in CompileInput : i # compiling[t].input => compileRecords'[i] = compileRecords[i]
    PROVE  CompilerTInv' /\ OwnInputs'
  <1>1. compiling'[t] = x /\ \A u \in Compiler : u # t => compiling'[u] = compiling[u]
    BY DEF CompilerTInv
  <1>2. compiling' = [u \in Compiler |-> compiling'[u]]
    BY DEF CompilerTInv
  <1>3. ASSUME NEW u \in Compiler, u # t PROVE CompilationFits(compiling[u])'
    <2>1. CompilationFits(compiling[u]) /\ CompilationFits(compiling[t])
      BY DEF CompilerTInv
    <2>2. compiling[u].pc # "off" => compiling[u].input \in CompileInput /\ compiling[u].input # compiling[t].input
      BY <1>3, <2>1 DEF OwnInputs, CompilationFits
    <2>3. compiling'[u] = compiling[u] /\ (compiling[u].pc # "off" => compileRecords'[compiling[u].input] = compileRecords[compiling[u].input])
      BY <1>1, <1>3, <2>2
    <2> QED
      BY <2>1, <2>3 DEF CompilationFits
  <1>4. CompilationFits(compiling[t])'
    BY <1>1 DEF CompilationFits
  <1>5. CompilerTInv'
    BY <1>2, <1>3, <1>4 DEF CompilerTInv
  <1>6. ASSUME NEW u \in Compiler, NEW v \in Compiler, u # v, compiling'[u].pc # "off" PROVE compiling'[u].input # compiling'[v].input
    <2>1. CASE u = t
      BY <1>1, <1>6, <2>1
    <2>2. CASE v = t
      <3>1. CompilationFits(compiling[u])
        BY DEF CompilerTInv
      <3>2. compiling[u].pc # "off" /\ compiling[u].input # NoInput
        BY <1>1, <1>6, <2>2, <3>1 DEF CompilationFits
      <3>3. CASE x.pc = "off"
        <4>1. x.input = NoInput
          BY <3>3 DEF CompilationFits
        <4> QED
          BY <1>1, <1>6, <2>2, <3>2, <4>1
      <3>4. CASE x.pc # "off"
        BY <1>1, <1>6, <2>2, <3>4
      <3> QED
        BY <3>3, <3>4
    <2>3. CASE u # t /\ v # t
      BY <1>1, <1>6, <2>3 DEF OwnInputs
    <2> QED
      BY <2>1, <2>2, <2>3
  <1> QED
    BY <1>5, <1>6 DEF OwnInputs

\* The index finds one compiled version only if it is the one just written.
LEMMA IndexFindsOne ==
    ASSUME VersionsFit, NEW i, NEW seen, OneCompiled((current \ seen) \cup {i})
    PROVE  (current \ seen) \cup {i} = {i}
  <1> DEFINE left == (current \ seen) \cup {i}
  <1> SUFFICES ASSUME NEW c \in left, c # i PROVE FALSE
    OBVIOUS
  <1>1. left = {i} \cup {c}
    BY DEF VersionsFit
  <1>2. IsFiniteSet({i}) /\ Cardinality({i}) = 1
    BY FS_Singleton
  <1>3. Cardinality({i} \cup {c}) = 2
    <2> DEFINE one == {i}
    <2>1. IsFiniteSet(one) /\ Cardinality(one) = 1 /\ c \notin one
      BY <1>2
    <2> HIDE DEF one
    <2>2. Cardinality(one \cup {c}) = 1 + 1
      BY <2>1, FS_AddElement
    <2> QED
      BY <2>2 DEF one
  <1> QED
    BY <1>1, <1>3 DEF OneCompiled

\* A transaction whose record, version and place are left as they were.
LEMMA StartKeeps ==
    ASSUME CompilerInv, NEW t \in Compiler, NEW x, CompilationFits(x),
           x.pc # "off" => \A u \in Compiler : u # t => x.input # compiling[u].input,
           compiling' = [compiling EXCEPT ![t] = x], UNCHANGED <<passed, registered, compileRecords, current, persisted>>
    PROVE  CompilerInv'
  <1>1. CompilationFits(x)'
    BY DEF CompilationFits
  <1>2. compileRecords' \in [CompileInput -> {"none", "success", "failed"}]
    BY DEF CompilerInv, CompilerTInv
  <1>3. CompilerTInv' /\ OwnInputs'
    BY <1>1, <1>2, TransactionKeeps DEF CompilerInv
  <1> QED
    BY <1>3 DEF CompilerInv, VersionsFit

\* A transaction ends with its record.
LEMMA EndKeeps ==
    ASSUME CompilerInv, NEW t \in Compiler, NEW to \in {"success", "failed"},
           compiling[t].pc # "off",
           compileRecords' = [compileRecords EXCEPT ![compiling[t].input] = to],
           Off(t), UNCHANGED <<passed, registered>>
    PROVE  /\ CompilerTInv' /\ OwnInputs' /\ compiling[t].input \in CompileInput
           /\ compileRecords'[compiling[t].input] = to
           /\ \A i \in CompileInput : i # compiling[t].input => compileRecords'[i] = compileRecords[i]
  <1>1. CompilerTInv /\ OwnInputs /\ CompilationFits(compiling[t])
    BY DEF CompilerInv, CompilerTInv
  <1>2. compiling[t].input \in CompileInput
    BY <1>1 DEF CompilationFits
  <1>3. /\ compileRecords' \in [CompileInput -> {"none", "success", "failed"}]
        /\ compileRecords'[compiling[t].input] = to
        /\ \A i \in CompileInput : i # compiling[t].input => compileRecords'[i] = compileRecords[i]
    BY <1>1, <1>2 DEF CompilerTInv
  <1>4. CompilationFits(NotCompiling)'
    BY DEF CompilationFits, NotCompiling
  <1> DEFINE x == NotCompiling
  <1>5. CompilationFits(x)' /\ x.pc = "off" /\ compiling' = [compiling EXCEPT ![t] = x]
    BY <1>4, OffFits DEF Off
  <1> HIDE DEF x
  <1>6. CompilerTInv' /\ OwnInputs'
    BY <1>1, <1>3, <1>5, TransactionKeeps
  <1> QED
    BY <1>2, <1>3, <1>6

\* The first step of a transaction.
LEMMA InsertKeeps ==
    ASSUME CompilerInv, NEW t \in Compiler, NEW i \in CompileInput, InsertRecord(t, i)
    PROVE  CompilerInv'
  <1>1. CASE compileRecords[i] = "success" /\ i.dry
    BY <1>1, SourcesKeep DEF InsertRecord, CompilerInv, CompilerTInv
  <1>2. CASE ~(compileRecords[i] = "success" /\ i.dry)
    <2> DEFINE next == IF compileRecords[i] = "success" THEN "replay"
                       ELSE IF i.snapshot \in passed /\ registered THEN "compile" ELSE "fail"
               x == [input |-> i, seen |-> {}, pc |-> next]
    <2>1. /\ compiling' = [compiling EXCEPT ![t] = x] /\ \A u \in Compiler : compiling[u].input # i
          /\ compileRecords[i] # "failed" /\ UNCHANGED <<passed, registered, compileRecords, current, persisted>>
      BY <1>2 DEF InsertRecord
    <2>2. compileRecords[i] \in {"none", "success"} /\ i # NoInput
      BY <2>1, CompilerConstants DEF CompilerInv, CompilerTInv
    <2>3. /\ next \in {"compile", "replay", "fail"}
          /\ next = "replay" <=> compileRecords[i] = "success"
          /\ next = "compile" => i.snapshot \in passed
      OBVIOUS
    <2> HIDE DEF next
    <2>4. x \in [input : CompileInput \cup {NoInput}, seen : SUBSET CompileInput, pc : {"off", "compile", "replay", "fail", "write"}]
          /\ x.input = i /\ x.pc = next
      BY <2>3
    <2> HIDE DEF x
    <2>5. i.dry \in BOOLEAN
      BY DEF CompileInput
    <2>6. CompilationFits(x)
      BY <1>2, <2>2, <2>3, <2>4, <2>5 DEF CompilationFits
    <2> QED
      BY <2>1, <2>4, <2>6, StartKeeps
  <1> QED
    BY <1>1, <1>2

\* The version is written when the index admits it.
LEMMA PersistKeeps ==
    ASSUME CompilerInv, NEW t \in Compiler, PersistBlueprint(t)
    PROVE  CompilerInv'
  <1> DEFINE i == compiling[t].input
             left == (current \ compiling[t].seen) \cup {i}
  <1>1. compiling[t].pc = "write" /\ Off(t) /\ UNCHANGED <<passed, registered>>
    BY DEF PersistBlueprint
  <1>2. CompilationFits(compiling[t]) /\ i \in CompileInput /\ ~i.dry /\ i.snapshot \in passed
    BY <1>1 DEF CompilerInv, CompilerTInv, CompilationFits
  <1>3. CASE OneCompiled(left)
    <2>1. /\ current' = left /\ persisted' = persisted \cup {i}
          /\ compileRecords' = [compileRecords EXCEPT ![i] = "success"]
      BY <1>3 DEF PersistBlueprint
    <2>2. current' = {i}
      BY <1>3, <2>1, IndexFindsOne DEF CompilerInv
    <2>3. /\ CompilerTInv' /\ OwnInputs' /\ compileRecords'[i] = "success"
          /\ \A k \in CompileInput : k # i => compileRecords'[k] = compileRecords[k]
      BY <1>1, <2>1, EndKeeps
    <2> HIDE DEF i
    <2>4. persisted' = {k \in CompileInput : compileRecords'[k] = "success" /\ ~k.dry}
      BY <1>2, <2>1, <2>3 DEF CompilerInv, VersionsFit
    <2>5. \A k \in CompileInput : compileRecords'[k] = "success" => k.snapshot \in passed'
      BY <1>1, <1>2, <2>3 DEF CompilerInv, VersionsFit
    <2>6. i \in persisted'
      BY <2>1
    <2> QED
      BY <2>2, <2>3, <2>4, <2>5, <2>6 DEF CompilerInv, VersionsFit
  <1>4. CASE ~OneCompiled(left)
    <2>1. UNCHANGED <<current, persisted, compileRecords>>
      BY <1>4 DEF PersistBlueprint
    <2> QED
      BY <1>1, <2>1, OffFits, StartKeeps DEF Off
  <1> QED
    BY <1>3, <1>4

\* A failure or a dry run leaves the versions alone.
LEMMA OutcomeKeeps ==
    ASSUME CompilerInv, NEW t \in Compiler, CommitFailure(t) \/ CommitDryRun(t)
    PROVE  CompilerInv'
  <1> DEFINE i == compiling[t].input
  <1>1. PICK to \in {"success", "failed"} :
            /\ compileRecords' = [compileRecords EXCEPT ![i] = to]
            /\ Off(t) /\ UNCHANGED <<passed, registered, current, persisted>>
            /\ compiling[t].pc \in {"fail", "compile"}
            /\ to = "success" => i.dry /\ compiling[t].pc = "compile"
    BY DEF CommitFailure, CommitDryRun
  <1>2. CompilationFits(compiling[t]) /\ compileRecords[i] = "none" /\ (to = "success" => i.snapshot \in passed)
    BY <1>1 DEF CompilerInv, CompilerTInv, CompilationFits
  <1>3. /\ CompilerTInv' /\ OwnInputs' /\ compileRecords'[i] = to /\ i \in CompileInput
        /\ \A k \in CompileInput : k # i => compileRecords'[k] = compileRecords[k]
    BY <1>1, EndKeeps
  <1> HIDE DEF i
  <1>4. \A k \in CompileInput : compileRecords'[k] = "success" /\ ~k.dry <=> compileRecords[k] = "success" /\ ~k.dry
    BY <1>1, <1>2, <1>3
  <1>5. persisted' = {k \in CompileInput : compileRecords'[k] = "success" /\ ~k.dry}
    BY <1>1, <1>4 DEF CompilerInv, VersionsFit
  <1>6. \A k \in CompileInput : compileRecords'[k] = "success" => k.snapshot \in passed'
    BY <1>1, <1>2, <1>3 DEF CompilerInv, VersionsFit
  <1> QED
    BY <1>1, <1>3, <1>5, <1>6 DEF CompilerInv, VersionsFit

\* Every step keeps the invariant of the compilations.
LEMMA CompilerNextInv == CompilerInv /\ [CompilerNext]_compilerVars => CompilerInv'
  <1> SUFFICES ASSUME CompilerInv, [CompilerNext]_compilerVars PROVE CompilerInv'
    OBVIOUS
  <1>1. passed \subseteq Snapshot /\ registered \in BOOLEAN
    BY DEF CompilerInv, CompilerTInv
  <1>2. CASE SeedStepTypes \/ UNCHANGED compilerVars
    BY <1>1, <1>2, SourcesKeep DEF SeedStepTypes, compilerVars
  <1>3. ASSUME NEW s \in Snapshot, ValidationPasses(s) PROVE CompilerInv'
    BY <1>1, <1>3, SourcesKeep DEF ValidationPasses
  <1>4. ASSUME NEW t \in Compiler, CompilerAborts(t) PROVE CompilerInv'
    BY <1>4, OffFits, StartKeeps DEF CompilerAborts, Off
  <1>5. ASSUME NEW t \in Compiler, SupersedeCurrent(t) PROVE CompilerInv'
    <2> DEFINE old == compiling[t]
               x == [old EXCEPT !.pc = "write", !.seen = current \ {old.input}]
    <2>1. /\ old.pc \in {"compile", "replay"} /\ ~old.input.dry
          /\ compiling' = [compiling EXCEPT ![t] = x] /\ UNCHANGED <<passed, registered, compileRecords, current, persisted>>
      BY <1>5 DEF SupersedeCurrent
    <2>2. CompilationFits(old) /\ old.input \in CompileInput /\ current \subseteq CompileInput
      BY <2>1 DEF CompilerInv, CompilerTInv, VersionsFit, CompilationFits
    <2>3. old.input.snapshot \in passed
      BY <2>1, <2>2 DEF CompilerInv, VersionsFit, CompilationFits
    <2>4. \A u \in Compiler : u # t => old.input # compiling[u].input
      BY <2>1 DEF CompilerInv, OwnInputs
    <2> HIDE DEF old
    <2>5. x \in [input : CompileInput \cup {NoInput}, seen : SUBSET CompileInput, pc : {"off", "compile", "replay", "fail", "write"}]
          /\ x.input = old.input /\ x.pc = "write"
      BY <2>2 DEF CompilationFits
    <2> HIDE DEF x
    <2>6. CompilationFits(x)
      BY <2>1, <2>2, <2>3, <2>5, CompilerConstants DEF CompilationFits
    <2> QED
      BY <2>1, <2>4, <2>5, <2>6, StartKeeps
  <1> QED
    BY <1>2, <1>3, <1>4, <1>5, InsertKeeps, PersistKeeps, OutcomeKeeps DEF CompilerNext

\* Every field of the compilations holds a value of its set.
THEOREM CompilerTypeCorrect == CompilerSpec => []CompilerTypeOK
  <1>1. CompilerInv => CompilerTypeOK
    <2> SUFFICES ASSUME CompilerInv PROVE CompilerTypeOK
      OBVIOUS
    <2>1. compiling \in [Compiler -> [input : CompileInput \cup {NoInput}, seen : SUBSET CompileInput,
                                      pc : {"off", "compile", "replay", "fail", "write"}]]
      BY DEF CompilerInv, CompilerTInv, CompilationFits
    <2> QED
      BY <2>1 DEF CompilerTypeOK, CompilerInv, CompilerTInv, VersionsFit
  <1> QED
    BY <1>1, CompilerInitInv, CompilerNextInv, PTL DEF CompilerSpec

\* The records and the blueprint tell one story, however compilations, replays
\* and aborts of any number of transactions are interleaved.
THEOREM CompiledCorrect == CompilerSpec => []CompiledAsRecorded
  <1>1. CompilerInv => CompiledAsRecorded
    BY FS_Singleton DEF CompilerInv, VersionsFit, CompiledAsRecorded
  <1> QED
    BY <1>1, CompilerInitInv, CompilerNextInv, PTL DEF CompilerSpec

--------------------------------------------------------------------------------
(****************************************************************************)
(* Diagnoses.                                                               *)
(****************************************************************************)
\* What a worker has acquired for a context that is there, and what it has
\* evaluated of it.
Diagnoses(x) ==
    /\ x \in [pc : {"rest", "acquired", "evaluated"}, id : Prepared \cup {NoContext}, records : {x.records}, result : {x.result}]
    /\ x.pc # "rest" => x.id \in Prepared
    /\ x.pc = "evaluated" => x.result = EvaluateGraph(snapshot, x.records)

ReasoningTInv ==
    /\ compiled \in BOOLEAN
    /\ targets \in [Related -> SUBSET Entity]
    /\ contexts \in [Prepared -> ContextRow \cup {NoContext}]
    /\ DOMAIN traces \subseteq Prepared
    /\ diagnosing = [w \in Worker |-> diagnosing[w]]
    /\ \A w \in Worker : Diagnoses(diagnosing[w])

\* A context has bound each requirement to one target, and its trace is there
\* when it is consumed and stores what was evaluated.
ContextBound(i) == contexts[i] # NoContext => \A n \in Related : Cardinality(contexts[i].bound[n]) = 1
TraceTells(i) ==
    /\ i \in DOMAIN traces <=> contexts[i] # NoContext /\ contexts[i].status = "consumed"
    /\ i \in DOMAIN traces =>
          /\ traces[i].bound = contexts[i].bound
          /\ Result(traces[i].status, traces[i].ranking) = EvaluateGraph(snapshot, traces[i].records)

ReasoningInv ==
    /\ ReasoningTInv
    /\ \A w \in Worker : diagnosing[w].pc # "rest" => contexts[diagnosing[w].id] # NoContext
    /\ \A i \in Prepared : ContextBound(i) /\ TraceTells(i)

\* An evaluation results in a status and a ranking.
LEMMA Evaluated ==
    ASSUME NEW graph, NEW records
    PROVE  Result(EvaluateGraph(graph, records).status, EvaluateGraph(graph, records).ranking) = EvaluateGraph(graph, records)
  BY DEF EvaluateGraph, Result

\* A worker at rest.
LEMMA RestingTyped == Diagnoses(Resting) /\ Resting.pc = "rest"
  BY DEF Diagnoses, Resting

\* At the beginning there is no context.
LEMMA ReasoningInitInv == ReasoningInit => ReasoningInv
  <1> SUFFICES ASSUME ReasoningInit PROVE ReasoningInv
    OBVIOUS
  <1>1. targets \in [Related -> SUBSET Entity]
    BY DEF ReasoningInit
  <1>2. diagnosing = [w \in Worker |-> diagnosing[w]] /\ \A w \in Worker : diagnosing[w] = Resting
    BY DEF ReasoningInit
  <1> QED
    BY <1>1, <1>2, RestingTyped DEF ReasoningInit, ReasoningInv, ReasoningTInv, ContextBound, TraceTells

\* The surroundings of the contexts change.
LEMMA SurroundingsKeep ==
    ASSUME ReasoningInv, compiled' \in BOOLEAN, targets' \in [Related -> SUBSET Entity],
           UNCHANGED <<snapshot, contexts, traces, diagnosing>>
    PROVE  ReasoningInv'
  BY DEF ReasoningInv, ReasoningTInv, Diagnoses, ContextBound, TraceTells

\* A context is prepared, or a prepared one that is not traced changes its
\* status or gets late.
LEMMA ContextKeeps ==
    ASSUME ReasoningInv, NEW i \in Prepared, NEW u \in ContextRow, \A n \in Related : Cardinality(u.bound[n]) = 1,
           u.status = "consumed" <=> contexts[i] # NoContext /\ contexts[i].status = "consumed",
           contexts[i] # NoContext => u.bound = contexts[i].bound,
           contexts' = [contexts EXCEPT ![i] = u], UNCHANGED <<snapshot, compiled, targets, traces, diagnosing>>
    PROVE  ReasoningInv'
  <1>1. /\ ReasoningTInv /\ contexts'[i] = u /\ u # NoContext /\ \A k \in Prepared : k # i => contexts'[k] = contexts[k]
    BY NoContextConstant DEF ReasoningInv, ReasoningTInv
  <1>2. ReasoningTInv'
    BY <1>1 DEF ReasoningTInv, Diagnoses
  <1>3. \A w \in Worker : diagnosing'[w].pc # "rest" => contexts'[diagnosing'[w].id] # NoContext
    BY <1>1 DEF ReasoningInv, ReasoningTInv, Diagnoses
  <1>4. ASSUME NEW k \in Prepared PROVE ContextBound(k)' /\ TraceTells(k)'
    <2>1. CASE k = i
      BY <1>1, <2>1 DEF ReasoningInv, ContextBound, TraceTells
    <2>2. CASE k # i
      BY <1>1, <2>2 DEF ReasoningInv, ContextBound, TraceTells
    <2> QED
      BY <2>1, <2>2
  <1> QED
    BY <1>2, <1>3, <1>4 DEF ReasoningInv

\* A worker goes on about a context that is there.
LEMMA WorkerKeeps ==
    ASSUME ReasoningInv, NEW w \in Worker, NEW u, Diagnoses(u), u.pc # "rest" => contexts[u.id] # NoContext,
           diagnosing' = [diagnosing EXCEPT ![w] = u], UNCHANGED <<snapshot, compiled, targets, contexts, traces>>
    PROVE  ReasoningInv'
  <1>1. diagnosing'[w] = u /\ \A v \in Worker : v # w => diagnosing'[v] = diagnosing[v]
    BY DEF ReasoningInv, ReasoningTInv
  <1>2. diagnosing' = [v \in Worker |-> diagnosing'[v]]
    BY DEF ReasoningInv, ReasoningTInv
  <1>3. \A v \in Worker : Diagnoses(diagnosing[v])
    BY DEF ReasoningInv, ReasoningTInv
  <1>4. \A v \in Worker : Diagnoses(diagnosing'[v])
    BY <1>1, <1>3
  <1>5. \A v \in Worker : Diagnoses(diagnosing[v])'
    BY <1>4 DEF Diagnoses
  <1>6. ReasoningTInv'
    BY <1>2, <1>5 DEF ReasoningInv, ReasoningTInv
  <1> QED
    BY <1>1, <1>6 DEF ReasoningInv, ContextBound, TraceTells

\* A result is archived in the context it was evaluated for, which is consumed.
LEMMA ArchiveKeeps ==
    ASSUME ReasoningInv, NEW w \in Worker, Archive(w)
    PROVE  ReasoningInv'
  <1> DEFINE x == diagnosing[w]
             i == x.id
             u == [contexts[i] EXCEPT !.status = "consumed"]
  <1>1. x.pc = "evaluated" /\ UNCHANGED <<snapshot, compiled, targets>>
        /\ (diagnosing' = diagnosing \/ diagnosing' = [diagnosing EXCEPT ![w] = Resting])
    BY DEF Archive
  <1>2. ReasoningTInv /\ i \in Prepared /\ contexts[i] # NoContext /\ contexts[i] \in ContextRow
        /\ x.result = EvaluateGraph(snapshot, x.records)
    BY <1>1 DEF ReasoningInv, ReasoningTInv, Diagnoses
  <1>3. ASSUME contexts' = contexts, traces' = traces PROVE ReasoningInv'
    <2>1. CASE diagnosing' = diagnosing
      <3>1. compiled \in BOOLEAN /\ targets \in [Related -> SUBSET Entity]
        BY <1>2 DEF ReasoningTInv
      <3> QED
        BY <1>1, <1>3, <2>1, <3>1, SurroundingsKeep
    <2>2. CASE diagnosing' = [diagnosing EXCEPT ![w] = Resting]
      BY <1>1, <1>3, <2>2, RestingTyped, WorkerKeeps
    <2> QED
      BY <1>1, <2>1, <2>2
  <1>4. ASSUME contexts[i].status = "prepared", contexts' = [contexts EXCEPT ![i] = u],
               traces' = [k \in DOMAIN traces \cup {i} |-> IF k = i THEN TraceOf(w) ELSE traces[k]]
        PROVE  ReasoningInv'
    <2> DEFINE t == TraceOf(w)
    <2>1. u \in ContextRow /\ u.status = "consumed" /\ u.bound = contexts[i].bound
      BY <1>2 DEF ContextRow
    <2>2. t.bound = contexts[i].bound /\ Result(t.status, t.ranking) = EvaluateGraph(snapshot, t.records)
      BY <1>2, Evaluated DEF TraceOf
    <2>3. /\ DOMAIN traces' = DOMAIN traces \cup {i} /\ traces'[i] = t
          /\ \A k \in DOMAIN traces : k # i => traces'[k] = traces[k]
      BY <1>4
    <2> HIDE DEF t, u
    <2>4. contexts'[i] = u /\ u # NoContext /\ \A k \in Prepared : k # i => contexts'[k] = contexts[k]
      BY <1>2, <1>4, <2>1, NoContextConstant DEF ReasoningTInv
    <2>5. /\ diagnosing' = [v \in Worker |-> diagnosing'[v]]
          /\ \A v \in Worker : diagnosing'[v] = diagnosing[v] \/ diagnosing'[v] = Resting
      BY <1>1, <1>2 DEF ReasoningTInv
    <2>6. \A v \in Worker : Diagnoses(diagnosing'[v])
      BY <1>2, <2>5, RestingTyped DEF ReasoningTInv
    <2>7. \A v \in Worker : Diagnoses(diagnosing[v])'
      BY <1>1, <2>6 DEF Diagnoses
    <2>8. contexts' \in [Prepared -> ContextRow \cup {NoContext}] /\ DOMAIN traces' \subseteq Prepared
      BY <1>2, <1>4, <2>1, <2>3 DEF ReasoningTInv
    <2>9. ReasoningTInv'
      BY <1>1, <1>2, <2>5, <2>7, <2>8 DEF ReasoningTInv
    <2>10. ASSUME NEW v \in Worker, diagnosing'[v].pc # "rest" PROVE contexts'[diagnosing'[v].id] # NoContext
      <3>1. diagnosing'[v] = diagnosing[v]
        BY <2>5, <2>10, RestingTyped
      <3>2. diagnosing[v].id \in Prepared /\ contexts[diagnosing[v].id] # NoContext
        BY <1>2, <2>10, <3>1 DEF ReasoningInv, ReasoningTInv, Diagnoses
      <3> QED
        BY <2>4, <3>1, <3>2
    <2>11. ASSUME NEW k \in Prepared PROVE ContextBound(k)' /\ TraceTells(k)'
      <3>1. CASE k = i
        BY <1>1, <1>2, <2>1, <2>2, <2>3, <2>4, <3>1 DEF ReasoningInv, ContextBound, TraceTells
      <3>2. CASE k # i
        BY <1>1, <2>3, <2>4, <3>2 DEF ReasoningInv, ContextBound, TraceTells
      <3> QED
        BY <3>1, <3>2
    <2> QED
      BY <2>9, <2>10, <2>11 DEF ReasoningInv
  <1> QED
    BY <1>3, <1>4 DEF Archive

\* A step of the diagnoses, with any evidence.
ReasoningStep ==
    \/ \E i \in Prepared : Prepare(i) \/ ExpiryPasses(i) \/ GetContext(i) \/ CancelContext(i)
    \/ \E w \in Worker :
          \/ \E i \in Prepared : \E records : Acquire(w, i, records)
          \/ Evaluate(w) \/ Archive(w) \/ WorkerLost(w)
    \/ UNCHANGED <<snapshot, contexts, traces, diagnosing>> /\ compiled' \in BOOLEAN /\ targets' \in [Related -> SUBSET Entity]

\* Every such step keeps the invariant of the diagnoses.
LEMMA ReasoningStepKeeps == ReasoningInv /\ ReasoningStep => ReasoningInv'
  <1> SUFFICES ASSUME ReasoningInv, ReasoningStep PROVE ReasoningInv'
    OBVIOUS
  <1>1. ReasoningTInv /\ compiled \in BOOLEAN /\ targets \in [Related -> SUBSET Entity]
    BY DEF ReasoningInv, ReasoningTInv
  <1>2. ASSUME NEW i \in Prepared, Prepare(i) PROVE ReasoningInv'
    <2> DEFINE u == [status |-> "prepared", bound |-> targets, late |-> FALSE]
    <2>1. /\ contexts[i] = NoContext /\ \A n \in Related : Cardinality(targets[n]) = 1
          /\ contexts' = [contexts EXCEPT ![i] = u] /\ UNCHANGED <<snapshot, compiled, targets, traces, diagnosing>>
      BY <1>2 DEF Prepare
    <2>2. u \in ContextRow /\ u.bound = targets /\ u.status = "prepared"
      BY <1>1 DEF ContextRow
    <2> HIDE DEF u
    <2> QED
      BY <2>1, <2>2, ContextKeeps
  <1>3. ASSUME NEW i \in Prepared, NEW u, contexts[i] # NoContext, contexts' = [contexts EXCEPT ![i] = u], u \in ContextRow,
               u.bound = contexts[i].bound, u.status = "consumed" <=> contexts[i].status = "consumed",
               UNCHANGED <<snapshot, compiled, targets, traces, diagnosing>>
        PROVE  ReasoningInv'
    <2>1. \A n \in Related : Cardinality(u.bound[n]) = 1
      BY <1>3 DEF ReasoningInv, ContextBound
    <2> QED
      BY <1>3, <2>1, ContextKeeps
  <1>4. ASSUME NEW i \in Prepared, ExpiryPasses(i) PROVE ReasoningInv'
    <2> DEFINE u == [contexts[i] EXCEPT !.late = TRUE]
    <2>1. /\ contexts[i] # NoContext /\ contexts' = [contexts EXCEPT ![i] = u]
          /\ UNCHANGED <<snapshot, compiled, targets, traces, diagnosing>>
      BY <1>4 DEF ExpiryPasses
    <2>2. contexts[i] \in ContextRow
      BY <1>1, <2>1 DEF ReasoningTInv
    <2>3. u \in ContextRow /\ u.bound = contexts[i].bound /\ u.status = contexts[i].status
      BY <2>2 DEF ContextRow
    <2> HIDE DEF u
    <2> QED
      BY <1>3, <2>1, <2>3
  <1>5. ASSUME NEW i \in Prepared, NEW to \in {"expired", "cancelled"}, contexts[i] # NoContext, contexts[i].status = "prepared",
               contexts' = [contexts EXCEPT ![i].status = to], UNCHANGED <<snapshot, compiled, targets, traces, diagnosing>>
        PROVE  ReasoningInv'
    <2> DEFINE u == [contexts[i] EXCEPT !.status = to]
    <2>1. contexts[i] \in ContextRow /\ contexts' = [contexts EXCEPT ![i] = u]
      BY <1>1, <1>5 DEF ReasoningTInv
    <2>2. u \in ContextRow /\ u.bound = contexts[i].bound /\ u.status = to
      BY <2>1 DEF ContextRow
    <2> HIDE DEF u
    <2> QED
      BY <1>3, <1>5, <2>1, <2>2
  <1>6. ASSUME NEW i \in Prepared, GetContext(i) \/ CancelContext(i) PROVE ReasoningInv'
    BY <1>5, <1>6 DEF GetContext, CancelContext
  <1>7. ASSUME NEW w \in Worker, NEW i \in Prepared, NEW records, Acquire(w, i, records) PROVE ReasoningInv'
    <2> DEFINE u == [pc |-> "acquired", id |-> i, records |-> records, result |-> NoContext]
    <2>1. /\ contexts[i] # NoContext /\ diagnosing' = [diagnosing EXCEPT ![w] = u]
          /\ UNCHANGED <<snapshot, compiled, targets, contexts, traces>>
      BY <1>7 DEF Acquire
    <2>2. Diagnoses(u) /\ u.id = i
      BY DEF Diagnoses
    <2> HIDE DEF u
    <2> QED
      BY <2>1, <2>2, WorkerKeeps
  <1>8. ASSUME NEW w \in Worker, Evaluate(w) PROVE ReasoningInv'
    <2> DEFINE x == diagnosing[w]
               result == EvaluateGraph(snapshot, x.records)
               u == [x EXCEPT !.pc = "evaluated", !.result = result]
    <2>1. /\ x.pc = "acquired" /\ UNCHANGED <<snapshot, compiled, targets, contexts, traces>>
          /\ diagnosing' = [diagnosing EXCEPT ![w] = u] \/ diagnosing' = [diagnosing EXCEPT ![w] = Resting]
      BY <1>8 DEF Evaluate
    <2>2. Diagnoses(x) /\ contexts[x.id] # NoContext
      BY <1>1, <2>1 DEF ReasoningInv, ReasoningTInv
    <2> HIDE DEF x, result
    <2>3. /\ u.pc = "evaluated" /\ u.id = x.id /\ u.records = x.records /\ u.result = result
          /\ u \in [pc : {"rest", "acquired", "evaluated"}, id : Prepared \cup {NoContext}, records : {x.records}, result : {result}]
      BY <2>2 DEF Diagnoses
    <2> HIDE DEF u
    <2>4. Diagnoses(u)
      BY <2>1, <2>2, <2>3 DEF Diagnoses, result
    <2> QED
      BY <2>1, <2>2, <2>3, <2>4, RestingTyped, WorkerKeeps
  <1>9. ASSUME NEW w \in Worker, WorkerLost(w) PROVE ReasoningInv'
    BY <1>9, RestingTyped, WorkerKeeps DEF WorkerLost
  <1> QED
    BY <1>2, <1>4, <1>6, <1>7, <1>8, <1>9, ArchiveKeeps, SurroundingsKeep DEF ReasoningStep

\* The surroundings change in one of these steps.
LEMMA ReasoningSteps == ReasoningTInv /\ [ReasoningNext]_reasoningVars => ReasoningStep
  <1> SUFFICES ASSUME ReasoningTInv, [ReasoningNext]_reasoningVars PROVE ReasoningStep
    OBVIOUS
  <1>1. compiled \in BOOLEAN /\ targets \in [Related -> SUBSET Entity]
    BY DEF ReasoningTInv
  <1>2. ASSUME NEW n \in Related, NEW found \in SUBSET Entity, FactsChange(n, found) PROVE ReasoningStep
    <2>1. targets' \in [Related -> SUBSET Entity]
      BY <1>1, <1>2 DEF FactsChange
    <2> QED
      BY <1>1, <1>2, <2>1 DEF FactsChange, ReasoningStep
  <1>3. CASE BlueprintSuperseded \/ UNCHANGED reasoningVars
    BY <1>1, <1>3 DEF BlueprintSuperseded, reasoningVars, ReasoningStep
  <1>4. CASE DiagnosisStep(Observed)
    BY <1>4 DEF DiagnosisStep, ReasoningStep
  <1>5. ASSUME NEW i \in Prepared, ExpiryPasses(i) \/ GetContext(i) \/ CancelContext(i) PROVE ReasoningStep
    BY <1>5 DEF ReasoningStep
  <1>6. ASSUME NEW w \in Worker, Archive(w) \/ WorkerLost(w) PROVE ReasoningStep
    BY <1>6 DEF ReasoningStep
  <1> QED
    BY <1>2, <1>3, <1>4, <1>5, <1>6 DEF ReasoningNext

\* Every step keeps the invariant of the diagnoses.
LEMMA ReasoningNextInv == ReasoningInv /\ [ReasoningNext]_reasoningVars => ReasoningInv'
  BY ReasoningSteps, ReasoningStepKeeps DEF ReasoningInv

\* Every field of the contexts, traces and workers holds a value of its set, and
\* what a worker has evaluated is what the graph gives for its records.
THEOREM ReasoningTypeCorrect == ReasoningSpec => []ReasoningTInv
  <1>1. ReasoningInv => ReasoningTInv
    BY DEF ReasoningInv
  <1> QED
    BY <1>1, ReasoningInitInv, ReasoningNextInv, PTL DEF ReasoningSpec

\* A trace is the one outcome of its context, bound to the targets the context was
\* prepared with, and is what its graph gives for the records it stores; for any
\* number of contexts, workers and graphs, and any evidence.
THEOREM TracesExplain == ReasoningSpec => []TraceExplainsItself
  <1>1. ReasoningInv => TraceExplainsItself
    BY DEF ReasoningInv, ContextBound, TraceTells, TraceExplainsItself
  <1> QED
    BY <1>1, ReasoningInitInv, ReasoningNextInv, PTL DEF ReasoningSpec

\* What one step may never do to a context or a trace.
ContextPinned ==
    \A i \in Prepared :
        /\ contexts[i] # NoContext =>
              /\ contexts'[i] # NoContext /\ contexts'[i].bound = contexts[i].bound
              /\ contexts[i].status # "prepared" => contexts'[i].status = contexts[i].status
        /\ i \in DOMAIN traces => i \in DOMAIN traces' /\ traces'[i] = traces[i]

\* A context that is there changes its status once, or gets late.
LEMMA StepPinsContexts == ReasoningInv /\ ReasoningStep => ContextPinned
  <1> SUFFICES ASSUME ReasoningInv, ReasoningStep PROVE ContextPinned
    OBVIOUS
  <1>1. contexts \in [Prepared -> ContextRow \cup {NoContext}]
    BY DEF ReasoningInv, ReasoningTInv
  <1>2. CASE UNCHANGED <<contexts, traces>>
    BY <1>2 DEF ContextPinned
  <1>3. ASSUME NEW i \in Prepared, NEW u \in ContextRow, UNCHANGED traces, contexts' = [contexts EXCEPT ![i] = u],
               contexts[i] # NoContext => u.bound = contexts[i].bound /\ (contexts[i].status # "prepared" => u.status = contexts[i].status)
        PROVE  ContextPinned
    BY <1>1, <1>3, NoContextConstant DEF ContextPinned
  <1>4. ASSUME NEW i \in Prepared, Prepare(i) PROVE ContextPinned
    BY <1>1, <1>4 DEF Prepare, ContextPinned
  <1>5. ASSUME NEW i \in Prepared, ExpiryPasses(i) \/ GetContext(i) \/ CancelContext(i) PROVE ContextPinned
    <2>1. contexts[i] \in ContextRow
      BY <1>1, <1>5 DEF ExpiryPasses, GetContext, CancelContext
    <2>2. CASE ExpiryPasses(i)
      <3> DEFINE u == [contexts[i] EXCEPT !.late = TRUE]
      <3>1. contexts' = [contexts EXCEPT ![i] = u] /\ UNCHANGED traces
        BY <2>2 DEF ExpiryPasses
      <3>2. u \in ContextRow /\ u.bound = contexts[i].bound /\ u.status = contexts[i].status
        BY <2>1 DEF ContextRow
      <3> HIDE DEF u
      <3> QED
        BY <1>3, <3>1, <3>2
    <2>3. ASSUME NEW to \in {"expired", "cancelled"}, contexts' = [contexts EXCEPT ![i].status = to], UNCHANGED traces,
                 contexts[i].status = "prepared"
          PROVE  ContextPinned
      <3> DEFINE u == [contexts[i] EXCEPT !.status = to]
      <3>1. u \in ContextRow /\ u.bound = contexts[i].bound
        BY <2>1 DEF ContextRow
      <3>2. contexts' = [contexts EXCEPT ![i] = u]
        BY <2>3
      <3> HIDE DEF u
      <3> QED
        BY <1>3, <2>3, <3>1, <3>2
    <2> QED
      BY <1>5, <2>2, <2>3 DEF GetContext, CancelContext
  <1>6. ASSUME NEW w \in Worker, Archive(w), ~ UNCHANGED <<contexts, traces>> PROVE ContextPinned
    <2> DEFINE i == diagnosing[w].id
               u == [contexts[i] EXCEPT !.status = "consumed"]
    <2>1. /\ diagnosing[w].pc = "evaluated" /\ i \notin DOMAIN traces /\ contexts[i].status = "prepared"
          /\ contexts' = [contexts EXCEPT ![i] = u]
          /\ \A k \in DOMAIN traces : k # i => k \in DOMAIN traces' /\ traces'[k] = traces[k]
      BY <1>6 DEF Archive
    <2>2. i \in Prepared /\ contexts[i] # NoContext /\ contexts[i] \in ContextRow
      BY <1>1, <2>1 DEF ReasoningInv, ReasoningTInv, Diagnoses
    <2>3. u \in ContextRow /\ u.bound = contexts[i].bound
      BY <2>2 DEF ContextRow
    <2> HIDE DEF u
    <2>4. contexts'[i] = u /\ u # NoContext /\ \A k \in Prepared : k # i => contexts'[k] = contexts[k]
      BY <1>1, <2>1, <2>2, <2>3, NoContextConstant
    <2> HIDE DEF i
    <2> QED
      BY <2>1, <2>3, <2>4 DEF ContextPinned
  <1> QED
    BY <1>2, <1>4, <1>5, <1>6 DEF ReasoningStep, Acquire, Evaluate, WorkerLost

\* No step leaves a context that was consumed, cancelled or expired, and none
\* changes what a context has pinned or a trace has stored.
THEOREM ContextsPinned == ReasoningSpec => ContextsArePinned
  <1> DEFINE Kept == \A i \in Prepared :
                        /\ contexts[i] # NoContext =>
                              /\ contexts'[i].bound = contexts[i].bound
                              /\ contexts[i].status # "prepared" => contexts'[i].status = contexts[i].status
                        /\ i \in DOMAIN traces => i \in DOMAIN traces' /\ traces'[i] = traces[i]
  <1>1. ReasoningInv /\ [ReasoningNext]_reasoningVars => [Kept]_reasoningVars
    BY ReasoningSteps, StepPinsContexts DEF ReasoningInv, ContextPinned
  <1> QED
    BY <1>1, ReasoningInitInv, ReasoningNextInv, PTL DEF ReasoningSpec, ContextsArePinned

--------------------------------------------------------------------------------
(****************************************************************************)
(* Plans.                                                                   *)
(****************************************************************************)
\* What the acquisitions of any plan may end with.
AllOutcomes ==
    {Outcome(i, TasksOf(i, bound)[k]) : i \in Prepared, bound \in [Related -> SUBSET Entity], k \in DOMAIN Order} \cup {"failed"}

\* The records of the first tasks of a plan on a context.
RecordsShow(i, bound, records, done) ==
    \A k \in done : records[k] \in {Outcome(i, TasksOf(i, bound)[k]), "failed"}

\* The records a diagnosis has of all the nodes.
Shows(i, bound, records) ==
    /\ Bindable(i)
    /\ \A k \in DOMAIN Order : records[Order[k]] \in {Outcome(i, TasksOf(i, bound)[k]), "failed"}

\* Where a worker is on the way into a diagnosis, with these contexts.
PlanFits(x, rows) ==
    /\ x \in [pc : {"off", "found", "checked", "entered", "prepared", "planned"}, pin : {x.pin}, tasks : {x.tasks}, records : {x.records}]
    /\ x.pc \in {"entered", "prepared", "planned"} => x.pin \in Prepared
    /\ x.pc \in {"prepared", "planned"} => rows[x.pin] # NoContext
    /\ x.pc # "planned" => x.records = <<>>
    /\ x.pc = "planned" =>
          /\ Bindable(x.pin) /\ x.tasks = TasksOf(x.pin, rows[x.pin].bound)
          /\ x.records \in Seq(AllOutcomes) /\ Len(x.records) < Len(Order)
          /\ RecordsShow(x.pin, rows[x.pin].bound, x.records, 1..Len(x.records))

PlansFit ==
    /\ published \in Prepared
    /\ planning = [w \in Worker |-> planning[w]]
    /\ \A w \in Worker : PlanFits(planning[w], contexts)

DiagnosesShow ==
    /\ \A w \in Worker : diagnosing[w].pc # "rest" =>
          Shows(diagnosing[w].id, contexts[diagnosing[w].id].bound, diagnosing[w].records)
    /\ \A i \in DOMAIN traces : Shows(i, traces[i].bound, traces[i].records)

PlanningInv == ReasoningInv /\ PlansFit /\ DiagnosesShow

\* There is a task, the goal's.
LEMMA SomeTask == Order \in Seq(Required) /\ Len(Order) \in Nat \ {0} /\ DOMAIN Order = 1..Len(Order)
  <1>1. Order \in Seq(Required) /\ \E k \in DOMAIN Order : Order[k] = Goal
    BY PlanningConstants DEF Required
  <1> QED
    BY <1>1

\* A plan has a task for every entry of the order.
LEMMA TasksOrdered == ASSUME NEW i, NEW bound PROVE Len(TasksOf(i, bound)) = Len(Order) /\ DOMAIN TasksOf(i, bound) = DOMAIN Order
  <1>1. DOMAIN TasksOf(i, bound) = 1..Len(Order) /\ Len(Order) \in Nat
    BY SomeTask DEF TasksOf
  <1> QED
    BY <1>1, SomeTask

\* A worker that plans nothing.
LEMMA NotPlanningFits == PlanFits(NotPlanning, contexts) /\ NotPlanning.pc = "off" /\ NotPlanning.records = <<>>
  BY DEF PlanFits, NotPlanning

\* At the beginning nothing is planned and nothing is diagnosed.
LEMMA PlanningInitInv == PlanningInit /\ ReasoningInit => PlanningInv
  <1> SUFFICES ASSUME PlanningInit, ReasoningInit PROVE PlanningInv
    OBVIOUS
  <1>1. planning = [w \in Worker |-> planning[w]] /\ \A w \in Worker : planning[w] = NotPlanning
    BY DEF PlanningInit
  <1>2. PlansFit
    BY <1>1, NotPlanningFits DEF PlanningInit, PlansFit
  <1>3. DOMAIN traces = {} /\ \A w \in Worker : diagnosing[w] = Resting
    BY DEF ReasoningInit
  <1>4. DiagnosesShow
    BY <1>3, RestingTyped DEF DiagnosesShow
  <1> QED
    BY <1>2, <1>4, ReasoningInitInv DEF PlanningInv

\* What was pinned stays, and so does what was planned on it.
LEMMA FitsOn ==
    ASSUME ContextPinned, NEW x, PlanFits(x, contexts)
    PROVE  PlanFits(x, contexts')
  BY DEF PlanFits, ContextPinned

\* A worker goes on with its plan.
LEMMA ProceedFits ==
    ASSUME PlanningInv, ContextPinned, NEW w \in Worker, NEW x, Proceed(w, x), PlanFits(x, contexts')
    PROVE  PlansFit'
  <1>1. /\ planning' = [planning EXCEPT ![w] = x] /\ published' = published /\ published \in Prepared
        /\ planning = [v \in Worker |-> planning[v]] /\ \A v \in Worker : PlanFits(planning[v], contexts)
    BY DEF PlanningInv, PlansFit, Proceed
  <1>2. \A v \in Worker : PlanFits(planning[v], contexts')
    BY <1>1, FitsOn
  <1>3. planning' = [v \in Worker |-> planning'[v]] /\ \A v \in Worker : PlanFits(planning'[v], contexts')
    BY <1>1, <1>2
  <1> QED
    BY <1>1, <1>3 DEF PlansFit

\* The plans stay as they are.
LEMMA PlansStay ==
    ASSUME PlanningInv, ContextPinned, planning' = planning, published' \in Prepared
    PROVE  PlansFit'
  BY FitsOn DEF PlanningInv, PlansFit

\* Diagnoses go on with the records they have, or end.
LEMMA DiagnosesStay ==
    ASSUME PlanningInv, ContextPinned,
           \A w \in Worker : diagnosing'[w].pc = "rest" \/
               (diagnosing[w].pc # "rest" /\ diagnosing'[w].id = diagnosing[w].id /\ diagnosing'[w].records = diagnosing[w].records),
           \A i \in DOMAIN traces' \ DOMAIN traces : \E w \in Worker : diagnosing[w].pc # "rest" /\ diagnosing[w].id = i /\
               contexts[i] # NoContext /\ traces'[i].bound = contexts[i].bound /\ traces'[i].records = diagnosing[w].records
    PROVE  DiagnosesShow'
  <1>1. ASSUME NEW w \in Worker, diagnosing'[w].pc # "rest"
        PROVE  Shows(diagnosing'[w].id, contexts'[diagnosing'[w].id].bound, diagnosing'[w].records)
    <2>1. diagnosing[w].pc # "rest" /\ diagnosing'[w].id = diagnosing[w].id /\ diagnosing'[w].records = diagnosing[w].records
      BY <1>1
    <2>2. diagnosing[w].id \in Prepared /\ contexts[diagnosing[w].id] # NoContext
      BY <2>1 DEF PlanningInv, ReasoningInv, ReasoningTInv, Diagnoses
    <2>3. contexts'[diagnosing[w].id].bound = contexts[diagnosing[w].id].bound
      BY <2>2 DEF ContextPinned
    <2>4. Shows(diagnosing[w].id, contexts[diagnosing[w].id].bound, diagnosing[w].records)
      BY <2>1 DEF PlanningInv, DiagnosesShow
    <2> QED
      BY <2>1, <2>3, <2>4
  <1>2. ASSUME NEW i \in DOMAIN traces' PROVE Shows(i, traces'[i].bound, traces'[i].records)
    <2>1. CASE i \in DOMAIN traces
      <3>1. i \in Prepared
        BY <2>1 DEF PlanningInv, ReasoningInv, ReasoningTInv
      <3>2. traces'[i] = traces[i]
        BY <2>1, <3>1 DEF ContextPinned
      <3> QED
        BY <2>1, <3>2 DEF PlanningInv, DiagnosesShow
    <2>2. CASE i \notin DOMAIN traces
      <3>1. PICK w \in Worker : diagnosing[w].pc # "rest" /\ diagnosing[w].id = i /\
               contexts[i] # NoContext /\ traces'[i].bound = contexts[i].bound /\ traces'[i].records = diagnosing[w].records
        BY <1>2, <2>2
      <3>2. Shows(diagnosing[w].id, contexts[diagnosing[w].id].bound, diagnosing[w].records)
        BY <3>1 DEF PlanningInv, DiagnosesShow
      <3> QED
        BY <3>1, <3>2
    <2> QED
      BY <2>1, <2>2
  <1> QED
    BY <1>1, <1>2 DEF DiagnosesShow, Shows

\* Nothing is acquired or archived in such a step.
LEMMA NothingSaid ==
    ASSUME PlanningInv, ContextPinned, UNCHANGED <<traces, diagnosing>>
    PROVE  DiagnosesShow'
  BY DiagnosesStay

\* A step of the plan alone.
LEMMA PlanKeeps ==
    ASSUME PlanningInv, NEW w \in Worker, NEW x, Proceed(w, x), PlanFits(x, contexts), UNCHANGED reasoningVars
    PROVE  PlanningInv'
  <1>1. ReasoningInv' /\ ContextPinned
    <2>1. ReasoningStep
      BY DEF PlanningInv, ReasoningInv, ReasoningTInv, ReasoningStep, reasoningVars
    <2> QED
      BY <2>1, ReasoningStepKeeps, StepPinsContexts DEF PlanningInv
  <1>2. UNCHANGED <<traces, diagnosing>>
    BY DEF reasoningVars
  <1> QED
    BY <1>1, <1>2, FitsOn, ProceedFits, NothingSaid DEF PlanningInv

\* A worker of one of the early stages goes on to the next.
LEMMA EntryKeeps ==
    ASSUME PlanningInv, NEW w \in Worker, DiscoverBlueprint(w) \/ ValidateRoleAndTarget(w) \/ PinDataset(w) \/ PlannerLost(w)
    PROVE  PlanningInv'
  <1>1. PlanFits(planning[w], contexts) /\ published \in Prepared
    BY DEF PlanningInv, PlansFit
  <1>2. CASE DiscoverBlueprint(w)
    <2> DEFINE x == [NotPlanning EXCEPT !.pc = "found"]
    <2>1. Proceed(w, x) /\ UNCHANGED reasoningVars
      BY <1>2 DEF DiscoverBlueprint
    <2>2. PlanFits(x, contexts)
      BY DEF PlanFits, NotPlanning
    <2> HIDE DEF x
    <2> QED
      BY <2>1, <2>2, PlanKeeps
  <1>3. CASE ValidateRoleAndTarget(w)
    <2> DEFINE x == IF known THEN [planning[w] EXCEPT !.pc = "checked"] ELSE NotPlanning
    <2>1. Proceed(w, x) /\ UNCHANGED reasoningVars /\ planning[w].pc = "found"
      BY <1>3 DEF ValidateRoleAndTarget
    <2>2. PlanFits([planning[w] EXCEPT !.pc = "checked"], contexts)
      BY <1>1, <2>1 DEF PlanFits
    <2>3. PlanFits(x, contexts)
      BY <2>2, NotPlanningFits
    <2> HIDE DEF x
    <2> QED
      BY <2>1, <2>3, PlanKeeps
  <1>4. CASE PinDataset(w)
    <2> DEFINE x == [planning[w] EXCEPT !.pc = "entered", !.pin = published]
    <2>1. Proceed(w, x) /\ UNCHANGED reasoningVars /\ planning[w].pc = "checked"
      BY <1>4 DEF PinDataset
    <2>2. PlanFits(x, contexts)
      BY <1>1, <2>1 DEF PlanFits
    <2> HIDE DEF x
    <2> QED
      BY <2>1, <2>2, PlanKeeps
  <1>5. CASE PlannerLost(w)
    BY <1>5, NotPlanningFits, PlanKeeps DEF PlannerLost
  <1> QED
    BY <1>2, <1>3, <1>4, <1>5

\* The context is prepared, or found as it was.
LEMMA PrepareEnteredKeeps ==
    ASSUME PlanningInv, NEW w \in Worker, PrepareEntered(w)
    PROVE  PlanningInv'
  <1> DEFINE i == planning[w].pin
             x == [planning[w] EXCEPT !.pc = "prepared"]
  <1>1. PlanFits(planning[w], contexts) /\ planning[w].pc = "entered" /\ i \in Prepared
    BY DEF PlanningInv, PlansFit, PlanFits, PrepareEntered
  <1>2. ASSUME NEW rows, rows[i] # NoContext PROVE PlanFits(x, rows)
    BY <1>1, <1>2 DEF PlanFits
  <1> HIDE DEF x
  <1>3. CASE Prepare(i) /\ Proceed(w, x)
    <2>1. ReasoningStep
      BY <1>1, <1>3 DEF ReasoningStep
    <2>2. ReasoningInv' /\ ContextPinned
      BY <2>1, ReasoningStepKeeps, StepPinsContexts DEF PlanningInv
    <2>3. contexts'[i] # NoContext
      <3> DEFINE u == [status |-> "prepared", bound |-> targets, late |-> FALSE]
      <3>1. u \in ContextRow /\ contexts' = [contexts EXCEPT ![i] = u] /\ DOMAIN contexts = Prepared
        BY <1>3 DEF ContextRow, Prepare, PlanningInv, ReasoningInv, ReasoningTInv
      <3> HIDE DEF u
      <3> QED
        BY <1>1, <3>1, NoContextConstant
    <2>4. PlanFits(x, contexts') /\ UNCHANGED <<traces, diagnosing>>
      BY <1>2, <1>3, <2>3 DEF Prepare
    <2> QED
      BY <1>3, <2>2, <2>4, ProceedFits, NothingSaid DEF PlanningInv
  <1>4. CASE contexts[i] # NoContext /\ UNCHANGED reasoningVars /\ Proceed(w, x)
    BY <1>2, <1>4, PlanKeeps
  <1>5. CASE UNCHANGED reasoningVars /\ Proceed(w, NotPlanning)
    BY <1>5, NotPlanningFits, PlanKeeps
  <1> QED
    BY <1>3, <1>4, <1>5 DEF PrepareEntered, x

\* The plan is made from what the context has bound.
LEMMA ProjectKeeps ==
    ASSUME PlanningInv, NEW w \in Worker, Project(w)
    PROVE  PlanningInv'
  <1> DEFINE i == planning[w].pin
             x == [planning[w] EXCEPT !.pc = "planned", !.tasks = TasksOf(i, contexts[i].bound)]
  <1>1. PlanFits(planning[w], contexts) /\ planning[w].pc = "prepared" /\ UNCHANGED reasoningVars
    BY DEF PlanningInv, PlansFit, Project
  <1>2. CASE Proceed(w, NotPlanning)
    BY <1>1, <1>2, NotPlanningFits, PlanKeeps
  <1>3. CASE Bindable(i) /\ Proceed(w, x)
    <2>1. /\ x.pc = "planned" /\ x.pin = i /\ x.tasks = TasksOf(i, contexts[i].bound) /\ x.records = <<>>
          /\ x \in [pc : {"off", "found", "checked", "entered", "prepared", "planned"}, pin : {x.pin}, tasks : {x.tasks}, records : {x.records}]
          /\ i \in Prepared /\ contexts[i] # NoContext
      BY <1>1 DEF PlanFits
    <2> HIDE DEF x, i
    <2>2. <<>> \in Seq(AllOutcomes) /\ Len(<<>>) = 0
      OBVIOUS
    <2>3. PlanFits(x, contexts)
      BY <1>3, <2>1, <2>2, SomeTask DEF PlanFits, RecordsShow
    <2> QED
      BY <1>1, <1>3, <2>3, PlanKeeps
  <1> QED
    BY <1>2, <1>3 DEF Project

\* With the last record a worker has what the evaluation needs.
LEMMA AcquireShows ==
    ASSUME PlanningInv, ContextPinned, NEW w \in Worker, NEW i \in Prepared, NEW records,
           Acquire(w, i, records), Shows(i, contexts[i].bound, records)
    PROVE  DiagnosesShow'
  <1> DEFINE u == [pc |-> "acquired", id |-> i, records |-> records, result |-> NoContext]
  <1>1. /\ u.pc = "acquired" /\ u.id = i /\ u.records = records /\ contexts[i] # NoContext
        /\ diagnosing' = [diagnosing EXCEPT ![w] = u] /\ UNCHANGED <<contexts, traces>>
    BY DEF Acquire
  <1> HIDE DEF u
  <1>2. diagnosing'[w] = u /\ \A v \in Worker : v # w => diagnosing'[v] = diagnosing[v]
    BY <1>1 DEF PlanningInv, ReasoningInv, ReasoningTInv
  <1>3. ASSUME NEW v \in Worker, diagnosing'[v].pc # "rest"
        PROVE  Shows(diagnosing'[v].id, contexts[diagnosing'[v].id].bound, diagnosing'[v].records)
    <2>1. CASE v = w
      BY <1>1, <1>2, <2>1
    <2>2. CASE v # w
      BY <1>2, <1>3, <2>2 DEF PlanningInv, DiagnosesShow
    <2> QED
      BY <2>1, <2>2
  <1> QED
    BY <1>1, <1>3 DEF PlanningInv, DiagnosesShow, Shows

\* The outcome of a task is one of them.
LEMMA OutcomeKnown ==
    ASSUME NEW i \in Prepared, NEW bound \in [Related -> SUBSET Entity], NEW k \in DOMAIN Order
    PROVE  Outcome(i, TasksOf(i, bound)[k]) \in AllOutcomes
  BY DEF AllOutcomes

\* One more task has ended.
LEMMA AcquireNextKeeps ==
    ASSUME PlanningInv, NEW w \in Worker, AcquireNext(w)
    PROVE  PlanningInv'
  <1> DEFINE old == planning[w]
             i == old.pin
             bound == contexts[i].bound
             next == Len(old.records) + 1
  <1>1. PlanFits(old, contexts) /\ old.pc = "planned"
    BY DEF PlanningInv, PlansFit, AcquireNext
  <1>2. /\ i \in Prepared /\ contexts[i] # NoContext /\ Bindable(i) /\ old.tasks = TasksOf(i, bound)
        /\ old.records \in Seq(AllOutcomes) /\ Len(old.records) \in Nat /\ Len(old.records) < Len(Order)
        /\ RecordsShow(i, bound, old.records, 1..Len(old.records))
    BY <1>1 DEF PlanFits
  <1>3. next \in 1..Len(Order) /\ next \in DOMAIN Order /\ Len(old.tasks) = Len(Order)
    BY <1>2, SomeTask, TasksOrdered
  <1>4. bound \in [Related -> SUBSET Entity]
    BY <1>2 DEF PlanningInv, ReasoningInv, ReasoningTInv, ContextRow
  <1>5. PICK outcome \in {Outcome(i, old.tasks[next]), "failed"} :
             LET records == Append(old.records, outcome)
                 complete == Len(records) = Len(old.tasks)
             IN IF complete
                THEN /\ Acquire(w, i, [n \in Required |-> records[CHOOSE k \in DOMAIN Order : Order[k] = n]])
                     /\ Proceed(w, NotPlanning)
                ELSE /\ Proceed(w, [old EXCEPT !.records = records])
                     /\ UNCHANGED reasoningVars
    BY DEF AcquireNext
  <1> DEFINE records == Append(old.records, outcome)
             gathered == [n \in Required |-> records[CHOOSE k \in DOMAIN Order : Order[k] = n]]
             x == [old EXCEPT !.records = records]
  <1>6. outcome \in AllOutcomes
    <2>1. i \in Prepared /\ bound \in [Related -> SUBSET Entity] /\ next \in DOMAIN Order /\ old.tasks = TasksOf(i, bound)
      BY <1>2, <1>3, <1>4
    <2> HIDE DEF old, i, bound, next
    <2>2. Outcome(i, TasksOf(i, bound)[next]) \in AllOutcomes
      BY <2>1, OutcomeKnown
    <2>3. "failed" \in AllOutcomes
      BY DEF AllOutcomes
    <2> QED
      BY <1>5, <2>1, <2>2, <2>3
  <1>7. /\ records \in Seq(AllOutcomes) /\ Len(records) = next
        /\ \A k \in 1..Len(old.records) : records[k] = old.records[k]
        /\ records[next] = outcome
    BY <1>2, <1>6, AppendProperties
  <1>8. RecordsShow(i, bound, records, 1..next)
    <2> SUFFICES ASSUME NEW k \in 1..next PROVE records[k] \in {Outcome(i, TasksOf(i, bound)[k]), "failed"}
      BY DEF RecordsShow
    <2>1. CASE k = next
      BY <1>2, <1>5, <1>7, <2>1
    <2>2. CASE k \in 1..Len(old.records)
      BY <1>2, <1>7, <2>2 DEF RecordsShow
    <2>3. Len(old.records) \in Nat
      BY <1>2
    <2>4. k = next \/ k \in 1..Len(old.records)
      BY <2>3
    <2> QED
      BY <2>1, <2>2, <2>4
  <1>9. IF Len(records) = Len(old.tasks) THEN Acquire(w, i, gathered) /\ Proceed(w, NotPlanning)
        ELSE Proceed(w, x) /\ UNCHANGED reasoningVars
    BY <1>5
  <1>10. /\ x.pc = "planned" /\ x.pin = i /\ x.tasks = old.tasks /\ x.records = records
         /\ x \in [pc : {"off", "found", "checked", "entered", "prepared", "planned"}, pin : {x.pin}, tasks : {x.tasks}, records : {x.records}]
    BY <1>1 DEF PlanFits
  <1>11. ASSUME next = Len(Order) PROVE Shows(i, bound, gathered)
    <2> SUFFICES ASSUME NEW k \in DOMAIN Order PROVE gathered[Order[k]] \in {Outcome(i, TasksOf(i, bound)[k]), "failed"}
      BY <1>2 DEF Shows
    <2> HIDE DEF next
    <2>1. Order[k] \in Required /\ k \in 1..next
      BY <1>11, SomeTask
    <2>2. (CHOOSE j \in DOMAIN Order : Order[j] = Order[k]) = k
      BY PlanningConstants
    <2> HIDE DEF records
    <2>3. gathered[Order[k]] = records[k]
      BY <2>1, <2>2
    <2> QED
      BY <1>8, <2>1, <2>3 DEF RecordsShow
  <1> HIDE DEF records, gathered, x
  <1>12. CASE next = Len(Order)
    <2>1. Acquire(w, i, gathered) /\ Proceed(w, NotPlanning)
      BY <1>3, <1>7, <1>9, <1>12
    <2>2. ReasoningStep
      BY <1>2, <2>1 DEF ReasoningStep
    <2>3. ReasoningInv' /\ ContextPinned
      BY <2>2, ReasoningStepKeeps, StepPinsContexts DEF PlanningInv
    <2>4. DiagnosesShow'
      BY <1>2, <1>11, <1>12, <2>1, <2>3, AcquireShows
    <2>5. PlanFits(NotPlanning, contexts')
      BY <2>3, NotPlanningFits, FitsOn
    <2> QED
      BY <2>1, <2>3, <2>4, <2>5, ProceedFits DEF PlanningInv
  <1>13. CASE next # Len(Order)
    <2>1. Proceed(w, x) /\ UNCHANGED reasoningVars
      BY <1>3, <1>7, <1>9, <1>13
    <2> HIDE DEF next
    <2>2. next \in Nat /\ next < Len(Order) /\ Len(x.records) = next /\ x.records \in Seq(AllOutcomes)
      BY <1>3, <1>7, <1>10, <1>13, SomeTask
    <2> HIDE DEF old
    <2>3. PlanFits(x, contexts)
      BY <1>2, <1>7, <1>8, <1>10, <2>2 DEF PlanFits
    <2> QED
      BY <2>1, <2>3, PlanKeeps
  <1> QED
    BY <1>12, <1>13

\* The diagnoses go on by themselves, or their surroundings change.
LEMMA DiagnosesKeep ==
    ASSUME PlanningInv, planning' = planning, published' \in Prepared,
           \/ UNCHANGED <<snapshot, contexts, traces, diagnosing>> /\ compiled' \in BOOLEAN /\ targets' \in [Related -> SUBSET Entity]
           \/ \E i \in Prepared : ExpiryPasses(i) \/ GetContext(i) \/ CancelContext(i)
           \/ \E w \in Worker : Evaluate(w) \/ Archive(w) \/ WorkerLost(w)
    PROVE  PlanningInv'
  <1>1. ReasoningStep
    BY DEF ReasoningStep
  <1>2. ReasoningInv' /\ ContextPinned
    BY <1>1, ReasoningStepKeeps, StepPinsContexts DEF PlanningInv
  <1>3. PlansFit'
    BY <1>2, PlansStay
  <1>4. /\ diagnosing = [v \in Worker |-> diagnosing[v]] /\ Resting.pc = "rest"
        /\ \A v \in Worker : Diagnoses(diagnosing[v])
    BY RestingTyped DEF PlanningInv, ReasoningInv, ReasoningTInv
  <1>5. CASE UNCHANGED <<traces, diagnosing>>
    BY <1>2, <1>3, <1>5, NothingSaid DEF PlanningInv
  <1>6. ASSUME NEW w \in Worker, WorkerLost(w) PROVE PlanningInv'
    <2>1. /\ UNCHANGED traces
          /\ \A v \in Worker : diagnosing'[v].pc = "rest" \/ diagnosing'[v] = diagnosing[v]
      BY <1>4, <1>6 DEF WorkerLost
    <2> QED
      BY <1>2, <1>3, <2>1, DiagnosesStay DEF PlanningInv
  <1>7. ASSUME NEW w \in Worker, Evaluate(w) PROVE PlanningInv'
    <2> DEFINE x == diagnosing[w]
               result == EvaluateGraph(snapshot, x.records)
               u == [x EXCEPT !.pc = "evaluated", !.result = result]
    <2>1. /\ x.pc = "acquired" /\ UNCHANGED traces
          /\ diagnosing' = [diagnosing EXCEPT ![w] = u] \/ diagnosing' = [diagnosing EXCEPT ![w] = Resting]
      BY <1>7 DEF Evaluate
    <2> HIDE DEF result
    <2>2. u.id = x.id /\ u.records = x.records
      BY <1>4 DEF Diagnoses
    <2> HIDE DEF u
    <2>3. ASSUME NEW v \in Worker PROVE \/ diagnosing'[v].pc = "rest"
                                      \/ (diagnosing[v].pc # "rest" /\ diagnosing'[v].id = diagnosing[v].id /\ diagnosing'[v].records = diagnosing[v].records)
      <3>1. CASE v # w
        <4>1. diagnosing'[v] = diagnosing[v] /\ diagnosing[v].pc \in {"rest", "acquired", "evaluated"}
          BY <1>4, <2>1, <3>1 DEF Diagnoses
        <4> QED
          BY <4>1
      <3>2. CASE v = w
        <4>1. diagnosing'[w] = u \/ diagnosing'[w] = Resting
          BY <1>4, <2>1
        <4> QED
          BY <1>4, <2>1, <2>2, <3>2, <4>1
      <3> QED
        BY <3>1, <3>2
    <2> HIDE DEF x
    <2> QED
      BY <1>2, <1>3, <2>1, <2>3, DiagnosesStay DEF PlanningInv
  <1>8. ASSUME NEW w \in Worker, Archive(w) PROVE PlanningInv'
    <2>1. /\ diagnosing[w].pc = "evaluated" /\ diagnosing[w].id \in Prepared /\ contexts[diagnosing[w].id] # NoContext
          /\ \A v \in Worker : diagnosing'[v].pc = "rest" \/ diagnosing'[v] = diagnosing[v]
      BY <1>4, <1>8 DEF Archive, PlanningInv, ReasoningInv, Diagnoses
    <2>2. ASSUME NEW i \in DOMAIN traces' \ DOMAIN traces
          PROVE  /\ diagnosing[w].id = i /\ traces'[i].bound = contexts[i].bound /\ traces'[i].records = diagnosing[w].records
      BY <1>8, <2>2 DEF Archive, TraceOf
    <2> QED
      BY <1>2, <1>3, <2>1, <2>2, DiagnosesStay DEF PlanningInv
  <1> QED
    BY <1>5, <1>6, <1>7, <1>8 DEF ExpiryPasses, GetContext, CancelContext

\* Every step keeps the invariant of the plans.
LEMMA PlanningNextInv == PlanningInv /\ [PlanningNext]_<<reasoningVars, blueprintVars>> => PlanningInv'
  <1> SUFFICES ASSUME PlanningInv, [PlanningNext]_<<reasoningVars, blueprintVars>> PROVE PlanningInv'
    OBVIOUS
  <1>1. compiled \in BOOLEAN /\ targets \in [Related -> SUBSET Entity] /\ published \in Prepared
    BY DEF PlanningInv, PlansFit, ReasoningInv, ReasoningTInv
  <1>2. CASE SurroundingsChange \/ UNCHANGED <<reasoningVars, blueprintVars>>
    BY <1>1, <1>2, DiagnosesKeep DEF SurroundingsChange, reasoningVars, blueprintVars
  <1>3. ASSUME NEW r \in Prepared, Publish(r) PROVE PlanningInv'
    <2>1. targets' \in [Related -> SUBSET Entity]
      BY <1>1, <1>3 DEF Publish
    <2> QED
      BY <1>1, <1>3, <2>1, DiagnosesKeep DEF Publish
  <1>4. ASSUME UNCHANGED blueprintVars, BlueprintSuperseded \/ \E n \in Related, found \in SUBSET Entity : FactsChange(n, found)
        PROVE  PlanningInv'
    <2>1. UNCHANGED <<published, planning, snapshot, contexts, traces, diagnosing>> /\ compiled' \in BOOLEAN
      BY <1>1, <1>4 DEF blueprintVars, BlueprintSuperseded, FactsChange
    <2>2. targets' \in [Related -> SUBSET Entity]
      BY <1>1, <1>4 DEF BlueprintSuperseded, FactsChange
    <2> QED
      BY <1>1, <2>1, <2>2, DiagnosesKeep
  <1>5. ASSUME UNCHANGED blueprintVars,
               (\E i \in Prepared : ExpiryPasses(i) \/ GetContext(i) \/ CancelContext(i))
               \/ \E w \in Worker : Evaluate(w) \/ Archive(w) \/ WorkerLost(w)
        PROVE  PlanningInv'
    BY <1>1, <1>5, DiagnosesKeep DEF blueprintVars
  <1> QED
    BY <1>2, <1>3, <1>4, <1>5, EntryKeeps, PrepareEnteredKeeps, ProjectKeeps, AcquireNextKeeps DEF PlanningNext

\* What is archived on the way from the entry is what the pinned revision holds of
\* the targets that were pinned, whatever is published or becomes of the facts in
\* between; for any number of workers, revisions, nodes and targets.
THEOREM PlansShowPinned == PlanningSpec => []TraceShowsWhatWasPinned
  <1>1. PlanningInv => TraceShowsWhatWasPinned
    <2> SUFFICES ASSUME PlanningInv PROVE TraceShowsWhatWasPinned
      OBVIOUS
    <2>1. \A w \in Worker : planning[w].pc = "planned" => planning[w].tasks = TasksOf(planning[w].pin, contexts[planning[w].pin].bound)
      BY DEF PlanningInv, PlansFit, PlanFits
    <2>2. \A i \in DOMAIN traces : Shows(i, traces[i].bound, traces[i].records)
      BY DEF PlanningInv, DiagnosesShow
    <2> QED
      BY <2>1, <2>2 DEF Shows, TraceShowsWhatWasPinned
  <1> QED
    BY <1>1, PlanningInitInv, PlanningNextInv, PTL DEF PlanningSpec
================================================================================
