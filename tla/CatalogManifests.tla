--------------------------- MODULE CatalogManifests ---------------------------
(****************************************************************************)
(* The manifests of one profile: revisions composed of published packs and  *)
(* signed, the pointer to the active one, and what the resolver serves from *)
(* it.  Composed with the packs they are built from.                        *)
(*                                                                          *)
(* An activation builds the manifest in one transaction and publishes it in *)
(* a second, which verifies packs and references before it locks the        *)
(* pointer: three steps, between which everything else may happen.          *)
(****************************************************************************)
EXTENDS CatalogPacks

CONSTANTS
    Publisher,      \* activations and rollbacks under way
    NoManifest,
    MaxManifests,   \* bound on revision numbers
    MaxSigned       \* bound on the manifests that are signed

VARIABLES
    manifests,  \* the manifest stored under each revision number, or NoManifest
    pointer,    \* catalog_active_manifests: is there a row, revision (0 for NULL), generation
    signed,     \* manifests that the owners have signed
    publishing  \* what each publisher is about to publish, or NoManifest

manifestVars == <<manifests, pointer, signed, publishing>>

Revision == 1..MaxManifests
Content == [revision : Revision, lock : UNION {[S -> SUBSET Ref] : S \in SUBSET Pack},
            entries : SUBSET Ref, usable : SUBSET Ref]
Stored == [content : Content, revoked : BOOLEAN]
Publishing == [content : Content, expected : 0..MaxManifests, verified : BOOLEAN]

ASSUME ManifestConstants ==
    /\ MaxManifests \in Nat /\ MaxSigned \in Nat
    /\ NoManifest \notin Stored \cup Publishing

\* Mutant: the entries are not compared with the hash.
PublishedComposable(p) == packs[p].status = "published"

\* A published pack contributes its entries if they still are what was hashed.
Composable(p) == packs[p].status = "published" /\ pins[p] = packs[p].hash

PackLock(chosen) == [p \in chosen |-> packs[p].hash]
Entries(chosen) == UNION {pins[p] : p \in chosen}

\* A manifest: its number, the locked packs with their hashes, and its entries
\* with the status their references have; nothing filters inactive ones here.
Manifest(n, chosen) ==
    [revision |-> n,
     lock |-> PackLock(chosen),
     entries |-> Entries(chosen),
     usable |-> Entries(chosen) \ inactive]

\* An old manifest under a new number.
Republished(target, n) == [manifests[target].content EXCEPT !.revision = n]

ManifestsInit ==
    /\ manifests = [n \in Revision |-> NoManifest]
    /\ pointer = [row |-> FALSE, revision |-> 0, generation |-> 0]
    /\ signed = {} /\ publishing = [w \in Publisher |-> NoManifest]

-------------------------------------------------------------------------------
\* The owners preview a manifest and sign its hash.
PreviewAndSign(n, chosen) ==
    /\ Cardinality(signed) < MaxSigned
    /\ chosen # {} /\ \A p \in chosen : Composable(p)
    /\ signed' = signed \cup {Manifest(n, chosen)}
    /\ UNCHANGED <<manifests, pointer, publishing>>

SignRollback(target, n) ==
    /\ Cardinality(signed) < MaxSigned
    /\ manifests[target] # NoManifest
    /\ signed' = signed \cup {Republished(target, n)}
    /\ UNCHANGED <<manifests, pointer, publishing>>

\* The manifest is built again and must be the one that was signed.
BuildFromPacks(w, n, chosen, expected) ==
    /\ publishing[w] = NoManifest
    /\ chosen # {} /\ \A p \in chosen : Composable(p)
    /\ Manifest(n, chosen) \in signed
    /\ publishing' = [publishing EXCEPT ![w] =
           [content |-> Manifest(n, chosen), expected |-> expected, verified |-> FALSE]]
    /\ UNCHANGED <<manifests, pointer, signed>>

\* A rollback expects the revision it has just read.
Rollback(w, target, n) ==
    /\ publishing[w] = NoManifest
    /\ pointer.revision # 0 /\ n > pointer.revision
    /\ manifests[target] # NoManifest
    /\ Republished(target, n) \in signed
    /\ publishing' = [publishing EXCEPT ![w] =
           [content |-> Republished(target, n), expected |-> pointer.revision, verified |-> FALSE]]
    /\ UNCHANGED <<manifests, pointer, signed>>

\* The pack lock and the entries agree with the rows as they are now.
Verify(w) ==
    /\ publishing[w] # NoManifest /\ ~publishing[w].verified
    /\ LET row == publishing[w]
           content == row.content
           holds == /\ \A p \in DOMAIN content.lock :
                          packs[p].status = "published" /\ packs[p].hash = content.lock[p]
                    /\ content.entries \cap inactive = {}
       IN publishing' = [publishing EXCEPT ![w] =
              IF holds THEN [row EXCEPT !.verified = TRUE] ELSE NoManifest]
    /\ UNCHANGED <<manifests, pointer, signed>>

\* The pointer is locked and compared with what the client expects.  The row of
\* a revoked pointer holds NULL, which counts as no active revision, and the
\* insertion of a second row fails; so does a revision number that is taken.
PublishAndActivate(w) ==
    /\ publishing[w] # NoManifest /\ publishing[w].verified
    /\ LET content == publishing[w].content
           n == content.revision
           accepted == /\ pointer.revision = publishing[w].expected
                       /\ manifests[n] = NoManifest
                       /\ pointer.row => pointer.revision # 0
       IN IF accepted
          THEN /\ manifests' = [manifests EXCEPT ![n] = [content |-> content, revoked |-> FALSE]]
               /\ pointer' = [row |-> TRUE, revision |-> n, generation |-> pointer.generation + 1]
          ELSE UNCHANGED <<manifests, pointer>>
    /\ publishing' = [publishing EXCEPT ![w] = NoManifest]
    /\ UNCHANGED signed

RevokeActive ==
    /\ pointer.revision # 0
    /\ manifests' = [manifests EXCEPT ![pointer.revision].revoked = TRUE]
    /\ pointer' = [pointer EXCEPT !.revision = 0, !.generation = @ + 1]
    /\ UNCHANGED <<signed, publishing>>

ManifestsStep ==
    /\ UNCHANGED packVars
    /\ \/ \E n \in Revision, chosen \in SUBSET Pack :
             \/ PreviewAndSign(n, chosen)
             \/ \E w \in Publisher, expected \in 0..MaxManifests : BuildFromPacks(w, n, chosen, expected)
       \/ \E target \in Revision, n \in Revision :
             SignRollback(target, n) \/ \E w \in Publisher : Rollback(w, target, n)
       \/ \E w \in Publisher : Verify(w) \/ PublishAndActivate(w)
       \/ RevokeActive

ReleaseNext == (PacksNext /\ UNCHANGED manifestVars) \/ ManifestsStep

ReleaseSpec == PacksInit /\ ManifestsInit /\ [][ReleaseNext]_<<packVars, manifestVars>>

-------------------------------------------------------------------------------
\* What the resolver answers for: an active entry of the active manifest.  It
\* joins the reference's row for the hash, and does not look at its status.
Resolves(r) == pointer.revision # 0 /\ ~manifests[pointer.revision].revoked
                  /\ r \in manifests[pointer.revision].content.usable

\* Whatever is served is pinned: it has been hashed by an approved publication
\* of a pack, in the manifest the owners signed, even when entries have crept
\* into a pack, other activations raced or an old revision was rolled back to.
ServedAsSigned ==
    pointer.revision # 0 =>
        LET active == manifests[pointer.revision]
        IN /\ active # NoManifest /\ ~active.revoked
           /\ active.content \in signed
           /\ \A r \in Ref : Resolves(r) =>
                 \E p \in DOMAIN active.content.lock : packs[p].status = "published" /\ r \in packs[p].hash

\* From the approval of a pack to the entry that is served: nothing is served
\* that somebody else has not approved and the owners have not signed.
ReleasedAsApproved == FulfilledAsApproved /\ ServedAsSigned

\* A stored revision is never written again but to revoke it, what was revoked
\* is not served again under its number, and every change of the pointer starts
\* a new generation, by which the resolver's cache is keyed.
RevisionsStay ==
    [][/\ pointer'.revision # pointer.revision => pointer'.generation > pointer.generation
       /\ \A n \in Revision : manifests[n] # NoManifest =>
             /\ manifests'[n].content = manifests[n].content
             /\ manifests[n].revoked => manifests'[n].revoked /\ pointer'.revision # n]_manifestVars

\* The design: "when an entry goes from active to inactive, new references,
\* submission, publication, compilation and activation are all refused"
\* (arch/design/2026-09-01-n01a-catalog-phase1-design-jqmk.md:774).
RevokedRefIsRefused == \A r \in inactive : ~Resolves(r)
===============================================================================
