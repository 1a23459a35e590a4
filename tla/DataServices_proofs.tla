-------------------------- MODULE DataServices_proofs --------------------------
(****************************************************************************)
(* Proofs about the services around the data: the synchronisation of data   *)
(* sources, the compiled profiles of entities and the files of scenario     *)
(* datasets, and the questions that are asked of the data and answered.     *)
(****************************************************************************)
EXTENDS DataSync, EntityProfiles, FileDatasets, QuestionPlanning, NumberFacts, FiniteSetTheorems, SequenceTheorems, TLAPS

-------------------------------------------------------------------------------
(****************************************************************************)
(* Profiles.                                                                *)
(****************************************************************************)
ProfileContent == [name : Nat, facts : SUBSET (Statement \X Nat)]
ProfileRow == [content : ProfileContent, at : Nat]
Compilation == [entity : Entry, content : ProfileContent, since : Nat]
Edit == [pc : {"off", "open", "compile"}, change : Change \cup {NoChange}, since : Nat,
         todo : SUBSET Entry, logs : SUBSET Entry]

ProfilesTInv ==
    /\ clock \in 0..MaxClock
    /\ entries \in [Entry -> [name : Nat, at : Nat]] /\ \A x \in Entry : entries[x].at <= clock
    /\ statements \in [Statement -> [status : {"none", "active", "revoked"}, at : Nat]]
    /\ \A f \in Statement : statements[f].at <= clock
    /\ timeline \in [Entry -> Nat] /\ \A x \in Entry : timeline[x] <= clock
    /\ profiles \in [Entry -> ProfileRow \cup {NoProfile}]
    /\ \A x \in Entry : profiles[x] # NoProfile => profiles[x].at <= clock
    /\ compilingProfile \in [Actors -> Compilation \cup {NoCompile}]
    /\ \A p \in Actors : compilingProfile[p].since <= clock
    /\ editing \in [Editor -> Edit] /\ \A e \in Editor : editing[e].since <= clock

\* The content has the entity's name and its active facts as they are now.
Tells(x, content) ==
    /\ content.name = entries[x].name
    /\ {s[1] : s \in content.facts} = ActiveOf(x)

\* The entity's own row and its facts are no younger than t.  Neither the timeline
\* nor the facts that point at the entity are needed.
NoYounger(x, t) ==
    /\ entries[x].at <= t
    /\ \A f \in Statement : Ends[f][1] = x => statements[f].at <= t

\* What a compilation that has begun to write at t holds: it is true as long as
\* the record shows nothing younger, and changes still open will be younger.
Holds(x, content, t) ==
    /\ NoYounger(x, t) => Tells(x, content)
    /\ \A e \in Editor : Open(e, x) => editing[e].since > t

\* Before it begins to write, nothing that it read is about to change.
Rests(x, content) == Tells(x, content) /\ \A e \in Editor : ~Open(e, x)

\* All this unless a change overlaps the compilation; and then of the profile.
Sound(c) == IF c.since = 0 THEN Rests(c.entity, c.content) ELSE Holds(c.entity, c.content, c.since)
ReadTrue(p) == \A c \in Compilation \ {NoCompile} : compilingProfile[p] = c /\ p \notin raced => Sound(c)
StoredTrue(x) == \A r \in ProfileRow \ {NoProfile} : profiles[x] = r /\ x \notin tainted => Holds(x, r.content, r.at)
ProfilesTrue == (\A p \in Actors : ReadTrue(p)) /\ (\A x \in Entry : StoredTrue(x))

\* A compilation reads the name and the active facts.
LEMMA ContentTells ==
    ASSUME ProfilesTInv, NEW x \in Entry
    PROVE  ContentOf(x) \in ProfileContent /\ Tells(x, ContentOf(x))
  <1>1. \A f \in Statement : Ends[f][2] \in Entry
    BY ProfileConstants DEF ProfileConstants
  <1>2. \A f \in ActiveOf(x) : f \in Statement /\ entries[Ends[f][2]].name \in Nat
    BY <1>1 DEF ActiveOf, ProfilesTInv
  <1>3. ContentOf(x).facts \in SUBSET (Statement \X Nat) /\ ContentOf(x).name = entries[x].name
    BY <1>2 DEF ContentOf
  <1>4. ContentOf(x) \in ProfileContent
    BY <1>3 DEF ContentOf, ProfileContent, ProfilesTInv
  <1>5. {s[1] : s \in ContentOf(x).facts} = ActiveOf(x)
    <2>1. ContentOf(x).facts = {<<f, entries[Ends[f][2]].name>> : f \in ActiveOf(x)}
      BY DEF ContentOf
    <2>2. ASSUME NEW s \in ContentOf(x).facts PROVE s[1] \in ActiveOf(x)
      BY <2>1
    <2>3. ASSUME NEW f \in ActiveOf(x) PROVE \E s \in ContentOf(x).facts : s[1] = f
      <3>1. <<f, entries[Ends[f][2]].name>> \in ContentOf(x).facts
        BY <2>1
      <3> QED
        BY <3>1
    <2> QED
      BY <2>2, <2>3
  <1> QED
    BY <1>3, <1>4, <1>5 DEF Tells

\* No change on record is later than the last one.
LEMMA LastChangeBounds ==
    ASSUME ProfilesTInv, NEW x \in Entry
    PROVE  /\ LastChange(x) \in Nat
           /\ entries[x].at <= LastChange(x)
           /\ \A f \in Statement : Ends[f][1] = x => statements[f].at <= LastChange(x)
  <1> DEFINE T == {timeline[x], entries[x].at}
                     \cup {statements[f].at : f \in {f \in Statement : x \in {Ends[f][1], Ends[f][2]}}}
  <1>1. T \in SUBSET (0..clock) /\ T # {} /\ clock \in Nat
    BY ProfileConstants DEF ProfilesTInv, ProfileConstants
  <1>2. entries[x].at \in T /\ \A f \in Statement : Ends[f][1] = x => statements[f].at \in T
    OBVIOUS
  <1>3. LastChange(x) = Max(T)
    BY DEF LastChange
  <1> HIDE DEF T
  <1>4. \E m \in T : \A k \in T : k <= m
    BY <1>1, GreatestNumber
  <1>5. \E m \in T : \A k \in T : m >= k
    BY <1>1, <1>4
  <1>6. Max(T) \in T /\ \A k \in T : Max(T) >= k
    BY <1>5 DEF Max
  <1>7. \A k \in T : k \in Nat /\ k <= Max(T)
    BY <1>1, <1>6
  <1>8. Max(T) \in Nat
    BY <1>6, <1>7
  <1> QED
    BY <1>2, <1>3, <1>7, <1>8

LEMMA ProfilesInitInv == ProfilesInit => ProfilesTInv /\ ProfilesTrue
  <1> SUFFICES ASSUME ProfilesInit PROVE ProfilesTInv /\ ProfilesTrue
    OBVIOUS
  <1>1. NoEdit \in Edit /\ NoEdit.since = 0 /\ NoCompile.since = 0
    BY DEF NoEdit, Edit, NoCompile
  <1>2. clock = 0 /\ clock \in 0..MaxClock
    BY ProfileConstants DEF ProfilesInit, ProfileConstants
  <1>3. /\ entries \in [Entry -> [name : Nat, at : Nat]] /\ \A x \in Entry : entries[x].at <= clock
        /\ statements \in [Statement -> [status : {"none", "active", "revoked"}, at : Nat]]
        /\ \A f \in Statement : statements[f].at <= clock
    BY <1>2 DEF ProfilesInit
  <1>4. /\ timeline \in [Entry -> Nat] /\ \A x \in Entry : timeline[x] <= clock
        /\ profiles \in [Entry -> ProfileRow \cup {NoProfile}] /\ \A x \in Entry : profiles[x] = NoProfile
    BY <1>2 DEF ProfilesInit
  <1>5. /\ compilingProfile \in [Actors -> Compilation \cup {NoCompile}]
        /\ \A p \in Actors : compilingProfile[p] = NoCompile
        /\ editing \in [Editor -> Edit] /\ \A e \in Editor : editing[e] = NoEdit
    BY <1>1 DEF ProfilesInit
  <1>6. ProfilesTInv
    BY <1>1, <1>2, <1>3, <1>4, <1>5 DEF ProfilesTInv
  <1>7. ProfilesTrue
    BY <1>4, <1>5 DEF ProfilesTrue, ReadTrue, StoredTrue
  <1> QED
    BY <1>6, <1>7

\* What a change is of is an entity.
LEMMA ChangedEntry == ASSUME NEW c \in Change PROVE Changed(c) \in Entry
  <1>1. \A f \in Statement : Ends[f][1] \in Entry
    BY ProfileConstants DEF ProfileConstants
  <1> QED
    BY <1>1 DEF Change, Changed, Upsert, Deprecation, Addition, Revocation

-------------------------------------------------------------------------------
\* The clock goes on.
LEMMA ClockFacts ==
    ASSUME ProfilesTInv
    PROVE  clock \in Nat /\ (Tick => clock' = clock + 1 /\ clock' \in 0..MaxClock)
  BY ProfileConstants DEF ProfilesTInv, ProfileConstants, Tick

\* Rows and compilations that stay are as typed as before, and no younger than
\* the clock, when it goes on.
LEMMA EntriesKept ==
    ASSUME ProfilesTInv, UNCHANGED <<entries, statements>>, clock' \in 0..MaxClock, clock <= clock'
    PROVE  /\ entries' \in [Entry -> [name : Nat, at : Nat]] /\ \A x \in Entry : entries'[x].at <= clock'
           /\ statements' \in [Statement -> [status : {"none", "active", "revoked"}, at : Nat]]
           /\ \A f \in Statement : statements'[f].at <= clock'
  <1>1. /\ \A x \in Entry : entries[x].at \in Nat /\ entries[x].at <= clock
        /\ \A f \in Statement : statements[f].at \in Nat /\ statements[f].at <= clock
        /\ clock \in Nat /\ clock' \in Nat
    BY ClockFacts DEF ProfilesTInv
  <1> QED
    BY <1>1 DEF ProfilesTInv

LEMMA TimelineKept ==
    ASSUME ProfilesTInv, UNCHANGED timeline, clock' \in 0..MaxClock, clock <= clock'
    PROVE  timeline' \in [Entry -> Nat] /\ \A x \in Entry : timeline'[x] <= clock'
  <1>1. (\A x \in Entry : timeline[x] \in Nat /\ timeline[x] <= clock) /\ clock \in Nat /\ clock' \in Nat
    BY ClockFacts DEF ProfilesTInv
  <1> QED
    BY <1>1 DEF ProfilesTInv

LEMMA ProfilesKept ==
    ASSUME ProfilesTInv, UNCHANGED profiles, clock' \in 0..MaxClock, clock <= clock'
    PROVE  /\ profiles' \in [Entry -> ProfileRow \cup {NoProfile}]
           /\ \A x \in Entry : profiles'[x] # NoProfile => profiles'[x].at <= clock'
  <1>1. \A x \in Entry : profiles[x] # NoProfile => profiles[x].at \in Nat /\ profiles[x].at <= clock
    BY DEF ProfilesTInv, ProfileRow
  <1>2. clock \in Nat /\ clock' \in Nat
    BY ClockFacts
  <1> QED
    BY <1>1, <1>2 DEF ProfilesTInv

CompilingBecomes(p, c) == compilingProfile' = [compilingProfile EXCEPT ![p] = c]
EditingBecomes(e, d) == editing' = [editing EXCEPT ![e] = d]

LEMMA CompilationsKept ==
    ASSUME ProfilesTInv, clock' \in 0..MaxClock, clock <= clock', NEW p, NEW c \in Compilation \cup {NoCompile},
           c.since <= clock',
           CompilingBecomes(p, c)
    PROVE  /\ compilingProfile' \in [Actors -> Compilation \cup {NoCompile}]
           /\ \A q \in Actors : compilingProfile'[q].since <= clock'
  <1>1. \A q \in Actors : compilingProfile[q].since \in Nat /\ compilingProfile[q].since <= clock
    BY DEF ProfilesTInv, Compilation, NoCompile
  <1>2. clock \in Nat /\ clock' \in Nat
    BY ClockFacts
  <1>3. \A q \in Actors : compilingProfile'[q] \in {compilingProfile[q], c}
    BY DEF ProfilesTInv, CompilingBecomes
  <1>4. compilingProfile' \in [Actors -> Compilation \cup {NoCompile}]
    BY DEF ProfilesTInv, CompilingBecomes
  <1> QED
    BY <1>1, <1>2, <1>3, <1>4

LEMMA EditsKept ==
    ASSUME ProfilesTInv, clock' \in 0..MaxClock, clock <= clock', NEW e, NEW d \in Edit, d.since <= clock',
           EditingBecomes(e, d)
    PROVE  editing' \in [Editor -> Edit] /\ \A q \in Editor : editing'[q].since <= clock'
  <1>1. \A q \in Editor : editing[q].since \in Nat /\ editing[q].since <= clock
    BY DEF ProfilesTInv, Edit
  <1>2. clock \in Nat /\ clock' \in Nat
    BY ClockFacts
  <1>3. \A q \in Editor : editing'[q] \in {editing[q], d}
    BY DEF ProfilesTInv, EditingBecomes
  <1>4. editing' \in [Editor -> Edit]
    BY DEF ProfilesTInv, EditingBecomes
  <1> QED
    BY <1>1, <1>2, <1>3, <1>4

LEMMA CompilationsRest ==
    ASSUME ProfilesTInv, clock' \in 0..MaxClock, clock <= clock', UNCHANGED compilingProfile
    PROVE  /\ compilingProfile' \in [Actors -> Compilation \cup {NoCompile}]
           /\ \A q \in Actors : compilingProfile'[q].since <= clock'
  <1>1. \A q \in Actors : compilingProfile[q].since \in Nat /\ compilingProfile[q].since <= clock
    BY DEF ProfilesTInv, Compilation, NoCompile
  <1>2. clock \in Nat /\ clock' \in Nat
    BY ClockFacts
  <1>3. compilingProfile' \in [Actors -> Compilation \cup {NoCompile}]
    BY DEF ProfilesTInv
  <1> QED
    BY <1>1, <1>2, <1>3

LEMMA EditsRest ==
    ASSUME ProfilesTInv, clock' \in 0..MaxClock, clock <= clock', UNCHANGED editing
    PROVE  editing' \in [Editor -> Edit] /\ \A q \in Editor : editing'[q].since <= clock'
  <1>1. \A q \in Editor : editing[q].since \in Nat /\ editing[q].since <= clock
    BY DEF ProfilesTInv, Edit
  <1>2. clock \in Nat /\ clock' \in Nat
    BY ClockFacts
  <1>3. editing' \in [Editor -> Edit]
    BY DEF ProfilesTInv
  <1> QED
    BY <1>1, <1>2, <1>3

LEMMA OpenedEdit ==
    ASSUME NEW c \in Change, NEW n \in Nat
    PROVE  /\ [NoEdit EXCEPT !.pc = "open", !.change = c, !.since = n] \in Edit
           /\ [NoEdit EXCEPT !.pc = "open", !.change = c, !.since = n].since = n
  BY DEF Edit, NoEdit

\* A change that commits leaves all but the row it is of.
LEMMA CommittedTyped ==
    ASSUME ProfilesTInv, NEW e \in Editor, NEW c, NEW todo \in SUBSET Entry, NEW logs \in SUBSET Entry,
           Committed(e, c, todo, logs)
    PROVE  /\ clock' = clock /\ clock' \in 0..MaxClock
           /\ editing[e].since \in Nat /\ editing[e].since <= clock'
           /\ timeline' \in [Entry -> Nat] /\ \A x \in Entry : timeline'[x] <= clock'
           /\ profiles' \in [Entry -> ProfileRow \cup {NoProfile}]
           /\ \A x \in Entry : profiles'[x] # NoProfile => profiles'[x].at <= clock'
           /\ compilingProfile' \in [Actors -> Compilation \cup {NoCompile}]
           /\ \A q \in Actors : compilingProfile'[q].since <= clock'
           /\ editing' \in [Editor -> Edit] /\ \A q \in Editor : editing'[q].since <= clock'
  <1>1. clock' = clock /\ clock' \in 0..MaxClock /\ clock <= clock' /\ clock \in Nat
    BY ClockFacts DEF Committed, ProfilesTInv
  <1>2. editing[e].since \in Nat /\ editing[e].since <= clock'
    BY <1>1 DEF ProfilesTInv, Edit
  <1>3. UNCHANGED <<timeline, profiles, compilingProfile>>
    BY DEF Committed
  <1>4. /\ timeline' \in [Entry -> Nat] /\ \A x \in Entry : timeline'[x] <= clock'
    BY <1>1, <1>3, TimelineKept
  <1>5. /\ profiles' \in [Entry -> ProfileRow \cup {NoProfile}]
        /\ \A x \in Entry : profiles'[x] # NoProfile => profiles'[x].at <= clock'
    BY <1>1, <1>3, ProfilesKept
  <1>6. /\ compilingProfile' \in [Actors -> Compilation \cup {NoCompile}]
        /\ \A q \in Actors : compilingProfile'[q].since <= clock'
    BY <1>1, <1>3 DEF ProfilesTInv
  <1> DEFINE d == IF logs = {} THEN NoEdit ELSE [NoEdit EXCEPT !.pc = "compile", !.todo = todo, !.logs = logs]
  <1>7. d \in Edit /\ d.since = 0
    BY DEF Edit, NoEdit
  <1>8. EditingBecomes(e, d)
    BY DEF EditingBecomes, Committed
  <1> HIDE DEF d
  <1>9. d.since <= clock'
    BY <1>1, <1>7
  <1>10. editing' \in [Editor -> Edit] /\ \A q \in Editor : editing'[q].since <= clock'
    BY <1>1, <1>7, <1>8, <1>9, EditsKept
  <1> QED
    BY <1>1, <1>2, <1>4, <1>5, <1>6, <1>10

\* Every step keeps the types.
LEMMA ProfilesNextTInv == ProfilesTInv /\ [ProfilesNext]_profileVars => ProfilesTInv'
  <1> SUFFICES ASSUME ProfilesTInv, [ProfilesNext]_profileVars PROVE ProfilesTInv'
    OBVIOUS
  <1>a. \A f \in Statement : {Ends[f][1], Ends[f][2]} \in SUBSET Entry /\ {Ends[f][1]} \in SUBSET Entry
    BY ProfileConstants DEF ProfileConstants
  <1>b. clock \in Nat /\ clock \in 0..MaxClock /\ clock <= clock
    BY ClockFacts DEF ProfilesTInv
  <1>c. \A q \in Editor : q \in Actors
    BY DEF Actors
  <1>d. NoEdit \in Edit /\ NoEdit.since = 0 /\ NoCompile.since = 0
    BY DEF NoEdit, Edit, NoCompile
  <1>e. Tick => clock' = clock + 1 /\ clock' \in 0..MaxClock /\ clock <= clock'
    BY <1>b, ClockFacts
  <1>f. clock' \in 0..MaxClock => NoEdit.since <= clock' /\ NoCompile.since <= clock'
    BY <1>d
  <1>1. ASSUME NEW e \in Editor, NEW c \in Change, BeginChange(e, c) PROVE ProfilesTInv'
    <2>1. clock' = clock + 1 /\ clock' \in 0..MaxClock /\ clock <= clock'
      BY <1>1, <1>e DEF BeginChange
    <2>2. UNCHANGED <<entries, statements, timeline, profiles, compilingProfile>>
      BY <1>1 DEF BeginChange
    <2> DEFINE d == [NoEdit EXCEPT !.pc = "open", !.change = c, !.since = clock + 1]
    <2>3. d \in Edit /\ d.since = clock + 1
      <3>1. clock + 1 \in Nat
        BY <1>b
      <3> QED
        BY <3>1, OpenedEdit
    <2>e. EditingBecomes(e, d)
      BY <1>1 DEF BeginChange, EditingBecomes
    <2> HIDE DEF d
    <2>f. d.since <= clock'
      BY <1>b, <2>1, <2>3
    <2>4. editing' \in [Editor -> Edit] /\ \A q \in Editor : editing'[q].since <= clock'
      BY <2>1, <2>3, <2>e, <2>f, EditsKept
    <2>5. /\ compilingProfile' \in [Actors -> Compilation \cup {NoCompile}]
          /\ \A q \in Actors : compilingProfile'[q].since <= clock'
      BY <2>1, <2>2, CompilationsRest
    <2> QED
      BY <2>1, <2>2, <2>4, <2>5, EntriesKept, TimelineKept, ProfilesKept DEF ProfilesTInv
  <1>2. ASSUME NEW e \in Editor, NEW x \in Entry, UpsertEntity(e, x) \/ DeprecateEntry(e, x) PROVE ProfilesTInv'
    <2>1. \E c : \E todo, logs \in SUBSET Entry : Committed(e, c, todo, logs)
      BY <1>2 DEF UpsertEntity, DeprecateEntry
    <2>2. UNCHANGED statements /\ clock' = clock /\ editing[e].since \in Nat /\ editing[e].since <= clock
      BY <1>2, <2>1, CommittedTyped DEF UpsertEntity, DeprecateEntry
    <2>3. entries' \in [Entry -> [name : Nat, at : Nat]] /\ \A y \in Entry : entries'[y].at \in {entries[y].at, editing[e].since}
      <3>1. entries \in [Entry -> [name : Nat, at : Nat]] /\ editing[e].since \in Nat
        BY <2>2 DEF ProfilesTInv
      <3>2. CASE UpsertEntity(e, x)
        BY <3>1, <3>2 DEF UpsertEntity
      <3>3. CASE DeprecateEntry(e, x)
        <4> DEFINE r == [entries[x] EXCEPT !.at = editing[e].since]
        <4>1. r \in [name : Nat, at : Nat] /\ r.at = editing[e].since
          BY <3>1
        <4>2. entries' = [entries EXCEPT ![x] = r]
          BY <3>3 DEF DeprecateEntry
        <4> HIDE DEF r
        <4> QED
          BY <3>1, <4>1, <4>2
      <3> QED
        BY <1>2, <3>2, <3>3
    <2>4. \A y \in Entry : entries'[y].at <= clock'
      BY <2>2, <2>3 DEF ProfilesTInv
    <2> QED
      BY <2>1, <2>2, <2>3, <2>4, CommittedTyped DEF ProfilesTInv
  <1>3. ASSUME NEW e \in Editor, NEW f \in Statement, AddStatement(e, f) \/ RevokeStatement(e, f) PROVE ProfilesTInv'
    <2>1. \E c : \E todo, logs \in SUBSET Entry : Committed(e, c, todo, logs)
      BY <1>3, <1>a DEF AddStatement, RevokeStatement
    <2>2. UNCHANGED entries /\ clock' = clock /\ editing[e].since \in Nat /\ editing[e].since <= clock
      BY <1>3, <2>1, CommittedTyped DEF AddStatement, RevokeStatement
    <2>3. /\ statements' \in [Statement -> [status : {"none", "active", "revoked"}, at : Nat]]
          /\ \A g \in Statement : statements'[g].at \in {statements[g].at, editing[e].since}
      <3>1. statements \in [Statement -> [status : {"none", "active", "revoked"}, at : Nat]] /\ editing[e].since \in Nat
        BY <2>2 DEF ProfilesTInv
      <3>2. CASE AddStatement(e, f)
        BY <3>1, <3>2 DEF AddStatement
      <3>3. CASE RevokeStatement(e, f)
        BY <3>1, <3>3 DEF RevokeStatement
      <3> QED
        BY <1>3, <3>2, <3>3
    <2>4. \A g \in Statement : statements'[g].at <= clock'
      BY <2>2, <2>3 DEF ProfilesTInv
    <2> QED
      BY <2>1, <2>2, <2>3, <2>4, CommittedTyped DEF ProfilesTInv
  <1>4. ASSUME NEW p \in Actors, NEW x \in Entry, Reads(p, x), UNCHANGED clock
        PROVE  /\ compilingProfile' \in [Actors -> Compilation \cup {NoCompile}]
               /\ \A q \in Actors : compilingProfile'[q].since <= clock'
    <2> DEFINE c == [entity |-> x, content |-> ContentOf(x), since |-> 0]
    <2>1. c \in Compilation /\ c.since = 0
      BY ContentTells DEF Compilation
    <2>2. CompilingBecomes(p, c)
      BY <1>4 DEF CompilingBecomes, Reads
    <2>3. clock' = clock
      BY <1>4
    <2> HIDE DEF c
    <2>4. c.since <= clock'
      BY <1>b, <2>1, <2>3
    <2>5. clock' \in 0..MaxClock /\ clock <= clock'
      BY <1>b, <2>3
    <2> QED
      BY <2>1, <2>2, <2>4, <2>5, CompilationsKept
  <1>5. ASSUME NEW e \in Editor, NEW x \in Entry, Recompile(e, x) PROVE ProfilesTInv'
    <2>1. UNCHANGED <<clock, entries, statements, timeline, profiles>>
      BY <1>5 DEF Recompile
    <2>2. /\ compilingProfile' \in [Actors -> Compilation \cup {NoCompile}]
          /\ \A q \in Actors : compilingProfile'[q].since <= clock'
      <3>1. CASE UNCHANGED compilingProfile
        BY <2>1, <3>1 DEF ProfilesTInv
      <3>2. CASE Reads(e, x)
        BY <1>c, <1>4, <2>1, <3>2
      <3> QED
        BY <1>5, <3>1, <3>2 DEF Recompile
    <2> DEFINE d == [editing[e] EXCEPT !.todo = @ \ {x}]
    <2>3. d \in Edit /\ d.since = editing[e].since
      BY DEF Edit, ProfilesTInv
    <2>4. EditingBecomes(e, d)
      BY <1>5 DEF Recompile, EditingBecomes
    <2>6. editing[e].since <= clock'
      BY <2>1 DEF ProfilesTInv
    <2>7. clock' \in 0..MaxClock /\ clock <= clock'
      BY <1>b, <2>1
    <2> HIDE DEF d
    <2>8. d.since <= clock'
      BY <2>3, <2>6
    <2>5. editing' \in [Editor -> Edit] /\ \A q \in Editor : editing'[q].since <= clock'
      BY <2>3, <2>4, <2>7, <2>8, EditsKept
    <2> QED
      BY <2>1, <2>2, <2>5 DEF ProfilesTInv
  <1>6. ASSUME NEW e \in Editor, LogTimeline(e) PROVE ProfilesTInv'
    <2>1. /\ clock' \in 0..MaxClock /\ clock <= clock' /\ clock' \in Nat
          /\ UNCHANGED <<entries, statements, profiles, compilingProfile>>
      BY <1>6, <1>b, <1>e DEF LogTimeline
    <2>5. EditingBecomes(e, NoEdit)
      BY <1>6 DEF LogTimeline, EditingBecomes
    <2>2. editing' \in [Editor -> Edit] /\ \A q \in Editor : editing'[q].since <= clock'
      BY <1>d, <1>f, <2>1, <2>5, EditsKept
    <2>3. timeline' \in [Entry -> Nat] /\ \A x \in Entry : timeline'[x] <= clock'
      <3>1. CASE UNCHANGED <<clock, timeline>>
        BY <3>1 DEF ProfilesTInv
      <3>2. CASE Tick /\ timeline' = [x \in Entry |-> IF x \in editing[e].logs THEN clock + 1 ELSE timeline[x]]
        <4>1. clock' = clock + 1
          BY <3>2, <1>e
        <4> QED
          BY <1>b, <3>2, <4>1 DEF ProfilesTInv
      <3> QED
        BY <1>6, <3>1, <3>2 DEF LogTimeline
    <2>4. /\ compilingProfile' \in [Actors -> Compilation \cup {NoCompile}]
          /\ \A q \in Actors : compilingProfile'[q].since <= clock'
      BY <2>1, CompilationsRest
    <2> QED
      BY <2>1, <2>2, <2>3, <2>4, EntriesKept, ProfilesKept DEF ProfilesTInv
  <1>7. ASSUME NEW e \in Editor, EditorLost(e) PROVE ProfilesTInv'
    <2>1. UNCHANGED <<clock, entries, statements, timeline, profiles>>
      BY <1>7 DEF EditorLost
    <2>4. EditingBecomes(e, NoEdit) /\ CompilingBecomes(e, NoCompile)
      BY <1>7 DEF EditorLost, EditingBecomes, CompilingBecomes
    <2>5. clock' \in 0..MaxClock /\ clock <= clock'
      BY <1>b, <2>1
    <2>2. editing' \in [Editor -> Edit] /\ \A q \in Editor : editing'[q].since <= clock'
      BY <1>d, <1>f, <2>4, <2>5, EditsKept
    <2>3. /\ compilingProfile' \in [Actors -> Compilation \cup {NoCompile}]
          /\ \A q \in Actors : compilingProfile'[q].since <= clock'
      BY <1>f, <2>4, <2>5, CompilationsKept
    <2> QED
      BY <2>1, <2>2, <2>3 DEF ProfilesTInv
  <1>8. ASSUME NEW p \in ProfileReader, NEW x \in Entry, ReadStale(p, x) PROVE ProfilesTInv'
    <2>1. Reads(p, x) /\ UNCHANGED <<clock, entries, statements, timeline, profiles, editing>> /\ p \in Actors
      BY <1>8 DEF ReadStale, Actors
    <2> QED
      BY <1>4, <2>1 DEF ProfilesTInv
  <1>9. ASSUME NEW p \in Actors, BeginWrite(p) PROVE ProfilesTInv'
    <2>1. /\ clock' = clock + 1 /\ clock' \in 0..MaxClock /\ clock <= clock'
          /\ UNCHANGED <<entries, statements, timeline, profiles, editing>>
      BY <1>9, <1>e DEF BeginWrite
    <2>2. compilingProfile[p] \in Compilation
      BY <1>9 DEF BeginWrite, ProfilesTInv
    <2> DEFINE c == [compilingProfile[p] EXCEPT !.since = clock + 1]
    <2>3. c \in Compilation /\ c.since = clock + 1
      BY <1>b, <2>2 DEF Compilation
    <2>4. CompilingBecomes(p, c)
      BY <1>9 DEF BeginWrite, CompilingBecomes
    <2>7. clock + 1 <= clock'
      BY <1>b, <2>1
    <2> HIDE DEF c
    <2>8. c.since <= clock'
      BY <2>3, <2>7
    <2>5. /\ compilingProfile' \in [Actors -> Compilation \cup {NoCompile}]
          /\ \A q \in Actors : compilingProfile'[q].since <= clock'
      BY <2>1, <2>3, <2>4, <2>8, CompilationsKept
    <2>6. editing' \in [Editor -> Edit] /\ \A q \in Editor : editing'[q].since <= clock'
      BY <2>1, EditsRest
    <2> QED
      BY <2>1, <2>5, <2>6, EntriesKept, TimelineKept, ProfilesKept DEF ProfilesTInv
  <1>10. ASSUME NEW p \in Actors, WriteProfile(p) PROVE ProfilesTInv'
    <2>1. UNCHANGED <<clock, entries, statements, timeline, editing>>
      BY <1>10 DEF WriteProfile
    <2>2. compilingProfile[p] \in Compilation
      BY <1>10 DEF WriteProfile, ProfilesTInv, NoCompile
    <2> DEFINE r == [content |-> compilingProfile[p].content, at |-> compilingProfile[p].since]
    <2>3. r \in ProfileRow /\ r.at <= clock
      BY <2>2 DEF ProfileRow, Compilation, ProfilesTInv
    <2>4. profiles' \in {profiles, [profiles EXCEPT ![compilingProfile[p].entity] = r]}
      BY <1>10 DEF WriteProfile
    <2> HIDE DEF r
    <2>5. /\ profiles' \in [Entry -> ProfileRow \cup {NoProfile}]
          /\ \A x \in Entry : profiles'[x] # NoProfile => profiles'[x].at <= clock'
      BY <2>1, <2>3, <2>4 DEF ProfilesTInv
    <2>6. /\ compilingProfile' \in [Actors -> Compilation \cup {NoCompile}]
          /\ \A q \in Actors : compilingProfile'[q].since <= clock'
      <3>1. CompilingBecomes(p, NoCompile)
        BY <1>10 DEF WriteProfile, CompilingBecomes
      <3>2. clock' \in 0..MaxClock /\ clock <= clock'
        BY <1>b, <2>1
      <3> QED
        BY <1>f, <3>1, <3>2, CompilationsKept
    <2> QED
      BY <2>1, <2>5, <2>6 DEF ProfilesTInv
  <1>11. ASSUME UNCHANGED profileVars PROVE ProfilesTInv'
    BY <1>11 DEF profileVars, ProfilesTInv
  <1> QED
    BY <1>1, <1>2, <1>3, <1>5, <1>6, <1>7, <1>8, <1>9, <1>10, <1>11 DEF ProfilesNext

-------------------------------------------------------------------------------
\* What is on record of an entity stays as it is.
Unaltered(x) ==
    /\ entries'[x] = entries[x]
    /\ \A f \in Statement : Ends[f][1] = x => statements'[f] = statements[f]

LEMMA UnalteredTells ==
    ASSUME NEW x, Unaltered(x)
    PROVE  /\ \A content : Tells(x, content)' <=> Tells(x, content)
           /\ \A t : NoYounger(x, t)' <=> NoYounger(x, t)
  <1>1. ActiveOf(x)' = ActiveOf(x)
    BY DEF ActiveOf, Unaltered
  <1>2. \A content : Tells(x, content)' <=> Tells(x, content)
    BY <1>1 DEF Tells, Unaltered
  <1>3. \A t : NoYounger(x, t)' <=> NoYounger(x, t)
    BY DEF NoYounger, Unaltered
  <1> QED
    BY <1>2, <1>3

\* The changes that are open after a step were open before it.
NothingOpens(x) == \A e \in Editor : Open(e, x)' => Open(e, x) /\ editing'[e].since = editing[e].since

\* What a compilation holds and a profile says stays true when a step touches the
\* entity on record only with something younger, and opens only younger changes.
LEMMA HoldsStays ==
    ASSUME NEW x, NEW content, NEW t, Holds(x, content, t),
           Unaltered(x) \/ ~NoYounger(x, t)',
           \A e \in Editor : Open(e, x)' => (Open(e, x) /\ editing'[e].since = editing[e].since) \/ editing'[e].since > t
    PROVE  Holds(x, content, t)'
  <1>1. NoYounger(x, t)' => Tells(x, content)'
    BY UnalteredTells DEF Holds
  <1>2. \A e \in Editor : Open(e, x)' => editing'[e].since > t
    BY DEF Holds
  <1> QED
    BY <1>1, <1>2 DEF Holds

LEMMA RestsStays ==
    ASSUME NEW x, NEW content, Rests(x, content), Unaltered(x), NothingOpens(x)
    PROVE  Rests(x, content)'
  <1>1. Tells(x, content)'
    BY UnalteredTells DEF Rests
  <1>2. \A e \in Editor : ~Open(e, x)'
    BY DEF Rests, NothingOpens
  <1> QED
    BY <1>1, <1>2 DEF Rests

\* A step that alters nothing on record and opens nothing keeps what it does not
\* write itself.
LEMMA ReadStays ==
    ASSUME ProfilesTInv, NEW p \in Actors, ReadTrue(p), compilingProfile'[p] = compilingProfile[p],
           p \in raced => p \in raced',
           \A x \in Entry : Unaltered(x) /\ NothingOpens(x)
    PROVE  ReadTrue(p)'
  <1> SUFFICES ASSUME NEW c \in Compilation \ {NoCompile}, compilingProfile[p] = c, p \notin raced
               PROVE  Sound(c)'
    BY DEF ReadTrue
  <1>1. Sound(c) /\ c.entity \in Entry
    BY DEF ReadTrue, Compilation
  <1>2. Unaltered(c.entity) /\ NothingOpens(c.entity)
    BY <1>1
  <1>3. CASE c.since = 0
    BY <1>1, <1>2, <1>3, RestsStays DEF Sound
  <1>4. CASE c.since # 0
    BY <1>1, <1>2, <1>4, HoldsStays DEF Sound, NothingOpens
  <1> QED
    BY <1>3, <1>4

LEMMA StoredStays ==
    ASSUME NEW x \in Entry, StoredTrue(x), profiles'[x] = profiles[x], x \in tainted => x \in tainted',
           Unaltered(x), NothingOpens(x)
    PROVE  StoredTrue(x)'
  <1> SUFFICES ASSUME NEW r \in ProfileRow \ {NoProfile}, profiles[x] = r, x \notin tainted
               PROVE  Holds(x, r.content, r.at)'
    BY DEF StoredTrue
  <1>1. Holds(x, r.content, r.at)
    BY DEF StoredTrue
  <1> QED
    BY <1>1, HoldsStays DEF NothingOpens

\* A change that commits is younger than what does not know of it.
LEMMA CommitStays ==
    ASSUME ProfilesTInv, ProfilesTrue, NEW e \in Editor, NEW c \in Change, NEW todo, NEW logs,
           Committed(e, c, todo, logs),
           \A y \in Entry \ {Changed(c)} : Unaltered(y),
           \A t \in Nat : editing[e].since > t => ~NoYounger(Changed(c), t)'
    PROVE  ProfilesTrue'
  <1> DEFINE x == Changed(c)
  <1>1. Open(e, x) /\ x \in Entry
    BY ChangedEntry DEF Committed, Open
  <1>2. \A y \in Entry : NothingOpens(y)
    <2>1. \A d \in Editor : editing'[d] = editing[d] \/ (d = e /\ editing'[d].pc # "open")
      BY DEF Committed, NoEdit, ProfilesTInv
    <2> QED
      BY <2>1 DEF NothingOpens, Open
  <1>3. UNCHANGED <<profiles, compilingProfile, raced, tainted>>
    BY DEF Committed
  <1> HIDE DEF x
  <1>4. \A y \in Entry \ {x} : Unaltered(y)
    BY DEF x
  <1>5. \A t \in Nat : editing[e].since > t => ~NoYounger(x, t)'
    BY DEF x
  <1>6. ASSUME NEW y \in Entry, NEW content, NEW t \in Nat, Holds(y, content, t)
        PROVE  Holds(y, content, t)'
    <2>1. Unaltered(y) \/ ~NoYounger(y, t)'
      BY <1>1, <1>4, <1>5, <1>6 DEF Holds
    <2> QED
      BY <1>2, <1>6, <2>1, HoldsStays DEF NothingOpens
  <1>7. ASSUME NEW p \in Actors PROVE ReadTrue(p)'
    <2> SUFFICES ASSUME NEW k \in Compilation \ {NoCompile}, compilingProfile[p] = k, p \notin raced
                 PROVE  Sound(k)'
      BY <1>3 DEF ReadTrue
    <2>1. Sound(k) /\ k.entity \in Entry /\ k.since \in Nat
      BY DEF ProfilesTrue, ReadTrue, Compilation
    <2>2. CASE k.since = 0
      <3>1. Rests(k.entity, k.content)
        BY <2>1, <2>2 DEF Sound
      <3>2. k.entity # x
        BY <1>1, <3>1 DEF Rests
      <3>3. Rests(k.entity, k.content)'
        BY <1>2, <1>4, <2>1, <3>1, <3>2, RestsStays
      <3> QED
        BY <2>2, <3>3 DEF Sound
    <2>3. CASE k.since # 0
      BY <1>6, <2>1, <2>3 DEF Sound
    <2> QED
      BY <2>2, <2>3
  <1>8. ASSUME NEW y \in Entry PROVE StoredTrue(y)'
    <2> SUFFICES ASSUME NEW r \in ProfileRow \ {NoProfile}, profiles[y] = r, y \notin tainted
                 PROVE  Holds(y, r.content, r.at)'
      BY <1>3 DEF StoredTrue
    <2>1. Holds(y, r.content, r.at) /\ r.at \in Nat
      BY DEF ProfilesTrue, StoredTrue, ProfileRow
    <2> QED
      BY <1>6, <2>1
  <1> QED
    BY <1>7, <1>8 DEF ProfilesTrue

\* Every step keeps compilations and stored profiles true.
LEMMA ProfilesNextTrue == ProfilesTInv /\ ProfilesTrue /\ [ProfilesNext]_profileVars => ProfilesTrue'
  <1> SUFFICES ASSUME ProfilesTInv, ProfilesTrue, [ProfilesNext]_profileVars PROVE ProfilesTrue'
    OBVIOUS
  <1>a. \A f \in Statement : Ends[f][1] \in Entry
    BY ProfileConstants DEF ProfileConstants
  <1>b. clock \in Nat /\ (Tick => clock' = clock + 1)
    BY ClockFacts
  <1>c. \A e \in Editor : editing[e].since \in Nat
    BY DEF ProfilesTInv, Edit
  <1>d. (\A p \in Actors : ReadTrue(p)) /\ (\A x \in Entry : StoredTrue(x))
    BY DEF ProfilesTrue
  <1>e. UNCHANGED <<entries, statements>> => \A x \in Entry : Unaltered(x)
    BY DEF Unaltered
  <1>f. UNCHANGED editing => \A x \in Entry : NothingOpens(x)
    BY DEF NothingOpens, Open
  <1>1. ASSUME NEW e \in Editor, NEW c \in Change, BeginChange(e, c) PROVE ProfilesTrue'
    <2>1. /\ UNCHANGED <<entries, statements, profiles, compilingProfile, tainted>>
          /\ raced' = raced \cup {p \in Actors : HasRead(p, Changed(c))}
      BY <1>1 DEF BeginChange
    <2>2. \A d \in Editor : editing'[d] = editing[d] \/ (editing'[d].since = clock + 1 /\ editing'[d].change = c)
      BY <1>1 DEF BeginChange, NoEdit, ProfilesTInv
    <2>3. ASSUME NEW y \in Entry, NEW content, NEW t \in 0..clock, Holds(y, content, t)
          PROVE  Holds(y, content, t)'
      <3>1. \A d \in Editor : Open(d, y)' => (Open(d, y) /\ editing'[d].since = editing[d].since) \/ editing'[d].since > t
        BY <1>b, <2>2 DEF Open
      <3> QED
        BY <1>e, <2>1, <2>3, <3>1, HoldsStays
    <2>4. ASSUME NEW p \in Actors PROVE ReadTrue(p)'
      <3> SUFFICES ASSUME NEW k \in Compilation \ {NoCompile}, compilingProfile[p] = k, p \notin raced'
                   PROVE  Sound(k)'
        BY <2>1 DEF ReadTrue
      <3>1. Sound(k) /\ k.entity \in Entry /\ k.since \in 0..clock
        BY <1>b, <1>d, <2>1 DEF ReadTrue, ProfilesTInv, Compilation
      <3>2. CASE k.since = 0
        <4>1. Rests(k.entity, k.content)
          BY <3>1, <3>2 DEF Sound
        <4>2. k.entity # Changed(c)
          BY <2>1, <3>2 DEF HasRead
        <4>3. NothingOpens(k.entity)
          BY <2>2, <4>2 DEF NothingOpens, Open
        <4>4. Rests(k.entity, k.content)'
          BY <1>e, <2>1, <3>1, <4>1, <4>3, RestsStays
        <4> QED
          BY <3>2, <4>4 DEF Sound
      <3>3. CASE k.since # 0
        BY <2>3, <3>1, <3>3 DEF Sound
      <3> QED
        BY <3>2, <3>3
    <2>5. ASSUME NEW y \in Entry PROVE StoredTrue(y)'
      <3> SUFFICES ASSUME NEW r \in ProfileRow \ {NoProfile}, profiles[y] = r, y \notin tainted
                   PROVE  Holds(y, r.content, r.at)'
        BY <2>1 DEF StoredTrue
      <3>1. Holds(y, r.content, r.at) /\ r.at \in 0..clock
        BY <1>b, <1>d DEF StoredTrue, ProfilesTInv, ProfileRow
      <3> QED
        BY <2>3, <3>1
    <2> QED
      BY <2>4, <2>5 DEF ProfilesTrue
  <1>2. ASSUME NEW e \in Editor, NEW x \in Entry, NEW c \in {Upsert(x), Deprecation(x)},
               Committed(e, c, {x}, {x}) \/ Committed(e, c, {}, {}),
               entries'[x].at = editing[e].since, \A y \in Entry \ {x} : entries'[y] = entries[y], UNCHANGED statements
        PROVE  ProfilesTrue'
    <2>1. c \in Change /\ Changed(c) = x
      BY DEF Change, Changed, Upsert, Deprecation
    <2>2. \A y \in Entry \ {x} : Unaltered(y)
      BY <1>2 DEF Unaltered
    <2>3. \A t \in Nat : editing[e].since > t => ~NoYounger(x, t)'
      BY <1>c, <1>2 DEF NoYounger
    <2>4. PICK todo, logs : Committed(e, c, todo, logs)
      BY <1>2
    <2> QED
      BY <2>1, <2>2, <2>3, <2>4, CommitStays
  <1>3. ASSUME NEW e \in Editor, NEW x \in Entry, UpsertEntity(e, x) PROVE ProfilesTrue'
    <2>1. Committed(e, Upsert(x), {x}, {x}) /\ UNCHANGED statements
      BY <1>3 DEF UpsertEntity
    <2>2. entries'[x].at = editing[e].since /\ \A y \in Entry \ {x} : entries'[y] = entries[y]
      BY <1>3 DEF UpsertEntity, ProfilesTInv
    <2> QED
      BY <1>2, <2>1, <2>2
  <1>4. ASSUME NEW e \in Editor, NEW x \in Entry, DeprecateEntry(e, x) PROVE ProfilesTrue'
    <2>1. Committed(e, Deprecation(x), {}, {}) /\ UNCHANGED statements
      BY <1>4 DEF DeprecateEntry
    <2>2. entries'[x].at = editing[e].since /\ \A y \in Entry \ {x} : entries'[y] = entries[y]
      BY <1>4 DEF DeprecateEntry, ProfilesTInv
    <2> QED
      BY <1>2, <2>1, <2>2
  <1>5. ASSUME NEW e \in Editor, NEW f \in Statement, AddStatement(e, f) \/ RevokeStatement(e, f) PROVE ProfilesTrue'
    <2>1. PICK c \in {Addition(f), Revocation(f)} : \E todo, logs : Committed(e, c, todo, logs)
      BY <1>5 DEF AddStatement, RevokeStatement
    <2>2. c \in Change /\ Changed(c) = Ends[f][1]
      BY DEF Change, Changed, Addition, Revocation
    <2>3. /\ statements'[f].at = editing[e].since /\ \A g \in Statement \ {f} : statements'[g] = statements[g]
          /\ UNCHANGED entries
      BY <1>5 DEF AddStatement, RevokeStatement, ProfilesTInv
    <2>4. \A y \in Entry \ {Ends[f][1]} : Unaltered(y)
      BY <2>3 DEF Unaltered
    <2>5. \A t \in Nat : editing[e].since > t => ~NoYounger(Ends[f][1], t)'
      BY <1>c, <2>3 DEF NoYounger
    <2> QED
      BY <2>1, <2>2, <2>4, <2>5, CommitStays
  <1>6. ASSUME NEW p \in Actors, NEW x \in Entry, Reads(p, x),
               UNCHANGED <<entries, statements, profiles, tainted>>, \A y \in Entry : NothingOpens(y),
               \A e \in Editor : Open(e, x)' <=> Open(e, x)
        PROVE  ProfilesTrue'
    <2>1. ASSUME NEW q \in Actors, q # p PROVE ReadTrue(q)'
      <3>1. compilingProfile'[q] = compilingProfile[q] /\ (q \in raced => q \in raced')
        BY <1>6, <2>1 DEF Reads, ProfilesTInv
      <3> QED
        BY <1>d, <1>e, <1>6, <3>1, ReadStays
    <2>2. ReadTrue(p)'
      <3> SUFFICES ASSUME NEW k \in Compilation \ {NoCompile}, compilingProfile'[p] = k, p \notin raced'
                   PROVE  Sound(k)'
        BY DEF ReadTrue
      <3>1. k = [entity |-> x, content |-> ContentOf(x), since |-> 0]
        BY <1>6 DEF Reads, ProfilesTInv
      <3>2. k.entity = x /\ k.content = ContentOf(x) /\ k.since = 0
        BY <3>1
      <3>3. \A e \in Editor : ~Open(e, x)
        BY <1>6 DEF Reads
      <3>4. Rests(k.entity, k.content)
        BY <3>2, <3>3, ContentTells DEF Rests
      <3>5. Rests(k.entity, k.content)'
        BY <1>e, <1>6, <3>2, <3>4, RestsStays
      <3> QED
        BY <3>2, <3>5 DEF Sound
    <2>3. ASSUME NEW y \in Entry PROVE StoredTrue(y)'
      BY <1>d, <1>e, <1>6, StoredStays
    <2> QED
      BY <2>1, <2>2, <2>3 DEF ProfilesTrue
  <1>7. ASSUME UNCHANGED <<entries, statements, profiles, tainted>>, \A y \in Entry : NothingOpens(y),
               \A q \in Actors : \/ compilingProfile'[q] = compilingProfile[q] /\ (q \in raced => q \in raced')
                                 \/ compilingProfile'[q] = NoCompile
        PROVE  ProfilesTrue'
    <2>1. ASSUME NEW q \in Actors PROVE ReadTrue(q)'
      <3>1. CASE compilingProfile'[q] = NoCompile
        BY <3>1 DEF ReadTrue
      <3>2. CASE compilingProfile'[q] = compilingProfile[q] /\ (q \in raced => q \in raced')
        BY <1>d, <1>e, <1>7, <3>2, ReadStays
      <3> QED
        BY <1>7, <3>1, <3>2
    <2>2. ASSUME NEW y \in Entry PROVE StoredTrue(y)'
      BY <1>d, <1>e, <1>7, StoredStays
    <2> QED
      BY <2>1, <2>2 DEF ProfilesTrue
  <1>8. ASSUME NEW e \in Editor, NEW x \in Entry, Recompile(e, x) PROVE ProfilesTrue'
    <2>1. e \in Actors /\ UNCHANGED <<entries, statements, profiles, tainted>>
      BY <1>8 DEF Recompile, Actors
    <2>2. \A d \in Editor : editing'[d].pc = editing[d].pc /\ editing'[d].change = editing[d].change
                              /\ editing'[d].since = editing[d].since
      BY <1>8 DEF Recompile, ProfilesTInv, Edit
    <2>3. \A y \in Entry : NothingOpens(y) /\ \A d \in Editor : Open(d, y)' <=> Open(d, y)
      BY <2>2 DEF NothingOpens, Open
    <2>4. CASE Reads(e, x)
      BY <1>6, <2>1, <2>3, <2>4
    <2>5. CASE UNCHANGED <<compilingProfile, raced>>
      BY <1>7, <2>1, <2>3, <2>5
    <2> QED
      BY <1>8, <2>4, <2>5 DEF Recompile
  <1>9. ASSUME NEW e \in Editor, LogTimeline(e) \/ EditorLost(e) PROVE ProfilesTrue'
    <2>1. UNCHANGED <<entries, statements, profiles, tainted>> /\ e \in Actors
      BY <1>9 DEF LogTimeline, EditorLost, Actors
    <2>2. \A d \in Editor : editing'[d] = editing[d] \/ editing'[d].pc # "open"
      BY <1>9 DEF LogTimeline, EditorLost, NoEdit, ProfilesTInv
    <2>3. \A y \in Entry : NothingOpens(y)
      BY <2>2 DEF NothingOpens, Open
    <2>4. \A q \in Actors : \/ compilingProfile'[q] = compilingProfile[q] /\ (q \in raced => q \in raced')
                            \/ compilingProfile'[q] = NoCompile
      BY <1>9, <2>1 DEF LogTimeline, EditorLost, ProfilesTInv
    <2> QED
      BY <1>7, <2>1, <2>3, <2>4
  <1>10. ASSUME NEW p \in ProfileReader, NEW x \in Entry, ReadStale(p, x) PROVE ProfilesTrue'
    <2>1. p \in Actors /\ Reads(p, x) /\ UNCHANGED <<entries, statements, profiles, editing, tainted>>
      BY <1>10 DEF ReadStale, Actors
    <2>2. \A y \in Entry : NothingOpens(y) /\ \A d \in Editor : Open(d, y)' <=> Open(d, y)
      BY <1>f, <2>1 DEF Open
    <2> QED
      BY <1>6, <2>1, <2>2
  <1>11. ASSUME NEW p \in Actors, BeginWrite(p) PROVE ProfilesTrue'
    <2>1. /\ UNCHANGED <<entries, statements, profiles, editing, raced, tainted>>
          /\ compilingProfile[p] # NoCompile /\ compilingProfile[p].since = 0
      BY <1>11 DEF BeginWrite
    <2>2. PICK k \in Compilation \ {NoCompile} : compilingProfile[p] = k
      BY <2>1 DEF ProfilesTInv
    <2>3. /\ compilingProfile'[p] = [k EXCEPT !.since = clock + 1]
          /\ \A q \in Actors \ {p} : compilingProfile'[q] = compilingProfile[q]
      BY <1>11, <2>2 DEF BeginWrite, ProfilesTInv
    <2>4. ReadTrue(p)'
      <3> SUFFICES ASSUME NEW l \in Compilation \ {NoCompile}, compilingProfile'[p] = l, p \notin raced
                   PROVE  Sound(l)'
        BY <2>1 DEF ReadTrue
      <3>1. l.entity = k.entity /\ l.content = k.content /\ l.since = clock + 1 /\ k.entity \in Entry /\ k.since = 0
        BY <2>1, <2>2, <2>3 DEF Compilation
      <3>2. Rests(k.entity, k.content)
        BY <1>d, <2>1, <2>2, <3>1 DEF ReadTrue, Sound
      <3>3. Rests(k.entity, k.content)'
        BY <1>e, <1>f, <2>1, <3>1, <3>2, RestsStays
      <3>4. l.since # 0 /\ Holds(l.entity, l.content, l.since)'
        BY <1>b, <3>1, <3>3 DEF Rests, Holds
      <3> QED
        BY <3>4 DEF Sound
    <2>5. ASSUME NEW q \in Actors, q # p PROVE ReadTrue(q)'
      BY <1>d, <1>e, <1>f, <2>1, <2>3, <2>5, ReadStays
    <2>6. ASSUME NEW y \in Entry PROVE StoredTrue(y)'
      BY <1>d, <1>e, <1>f, <2>1, StoredStays
    <2> QED
      BY <2>4, <2>5, <2>6 DEF ProfilesTrue
  <1>12. ASSUME NEW p \in Actors, WriteProfile(p) PROVE ProfilesTrue'
    <2>1. /\ UNCHANGED <<entries, statements, editing>> /\ compilingProfile[p].since # 0
          /\ raced' = raced \ {p}
      BY <1>12 DEF WriteProfile
    <2>2. PICK k \in Compilation \ {NoCompile} : compilingProfile[p] = k
      BY <2>1 DEF ProfilesTInv, NoCompile
    <2>3. /\ compilingProfile'[p] = NoCompile
          /\ \A q \in Actors \ {p} : compilingProfile'[q] = compilingProfile[q] /\ (q \in raced => q \in raced')
      BY <1>12, <2>1 DEF WriteProfile, ProfilesTInv
    <2>4. ASSUME NEW q \in Actors PROVE ReadTrue(q)'
      <3>1. CASE q = p
        BY <2>3, <3>1 DEF ReadTrue
      <3>2. CASE q # p
        BY <1>d, <1>e, <1>f, <2>1, <2>3, <3>2, ReadStays
      <3> QED
        BY <3>1, <3>2
    <2>5. ASSUME NEW y \in Entry PROVE StoredTrue(y)'
      <3>1. CASE UNCHANGED <<profiles, tainted>>
        BY <1>d, <1>e, <1>f, <2>1, <3>1, StoredStays
      <3>2. CASE /\ profiles' = [profiles EXCEPT ![compilingProfile[p].entity] =
                        [content |-> compilingProfile[p].content, at |-> compilingProfile[p].since]]
                 /\ tainted' = IF p \in raced THEN tainted \cup {compilingProfile[p].entity}
                               ELSE tainted \ {compilingProfile[p].entity}
        <4>1. CASE y # compilingProfile[p].entity
          <5>1. profiles'[y] = profiles[y] /\ (y \in tainted => y \in tainted')
            BY <3>2, <4>1 DEF ProfilesTInv
          <5> QED
            BY <1>d, <1>e, <1>f, <2>1, <5>1, StoredStays
        <4>2. CASE y = compilingProfile[p].entity
          <5> SUFFICES ASSUME NEW r \in ProfileRow \ {NoProfile}, profiles'[y] = r, y \notin tainted'
                       PROVE  Holds(y, r.content, r.at)'
            BY DEF StoredTrue
          <5>1. r.content = k.content /\ r.at = k.since /\ p \notin raced /\ y = k.entity
            BY <2>2, <3>2, <4>2 DEF ProfilesTInv
          <5>2. Holds(y, k.content, k.since)
            BY <1>d, <2>1, <2>2, <5>1 DEF ReadTrue, Sound
          <5> QED
            BY <1>e, <1>f, <2>1, <5>1, <5>2, HoldsStays DEF NothingOpens
        <4> QED
          BY <4>1, <4>2
      <3> QED
        BY <1>12, <3>1, <3>2 DEF WriteProfile
    <2> QED
      BY <2>4, <2>5 DEF ProfilesTrue
  <1>13. ASSUME UNCHANGED profileVars PROVE ProfilesTrue'
    <2>1. UNCHANGED <<entries, statements, profiles, tainted, editing, compilingProfile, raced>>
      BY <1>13 DEF profileVars
    <2> QED
      BY <1>7, <1>f, <2>1
  <1> QED
    BY <1>1, <1>3, <1>4, <1>5, <1>8, <1>9, <1>10, <1>11, <1>12, <1>13 DEF ProfilesNext

LEMMA ProfilesAlways == ProfilesSpec => [](ProfilesTInv /\ ProfilesTrue)
  <1>1. ProfilesInit => ProfilesTInv /\ ProfilesTrue
    BY ProfilesInitInv
  <1>2. ProfilesTInv /\ ProfilesTrue /\ [ProfilesNext]_profileVars => (ProfilesTInv /\ ProfilesTrue)'
    BY ProfilesNextTInv, ProfilesNextTrue
  <1> QED
    BY <1>1, <1>2, PTL DEF ProfilesSpec

\* No change of an entity, a fact or a profile is later than the clock, for any
\* number of editors, readers, entities and facts.
THEOREM ProfilesTypeCorrect == ProfilesSpec => []ProfilesTypeOK
  <1>1. ProfilesTInv => ProfilesTypeOK
    BY DEF ProfilesTInv, ProfilesTypeOK
  <1> QED
    BY <1>1, ProfilesAlways, PTL

\* A profile that is served as it is tells the entity's name and its active
\* facts, whatever hooks fail or never run and however changes and compilations
\* overlap, unless a change of the entity overlapped the compilation it is from.
THEOREM FreshCorrect == ProfilesSpec => []FreshIsTrue
  <1>1. ProfilesTInv /\ ProfilesTrue => FreshIsTrue
    <2> SUFFICES ASSUME ProfilesTInv, ProfilesTrue, NEW x \in Entry \ tainted, Fresh(x)
                 PROVE  Tells(x, profiles[x].content)
      BY DEF FreshIsTrue, Tells
    <2>1. /\ profiles[x] \in ProfileRow \ {NoProfile}
          /\ profiles[x].at \in Nat /\ profiles[x].at >= LastChange(x)
      BY DEF Fresh, ProfilesTInv, ProfileRow
    <2>2. /\ LastChange(x) \in Nat /\ entries[x].at \in Nat /\ entries[x].at <= LastChange(x)
          /\ \A f \in Statement : statements[f].at \in Nat
          /\ \A f \in Statement : Ends[f][1] = x => statements[f].at <= LastChange(x)
      BY LastChangeBounds DEF ProfilesTInv
    <2>3. NoYounger(x, profiles[x].at)
      BY <2>1, <2>2 DEF NoYounger
    <2> QED
      BY <2>1, <2>3 DEF ProfilesTrue, StoredTrue, Holds
  <1> QED
    BY <1>1, ProfilesAlways, PTL

-------------------------------------------------------------------------------
(****************************************************************************)
(* Files.                                                                   *)
(****************************************************************************)
Upload == [pc : {"off", "write", "commit"}, package : Package \cup {NoPackage}]
Acquisition == [pc : {"off", "acquire", "answered", "unavailable"}, pin : Package \cup {NoPackage},
                seen : {"none", "absent", "torn", "whole"}]

\* What is under way names a package; and what a torn or missing directory
\* showed is never an answer.
FilesTInv ==
    /\ disk \in [Package -> {"absent", "torn", "whole"}]
    /\ dataset \in [staged : Package \cup {NoPackage}, published : Package \cup {NoPackage}]
    /\ revisions \in [Package -> {"none", "staged", "published"}]
    /\ imported \subseteq Package
    /\ staging \in [Uploader -> Upload]
    /\ \A u \in Uploader : staging[u] # NotStaging => staging[u].package \in Package
    /\ releasing \in [PublishRequest -> Package \cup {NoPackage}]
    /\ acquiring \in [Acquirer -> Acquisition]
    /\ \A q \in Acquirer : acquiring[q] # NotAcquiring => acquiring[q].pin \in Package

\* What is published or pinned is a published revision, and its directory was
\* written once at least: no acquisition finds it absent.
Written(p) == disk[p] # "absent"
FilesServed ==
    /\ \A p \in Package : revisions[p] # "none" => Written(p)
    /\ \A u \in Uploader : staging[u] # NotStaging => Written(staging[u].package)
    /\ \A r \in PublishRequest : releasing[r] # NoPackage => Written(releasing[r])
    /\ dataset.staged # NoPackage => Written(dataset.staged)
    /\ dataset.published # NoPackage => revisions[dataset.published] = "published"
    /\ \A q \in Acquirer : acquiring[q] # NotAcquiring =>
          /\ revisions[acquiring[q].pin] = "published"
          /\ acquiring[q].seen # "absent"
          /\ acquiring[q].pc = "answered" => acquiring[q].seen = "whole"

LEMMA FilesInitInv == FilesInit => FilesTInv /\ FilesServed
  BY FileConstants DEF FilesInit, FilesTInv, FilesServed, NotStaging, NotAcquiring, Upload, Acquisition,
     Written, FileConstants

\* Every step keeps the types and serves what is pinned.
LEMMA FilesNextInv == FilesTInv /\ FilesServed /\ [FilesNext]_fileVars => (FilesTInv /\ FilesServed)'
  <1> SUFFICES ASSUME FilesTInv, FilesServed, [FilesNext]_fileVars PROVE FilesTInv' /\ FilesServed'
    OBVIOUS
  <1>a. NoPackage \notin Package /\ ValidPackage \subseteq Package
    BY FileConstants DEF FileConstants
  <1> USE DEF NotStaging, NotAcquiring, Upload, Acquisition, Written
  <1>1. ASSUME NEW u \in Uploader, NEW p \in Package, BeginStaging(u, p) PROVE FilesTInv' /\ FilesServed'
    <2>1. FilesTInv'
      BY <1>1, <1>a DEF BeginStaging, FilesTInv
    <2>2. \A x \in Package : Written(x) => Written(x)'
      BY <1>1 DEF BeginStaging, FilesTInv
    <2>3. Written(p)'
      BY <1>1 DEF BeginStaging, FilesTInv
    <2>4. FilesServed'
      BY <1>1, <2>2, <2>3 DEF BeginStaging, FilesTInv, FilesServed
    <2> QED
      BY <2>1, <2>4
  <1>2. ASSUME NEW u \in Uploader, FinishWriting(u) PROVE FilesTInv' /\ FilesServed'
    <2>1. FilesTInv'
      BY <1>2, <1>a DEF FinishWriting, FilesTInv
    <2>2. \A x \in Package : Written(x) => Written(x)'
      BY <1>2 DEF FinishWriting, FilesTInv
    <2>3. FilesServed'
      BY <1>2, <2>2 DEF FinishWriting, FilesTInv, FilesServed
    <2> QED
      BY <2>1, <2>3
  <1>3. ASSUME NEW u \in Uploader, CommitStaging(u) PROVE FilesTInv' /\ FilesServed'
    <2>1. staging[u].package \in Package /\ Written(staging[u].package)
      BY <1>3 DEF CommitStaging, FilesTInv, FilesServed
    <2>2. FilesTInv'
      BY <1>3, <1>a, <2>1 DEF CommitStaging, FilesTInv
    <2>3. FilesServed'
      BY <1>3, <2>1, <1>a DEF CommitStaging, FilesTInv, FilesServed
    <2> QED
      BY <2>2, <2>3
  <1>4. ASSUME NEW u \in Uploader, UploaderLost(u) PROVE FilesTInv' /\ FilesServed'
    <2>1. FilesTInv'
      BY <1>4 DEF UploaderLost, FilesTInv
    <2>2. FilesServed'
      BY <1>4 DEF UploaderLost, FilesTInv, FilesServed
    <2> QED
      BY <2>1, <2>2
  <1>5. ASSUME NEW r \in PublishRequest, BeginPublish(r) PROVE FilesTInv' /\ FilesServed'
    <2>1. FilesTInv'
      BY <1>5 DEF BeginPublish, FilesTInv
    <2>2. FilesServed'
      BY <1>5 DEF BeginPublish, FilesTInv, FilesServed
    <2> QED
      BY <2>1, <2>2
  <1>6. ASSUME NEW r \in PublishRequest, PublishDataset(r) PROVE FilesTInv' /\ FilesServed'
    <2>1. releasing[r] \in Package /\ Written(releasing[r])
      BY <1>6 DEF PublishDataset, FilesTInv, FilesServed
    <2>2. FilesTInv'
      BY <1>6, <2>1 DEF PublishDataset, FilesTInv
    <2>3. FilesServed'
      BY <1>6, <2>1, <1>a DEF PublishDataset, FilesTInv, FilesServed
    <2> QED
      BY <2>2, <2>3
  <1>7. ASSUME NEW r \in PublishRequest, PublishAborts(r) PROVE FilesTInv' /\ FilesServed'
    <2>1. FilesTInv'
      BY <1>7 DEF PublishAborts, FilesTInv
    <2>2. FilesServed'
      BY <1>7 DEF PublishAborts, FilesTInv, FilesServed
    <2> QED
      BY <2>1, <2>2
  <1>8. ASSUME NEW q \in Acquirer, PinDataset(q) PROVE FilesTInv' /\ FilesServed'
    <2>1. FilesTInv'
      BY <1>8 DEF PinDataset, FilesTInv
    <2>2. FilesServed'
      BY <1>8 DEF PinDataset, FilesTInv, FilesServed
    <2> QED
      BY <2>1, <2>2
  <1>9. ASSUME NEW q \in Acquirer, AcquireObservation(q) PROVE FilesTInv' /\ FilesServed'
    <2>1. acquiring[q].pin \in Package /\ disk[acquiring[q].pin] \in {"torn", "whole"}
          /\ revisions[acquiring[q].pin] = "published"
      BY <1>9 DEF AcquireObservation, FilesTInv, FilesServed
    <2> DEFINE next == [acquiring[q] EXCEPT !.seen = disk[acquiring[q].pin],
                            !.pc = IF revisions[acquiring[q].pin] = "published" /\ disk[acquiring[q].pin] = "whole"
                                   THEN "answered" ELSE @]
    <2>2. /\ next \in Acquisition /\ next.pin = acquiring[q].pin /\ next.seen = disk[acquiring[q].pin]
          /\ next.pc = "answered" => next.seen = "whole"
      BY <1>9, <2>1 DEF AcquireObservation, FilesTInv
    <2>3. acquiring' = [acquiring EXCEPT ![q] = next] /\ UNCHANGED <<disk, dataset, revisions, imported, staging, releasing>>
      BY <1>9 DEF AcquireObservation
    <2> HIDE DEF next
    <2>4. FilesTInv'
      BY <2>1, <2>2, <2>3 DEF FilesTInv
    <2>5. FilesServed'
      BY <2>1, <2>2, <2>3 DEF FilesTInv, FilesServed
    <2> QED
      BY <2>4, <2>5
  <1>10. ASSUME NEW q \in Acquirer, AnswerUnavailable(q) PROVE FilesTInv' /\ FilesServed'
    <2>1. FilesTInv'
      BY <1>10 DEF AnswerUnavailable, FilesTInv
    <2>2. FilesServed'
      BY <1>10 DEF AnswerUnavailable, FilesTInv, FilesServed
    <2> QED
      BY <2>1, <2>2
  <1>11. ASSUME NEW q \in Acquirer, EndAcquisition(q) PROVE FilesTInv' /\ FilesServed'
    <2>1. FilesTInv'
      BY <1>11, <1>a DEF EndAcquisition, FilesTInv
    <2>2. FilesServed'
      BY <1>11 DEF EndAcquisition, FilesTInv, FilesServed
    <2> QED
      BY <2>1, <2>2
  <1>12. ASSUME UNCHANGED fileVars PROVE FilesTInv' /\ FilesServed'
    BY <1>12 DEF fileVars, FilesTInv, FilesServed
  <1> QED
    BY <1>1, <1>2, <1>3, <1>4, <1>5, <1>6, <1>7, <1>8, <1>9, <1>10, <1>11, <1>12 DEF FilesNext

LEMMA FilesAlways == FilesSpec => [](FilesTInv /\ FilesServed)
  BY FilesInitInv, FilesNextInv, PTL DEF FilesSpec

\* Directories, revisions and acquisitions keep the shapes the code gives them.
THEOREM FilesTypeCorrect == FilesSpec => []FilesTypeOK
  <1>1. FilesTInv /\ FilesServed => FilesTypeOK
    BY DEF FilesTInv, FilesServed, FilesTypeOK, Acquisition, NotAcquiring
  <1> QED
    BY <1>1, FilesAlways, PTL

\* A pinned revision stays published for as long as it is used, and an answer
\* is never computed from a torn file, for any number of packages, uploads,
\* publications and acquisitions, however they are interleaved or lost.
THEOREM PinnedCorrect == FilesSpec => []PinnedIsServedWhole
  <1>1. FilesTInv /\ FilesServed => PinnedIsServedWhole
    BY DEF FilesTInv, FilesServed, PinnedIsServedWhole
  <1> QED
    BY <1>1, FilesAlways, PTL

-------------------------------------------------------------------------------
(****************************************************************************)
(* Synchronisation.                                                         *)
(****************************************************************************)
Job == [pc : {"off", "load", "fetch", "rows", "insert", "merge", "look up fact", "fact"},
        since : Nat, at : Nat, todo : SUBSET (RowCode \X Nat), taken : Nat,
        row : (RowCode \X Nat) \cup {NoRow}, failed : SUBSET RowCode]
WithRow == {"insert", "merge", "look up fact", "fact"}
Fetched == {"rows"} \cup WithRow

SyncTInv ==
    /\ connector \in {"none", "active", "disabled"}
    /\ rule \in [registered : BOOLEAN, stamp : Nat,
                 status : {"none", "running", "completed", "failed", "interrupted"}]
    /\ rule.stamp <= time
    /\ stale \in BOOLEAN /\ marking \in {"nobody", "trigger", "scan"}
    /\ enqueued \in [all : Nat, waiting : Nat] /\ enqueued.waiting <= enqueued.all
    /\ time \in Nat
    /\ outside \in [RowCode -> Nat] /\ \A c \in RowCode : outside[c] <= time
    /\ copies \in [RowCode -> [entities : Nat, facts : Nat, holds : Nat]]
    /\ syncing \in [SyncWorker -> Job]
    /\ \A w \in SyncWorker : syncing[w].pc \in WithRow => syncing[w].row \in RowCode \X Nat
    /\ lastSync \in [at : Nat, failed : SUBSET RowCode] /\ lastSync.at <= time
    /\ overlapped \in BOOLEAN

\* A row that was fetched is the outside row of some time up to the fetch, and
\* the outside row as it is unless that has changed since the fetch.
Faithful(row, at) ==
    /\ 1 <= row[2] /\ row[2] <= outside[row[1]]
    /\ outside[row[1]] <= at => row[2] = outside[row[1]]

\* What the rows of a job are.
RowsFaithful(w) ==
    /\ \A row \in syncing[w].todo : Faithful(row, syncing[w].at)
    /\ syncing[w].pc \in WithRow => Faithful(syncing[w].row, syncing[w].at)
    /\ IF syncing[w].pc \in Fetched THEN syncing[w].at <= time ELSE syncing[w].todo = {}

\* What is copied at any time: nothing of a code that has no row.
CopyFaithful(c) == copies[c].holds <= outside[c]

\* A code that has not changed since the fetch of the job is copied, has failed,
\* is at hand or is still to come.
Accounted(w, c) ==
    \/ copies[c].holds = outside[c]
    \/ c \in syncing[w].failed
    \/ syncing[w].pc \in {"insert", "merge"} /\ syncing[w].row[1] = c
    \/ <<c, outside[c]>> \in syncing[w].todo
JobAccounts(w) ==
    /\ syncing[w].pc = "fetch" => syncing[w].since = 0
    /\ syncing[w].pc \in Fetched =>
          /\ lastSync.at <= syncing[w].at
          /\ \A c \in RowCode : outside[c] <= syncing[w].at => Accounted(w, c)

\* The entity and the fact of the row at hand.
CopyAtHand(w) ==
    LET c == syncing[w].row[1]
    IN  /\ syncing[w].pc = "insert" => copies[c].entities = 0
        /\ syncing[w].pc \in {"merge", "look up fact", "fact"} => copies[c].entities = 1
        /\ syncing[w].pc = "fact" => copies[c].facts = 0

SyncFaithful ==
    /\ \A w \in SyncWorker : RowsFaithful(w)
    /\ \A c \in RowCode : CopyFaithful(c)
    /\ ~overlapped =>
          /\ \A u, w \in SyncWorker : syncing[u] # NoJob /\ syncing[w] # NoJob => u = w
          /\ \A w \in SyncWorker : CopyAtHand(w)
          /\ \A c \in RowCode : copies[c].entities <= 1 /\ copies[c].facts <= copies[c].entities
          /\ ~Incremental => CaughtUp /\ \A w \in SyncWorker : JobAccounts(w)

LEMMA SyncInitInv == SyncInit => SyncTInv /\ SyncFaithful
  <1> SUFFICES ASSUME SyncInit PROVE SyncTInv /\ SyncFaithful
    OBVIOUS
  <1>1. NoJob \in Job /\ NoJob.pc = "off" /\ NoJob.todo = {}
    BY DEF NoJob, Job
  <1>2. SyncTInv
    <2>1. syncing \in [SyncWorker -> Job] /\ \A w \in SyncWorker : syncing[w].pc \notin WithRow
      BY <1>1 DEF SyncInit, WithRow
    <2>2. /\ rule \in [registered : BOOLEAN, stamp : Nat,
                      status : {"none", "running", "completed", "failed", "interrupted"}]
          /\ rule.stamp = 0 /\ enqueued \in [all : Nat, waiting : Nat] /\ enqueued.waiting = enqueued.all
          /\ lastSync \in [at : Nat, failed : SUBSET RowCode] /\ lastSync.at = 0 /\ time = 0
      BY DEF SyncInit
    <2>3. /\ outside \in [RowCode -> Nat] /\ \A c \in RowCode : outside[c] = 0
          /\ copies \in [RowCode -> [entities : Nat, facts : Nat, holds : Nat]]
      BY DEF SyncInit
    <2>4. connector = "none" /\ stale \in BOOLEAN /\ marking = "nobody" /\ overlapped \in BOOLEAN
      BY DEF SyncInit
    <2> QED
      BY <2>1, <2>2, <2>3, <2>4 DEF SyncTInv
  <1>3. \A w \in SyncWorker : syncing[w] = NoJob /\ RowsFaithful(w) /\ CopyAtHand(w) /\ JobAccounts(w)
    BY <1>1 DEF SyncInit, RowsFaithful, CopyAtHand, JobAccounts, WithRow, Fetched
  <1>4. \A c \in RowCode : copies[c].entities = 0 /\ copies[c].facts = 0 /\ copies[c].holds = 0 /\ outside[c] = 0
    BY DEF SyncInit
  <1>5. CaughtUp
    BY <1>4 DEF CaughtUp
  <1>6. \A c \in RowCode : CopyFaithful(c) /\ copies[c].entities <= 1 /\ copies[c].facts <= copies[c].entities
    BY <1>4 DEF CopyFaithful
  <1> QED
    BY <1>2, <1>3, <1>5, <1>6 DEF SyncFaithful

-------------------------------------------------------------------------------
\* A job goes on to a state of its own; the others stay as they are.
LEMMA JobTyped ==
    ASSUME SyncTInv, NEW w \in SyncWorker, NEW job \in Job, syncing' = [syncing EXCEPT ![w] = job],
           job.pc \in WithRow => job.row \in RowCode \X Nat
    PROVE  /\ syncing' \in [SyncWorker -> Job]
           /\ \A u \in SyncWorker : syncing'[u].pc \in WithRow => syncing'[u].row \in RowCode \X Nat
           /\ syncing'[w] = job /\ \A u \in SyncWorker \ {w} : syncing'[u] = syncing[u]
  BY DEF SyncTInv

\* What each step of a job makes of it.
JobStep(w, job) ==
    /\ job \in Job /\ syncing' = [syncing EXCEPT ![w] = job]
    /\ job.pc \in WithRow => job.row \in RowCode \X Nat

LEMMA NoJobTyped == NoJob \in Job /\ NoJob.pc = "off" /\ NoJob.todo = {}
  BY DEF NoJob, Job

LEMMA LoadRuleStep ==
    ASSUME SyncTInv, NEW w \in SyncWorker, LoadRule(w)
    PROVE  \E job : /\ JobStep(w, job) /\ job.pc = "fetch" /\ job.todo = syncing[w].todo
                    /\ job.at = syncing[w].at /\ job.since = IF Incremental THEN rule.stamp ELSE 0
  <1> DEFINE job == [syncing[w] EXCEPT !.pc = "fetch", !.since = IF Incremental THEN rule.stamp ELSE 0]
  <1>0. syncing[w] \in Job
    BY DEF SyncTInv
  <1>1. rule.stamp \in Nat
    BY DEF SyncTInv
  <1>2. job \in Job /\ job.pc = "fetch" /\ job.todo = syncing[w].todo /\ job.at = syncing[w].at
        /\ job.since = IF Incremental THEN rule.stamp ELSE 0
    BY <1>0, <1>1, SyncConstants DEF Job, SyncConstants
  <1>3. syncing' = [syncing EXCEPT ![w] = job]
    BY DEF LoadRule
  <1> HIDE DEF job
  <1> QED
    BY <1>2, <1>3 DEF JobStep, WithRow

LEMMA FetchRowsStep ==
    ASSUME SyncTInv, NEW w \in SyncWorker, FetchRows(w)
    PROVE  \E job : /\ JobStep(w, job) /\ job.pc = "rows" /\ job.at = time
                    /\ job.todo = {<<c, outside[c]>> : c \in {c \in RowCode : outside[c] > syncing[w].since}}
  <1> DEFINE rows == {<<c, outside[c]>> : c \in {c \in RowCode : outside[c] > syncing[w].since}}
  <1> DEFINE job == [syncing[w] EXCEPT !.pc = "rows", !.at = time, !.todo = rows]
  <1>0. syncing[w] \in Job
    BY DEF SyncTInv
  <1>1. rows \in SUBSET (RowCode \X Nat) /\ time \in Nat
    BY DEF SyncTInv
  <1>2. syncing' = [syncing EXCEPT ![w] = job]
    BY DEF FetchRows
  <1> HIDE DEF rows
  <1>3. job \in Job /\ job.pc = "rows" /\ job.at = time /\ job.todo = rows
    BY <1>0, <1>1 DEF Job
  <1> HIDE DEF job
  <1> QED
    BY <1>2, <1>3 DEF JobStep, WithRow, rows

LEMMA TakeRowStep ==
    ASSUME SyncTInv, NEW w \in SyncWorker, NEW row, TakeRow(w, row)
    PROVE  \E job : /\ JobStep(w, job) /\ job.row = row /\ job.todo = syncing[w].todo \ {row}
                    /\ job.at = syncing[w].at /\ job.failed = syncing[w].failed
                    /\ job.pc = IF copies[row[1]].entities = 0 THEN "insert" ELSE "merge"
  <1> DEFINE job == [syncing[w] EXCEPT !.todo = @ \ {row}, !.taken = @ + 1, !.row = row,
                         !.pc = IF copies[row[1]].entities = 0 THEN "insert" ELSE "merge"]
  <1>0. syncing[w] \in Job
    BY DEF SyncTInv
  <1>1. row \in RowCode \X Nat
    BY DEF TakeRow, SyncTInv, Job
  <1>2. syncing' = [syncing EXCEPT ![w] = job]
    BY DEF TakeRow
  <1>3. job \in Job /\ job.row = row /\ job.todo = syncing[w].todo \ {row}
        /\ job.at = syncing[w].at /\ job.failed = syncing[w].failed
        /\ job.pc = IF copies[row[1]].entities = 0 THEN "insert" ELSE "merge"
    <2>0. syncing[w].todo \subseteq RowCode \X Nat /\ syncing[w].taken \in Nat
      BY <1>0 DEF Job
    <2>1. syncing[w].todo \ {row} \in SUBSET (RowCode \X Nat) /\ syncing[w].taken + 1 \in Nat
      BY <2>0
    <2> DEFINE pc == IF copies[row[1]].entities = 0 THEN "insert" ELSE "merge"
    <2>2. pc \in {"insert", "merge"} /\ job = [syncing[w] EXCEPT !.todo = syncing[w].todo \ {row},
                                                  !.taken = syncing[w].taken + 1, !.row = row, !.pc = pc]
      OBVIOUS
    <2> HIDE DEF job, pc
    <2>3. job \in Job /\ job.row = row /\ job.todo = syncing[w].todo \ {row}
          /\ job.at = syncing[w].at /\ job.failed = syncing[w].failed /\ job.pc = pc
      BY <1>0, <1>1, <2>1, <2>2 DEF Job
    <2> QED
      BY <2>3 DEF pc
  <1> HIDE DEF job
  <1> QED
    BY <1>1, <1>2, <1>3 DEF JobStep

\* The steps that only go on to the next one.
LEMMA MoveStep ==
    ASSUME SyncTInv, NEW w \in SyncWorker, NEW pc \in {"rows", "look up fact", "fact"}, syncing[w].pc \in WithRow,
           syncing' = [syncing EXCEPT ![w].pc = pc]
    PROVE  \E job : /\ JobStep(w, job) /\ job.pc = pc /\ job.row = syncing[w].row /\ job.todo = syncing[w].todo
                    /\ job.at = syncing[w].at /\ job.failed = syncing[w].failed
  <1> DEFINE job == [syncing[w] EXCEPT !.pc = pc]
  <1>0. syncing[w] \in Job
    BY DEF SyncTInv
  <1>1. job \in Job /\ job.pc = pc /\ job.row = syncing[w].row /\ job.todo = syncing[w].todo
        /\ job.at = syncing[w].at /\ job.failed = syncing[w].failed
    BY <1>0 DEF Job
  <1>2. syncing[w].row \in RowCode \X Nat
    BY DEF SyncTInv
  <1> HIDE DEF job
  <1> QED
    BY <1>1, <1>2 DEF JobStep, job

LEMMA RowFailsStep ==
    ASSUME SyncTInv, NEW w \in SyncWorker, RowFails(w)
    PROVE  \E job : /\ JobStep(w, job) /\ job.pc = "rows" /\ job.row = syncing[w].row /\ job.todo = syncing[w].todo
                    /\ job.at = syncing[w].at /\ job.failed = syncing[w].failed \cup {syncing[w].row[1]}
  <1> DEFINE job == [syncing[w] EXCEPT !.pc = "rows", !.failed = @ \cup {syncing[w].row[1]}]
  <1>0. syncing[w] \in Job
    BY DEF SyncTInv
  <1>1. syncing[w].row \in RowCode \X Nat
    BY DEF SyncTInv, RowFails, WithRow
  <1>2. job \in Job /\ job.pc = "rows" /\ job.row = syncing[w].row /\ job.todo = syncing[w].todo
        /\ job.at = syncing[w].at /\ job.failed = syncing[w].failed \cup {syncing[w].row[1]}
    BY <1>0, <1>1 DEF Job
  <1>3. syncing' = [syncing EXCEPT ![w] = job]
    BY DEF RowFails
  <1> HIDE DEF job
  <1> QED
    BY <1>1, <1>2, <1>3 DEF JobStep

\* The copy of one code, as the two steps that write it leave it.
LEMMA WriteEntityStep ==
    ASSUME SyncTInv, NEW w \in SyncWorker, WriteEntity(w)
    PROVE  LET c == syncing[w].row[1]
           IN  /\ copies' \in [RowCode -> [entities : Nat, facts : Nat, holds : Nat]]
               /\ copies'[c].holds = syncing[w].row[2] /\ copies'[c].facts = copies[c].facts
               /\ copies'[c].entities = IF syncing[w].pc = "insert" THEN copies[c].entities + 1 ELSE copies[c].entities
               /\ \A d \in RowCode \ {c} : copies'[d] = copies[d]
  <1> DEFINE c == syncing[w].row[1]
  <1> DEFINE copy == [copies[c] EXCEPT !.entities = IF syncing[w].pc = "insert" THEN @ + 1 ELSE @,
                                       !.holds = syncing[w].row[2]]
  <1>0. copies \in [RowCode -> [entities : Nat, facts : Nat, holds : Nat]]
    BY DEF SyncTInv
  <1>1. syncing[w].row \in RowCode \X Nat
    BY DEF SyncTInv, WriteEntity, WithRow
  <1>2. copies' = [copies EXCEPT ![c] = copy]
    BY DEF WriteEntity
  <1>3. /\ copy \in [entities : Nat, facts : Nat, holds : Nat]
        /\ copy.holds = syncing[w].row[2] /\ copy.facts = copies[c].facts
        /\ copy.entities = IF syncing[w].pc = "insert" THEN copies[c].entities + 1 ELSE copies[c].entities
    <2>1. copies[c] \in [entities : Nat, facts : Nat, holds : Nat] /\ syncing[w].row[2] \in Nat
      BY <1>0, <1>1
    <2> DEFINE n == IF syncing[w].pc = "insert" THEN copies[c].entities + 1 ELSE copies[c].entities
    <2>2. n \in Nat
      BY <2>1
    <2>3. copy = [copies[c] EXCEPT !.entities = n, !.holds = syncing[w].row[2]]
      OBVIOUS
    <2> HIDE DEF copy, c, n
    <2>4. copy \in [entities : Nat, facts : Nat, holds : Nat] /\ copy.holds = syncing[w].row[2]
          /\ copy.facts = copies[c].facts /\ copy.entities = n
      BY <2>1, <2>2, <2>3
    <2> QED
      BY <2>4 DEF n
  <1> HIDE DEF copy
  <1> QED
    BY <1>0, <1>1, <1>2, <1>3

LEMMA AddFactStep ==
    ASSUME SyncTInv, NEW w \in SyncWorker, AddFact(w)
    PROVE  LET c == syncing[w].row[1]
           IN  /\ copies' \in [RowCode -> [entities : Nat, facts : Nat, holds : Nat]]
               /\ copies'[c].holds = copies[c].holds /\ copies'[c].facts = copies[c].facts + 1
               /\ copies'[c].entities = copies[c].entities
               /\ \A d \in RowCode \ {c} : copies'[d] = copies[d]
  <1> DEFINE c == syncing[w].row[1]
  <1>1. syncing[w].row \in RowCode \X Nat
    BY DEF SyncTInv, AddFact, WithRow
  <1>2. copies' = [copies EXCEPT ![c] = [copies[c] EXCEPT !.facts = @ + 1]]
    BY DEF AddFact
  <1> QED
    BY <1>1, <1>2 DEF SyncTInv

\* The rule keeps its shape, and its stamp is of the past.
RuleRow == [registered : BOOLEAN, stamp : Nat, status : {"none", "running", "completed", "failed", "interrupted"}]

LEMMA RuleTyped ==
    ASSUME SyncTInv, NEW status \in {"none", "running", "completed", "failed", "interrupted"}
    PROVE  /\ rule \in RuleRow /\ Stamped(status) \in RuleRow /\ Stamped(status).stamp = time
           /\ [rule EXCEPT !.status = status] \in RuleRow /\ [rule EXCEPT !.status = status].stamp = rule.stamp
           /\ [rule EXCEPT !.registered = TRUE] \in RuleRow /\ [rule EXCEPT !.registered = TRUE].stamp = rule.stamp
  <1>1. rule \in RuleRow /\ time \in Nat
    BY DEF SyncTInv, RuleRow
  <1> QED
    BY <1>1 DEF RuleRow, Stamped

LEMMA EnqueueTyped ==
    ASSUME SyncTInv, Enqueue
    PROVE  enqueued' \in [all : Nat, waiting : Nat] /\ enqueued'.waiting <= enqueued'.all
  <1>1. enqueued \in [all : Nat, waiting : Nat] /\ enqueued.waiting <= enqueued.all
    BY DEF SyncTInv
  <1>2. enqueued' = enqueued \/ enqueued' = [all |-> enqueued.all + 1, waiting |-> enqueued.waiting + 1]
    BY DEF Enqueue
  <1> QED
    BY <1>1, <1>2

\* The steps of a job keep the types: each changes the job, perhaps the rule,
\* the copies or the record of the last job.
LEMMA WorkTyped ==
    ASSUME SyncTInv, NEW w \in SyncWorker, \E job : JobStep(w, job),
           UNCHANGED <<connector, marking, time, outside>>,
           rule' \in RuleRow, rule'.stamp <= time, stale' \in BOOLEAN, overlapped' \in BOOLEAN,
           enqueued' \in [all : Nat, waiting : Nat], enqueued'.waiting <= enqueued'.all,
           copies' \in [RowCode -> [entities : Nat, facts : Nat, holds : Nat]],
           lastSync' \in [at : Nat, failed : SUBSET RowCode], lastSync'.at <= time
    PROVE  SyncTInv'
  <1>1. /\ syncing' \in [SyncWorker -> Job]
        /\ \A u \in SyncWorker : syncing'[u].pc \in WithRow => syncing'[u].row \in RowCode \X Nat
    BY JobTyped DEF JobStep
  <1> QED
    BY <1>1 DEF SyncTInv, RuleRow

LEMMA SyncNextTInv == SyncTInv /\ SyncFaithful /\ [SyncNext]_syncVars => SyncTInv'
  <1> SUFFICES ASSUME SyncTInv, SyncFaithful, [SyncNext]_syncVars PROVE SyncTInv'
    OBVIOUS
  <1> USE DEF ruleVars
  <1>a. /\ rule \in RuleRow /\ rule.stamp <= time /\ time \in Nat /\ rule.stamp \in Nat
        /\ stale \in BOOLEAN /\ overlapped \in BOOLEAN
        /\ enqueued \in [all : Nat, waiting : Nat] /\ enqueued.waiting <= enqueued.all
        /\ copies \in [RowCode -> [entities : Nat, facts : Nat, holds : Nat]]
        /\ lastSync \in [at : Nat, failed : SUBSET RowCode] /\ lastSync.at <= time
    BY DEF SyncTInv, RuleRow
  <1>b. \A w \in SyncWorker : syncing[w] \in Job
    BY DEF SyncTInv
  <1>c. ASSUME NEW w \in SyncWorker, syncing' = [syncing EXCEPT ![w] = NoJob] PROVE \E job : JobStep(w, job)
    BY <1>c, NoJobTyped DEF JobStep, WithRow
  <1>d. ASSUME NEW status \in {"running", "completed"}, rule' = Stamped(status), stale' = FALSE
        PROVE  rule' \in RuleRow /\ rule'.stamp <= time /\ stale' \in BOOLEAN
    <2>1. Stamped(status) \in RuleRow /\ Stamped(status).stamp = time /\ time <= time
      BY <1>a, RuleTyped
    <2>2. stale' \in BOOLEAN
      BY <1>d
    <2> QED
      BY <1>d, <2>1, <2>2
  <1>1. ASSUME NEW c \in RowCode, RowChanges(c) PROVE SyncTInv'
    <2>1. time' = time + 1 /\ time' \in Nat /\ rule.stamp <= time' /\ lastSync.at <= time' /\ lastSync.at \in Nat
      BY <1>1, <1>a DEF RowChanges
    <2>2. outside' \in [RowCode -> Nat] /\ \A d \in RowCode : outside'[d] <= time'
      BY <1>1, <2>1 DEF RowChanges, SyncTInv
    <2> QED
      BY <1>1, <2>1, <2>2 DEF RowChanges, SyncTInv
  <1>2. ASSUME NEW status \in {"none", "active", "disabled"}, SetConnector(status) PROVE SyncTInv'
    BY <1>2 DEF SetConnector, SyncTInv
  <1>3. ASSUME RegisterDataSource PROVE SyncTInv'
    BY <1>3, EnqueueTyped, RuleTyped DEF RegisterDataSource, SyncTInv, RuleRow
  <1>4. ASSUME TriggerSync PROVE SyncTInv'
    BY <1>4, EnqueueTyped DEF TriggerSync, SyncTInv
  <1>5. ASSUME ScanInterrupted \/ HeartbeatAges PROVE SyncTInv'
    BY <1>5 DEF ScanInterrupted, HeartbeatAges, SyncTInv
  <1>6. ASSUME MarkInterrupted PROVE SyncTInv'
    BY <1>6, EnqueueTyped, RuleTyped DEF MarkInterrupted, SyncTInv, RuleRow
  <1>7. ASSUME NEW w \in SyncWorker, StartJob(w) PROVE SyncTInv'
    <2>1. \E job : JobStep(w, job)
      <3>1. [syncing[w] EXCEPT !.pc = "load"] \in Job /\ [syncing[w] EXCEPT !.pc = "load"].pc = "load"
        BY <1>b DEF Job
      <3>2. syncing' = [syncing EXCEPT ![w] = [syncing[w] EXCEPT !.pc = "load"]]
        BY <1>7 DEF StartJob
      <3> QED
        BY <3>1, <3>2 DEF JobStep, WithRow
    <2>2. enqueued' \in [all : Nat, waiting : Nat] /\ enqueued'.waiting <= enqueued'.all
      BY <1>7, <1>a DEF StartJob
    <2>3. rule' \in RuleRow /\ rule'.stamp <= time /\ stale' \in BOOLEAN
      BY <1>7, <1>d DEF StartJob
    <2>4. overlapped' \in BOOLEAN
      BY <1>7, <1>a DEF StartJob
    <2> QED
      BY <1>7, <1>a, <2>1, <2>2, <2>3, <2>4, WorkTyped DEF StartJob
  <1>8. ASSUME NEW w \in SyncWorker, LoadRule(w) PROVE SyncTInv'
    BY <1>8, <1>a, LoadRuleStep, WorkTyped DEF LoadRule
  <1>9. ASSUME NEW w \in SyncWorker, FetchRows(w) PROVE SyncTInv'
    BY <1>9, <1>a, FetchRowsStep, WorkTyped DEF FetchRows
  <1>10. ASSUME NEW w \in SyncWorker, NEW row \in RowCode \X (1..MaxTime), TakeRow(w, row) PROVE SyncTInv'
    <2>1. rule' \in RuleRow /\ rule'.stamp <= time /\ stale' \in BOOLEAN
      BY <1>10, <1>a, <1>d DEF TakeRow
    <2> QED
      BY <1>10, <1>a, <2>1, TakeRowStep, WorkTyped DEF TakeRow
  <1>11. ASSUME NEW w \in SyncWorker, WriteEntity(w) PROVE SyncTInv'
    <2>1. \E job : JobStep(w, job)
      BY <1>11, MoveStep DEF WriteEntity, WithRow
    <2>2. copies' \in [RowCode -> [entities : Nat, facts : Nat, holds : Nat]]
      BY <1>11, WriteEntityStep
    <2> QED
      BY <1>11, <1>a, <2>1, <2>2, WorkTyped DEF WriteEntity
  <1>12. ASSUME NEW w \in SyncWorker, LookUpFact(w) PROVE SyncTInv'
    <2>1. \E job : JobStep(w, job)
      <3> DEFINE pc == IF copies[syncing[w].row[1]].facts = 0 THEN "fact" ELSE "rows"
      <3>1. pc \in {"rows", "look up fact", "fact"} /\ syncing' = [syncing EXCEPT ![w].pc = pc]
            /\ syncing[w].pc \in WithRow
        BY <1>12 DEF LookUpFact, WithRow
      <3> HIDE DEF pc
      <3> QED
        BY <3>1, MoveStep
    <2> QED
      BY <1>12, <1>a, <2>1, WorkTyped DEF LookUpFact
  <1>13. ASSUME NEW w \in SyncWorker, AddFact(w) PROVE SyncTInv'
    <2>1. \E job : JobStep(w, job)
      BY <1>13, MoveStep DEF AddFact, WithRow
    <2>2. copies' \in [RowCode -> [entities : Nat, facts : Nat, holds : Nat]]
      BY <1>13, AddFactStep
    <2> QED
      BY <1>13, <1>a, <2>1, <2>2, WorkTyped DEF AddFact
  <1>14. ASSUME NEW w \in SyncWorker, RowFails(w) PROVE SyncTInv'
    BY <1>14, <1>a, RowFailsStep, WorkTyped DEF RowFails
  <1>15. ASSUME NEW w \in SyncWorker, CompleteJob(w) PROVE SyncTInv'
    <2>1. rule' \in RuleRow /\ rule'.stamp <= time /\ stale' \in BOOLEAN
      BY <1>15, <1>d DEF CompleteJob
    <2>2. lastSync' = [at |-> syncing[w].at, failed |-> syncing[w].failed] /\ syncing[w].at <= time
      BY <1>15 DEF CompleteJob, SyncFaithful, RowsFaithful, Fetched
    <2>3. lastSync' \in [at : Nat, failed : SUBSET RowCode] /\ lastSync'.at <= time
      BY <1>b, <2>2 DEF Job
    <2> QED
      BY <1>15, <1>a, <1>c, <2>1, <2>3, WorkTyped DEF CompleteJob
  <1>16. ASSUME NEW w \in SyncWorker, FailJob(w) PROVE SyncTInv'
    <2>1. rule' \in RuleRow /\ rule'.stamp <= time
      BY <1>16, <1>a, RuleTyped DEF FailJob
    <2> QED
      BY <1>16, <1>a, <1>c, <2>1, WorkTyped DEF FailJob
  <1>17. ASSUME NEW w \in SyncWorker, SyncWorkerLost(w) PROVE SyncTInv'
    BY <1>17, <1>a, <1>c, WorkTyped DEF SyncWorkerLost
  <1>18. ASSUME UNCHANGED syncVars PROVE SyncTInv'
    BY <1>18 DEF syncVars, SyncTInv
  <1> QED
    BY <1>1, <1>2, <1>3, <1>4, <1>5, <1>6, <1>7, <1>8, <1>9, <1>10, <1>11, <1>12, <1>13, <1>14, <1>15, <1>16,
       <1>17, <1>18 DEF SyncNext

-------------------------------------------------------------------------------
\* A worker without a job promises nothing.
LEMMA IdlePromisesNothing ==
    ASSUME NEW w \in SyncWorker, syncing'[w] = NoJob
    PROVE  RowsFaithful(w)' /\ CopyAtHand(w)' /\ JobAccounts(w)'
  BY NoJobTyped DEF RowsFaithful, CopyAtHand, JobAccounts, WithRow, Fetched

\* Before two jobs overlap, the others are idle while one runs.
LEMMA OthersIdle ==
    ASSUME SyncFaithful, ~overlapped, NEW w \in SyncWorker, syncing[w] # NoJob, NEW u \in SyncWorker \ {w}
    PROVE  syncing[u] = NoJob
  BY DEF SyncFaithful

\* A step of the one job, given what it makes of its rows and of the copies.
LEMMA WorkFaithful ==
    ASSUME SyncTInv, SyncFaithful, NEW w \in SyncWorker, syncing[w] # NoJob,
           UNCHANGED <<time, outside, overlapped>>, \A u \in SyncWorker \ {w} : syncing'[u] = syncing[u],
           RowsFaithful(w)', \A c \in RowCode : CopyFaithful(c)',
           ~overlapped => /\ CopyAtHand(w)'
                          /\ \A c \in RowCode : copies'[c].entities <= 1 /\ copies'[c].facts <= copies'[c].entities
                          /\ ~Incremental => CaughtUp' /\ JobAccounts(w)'
    PROVE  SyncFaithful'
  <1>1. \A u \in SyncWorker \ {w} : RowsFaithful(u)'
    BY DEF SyncFaithful, RowsFaithful, Faithful
  <1>2. ASSUME ~overlapped, NEW u \in SyncWorker \ {w} PROVE syncing'[u] = NoJob /\ CopyAtHand(u)' /\ JobAccounts(u)'
    BY <1>2, OthersIdle, IdlePromisesNothing
  <1> QED
    BY <1>1, <1>2 DEF SyncFaithful

\* What the rest of the system does to the rule and the queue changes no row.
LEMMA ElsewhereFaithful ==
    ASSUME SyncFaithful, UNCHANGED <<time, outside, syncing, copies, lastSync, overlapped>>
    PROVE  SyncFaithful'
  BY DEF SyncFaithful, RowsFaithful, Faithful, CopyFaithful, CopyAtHand, JobAccounts, Accounted, CaughtUp

\* A row that changes now has not been the same since any fetch.
LEMMA RowChangesFaithful ==
    ASSUME SyncTInv, SyncFaithful, NEW c \in RowCode, RowChanges(c)
    PROVE  SyncFaithful'
  <1>1. /\ UNCHANGED <<syncing, copies, lastSync, overlapped>> /\ time' = time + 1 /\ time \in Nat
        /\ outside'[c] = time + 1 /\ \A d \in RowCode \ {c} : outside'[d] = outside[d]
    BY DEF RowChanges, SyncTInv
  <1>2. \A d \in RowCode : outside[d] \in Nat /\ outside[d] <= time /\ copies[d].holds \in Nat
    BY DEF SyncTInv
  <1>3. \A w \in SyncWorker : syncing[w] \in Job
    BY DEF SyncTInv
  <1>4. ASSUME NEW row \in RowCode \X Nat, NEW at \in Nat, at <= time, Faithful(row, at) PROVE Faithful(row, at)'
    <2>1. row[2] \in Nat /\ row[1] \in RowCode
      OBVIOUS
    <2>2. CASE row[1] = c
      BY <1>1, <1>2, <1>4, <2>1, <2>2 DEF Faithful
    <2>3. CASE row[1] # c
      BY <1>1, <1>4, <2>1, <2>3 DEF Faithful
    <2> QED
      BY <2>2, <2>3
  <1>5. ASSUME NEW w \in SyncWorker PROVE RowsFaithful(w)'
    <2>1. RowsFaithful(w) /\ syncing[w].at \in Nat /\ syncing[w].todo \in SUBSET (RowCode \X Nat)
      BY <1>3 DEF SyncFaithful, Job
    <2>2. syncing[w].pc \in WithRow => syncing[w].row \in RowCode \X Nat
      BY DEF SyncTInv
    <2>3. CASE syncing[w].pc \in Fetched
      <3>1. syncing[w].at <= time /\ syncing[w].at <= time'
        BY <1>1, <2>1, <2>3 DEF RowsFaithful
      <3>2. \A row \in syncing[w].todo : Faithful(row, syncing[w].at)'
        BY <1>1, <1>4, <2>1, <3>1 DEF RowsFaithful, Faithful
      <3>3. syncing[w].pc \in WithRow => Faithful(syncing[w].row, syncing[w].at)'
        BY <1>1, <1>4, <2>1, <2>2, <3>1 DEF RowsFaithful, Faithful
      <3> QED
        BY <1>1, <2>3, <3>1, <3>2, <3>3 DEF RowsFaithful, Faithful
    <2>4. CASE syncing[w].pc \notin Fetched
      <3>1. syncing[w].todo = {} /\ syncing[w].pc \notin WithRow
        BY <2>1, <2>4 DEF RowsFaithful, Fetched
      <3> QED
        BY <1>1, <2>4, <3>1 DEF RowsFaithful
    <2> QED
      BY <2>3, <2>4
  <1>6. \A d \in RowCode : CopyFaithful(d)'
    <2>1. \A d \in RowCode : copies[d].holds <= outside[d] /\ outside[d] <= outside'[d] /\ outside'[d] \in Nat
      BY <1>1, <1>2 DEF SyncFaithful, CopyFaithful
    <2> QED
      BY <1>1, <1>2, <2>1 DEF CopyFaithful
  <1>7. ASSUME NEW w \in SyncWorker, JobAccounts(w) PROVE JobAccounts(w)'
    <2>1. syncing[w].pc \in Fetched => syncing[w].at \in Nat /\ syncing[w].at <= time
      BY <1>3 DEF SyncFaithful, RowsFaithful, Job
    <2>2. syncing[w].pc \in Fetched => ~(outside'[c] <= syncing[w].at)
      BY <1>1, <2>1
    <2> QED
      BY <1>1, <1>7, <2>2 DEF JobAccounts, Accounted
  <1>8. CaughtUp => CaughtUp'
    <2>1. lastSync.at \in Nat /\ lastSync.at <= time
      BY DEF SyncTInv
    <2>2. ~(outside'[c] <= lastSync.at)
      BY <1>1, <2>1
    <2> QED
      BY <1>1, <2>2 DEF CaughtUp
  <1>9. \A w \in SyncWorker : CopyAtHand(w) => CopyAtHand(w)'
    BY <1>1 DEF CopyAtHand
  <1> QED
    BY <1>1, <1>5, <1>6, <1>7, <1>8, <1>9 DEF SyncFaithful

LEMMA StartFaithful ==
    ASSUME SyncTInv, SyncFaithful, NEW w \in SyncWorker, StartJob(w)
    PROVE  SyncFaithful'
  <1>1. /\ UNCHANGED <<time, outside, copies, lastSync>> /\ syncing[w] = NoJob
        /\ syncing'[w].pc = "load" /\ syncing'[w].todo = {} /\ \A u \in SyncWorker \ {w} : syncing'[u] = syncing[u]
        /\ ~overlapped' => ~overlapped /\ \A u \in SyncWorker : syncing[u] = NoJob
    BY NoJobTyped DEF StartJob, SyncTInv, Job
  <1>2. RowsFaithful(w)' /\ CopyAtHand(w)' /\ JobAccounts(w)'
    BY <1>1 DEF RowsFaithful, CopyAtHand, JobAccounts, WithRow, Fetched
  <1>3. \A u \in SyncWorker \ {w} : RowsFaithful(u)'
    BY <1>1 DEF SyncFaithful, RowsFaithful, Faithful
  <1>4. ASSUME ~overlapped', NEW u \in SyncWorker \ {w} PROVE syncing'[u] = NoJob /\ CopyAtHand(u)' /\ JobAccounts(u)'
    BY <1>1, <1>4, IdlePromisesNothing
  <1>5. ~overlapped' =>
           /\ \A c \in RowCode : copies'[c].entities <= 1 /\ copies'[c].facts <= copies'[c].entities
           /\ ~Incremental => CaughtUp'
    BY <1>1 DEF SyncFaithful, CaughtUp
  <1>6. \A c \in RowCode : CopyFaithful(c)'
    BY <1>1 DEF SyncFaithful, CopyFaithful
  <1> QED
    BY <1>2, <1>3, <1>4, <1>5, <1>6 DEF SyncFaithful

\* The fetch takes every row there is: each code that has a row is to come, and
\* of one that has none there is no copy.
LEMMA FetchFaithful ==
    ASSUME SyncTInv, SyncFaithful, NEW w \in SyncWorker, FetchRows(w)
    PROVE  SyncFaithful'
  <1>1. PICK job : /\ JobStep(w, job) /\ job.pc = "rows" /\ job.at = time
                   /\ job.todo = {<<c, outside[c]>> : c \in {c \in RowCode : outside[c] > syncing[w].since}}
    BY FetchRowsStep
  <1>2. syncing'[w] = job /\ \A u \in SyncWorker \ {w} : syncing'[u] = syncing[u]
    BY <1>1, JobTyped DEF JobStep
  <1>3. UNCHANGED <<time, outside, copies, lastSync, overlapped>> /\ syncing[w].pc = "fetch" /\ syncing[w] # NoJob
    BY NoJobTyped DEF FetchRows
  <1>4. /\ syncing[w].since \in Nat /\ time \in Nat /\ lastSync.at <= time
        /\ \A c \in RowCode : outside[c] \in Nat /\ outside[c] <= time /\ copies[c].holds \in Nat
                                /\ copies[c].holds <= outside[c]
    BY DEF SyncTInv, Job, SyncFaithful, CopyFaithful
  <1>5. RowsFaithful(w)'
    <2>1. ASSUME NEW c \in RowCode, outside[c] > syncing[w].since PROVE 1 <= outside[c]
      BY <1>4, <2>1
    <2>2. \A row \in job.todo : 1 <= row[2] /\ row[2] = outside[row[1]] /\ outside[row[1]] \in Nat
      BY <1>1, <1>4, <2>1
    <2> QED
      <3>1. \A row \in syncing'[w].todo : 1 <= row[2] /\ row[2] <= outside'[row[1]] /\ row[2] = outside'[row[1]]
        BY <1>1, <1>2, <1>3, <2>2
      <3>2. syncing'[w].pc = "rows" /\ syncing'[w].at = time' /\ time' <= time'
        BY <1>1, <1>2, <1>3, <1>4
      <3> QED
        BY <3>1, <3>2 DEF RowsFaithful, Faithful, WithRow, Fetched
  <1>6. CopyAtHand(w)'
    BY <1>1, <1>2 DEF CopyAtHand
  <1>7. ASSUME ~overlapped, ~Incremental PROVE CaughtUp' /\ JobAccounts(w)'
    <2>1. syncing[w].since = 0 /\ CaughtUp
      BY <1>3, <1>7 DEF SyncFaithful, JobAccounts
    <2>2. ASSUME NEW c \in RowCode PROVE copies[c].holds = outside[c] \/ <<c, outside[c]>> \in job.todo
      <3>1. CASE outside[c] = 0
        BY <1>4, <3>1
      <3>2. CASE outside[c] # 0
        BY <1>1, <1>4, <2>1, <3>2
      <3> QED
        BY <3>1, <3>2
    <2>3. JobAccounts(w)'
      BY <1>1, <1>2, <1>3, <1>4, <2>2 DEF JobAccounts, Accounted
    <2> QED
      BY <1>3, <2>1, <2>3 DEF CaughtUp
  <1>8. \A c \in RowCode : CopyFaithful(c)'
    BY <1>3, <1>4 DEF CopyFaithful
  <1> QED
    BY <1>2, <1>3, <1>5, <1>6, <1>7, <1>8, WorkFaithful DEF SyncFaithful

\* The row that is taken is at hand, and its code has a copy or has none.
LEMMA TakeFaithful ==
    ASSUME SyncTInv, SyncFaithful, NEW w \in SyncWorker, NEW row \in RowCode \X Nat, TakeRow(w, row)
    PROVE  SyncFaithful'
  <1>1. PICK job : /\ JobStep(w, job) /\ job.row = row /\ job.todo = syncing[w].todo \ {row}
                   /\ job.at = syncing[w].at /\ job.failed = syncing[w].failed
                   /\ job.pc = IF copies[row[1]].entities = 0 THEN "insert" ELSE "merge"
    BY TakeRowStep
  <1>2. syncing'[w] = job /\ \A u \in SyncWorker \ {w} : syncing'[u] = syncing[u]
    BY <1>1, JobTyped DEF JobStep
  <1>3. /\ UNCHANGED <<time, outside, copies, lastSync, overlapped>>
        /\ syncing[w].pc = "rows" /\ syncing[w] # NoJob /\ row \in syncing[w].todo
    BY NoJobTyped DEF TakeRow
  <1>4. RowsFaithful(w)'
    BY <1>1, <1>2, <1>3 DEF SyncFaithful, RowsFaithful, Faithful, WithRow, Fetched
  <1>5. ASSUME ~overlapped
        PROVE  /\ \A c \in RowCode : copies[c].entities <= 1 /\ copies[c].facts <= copies[c].entities
               /\ CopyAtHand(w)'
    <2>1. \A c \in RowCode : copies[c].entities <= 1 /\ copies[c].facts <= copies[c].entities /\ copies[c].entities \in Nat
      BY <1>5 DEF SyncFaithful, SyncTInv
    <2>2. row[1] \in RowCode
      OBVIOUS
    <2> QED
      <3> DEFINE n == copies[row[1]].entities
      <3>0. n \in Nat /\ n <= 1
        BY <2>1, <2>2
      <3>1. (job.pc = "insert" /\ n = 0) \/ (job.pc = "merge" /\ n = 1)
        <4>1. n = 0 \/ n = 1
          <5> HIDE DEF n
          <5> QED
            BY <3>0
        <4> QED
          BY <1>1, <4>1
      <3>2. CopyAtHand(w)'
        BY <1>1, <1>2, <1>3, <3>1 DEF CopyAtHand
      <3> QED
        BY <2>1, <3>2
  <1>6. ASSUME ~overlapped, ~Incremental PROVE CaughtUp' /\ JobAccounts(w)'
    <2>1. JobAccounts(w) /\ CaughtUp
      BY <1>6 DEF SyncFaithful
    <2>2. ASSUME NEW c \in RowCode, Accounted(w, c) PROVE Accounted(w, c)'
      BY <1>1, <1>2, <1>3, <2>2 DEF Accounted
    <2>3. JobAccounts(w)'
      BY <1>1, <1>2, <1>3, <2>1, <2>2 DEF JobAccounts, Fetched, WithRow
    <2> QED
      BY <1>3, <2>1, <2>3 DEF CaughtUp
  <1>7. \A c \in RowCode : CopyFaithful(c)'
    BY <1>3 DEF SyncFaithful, CopyFaithful
  <1> QED
    BY <1>2, <1>3, <1>4, <1>5, <1>6, <1>7, WorkFaithful

\* The copy gets the state of the row, which is the outside one for every code
\* that has not changed since the fetch, whoever fetched last.
LEMMA WriteFaithful ==
    ASSUME SyncTInv, SyncFaithful, NEW w \in SyncWorker, WriteEntity(w)
    PROVE  SyncFaithful'
  <1> DEFINE c == syncing[w].row[1]
  <1>1. PICK job : /\ JobStep(w, job) /\ job.pc = "look up fact" /\ job.row = syncing[w].row
                   /\ job.todo = syncing[w].todo /\ job.at = syncing[w].at /\ job.failed = syncing[w].failed
    BY MoveStep DEF WriteEntity, WithRow
  <1>2. syncing'[w] = job /\ \A u \in SyncWorker \ {w} : syncing'[u] = syncing[u]
    BY <1>1, JobTyped DEF JobStep
  <1>3. /\ UNCHANGED <<time, outside, lastSync, overlapped>>
        /\ syncing[w].pc \in {"insert", "merge"} /\ syncing[w] # NoJob /\ syncing[w].row \in RowCode \X Nat
    BY NoJobTyped DEF WriteEntity, SyncTInv, WithRow
  <1>4. /\ copies'[c].holds = syncing[w].row[2] /\ copies'[c].facts = copies[c].facts
        /\ copies'[c].entities = IF syncing[w].pc = "insert" THEN copies[c].entities + 1 ELSE copies[c].entities
        /\ \A d \in RowCode \ {c} : copies'[d] = copies[d]
    BY WriteEntityStep
  <1>5. c \in RowCode /\ syncing[w].row[2] <= outside[c]
        /\ (outside[c] <= syncing[w].at => syncing[w].row[2] = outside[c])
    BY <1>3 DEF SyncFaithful, RowsFaithful, Faithful, WithRow
  <1>6. RowsFaithful(w)'
    BY <1>1, <1>2, <1>3 DEF SyncFaithful, RowsFaithful, Faithful, WithRow, Fetched
  <1> HIDE DEF c
  <1>7. \A d \in RowCode : CopyFaithful(d)'
    BY <1>3, <1>4, <1>5 DEF SyncFaithful, CopyFaithful
  <1>8. ASSUME ~overlapped
        PROVE  /\ \A d \in RowCode : copies'[d].entities <= 1 /\ copies'[d].facts <= copies'[d].entities
               /\ CopyAtHand(w)'
    <2>1. /\ \A d \in RowCode : copies[d].entities <= 1 /\ copies[d].facts <= copies[d].entities
                                  /\ copies[d].entities \in Nat /\ copies[d].facts \in Nat
          /\ syncing[w].pc = "insert" => copies[c].entities = 0
          /\ syncing[w].pc = "merge" => copies[c].entities = 1
      BY <1>8 DEF SyncFaithful, SyncTInv, CopyAtHand, c
    <2>2. copies'[c].entities = 1 /\ copies'[c].facts <= 1
      BY <1>3, <1>4, <1>5, <2>1
    <2>3. \A d \in RowCode : copies'[d].entities <= 1 /\ copies'[d].facts <= copies'[d].entities
      BY <1>4, <1>5, <2>1, <2>2
    <2>4. CopyAtHand(w)'
      BY <1>1, <1>2, <2>2 DEF CopyAtHand, c
    <2> QED
      BY <2>3, <2>4
  <1>9. ASSUME ~overlapped, ~Incremental PROVE CaughtUp' /\ JobAccounts(w)'
    <2>1. JobAccounts(w) /\ CaughtUp /\ lastSync.at \in Nat /\ syncing[w].at \in Nat
          /\ \A d \in RowCode : outside[d] \in Nat
      BY <1>9 DEF SyncFaithful, SyncTInv, Job
    <2>2. /\ lastSync.at <= syncing[w].at
          /\ \A d \in RowCode : outside[d] <= syncing[w].at => Accounted(w, d)
      BY <1>3, <2>1 DEF JobAccounts, Fetched, WithRow
    <2>3. ASSUME NEW d \in RowCode, outside[d] <= syncing[w].at PROVE Accounted(w, d)'
      <3>1. CASE d = c
        BY <1>3, <1>4, <1>5, <2>3, <3>1 DEF Accounted
      <3>2. CASE d # c
        <4>1. Accounted(w, d) /\ ~(syncing[w].pc \in {"insert", "merge"} /\ syncing[w].row[1] = d)
          BY <2>2, <2>3, <3>2 DEF c
        <4> QED
          BY <1>1, <1>2, <1>3, <1>4, <3>2, <4>1 DEF Accounted
      <3> QED
        BY <3>1, <3>2
    <2>4. JobAccounts(w)'
      BY <1>1, <1>2, <1>3, <2>2, <2>3 DEF JobAccounts
    <2>5. ASSUME NEW d \in RowCode \ lastSync.failed, outside[d] <= lastSync.at PROVE copies'[d].holds = outside[d]
      <3>1. outside[d] <= syncing[w].at
        BY <2>1, <2>2, <2>5
      <3>2. CASE d = c
        BY <1>4, <1>5, <3>1, <3>2
      <3>3. CASE d # c
        BY <1>4, <1>9, <2>1, <2>5, <3>3 DEF CaughtUp
      <3> QED
        BY <3>2, <3>3
    <2> QED
      BY <1>3, <2>4, <2>5 DEF CaughtUp
  <1> QED
    BY <1>2, <1>3, <1>6, <1>7, <1>8, <1>9, WorkFaithful

\* The fact is looked for, and missing or there.
LEMMA LookUpFaithful ==
    ASSUME SyncTInv, SyncFaithful, NEW w \in SyncWorker, LookUpFact(w)
    PROVE  SyncFaithful'
  <1> DEFINE pc == IF copies[syncing[w].row[1]].facts = 0 THEN "fact" ELSE "rows"
  <1>1. /\ UNCHANGED <<time, outside, copies, lastSync, overlapped>> /\ syncing' = [syncing EXCEPT ![w].pc = pc]
        /\ syncing[w].pc = "look up fact" /\ syncing[w] # NoJob /\ pc \in {"fact", "rows"}
        /\ (pc = "fact" => copies[syncing[w].row[1]].facts = 0)
    BY NoJobTyped DEF LookUpFact
  <1> HIDE DEF pc
  <1>2. PICK job : /\ JobStep(w, job) /\ job.pc = pc /\ job.row = syncing[w].row
                   /\ job.todo = syncing[w].todo /\ job.at = syncing[w].at /\ job.failed = syncing[w].failed
    <2>1. syncing[w].pc \in WithRow /\ pc \in {"rows", "look up fact", "fact"}
      BY <1>1 DEF WithRow
    <2> QED
      BY <1>1, <2>1, MoveStep
  <1>3. syncing'[w] = job /\ \A u \in SyncWorker \ {w} : syncing'[u] = syncing[u]
    BY <1>2, JobTyped DEF JobStep
  <1>4. RowsFaithful(w)'
    <2>1. /\ \A row \in syncing[w].todo : Faithful(row, syncing[w].at)
          /\ Faithful(syncing[w].row, syncing[w].at) /\ syncing[w].at <= time
      BY <1>1 DEF SyncFaithful, RowsFaithful, WithRow, Fetched
    <2>2. UNCHANGED <<time, outside>> /\ job.pc \in Fetched
      BY <1>1, <1>2 DEF Fetched, WithRow
    <2>3. /\ syncing'[w].todo = syncing[w].todo /\ syncing'[w].row = syncing[w].row
          /\ syncing'[w].at = syncing[w].at /\ syncing'[w].pc \in Fetched
      BY <1>2, <1>3, <2>2
    <2> QED
      BY <2>1, <2>2, <2>3 DEF RowsFaithful, Faithful
  <1>5. ASSUME ~overlapped PROVE CopyAtHand(w)'
    <2>1. CopyAtHand(w)
      BY <1>5 DEF SyncFaithful
    <2> QED
      BY <1>1, <1>2, <1>3, <2>1 DEF CopyAtHand
  <1>6. ASSUME ~overlapped, ~Incremental PROVE CaughtUp' /\ JobAccounts(w)'
    <2>1. JobAccounts(w) /\ CaughtUp
      BY <1>6 DEF SyncFaithful
    <2>2. ASSUME NEW c \in RowCode, Accounted(w, c) PROVE Accounted(w, c)'
      BY <1>1, <1>2, <1>3, <2>2 DEF Accounted
    <2>3. JobAccounts(w)'
      BY <1>1, <1>2, <1>3, <2>1, <2>2 DEF JobAccounts, Fetched, WithRow
    <2> QED
      BY <1>1, <2>1, <2>3 DEF CaughtUp
  <1> QED
    BY <1>1, <1>3, <1>4, <1>5, <1>6, WorkFaithful DEF SyncFaithful, CopyFaithful

\* The fact that was missing is added once.
LEMMA AddFactFaithful ==
    ASSUME SyncTInv, SyncFaithful, NEW w \in SyncWorker, AddFact(w)
    PROVE  SyncFaithful'
  <1> DEFINE c == syncing[w].row[1]
  <1>1. PICK job : /\ JobStep(w, job) /\ job.pc = "rows" /\ job.row = syncing[w].row
                   /\ job.todo = syncing[w].todo /\ job.at = syncing[w].at /\ job.failed = syncing[w].failed
    BY MoveStep DEF AddFact, WithRow
  <1>2. syncing'[w] = job /\ \A u \in SyncWorker \ {w} : syncing'[u] = syncing[u]
    BY <1>1, JobTyped DEF JobStep
  <1>3. UNCHANGED <<time, outside, lastSync, overlapped>> /\ syncing[w].pc = "fact" /\ syncing[w] # NoJob
    BY NoJobTyped DEF AddFact
  <1>4. /\ copies'[c].holds = copies[c].holds /\ copies'[c].facts = copies[c].facts + 1
        /\ copies'[c].entities = copies[c].entities
        /\ \A d \in RowCode \ {c} : copies'[d] = copies[d]
    BY AddFactStep
  <1>5. RowsFaithful(w)'
    BY <1>1, <1>2, <1>3 DEF SyncFaithful, RowsFaithful, Faithful, WithRow, Fetched
  <1>6. \A d \in RowCode : copies'[d].holds = copies[d].holds
    BY <1>4
  <1>7. ASSUME ~overlapped
        PROVE  /\ \A d \in RowCode : copies'[d].entities <= 1 /\ copies'[d].facts <= copies'[d].entities
               /\ CopyAtHand(w)'
    <2>1. /\ \A d \in RowCode : copies[d].entities <= 1 /\ copies[d].facts <= copies[d].entities
          /\ copies[c].entities = 1 /\ copies[c].facts = 0
      BY <1>3, <1>7 DEF SyncFaithful, CopyAtHand
    <2>2. copies'[c].facts = 1 /\ copies'[c].entities = 1
      BY <1>4, <2>1
    <2> HIDE DEF c
    <2>3. \A d \in RowCode : copies'[d].entities <= 1 /\ copies'[d].facts <= copies'[d].entities
      BY <1>4, <2>1, <2>2
    <2> QED
      BY <1>1, <1>2, <2>3 DEF CopyAtHand
  <1>8. ASSUME ~overlapped, ~Incremental PROVE CaughtUp' /\ JobAccounts(w)'
    <2>1. JobAccounts(w) /\ CaughtUp
      BY <1>8 DEF SyncFaithful
    <2>2. ASSUME NEW d \in RowCode, Accounted(w, d) PROVE Accounted(w, d)'
      BY <1>1, <1>2, <1>3, <1>6, <2>2 DEF Accounted
    <2>3. JobAccounts(w)'
      BY <1>1, <1>2, <1>3, <2>1, <2>2 DEF JobAccounts, Fetched, WithRow
    <2> QED
      BY <1>3, <1>6, <2>1, <2>3 DEF CaughtUp
  <1> QED
    BY <1>2, <1>3, <1>5, <1>6, <1>7, <1>8, WorkFaithful DEF SyncFaithful, CopyFaithful

\* The row that fails is on the list of those that did.
LEMMA FailsFaithful ==
    ASSUME SyncTInv, SyncFaithful, NEW w \in SyncWorker, RowFails(w)
    PROVE  SyncFaithful'
  <1>1. PICK job : /\ JobStep(w, job) /\ job.pc = "rows" /\ job.row = syncing[w].row /\ job.todo = syncing[w].todo
                   /\ job.at = syncing[w].at /\ job.failed = syncing[w].failed \cup {syncing[w].row[1]}
    BY RowFailsStep
  <1>2. syncing'[w] = job /\ \A u \in SyncWorker \ {w} : syncing'[u] = syncing[u]
    BY <1>1, JobTyped DEF JobStep
  <1>3. /\ UNCHANGED <<time, outside, copies, lastSync, overlapped>>
        /\ syncing[w].pc \in WithRow /\ syncing[w] # NoJob
    BY NoJobTyped DEF RowFails, WithRow
  <1>4. RowsFaithful(w)'
    BY <1>1, <1>2, <1>3 DEF SyncFaithful, RowsFaithful, Faithful, WithRow, Fetched
  <1>5. CopyAtHand(w)'
    BY <1>1, <1>2 DEF CopyAtHand
  <1>6. ASSUME ~overlapped, ~Incremental PROVE CaughtUp' /\ JobAccounts(w)'
    <2>1. JobAccounts(w) /\ CaughtUp
      BY <1>6 DEF SyncFaithful
    <2>2. ASSUME NEW c \in RowCode, Accounted(w, c) PROVE Accounted(w, c)'
      BY <1>1, <1>2, <1>3, <2>2 DEF Accounted
    <2>3. JobAccounts(w)'
      BY <1>1, <1>2, <1>3, <2>1, <2>2 DEF JobAccounts, Fetched, WithRow
    <2> QED
      BY <1>3, <2>1, <2>3 DEF CaughtUp
  <1> QED
    BY <1>2, <1>3, <1>4, <1>5, <1>6, WorkFaithful DEF SyncFaithful, CopyFaithful

\* A job ends: completed with nothing left to do, failed or lost.
LEMMA EndFaithful ==
    ASSUME SyncTInv, SyncFaithful, NEW w \in SyncWorker, CompleteJob(w) \/ FailJob(w) \/ SyncWorkerLost(w)
    PROVE  SyncFaithful'
  <1>1. /\ UNCHANGED <<time, outside, copies, overlapped>> /\ syncing[w] # NoJob
        /\ syncing'[w] = NoJob /\ \A u \in SyncWorker \ {w} : syncing'[u] = syncing[u]
    BY NoJobTyped DEF CompleteJob, FailJob, SyncWorkerLost, SyncTInv
  <1>2. RowsFaithful(w)' /\ CopyAtHand(w)' /\ JobAccounts(w)'
    BY <1>1, IdlePromisesNothing
  <1>3. ASSUME ~overlapped, ~Incremental PROVE CaughtUp'
    <2>1. JobAccounts(w) /\ CaughtUp
      BY <1>3 DEF SyncFaithful
    <2>2. CASE CompleteJob(w)
      <3>1. /\ lastSync'.at = syncing[w].at /\ lastSync'.failed = syncing[w].failed
            /\ syncing[w].pc = "rows" /\ syncing[w].todo = {}
        BY <2>2 DEF CompleteJob
      <3>2. \A c \in RowCode : outside[c] <= syncing[w].at => copies[c].holds = outside[c] \/ c \in syncing[w].failed
        BY <2>1, <3>1 DEF JobAccounts, Accounted, Fetched
      <3> QED
        BY <1>1, <3>1, <3>2 DEF CaughtUp
    <2>3. CASE UNCHANGED lastSync
      BY <1>1, <2>1, <2>3 DEF CaughtUp
    <2> QED
      BY <2>2, <2>3 DEF FailJob, SyncWorkerLost
  <1> QED
    BY <1>1, <1>2, <1>3, WorkFaithful DEF SyncFaithful, CopyFaithful

\* Every step keeps what the rows, the copies and the last job promise.
LEMMA SyncNextFaithful == SyncTInv /\ SyncFaithful /\ [SyncNext]_syncVars => SyncFaithful'
  <1> SUFFICES ASSUME SyncTInv, SyncFaithful, [SyncNext]_syncVars PROVE SyncFaithful'
    OBVIOUS
  <1>1. ASSUME \/ \E status \in {"none", "active", "disabled"} : SetConnector(status)
               \/ RegisterDataSource \/ TriggerSync \/ ScanInterrupted \/ MarkInterrupted \/ HeartbeatAges
               \/ UNCHANGED syncVars
        PROVE  UNCHANGED <<time, outside, syncing, copies, lastSync, overlapped>>
    BY <1>1 DEF SetConnector, RegisterDataSource, TriggerSync, ScanInterrupted, MarkInterrupted, HeartbeatAges, syncVars
  <1>2. ASSUME NEW w \in SyncWorker, LoadRule(w) PROVE SyncFaithful'
    <2>1. PICK job : /\ JobStep(w, job) /\ job.pc = "fetch" /\ job.todo = syncing[w].todo
                     /\ job.at = syncing[w].at /\ job.since = IF Incremental THEN rule.stamp ELSE 0
      BY <1>2, LoadRuleStep
    <2>2. syncing'[w] = job /\ \A u \in SyncWorker \ {w} : syncing'[u] = syncing[u]
      BY <2>1, JobTyped DEF JobStep
    <2>3. /\ UNCHANGED <<time, outside, copies, lastSync, overlapped>>
          /\ syncing[w].pc = "load" /\ syncing[w] # NoJob
      BY <1>2, NoJobTyped DEF LoadRule
    <2>4. RowsFaithful(w)'
      BY <2>1, <2>2, <2>3 DEF SyncFaithful, RowsFaithful, Faithful, WithRow, Fetched
    <2>5. CopyAtHand(w)' /\ (~Incremental => JobAccounts(w)')
      BY <2>1, <2>2 DEF CopyAtHand, JobAccounts, Fetched, WithRow
    <2>6. CaughtUp => CaughtUp'
      BY <2>3 DEF CaughtUp
    <2> QED
      BY <2>2, <2>3, <2>4, <2>5, <2>6, WorkFaithful DEF SyncFaithful, CopyFaithful
  <1>3. ASSUME NEW w \in SyncWorker, NEW row \in RowCode \X (1..MaxTime), TakeRow(w, row) PROVE SyncFaithful'
    <2>1. row \in RowCode \X Nat
      OBVIOUS
    <2> QED
      BY <1>3, <2>1, TakeFaithful
  <1> QED
    BY <1>1, <1>2, <1>3, ElsewhereFaithful, RowChangesFaithful, StartFaithful, FetchFaithful, WriteFaithful,
       LookUpFaithful, AddFactFaithful, FailsFaithful, EndFaithful DEF SyncNext

LEMMA SyncAlways == SyncSpec => [](SyncTInv /\ SyncFaithful)
  <1>1. SyncInit => SyncTInv /\ SyncFaithful
    BY SyncInitInv
  <1>2. SyncTInv /\ SyncFaithful /\ [SyncNext]_syncVars => (SyncTInv /\ SyncFaithful)'
    BY SyncNextTInv, SyncNextFaithful
  <1> QED
    BY <1>1, <1>2, PTL DEF SyncSpec

\* The rule, the queue and the copies keep their shapes, and no row or copy is
\* newer than the outside system's clock.
THEOREM SyncTypeCorrect == SyncSpec => []SyncTypeOK
  <1>1. SyncTInv /\ SyncFaithful => SyncTypeOK
    <2> SUFFICES ASSUME SyncTInv, SyncFaithful PROVE SyncTypeOK
      OBVIOUS
    <2>1. time \in Nat /\ rule.stamp \in 0..time
      BY DEF SyncTInv
    <2>2. rule \in [registered : BOOLEAN, stamp : 0..time,
                    status : {"none", "running", "completed", "failed", "interrupted"}]
      BY <2>1 DEF SyncTInv
    <2>3. \A c \in RowCode : copies[c].holds \in Nat /\ outside[c] \in Nat /\ outside[c] <= time
                               /\ copies[c].holds <= outside[c]
      BY DEF SyncTInv, SyncFaithful, CopyFaithful
    <2>4. \A c \in RowCode : copies[c].holds \in 0..time /\ outside[c] \in 0..time
      BY <2>1, <2>3
    <2>5. connector \in {"none", "active", "disabled"} /\ marking \in {"nobody", "trigger", "scan"}
          /\ enqueued.waiting <= enqueued.all
      BY DEF SyncTInv
    <2> QED
      BY <2>2, <2>4, <2>5 DEF SyncTypeOK
  <1> QED
    BY <1>1, SyncAlways, PTL

\* A full synchronisation catches up with every row that has not failed, and
\* copies each code once, for any number of rows and workers and whatever jobs
\* crash, fail or are repeated, as long as no two of them overlap.
THEOREM SyncCorrect == SyncSpec => []SyncIsFaithful
  <1>1. SyncTInv /\ SyncFaithful => SyncIsFaithful
    BY DEF SyncFaithful, SyncIsFaithful, FullSyncCatchesUp, CaughtUp, CopiedOnce
  <1> QED
    BY <1>1, SyncAlways, PTL

-------------------------------------------------------------------------------
(****************************************************************************)
(* The walks over the facts.  Walks and Reached are computed hop by hop;    *)
(* a walk never returns to what its path holds, and what is reached first   *)
(* after n hops ends a walk of n hops whose path was all reached before.    *)
(****************************************************************************)
\* Walks of one hop, and walks that are one hop longer.
Begun(facts, start, withStart) ==
    {[source |-> f[1], target |-> f[2], depth |-> 1,
      path |-> {IF withStart THEN f[1] ELSE f[2]}] : f \in {g \in facts : g[1] = start}}
Onward(facts, w, n) ==
    {[source |-> f[1], target |-> f[2], depth |-> n, path |-> w.path \cup {f[2]}] :
        f \in {g \in facts : g[1] = w.target /\ g[2] \notin w.path}}
Further(facts, before, n) == UNION {Onward(facts, w, n) : w \in before}
Nodes(facts) == {f[1] : f \in facts} \cup {f[2] : f \in facts}
WalkOf(facts) == [source : Nodes(facts), target : Nodes(facts), depth : Nat, path : SUBSET Nodes(facts)]

\* walk holds the walks by their number of hops; step what is reached by then.
WalksAre(facts, start, hops, withStart, walk) ==
    /\ walk[1] = Begun(facts, start, withStart)
    /\ \A n \in 2..hops : walk[n] = Further(facts, walk[n - 1], n)
    /\ \A n \in 1..hops : walk[n] \subseteq WalkOf(facts)
    /\ Walks(facts, start, hops, withStart) = UNION {walk[n] : n \in 1..hops}
Beyond(facts, before) == before \cup {f[2] : f \in {g \in facts : g[1] \in before}}
StepsAre(facts, start, hops, step) ==
    /\ step[0] = {start}
    /\ \A n \in 1..hops : step[n] = Beyond(facts, step[n - 1])
    /\ Reached(facts, start, hops) = step[hops]

\* The walks of a search are computed hop by hop.
LEMMA WalksUnfold ==
    ASSUME NEW facts, NEW start, NEW hops \in Nat \ {0}, NEW withStart \in BOOLEAN
    PROVE  \E walk : WalksAre(facts, start, hops, withStart, walk)
  <1> DEFINE V == SUBSET WalkOf(facts)
             first == Begun(facts, start, withStart)
             next == [i \in 1..hops |-> [s \in V |-> IF i = 1 THEN first ELSE Further(facts, s, i)]]
             rec(h) == [n \in 1..hops |-> IF n = 1 THEN first ELSE LET before == h[n - 1] IN Further(facts, before, n)]
  <1>1. first \in V
    BY DEF Begun, WalkOf, Nodes
  <1>2. ASSUME NEW n \in 1..hops, NEW s \in V PROVE Further(facts, s, n) \in V
    <2>1. ASSUME NEW w \in s PROVE Onward(facts, w, n) \subseteq WalkOf(facts)
      <3>1. w.path \in SUBSET Nodes(facts)
        BY DEF WalkOf
      <3>2. ASSUME NEW f \in facts
            PROVE  [source |-> f[1], target |-> f[2], depth |-> n, path |-> w.path \cup {f[2]}] \in WalkOf(facts)
        <4>1. f[1] \in Nodes(facts) /\ f[2] \in Nodes(facts)
          BY DEF Nodes
        <4> QED
          BY <3>1, <4>1 DEF WalkOf
      <3> QED
        BY <3>2 DEF Onward
    <2> QED
      BY <2>1 DEF Further
  <1>3. hops \in Nat /\ next \in [1..hops -> [V -> V]]
    BY <1>1, <1>2
  <1>4. PICK f : Unfolds(hops, V, first, next, f)
    <2> HIDE DEF V, first, next
    <2> QED
      BY <1>1, <1>3, Stepwise
  <1>5. ASSUME NEW i \in 1..hops, NEW s \in V
        PROVE  next[i][s] = IF i = 1 THEN first ELSE Further(facts, s, i)
    OBVIOUS
  <1> DEFINE g == [n \in 1..hops |-> f[n]]
  <1>6. g = rec(g)
    <2>1. ASSUME NEW n \in 1..hops PROVE g[n] = rec(g)[n]
      <3> HIDE DEF next, V, first
      <3>0. n - 1 \in 0..hops
        OBVIOUS
      <3>1. f[n - 1] \in V /\ f[n] = next[n][f[n - 1]]
        BY <1>4, <3>0 DEF Unfolds
      <3>2. f[n] = IF n = 1 THEN first ELSE Further(facts, f[n - 1], n)
        BY <1>5, <3>1
      <3>3. n # 1 => n - 1 \in 1..hops
        OBVIOUS
      <3> QED
        BY <3>2, <3>3
    <2> HIDE DEF first
    <2> QED
      BY <2>1
  <1> DEFINE ch == CHOOSE h : h = rec(h)
  <1>7. ch = rec(ch)
    <2> HIDE DEF rec
    <2> QED
      BY <1>6
  <1>8. Walks(facts, start, hops, withStart) = UNION {ch[n] : n \in 1..hops}
    BY DEF Walks, Begun, Further, Onward
  <1> HIDE DEF ch
  <1>9. ch[1] = first /\ \A n \in 2..hops : ch[n] = Further(facts, ch[n - 1], n)
    <2>1. 1 \in 1..hops /\ \A n \in 2..hops : n \in 1..hops /\ n # 1
      OBVIOUS
    <2> HIDE DEF first
    <2> QED
      BY <1>7, <2>1
  <1>10. \A n \in 1..hops : ch[n] \in V
    <2> DEFINE T == {k \in 0..hops : k \in 1..hops => ch[k] \in V}
    <2>1. 0 \in T
      OBVIOUS
    <2>2. ASSUME NEW k \in 0..(hops - 1), k \in T PROVE k + 1 \in T
      <3>1. CASE k = 0
        <4> HIDE DEF V, first
        <4> QED
          BY <3>1, <1>1, <1>9
      <3>2. CASE k # 0
        <4>1. k \in 1..hops /\ k + 1 \in 2..hops /\ k + 1 \in 1..hops /\ k + 1 - 1 = k /\ k + 1 \in 0..hops
          BY <3>2
        <4>2. ch[k] \in V
          BY <2>2, <4>1
        <4>3. ch[k + 1] = Further(facts, ch[k], k + 1)
          BY <1>9, <4>1
        <4> HIDE DEF V
        <4> QED
          BY <1>2, <4>1, <4>2, <4>3
      <3> QED
        BY <3>1, <3>2
    <2>3. 0..hops \subseteq T
      <3> HIDE DEF T
      <3> QED
        BY <2>1, <2>2, <1>3, Counting
    <2> HIDE DEF V
    <2> QED
      BY <2>3
  <1> QED
    BY <1>8, <1>9, <1>10 DEF WalksAre

\* What is reached is computed hop by hop.
LEMMA ReachedUnfolds ==
    ASSUME NEW facts, NEW start, NEW hops \in Nat
    PROVE  \E step : StepsAre(facts, start, hops, step)
  <1> DEFINE V == SUBSET (Nodes(facts) \cup {start})
             next == [i \in 1..hops |-> [s \in V |-> Beyond(facts, s)]]
             rec(h) == [n \in 0..hops |-> IF n = 0 THEN {start} ELSE LET before == h[n - 1] IN Beyond(facts, before)]
  <1>1. {start} \in V
    OBVIOUS
  <1>2. ASSUME NEW s \in V PROVE Beyond(facts, s) \in V
    BY DEF Beyond, Nodes
  <1>3. next \in [1..hops -> [V -> V]]
    BY <1>2
  <1>4. PICK f : Unfolds(hops, V, {start}, next, f)
    <2> HIDE DEF V, next
    <2> QED
      BY <1>1, <1>3, Stepwise
  <1>5. ASSUME NEW i \in 1..hops, NEW s \in V PROVE next[i][s] = Beyond(facts, s)
    OBVIOUS
  <1>6. f = rec(f)
    <2>1. f = [n \in 0..hops |-> f[n]]
      BY <1>4 DEF Unfolds
    <2>2. ASSUME NEW n \in 0..hops PROVE f[n] = rec(f)[n]
      <3>1. CASE n = 0
        BY <1>4, <3>1 DEF Unfolds
      <3>2. CASE n # 0
        <4>1. n \in 1..hops /\ n - 1 \in 0..hops
          BY <3>2
        <4>2. f[n - 1] \in V /\ f[n] = next[n][f[n - 1]]
          BY <4>1, <1>4 DEF Unfolds
        <4>3. f[n] = Beyond(facts, f[n - 1])
          <5> HIDE DEF next, V
          <5> QED
            BY <1>5, <4>1, <4>2
        <4> QED
          BY <4>3, <3>2
      <3> QED
        BY <3>1, <3>2
    <2> QED
      BY <2>1, <2>2
  <1> DEFINE ch == CHOOSE h : h = rec(h)
  <1>7. ch = rec(ch)
    <2> HIDE DEF rec
    <2> QED
      BY <1>6
  <1>8. Reached(facts, start, hops) = ch[hops]
    BY DEF Reached, Beyond
  <1> HIDE DEF ch
  <1>9. ch[0] = {start} /\ \A n \in 1..hops : ch[n] = Beyond(facts, ch[n - 1])
    <2>1. 0 \in 0..hops /\ \A n \in 1..hops : n \in 0..hops /\ n # 0
      OBVIOUS
    <2> QED
      BY <1>7, <2>1
  <1> QED
    BY <1>8, <1>9 DEF StepsAre

\* More hops reach no less.
LEMMA StepsGrow ==
    ASSUME NEW facts, NEW start, NEW hops \in Nat, NEW step, StepsAre(facts, start, hops, step),
           NEW n \in 0..hops
    PROVE  step[n] \subseteq step[hops]
  <1> DEFINE T == {k \in 0..hops : k >= n => step[n] \subseteq step[k]}
  <1>1. 0 \in T
    <2>1. 0 >= n => n = 0
      OBVIOUS
    <2> QED
      BY <2>1
  <1>2. ASSUME NEW k \in 0..(hops - 1), k \in T PROVE k + 1 \in T
    <2>1. k + 1 \in 1..hops /\ k + 1 - 1 = k /\ k + 1 \in 0..hops
      OBVIOUS
    <2>2. step[k] \subseteq step[k + 1]
      BY <2>1 DEF StepsAre, Beyond
    <2>3. CASE k >= n
      BY <1>2, <2>1, <2>2, <2>3
    <2>4. CASE k < n
      <3>1. k + 1 >= n => k + 1 = n
        BY <2>4
      <3> QED
        BY <3>1, <2>1
    <2> QED
      BY <2>3, <2>4
  <1>3. 0..hops \subseteq T
    <2> HIDE DEF T
    <2> QED
      BY <1>1, <1>2, Counting
  <1> QED
    BY <1>3

\* A walk ends where its hops lead.
LEMMA WalksReach ==
    ASSUME NEW facts, NEW start, NEW hops \in Nat \ {0}, NEW withStart \in BOOLEAN, NEW limit \in Nat, hops <= limit,
           NEW walk, WalksAre(facts, start, hops, withStart, walk),
           NEW step, StepsAre(facts, start, limit, step),
           NEW n \in 1..hops, NEW w \in walk[n]
    PROVE  w.target \in step[n]
  <1> DEFINE T == {k \in 0..hops : k # 0 => \A v \in walk[k] : v.target \in step[k]}
  <1>1. 0 \in T
    OBVIOUS
  <1>2. ASSUME NEW k \in 0..(hops - 1), k \in T PROVE k + 1 \in T
    <2>1. k + 1 \in 1..limit /\ k + 1 - 1 = k /\ k + 1 \in 0..hops
      OBVIOUS
    <2>2. step[k + 1] = Beyond(facts, step[k])
      <3>1. \A i \in 1..limit : step[i] = Beyond(facts, step[i - 1])
        BY DEF StepsAre
      <3>2. step[k + 1] = Beyond(facts, step[k + 1 - 1])
        BY <3>1, <2>1
      <3> QED
        BY <3>2, <2>1
    <2>3. CASE k = 0
      <3>0. k + 1 = 1
        BY <2>3
      <3>1. walk[1] = Begun(facts, start, withStart) /\ step[1] = Beyond(facts, {start})
        <4>1. step[k] = {start} /\ walk[1] = Begun(facts, start, withStart)
          BY <2>3 DEF WalksAre, StepsAre
        <4> QED
          BY <2>2, <3>0, <4>1
      <3>2. \A v \in walk[1] : v.target \in step[1]
        BY <3>1 DEF Begun, Beyond
      <3> QED
        BY <3>2, <2>1, <2>3
    <2>4. CASE k # 0
      <3>1. k + 1 \in 2..hops
        BY <2>4
      <3>2. walk[k + 1] = Further(facts, walk[k], k + 1)
        BY <3>1, <2>1 DEF WalksAre
      <3>3. \A v \in walk[k] : v.target \in step[k]
        BY <1>2, <2>4
      <3>4. \A v \in walk[k + 1] : v.target \in step[k + 1]
        BY <3>2, <3>3, <2>2 DEF Further, Onward, Beyond
      <3> QED
        BY <3>4, <2>1
    <2> QED
      BY <2>3, <2>4
  <1>3. 0..hops \subseteq T
    <2>1. hops \in Nat
      OBVIOUS
    <2> HIDE DEF T
    <2> QED
      BY <1>1, <1>2, <2>1, Counting
  <1>4. n \in T
    BY <1>3
  <1> QED
    BY <1>4

\* What a graph query returns can be reached within as many hops.
LEMMA QueriesReach ==
    ASSUME NEW facts, NEW start, NEW hops \in Nat \ {0}, NEW limit \in Nat, hops <= limit,
           NEW w \in GraphQuery(facts, start, hops)
    PROVE  w.target \in Reached(facts, start, limit)
  <1>1. PICK v \in Walks(facts, start, hops, FALSE) : w.target = v.target
    <2> DEFINE W == Walks(facts, start, hops, FALSE)
    <2>1. w \in {[source |-> v.source, target |-> v.target, depth |-> v.depth] : v \in W}
      BY DEF GraphQuery
    <2> HIDE DEF W
    <2>2. PICK v \in W : w = [source |-> v.source, target |-> v.target, depth |-> v.depth]
      BY <2>1
    <2>3. w.target = v.target
      BY <2>2
    <2> QED
      BY <2>3 DEF W
  <1>2. PICK walk : WalksAre(facts, start, hops, FALSE, walk)
    BY WalksUnfold
  <1>3. PICK step : StepsAre(facts, start, limit, step)
    BY ReachedUnfolds
  <1>4. PICK n \in 1..hops : v \in walk[n]
    BY <1>1, <1>2 DEF WalksAre
  <1>5. v.target \in step[n]
    BY <1>2, <1>3, <1>4, WalksReach
  <1>6. step[n] \subseteq step[limit]
    <2>1. n \in 0..limit
      OBVIOUS
    <2> QED
      BY <1>3, <2>1, StepsGrow
  <1> QED
    BY <1>1, <1>3, <1>5, <1>6 DEF StepsAre

\* What is reached after n hops and not before ends a walk of n hops, and all
\* that its path holds was reached by then.
FirstReached(walk, step, n) ==
    \A y \in step[n] : y \notin step[n - 1] =>
        \E w \in walk[n] : w.target = y /\ w.path \subseteq step[n]

LEMMA ShortestWalks ==
    ASSUME NEW S, NEW facts \in SUBSET (S \X S), NEW start \in S, NEW hops \in Nat \ {0},
           NEW walk, WalksAre(facts, start, hops, TRUE, walk),
           NEW step, StepsAre(facts, start, hops, step),
           NEW n \in 1..hops
    PROVE  FirstReached(walk, step, n)
  <1> DEFINE T == {k \in 0..hops : k # 0 => FirstReached(walk, step, k)}
  <1>1. 0 \in T
    OBVIOUS
  <1>a. \A i \in 1..hops : step[i] = Beyond(facts, step[i - 1])
    BY DEF StepsAre
  <1>2. ASSUME NEW k \in 0..(hops - 1), k \in T PROVE k + 1 \in T
    <2>1. k + 1 \in 1..hops /\ k + 1 - 1 = k /\ k + 1 \in 0..hops
      OBVIOUS
    <2>2. step[k + 1] = Beyond(facts, step[k])
      <3>1. step[k + 1] = Beyond(facts, step[k + 1 - 1])
        BY <1>a, <2>1
      <3> QED
        BY <3>1, <2>1
    <2>3. ASSUME NEW y \in step[k + 1], y \notin step[k]
          PROVE  \E w \in walk[k + 1] : w.target = y /\ w.path \subseteq step[k + 1]
      <3>1. PICK f \in facts : f[1] \in step[k] /\ f[2] = y
        BY <2>2, <2>3 DEF Beyond
      <3>2. CASE k = 0
        <4>1. step[k] = {start} /\ walk[1] = Begun(facts, start, TRUE) /\ k + 1 = 1
          BY <3>2 DEF StepsAre, WalksAre
        <4>2. f[1] = start
          BY <3>1, <4>1
        <4> DEFINE w == [source |-> f[1], target |-> f[2], depth |-> 1, path |-> {f[1]}]
        <4>3. w \in walk[k + 1]
          BY <4>1, <4>2 DEF Begun
        <4>4. w.path \subseteq step[k + 1] /\ w.target = y
          BY <4>1, <4>2, <2>2, <3>1 DEF Beyond
        <4> QED
          BY <4>3, <4>4
      <3>3. CASE k # 0
        <4>0. k \in 1..hops /\ k + 1 \in 2..hops
          BY <3>3
        <4>1. f[1] \notin step[k - 1]
          <5>1. step[k] = Beyond(facts, step[k - 1])
            BY <1>a, <4>0
          <5> QED
            BY <5>1, <3>1, <2>3 DEF Beyond
        <4>2. FirstReached(walk, step, k)
          BY <1>2, <3>3
        <4>3. PICK v \in walk[k] : v.target = f[1] /\ v.path \subseteq step[k]
          BY <4>1, <4>2, <3>1 DEF FirstReached
        <4>4. walk[k + 1] = Further(facts, walk[k], k + 1)
          <5>1. walk[k + 1] = Further(facts, walk[k + 1 - 1], k + 1)
            BY <4>0 DEF WalksAre
          <5> QED
            BY <5>1, <2>1
        <4> DEFINE w == [source |-> f[1], target |-> f[2], depth |-> k + 1, path |-> v.path \cup {f[2]}]
        <4>5. w \in Onward(facts, v, k + 1)
          BY <4>3, <3>1, <2>3 DEF Onward
        <4>6. w \in walk[k + 1]
          BY <4>3, <4>4, <4>5 DEF Further
        <4>7. w.path \subseteq step[k + 1] /\ w.target = y
          BY <4>3, <2>2, <2>3, <3>1 DEF Beyond
        <4> QED
          BY <4>6, <4>7
      <3> QED
        BY <3>2, <3>3
    <2>4. FirstReached(walk, step, k + 1)
      BY <2>1, <2>3 DEF FirstReached
    <2> QED
      BY <2>1, <2>4
  <1>3. 0..hops \subseteq T
    <2>1. hops \in Nat
      OBVIOUS
    <2> HIDE DEF T
    <2> QED
      BY <1>1, <1>2, <2>1, Counting
  <1> QED
    BY <1>3

\* A walk has the start on its path, and ends there only on a fact from it to itself.
LEMMA WalksAvoidStart ==
    ASSUME NEW S, NEW facts \in SUBSET (S \X S), NEW start \in S, NEW hops \in Nat \ {0},
           NEW walk, WalksAre(facts, start, hops, TRUE, walk), NEW n \in 1..hops, NEW w \in walk[n]
    PROVE  start \in w.path /\ (w.target = start => <<start, start>> \in facts)
  <1> DEFINE T == {k \in 0..hops : k # 0 =>
                       \A v \in walk[k] : start \in v.path /\ (v.target = start => <<start, start>> \in facts)}
  <1>1. 0 \in T
    OBVIOUS
  <1>2. ASSUME NEW k \in 0..(hops - 1), k \in T PROVE k + 1 \in T
    <2>1. k + 1 \in 1..hops /\ k + 1 - 1 = k /\ k + 1 \in 0..hops
      OBVIOUS
    <2>2. CASE k = 0
      <3>1. walk[k + 1] = Begun(facts, start, TRUE)
        <4>1. walk[1] = Begun(facts, start, TRUE) /\ k + 1 = 1
          BY <2>2 DEF WalksAre
        <4> QED
          BY <4>1
      <3>2. ASSUME NEW v \in walk[k + 1]
            PROVE  start \in v.path /\ (v.target = start => <<start, start>> \in facts)
        <4>1. PICK f \in facts : f[1] = start /\ v = [source |-> f[1], target |-> f[2], depth |-> 1, path |-> {f[1]}]
          BY <3>1, <3>2 DEF Begun
        <4>2. f = <<f[1], f[2]>>
          OBVIOUS
        <4> QED
          BY <4>1, <4>2
      <3> QED
        BY <3>2, <2>1
    <2>3. CASE k # 0
      <3>1. k + 1 \in 2..hops
        BY <2>3
      <3>2. walk[k + 1] = Further(facts, walk[k], k + 1)
        <4>1. walk[k + 1] = Further(facts, walk[k + 1 - 1], k + 1)
          BY <3>1 DEF WalksAre
        <4> QED
          BY <4>1, <2>1
      <3>3. ASSUME NEW v \in walk[k + 1] PROVE start \in v.path /\ v.target # start
        <4>1. PICK u \in walk[k] : v \in Onward(facts, u, k + 1)
          BY <3>2, <3>3 DEF Further
        <4>2. start \in u.path
          BY <1>2, <2>3
        <4> QED
          BY <4>1, <4>2 DEF Onward
      <3> QED
        BY <3>3, <2>1
    <2> QED
      BY <2>2, <2>3
  <1>3. 0..hops \subseteq T
    <2>1. hops \in Nat
      OBVIOUS
    <2> HIDE DEF T
    <2> QED
      BY <1>1, <1>2, <2>1, Counting
  <1> QED
    BY <1>3

\* The counts of descendants are exact, for every set of facts and every number
\* of hops: circles neither hide what can be reached nor add to it, although a
\* walk is dropped as soon as it comes back to its own path.
THEOREM CountsAreExact ==
    \A S : \A facts \in SUBSET (S \X S), anchor \in S, hops \in Nat \ {0} : DescendantsExact(facts, anchor, hops)
  <1> SUFFICES ASSUME NEW S, NEW facts \in SUBSET (S \X S), NEW anchor \in S, NEW hops \in Nat \ {0}
               PROVE  DescendantsExact(facts, anchor, hops)
    OBVIOUS
  <1>1. PICK walk : WalksAre(facts, anchor, hops, TRUE, walk)
    BY WalksUnfold
  <1>0. hops \in Nat /\ hops <= hops
    OBVIOUS
  <1>2. PICK step : StepsAre(facts, anchor, hops, step)
    BY <1>0, ReachedUnfolds
  <1>3. ASSUME NEW y PROVE y \in Descendants(facts, anchor, hops) <=> \E n \in 1..hops : \E w \in walk[n] : w.target = y
    BY <1>1 DEF Descendants, WalksAre
  <1>4. Reached(facts, anchor, hops) = step[hops]
    BY <1>2 DEF StepsAre
  <1>5. ASSUME NEW y \in Descendants(facts, anchor, hops)
        PROVE  y \in step[hops] /\ (y = anchor => <<anchor, anchor>> \in facts)
    <2>1. PICK n \in 1..hops : \E w \in walk[n] : w.target = y
      BY <1>3
    <2>2. PICK w \in walk[n] : w.target = y
      BY <2>1
    <2>3. y \in step[n]
      BY <1>0, <1>1, <1>2, <2>2, WalksReach
    <2>4. step[n] \subseteq step[hops]
      <3>1. n \in 0..hops
        OBVIOUS
      <3> QED
        BY <1>0, <1>2, <3>1, StepsGrow
    <2>5. y = anchor => <<anchor, anchor>> \in facts
      BY <1>1, <2>2, WalksAvoidStart
    <2> QED
      BY <2>3, <2>4, <2>5
  <1>6. ASSUME <<anchor, anchor>> \in facts PROVE anchor \in Descendants(facts, anchor, hops)
    <2> DEFINE f == <<anchor, anchor>>
               w == [source |-> f[1], target |-> f[2], depth |-> 1, path |-> {f[1]}]
    <2>1. w \in Begun(facts, anchor, TRUE)
      BY <1>6 DEF Begun
    <2>a. w.target = anchor /\ 1 \in 1..hops
      OBVIOUS
    <2> HIDE DEF w
    <2>b. w \in walk[1]
      BY <1>1, <2>1 DEF WalksAre
    <2>2. 1 \in 1..hops /\ w \in walk[1] /\ w.target = anchor
      BY <2>a, <2>b
    <2> QED
      BY <1>3, <2>2
  <1>7. ASSUME NEW y \in step[hops], y # anchor PROVE y \in Descendants(facts, anchor, hops)
    <2> DEFINE T == {k \in 0..hops : \A x \in step[k] : x # anchor => x \in Descendants(facts, anchor, hops)}
    <2>1. 0 \in T
      BY <1>2 DEF StepsAre
    <2>2. ASSUME NEW k \in 0..(hops - 1), k \in T PROVE k + 1 \in T
      <3>1. k + 1 \in 1..hops /\ k + 1 - 1 = k /\ k + 1 \in 0..hops
        OBVIOUS
      <3>2. FirstReached(walk, step, k + 1)
        BY <1>1, <1>2, <3>1, ShortestWalks
      <3>3. ASSUME NEW x \in step[k + 1], x # anchor PROVE x \in Descendants(facts, anchor, hops)
        <4>1. CASE x \in step[k]
          BY <2>2, <3>3, <4>1
        <4>2. CASE x \notin step[k]
          <5>1. \E w \in walk[k + 1] : w.target = x
            BY <3>1, <3>2, <3>3, <4>2 DEF FirstReached
          <5> QED
            BY <5>1, <3>1, <1>3
        <4> QED
          BY <4>1, <4>2
      <3> QED
        BY <3>1, <3>3
    <2>3. 0..hops \subseteq T
      <3> HIDE DEF T
      <3> QED
        BY <1>0, <2>1, <2>2, Counting
    <2>4. hops \in T
      <3> HIDE DEF T
      <3> QED
        BY <2>3, <1>0
    <2> QED
      BY <2>4, <1>7
  <1>8. \A y : y \in Descendants(facts, anchor, hops) <=>
                  (y \in step[hops] /\ y # anchor) \/ (y = anchor /\ <<anchor, anchor>> \in facts)
    BY <1>5, <1>6, <1>7
  <1>9. Descendants(facts, anchor, hops) =
            (step[hops] \ {anchor}) \cup (IF <<anchor, anchor>> \in facts THEN {anchor} ELSE {})
    BY <1>8
  <1> QED
    BY <1>4, <1>9 DEF DescendantsExact

-------------------------------------------------------------------------------
(****************************************************************************)
(* Questions.  What is known of one question only depends on its own row,   *)
(* so the invariant is stated of a row, phase by phase: until it is         *)
(* upgraded the result is the one of the rules, after that the plan is the  *)
(* one of the intent or the fact plan with a reason.                        *)
(****************************************************************************)
Early == {"off", "candidates", "entities", "rules"}
Phases == Early \cup {"upgrade", "model", "plan", "fact", "relation", "aggregation", "graph", "chunks",
                      "execute", "subgraph", "answered"}

\* The fields of a result and of a row; of the others nothing has to be known.
ResultShape(r) ==
    r \in [entities : SUBSET Entity, identified : {r.identified}, relations : {r.relations}, intent : {r.intent},
           operation : {r.operation}, counted : {r.counted}, relevant : SUBSET Fields, hits : SUBSET Fields,
           ambiguous : {r.ambiguous}, confidence : Int]
RowShape(x) ==
    x \in [pc : Phases, question : {x.question}, context : Entity \cup {NoEntity}, candidates : {x.candidates},
           result : {x.result}, rules : {x.rules}, upgraded : {x.upgraded}, plan : {x.plan}, ran : {x.ran},
           reason : {x.reason}, anchors : {x.anchors}, evidence : {x.evidence}]

\* What the rules found is of the candidates, and a hit is a field that is there.
RulesSound(rules, candidates) ==
    /\ "intent" \in rules.relevant
    /\ rules.relations \subseteq candidates
    /\ "entities" \in rules.hits => rules.entities # {}
    /\ "relations" \in rules.hits => rules.relations # {}
    /\ rules.confidence = Confidence(rules.relevant, rules.hits, rules.ambiguous)

\* What UnderstandingIsGrounded says of a row.
GroundedRow(x) ==
    LET result == x.result
        rules == x.rules
    IN /\ result.relations \subseteq x.candidates
       /\ rules.hits \subseteq result.hits
       /\ "intent" \in rules.hits => result.intent = rules.intent
       /\ "entities" \in rules.hits => result.entities = rules.entities
       /\ "relations" \in rules.hits => result.relations = rules.relations
       /\ x.upgraded => rules.confidence < Threshold
       /\ \/ result.confidence = Confidence(result.relevant, result.hits, result.ambiguous)
          \/ Missing(result) = {} /\ result.confidence = 1000

\* The plan that runs is the one of the intent, and there is a reason exactly
\* when it is not or when there is no plan for the intent.
Special(x) == StructuredIntent(x.result) \in {"CAUSAL", "MIXED"}
Explained(x) == (x.ran # PlanOf(StructuredIntent(x.result)) \/ Special(x)) <=> x.reason = TRUE
OnPlan(x, plan) == x.ran = plan /\ PlanOf(StructuredIntent(x.result)) = plan /\ Explained(x)
FromMentions(x) == \A e \in x.anchors : \E n \in x.result.entities : e \in {n, Alike[n]}

\* What AnswersFollowIntent says of a row.
AnswerSound(x) ==
    /\ Explained(x)
    /\ \A p \in x.evidence :
          /\ p.channel = "capability" => x.ran = "aggregation"
          /\ p.channel = "graph" =>
                \E e \in p.about, from \in x.anchors \cup x.question.names : e \in Reached(Leads, from, 2)
    /\ x.ran = "relation" => FromMentions(x)
    /\ x.ran = "aggregation" /\ x.anchors # {} => x.anchors = x.result.entities /\ Cardinality(x.anchors) = 1

RowInv(x) ==
    /\ RowShape(x) /\ ResultShape(x.result) /\ ResultShape(x.rules)
    /\ x.pc \in Early \cup {"upgrade", "model"} => x.upgraded = FALSE
    /\ x.pc \in {"upgrade", "model"} => x.result = x.rules /\ RulesSound(x.rules, x.candidates)
    /\ x.pc = "model" => x.rules.confidence < Threshold
    /\ x.pc \in {"upgrade", "model", "plan"} => GroundedRow(x)
    /\ x.pc \notin {"graph", "chunks", "answered"} => x.anchors = {}
    /\ x.pc = "fact" => x.ran = "fact" /\ Explained(x)
    /\ x.pc \in {"relation", "graph", "chunks"} => OnPlan(x, "relation") /\ FromMentions(x)
    /\ x.pc \in {"aggregation", "execute", "subgraph"} => OnPlan(x, "aggregation")
    /\ x.pc = "answered" => AnswerSound(x)

\* The cache is a sequence of answers, one for a question.
Entries == [question : Question, answer : Answer \cup {NoAnswer}]
CacheInv == upgradeCache \in Seq(Entries) /\ CacheIsBounded

QuestionsInv ==
    /\ entities \subseteq Entity /\ lastEntity \in Entity \cup {NoEntity}
    /\ \A a \in Asker : asked[a].pc # "off" => asked[a].question \in Question
    /\ asked = [a \in Asker |-> asked[a]]
    /\ \A a \in Asker : RowInv(asked[a])
    /\ CacheInv

\* A confidence is a number once a field is relevant.
LEMMA ConfidenceIsInt ==
    ASSUME NEW relevant \in SUBSET Fields, relevant # {}, NEW hits \in SUBSET Fields, NEW ambiguous
    PROVE  Confidence(relevant, hits, ambiguous) \in Int
  <1>1. IsFiniteSet(Fields)
    <2>1. IsFiniteSet({"time"}) /\ IsFiniteSet({"entities"}) /\ IsFiniteSet({"relations"}) /\ IsFiniteSet({"intent"})
          /\ IsFiniteSet({"constraints"}) /\ IsFiniteSet({"operation"})
      BY FS_Singleton
    <2>2. IsFiniteSet({"time"} \cup {"entities"})
      BY <2>1, FS_Union
    <2>3. IsFiniteSet({"relations"} \cup {"intent"})
      BY <2>1, FS_Union
    <2>4. IsFiniteSet({"constraints"} \cup {"operation"})
      BY <2>1, FS_Union
    <2>5. IsFiniteSet(({"time"} \cup {"entities"}) \cup ({"relations"} \cup {"intent"}))
      BY <2>2, <2>3, FS_Union
    <2>6. IsFiniteSet((({"time"} \cup {"entities"}) \cup ({"relations"} \cup {"intent"}))
                      \cup ({"constraints"} \cup {"operation"}))
      BY <2>4, <2>5, FS_Union
    <2>7. Fields = (({"time"} \cup {"entities"}) \cup ({"relations"} \cup {"intent"}))
                   \cup ({"constraints"} \cup {"operation"})
      BY DEF Fields
    <2> QED
      BY <2>6, <2>7
  <1>2. IsFiniteSet(relevant)
    BY <1>1, FS_Subset
  <1>3. IsFiniteSet(relevant \cap hits)
    BY <1>2, FS_Intersection
  <1>4. Cardinality(relevant) \in Nat /\ Cardinality(relevant) # 0
    BY <1>2, FS_CardinalityType, FS_EmptySet
  <1>5. Cardinality(relevant \cap hits) \in Nat
    BY <1>3, FS_CardinalityType
  <1>6. \A n \in Nat \ {0}, c \in Nat : (2000 * c + n) \div (2 * n) \in Int
    OBVIOUS
  <1>7. (2000 * Cardinality(relevant \cap hits) + Cardinality(relevant)) \div (2 * Cardinality(relevant)) \in Int
    BY <1>4, <1>5, <1>6
  <1> QED
    BY <1>7 DEF Confidence

\* What the rules extract.
LEMMA UnderstoodFields ==
    ASSUME NEW q, NEW context, NEW named \in SUBSET Entity, NEW candidates, NEW resolved,
           NEW r, r = Understood(q, context, named, candidates, resolved)
    PROVE  ResultShape(r) /\ RulesSound(r, candidates)
  <1> DEFINE relations == ExtractedRelations(q, named, candidates)
             intent == ClassifyIntent(q)
             hits == {f \in Fields : \/ f = "time" /\ ExtractedTime(q).hit
                                     \/ f = "entities" /\ named # {}
                                     \/ f = "relations" /\ relations # {}
                                     \/ f = "intent" /\ intent # "none"
                                     \/ f = "constraints" /\ ExtractedTime(q).constraints
                                     \/ f = "operation" /\ q.operation # "none"}
             ambiguous == Cardinality(q.keywords) > 1
             relevant == Relevant(q, context)
             operation == ExtractedOperation(q, resolved)
  <1>1. r = [entities |-> named, identified |-> TRUE, relations |-> relations, intent |-> intent,
             operation |-> operation.operation, counted |-> operation.counted,
             relevant |-> relevant, hits |-> hits, ambiguous |-> ambiguous,
             confidence |-> Confidence(relevant, hits, ambiguous)]
    BY DEF Understood
  <1>2. relevant \in SUBSET Fields /\ "intent" \in relevant
    BY DEF Relevant, Fields
  <1>3. hits \in SUBSET Fields
    OBVIOUS
  <1>4. relations \subseteq candidates
    BY DEF ExtractedRelations
  <1>5. ("entities" \in hits => named # {}) /\ ("relations" \in hits => relations # {})
    <2> HIDE DEF relations, intent
    <2> QED
      OBVIOUS
  <1> HIDE DEF relations, intent, hits, ambiguous, relevant, operation
  <1>6. Confidence(relevant, hits, ambiguous) \in Int
    BY <1>2, <1>3, ConfidenceIsInt
  <1>7. ResultShape(r)
    BY <1>1, <1>2, <1>3, <1>6 DEF ResultShape
  <1> QED
    BY <1>1, <1>2, <1>4, <1>5, <1>7 DEF RulesSound

\* What the model adds to the rules.
LEMMA MergedFields ==
    ASSUME NEW candidates, NEW rules, ResultShape(rules), RulesSound(rules, candidates),
           NEW answer \in Answer, NEW r, r = Merged(rules, answer, candidates)
    PROVE  /\ ResultShape(r) /\ r.relations \subseteq candidates /\ rules.hits \subseteq r.hits
           /\ "intent" \in rules.hits => r.intent = rules.intent
           /\ "entities" \in rules.hits => r.entities = rules.entities
           /\ "relations" \in rules.hits => r.relations = rules.relations
           /\ r.confidence = Confidence(r.relevant, r.hits, r.ambiguous)
  <1> DEFINE fails == "entities" \in Missing(rules) /\ answer.entities # {} /\ ~answer.wellFormed
             intent == IF "intent" \in Missing(rules) /\ answer.intent \in Intents THEN answer.intent ELSE rules.intent
             relations == IF rules.relations # {} \/ fails THEN rules.relations
                          ELSE ValidateRelations(answer.relations, candidates)
             named == IF rules.entities # {} \/ ~answer.wellFormed THEN rules.entities ELSE answer.entities
             hits == rules.hits \cup (IF intent # "none" THEN {"intent"} ELSE {})
                         \cup (IF relations # {} THEN {"relations"} ELSE {}) \cup (IF named # {} THEN {"entities"} ELSE {})
             identified == (named = rules.entities \/ answer.identified)
  <1>1. r = [rules EXCEPT !.intent = intent, !.relations = relations, !.entities = named, !.hits = hits,
                          !.identified = identified,
                          !.confidence = Confidence(rules.relevant, hits, rules.ambiguous)]
    BY DEF Merged
  <1>2. relations \subseteq candidates
    BY DEF ValidateRelations, RulesSound
  <1>3. named \in SUBSET Entity
    BY QuestionConstants DEF QuestionConstants, ResultShape
  <1>4. /\ "intent" \in rules.hits => intent = rules.intent
        /\ "entities" \in rules.hits => named = rules.entities
        /\ "relations" \in rules.hits => relations = rules.relations
    BY DEF RulesSound, Missing
  <1>5. rules.hits \in SUBSET Fields /\ rules.relevant \in SUBSET Fields /\ rules.relevant # {}
    BY DEF RulesSound, ResultShape
  <1>6. hits \in SUBSET Fields /\ rules.hits \subseteq hits
    <2> HIDE DEF intent, relations, named
    <2> QED
      BY <1>5 DEF Fields
  <1> HIDE DEF fails, intent, relations, named, hits, identified
  <1>7. Confidence(rules.relevant, hits, rules.ambiguous) \in Int
    BY <1>5, <1>6, ConfidenceIsInt
  <1>8. /\ r.entities = named /\ r.relations = relations /\ r.intent = intent /\ r.hits = hits
        /\ r.relevant = rules.relevant /\ r.ambiguous = rules.ambiguous
        /\ r.confidence = Confidence(rules.relevant, hits, rules.ambiguous)
    BY <1>1 DEF ResultShape
  <1>9. ResultShape(r)
    BY <1>1, <1>3, <1>5, <1>6, <1>7 DEF ResultShape
  <1> QED
    BY <1>2, <1>4, <1>6, <1>8, <1>9

\* The steps of a row.
LEMMA NotAskedRow == RowInv(NotAsked) /\ NotAsked.pc = "off"
  <1>1. ResultShape(NoResult)
    BY DEF ResultShape, NoResult
  <1>2. /\ NotAsked.pc = "off" /\ NotAsked.result = NoResult /\ NotAsked.rules = NoResult /\ NotAsked.upgraded = FALSE
        /\ NotAsked.anchors = {}
    BY DEF NotAsked
  <1>3. RowShape(NotAsked)
    BY DEF RowShape, NotAsked, Phases, Early
  <1> QED
    BY <1>1, <1>2, <1>3 DEF RowInv, Early

\* Before the rules there is nothing but the question and its context.
LEMMA EarlyRow ==
    ASSUME NEW x, RowShape(x), x.pc \in Early, x.upgraded = FALSE, x.anchors = {},
           ResultShape(x.result), ResultShape(x.rules)
    PROVE  RowInv(x)
  BY DEF RowInv, Early

LEMMA AskRow ==
    ASSUME NEW q, NEW context \in Entity \cup {NoEntity},
           NEW y, y = [NotAsked EXCEPT !.pc = "candidates", !.question = q, !.context = context]
    PROVE  RowInv(y) /\ y.question = q
  <1>1. /\ y.pc = "candidates" /\ y.question = q /\ y.upgraded = FALSE /\ y.anchors = {}
        /\ y.result = NoResult /\ y.rules = NoResult
    BY DEF NotAsked
  <1>2. RowShape(y)
    BY ZenonT(30) DEF RowShape, NotAsked, Phases, Early
  <1>3. ResultShape(NoResult)
    BY DEF ResultShape, NoResult
  <1> QED
    BY <1>1, <1>2, <1>3, EarlyRow DEF Early

LEMMA CandidatesRow ==
    ASSUME NEW x, RowInv(x), x.pc = "candidates", NEW types,
           NEW y, y = [x EXCEPT !.pc = "entities", !.candidates = types]
    PROVE  RowInv(y) /\ y.question = x.question
  <1>1. RowShape(x)
    BY DEF RowInv
  <1>2. /\ y.pc = "entities" /\ y.question = x.question /\ y.upgraded = x.upgraded /\ y.anchors = x.anchors
        /\ y.result = x.result /\ y.rules = x.rules
    BY <1>1 DEF RowShape
  <1>3. RowShape(y)
    BY <1>1 DEF RowShape, Phases, Early
  <1>4. x.upgraded = FALSE /\ x.anchors = {}
    BY DEF RowInv, Early
  <1> QED
    BY <1>2, <1>3, <1>4, EarlyRow DEF RowInv, Early

LEMMA ExtractRow ==
    ASSUME NEW x, RowInv(x), x.pc = "entities", NEW named \in SUBSET Entity,
           NEW y, y = [x EXCEPT !.pc = "rules", !.result.entities = named]
    PROVE  RowInv(y) /\ y.question = x.question
  <1>1. RowShape(x) /\ ResultShape(x.result)
    BY DEF RowInv
  <1> DEFINE r == [x.result EXCEPT !.entities = named]
  <1>2. ResultShape(r)
    BY <1>1 DEF ResultShape
  <1>3. y = [x EXCEPT !.pc = "rules", !.result = r]
    OBVIOUS
  <1> HIDE DEF r
  <1>4. /\ y.pc = "rules" /\ y.question = x.question /\ y.upgraded = x.upgraded /\ y.anchors = x.anchors
        /\ y.result = r /\ y.rules = x.rules
    BY <1>1, <1>3 DEF RowShape
  <1>5. RowShape(y)
    BY <1>1, <1>3 DEF RowShape, Phases, Early
  <1>6. x.upgraded = FALSE /\ x.anchors = {}
    BY DEF RowInv, Early
  <1> QED
    BY <1>2, <1>4, <1>5, <1>6, EarlyRow DEF RowInv, Early

LEMMA UnderstandRow ==
    ASSUME NEW x, RowInv(x), x.pc = "rules", NEW resolved,
           NEW r, r = Understood(x.question, x.context, x.result.entities, x.candidates, resolved),
           NEW y, y = [x EXCEPT !.pc = "upgrade", !.result = r, !.rules = r]
    PROVE  RowInv(y) /\ y.question = x.question
  <1>1. RowShape(x) /\ x.result.entities \in SUBSET Entity
    BY DEF RowInv, ResultShape
  <1>2. ResultShape(r) /\ RulesSound(r, x.candidates)
    BY <1>1, UnderstoodFields
  <1>3. /\ y.pc = "upgrade" /\ y.question = x.question /\ y.upgraded = x.upgraded /\ y.anchors = x.anchors
        /\ y.result = r /\ y.rules = r /\ y.candidates = x.candidates
    BY <1>1 DEF RowShape
  <1>4. RowShape(y)
    BY <1>1 DEF RowShape, Phases, Early
  <1>5. x.upgraded = FALSE /\ x.anchors = {}
    BY DEF RowInv, Early
  <1>6. GroundedRow(y)
    BY <1>2, <1>3, <1>5 DEF GroundedRow, RulesSound
  <1> QED
    BY <1>2, <1>3, <1>4, <1>5, <1>6 DEF RowInv, Early

\* The rules stand: the model is not asked.
LEMMA RulesStandRow ==
    ASSUME NEW x, RowInv(x), x.pc = "upgrade", NEW y, y = [x EXCEPT !.pc = "plan"]
    PROVE  RowInv(y) /\ y.question = x.question
  <1>1. RowShape(x)
    BY DEF RowInv
  <1>2. /\ y.pc = "plan" /\ y.question = x.question /\ y.upgraded = x.upgraded /\ y.anchors = x.anchors
        /\ y.result = x.result /\ y.rules = x.rules /\ y.candidates = x.candidates
    BY <1>1 DEF RowShape
  <1>3. RowShape(y)
    BY <1>1 DEF RowShape, Phases, Early
  <1>4. x.anchors = {} /\ GroundedRow(x)
    BY DEF RowInv
  <1>5. GroundedRow(y)
    BY <1>2, <1>4 DEF GroundedRow
  <1> QED
    BY <1>2, <1>3, <1>4, <1>5 DEF RowInv, Early

\* A confidence that is raised leaves the rest of the result.
Raises(r, result) ==
    /\ ResultShape(r) /\ r.relations = result.relations /\ r.hits = result.hits /\ r.intent = result.intent
    /\ r.entities = result.entities /\ r.relevant = result.relevant /\ r.confidence = 1000

LEMMA RaisedResult ==
    ASSUME NEW result, ResultShape(result)
    PROVE  Raises([result EXCEPT !.confidence = 1000], result)
  <1> DEFINE r == [result EXCEPT !.confidence = 1000]
  <1>1. ResultShape(r)
    BY DEF ResultShape
  <1>2. /\ r.relations = result.relations /\ r.hits = result.hits /\ r.intent = result.intent
        /\ r.entities = result.entities /\ r.relevant = result.relevant /\ r.confidence = 1000
    BY DEF ResultShape
  <1> HIDE DEF r
  <1>3. Raises(r, result)
    BY <1>1, <1>2 DEF Raises
  <1> QED
    BY <1>3 DEF r

LEMMA NothingMissingRow ==
    ASSUME NEW x, RowInv(x), x.pc = "upgrade", Missing(x.result) = {}, NEW r, Raises(r, x.result),
           NEW y, y = [x EXCEPT !.pc = "plan", !.result = r]
    PROVE  RowInv(y) /\ y.question = x.question
  <1>1. RowShape(x)
    BY DEF RowInv
  <1>3. /\ y.pc = "plan" /\ y.question = x.question /\ y.upgraded = x.upgraded /\ y.anchors = x.anchors
        /\ y.result = r /\ y.rules = x.rules /\ y.candidates = x.candidates
    BY <1>1 DEF RowShape
  <1>4. RowShape(y)
    BY <1>1 DEF RowShape, Phases, Early
  <1>5. x.anchors = {} /\ x.upgraded = FALSE /\ GroundedRow(x)
    BY DEF RowInv
  <1>6. Missing(r) = {}
    BY DEF Missing, Raises
  <1>7. GroundedRow(y)
    BY <1>3, <1>5, <1>6 DEF GroundedRow, Raises
  <1> QED
    BY <1>3, <1>4, <1>5, <1>7 DEF RowInv, Early, Raises

LEMMA AskModelRow ==
    ASSUME NEW x, RowInv(x), x.pc = "upgrade", x.rules.confidence < Threshold, NEW y, y = [x EXCEPT !.pc = "model"]
    PROVE  RowInv(y) /\ y.question = x.question
  <1>1. RowShape(x)
    BY DEF RowInv
  <1>2. /\ y.pc = "model" /\ y.question = x.question /\ y.upgraded = x.upgraded /\ y.anchors = x.anchors
        /\ y.result = x.result /\ y.rules = x.rules /\ y.candidates = x.candidates
    BY <1>1 DEF RowShape
  <1>3. RowShape(y)
    BY <1>1 DEF RowShape, Phases, Early
  <1>4. /\ x.anchors = {} /\ x.upgraded = FALSE /\ GroundedRow(x) /\ RulesSound(x.rules, x.candidates)
        /\ x.result = x.rules
    BY DEF RowInv
  <1>5. GroundedRow(y)
    BY <1>2, <1>4 DEF GroundedRow
  <1> QED
    BY <1>2, <1>3, <1>4, <1>5 DEF RowInv, Early

LEMMA UpgradedRow ==
    ASSUME NEW x, RowInv(x), x.pc \in {"upgrade", "model"}, x.rules.confidence < Threshold,
           NEW answer \in Answer \cup {NoAnswer},
           NEW y, y = [x EXCEPT !.pc = "plan", !.upgraded = TRUE,
                           !.result = IF answer = NoAnswer THEN x.result ELSE Merged(x.result, answer, x.candidates)]
    PROVE  RowInv(y) /\ y.question = x.question
  <1>1. RowShape(x) /\ ResultShape(x.result) /\ ResultShape(x.rules) /\ x.anchors = {} /\ x.upgraded = FALSE
    BY DEF RowInv
  <1>2. x.result = x.rules /\ RulesSound(x.rules, x.candidates)
    BY DEF RowInv
  <1> DEFINE r == IF answer = NoAnswer THEN x.result ELSE Merged(x.result, answer, x.candidates)
  <1>3. y = [x EXCEPT !.pc = "plan", !.upgraded = TRUE, !.result = r]
    OBVIOUS
  <1>4. /\ ResultShape(r) /\ r.relations \subseteq x.candidates /\ x.rules.hits \subseteq r.hits
        /\ "intent" \in x.rules.hits => r.intent = x.rules.intent
        /\ "entities" \in x.rules.hits => r.entities = x.rules.entities
        /\ "relations" \in x.rules.hits => r.relations = x.rules.relations
        /\ r.confidence = Confidence(r.relevant, r.hits, r.ambiguous)
    <2>1. CASE answer = NoAnswer
      BY <1>1, <1>2, <2>1 DEF RulesSound
    <2>2. CASE answer # NoAnswer
      <3>1. answer \in Answer /\ r = Merged(x.rules, answer, x.candidates)
        BY <2>2, <1>2
      <3> HIDE DEF r
      <3> QED
        BY <3>1, <1>1, <1>2, MergedFields
    <2> QED
      BY <2>1, <2>2
  <1> HIDE DEF r
  <1>5. /\ y.pc = "plan" /\ y.question = x.question /\ y.upgraded = TRUE /\ y.anchors = x.anchors
        /\ y.result = r /\ y.rules = x.rules /\ y.candidates = x.candidates
    BY <1>1, <1>3 DEF RowShape
  <1>6. RowShape(y)
    BY <1>1, <1>3 DEF RowShape, Phases, Early
  <1>7. GroundedRow(y)
    BY <1>4, <1>5 DEF GroundedRow
  <1> QED
    BY <1>1, <1>4, <1>5, <1>6, <1>7 DEF RowInv, Early

\* A row on its way through a plan has no rules any more.
PlanStarts(y, x, intent, plan) ==
    y = [x EXCEPT !.pc = plan, !.plan = plan, !.ran = plan, !.reason = intent \in {"CAUSAL", "MIXED"},
                  !.candidates = {}, !.rules = NoResult]

LEMMA StartShape ==
    ASSUME NEW x, RowShape(x), NEW plan \in Phases, NEW reason
    PROVE  RowShape([x EXCEPT !.pc = plan, !.plan = plan, !.ran = plan, !.reason = reason, !.candidates = {},
                              !.rules = NoResult])
  BY ZenonT(30) DEF RowShape

LEMMA SelectRow ==
    ASSUME NEW x, RowInv(x), x.pc = "plan",
           NEW intent, intent = StructuredIntent(x.result), NEW plan, plan = PlanOf(intent),
           NEW y, PlanStarts(y, x, intent, plan)
    PROVE  RowInv(y) /\ y.question = x.question
  <1>1. RowShape(x) /\ ResultShape(x.result) /\ x.anchors = {}
    BY DEF RowInv
  <1>2. plan \in {"relation", "aggregation", "fact"}
    BY DEF PlanOf
  <1> DEFINE reason == intent \in {"CAUSAL", "MIXED"}
  <1>a. y = [x EXCEPT !.pc = plan, !.plan = plan, !.ran = plan, !.reason = reason, !.candidates = {}, !.rules = NoResult]
    BY DEF PlanStarts
  <1> HIDE DEF reason
  <1>3. /\ y.pc = plan /\ y.question = x.question /\ y.anchors = {}
        /\ y.result = x.result /\ y.rules = NoResult /\ y.ran = plan /\ y.reason = reason
    BY <1>1, <1>a DEF RowShape
  <1>4. RowShape(y)
    <2>1. plan \in Phases
      BY <1>2 DEF Phases
    <2> QED
      BY <1>1, <1>a, <2>1, StartShape
  <1>5. ResultShape(NoResult)
    BY DEF ResultShape, NoResult
  <1>6. Explained(y)
    BY <1>3 DEF Explained, Special, reason
  <1>7. FromMentions(y)
    BY <1>3 DEF FromMentions
  <1>8. OnPlan(y, plan)
    BY <1>3, <1>6 DEF OnPlan
  <1> QED
    BY <1>1, <1>2, <1>3, <1>4, <1>5, <1>6, <1>7, <1>8 DEF RowInv, Early

\* A plan of its own is never the one of an intent without a plan.
LEMMA FallBackRow ==
    ASSUME NEW x, RowInv(x), x.pc \in {"relation", "subgraph"},
           NEW y, y = [x EXCEPT !.pc = "fact", !.ran = "fact", !.reason = TRUE]
    PROVE  RowInv(y) /\ y.question = x.question
  <1>1. RowShape(x) /\ ResultShape(x.result) /\ ResultShape(x.rules) /\ x.anchors = {}
    BY DEF RowInv
  <1>2. PlanOf(StructuredIntent(x.result)) # "fact"
    BY DEF RowInv, OnPlan
  <1>3. /\ y.pc = "fact" /\ y.question = x.question /\ y.anchors = {}
        /\ y.result = x.result /\ y.rules = x.rules /\ y.ran = "fact" /\ y.reason = TRUE
    BY <1>1 DEF RowShape
  <1>4. RowShape(y)
    BY <1>1 DEF RowShape, Phases, Early
  <1>5. Explained(y)
    BY <1>2, <1>3 DEF Explained
  <1> QED
    BY <1>1, <1>3, <1>4, <1>5 DEF RowInv, Early

\* The next phase of a plan.
LEMMA PhaseRow ==
    ASSUME NEW x, RowInv(x), NEW phase,
           \/ x.pc = "graph" /\ phase = "chunks"
           \/ x.pc = "aggregation" /\ phase \in {"execute", "subgraph"}
           \/ x.pc = "execute" /\ phase = "subgraph",
           NEW y, y = [x EXCEPT !.pc = phase]
    PROVE  RowInv(y) /\ y.question = x.question
  <1>1. RowShape(x) /\ ResultShape(x.result) /\ ResultShape(x.rules)
    BY DEF RowInv
  <1>2. /\ y.pc = phase /\ y.question = x.question /\ y.anchors = x.anchors /\ y.result = x.result /\ y.rules = x.rules
        /\ y.ran = x.ran /\ y.reason = x.reason
    BY <1>1 DEF RowShape
  <1>3. RowShape(y)
    BY <1>1 DEF RowShape, Phases, Early
  <1>4. Explained(y) <=> Explained(x)
    BY <1>2 DEF Explained, Special
  <1>5. FromMentions(y) <=> FromMentions(x)
    BY <1>2 DEF FromMentions
  <1>6. \A plan : OnPlan(y, plan) <=> OnPlan(x, plan)
    BY <1>2, <1>4 DEF OnPlan
  <1>7. CASE phase = "chunks"
    <2>1. x.pc = "graph"
      BY <1>7
    <2> QED
      BY <1>1, <1>2, <1>3, <1>5, <1>6, <1>7, <2>1 DEF RowInv, Early
  <1>8. CASE phase \in {"execute", "subgraph"}
    <2>1. x.pc \in {"aggregation", "execute"}
      BY <1>8
    <2>2. x.anchors = {} /\ OnPlan(x, "aggregation")
      BY <2>1 DEF RowInv
    <2> QED
      BY <1>1, <1>2, <1>3, <1>6, <1>8, <2>2 DEF RowInv, Early
  <1> QED
    BY <1>7, <1>8

LEMMA AnchorsRow ==
    ASSUME NEW x, RowInv(x), x.pc = "relation", NEW found,
           \A e \in found : \E n \in x.result.entities : e \in {n, Alike[n]},
           NEW y, y = [x EXCEPT !.pc = "graph", !.anchors = found]
    PROVE  RowInv(y) /\ y.question = x.question
  <1>1. RowShape(x) /\ ResultShape(x.result) /\ ResultShape(x.rules) /\ OnPlan(x, "relation")
    BY DEF RowInv
  <1>2. /\ y.pc = "graph" /\ y.question = x.question /\ y.anchors = found /\ y.result = x.result /\ y.rules = x.rules
        /\ y.ran = x.ran /\ y.reason = x.reason
    BY <1>1 DEF RowShape
  <1>3. RowShape(y)
    BY <1>1 DEF RowShape, Phases, Early
  <1>4. Explained(y) <=> Explained(x)
    BY <1>2 DEF Explained, Special
  <1>5. FromMentions(y)
    BY <1>2 DEF FromMentions
  <1>6. OnPlan(y, "relation")
    BY <1>1, <1>2, <1>4 DEF OnPlan
  <1> QED
    BY <1>1, <1>2, <1>3, <1>5, <1>6 DEF RowInv, Early

\* An answer, with the anchors that it counted from if it did.
Anchored(x, anchors) ==
    anchors = x.anchors \/ (x.pc = "subgraph" /\ anchors = x.result.entities /\ Cardinality(anchors) = 1)
Backed(x, anchors, evidence) ==
    \A p \in evidence :
        /\ p.channel = "capability" => x.pc \in {"execute", "subgraph"}
        /\ p.channel = "graph" =>
              \E e \in p.about, from \in anchors \cup x.question.names : e \in Reached(Leads, from, 2)

AnswersWith(y, x, evidence, anchors) ==
    y = [x EXCEPT !.pc = "answered", !.evidence = evidence, !.anchors = anchors]

LEMMA AnswerRow ==
    ASSUME NEW x, RowInv(x), x.pc \in {"fact", "graph", "chunks", "execute", "subgraph"}, NEW evidence,
           NEW anchors, Anchored(x, anchors), Backed(x, anchors, evidence),
           NEW y, AnswersWith(y, x, evidence, anchors)
    PROVE  RowInv(y) /\ y.question = x.question
  <1>1. RowShape(x) /\ ResultShape(x.result) /\ ResultShape(x.rules)
    BY DEF RowInv
  <1>2. /\ y.pc = "answered" /\ y.question = x.question /\ y.anchors = anchors /\ y.result = x.result
        /\ y.rules = x.rules /\ y.ran = x.ran /\ y.reason = x.reason /\ y.evidence = evidence
    BY <1>1 DEF RowShape, AnswersWith
  <1>3. RowShape(y)
    BY <1>1 DEF RowShape, Phases, Early, AnswersWith
  <1>4. Explained(y)
    <2>1. Explained(x)
      BY DEF RowInv, OnPlan
    <2> QED
      BY <1>2, <2>1 DEF Explained, Special
  <1>5. /\ x.pc = "fact" => x.ran = "fact" /\ x.anchors = {}
        /\ x.pc \in {"graph", "chunks"} => x.ran = "relation" /\ FromMentions(x)
        /\ x.pc \in {"execute", "subgraph"} => x.ran = "aggregation" /\ x.anchors = {}
    BY DEF RowInv, OnPlan
  <1>6. y.ran = "relation" => FromMentions(y)
    BY <1>2, <1>5 DEF FromMentions, Anchored
  <1>7. y.ran = "aggregation" /\ y.anchors # {} => y.anchors = y.result.entities /\ Cardinality(y.anchors) = 1
    BY <1>2, <1>5 DEF Anchored
  <1>8. \A p \in y.evidence :
          /\ p.channel = "capability" => y.ran = "aggregation"
          /\ p.channel = "graph" =>
                \E e \in p.about, from \in y.anchors \cup y.question.names : e \in Reached(Leads, from, 2)
    BY <1>2, <1>5 DEF Backed
  <1>9. AnswerSound(y)
    BY <1>4, <1>6, <1>7, <1>8 DEF AnswerSound
  <1> QED
    BY <1>1, <1>2, <1>3, <1>9 DEF RowInv, Early

\* The cache takes an answer: the one to the same question leaves, and so does
\* the oldest of a cache that is full.
Distinct(s) == \A i, j \in 1..Len(s) : s[i].question = s[j].question => i = j

IsWithout(t, s, k) ==
    Len(t) = Len(s) - 1 /\ \A i \in 1..(Len(s) - 1) : t[i] = IF i < k THEN s[i] ELSE s[i + 1]

LEMMA Removed ==
    ASSUME NEW E, NEW s \in Seq(E), NEW k \in 1..Len(s)
    PROVE  RemoveAt(s, k) \in Seq(E) /\ IsWithout(RemoveAt(s, k), s, k)
  <1> DEFINE n == Len(s)
             u == SubSeq(s, 1, k - 1)
             v == SubSeq(s, k + 1, n)
  <1>1. n \in Nat /\ k \in Nat /\ \A i \in 1..n : s[i] \in E
    OBVIOUS
  <1>2. k - 1 \in Int /\ k + 1 \in Int /\ n \in Int /\ 1 \in Int
    OBVIOUS
  <1> HIDE DEF n
  <1>3. k <= n /\ k >= 1
    BY DEF n
  <1>4. \A i \in 1..(k - 1) : s[i] \in E
    BY <1>1, <1>3
  <1>5. \A i \in (k + 1)..n : s[i] \in E
    BY <1>1, <1>3
  <1>6. /\ u \in Seq(E) /\ Len(u) = (IF 1 <= k - 1 THEN (k - 1) - 1 + 1 ELSE 0)
        /\ \A i \in 1..((k - 1) - 1 + 1) : u[i] = s[1 + i - 1]
    BY <1>2, <1>4, SubSeqProperties
  <1>7. /\ v \in Seq(E) /\ Len(v) = (IF k + 1 <= n THEN n - (k + 1) + 1 ELSE 0)
        /\ \A i \in 1..(n - (k + 1) + 1) : v[i] = s[(k + 1) + i - 1]
    BY <1>2, <1>5, SubSeqProperties
  <1>8. RemoveAt(s, k) = u \o v
    BY DEF RemoveAt, n
  <1> HIDE DEF u, v
  <1>9. /\ u \o v \in Seq(E) /\ Len(u \o v) = Len(u) + Len(v)
        /\ \A i \in 1..(Len(u) + Len(v)) : (u \o v)[i] = IF i <= Len(u) THEN u[i] ELSE v[i - Len(u)]
    BY <1>6, <1>7, ConcatProperties
  <1>10. Len(u) = k - 1 /\ Len(v) = n - k
    BY <1>1, <1>3, <1>6, <1>7
  <1>11. ASSUME NEW i \in 1..(n - 1) PROVE (u \o v)[i] = IF i < k THEN s[i] ELSE s[i + 1]
    <2>1. i \in 1..(Len(u) + Len(v)) /\ i \in Nat
      BY <1>1, <1>3, <1>10
    <2>2. CASE i < k
      <3>1. (u \o v)[i] = u[i]
        BY <1>1, <1>9, <1>10, <2>1, <2>2
      <3>2. i \in 1..((k - 1) - 1 + 1) /\ 1 + i - 1 = i
        BY <1>1, <2>1, <2>2
      <3> QED
        BY <1>6, <2>2, <3>1, <3>2
    <2>3. CASE ~(i < k)
      <3>1. (u \o v)[i] = v[i - (k - 1)]
        BY <1>1, <1>9, <1>10, <2>1, <2>3
      <3>2. i - (k - 1) \in 1..(n - (k + 1) + 1) /\ (k + 1) + (i - (k - 1)) - 1 = i + 1
        BY <1>1, <1>3, <2>1, <2>3
      <3> QED
        BY <1>7, <2>3, <3>1, <3>2
    <2> QED
      BY <2>2, <2>3
  <1> QED
    BY <1>1, <1>3, <1>8, <1>9, <1>10, <1>11 DEF n, IsWithout

LEMMA RemovedDistinct ==
    ASSUME NEW c \in Seq(Entries), Distinct(c), NEW q, NEW k \in 1..Len(c), c[k].question = q,
           NEW s \in Seq(Entries), IsWithout(s, c, k)
    PROVE  Distinct(s) /\ \A i \in 1..Len(s) : s[i].question # q
  <1> DEFINE at(i) == IF i < k THEN i ELSE i + 1
             n == Len(c)
  <1>1. n \in Nat /\ k \in 1..n /\ Len(s) = n - 1
    BY DEF IsWithout
  <1> HIDE DEF n
  <1>2. ASSUME NEW i \in 1..(n - 1) PROVE at(i) \in 1..n /\ at(i) # k /\ s[i] = c[at(i)]
    <2>1. at(i) \in 1..n /\ at(i) # k
      BY <1>1
    <2>2. s[i] = c[at(i)]
      BY DEF n, IsWithout
    <2> QED
      BY <2>1, <2>2
  <1>3. ASSUME NEW i \in 1..(n - 1), NEW j \in 1..(n - 1), at(i) = at(j) PROVE i = j
    BY <1>3, <1>1
  <1>4. \A i, j \in 1..n : c[i].question = c[j].question => i = j
    BY DEF Distinct, n
  <1> HIDE DEF at
  <1>5. \A i \in 1..Len(s) : s[i].question # q
    BY <1>1, <1>2, <1>4
  <1>6. ASSUME NEW i \in 1..Len(s), NEW j \in 1..Len(s), s[i].question = s[j].question PROVE i = j
    <2>1. i \in 1..(n - 1) /\ j \in 1..(n - 1)
      BY <1>1
    <2>2. at(i) \in 1..n /\ at(j) \in 1..n /\ c[at(i)].question = c[at(j)].question
      BY <1>2, <1>6, <2>1
    <2>3. at(i) = at(j)
      BY <1>4, <2>2
    <2> QED
      BY <1>3, <2>1, <2>3
  <1>7. Distinct(s)
    BY <1>6 DEF Distinct
  <1> QED
    BY <1>5, <1>7

LEMMA AppendedDistinct ==
    ASSUME NEW s \in Seq(Entries), Distinct(s), NEW entry \in Entries, \A i \in 1..Len(s) : s[i].question # entry.question
    PROVE  Append(s, entry) \in Seq(Entries) /\ Len(Append(s, entry)) = Len(s) + 1 /\ Distinct(Append(s, entry))
  <1> DEFINE n == Len(s)
             t == Append(s, entry)
  <1>1. n \in Nat /\ t \in Seq(Entries) /\ Len(t) = n + 1 /\ t[n + 1] = entry
    OBVIOUS
  <1>2. \A i \in 1..n : t[i] = s[i]
    OBVIOUS
  <1>3. (\A i, j \in 1..n : s[i].question = s[j].question => i = j) /\ \A i \in 1..n : s[i].question # entry.question
    BY DEF Distinct
  <1> HIDE DEF n, t
  <1>4. ASSUME NEW i \in 1..(n + 1), NEW j \in 1..(n + 1), t[i].question = t[j].question PROVE i = j
    <2>1. \A m \in 1..(n + 1) : m \in 1..n \/ m = n + 1
      BY <1>1
    <2>2. CASE i \in 1..n /\ j \in 1..n
      BY <1>2, <1>3, <1>4, <2>2
    <2>3. CASE i \in 1..n /\ j = n + 1
      BY <1>1, <1>2, <1>3, <1>4, <2>3
    <2>4. CASE i = n + 1 /\ j \in 1..n
      BY <1>1, <1>2, <1>3, <1>4, <2>4
    <2> QED
      BY <2>1, <2>2, <2>3, <2>4
  <1>5. Distinct(t)
    BY <1>1, <1>4 DEF Distinct
  <1> QED
    BY <1>1, <1>5 DEF n, t

LEMMA TailDistinct ==
    ASSUME NEW s \in Seq(Entries), Distinct(s), s # <<>>
    PROVE  Tail(s) \in Seq(Entries) /\ Len(Tail(s)) = Len(s) - 1 /\ Distinct(Tail(s))
  <1> DEFINE n == Len(s)
             t == Tail(s)
  <1>1. t \in Seq(Entries) /\ Len(t) = n - 1 /\ \A i \in 1..Len(t) : t[i] = s[i + 1]
    BY HeadTailProperties
  <1>2. n \in Nat /\ \A i, j \in 1..n : s[i].question = s[j].question => i = j
    BY DEF Distinct
  <1> HIDE DEF n, t
  <1>3. ASSUME NEW i \in 1..Len(t), NEW j \in 1..Len(t), t[i].question = t[j].question PROVE i = j
    <2>1. i + 1 \in 1..n /\ j + 1 \in 1..n /\ i \in Nat /\ j \in Nat
      BY <1>1, <1>2
    <2>2. s[i + 1].question = s[j + 1].question
      BY <1>1, <1>3
    <2>3. i + 1 = j + 1
      BY <1>2, <2>1, <2>2
    <2> QED
      BY <2>1, <2>3
  <1>4. Distinct(t)
    BY <1>3 DEF Distinct
  <1> QED
    BY <1>1, <1>4 DEF n, t

\* What JsonComplete makes of the cache.
Without(c, q) ==
    LET known == {i \in DOMAIN c : c[i].question = q}
    IN IF known = {} THEN c ELSE RemoveAt(c, CHOOSE i \in known : TRUE)
Capped(s) == IF Len(s) > MaxCached THEN Tail(s) ELSE s

LEMMA WithoutDistinct ==
    ASSUME NEW c \in Seq(Entries), Distinct(c), NEW q
    PROVE  /\ Without(c, q) \in Seq(Entries) /\ Len(Without(c, q)) <= Len(c) /\ Distinct(Without(c, q))
           /\ \A i \in 1..Len(Without(c, q)) : Without(c, q)[i].question # q
  <1> DEFINE known == {i \in 1..Len(c) : c[i].question = q}
             k == CHOOSE i \in known : TRUE
  <1> DEFINE places == {i \in DOMAIN c : c[i].question = q}
  <1>0. Without(c, q) = IF places = {} THEN c ELSE RemoveAt(c, CHOOSE i \in places : TRUE)
    BY DEF Without
  <1>1. Without(c, q) = IF known = {} THEN c ELSE RemoveAt(c, k)
    <2>1. places = known
      OBVIOUS
    <2> HIDE DEF places, known
    <2> QED
      BY <1>0, <2>1
  <1>2. CASE known = {}
    <2>1. Without(c, q) = c /\ \A i \in 1..Len(c) : c[i].question # q
      BY <1>1, <1>2
    <2>2. Len(c) \in Nat
      OBVIOUS
    <2> QED
      BY <2>1, <2>2
  <1>3. CASE known # {}
    <2>1. k \in known
      BY <1>3
    <2>2. k \in 1..Len(c) /\ c[k].question = q
      BY <2>1
    <2>3. Without(c, q) = RemoveAt(c, k)
      BY <1>1, <1>3
    <2> HIDE DEF known, k
    <2> DEFINE s == RemoveAt(c, k)
    <2>4. s \in Seq(Entries) /\ IsWithout(s, c, k)
      BY <2>2, Removed
    <2> HIDE DEF s
    <2>5. Distinct(s) /\ \A i \in 1..Len(s) : s[i].question # q
      BY <2>2, <2>4, RemovedDistinct
    <2>6. Len(c) \in Nat /\ Len(s) = Len(c) - 1
      BY <2>4 DEF IsWithout
    <2> QED
      BY <2>3, <2>4, <2>5, <2>6 DEF s
  <1> QED
    BY <1>2, <1>3

LEMMA CappedDistinct ==
    ASSUME NEW s \in Seq(Entries), Distinct(s), Len(s) <= MaxCached + 1
    PROVE  Capped(s) \in Seq(Entries) /\ Distinct(Capped(s)) /\ Len(Capped(s)) <= MaxCached
  <1>1. MaxCached \in Nat /\ MaxCached > 0 /\ Len(s) \in Nat
    BY QuestionConstants DEF QuestionConstants
  <1>2. CASE Len(s) > MaxCached
    <2>1. s # <<>>
      BY <1>1, <1>2
    <2>2. Tail(s) \in Seq(Entries) /\ Len(Tail(s)) = Len(s) - 1 /\ Distinct(Tail(s))
      BY <2>1, TailDistinct
    <2>3. Capped(s) = Tail(s)
      BY <1>2 DEF Capped
    <2>4. Len(s) - 1 <= MaxCached
      BY <1>1
    <2> QED
      BY <2>2, <2>3, <2>4
  <1>3. CASE ~(Len(s) > MaxCached)
    BY <1>1, <1>3 DEF Capped
  <1> QED
    BY <1>2, <1>3

LEMMA CacheTakes ==
    ASSUME NEW c \in Seq(Entries), Distinct(c), Len(c) <= MaxCached, NEW q \in Question, NEW answer \in Answer \cup {NoAnswer},
           NEW d, d = Capped(Append(Without(c, q), [question |-> q, answer |-> answer]))
    PROVE  d \in Seq(Entries) /\ Distinct(d) /\ Len(d) <= MaxCached
  <1> DEFINE entry == [question |-> q, answer |-> answer]
             others == Without(c, q)
             kept == Append(others, entry)
  <1>1. entry \in Entries /\ entry.question = q
    BY DEF Entries
  <1>2. others \in Seq(Entries) /\ Len(others) <= Len(c) /\ Distinct(others) /\ \A i \in 1..Len(others) : others[i].question # q
    BY WithoutDistinct
  <1>3. d = Capped(kept)
    OBVIOUS
  <1> HIDE DEF entry, others
  <1>4. kept \in Seq(Entries) /\ Len(kept) = Len(others) + 1 /\ Distinct(kept)
    BY <1>1, <1>2, AppendedDistinct
  <1>5. Len(others) \in Nat /\ Len(c) \in Nat /\ MaxCached \in Nat
    BY <1>2, QuestionConstants DEF QuestionConstants
  <1> HIDE DEF kept
  <1>6. Len(kept) <= MaxCached + 1
    BY <1>2, <1>4, <1>5
  <1> QED
    BY <1>3, <1>4, <1>6, CappedDistinct

\* What is said of the graph next to the profiles, and from the anchors.
LEMMA LayersReach ==
    ASSUME NEW profiled, NEW chunks, NEW p \in KnowledgeLayers(profiled, chunks)
    PROVE  /\ p.channel # "capability"
           /\ p.channel = "graph" => \E e \in p.about, from \in profiled : e \in Reached(Leads, from, 2)
  <1>1. CASE \E e \in profiled : p = Piece("profile", {e})
    BY <1>1 DEF Piece
  <1>2. CASE p = Piece("chunk", {})
    BY <1>2 DEF Piece
  <1>3. CASE \E e \in profiled : \E w \in GraphQuery(Leads, e, 2) : p = Piece("graph", {w.target})
    <2>1. PICK e \in profiled : \E w \in GraphQuery(Leads, e, 2) : p = Piece("graph", {w.target})
      BY <1>3
    <2>2. PICK w \in GraphQuery(Leads, e, 2) : p = Piece("graph", {w.target})
      BY <2>1
    <2>3. w.target \in Reached(Leads, e, 2)
      BY QueriesReach
    <2>4. p.about = {w.target} /\ p.channel = "graph"
      BY <2>2 DEF Piece
    <2> QED
      BY <2>3, <2>4
  <1> DEFINE names == {Piece("profile", {e}) : e \in profiled}
             around(e) == {Piece("graph", {w.target}) : w \in {v \in GraphQuery(Leads, e, 2) : v.target # e}}
             graph == UNION {around(e) : e \in profiled}
  <1>4. p \in names \/ p \in graph \/ p = Piece("chunk", {})
    <2>1. KnowledgeLayers(profiled, chunks) = names \cup graph \cup (IF chunks THEN {Piece("chunk", {})} ELSE {})
      BY DEF KnowledgeLayers
    <2> HIDE DEF names, graph
    <2>2. p \in names \cup graph \cup (IF chunks THEN {Piece("chunk", {})} ELSE {})
      BY <2>1
    <2>3. (IF chunks THEN {Piece("chunk", {})} ELSE {}) \subseteq {Piece("chunk", {})}
      OBVIOUS
    <2> QED
      BY <2>2, <2>3
  <1>5. p \in names => \E e \in profiled : p = Piece("profile", {e})
    OBVIOUS
  <1>6. p \in graph => \E e \in profiled : p \in around(e)
    <2> HIDE DEF around
    <2> QED
      OBVIOUS
  <1>7. \A e \in profiled : p \in around(e) => \E w \in GraphQuery(Leads, e, 2) : p = Piece("graph", {w.target})
    OBVIOUS
  <1> HIDE DEF names, graph, around
  <1> QED
    BY <1>1, <1>2, <1>3, <1>4, <1>5, <1>6, <1>7

LEMMA QuestionsInitInv == QuestionsInit => QuestionsInv
  <1> SUFFICES ASSUME QuestionsInit PROVE QuestionsInv
    OBVIOUS
  <1>1. asked = [a \in Asker |-> NotAsked] /\ entities = Entity /\ lastEntity = NoEntity /\ upgradeCache = <<>>
    BY DEF QuestionsInit
  <1>2. \A a \in Asker : asked[a] = NotAsked
    BY <1>1
  <1>3. asked = [a \in Asker |-> asked[a]]
    BY <1>1
  <1>4. \A a \in Asker : RowInv(asked[a]) /\ (asked[a].pc # "off" => asked[a].question \in Question)
    BY <1>2, NotAskedRow
  <1>5. CacheInv
    <2>1. Len(upgradeCache) = 0 /\ DOMAIN upgradeCache = {} /\ upgradeCache \in Seq(Entries)
      BY <1>1
    <2>2. MaxCached \in Nat
      BY QuestionConstants DEF QuestionConstants
    <2> QED
      BY <2>1, <2>2 DEF CacheInv, CacheIsBounded
  <1> QED
    BY <1>1, <1>3, <1>4, <1>5 DEF QuestionsInv

\* A step of one question keeps the rows of the others.
LEMMA GoesKeeps ==
    ASSUME QuestionsInv, NEW a \in Asker, NEW y, Goes(a, y), RowInv(y), y.question \in Question, CacheInv'
    PROVE  QuestionsInv'
  <1>1. /\ asked' = [asked EXCEPT ![a] = y] /\ entities' = entities /\ lastEntity' = lastEntity
    BY DEF Goes
  <1>2. asked = [b \in Asker |-> asked[b]]
    BY DEF QuestionsInv
  <1>3. asked' = [b \in Asker |-> asked'[b]] /\ \A b \in Asker : asked'[b] = IF b = a THEN y ELSE asked[b]
    BY <1>1, <1>2
  <1>4. \A b \in Asker : RowInv(asked'[b]) /\ (asked'[b].pc # "off" => asked'[b].question \in Question)
    BY <1>3 DEF QuestionsInv
  <1>5. entities' \subseteq Entity /\ lastEntity' \in Entity \cup {NoEntity}
    BY <1>1 DEF QuestionsInv
  <1> QED
    BY <1>3, <1>4, <1>5 DEF QuestionsInv

\* And the cache, as long as the step leaves it alone.
LEMMA CacheStays == ASSUME CacheInv, UNCHANGED upgradeCache PROVE CacheInv'
  BY DEF CacheInv, CacheIsBounded

LEMMA UnderstandNextInv == QuestionsInv /\ UnderstandNext => QuestionsInv'
  <1> SUFFICES ASSUME QuestionsInv, UnderstandNext PROVE QuestionsInv'
    OBVIOUS
  <1>0. /\ \A b \in Asker : RowInv(asked[b])
        /\ \A b \in Asker : asked[b].pc # "off" => asked[b].question \in Question
        /\ CacheInv /\ entities \subseteq Entity /\ lastEntity \in Entity \cup {NoEntity}
    BY DEF QuestionsInv
  <1>1. ASSUME NEW a \in Asker, NEW q \in Question, NEW previous \in entities \cup {NoEntity}, Ask(a, q, previous)
        PROVE  QuestionsInv'
    <2> DEFINE context == IF lastEntity # NoEntity THEN lastEntity ELSE previous
               y == [NotAsked EXCEPT !.pc = "candidates", !.question = q, !.context = context]
    <2>1. Goes(a, y) /\ UNCHANGED upgradeCache
      BY <1>1 DEF Ask
    <2>2. context \in Entity \cup {NoEntity}
      BY <1>0
    <2> HIDE DEF context
    <2>3. RowInv(y) /\ y.question = q
      BY <2>2, AskRow
    <2> HIDE DEF y
    <2> QED
      BY <1>0, <2>1, <2>3, CacheStays, GoesKeeps
  <1>2. ASSUME NEW a \in Asker, FetchRelationCandidates(a) PROVE QuestionsInv'
    <2> DEFINE x == asked[a]
               y == [x EXCEPT !.pc = "entities", !.candidates = relationTypes]
    <2>1. Goes(a, y) /\ UNCHANGED upgradeCache /\ x.pc = "candidates"
      BY <1>2 DEF FetchRelationCandidates
    <2>2. RowInv(x) /\ x.question \in Question
      BY <1>0, <2>1
    <2> HIDE DEF x
    <2>3. RowInv(y) /\ y.question = x.question
      BY <2>1, <2>2, CandidatesRow
    <2> HIDE DEF y
    <2> QED
      BY <1>0, <2>1, <2>2, <2>3, CacheStays, GoesKeeps
  <1>3. ASSUME NEW a \in Asker, ExtractEntities(a) PROVE QuestionsInv'
    <2> DEFINE x == asked[a]
               named == ExtractedEntities(x.question, x.context)
               y == [x EXCEPT !.pc = "rules", !.result.entities = named]
    <2>1. Goes(a, y) /\ UNCHANGED upgradeCache /\ x.pc = "entities"
      BY <1>3 DEF ExtractEntities
    <2>2. RowInv(x) /\ x.question \in Question
      BY <1>0, <2>1
    <2> HIDE DEF x
    <2>3. x.context \in Entity \cup {NoEntity}
      BY <2>2 DEF RowInv, RowShape
    <2>4. named \in SUBSET Entity
      BY <1>0, <2>3 DEF ExtractedEntities
    <2> HIDE DEF named
    <2>5. RowInv(y) /\ y.question = x.question
      BY <2>1, <2>2, <2>4, ExtractRow
    <2> HIDE DEF y
    <2> QED
      BY <1>0, <2>1, <2>2, <2>5, CacheStays, GoesKeeps
  <1>4. ASSUME NEW a \in Asker, NEW resolved \in BOOLEAN, Understand(a, resolved) PROVE QuestionsInv'
    <2> DEFINE x == asked[a]
               r == Understood(x.question, x.context, x.result.entities, x.candidates, resolved)
               y == [x EXCEPT !.pc = "upgrade", !.result = r, !.rules = r]
    <2>1. Goes(a, y) /\ UNCHANGED upgradeCache /\ x.pc = "rules"
      BY <1>4 DEF Understand
    <2>2. RowInv(x) /\ x.question \in Question
      BY <1>0, <2>1
    <2> HIDE DEF x
    <2>3. RowInv(y) /\ y.question = x.question
      BY ZenonT(30), <2>1, <2>2, UnderstandRow
    <2> HIDE DEF y
    <2> QED
      BY <1>0, <2>1, <2>2, <2>3, CacheStays, GoesKeeps
  <1>5. ASSUME NEW a \in Asker, NEW useLlm \in BOOLEAN, BeginUpgrade(a, useLlm) PROVE QuestionsInv'
    <2> DEFINE x == asked[a]
               answer == upgradeCache[CHOOSE i \in Cached(x.question) : TRUE].answer
               stand == [x EXCEPT !.pc = "plan"]
               whole == [x EXCEPT !.pc = "plan", !.result.confidence = 1000]
               ask == [x EXCEPT !.pc = "model"]
    <2>1. /\ Goes(a, IF ~useLlm \/ x.result.confidence >= Threshold THEN stand
                     ELSE IF Missing(x.result) = {} THEN whole
                     ELSE IF Cached(x.question) # {} THEN Upgraded(a, answer) ELSE ask)
          /\ UNCHANGED upgradeCache /\ x.pc = "upgrade"
      BY <1>5 DEF BeginUpgrade
    <2>2. RowInv(x) /\ x.question \in Question
      BY <1>0, <2>1
    <2>3. x.result = x.rules /\ ResultShape(x.result)
      BY <2>1, <2>2 DEF RowInv
    <2>4. Threshold \in Int /\ x.rules.confidence \in Int
      BY <2>3, QuestionConstants DEF QuestionConstants, ResultShape
    <2>5. ~(x.result.confidence >= Threshold) => x.rules.confidence < Threshold
      BY <2>3, <2>4
    <2>6. Cached(x.question) # {} => answer \in Answer \cup {NoAnswer}
      <3> DEFINE i == CHOOSE j \in Cached(x.question) : TRUE
      <3>1. ASSUME Cached(x.question) # {} PROVE i \in DOMAIN upgradeCache
        <4>1. i \in Cached(x.question)
          BY <3>1
        <4> QED
          BY <4>1 DEF Cached
      <3> HIDE DEF i
      <3>2. i \in DOMAIN upgradeCache => upgradeCache[i] \in Entries
        BY <1>0 DEF CacheInv
      <3>3. Cached(x.question) # {} => upgradeCache[i].answer \in Answer \cup {NoAnswer}
        BY <3>1, <3>2 DEF Entries
      <3> QED
        BY <3>3 DEF i
    <2>7. Upgraded(a, answer) = [x EXCEPT !.pc = "plan", !.upgraded = TRUE,
                !.result = IF answer = NoAnswer THEN x.result ELSE Merged(x.result, answer, x.candidates)]
      BY DEF Upgraded
    <2> DEFINE up == Upgraded(a, answer)
    <2> HIDE DEF x, answer
    <2>8. RowInv(stand) /\ stand.question = x.question
      BY <2>1, <2>2, RulesStandRow
    <2>9. Missing(x.result) = {} => RowInv(whole) /\ whole.question = x.question
      <3> DEFINE r == [x.result EXCEPT !.confidence = 1000]
      <3>1. Raises(r, x.result)
        BY <2>3, RaisedResult
      <3>2. whole = [x EXCEPT !.pc = "plan", !.result = r]
        OBVIOUS
      <3> HIDE DEF whole, r
      <3> QED
        BY <2>1, <2>2, <3>1, <3>2, NothingMissingRow
    <2>10. x.rules.confidence < Threshold => RowInv(ask) /\ ask.question = x.question
      BY <2>1, <2>2, AskModelRow
    <2>11. x.rules.confidence < Threshold /\ answer \in Answer \cup {NoAnswer} => RowInv(up) /\ up.question = x.question
      BY <2>1, <2>2, <2>7, UpgradedRow
    <2> HIDE DEF stand, whole, ask, up
    <2>12. CASE ~useLlm \/ x.result.confidence >= Threshold
      <3>1. Goes(a, stand)
        BY <2>1, <2>12
      <3> QED
        BY <1>0, <2>1, <2>2, <2>8, <3>1, CacheStays, GoesKeeps
    <2>13. CASE ~(~useLlm \/ x.result.confidence >= Threshold) /\ Missing(x.result) = {}
      <3>1. Goes(a, whole)
        BY <2>1, <2>13
      <3> QED
        BY <1>0, <2>1, <2>2, <2>9, <2>13, <3>1, CacheStays, GoesKeeps
    <2>14. CASE ~(~useLlm \/ x.result.confidence >= Threshold) /\ Missing(x.result) # {} /\ Cached(x.question) # {}
      <3>1. Goes(a, up)
        BY <2>1, <2>14 DEF up
      <3> QED
        BY <1>0, <2>1, <2>2, <2>5, <2>6, <2>11, <2>14, <3>1, CacheStays, GoesKeeps
    <2>15. CASE ~(~useLlm \/ x.result.confidence >= Threshold) /\ Missing(x.result) # {} /\ Cached(x.question) = {}
      <3>1. Goes(a, ask)
        BY <2>1, <2>15
      <3> QED
        BY <1>0, <2>1, <2>2, <2>5, <2>10, <2>15, <3>1, CacheStays, GoesKeeps
    <2> QED
      BY <2>12, <2>13, <2>14, <2>15
  <1>6. ASSUME NEW a \in Asker, NEW answer \in Answer \cup {NoAnswer}, JsonComplete(a, answer) PROVE QuestionsInv'
    <2> DEFINE x == asked[a]
               up == Upgraded(a, answer)
    <2>1. /\ Goes(a, up) /\ x.pc = "model"
          /\ upgradeCache' = Capped(Append(Without(upgradeCache, x.question), [question |-> x.question, answer |-> answer]))
      BY <1>6 DEF JsonComplete, Capped, Without, Cached
    <2>2. RowInv(x) /\ x.question \in Question
      BY <1>0, <2>1
    <2>3. x.rules.confidence < Threshold
      BY <2>1, <2>2 DEF RowInv
    <2>4. up = [x EXCEPT !.pc = "plan", !.upgraded = TRUE,
                !.result = IF answer = NoAnswer THEN x.result ELSE Merged(x.result, answer, x.candidates)]
      BY DEF Upgraded
    <2>a. x.pc \in {"upgrade", "model"}
      BY <2>1
    <2> HIDE DEF x
    <2>5. RowInv(up) /\ up.question = x.question
      BY <2>2, <2>3, <2>4, <2>a, UpgradedRow
    <2> HIDE DEF up
    <2>6. upgradeCache \in Seq(Entries) /\ Distinct(upgradeCache) /\ Len(upgradeCache) <= MaxCached
      BY <1>0 DEF CacheInv, CacheIsBounded, Distinct
    <2>7. upgradeCache' \in Seq(Entries) /\ Distinct(upgradeCache') /\ Len(upgradeCache') <= MaxCached
      BY <2>1, <2>2, <2>6, CacheTakes
    <2>8. CacheInv'
      <3>1. DOMAIN upgradeCache' = 1..Len(upgradeCache')
        BY <2>7
      <3> QED
        BY <2>7, <3>1 DEF CacheInv, CacheIsBounded, Distinct
    <2> QED
      BY <2>1, <2>2, <2>5, <2>8, GoesKeeps
  <1>7. ASSUME OntologyMoves PROVE QuestionsInv'
    <2>1. asked' = asked /\ upgradeCache' = upgradeCache /\ lastEntity' = lastEntity
      BY <1>7 DEF OntologyMoves
    <2>2. entities' \subseteq Entity
      BY <1>0, <1>7 DEF OntologyMoves
    <2>3. CacheInv'
      BY <1>0, <2>1, CacheStays
    <2> QED
      BY <2>1, <2>2, <2>3 DEF QuestionsInv
  <1> QED
    BY <1>1, <1>2, <1>3, <1>4, <1>5, <1>6, <1>7 DEF UnderstandNext

\* A row that answers as it is keeps its anchors.
LEMMA FoundRow ==
    ASSUME NEW x, RowInv(x), x.pc \in {"fact", "graph", "chunks", "execute"}, NEW evidence,
           Backed(x, x.anchors, evidence),
           NEW y, y = [x EXCEPT !.pc = "answered", !.evidence = evidence]
    PROVE  RowInv(y) /\ y.question = x.question
  <1>1. RowShape(x)
    BY DEF RowInv
  <1> DEFINE anchors == x.anchors
  <1>2. AnswersWith(y, x, evidence, anchors)
    BY <1>1 DEF RowShape, AnswersWith
  <1>3. Anchored(x, anchors) /\ Backed(x, anchors, evidence)
    BY DEF Anchored
  <1>4. x.pc \in {"fact", "graph", "chunks", "execute", "subgraph"}
    OBVIOUS
  <1> HIDE DEF anchors
  <1> QED
    BY <1>2, <1>3, <1>4, AnswerRow

LEMMA PlanningNextInv == QuestionsInv /\ PlanningNext => QuestionsInv'
  <1> SUFFICES ASSUME QuestionsInv, PlanningNext PROVE QuestionsInv'
    OBVIOUS
  <1>0. /\ \A b \in Asker : RowInv(asked[b])
        /\ \A b \in Asker : asked[b].pc # "off" => asked[b].question \in Question
        /\ CacheInv /\ entities \subseteq Entity /\ lastEntity \in Entity \cup {NoEntity}
    BY DEF QuestionsInv
  \* A step that only changes one row.
  <1>a. ASSUME NEW a \in Asker, NEW y, Goes(a, y), UNCHANGED upgradeCache, asked[a].pc # "off",
               RowInv(y), y.question = asked[a].question
        PROVE  QuestionsInv'
    <2>1. y.question \in Question
      BY <1>0, <1>a
    <2>2. CacheInv'
      BY <1>0, <1>a, CacheStays
    <2> QED
      BY <1>a, <2>1, <2>2, GoesKeeps
  <1>1. ASSUME NEW a \in Asker, SelectPlan(a) PROVE QuestionsInv'
    <2> DEFINE x == asked[a]
               intent == StructuredIntent(x.result)
               plan == PlanOf(intent)
               y == [x EXCEPT !.pc = plan, !.plan = plan, !.ran = plan, !.reason = intent \in {"CAUSAL", "MIXED"},
                              !.candidates = {}, !.rules = NoResult]
    <2>1. Goes(a, y) /\ UNCHANGED upgradeCache /\ x.pc = "plan"
      BY <1>1 DEF SelectPlan
    <2>2. RowInv(x) /\ x.pc # "off"
      BY <1>0, <2>1
    <2> HIDE DEF x, intent, plan
    <2>3. intent = StructuredIntent(x.result) /\ plan = PlanOf(intent)
      BY DEF intent, plan
    <2>a. PlanStarts(y, x, intent, plan)
      BY DEF PlanStarts
    <2>4. RowInv(y) /\ y.question = x.question
      BY <2>1, <2>2, <2>3, <2>a, SelectRow
    <2> HIDE DEF y
    <2> QED
      BY <1>a, <2>1, <2>2, <2>4 DEF x
  <1>2. ASSUME NEW a \in Asker, NEW embedded \in BOOLEAN, NEW routed \in BOOLEAN, NEW chunks \in BOOLEAN,
               NEW profiled \in SUBSET Entity, PlanFact(a, embedded, routed, profiled, chunks)
        PROVE  QuestionsInv'
    <2> DEFINE x == asked[a]
               evidence == KnowledgeLayers(profiled, chunks)
               y == [x EXCEPT !.pc = "answered", !.evidence = evidence]
    <2>1. Goes(a, y) /\ UNCHANGED upgradeCache /\ x.pc = "fact" /\ profiled \subseteq x.question.names
      BY <1>2 DEF PlanFact, Found
    <2>2. RowInv(x) /\ x.pc # "off"
      BY <1>0, <2>1
    <2>3. \A p \in evidence : p.channel # "capability" /\
              (p.channel = "graph" => \E e \in p.about, from \in profiled : e \in Reached(Leads, from, 2))
      BY LayersReach
    <2> HIDE DEF x, evidence
    <2>4. Backed(x, x.anchors, evidence)
      BY <2>1, <2>3 DEF Backed
    <2>5. x.pc \in {"fact", "graph", "chunks", "execute"}
      BY <2>1
    <2>6. RowInv(y) /\ y.question = x.question
      BY <2>2, <2>4, <2>5, FoundRow
    <2> HIDE DEF y
    <2> QED
      BY <1>a, <2>1, <2>2, <2>6 DEF x
  <1>3. ASSUME NEW a \in Asker, ResolveEntity(a) PROVE QuestionsInv'
    <2> DEFINE x == asked[a]
               found == UNION {Lookup(e) : e \in x.result.entities}
               back == FallBack(a)
               y == [x EXCEPT !.pc = "graph", !.anchors = found]
    <2>1. Goes(a, IF found = {} THEN back ELSE y) /\ UNCHANGED upgradeCache /\ x.pc = "relation"
      BY <1>3 DEF ResolveEntity
    <2>2. RowInv(x) /\ x.pc # "off"
      BY <1>0, <2>1
    <2>3. back = [x EXCEPT !.pc = "fact", !.ran = "fact", !.reason = TRUE]
      BY DEF FallBack
    <2>4. \A e \in found : \E n \in x.result.entities : e \in {n, Alike[n]}
      BY DEF Lookup
    <2>5. x.pc \in {"relation", "subgraph"}
      BY <2>1
    <2> HIDE DEF x, found
    <2>6. RowInv(back) /\ back.question = x.question
      BY <2>2, <2>3, <2>5, FallBackRow
    <2>7. RowInv(y) /\ y.question = x.question
      BY <2>1, <2>2, <2>4, AnchorsRow
    <2> HIDE DEF y, back
    <2>8. CASE found = {}
      <3>1. Goes(a, back)
        BY <2>1, <2>8
      <3> QED
        BY <1>a, <2>1, <2>2, <2>6, <3>1 DEF x
    <2>9. CASE found # {}
      <3>1. Goes(a, y)
        BY <2>1, <2>9
      <3> QED
        BY <1>a, <2>1, <2>2, <2>7, <3>1 DEF x
    <2> QED
      BY <2>8, <2>9
  <1>4. ASSUME NEW a \in Asker, QueryGraph(a) PROVE QuestionsInv'
    <2> DEFINE x == asked[a]
               hops == MaxHops(StructuredIntent(x.result))
               targets == UNION {{w.target : w \in GraphQuery(Leads, e, hops)} : e \in x.anchors}
               evidence == {Piece("graph", {e}) : e \in targets}
               y == [x EXCEPT !.pc = "answered", !.evidence = evidence]
               z == [x EXCEPT !.pc = "chunks"]
    <2>1. Goes(a, IF targets = {} THEN z ELSE y) /\ UNCHANGED upgradeCache /\ x.pc = "graph"
      BY <1>4 DEF QueryGraph, Found
    <2>2. RowInv(x) /\ x.pc # "off"
      BY <1>0, <2>1
    <2>3. hops \in Nat \ {0} /\ hops <= 2
      BY DEF MaxHops
    <2> HIDE DEF x, hops
    <2>4. ASSUME NEW t \in targets PROVE \E from \in x.anchors : t \in Reached(Leads, from, 2)
      <3>1. PICK from \in x.anchors : t \in {w.target : w \in GraphQuery(Leads, from, hops)}
        BY <2>4
      <3>2. PICK w \in GraphQuery(Leads, from, hops) : t = w.target
        BY <3>1
      <3>3. 2 \in Nat
        OBVIOUS
      <3>4. w.target \in Reached(Leads, from, 2)
        BY <2>3, <3>2, <3>3, QueriesReach
      <3> QED
        BY <3>2, <3>4
    <2> HIDE DEF targets
    <2>5. ASSUME NEW p \in evidence
          PROVE  p.channel # "capability" /\ \E e \in p.about, from \in x.anchors : e \in Reached(Leads, from, 2)
      <3>1. PICK e \in targets : p = Piece("graph", {e})
        BY <2>5
      <3>2. p.about = {e} /\ p.channel = "graph"
        BY <3>1 DEF Piece
      <3> QED
        BY <2>4, <3>2
    <2> HIDE DEF evidence
    <2>6. Backed(x, x.anchors, evidence)
      BY <2>5 DEF Backed
    <2>7. x.pc \in {"fact", "graph", "chunks", "execute"}
      BY <2>1
    <2>8. RowInv(y) /\ y.question = x.question
      BY <2>2, <2>6, <2>7, FoundRow
    <2>9. RowInv(z) /\ z.question = x.question
      BY <2>1, <2>2, PhaseRow
    <2> HIDE DEF y, z
    <2>10. CASE targets = {}
      <3>1. Goes(a, z)
        BY <2>1, <2>10
      <3> QED
        BY <1>a, <2>1, <2>2, <2>9, <3>1 DEF x
    <2>11. CASE targets # {}
      <3>1. Goes(a, y)
        BY <2>1, <2>11
      <3> QED
        BY <1>a, <2>1, <2>2, <2>8, <3>1 DEF x
    <2> QED
      BY <2>10, <2>11
  <1>5. ASSUME NEW a \in Asker, NEW found \in BOOLEAN, SearchChunks(a, found) PROVE QuestionsInv'
    <2> DEFINE x == asked[a]
               evidence == IF found THEN {Piece("chunk", {})} ELSE {}
               y == [x EXCEPT !.pc = "answered", !.evidence = evidence]
    <2>1. Goes(a, y) /\ UNCHANGED upgradeCache /\ x.pc = "chunks"
      BY <1>5 DEF SearchChunks, Found
    <2>2. RowInv(x) /\ x.pc # "off"
      BY <1>0, <2>1
    <2>3. \A p \in evidence : p.channel = "chunk"
      BY DEF Piece
    <2> HIDE DEF x, evidence
    <2>4. Backed(x, x.anchors, evidence)
      BY <2>3 DEF Backed
    <2>5. x.pc \in {"fact", "graph", "chunks", "execute"}
      BY <2>1
    <2>6. RowInv(y) /\ y.question = x.question
      BY <2>2, <2>4, <2>5, FoundRow
    <2> HIDE DEF y
    <2> QED
      BY <1>a, <2>1, <2>2, <2>6 DEF x
  <1>6. ASSUME NEW a \in Asker, ResolveWithQuery(a) PROVE QuestionsInv'
    <2> DEFINE x == asked[a]
               phase == IF \E e \in x.result.entities : TypeOf[e] \in QueryTypes THEN "execute" ELSE "subgraph"
               y == [x EXCEPT !.pc = phase]
    <2>1. Goes(a, y) /\ UNCHANGED upgradeCache /\ x.pc = "aggregation"
      BY <1>6 DEF ResolveWithQuery
    <2>2. RowInv(x) /\ x.pc # "off"
      BY <1>0, <2>1
    <2>3. phase \in {"execute", "subgraph"}
      OBVIOUS
    <2> HIDE DEF x, phase
    <2>4. RowInv(y) /\ y.question = x.question
      BY <2>1, <2>2, <2>3, PhaseRow
    <2> HIDE DEF y
    <2> QED
      BY <1>a, <2>1, <2>2, <2>4 DEF x
  <1>7. ASSUME NEW a \in Asker, NEW allowed \in BOOLEAN, ExecuteCapabilityQuery(a, allowed) PROVE QuestionsInv'
    <2> DEFINE x == asked[a]
               counted == {e \in entities : \E n \in x.result.entities : TypeOf[e] = TypeOf[n]}
               evidence == {Piece("capability", IF allowed THEN counted ELSE {})}
               y == [x EXCEPT !.pc = "answered", !.evidence = evidence]
               z == [x EXCEPT !.pc = "subgraph"]
    <2>1. /\ Goes(a, IF x.result.operation \in {"SUM", "AVG", "MAX", "MIN"} THEN z ELSE y)
          /\ UNCHANGED upgradeCache /\ x.pc = "execute"
      BY <1>7 DEF ExecuteCapabilityQuery, Found
    <2>2. RowInv(x) /\ x.pc # "off"
      BY <1>0, <2>1
    <2> HIDE DEF x, counted
    <2>3. \A p \in evidence : p.channel = "capability"
      BY DEF Piece
    <2> HIDE DEF evidence
    <2>4. Backed(x, x.anchors, evidence)
      BY <2>1, <2>3 DEF Backed
    <2>5. x.pc \in {"fact", "graph", "chunks", "execute"}
      BY <2>1
    <2>6. RowInv(y) /\ y.question = x.question
      BY <2>2, <2>4, <2>5, FoundRow
    <2>7. RowInv(z) /\ z.question = x.question
      BY <2>1, <2>2, PhaseRow
    <2> HIDE DEF y, z
    <2>8. CASE x.result.operation \in {"SUM", "AVG", "MAX", "MIN"}
      <3>1. Goes(a, z)
        BY <2>1, <2>8
      <3> QED
        BY <1>a, <2>1, <2>2, <2>7, <3>1 DEF x
    <2>9. CASE x.result.operation \notin {"SUM", "AVG", "MAX", "MIN"}
      <3>1. Goes(a, y)
        BY <2>1, <2>9
      <3> QED
        BY <1>a, <2>1, <2>2, <2>6, <3>1 DEF x
    <2> QED
      BY <2>8, <2>9
  <1>8. ASSUME NEW a \in Asker, NEW allowed \in BOOLEAN, SubgraphCount(a, allowed) PROVE QuestionsInv'
    <2> DEFINE x == asked[a]
               anchor == CHOOSE e \in x.result.entities : TRUE
               count == IF allowed THEN DescendantCount(anchor, x.result.counted) ELSE {}
               evidence == {Piece("capability", count)}
               back == FallBack(a)
               y == [[x EXCEPT !.pc = "answered", !.evidence = evidence] EXCEPT !.anchors = {anchor}]
    <2>1. Goes(a, IF ~CountsFrom(x.result) THEN back ELSE y) /\ UNCHANGED upgradeCache /\ x.pc = "subgraph"
      BY <1>8 DEF SubgraphCount, Found
    <2>2. RowInv(x) /\ x.pc # "off"
      BY <1>0, <2>1
    <2>3. back = [x EXCEPT !.pc = "fact", !.ran = "fact", !.reason = TRUE]
      BY DEF FallBack
    <2>4. CountsFrom(x.result) => Cardinality(x.result.entities) = 1
      BY DEF CountsFrom
    <2> HIDE DEF x, count
    <2>5. \A p \in evidence : p.channel = "capability"
      BY DEF Piece
    <2> HIDE DEF evidence
    <2>6. x.pc \in {"relation", "subgraph"} /\ x.pc \in {"fact", "graph", "chunks", "execute", "subgraph"}
      BY <2>1
    <2>7. RowInv(back) /\ back.question = x.question
      BY <2>2, <2>3, <2>6, FallBackRow
    <2>8. CountsFrom(x.result) => x.result.entities = {anchor}
      <3>1. x.result.entities \in SUBSET Entity
        BY <2>2 DEF RowInv, ResultShape
      <3>2. IsFiniteSet(x.result.entities)
        BY <3>1, QuestionConstants, FS_Subset DEF QuestionConstants
      <3>3. CountsFrom(x.result) => \E e : x.result.entities = {e}
        BY <2>4, <3>2, FS_Singleton
      <3> QED
        BY <3>3
    <2> HIDE DEF anchor
    <2>9. Backed(x, {anchor}, evidence)
      BY <2>1, <2>5 DEF Backed
    <2>10. y = [x EXCEPT !.pc = "answered", !.evidence = evidence, !.anchors = {anchor}]
      OBVIOUS
    <2> HIDE DEF y, back
    <2>11. CASE CountsFrom(x.result)
      <3> DEFINE anchors == {anchor}
      <3>1. Anchored(x, anchors)
        BY <2>1, <2>4, <2>8, <2>11 DEF Anchored
      <3>a. Backed(x, anchors, evidence) /\ AnswersWith(y, x, evidence, anchors)
        BY <2>9, <2>10 DEF AnswersWith
      <3> HIDE DEF anchors
      <3>2. RowInv(y) /\ y.question = x.question
        BY <2>2, <2>6, <3>1, <3>a, AnswerRow
      <3>3. Goes(a, y)
        BY <2>1, <2>11
      <3> QED
        BY <1>a, <2>1, <2>2, <3>2, <3>3 DEF x
    <2>12. CASE ~CountsFrom(x.result)
      <3>1. Goes(a, back)
        BY <2>1, <2>12
      <3> QED
        BY <1>a, <2>1, <2>2, <2>7, <3>1 DEF x
    <2> QED
      BY <2>11, <2>12
  <1>9. ASSUME NEW a \in Asker, NEW last \in Entity \cup {NoEntity}, UpdateContext(a, last) PROVE QuestionsInv'
    <2>1. /\ asked' = [asked EXCEPT ![a] = NotAsked] /\ lastEntity' = last
          /\ entities' = entities /\ upgradeCache' = upgradeCache
      BY <1>9 DEF UpdateContext
    <2>2. asked = [b \in Asker |-> asked[b]]
      BY DEF QuestionsInv
    <2>3. asked' = [b \in Asker |-> asked'[b]] /\ \A b \in Asker : asked'[b] = IF b = a THEN NotAsked ELSE asked[b]
      BY <2>1, <2>2
    <2>4. \A b \in Asker : RowInv(asked'[b]) /\ (asked'[b].pc # "off" => asked'[b].question \in Question)
      BY <1>0, <2>3, NotAskedRow
    <2>5. CacheInv'
      BY <1>0, <2>1, CacheStays
    <2> QED
      BY <1>0, <2>1, <2>3, <2>4, <2>5 DEF QuestionsInv
  <1> QED
    BY <1>1, <1>2, <1>3, <1>4, <1>5, <1>6, <1>7, <1>8, <1>9 DEF PlanningNext

LEMMA QuestionsAlways == QuestionsSpec => []QuestionsInv
  <1>1. QuestionsInv /\ UNCHANGED questionVars => QuestionsInv'
    <2> SUFFICES ASSUME QuestionsInv, UNCHANGED questionVars PROVE QuestionsInv'
      OBVIOUS
    <2>1. entities' = entities /\ lastEntity' = lastEntity /\ asked' = asked /\ upgradeCache' = upgradeCache
      BY DEF questionVars
    <2>2. CacheInv'
      BY <2>1, CacheStays DEF QuestionsInv
    <2> QED
      BY <2>1, <2>2 DEF QuestionsInv
  <1>2. QuestionsInv /\ [QuestionsNext]_questionVars => QuestionsInv'
    BY <1>1, UnderstandNextInv, PlanningNextInv DEF QuestionsNext
  <1> QED
    BY QuestionsInitInv, <1>2, PTL DEF QuestionsSpec

\* What is understood of a question is grounded in the relation types that were
\* read for it, the cache stays within its bound with one answer for a question,
\* and every answer is of the plan of its intent or says why not, with evidence
\* that leads from what was asked about: for any questions, answers of the model,
\* facts, and entities that come and go in between.
THEOREM QuestionsAreGrounded == QuestionsSpec => []AnswersAreGrounded
  <1>1. QuestionsInv => AnswersAreGrounded
    <2> SUFFICES ASSUME QuestionsInv PROVE AnswersAreGrounded
      OBVIOUS
    <2>1. \A a \in Asker : RowInv(asked[a])
      BY DEF QuestionsInv
    <2>2. UnderstandingIsGrounded
      <3>1. \A a \in Asker : asked[a].pc \in {"upgrade", "model", "plan"} => GroundedRow(asked[a])
        BY <2>1 DEF RowInv
      <3> QED
        BY <3>1 DEF UnderstandingIsGrounded, GroundedRow
    <2>3. AnswersFollowIntent
      <3>1. \A a \in Asker : asked[a].pc = "answered" => AnswerSound(asked[a])
        BY <2>1 DEF RowInv
      <3> QED
        BY <3>1 DEF AnswersFollowIntent, AnswerSound, Explained, Special, FromMentions
    <2> QED
      BY <2>2, <2>3 DEF AnswersAreGrounded, QuestionsInv, CacheInv
  <1> QED
    BY QuestionsAlways, <1>1, PTL
===============================================================================
