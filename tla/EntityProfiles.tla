---------------------------- MODULE EntityProfiles ----------------------------
(****************************************************************************)
(* The compiled profiles of entities: what an entity is called, its active  *)
(* facts and the names of their targets, aggregated into one row that       *)
(* searches and answers are served from.  A change of an entity or a fact   *)
(* is committed, then the profiles it touches are compiled again, and then  *)
(* the change is written to the entity's timeline: three transactions, the  *)
(* last two of which may fail or never happen.  A compilation reads in one  *)
(* transaction and writes in another.                                       *)
(*                                                                          *)
(* Nothing locks a profile.  What makes up for it is the check when a       *)
(* profile is read: it is compiled again if it is older than the last       *)
(* change on record.  A change and a profile are as old as the transaction  *)
(* that wrote them: now() is the time it began, and it may have waited for  *)
(* a lock, or another transaction may have committed, before it commits.    *)
(* The clock ticks when a transaction that writes begins.                   *)
(****************************************************************************)
EXTENDS Naturals, FiniteSets, FiniteSetsExt

CONSTANTS
    Entry,          \* entities
    Statement,      \* facts
    Ends,           \* source and target of each fact
    Editor,         \* requests that change entities or facts
    ProfileReader,  \* requests and nightly runs that compile profiles
    NoProfile,
    MaxClock        \* bound on the transactions that write

ASSUME ProfileConstants == Ends \in [Statement -> Entry \X Entry] /\ MaxClock \in Nat

VARIABLES
    clock,      \* transactions that have begun to write so far
    entries,    \* [name, at] of each entity; the name is the time it was given
    statements, \* [status, at] of each fact
    timeline,   \* the last event of each entity's timeline
    profiles,   \* [content, at] of each entity, or NoProfile
    editing,    \* [pc, change, since, todo, logs] of each editor
    compilingProfile,   \* [entity, content, since] that each editor and reader has read
    raced,      \* actors whose compilation a change of its entity overlaps (history)
    tainted     \* entities whose stored profile is from such a compilation (history)

profileVars == <<clock, entries, statements, timeline, profiles, editing, compilingProfile, raced, tainted>>

\* A change is of an entity, or of a fact and so of the fact's source.
Upsert(x) == [kind |-> "upsert", of |-> x]
Deprecation(x) == [kind |-> "deprecation", of |-> x]
Addition(f) == [kind |-> "addition", of |-> f]
Revocation(f) == [kind |-> "revocation", of |-> f]
Change == {Upsert(x) : x \in Entry} \cup {Deprecation(x) : x \in Entry}
            \cup {Addition(f) : f \in Statement} \cup {Revocation(f) : f \in Statement}
NoChange == [kind |-> "none", of |-> NoProfile]
Changed(c) == IF c.kind \in {"upsert", "deprecation"} THEN c.of ELSE Ends[c.of][1]

NoEdit == [pc |-> "off", change |-> NoChange, since |-> 0, todo |-> {}, logs |-> {}]
NoCompile == [entity |-> NoProfile, content |-> NoProfile, since |-> 0]
Actors == Editor \cup ProfileReader

ActiveOf(x) == {f \in Statement : statements[f].status = "active" /\ Ends[f][1] = x}

\* What a compilation reads; a fact appears with the name of its target.
ContentOf(x) == [name |-> entries[x].name, facts |-> {<<f, entries[Ends[f][2]].name>> : f \in ActiveOf(x)}]

\* Mutant: the timeline alone tells.
LastLogged(x) == timeline[x]

\* The last change of an entity on record: its timeline, its facts in either
\* direction, and its own row.
LastChange(x) == Max({timeline[x], entries[x].at}
                        \cup {statements[f].at : f \in {f \in Statement : x \in {Ends[f][1], Ends[f][2]}}})

ProfilesInit ==
    /\ clock = 0
    /\ entries = [x \in Entry |-> [name |-> 0, at |-> 0]]
    /\ statements = [f \in Statement |-> [status |-> "none", at |-> 0]]
    /\ timeline = [x \in Entry |-> 0] /\ profiles = [x \in Entry |-> NoProfile]
    /\ editing = [e \in Editor |-> NoEdit]
    /\ compilingProfile = [p \in Actors |-> NoCompile]
    /\ raced = {} /\ tainted = {}

Tick == clock < MaxClock /\ clock' = clock + 1

\* Is a transaction that changes the entity open?
Open(e, x) == editing[e].pc = "open" /\ Changed(editing[e].change) = x

\* Has the actor read the entity for a profile that it has not begun to write?
HasRead(p, x) == compilingProfile[p].entity = x /\ compilingProfile[p].since = 0

-------------------------------------------------------------------------------
\* The transaction of a change begins; a fact is added under an id of its own.
BeginChange(e, c) ==
    /\ editing[e] = NoEdit /\ Tick
    /\ c.kind = "addition" => statements[c.of].status = "none" /\ \A d \in Editor : editing[d].change # c
    /\ editing' = [editing EXCEPT ![e] = [NoEdit EXCEPT !.pc = "open", !.change = c, !.since = clock + 1]]
    /\ raced' = raced \cup {p \in Actors : HasRead(p, Changed(c))}
    /\ UNCHANGED <<entries, statements, timeline, profiles, compilingProfile, tainted>>

\* It commits.  The profiles in todo are compiled again if they are there, then
\* the entities in logs get an event.
Committed(e, c, todo, logs) ==
    /\ editing[e].pc = "open" /\ editing[e].change = c
    /\ editing' = [editing EXCEPT ![e] = IF logs = {} THEN NoEdit
                                         ELSE [NoEdit EXCEPT !.pc = "compile", !.todo = todo, !.logs = logs]]
    /\ UNCHANGED <<clock, timeline, profiles, compilingProfile, raced, tainted>>

UpsertEntity(e, x) ==
    /\ Committed(e, Upsert(x), {x}, {x})
    /\ entries' = [entries EXCEPT ![x] = [name |-> editing[e].since, at |-> editing[e].since]]
    /\ UNCHANGED statements

AddStatement(e, f) ==
    /\ Committed(e, Addition(f), {Ends[f][1], Ends[f][2]}, {Ends[f][1]})
    /\ statements' = [statements EXCEPT ![f] = [status |-> "active", at |-> editing[e].since]]
    /\ UNCHANGED entries

\* On request, or by the nightly run because the fact is past its validity; a
\* fact that is revoked already is revoked again.
RevokeStatement(e, f) ==
    /\ statements[f].status # "none"
    /\ Committed(e, Revocation(f), {Ends[f][1]}, {Ends[f][1]})
    /\ statements' = [statements EXCEPT ![f] = [status |-> "revoked", at |-> editing[e].since]]
    /\ UNCHANGED entries

\* The administration deprecates an entity, which compiles and logs nothing.
DeprecateEntry(e, x) ==
    /\ Committed(e, Deprecation(x), {}, {})
    /\ entries' = [entries EXCEPT ![x].at = editing[e].since]
    /\ UNCHANGED statements

\* What is read, in one step, is what is there; changes whose transactions are
\* open overlap the compilation.
Reads(p, x) ==
    /\ compilingProfile' = [compilingProfile EXCEPT ![p] = [entity |-> x, content |-> ContentOf(x), since |-> 0]]
    /\ raced' = IF \E e \in Editor : Open(e, x) THEN raced \cup {p} ELSE raced \ {p}

\* A profile that is there is compiled again; one that is not there is left.
Recompile(e, x) ==
    /\ editing[e].pc = "compile" /\ x \in editing[e].todo /\ compilingProfile[e] = NoCompile
    /\ editing' = [editing EXCEPT ![e].todo = @ \ {x}]
    /\ IF profiles[x] = NoProfile THEN UNCHANGED <<compilingProfile, raced>> ELSE Reads(e, x)
    /\ UNCHANGED <<clock, entries, statements, timeline, profiles, tainted>>

\* Skipped when it fails: the change itself stands.
LogTimeline(e) ==
    /\ editing[e].pc = "compile" /\ editing[e].todo = {} /\ compilingProfile[e] = NoCompile
    /\ editing' = [editing EXCEPT ![e] = NoEdit]
    /\ \/ /\ Tick
          /\ timeline' = [x \in Entry |-> IF x \in editing[e].logs THEN clock + 1 ELSE timeline[x]]
       \/ UNCHANGED <<clock, timeline>>
    /\ UNCHANGED <<entries, statements, profiles, compilingProfile, raced, tainted>>

\* The server is lost, or the change fails: what is not committed is rolled back.
EditorLost(e) ==
    /\ editing[e] # NoEdit
    /\ editing' = [editing EXCEPT ![e] = NoEdit]
    /\ compilingProfile' = [compilingProfile EXCEPT ![e] = NoCompile]
    /\ raced' = raced \ {e}
    /\ UNCHANGED <<clock, entries, statements, timeline, profiles, tainted>>

-------------------------------------------------------------------------------
\* Is the profile served as it is?
Fresh(x) == profiles[x] # NoProfile /\ profiles[x].at >= LastChange(x)

\* A search or a read that finds no profile or a stale one, or the nightly run.
ReadStale(p, x) ==
    /\ compilingProfile[p] = NoCompile /\ ~Fresh(x)
    /\ Reads(p, x)
    /\ UNCHANGED <<clock, entries, statements, timeline, profiles, editing, tainted>>

\* The transaction that writes begins.
BeginWrite(p) ==
    /\ compilingProfile[p] # NoCompile /\ compilingProfile[p].since = 0
    /\ Tick /\ compilingProfile' = [compilingProfile EXCEPT ![p].since = clock + 1]
    /\ UNCHANGED <<entries, statements, timeline, profiles, editing, raced, tainted>>

\* Inserted or overwritten, as of the time the transaction began; or it fails.
WriteProfile(p) ==
    /\ compilingProfile[p].since # 0
    /\ LET x == compilingProfile[p].entity IN
       \/ /\ profiles' = [profiles EXCEPT ![x] =
                 [content |-> compilingProfile[p].content, at |-> compilingProfile[p].since]]
          /\ tainted' = IF p \in raced THEN tainted \cup {x} ELSE tainted \ {x}
       \/ UNCHANGED <<profiles, tainted>>
    /\ compilingProfile' = [compilingProfile EXCEPT ![p] = NoCompile]
    /\ raced' = raced \ {p}
    /\ UNCHANGED <<clock, entries, statements, timeline, editing>>

ProfilesNext ==
    \/ \E e \in Editor :
          \/ \E c \in Change : BeginChange(e, c)
          \/ \E x \in Entry : UpsertEntity(e, x) \/ DeprecateEntry(e, x) \/ Recompile(e, x)
          \/ \E f \in Statement : AddStatement(e, f) \/ RevokeStatement(e, f)
          \/ LogTimeline(e) \/ EditorLost(e)
    \/ \E p \in ProfileReader, x \in Entry : ReadStale(p, x)
    \/ \E p \in Actors : BeginWrite(p) \/ WriteProfile(p)

ProfilesSpec == ProfilesInit /\ [][ProfilesNext]_profileVars

-------------------------------------------------------------------------------
ProfilesTypeOK ==
    /\ clock \in 0..MaxClock
    /\ \A x \in Entry : entries[x].at <= clock /\ timeline[x] <= clock
                          /\ profiles[x] # NoProfile => profiles[x].at <= clock
    /\ \A f \in Statement : statements[f].status \in {"none", "active", "revoked"}

\* A profile that is served without being compiled again has the entity's own
\* name and exactly its active facts, although the hooks of a change may fail
\* or never run, changes may overlap and be recorded as older than they are, and
\* profiles may be written out of order: unless a transaction that changed the
\* entity was open when the profile's compilation read it, or opened before that
\* began to write.  The names of the targets are no part of this: nothing on
\* record tells that a target has changed.
FreshIsTrue ==
    \A x \in Entry \ tainted :
        Fresh(x) => /\ profiles[x].content.name = entries[x].name
                    /\ {s[1] : s \in profiles[x].content.facts} = ActiveOf(x)
===============================================================================
