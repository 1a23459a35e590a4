----------------------------- MODULE CatalogRefs ------------------------------
(****************************************************************************)
(* How the catalog's references follow the systems that own the objects.    *)
(* An object is registered or refreshed on request, announced by webhook    *)
(* events, and listed by pulls since a cursor; a person may revoke it.      *)
(* Every path first fetches the object from its source, outside of any      *)
(* transaction, and commits what it fetched later.                          *)
(*                                                                          *)
(* The source system and its network are external: an object changes at any *)
(* time, each change is announced by an event with the next sequence        *)
(* number, and events are delivered in any order, repeatedly or never.      *)
(****************************************************************************)
EXTENDS Naturals, Sequences, FiniteSets

CONSTANTS
    Object,     \* exact references the source system owns
    Hash,       \* content hashes
    Handler,    \* requests that serve registrations, refreshes and events
    NoRef,
    MaxChanges  \* bound on the changes of the source

VARIABLES
    source,     \* [status, hash] of each object at its source
    announced,  \* the objects of the changes, in order; an event is an index
    refs,       \* the catalog_refs row of each object, or NoRef
    events,     \* status of each event in catalog_webhook_events
    handling,   \* [pc, event, object, latest, fetched] of each handler
    pulled,     \* the page a pull has fetched, with its cursor, or NoRef
    cursor,     \* changes up to this index have been pulled
    settled     \* no event has been reordered or lost, nothing overlapped, nothing was revoked

refVars == <<source, announced, refs, events, handling, pulled, cursor, settled>>

Lifecycle == {"active", "deprecated", "inactive"}
SourceState == [status : Lifecycle, hash : Hash]

ASSUME RefConstants == MaxChanges \in Nat /\ NoRef \notin SourceState

Events == DOMAIN announced
Rest == [pc |-> "rest", event |-> 0, object |-> NoRef, latest |-> 0, fetched |-> NoRef]

RefsInit ==
    /\ source \in [Object -> [status : {"active"}, hash : Hash]]
    /\ announced = <<>> /\ refs = [o \in Object |-> NoRef]
    /\ events = <<>>
    /\ handling = [h \in Handler |-> Rest]
    /\ pulled = NoRef /\ cursor = 0 /\ settled = TRUE

\* The largest sequence number on record, whatever became of its event.
Latest == LET recorded == {e \in Events : events[e] # "none"}
          IN IF recorded = {} THEN 0 ELSE CHOOSE e \in recorded : \A f \in recorded : f <= e

Quiet == pulled = NoRef /\ \A h \in Handler : handling[h] = Rest

-------------------------------------------------------------------------------
SourceChanges(o, state) ==
    /\ Len(announced) < MaxChanges
    /\ state # source[o]
    /\ source' = [source EXCEPT ![o] = state]
    /\ announced' = Append(announced, o) /\ events' = Append(events, "none")
    /\ UNCHANGED <<refs, handling, pulled, cursor, settled>>

\* A registration or a refresh on request.
Request(h, o, operation) ==
    /\ handling[h] = Rest
    /\ handling' = [handling EXCEPT ![h] = [Rest EXCEPT !.pc = operation, !.object = o]]
    /\ settled' = (settled /\ Quiet)
    /\ UNCHANGED <<source, announced, refs, events, pulled, cursor>>

\* The envelope of an event has been verified and the event is new; the answer
\* to one that is on record is "duplicate", whatever became of it.
ReceiveEvent(h, e) ==
    /\ handling[h] = Rest /\ events[e] = "none"
    /\ handling' = [handling EXCEPT ![h] = [Rest EXCEPT !.pc = "record", !.event = e, !.latest = Latest,
                                                        !.object = announced[e]]]
    /\ settled' = (settled /\ Quiet /\ \A f \in 1..(e - 1) : events[f] # "none")
    /\ UNCHANGED <<source, announced, refs, events, pulled, cursor>>

\* The event is accepted before anything is done about it.  A concurrent
\* delivery of it may have been faster: the primary key refuses the second.
RecordEvent(h) ==
    LET e == handling[h].event
    IN /\ handling[h].pc = "record"
       /\ IF events[e] # "none"
          THEN handling' = [handling EXCEPT ![h] = Rest] /\ UNCHANGED events
          ELSE IF e <= handling[h].latest
          THEN /\ events' = [events EXCEPT ![e] = "ignored_out_of_order"]
               /\ handling' = [handling EXCEPT ![h] = Rest]
          ELSE /\ events' = [events EXCEPT ![e] = "accepted"]
               /\ handling' = [handling EXCEPT ![h].pc = "refresh"]
       /\ UNCHANGED <<source, announced, refs, pulled, cursor, settled>>

\* The object is fetched and its hash verified.
Fetch(h) ==
    /\ handling[h].pc \in {"refresh", "register"} /\ handling[h].fetched = NoRef
    /\ handling' = [handling EXCEPT ![h].fetched = source[handling[h].object]]
    /\ UNCHANGED <<source, announced, refs, events, pulled, cursor, settled>>

\* Mutant: an event is processed however its handler ends.
FinishProcessed(h, status) ==
    /\ handling' = [handling EXCEPT ![h] = Rest]
    /\ IF handling[h].event = 0 THEN UNCHANGED events
       ELSE events' = [events EXCEPT ![handling[h].event] = "processed"]

\* The handler is done; its event, if it has one, ends with the given status.
Finish(h, status) ==
    /\ handling' = [handling EXCEPT ![h] = Rest]
    /\ IF handling[h].event = 0 THEN UNCHANGED events
       ELSE events' = [events EXCEPT ![handling[h].event] = status]

\* The row is locked; a drifted hash blocks the refresh, and an inactive
\* reference stays inactive.  The handler of an event registers what is missing.
CommitRefresh(h) ==
    LET o == handling[h].object
        fetched == handling[h].fetched
    IN /\ handling[h].pc = "refresh" /\ fetched # NoRef
       /\ IF refs[o] = NoRef /\ handling[h].event # 0
          THEN /\ handling' = [handling EXCEPT ![h].pc = "register", ![h].fetched = NoRef]
               /\ UNCHANGED <<refs, events>>
          ELSE IF refs[o] = NoRef \/ refs[o].hash # fetched.hash
          THEN Finish(h, "failed") /\ UNCHANGED refs
          ELSE /\ refs' = [refs EXCEPT ![o].status = IF @ = "inactive" THEN @ ELSE fetched.status]
               /\ Finish(h, "processed")
       /\ UNCHANGED <<source, announced, pulled, cursor, settled>>

\* A row that exists is returned as it is.
CommitRegister(h) ==
    LET o == handling[h].object
        fetched == handling[h].fetched
    IN /\ handling[h].pc = "register" /\ fetched # NoRef
       /\ IF refs[o] # NoRef /\ refs[o].hash # fetched.hash
          THEN Finish(h, "failed") /\ UNCHANGED refs
          ELSE /\ refs' = IF refs[o] = NoRef THEN [refs EXCEPT ![o] = fetched] ELSE refs
               /\ Finish(h, "processed")
       /\ UNCHANGED <<source, announced, pulled, cursor, settled>>

\* The source answers an error the handler expects, or the process is lost or
\* meets an error it does not expect; then an accepted event stays accepted.
HandlerFails(h) ==
    /\ handling[h].pc \in {"refresh", "register"}
    /\ \/ Finish(h, "failed")
       \/ handling' = [handling EXCEPT ![h] = Rest] /\ UNCHANGED events
    /\ settled' = FALSE
    /\ UNCHANGED <<source, announced, refs, pulled, cursor>>

Revoke(o) ==
    /\ refs[o] # NoRef /\ refs[o].status # "inactive"
    /\ refs' = [refs EXCEPT ![o].status = "inactive"]
    /\ settled' = FALSE
    /\ UNCHANGED <<source, announced, events, handling, pulled, cursor>>

-------------------------------------------------------------------------------
\* A page: the objects that changed after the cursor, as they are now.
PullFetch ==
    /\ pulled = NoRef
    /\ pulled' = [page |-> [o \in {announced[e] : e \in (cursor + 1)..Len(announced)} |-> source[o]],
                  upTo |-> Len(announced)]
    /\ settled' = (settled /\ Quiet)
    /\ UNCHANGED <<source, announced, refs, events, handling, cursor>>

\* Mutant: the page is taken as it is.
Unconflicted(page) == FALSE

\* Some exact reference is stored with another hash.
Conflicts(page) == \E o \in DOMAIN page : refs[o] # NoRef /\ refs[o].hash # page[o].hash

\* References and cursor are committed together, or not at all.
\* Here the status is taken as it is.
PullCommit ==
    /\ pulled # NoRef
    /\ LET page == pulled.page
       IN IF Conflicts(page) THEN UNCHANGED <<refs, cursor>>
          ELSE /\ refs' = [o \in Object |-> IF o \in DOMAIN page THEN page[o] ELSE refs[o]]
               /\ cursor' = pulled.upTo
    /\ pulled' = NoRef
    /\ UNCHANGED <<source, announced, events, handling, settled>>

RefsNext ==
    \/ \E o \in Object, state \in SourceState : SourceChanges(o, state)
    \/ \E o \in Object : Revoke(o)
    \/ \E h \in Handler :
          \/ \E o \in Object : Request(h, o, "register") \/ Request(h, o, "refresh")
          \/ \E e \in Events : ReceiveEvent(h, e)
          \/ RecordEvent(h) \/ Fetch(h) \/ CommitRefresh(h) \/ CommitRegister(h) \/ HandlerFails(h)
    \/ PullFetch \/ PullCommit

RefsSpec == RefsInit /\ [][RefsNext]_refVars

-------------------------------------------------------------------------------
RefsTypeOK ==
    /\ source \in [Object -> SourceState] /\ announced \in Seq(Object)
    /\ refs \in [Object -> SourceState \cup {NoRef}]
    /\ events \in [Events -> {"none", "accepted", "ignored_out_of_order", "processed", "failed"}]
    /\ \A h \in Handler : handling[h].pc \in {"rest", "record", "refresh", "register"}
    /\ cursor \in 0..Len(announced) /\ settled \in BOOLEAN

\* An exact reference pins one content: whatever the source does to the object
\* and whichever paths run at the same time, its hash is never overwritten, and
\* only a pull takes an inactive reference back.
PinsNeverDrift ==
    [][\A o \in Object : refs[o] # NoRef =>
          /\ refs'[o] # NoRef /\ refs'[o].hash = refs[o].hash
          /\ refs[o].status = "inactive" /\ refs'[o].status # "inactive" => pulled # pulled']_refVars

\* If events arrive in order and nothing overlaps, fails or is revoked, then
\* whenever nothing is under way a reference has the status its source has,
\* once its last change was processed from an event or pulled; but inactive is
\* left only by a pull.
FollowsSource ==
    settled /\ Quiet =>
        \A o \in Object :
            LET mine == {e \in Events : announced[e] = o}
                seen == \E e \in mine : (\A f \in mine : f <= e)
                                             /\ (e <= cursor \/ events[e] = "processed")
            IN seen => /\ refs[o] # NoRef
                       /\ refs[o].status \in {source[o].status, "inactive"}
                       /\ refs[o].hash = source[o].hash
===============================================================================
