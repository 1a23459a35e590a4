------------------------------ MODULE AuditTrail ------------------------------
(****************************************************************************)
(* The way of an event into the audit log.  Publishing starts a task that   *)
(* adds the event to a stream of Redis; the audit worker reads the stream   *)
(* as the one consumer of its group, dispatches each entry to the handler   *)
(* as a task of its own, acknowledges it at once, and the handler inserts   *)
(* the row.  Redis can be out of reach, the two processes can stop, and the *)
(* stream is trimmed; entries that were delivered are never read again.     *)
(* Outside of tests nobody subscribes to the bus of the API server itself,  *)
(* so that what it cannot send is lost.                                     *)
(****************************************************************************)
EXTENDS Naturals, Sequences, FiniteSets, SequencesExt

CONSTANTS
    Event,
    MaxStream,      \* entries the stream keeps (10000 in the code)
    Count,          \* entries of one read (10 in the code)
    MaxAttempts     \* attempts of the worker to connect (5 in the code)

ASSUME AuditConstants == {MaxStream, Count, MaxAttempts} \subseteq Nat \ {0}

VARIABLES
    reachable,      \* Redis answers
    client,         \* of the API server: "none", "connecting", "connected"
    publishing,     \* [event -> "no", "task", "connecting", "sending", "over"]
    stream,         \* the entries, oldest first ...
    delivered,      \* ... and how many of them were given to the group
    pending,        \* delivered and not acknowledged
    consumer,       \* [pc, attempts, batch] of the worker
    handling,       \* dispatched to the handler, in the memory of the worker
    recorded,       \* [event -> its rows in audit_logs]
    calm            \* nothing has failed so far

auditVars == <<reachable, client, publishing, stream, delivered, pending, consumer, handling, recorded, calm>>

Stopped == [pc |-> "down", attempts |-> 0, batch |-> <<>>]

AuditInit ==
    /\ reachable \in BOOLEAN /\ client = "none" /\ publishing = [e \in Event |-> "no"]
    /\ stream = <<>> /\ delivered = 0 /\ pending = {}
    /\ consumer = Stopped /\ handling = {}
    /\ recorded = [e \in Event |-> 0] /\ calm = TRUE

-------------------------------------------------------------------------------
RedisTurns ==
    /\ reachable' = ~reachable
    /\ calm' = (calm /\ ~reachable)
    /\ UNCHANGED <<client, publishing, stream, delivered, pending, consumer, handling, recorded>>

-------------------------------------------------------------------------------
(****************************************************************************)
(* The API server.                                                          *)
(****************************************************************************)
Moves(e, pc) == publishing' = [publishing EXCEPT ![e] = pc]

PublishEvent(e) ==
    /\ publishing[e] = "no" /\ Moves(e, "task")
    /\ UNCHANGED <<reachable, client, stream, delivered, pending, consumer, handling, recorded, calm>>

\* The first task connects.  Another one that comes before it is connected finds
\* a client that is not available, and gives its event to the bus in the process.
EnsureRedis(e) ==
    /\ publishing[e] = "task"
    /\ Moves(e, CASE client = "none" -> "connecting" [] client = "connecting" -> "over" [] OTHER -> "sending")
    /\ client' = IF client = "none" THEN "connecting" ELSE client
    /\ calm' = (calm /\ client # "connecting")
    /\ UNCHANGED <<reachable, stream, delivered, pending, consumer, handling, recorded>>

Connect(e) ==
    /\ publishing[e] = "connecting"
    /\ Moves(e, IF reachable THEN "sending" ELSE "over")
    /\ client' = IF reachable THEN "connected" ELSE "none"
    /\ calm' = (calm /\ reachable)
    /\ UNCHANGED <<reachable, stream, delivered, pending, consumer, handling, recorded>>

\* The limit of the stream is approximate: at least MaxStream entries stay.
AddToStream(e) ==
    LET entries == Append(stream, e)
    IN /\ publishing[e] = "sending" /\ Moves(e, "over")
       /\ \/ /\ reachable
             /\ \E k \in 0..IF Len(entries) > MaxStream THEN Len(entries) - MaxStream ELSE 0 :
                   /\ stream' = SubSeq(entries, k + 1, Len(entries))
                   /\ delivered' = IF delivered > k THEN delivered - k ELSE 0
                   /\ calm' = (calm /\ k <= delivered)
          \/ /\ ~reachable /\ calm' = FALSE
             /\ UNCHANGED <<stream, delivered>>
       /\ UNCHANGED <<reachable, client, pending, consumer, handling, recorded>>

ServerRestarts ==
    /\ client' = "none" /\ calm' = FALSE
    /\ publishing' = [e \in Event |-> IF publishing[e] = "no" THEN "no" ELSE "over"]
    /\ UNCHANGED <<reachable, stream, delivered, pending, consumer, handling, recorded>>

-------------------------------------------------------------------------------
(****************************************************************************)
(* The audit worker.                                                        *)
(****************************************************************************)
StartConsumer ==
    /\ consumer.pc = "down"
    /\ consumer' = [Stopped EXCEPT !.pc = "connecting"]
    /\ UNCHANGED <<reachable, client, publishing, stream, delivered, pending, handling, recorded, calm>>

\* After the last attempt the process goes on without a consumer.
ConnectConsumer ==
    /\ consumer.pc = "connecting"
    /\ consumer' = IF reachable THEN [Stopped EXCEPT !.pc = "reading"]
                   ELSE IF consumer.attempts + 1 < MaxAttempts THEN [consumer EXCEPT !.attempts = @ + 1]
                   ELSE [Stopped EXCEPT !.pc = "idle"]
    /\ UNCHANGED <<reachable, client, publishing, stream, delivered, pending, handling, recorded, calm>>

\* Only what was never delivered.
ReadGroup ==
    LET last == IF Len(stream) - delivered < Count THEN Len(stream) ELSE delivered + Count
        batch == SubSeq(stream, delivered + 1, last)
    IN /\ consumer.pc = "reading" /\ reachable /\ batch # <<>>
       /\ consumer' = [consumer EXCEPT !.pc = "dispatching", !.batch = batch]
       /\ delivered' = last /\ pending' = pending \cup ToSet(batch)
       /\ UNCHANGED <<reachable, client, publishing, stream, handling, recorded, calm>>

Dispatch ==
    /\ consumer.pc = "dispatching"
    /\ handling' = handling \cup {Head(consumer.batch)}
    /\ consumer' = [consumer EXCEPT !.pc = "acking"]
    /\ UNCHANGED <<reachable, client, publishing, stream, delivered, pending, recorded, calm>>

Following(batch) ==
    IF batch = <<>> THEN [Stopped EXCEPT !.pc = "reading"] ELSE [Stopped EXCEPT !.pc = "dispatching", !.batch = batch]

\* Mutant: an entry whose acknowledgement failed is taken again.
AcknowledgeOrRetry ==
    /\ consumer.pc = "acking"
    /\ pending' = IF reachable THEN pending \ {Head(consumer.batch)} ELSE pending
    /\ consumer' = Following(IF reachable THEN Tail(consumer.batch) ELSE consumer.batch)
    /\ UNCHANGED <<reachable, client, publishing, stream, delivered, handling, recorded, calm>>

\* A failure gives up the rest of the batch, which stays pending.
Acknowledge ==
    /\ consumer.pc = "acking"
    /\ pending' = IF reachable THEN pending \ {Head(consumer.batch)} ELSE pending
    /\ consumer' = Following(IF reachable THEN Tail(consumer.batch) ELSE <<>>)
    /\ UNCHANGED <<reachable, client, publishing, stream, delivered, handling, recorded, calm>>

\* The row is inserted, or the insertion fails and is logged.
AuditHandler(e) ==
    /\ e \in handling /\ handling' = handling \ {e}
    /\ \/ recorded' = [recorded EXCEPT ![e] = @ + 1] /\ calm' = calm
       \/ recorded' = recorded /\ calm' = FALSE
    /\ UNCHANGED <<reachable, client, publishing, stream, delivered, pending, consumer>>

ConsumerStops ==
    /\ consumer.pc # "down"
    /\ consumer' = Stopped /\ handling' = {} /\ calm' = FALSE
    /\ UNCHANGED <<reachable, client, publishing, stream, delivered, pending, recorded>>

AuditNext ==
    \/ RedisTurns \/ ServerRestarts
    \/ \E e \in Event : PublishEvent(e) \/ EnsureRedis(e) \/ Connect(e) \/ AddToStream(e) \/ AuditHandler(e)
    \/ StartConsumer \/ ConnectConsumer \/ ReadGroup \/ Dispatch \/ Acknowledge \/ ConsumerStops

AuditSpec == AuditInit /\ [][AuditNext]_auditVars

-------------------------------------------------------------------------------
\* Where an event is on its way: at most one of these.
Waits(e) == publishing[e] \in {"task", "connecting", "sending"}
Unread(e) == \E k \in delivered + 1..Len(stream) : stream[k] = e
Undispatched(e) ==
    \E k \in DOMAIN consumer.batch : consumer.batch[k] = e /\ (consumer.pc = "dispatching" \/ k > 1)

\* No event has two rows, whatever fails; and as long as nothing has failed no
\* event is missing: it is at exactly one place of its way, and nothing is
\* pending but the entries the worker is about to acknowledge.
AuditedOnce ==
    /\ \A e \in Event : recorded[e] <= 1
    /\ calm =>
          /\ \A e \in Event : publishing[e] # "no" =>
                Cardinality({p \in 1..5 : <<Waits(e), Unread(e), Undispatched(e), e \in handling, recorded[e] = 1>>[p]}) = 1
          /\ pending = ToSet(consumer.batch)
===============================================================================
