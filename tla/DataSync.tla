------------------------------- MODULE DataSync -------------------------------
(****************************************************************************)
(* The synchronisation of one data source: rows of an outside system are    *)
(* fetched through a connector and copied into the ABox, by jobs that a     *)
(* route or the registration puts into the task queue.  The rule of the     *)
(* data source records how its last job went and when, and that record is   *)
(* also the job's heartbeat: a job that has not beaten for the time-to-live *)
(* is taken for dead and marked interrupted, by the next trigger or by the  *)
(* next start of a worker.                                                  *)
(*                                                                          *)
(* Every statement on the rule is a transaction of its own.  A row is       *)
(* copied in three: the upsert of its entity, the look-up of its fact and   *)
(* the insertion of the fact.  Rows beat every BatchSize rows; the clock is *)
(* counted in changes of the outside system.                                *)
(****************************************************************************)
EXTENDS Naturals, FiniteSets

CONSTANTS
    RowCode,        \* business codes of the outside rows
    SyncWorker,     \* worker slots that run jobs
    Incremental,    \* the rule fetches what changed since its last synchronisation
    BatchSize,      \* rows between two heartbeats, 50 in the code
    NoRow,
    MaxTime, MaxJobs    \* bounds on the outside changes and on the jobs

ASSUME SyncConstants ==
    /\ Incremental \in BOOLEAN
    /\ BatchSize \in Nat \ {0}
    /\ NoRow \notin RowCode
    /\ MaxTime \in Nat /\ MaxJobs \in Nat

VARIABLES
    connector,  \* status of the connector's row
    rule,       \* the import rule: [registered, status, stamp]
    stale,      \* the stamp is older than the time-to-live
    marking,    \* who has found the last job dead and is about to mark it
    enqueued,   \* jobs enqueued so far, and how many of them wait
    time,       \* changes of the outside system so far
    outside,    \* when each outside row changed last, 0 if there is none
    syncing,    \* what each worker does
    copies,     \* entities of each business code, and the change they hold
    lastSync,   \* the last completed job: when it fetched, and the rows that failed
    overlapped  \* two jobs ran at the same time (history)

syncVars == <<connector, rule, stale, marking, enqueued, time, outside, syncing, copies, lastSync, overlapped>>
ruleVars == <<rule, stale, marking, enqueued>>

NoJob == [pc |-> "off", since |-> 0, at |-> 0, todo |-> {}, taken |-> 0, row |-> NoRow, failed |-> {}]

SyncInit ==
    /\ connector = "none"
    /\ rule = [registered |-> FALSE, status |-> "none", stamp |-> 0]
    /\ stale = FALSE /\ marking = "nobody"
    /\ enqueued = [all |-> 0, waiting |-> 0]
    /\ time = 0 /\ outside = [c \in RowCode |-> 0]
    /\ syncing = [w \in SyncWorker |-> NoJob]
    /\ copies = [c \in RowCode |-> [entities |-> 0, facts |-> 0, holds |-> 0]]
    /\ lastSync = [at |-> 0, failed |-> {}] /\ overlapped = FALSE

-------------------------------------------------------------------------------
RowChanges(c) ==
    /\ time < MaxTime
    /\ time' = time + 1 /\ outside' = [outside EXCEPT ![c] = time + 1]
    /\ UNCHANGED <<connector, ruleVars, syncing, copies, lastSync, overlapped>>

\* A connector is created, enabled, disabled, or deleted unless a rule refers to it.
SetConnector(status) ==
    /\ status # connector /\ (status = "none" => ~rule.registered)
    /\ connector' = status
    /\ UNCHANGED <<ruleVars, time, outside, syncing, copies, lastSync, overlapped>>

\* The queue takes the job or does not; the caller is told and nothing else.
Enqueue == enqueued' \in {enqueued} \cup
    IF enqueued.all = MaxJobs THEN {} ELSE {[all |-> enqueued.all + 1, waiting |-> enqueued.waiting + 1]}

RegisterDataSource ==
    /\ connector = "active" /\ ~rule.registered
    /\ rule' = [rule EXCEPT !.registered = TRUE]
    /\ Enqueue
    /\ UNCHANGED <<connector, stale, marking, time, outside, syncing, copies, lastSync, overlapped>>

\* While a job runs and beats, a trigger is refused.
TriggerSync ==
    /\ rule.registered /\ marking = "nobody"
    /\ IF rule.status # "running" THEN Enqueue /\ UNCHANGED marking
       ELSE stale /\ marking' = "trigger" /\ UNCHANGED enqueued
    /\ UNCHANGED <<connector, rule, stale, time, outside, syncing, copies, lastSync, overlapped>>

\* A worker that starts looks for dead jobs.
ScanInterrupted ==
    /\ rule.status = "running" /\ stale /\ marking = "nobody"
    /\ marking' = "scan"
    /\ UNCHANGED <<connector, rule, stale, enqueued, time, outside, syncing, copies, lastSync, overlapped>>

\* The mark is set whatever the job has done since it was found dead.
MarkInterrupted ==
    /\ marking # "nobody"
    /\ rule' = [rule EXCEPT !.status = "interrupted"]
    /\ marking' = "nobody"
    /\ IF marking = "trigger" THEN Enqueue ELSE UNCHANGED enqueued
    /\ UNCHANGED <<connector, stale, time, outside, syncing, copies, lastSync, overlapped>>

HeartbeatAges ==
    /\ rule.status = "running" /\ ~stale
    /\ stale' = TRUE
    /\ UNCHANGED <<connector, rule, marking, enqueued, time, outside, syncing, copies, lastSync, overlapped>>

-------------------------------------------------------------------------------
\* The state of the rule with a fresh stamp.
Stamped(status) == [rule EXCEPT !.status = status, !.stamp = time]

StartJob(w) ==
    /\ syncing[w] = NoJob /\ enqueued.waiting > 0
    /\ enqueued' = [enqueued EXCEPT !.waiting = @ - 1]
    /\ syncing' = [syncing EXCEPT ![w].pc = "load"]
    /\ rule' = Stamped("running") /\ stale' = FALSE
    /\ overlapped' = (overlapped \/ \E u \in SyncWorker : syncing[u] # NoJob)
    /\ UNCHANGED <<connector, marking, time, outside, copies, lastSync>>

\* Mutant: whatever its mode, a rule fetches what changed since its stamp.
LoadIncremental(w) ==
    /\ syncing[w].pc = "load"
    /\ syncing' = [syncing EXCEPT ![w].pc = "fetch", ![w].since = rule.stamp]
    /\ UNCHANGED <<connector, ruleVars, time, outside, copies, lastSync, overlapped>>

\* The rule is read, then the connector's configuration, whatever its status.
LoadRule(w) ==
    /\ syncing[w].pc = "load"
    /\ syncing' = [syncing EXCEPT ![w].pc = "fetch", ![w].since = IF Incremental THEN rule.stamp ELSE 0]
    /\ UNCHANGED <<connector, ruleVars, time, outside, copies, lastSync, overlapped>>

\* The rows there are now, or those that changed after the given time.
FetchRows(w) ==
    /\ syncing[w].pc = "fetch"
    /\ syncing' = [syncing EXCEPT ![w].pc = "rows", ![w].at = time,
                       ![w].todo = {<<c, outside[c]>> : c \in {c \in RowCode : outside[c] > syncing[w].since}}]
    /\ UNCHANGED <<connector, ruleVars, time, outside, copies, lastSync, overlapped>>

\* The next row, with a heartbeat at the first of a batch.  Its entity is
\* looked for; a row without a code is an error of that row.
TakeRow(w, row) ==
    /\ syncing[w].pc = "rows" /\ row \in syncing[w].todo
    /\ IF syncing[w].taken % BatchSize = 0 THEN rule' = Stamped("running") /\ stale' = FALSE
       ELSE UNCHANGED <<rule, stale>>
    /\ syncing' = [syncing EXCEPT ![w].todo = @ \ {row}, ![w].taken = @ + 1, ![w].row = row,
                       ![w].pc = IF copies[row[1]].entities = 0 THEN "insert" ELSE "merge"]
    /\ UNCHANGED <<connector, marking, enqueued, time, outside, copies, lastSync, overlapped>>

\* The upsert is committed.
WriteEntity(w) ==
    LET c == syncing[w].row[1]
    IN /\ syncing[w].pc \in {"insert", "merge"}
       /\ copies' = [copies EXCEPT ![c].entities = IF syncing[w].pc = "insert" THEN @ + 1 ELSE @,
                                   ![c].holds = syncing[w].row[2]]
       /\ syncing' = [syncing EXCEPT ![w].pc = "look up fact"]
       /\ UNCHANGED <<connector, ruleVars, time, outside, lastSync, overlapped>>

LookUpFact(w) ==
    /\ syncing[w].pc = "look up fact"
    /\ syncing' = [syncing EXCEPT ![w].pc = IF copies[syncing[w].row[1]].facts = 0 THEN "fact" ELSE "rows"]
    /\ UNCHANGED <<connector, ruleVars, time, outside, copies, lastSync, overlapped>>

AddFact(w) ==
    /\ syncing[w].pc = "fact"
    /\ copies' = [copies EXCEPT ![syncing[w].row[1]].facts = @ + 1]
    /\ syncing' = [syncing EXCEPT ![w].pc = "rows"]
    /\ UNCHANGED <<connector, ruleVars, time, outside, lastSync, overlapped>>

\* A row that fails is remembered, and the others go on.
RowFails(w) ==
    /\ syncing[w].pc \in {"insert", "merge", "look up fact", "fact"}
    /\ syncing' = [syncing EXCEPT ![w].pc = "rows", ![w].failed = @ \cup {syncing[w].row[1]}]
    /\ UNCHANGED <<connector, ruleVars, time, outside, copies, lastSync, overlapped>>

CompleteJob(w) ==
    /\ syncing[w].pc = "rows" /\ syncing[w].todo = {}
    /\ rule' = Stamped("completed") /\ stale' = FALSE
    /\ lastSync' = [at |-> syncing[w].at, failed |-> syncing[w].failed]
    /\ syncing' = [syncing EXCEPT ![w] = NoJob]
    /\ UNCHANGED <<connector, marking, enqueued, time, outside, copies, overlapped>>

\* The configuration, the fetch or a heartbeat fails: the rule says so, unless
\* that fails too.
FailJob(w) ==
    /\ syncing[w].pc \in {"load", "fetch", "rows"}
    /\ rule' \in {rule, [rule EXCEPT !.status = "failed"]}
    /\ syncing' = [syncing EXCEPT ![w] = NoJob]
    /\ UNCHANGED <<connector, stale, marking, enqueued, time, outside, copies, lastSync, overlapped>>

\* The worker is lost with its job.
SyncWorkerLost(w) ==
    /\ syncing[w] # NoJob
    /\ syncing' = [syncing EXCEPT ![w] = NoJob]
    /\ UNCHANGED <<connector, ruleVars, time, outside, copies, lastSync, overlapped>>

SyncNext ==
    \/ \E c \in RowCode : RowChanges(c)
    \/ \E status \in {"none", "active", "disabled"} : SetConnector(status)
    \/ RegisterDataSource \/ TriggerSync \/ ScanInterrupted \/ MarkInterrupted \/ HeartbeatAges
    \/ \E w \in SyncWorker :
          \/ StartJob(w) \/ LoadRule(w) \/ FetchRows(w)
          \/ \E row \in RowCode \X (1..MaxTime) : TakeRow(w, row)
          \/ WriteEntity(w) \/ LookUpFact(w) \/ AddFact(w) \/ RowFails(w)
          \/ CompleteJob(w) \/ FailJob(w) \/ SyncWorkerLost(w)

SyncSpec == SyncInit /\ [][SyncNext]_syncVars

-------------------------------------------------------------------------------
SyncTypeOK ==
    /\ connector \in {"none", "active", "disabled"}
    /\ rule \in [registered : BOOLEAN, stamp : 0..time,
                 status : {"none", "running", "completed", "failed", "interrupted"}]
    /\ marking \in {"nobody", "trigger", "scan"} /\ enqueued.waiting <= enqueued.all
    /\ \A c \in RowCode : copies[c].holds \in 0..time /\ outside[c] \in 0..time

\* What a completed synchronisation promises if no two jobs overlap: every row
\* as it was when the last completed job fetched, but for the rows that failed;
\* a row may have been copied again since.
CaughtUp ==
    ~overlapped => \A c \in RowCode \ lastSync.failed :
                        outside[c] <= lastSync.at => copies[c].holds = outside[c]

\* A rule that always fetches everything keeps that promise, whatever crashes,
\* fails or is triggered again in between.
FullSyncCatchesUp == ~Incremental => CaughtUp

\* As long as jobs do not overlap there is one entity and at most one fact for
\* each code, however often rows fail half-way and jobs are lost and repeated.
CopiedOnce ==
    ~overlapped => \A c \in RowCode :
        copies[c].entities <= 1 /\ copies[c].facts <= copies[c].entities

\* A full synchronisation catches up with the rows outside, and copies each
\* once: both of the above.
SyncIsFaithful == FullSyncCatchesUp /\ CopiedOnce

\* The user guide: "the fetch carries since = the time of the last
\* synchronisation ... only new and changed rows are pulled"
\* (arch/guides/earp-fde-user-guide.md:888), so that nothing that changed since
\* is missed.
IncrementalCatchesUp == Incremental => CaughtUp
===============================================================================
