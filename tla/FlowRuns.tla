------------------------------ MODULE FlowRuns -------------------------------
(****************************************************************************)
(* The flow_runs rows of one conversation under everything that touches     *)
(* them at once: the requests that carry the user's messages (flow_chat,    *)
(* one asyncio task each, no lock between them), the scheduler's timeout    *)
(* scan, the clock and crashes.  A request reads, executes and writes in    *)
(* three transactions.  What the executor does inside a turn is FlowExec's  *)
(* matter: here a turn executes the suspended command or not, and ends in   *)
(* one of its outcomes.                                                     *)
(****************************************************************************)
EXTENDS Naturals, FiniteSets

CONSTANTS Request,      \* messages of the conversation; a run is named by the one that created it
          NoRun,
          Outcome,      \* how a turn may end
          Overlap,      \* what may overlap with a turn: "requests", "scheduler"
          Crashes       \* whether a turn or a scan may be cut off

ASSUME FlowRunsAssumption ==
    /\ NoRun \notin Request
    /\ Overlap \subseteq {"requests", "scheduler"}
    /\ Crashes \in BOOLEAN
    /\ Outcome \subseteq {"waiting_human", "completed", "failed", "rejected", "rolled_back"}

VARIABLES
    rows,       \* run -> its flow_runs row
    req,        \* request -> where its flow_chat call is and what it holds
    scanned,    \* the expired rows the scan has selected and not yet updated
    clock,      \* update_waiting calls so far: the order of updated_at
    replies,    \* history: turns per run that answered it without rejecting
    effects,    \* history: executions of a suspended command per run
    waits,      \* history: suspensions per run
    disturbed   \* history: something overlapped with a turn, or a turn was cut off or could not be saved
history == <<replies, effects, waits, disturbed>>
vars == <<rows, req, scanned, clock, history>>

Finished == {"completed", "failed", "timeout", "rejected"}
NoRow == [status |-> "none", updated |-> 0, attempts |-> 0, old |-> FALSE, edge |-> FALSE]
Unsent == [pc |-> "unsent", run |-> NoRun, mode |-> "fresh", attempts |-> 0, outcome |-> "none"]

Init ==
    /\ rows = [r \in Request |-> NoRow]
    /\ req = [q \in Request |-> Unsent]
    /\ scanned = {}
    /\ clock = 0
    /\ replies = [r \in Request |-> 0]
    /\ effects = [r \in Request |-> 0]
    /\ waits = [r \in Request |-> 0]
    /\ disturbed = FALSE

Waiting == {r \in Request : rows[r].status = "waiting_human"}

\* Mutant: expired rows are not selected.
NewestFresh ==
    LET W == {r \in Waiting : ~rows[r].old}
    IN  IF W = {} THEN NoRun
        ELSE CHOOSE r \in W : \A x \in W : rows[x].updated <= rows[r].updated

\* Mutant: rows are selected whatever their status.
NewestAny ==
    LET W == {r \in Request : rows[r].status # "none"}
    IN  IF W = {} THEN NoRun
        ELSE CHOOSE r \in W : \A x \in W : rows[x].updated <= rows[r].updated

\* get_waiting_run: ORDER BY updated_at DESC LIMIT 1.
NewestWaiting ==
    IF Waiting = {} THEN NoRun
    ELSE CHOOSE r \in Waiting : \A x \in Waiting : rows[x].updated <= rows[r].updated

InFlight == {q \in Request : req[q].pc \in {"expiring", "creating", "executing", "saving"}}

\* The environment's part: which overlaps this instance allows.
MayArrive ==
    /\ "requests" \in Overlap \/ InFlight = {}
    /\ "scheduler" \in Overlap \/ scanned = {}
MayScan == "scheduler" \in Overlap \/ InFlight = {}

-------------------------------------------------------------------------------
(****************************************************************************)
(* flow_chat                                                                *)
(****************************************************************************)
Resume(q, r, mode) ==
    /\ req' = [req EXCEPT ![q] = [pc |-> "executing", run |-> r, mode |-> mode,
                                  attempts |-> rows[r].attempts, outcome |-> "none"]]
    /\ replies' = IF mode = "approve" THEN [replies EXCEPT ![r] = @ + 1] ELSE replies

\* The message is matched with the newest waiting run, whose age is looked at
\* here and never again.
Arrive(q, mode) ==
    /\ req[q].pc = "unsent"
    /\ MayArrive
    /\ LET r == NewestWaiting
       IN  \/ /\ r # NoRun /\ ~rows[r].old
              /\ mode \in {"approve", "reject"}
              /\ Resume(q, r, mode)
           \/ /\ r # NoRun /\ rows[r].old /\ rows[r].edge
              /\ mode = "expired"
              /\ Resume(q, r, mode)
           \/ /\ r # NoRun /\ rows[r].old /\ ~rows[r].edge
              /\ mode = "fresh"
              /\ req' = [req EXCEPT ![q].pc = "expiring", ![q].run = r]
              /\ UNCHANGED replies
           \/ /\ r = NoRun
              /\ mode = "fresh"
              /\ req' = [req EXCEPT ![q].pc = "creating"]
              /\ UNCHANGED replies
    /\ disturbed' = (disturbed \/ InFlight # {} \/ scanned # {})
    /\ UNCHANGED <<rows, scanned, clock, effects, waits>>

\* flow_runs_status_check of what a turn can end in.
Storable(status) == status # "rolled_back"

\* UPDATE ... WHERE execution_id: no look at the status it overwrites.  A status
\* the constraint refuses raises and leaves the row.
FinishRow(r, status) ==
    rows' = IF Storable(status) THEN [rows EXCEPT ![r].status = status] ELSE rows

\* The late message ends the old run and opens a new one.
LazyTimeOut(q) ==
    /\ req[q].pc = "expiring"
    /\ FinishRow(req[q].run, "timeout")
    /\ req' = [req EXCEPT ![q].pc = "creating", ![q].run = NoRun]
    /\ UNCHANGED <<scanned, clock, history>>

CreateRun(q) ==
    /\ req[q].pc = "creating"
    /\ rows' = [rows EXCEPT ![q].status = "running"]
    /\ req' = [req EXCEPT ![q].pc = "executing", ![q].run = q]
    /\ UNCHANGED <<scanned, clock, history>>

\* Mutant: a suspended command whose approval came too late is executed.
ExecuteLate(q, outcome) ==
    /\ req[q].pc = "executing"
    /\ (req[q].mode = "reject") = (outcome = "rejected")
    /\ effects' = IF req[q].mode \in {"approve", "expired"} THEN [effects EXCEPT ![req[q].run] = @ + 1] ELSE effects
    /\ req' = [req EXCEPT ![q].pc = "saving", ![q].outcome = outcome]
    /\ UNCHANGED <<rows, scanned, clock, replies, waits, disturbed>>

\* The turn: only a resumed turn whose message approves executes the command
\* the run was suspended at.
Execute(q, outcome) ==
    /\ req[q].pc = "executing"
    /\ (req[q].mode = "reject") = (outcome = "rejected")
    /\ effects' = IF req[q].mode = "approve" THEN [effects EXCEPT ![req[q].run] = @ + 1] ELSE effects
    /\ req' = [req EXCEPT ![q].pc = "saving", ![q].outcome = outcome]
    /\ UNCHANGED <<rows, scanned, clock, replies, waits, disturbed>>

\* attempts is the value read when the message arrived, plus one.
UpdateWaiting(q, edge) ==
    /\ req[q].pc = "saving" /\ req[q].outcome = "waiting_human"
    /\ clock' = clock + 1
    /\ rows' = [rows EXCEPT ![req[q].run] =
                   [status |-> "waiting_human", updated |-> clock + 1,
                    attempts |-> req[q].attempts + 1, old |-> FALSE, edge |-> edge]]
    /\ waits' = [waits EXCEPT ![req[q].run] = @ + 1]
    /\ req' = [req EXCEPT ![q].pc = "done"]
    /\ UNCHANGED <<scanned, replies, effects, disturbed>>

FinishRun(q) ==
    /\ req[q].pc = "saving" /\ req[q].outcome # "waiting_human"
    /\ FinishRow(req[q].run, req[q].outcome)
    /\ req' = [req EXCEPT ![q].pc = IF Storable(req[q].outcome) THEN "done" ELSE "crashed"]
    /\ disturbed' = (disturbed \/ ~Storable(req[q].outcome))
    /\ UNCHANGED <<scanned, clock, replies, effects, waits>>

\* The task is cancelled, or the process dies.
Crash(q) ==
    /\ Crashes
    /\ q \in InFlight
    /\ req' = [req EXCEPT ![q].pc = "crashed"]
    /\ disturbed' = TRUE
    /\ UNCHANGED <<rows, scanned, clock, replies, effects, waits>>

-------------------------------------------------------------------------------
(****************************************************************************)
(* Time and the scheduler (expire_waiting_approvals): SELECT, then UPDATE,  *)
(* in one READ COMMITTED transaction without row locks in between.          *)
(****************************************************************************)
\* The TTL runs out, for the longest waiting first.
TimePasses(r) ==
    /\ r \in Waiting /\ ~rows[r].old
    /\ \A x \in Waiting : rows[x].updated < rows[r].updated => rows[x].old
    /\ rows' = [rows EXCEPT ![r].old = TRUE]
    /\ UNCHANGED <<req, scanned, clock, history>>

\* Mutant: runs with an error edge are left to the next message.
ScanWithoutEdges ==
    /\ scanned = {} /\ MayScan
    /\ \E r \in Waiting : rows[r].old /\ ~rows[r].edge
    /\ scanned' = {r \in Waiting : rows[r].old /\ ~rows[r].edge}
    /\ disturbed' = (disturbed \/ InFlight # {})
    /\ UNCHANGED <<rows, req, clock, replies, effects, waits>>

Scan ==
    /\ scanned = {} /\ MayScan
    /\ \E r \in Waiting : rows[r].old
    /\ scanned' = {r \in Waiting : rows[r].old}
    /\ disturbed' = (disturbed \/ InFlight # {})
    /\ UNCHANGED <<rows, req, clock, replies, effects, waits>>

Expire ==
    /\ scanned # {}
    /\ rows' = [r \in Request |-> IF r \in scanned THEN [rows[r] EXCEPT !.status = "timeout"] ELSE rows[r]]
    /\ scanned' = {}
    /\ UNCHANGED <<req, clock, history>>

ScanCrash ==
    /\ Crashes
    /\ scanned # {}
    /\ scanned' = {}
    /\ UNCHANGED <<rows, req, clock, history>>

Next ==
    \/ \E q \in Request :
        \/ \E mode \in {"approve", "reject", "expired", "fresh"} : Arrive(q, mode)
        \/ LazyTimeOut(q) \/ CreateRun(q)
        \/ \E outcome \in Outcome : Execute(q, outcome)
        \/ \E edge \in BOOLEAN : UpdateWaiting(q, edge)
        \/ FinishRun(q)
        \/ Crash(q)
    \/ \E r \in Request : TimePasses(r)
    \/ Scan \/ Expire \/ ScanCrash

\* A request in flight goes on and the TTL runs out.  A scan that is retried
\* for ever is not cut off for ever: SF, since a crash disables Expire.
Progress(q) ==
    \/ LazyTimeOut(q) \/ CreateRun(q) \/ FinishRun(q)
    \/ \E outcome \in Outcome : Execute(q, outcome)
    \/ \E edge \in BOOLEAN : UpdateWaiting(q, edge)

Fairness ==
    /\ \A q \in Request : WF_vars(Progress(q))
    /\ \A r \in Request : WF_vars(TimePasses(r))
    /\ WF_vars(Scan)
    /\ SF_vars(Expire)

Spec == Init /\ [][Next]_vars /\ Fairness

-------------------------------------------------------------------------------
(****************************************************************************)
(* Properties.                                                              *)
(****************************************************************************)
\* Rows, requests and history counters have the shapes the code gives them.
TypeOK ==
    /\ rows \in [Request -> [status : Finished \cup {"none", "running", "waiting_human"},
                             updated : 0..clock, attempts : Nat, old : BOOLEAN, edge : BOOLEAN]]
    /\ req \in [Request -> [pc : {"unsent", "expiring", "creating", "executing", "saving", "done", "crashed"},
                            run : Request \cup {NoRun},
                            mode : {"fresh", "approve", "reject", "expired"},
                            attempts : Nat,
                            outcome : Outcome \cup {"none"}]]
    /\ scanned \subseteq Request
    /\ clock \in Nat
    /\ disturbed \in BOOLEAN
    /\ replies \in [Request -> Nat] /\ effects \in [Request -> Nat] /\ waits \in [Request -> Nat]

\* Each suspension is answered by at most one execution of its command.
OncePerSuspension == \A r \in Request : effects[r] <= waits[r]

\* As long as messages do not overlap, no turn is cut off after its execution and
\* none ends in a status that cannot be stored, each suspension is answered at
\* most once, and a conversation has at most one run waiting for a human: "the
\* uniqueness of the waiting_human run is guaranteed by D6" (create_run,
\* update_waiting), the counter of which is the number of its suspensions.
SerialConversation ==
    ~disturbed => /\ OncePerSuspension
                  /\ Cardinality(Waiting) <= 1
                  /\ \A r \in Waiting : rows[r].attempts = waits[r]

\* A run that is over stays as it ended: no scan, and no later message as long
\* as none overlaps, gives it another status ("terminal status", finish_run and
\* expire_waiting_approvals).
FinishedIsFinal ==
    [][~disturbed' => \A r \in Request : rows[r].status \in Finished => rows'[r].status = rows[r].status]_vars

\* Whatever overlaps or crashes, a suspended command is never executed on
\* behalf of nobody: executions are bounded by the replies that approved (how often
\* one execution may invoke its adapter is a matter of FlowExec).
RepliesPay == \A r \in Request : effects[r] <= replies[r]

\* Every suspended run leaves the waiting state, even one that a newer waiting
\* run hides from get_waiting_run.
WaitingEnds == \A r \in Request : r \in Waiting ~> r \notin Waiting
==============================================================================
