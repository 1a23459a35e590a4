---------------------------- MODULE FlowRuns_proofs ----------------------------
(****************************************************************************)
(* Proofs about FlowRuns for any number of messages, whatever overlaps and  *)
(* whether or not turns are cut off: its type invariant, its two safety     *)
(* invariants, and that a run that is over stays over.                      *)
(****************************************************************************)
EXTENDS FlowRuns, NumberFacts, TLAPS

Row == [status : Finished \cup {"none", "running", "waiting_human"},
        updated : Nat, attempts : Nat, old : BOOLEAN, edge : BOOLEAN]
Call == [pc : {"unsent", "expiring", "creating", "executing", "saving", "done", "crashed"},
         run : Request \cup {NoRun}, mode : {"fresh", "approve", "reject", "expired"},
         attempts : Nat, outcome : Outcome \cup {"none"}]

\* A turn has a run before it has an outcome, and it has an outcome to save.
CallOf(q) ==
    /\ req[q].pc \in {"expiring", "executing", "saving"} => req[q].run \in Request
    /\ req[q].pc \in {"unsent", "expiring", "creating"} => req[q].mode = "fresh"
    /\ req[q].pc = "saving" => req[q].outcome \in Outcome

TInv ==
    /\ rows \in [Request -> Row]
    /\ \A r \in Request : rows[r].updated <= clock
    /\ req \in [Request -> Call]
    /\ \A q \in Request : CallOf(q)
    /\ scanned \subseteq Request
    /\ clock \in Nat
    /\ disturbed \in BOOLEAN
    /\ replies \in [Request -> Nat] /\ effects \in [Request -> Nat] /\ waits \in [Request -> Nat]

\* A reply is paid for when its turn starts and used up when the turn executes:
\* the turns in between are finite in number and still have their replies.
Approving(r) == {q \in Request : req[q].pc = "executing" /\ req[q].mode = "approve" /\ req[q].run = r}
PaidAt(r) == IsFiniteSet(Approving(r)) /\ effects[r] + Cardinality(Approving(r)) <= replies[r]
Paid == \A r \in Request : PaidAt(r)

-------------------------------------------------------------------------------
\* What one message at a time means: one call is in flight, and no scan with it;
\* the call holds the one run that waits, or has just created its own.
Alone ==
    /\ \A p, q \in InFlight : p = q
    /\ scanned # {} => InFlight = {}
    /\ scanned \subseteq Waiting
    /\ \A r, s \in Waiting : r = s

Holds(q) ==
    /\ req[q].pc \in {"unsent", "expiring", "creating"} =>
          rows[q].status = "none" /\ waits[q] = 0 /\ effects[q] = 0 /\ rows[q].attempts = 0 /\ req[q].attempts = 0
    /\ req[q].pc = "creating" => Waiting = {}
    /\ req[q].pc \in {"expiring", "executing", "saving"} => Waiting \subseteq {req[q].run}
    /\ req[q].pc = "expiring" => rows[req[q].run].status = "waiting_human"
    /\ req[q].pc \in {"executing", "saving"} =>
          /\ rows[req[q].run].status \in {"running", "waiting_human"}
          /\ req[q].attempts = waits[req[q].run]
    /\ req[q].pc = "executing" /\ req[q].mode = "approve" => effects[req[q].run] < waits[req[q].run]

\* A run that waits has been suspended once more than its command was executed,
\* unless a turn that executed it is about to save.
Owes(r) ==
    /\ effects[r] <= waits[r]
    /\ r \in Waiting => rows[r].attempts = waits[r]
    /\ r \in Waiting /\ (\A q \in Request : req[q].pc = "saving" => req[q].run # r) => effects[r] < waits[r]

Serial == ~disturbed => Alone /\ (\A q \in Request : Holds(q)) /\ (\A r \in Request : Owes(r))

-------------------------------------------------------------------------------
(****************************************************************************)
(* Types.                                                                   *)
(****************************************************************************)
LEMMA WaitingTyped == Waiting \subseteq Request
  BY DEF Waiting

\* Among the runs that wait there is a newest one, and it is the one found.
LEMMA NewestWaits ==
    ASSUME TInv
    PROVE  /\ NewestWaiting # NoRun => NewestWaiting \in Waiting
           /\ NewestWaiting = NoRun => Waiting = {}
  <1>1. CASE Waiting = {}
    BY <1>1 DEF NewestWaiting
  <1>2. CASE Waiting # {}
    <2> DEFINE T == {rows[x].updated : x \in Waiting}
    <2>1. \A x \in Waiting : rows[x].updated \in 0..clock
      BY WaitingTyped DEF TInv, Row
    <2>2. T \in SUBSET (0..clock) /\ T # {} /\ clock \in Nat
      BY <1>2, <2>1 DEF TInv
    <2>3. \E m \in T : \A k \in T : k <= m
      <3> HIDE DEF T
      <3> QED
        BY <2>2, GreatestNumber
    <2>4. \E r \in Waiting : \A x \in Waiting : rows[x].updated <= rows[r].updated
      BY <2>3
    <2>5. NewestWaiting \in Waiting
      BY <1>2, <2>4 DEF NewestWaiting
    <2> QED
      BY <1>2, <2>5, WaitingTyped, FlowRunsAssumption DEF FlowRunsAssumption
  <1> QED
    BY <1>1, <1>2

LEMMA InitTInv == Init => TInv
  <1> SUFFICES ASSUME Init PROVE TInv
    OBVIOUS
  <1>1. NoRow \in Row /\ NoRow.updated = 0
    BY DEF Row, NoRow
  <1>2. Unsent \in Call /\ Unsent.pc = "unsent" /\ Unsent.mode = "fresh"
    BY DEF Call, Unsent
  <1>3. \A q \in Request : rows[q] = NoRow /\ req[q] = Unsent
    BY DEF Init
  <1>4. \A q \in Request : CallOf(q) /\ rows[q].updated <= clock
    BY <1>1, <1>2, <1>3 DEF CallOf, Init
  <1> QED
    BY <1>1, <1>2, <1>4 DEF Init, TInv

\* A call may go on to any state that has the run and the outcome it needs.
LEMMA CallTyped ==
    ASSUME TInv, NEW q \in Request, NEW c \in Call, req' = [req EXCEPT ![q] = c],
           c.pc \in {"expiring", "executing", "saving"} => c.run \in Request,
           c.pc \in {"unsent", "expiring", "creating"} => c.mode = "fresh",
           c.pc = "saving" => c.outcome \in Outcome
    PROVE  req' \in [Request -> Call] /\ \A p \in Request : CallOf(p)'
  <1>1. req' \in [Request -> Call] /\ req'[q] = c /\ \A p \in Request \ {q} : req'[p] = req[p]
    BY DEF TInv
  <1> QED
    BY <1>1 DEF TInv, CallOf

\* What every outcome that can be stored is: a status a row may have.
LEMMA StorableOutcome ==
    ASSUME NEW o \in Outcome, Storable(o)
    PROVE  o \in Finished \cup {"waiting_human"}
  BY FlowRunsAssumption DEF Storable, Finished, FlowRunsAssumption

\* The update of one row by a status it may have.
LEMMA FinishTyped ==
    ASSUME TInv, NEW r \in Request, NEW status, FinishRow(r, status),
           Storable(status) => status \in Finished \cup {"waiting_human"}
    PROVE  rows' \in [Request -> Row] /\ \A x \in Request : rows'[x].updated <= clock
  BY DEF TInv, Row, FinishRow

\* Every step keeps the types.
LEMMA NextTInv == TInv /\ [Next]_vars => TInv'
  <1> SUFFICES ASSUME TInv, [Next]_vars PROVE TInv'
    OBVIOUS
  <1> USE DEF history
  <1>1. ASSUME NEW q \in Request, NEW mode \in {"approve", "reject", "expired", "fresh"}, Arrive(q, mode)
        PROVE  TInv'
    <2> DEFINE r == NewestWaiting
    <2>1. r # NoRun => r \in Request
      BY NewestWaits, WaitingTyped
    <2>2. ASSUME r # NoRun, Resume(q, r, mode), mode \in {"approve", "reject", "expired"} PROVE TInv'
      <3>1. r \in Request /\ rows[r].attempts \in Nat
        BY <2>1, <2>2 DEF TInv, Row
      <3>2. req' = [req EXCEPT ![q] = [pc |-> "executing", run |-> r, mode |-> mode,
                                       attempts |-> rows[r].attempts, outcome |-> "none"]]
            /\ replies' \in [Request -> Nat]
        BY <1>1, <2>2, <3>1 DEF Resume, TInv
      <3>3. UNCHANGED <<rows, scanned, clock, effects, waits>> /\ disturbed' \in BOOLEAN
        BY <1>1 DEF Arrive, TInv
      <3> HIDE DEF r
      <3>4. req' \in [Request -> Call] /\ \A p \in Request : CallOf(p)'
        BY <3>1, <3>2, <2>2 DEF TInv, Call, CallOf
      <3> QED
        BY <3>2, <3>3, <3>4 DEF TInv
    <2>3. ASSUME r # NoRun, req' = [req EXCEPT ![q].pc = "expiring", ![q].run = r], UNCHANGED replies PROVE TInv'
      <3>1. r \in Request
        BY <2>1, <2>3
      <3>2. UNCHANGED <<rows, scanned, clock, effects, waits>> /\ disturbed' \in BOOLEAN /\ req[q].pc = "unsent"
        BY <1>1 DEF Arrive, TInv
      <3> HIDE DEF r
      <3>3. req' \in [Request -> Call] /\ \A p \in Request : CallOf(p)'
        <4> DEFINE c == [req[q] EXCEPT !.pc = "expiring", !.run = r]
        <4>1. c \in Call /\ c.pc = "expiring" /\ c.run = r /\ c.mode = "fresh"
          BY <3>1, <3>2 DEF TInv, Call, CallOf
        <4>2. req' = [req EXCEPT ![q] = c]
          BY <2>3
        <4> HIDE DEF c
        <4> QED
          BY <3>1, <4>1, <4>2, CallTyped
      <3> QED
        BY <2>3, <3>2, <3>3 DEF TInv
    <2>4. ASSUME req' = [req EXCEPT ![q].pc = "creating"], UNCHANGED replies PROVE TInv'
      <3>1. UNCHANGED <<rows, scanned, clock, effects, waits>> /\ disturbed' \in BOOLEAN /\ req[q].pc = "unsent"
        BY <1>1 DEF Arrive, TInv
      <3>2. req' \in [Request -> Call] /\ \A p \in Request : CallOf(p)'
        BY SMTT(30), <3>1, <2>4 DEF TInv, Call, CallOf
      <3> QED
        BY <2>4, <3>1, <3>2 DEF TInv
    <2> QED
      BY <1>1, <2>2, <2>3, <2>4 DEF Arrive
  <1>2. ASSUME NEW q \in Request, LazyTimeOut(q) PROVE TInv'
    <2>1. req[q].run \in Request /\ FinishRow(req[q].run, "timeout") /\ req[q].mode = "fresh"
      BY <1>2 DEF LazyTimeOut, TInv, CallOf
    <2>2. rows' \in [Request -> Row] /\ \A x \in Request : rows'[x].updated <= clock
      BY <2>1, FinishTyped DEF Finished
    <2>3. req' \in [Request -> Call] /\ \A p \in Request : CallOf(p)'
      <3> DEFINE c == [req[q] EXCEPT !.pc = "creating", !.run = NoRun]
      <3>1. c \in Call /\ c.pc = "creating" /\ c.mode = "fresh"
        BY <2>1 DEF TInv, Call
      <3>2. req' = [req EXCEPT ![q] = c]
        BY <1>2 DEF LazyTimeOut
      <3> HIDE DEF c
      <3> QED
        BY <3>1, <3>2, CallTyped
    <2> QED
      BY <1>2, <2>2, <2>3 DEF TInv, LazyTimeOut
  <1>3. ASSUME NEW q \in Request, CreateRun(q) PROVE TInv'
    <2>1. rows' \in [Request -> Row] /\ \A x \in Request : rows'[x].updated <= clock
      BY <1>3 DEF TInv, Row, CreateRun
    <2>2. req' \in [Request -> Call] /\ \A p \in Request : CallOf(p)'
      <3> DEFINE c == [req[q] EXCEPT !.pc = "executing", !.run = q]
      <3>1. c \in Call /\ c.pc = "executing" /\ c.run = q
        BY DEF TInv, Call
      <3>2. req' = [req EXCEPT ![q] = c]
        BY <1>3 DEF CreateRun
      <3> HIDE DEF c
      <3> QED
        BY <3>1, <3>2, CallTyped
    <2> QED
      BY <1>3, <2>1, <2>2 DEF TInv, CreateRun
  <1>4. ASSUME NEW q \in Request, NEW outcome \in Outcome, Execute(q, outcome) PROVE TInv'
    <2>1. req' \in [Request -> Call] /\ \A p \in Request : CallOf(p)'
      <3> DEFINE c == [req[q] EXCEPT !.pc = "saving", !.outcome = outcome]
      <3>1. c \in Call /\ c.pc = "saving" /\ c.outcome = outcome /\ c.run = req[q].run
        BY DEF TInv, Call
      <3>2. req' = [req EXCEPT ![q] = c] /\ req[q].run \in Request
        BY <1>4 DEF Execute, TInv, CallOf
      <3> HIDE DEF c
      <3> QED
        BY <3>1, <3>2, CallTyped
    <2>2. effects' \in [Request -> Nat]
      BY <1>4 DEF TInv, Execute, CallOf
    <2> QED
      BY <1>4, <2>1, <2>2 DEF TInv, Execute
  <1>5. ASSUME NEW q \in Request, NEW edge \in BOOLEAN, UpdateWaiting(q, edge) PROVE TInv'
    <2>1. req[q].run \in Request /\ req[q].attempts \in Nat
      BY <1>5 DEF UpdateWaiting, TInv, Call, CallOf
    <2>2. clock' \in Nat /\ clock' = clock + 1
      BY <1>5 DEF UpdateWaiting, TInv
    <2> DEFINE new == [status |-> "waiting_human", updated |-> clock + 1,
                       attempts |-> req[q].attempts + 1, old |-> FALSE, edge |-> edge]
    <2>3. new \in Row /\ new.updated = clock'
      BY <2>1, <2>2 DEF Row
    <2>4. rows' = [rows EXCEPT ![req[q].run] = new]
      BY <1>5 DEF UpdateWaiting
    <2> HIDE DEF new
    <2>5. rows' \in [Request -> Row]
      BY <2>3, <2>4 DEF TInv
    <2>6. \A x \in Request : rows[x].updated \in Nat
      BY DEF TInv, Row
    <2>7. \A x \in Request : rows'[x].updated <= clock'
      BY <2>1, <2>2, <2>3, <2>4, <2>6 DEF TInv
    <2>8. req' \in [Request -> Call] /\ \A p \in Request : CallOf(p)'
      BY <1>5 DEF TInv, Call, CallOf, UpdateWaiting
    <2>9. waits' \in [Request -> Nat]
      BY <1>5, <2>1 DEF UpdateWaiting, TInv
    <2> QED
      BY <1>5, <2>2, <2>5, <2>7, <2>8, <2>9 DEF TInv, UpdateWaiting
  <1>6. ASSUME NEW q \in Request, FinishRun(q) PROVE TInv'
    <2>1. req[q].run \in Request /\ req[q].outcome \in Outcome /\ FinishRow(req[q].run, req[q].outcome)
      BY <1>6 DEF FinishRun, TInv, CallOf
    <2>2. rows' \in [Request -> Row] /\ \A x \in Request : rows'[x].updated <= clock
      BY <2>1, FinishTyped, StorableOutcome
    <2>3. req' \in [Request -> Call] /\ \A p \in Request : CallOf(p)'
      BY <1>6 DEF TInv, Call, CallOf, FinishRun
    <2>4. disturbed' \in BOOLEAN
      BY <1>6 DEF FinishRun, TInv, Storable
    <2> QED
      BY <1>6, <2>2, <2>3, <2>4 DEF TInv, FinishRun
  <1>7. ASSUME NEW q \in Request, Crash(q) PROVE TInv'
    <2>1. req' \in [Request -> Call] /\ \A p \in Request : CallOf(p)'
      BY <1>7 DEF TInv, Call, CallOf, Crash
    <2> QED
      BY <1>7, <2>1 DEF TInv, Crash
  <1>8. ASSUME NEW r \in Request, TimePasses(r) PROVE TInv'
    <2>1. rows' \in [Request -> Row] /\ \A x \in Request : rows'[x].updated <= clock
      BY ZenonT(30), <1>8 DEF TInv, Row, TimePasses
    <2> QED
      BY <1>8, <2>1 DEF TInv, TimePasses, CallOf
  <1>9. ASSUME Scan PROVE TInv'
    BY <1>9, WaitingTyped DEF TInv, Scan, CallOf
  <1>10. ASSUME Expire PROVE TInv'
    <2>1. rows' \in [Request -> Row] /\ \A x \in Request : rows'[x].updated <= clock
      BY <1>10 DEF TInv, Row, Expire, Finished
    <2> QED
      BY <1>10, <2>1 DEF TInv, Expire, CallOf
  <1>11. ASSUME ScanCrash PROVE TInv'
    BY <1>11 DEF TInv, ScanCrash, CallOf
  <1>12. ASSUME UNCHANGED vars PROVE TInv'
    BY <1>12 DEF TInv, vars, CallOf
  <1> QED
    BY <1>1, <1>2, <1>3, <1>4, <1>5, <1>6, <1>7, <1>8, <1>9, <1>10, <1>11, <1>12 DEF Next

\* The types hold in every reachable state.
LEMMA AlwaysTInv == Spec => []TInv
  <1>1. Init => TInv
    BY InitTInv
  <1>2. TInv /\ [Next]_vars => TInv'
    BY NextTInv
  <1> QED
    BY <1>1, <1>2, PTL DEF Spec

\* Rows, calls and counters keep the shapes the code gives them, and no row is
\* newer than the last update_waiting, for any set of messages.
THEOREM TypesCorrect == Spec => []TypeOK
  <1>1. TInv => TypeOK
    <2> SUFFICES ASSUME TInv PROVE TypeOK
      OBVIOUS
    <2>1. rows \in [Request -> [status : Finished \cup {"none", "running", "waiting_human"},
                                updated : 0..clock, attempts : Nat, old : BOOLEAN, edge : BOOLEAN]]
      BY DEF TInv, Row
    <2> QED
      BY <2>1 DEF TInv, TypeOK, Call
  <1> QED
    BY <1>1, AlwaysTInv, PTL

-------------------------------------------------------------------------------
(****************************************************************************)
(* Executions are paid for by replies.                                      *)
(****************************************************************************)
\* Fewer turns to come, and no execution more, leave the account balanced.
LEMMA StillPaid ==
    ASSUME TInv, NEW r \in Request, PaidAt(r), NEW more \in Nat,
           Approving(r)' \subseteq Approving(r), effects'[r] = effects[r], replies'[r] = replies[r] + more
    PROVE  PaidAt(r)'
  <1>1. IsFiniteSet(Approving(r)') /\ Cardinality(Approving(r)') <= Cardinality(Approving(r))
    BY FS_Subset DEF PaidAt
  <1>2. Cardinality(Approving(r)) \in Nat /\ Cardinality(Approving(r)') \in Nat
    BY <1>1, FS_CardinalityType DEF PaidAt
  <1>3. effects[r] \in Nat /\ replies[r] \in Nat
    BY DEF TInv
  <1>4. effects'[r] + Cardinality(Approving(r)') <= replies'[r]
    BY <1>1, <1>2, <1>3 DEF PaidAt
  <1> QED
    BY <1>1, <1>4 DEF PaidAt

\* A call that is not on its way to execute with an approval joins no account.
LEMMA JoinsNone ==
    ASSUME TInv, NEW q \in Request, ~(req'[q].pc = "executing" /\ req'[q].mode = "approve"),
           \A p \in Request \ {q} : req'[p] = req[p]
    PROVE  \A r \in Request : Approving(r)' \subseteq Approving(r)
  BY DEF Approving

LEMMA InitPaid == Init => Paid
  <1> SUFFICES ASSUME Init, NEW r \in Request PROVE PaidAt(r)
    BY DEF Paid
  <1>1. Approving(r) = {}
    BY DEF Init, Unsent, Approving
  <1>2. effects[r] = 0 /\ replies[r] = 0
    BY DEF Init
  <1> QED
    BY <1>1, <1>2, FS_EmptySet DEF PaidAt

\* Every step keeps the accounts: an approving message adds its turn and its
\* reply, the execution takes one turn off and counts once.
LEMMA NextPaid == TInv /\ Paid /\ [Next]_vars => Paid'
  <1> SUFFICES ASSUME TInv, Paid, [Next]_vars, NEW r \in Request PROVE PaidAt(r)'
    BY DEF Paid
  <1> USE DEF history
  <1>a. PaidAt(r) /\ effects[r] \in Nat /\ replies[r] \in Nat /\ req \in [Request -> Call]
    BY DEF Paid, TInv
  <1>b. IsFiniteSet(Approving(r)) /\ Cardinality(Approving(r)) \in Nat
        /\ effects[r] + Cardinality(Approving(r)) <= replies[r]
    BY <1>a, FS_CardinalityType DEF PaidAt
  <1>1. ASSUME NEW q \in Request, NEW mode \in {"approve", "reject", "expired", "fresh"}, Arrive(q, mode)
        PROVE  PaidAt(r)'
    <2> DEFINE s == NewestWaiting
    <2>1. s # NoRun => s \in Request
      BY NewestWaits, WaitingTyped
    <2>2. req[q].pc = "unsent" /\ effects'[r] = effects[r]
      BY <1>1 DEF Arrive
    <2>3. \A p \in Request \ {q} : req'[p] = req[p]
      BY <1>1, <1>a DEF Arrive, Resume
    <2>4. ASSUME s # NoRun, Resume(q, s, mode), mode = "approve" PROVE PaidAt(r)'
      <3> HIDE DEF s
      <3>1. req'[q].pc = "executing" /\ req'[q].mode = "approve" /\ req'[q].run = s
        BY <2>4, <1>a DEF Resume
      <3>2. replies' = [replies EXCEPT ![s] = @ + 1] /\ s \in Request
        BY <2>1, <2>4 DEF Resume
      <3>3. CASE r = s
        <4>1. Approving(r)' = Approving(r) \cup {q} /\ q \notin Approving(r)
          BY <2>2, <2>3, <3>1, <3>3 DEF Approving
        <4>2. IsFiniteSet(Approving(r)') /\ Cardinality(Approving(r)') = Cardinality(Approving(r)) + 1
          BY <4>1, <1>b, FS_AddElement
        <4>3. replies'[r] = replies[r] + 1
          BY <3>2, <3>3 DEF TInv
        <4>4. effects'[r] + Cardinality(Approving(r)') <= replies'[r]
          BY <1>a, <1>b, <2>2, <4>2, <4>3
        <4> QED
          BY <4>2, <4>4 DEF PaidAt
      <3>4. CASE r # s
        <4>1. Approving(r)' \subseteq Approving(r)
          BY <2>3, <3>1, <3>4 DEF Approving
        <4>2. replies'[r] = replies[r] + 0
          BY <1>a, <3>2, <3>4 DEF TInv
        <4> QED
          BY <1>a, <2>2, <4>1, <4>2, StillPaid
      <3> QED
        BY <3>3, <3>4
    <2>5. ASSUME s # NoRun, Resume(q, s, mode), mode # "approve" PROVE PaidAt(r)'
      <3> HIDE DEF s
      <3>1. req'[q].mode # "approve" /\ replies'[r] = replies[r] + 0
        BY <2>5, <1>a DEF Resume
      <3>2. Approving(r)' \subseteq Approving(r)
        BY <2>3, <3>1, JoinsNone
      <3> QED
        BY <1>a, <2>2, <3>1, <3>2, StillPaid
    <2>6. ASSUME NEW pc \in {"expiring", "creating"}, req'[q].pc = pc, UNCHANGED replies PROVE PaidAt(r)'
      <3>1. Approving(r)' \subseteq Approving(r)
        BY <2>3, <2>6, JoinsNone
      <3>2. replies'[r] = replies[r] + 0
        BY <1>a, <2>6
      <3> QED
        BY <1>a, <2>2, <3>1, <3>2, StillPaid
    <2>7. \/ s # NoRun /\ Resume(q, s, mode)
          \/ req'[q].pc = "expiring" /\ UNCHANGED replies
          \/ req'[q].pc = "creating" /\ UNCHANGED replies
      BY <1>1, <1>a DEF Arrive, Call
    <2> QED
      BY <2>4, <2>5, <2>6, <2>7
  <1>2. ASSUME NEW q \in Request, NEW outcome \in Outcome, Execute(q, outcome) PROVE PaidAt(r)'
    <2>1. req[q].pc = "executing" /\ req[q].run \in Request /\ UNCHANGED replies
      BY <1>2 DEF Execute, TInv, CallOf
    <2>2. req'[q].pc = "saving" /\ \A p \in Request \ {q} : req'[p] = req[p]
      BY <1>2, <1>a DEF Execute, Call
    <2>3. CASE req[q].mode = "approve" /\ req[q].run = r
      <3>1. Approving(r)' = Approving(r) \ {q} /\ q \in Approving(r)
        BY <2>1, <2>2, <2>3 DEF Approving
      <3>2. IsFiniteSet(Approving(r)') /\ Cardinality(Approving(r)') = Cardinality(Approving(r)) - 1
        BY <3>1, <1>b, FS_RemoveElement
      <3>3. effects'[r] = effects[r] + 1
        BY <1>2, <2>3 DEF Execute, TInv
      <3>4. effects'[r] + Cardinality(Approving(r)') <= replies'[r]
        BY <1>a, <1>b, <2>1, <3>2, <3>3
      <3> QED
        BY <3>2, <3>4 DEF PaidAt
    <2>4. CASE ~(req[q].mode = "approve" /\ req[q].run = r)
      <3>1. Approving(r)' \subseteq Approving(r)
        BY <2>2, JoinsNone
      <3>2. effects'[r] = effects[r]
        BY <1>2, <2>1, <2>4 DEF Execute, TInv
      <3>3. replies'[r] = replies[r] + 0
        BY <1>a, <2>1
      <3> QED
        BY <1>a, <3>1, <3>2, <3>3, StillPaid
    <2> QED
      BY <2>3, <2>4
  <1>3. ASSUME NEW q \in Request, \A p \in Request \ {q} : req'[p] = req[p], UNCHANGED <<effects, replies>>,
               ~(req'[q].pc = "executing" /\ req'[q].mode = "approve")
        PROVE  PaidAt(r)'
    <2>1. Approving(r)' \subseteq Approving(r)
      BY <1>3, JoinsNone
    <2>2. effects'[r] = effects[r] /\ replies'[r] = replies[r] + 0
      BY <1>3, <1>a
    <2> QED
      BY <1>a, <2>1, <2>2, StillPaid
  <1>4. ASSUME NEW q \in Request, LazyTimeOut(q) PROVE PaidAt(r)'
    BY <1>3, <1>4, <1>a DEF LazyTimeOut, Call
  <1>5. ASSUME NEW q \in Request, CreateRun(q) PROVE PaidAt(r)'
    <2>1. req[q].mode = "fresh"
      BY <1>5 DEF CreateRun, TInv, CallOf
    <2>2. req'[q].mode = "fresh" /\ \A p \in Request \ {q} : req'[p] = req[p]
      BY <1>5, <1>a, <2>1 DEF CreateRun, Call
    <2> QED
      BY <1>3, <1>5, <2>2 DEF CreateRun
  <1>6. ASSUME NEW q \in Request, NEW edge \in BOOLEAN, UpdateWaiting(q, edge) PROVE PaidAt(r)'
    BY <1>3, <1>6, <1>a DEF UpdateWaiting, Call
  <1>7. ASSUME NEW q \in Request, FinishRun(q) PROVE PaidAt(r)'
    <2>1. req'[q].pc \in {"done", "crashed"} /\ \A p \in Request \ {q} : req'[p] = req[p]
      BY <1>7, <1>a DEF FinishRun, Call
    <2> QED
      BY <1>3, <1>7, <2>1 DEF FinishRun
  <1>8. ASSUME NEW q \in Request, Crash(q) PROVE PaidAt(r)'
    BY <1>3, <1>8, <1>a DEF Crash, Call
  <1>9. ASSUME UNCHANGED <<req, effects, replies>> PROVE PaidAt(r)'
    BY <1>9, <1>a DEF PaidAt, Approving
  <1>10. ASSUME NEW x \in Request, TimePasses(x) PROVE PaidAt(r)'
    BY <1>9, <1>10 DEF TimePasses
  <1>11. ASSUME Scan \/ Expire \/ ScanCrash \/ UNCHANGED vars PROVE PaidAt(r)'
    BY <1>9, <1>11 DEF Scan, Expire, ScanCrash, vars
  <1> QED
    BY <1>1, <1>2, <1>4, <1>5, <1>6, <1>7, <1>8, <1>10, <1>11 DEF Next

\* However messages overlap, runs expire and turns are cut off, a suspended
\* command of a run is executed at most as often as its run was approved.
THEOREM RepliesCorrect == Spec => []RepliesPay
  <1>1. Init => Paid
    BY InitPaid
  <1>2. TInv /\ Paid /\ [Next]_vars => Paid'
    BY NextPaid
  <1>3. TInv /\ Paid => RepliesPay
    <2> SUFFICES ASSUME TInv, Paid, NEW r \in Request PROVE effects[r] <= replies[r]
      BY DEF RepliesPay
    <2>1. PaidAt(r) /\ effects[r] \in Nat /\ replies[r] \in Nat
      BY DEF Paid, TInv
    <2>2. Cardinality(Approving(r)) \in Nat
      BY <2>1, FS_CardinalityType DEF PaidAt
    <2> QED
      BY <2>1, <2>2 DEF PaidAt
  <1> QED
    BY <1>1, <1>2, <1>3, AlwaysTInv, PTL DEF Spec

-------------------------------------------------------------------------------
(****************************************************************************)
(* One message at a time.                                                   *)
(****************************************************************************)
SerialNow == Alone /\ (\A q \in Request : Holds(q)) /\ (\A r \in Request : Owes(r))

\* What overlapped once has overlapped for good.
LEMMA DisturbedStays ==
    ASSUME TInv, [Next]_vars, ~disturbed'
    PROVE  ~disturbed
  BY DEF TInv, Next, vars, history, Arrive, LazyTimeOut, CreateRun, Execute, UpdateWaiting, FinishRun, Crash,
         TimePasses, Scan, Expire, ScanCrash

\* A run that has not been created has no row that a turn or the scan can hold.
LEMMA UnsentHoldsNothing ==
    ASSUME TInv, SerialNow, NEW p \in Request, req[p].pc \in {"unsent", "expiring", "creating"}
    PROVE  /\ p \notin Waiting /\ p \notin scanned
           /\ \A q \in Request : req[q].pc \in {"expiring", "executing", "saving"} => req[q].run # p
  <1>1. rows[p].status = "none"
    BY DEF SerialNow, Holds
  <1>2. p \notin Waiting /\ p \notin scanned
    BY <1>1 DEF Waiting, SerialNow, Alone
  <1>3. ASSUME NEW q \in Request, req[q].pc \in {"expiring", "executing", "saving"} PROVE req[q].run # p
    BY <1>1, <1>3 DEF SerialNow, Holds
  <1> QED
    BY <1>2, <1>3

\* A message that arrives alone finds the run that waits, if one does.
LEMMA ArriveSerial ==
    ASSUME TInv, SerialNow, NEW q \in Request, NEW mode \in {"approve", "reject", "expired", "fresh"},
           Arrive(q, mode), ~disturbed'
    PROVE  SerialNow'
  <1> DEFINE s == NewestWaiting
  <1>1. InFlight = {} /\ scanned = {} /\ req[q].pc = "unsent"
    BY DEF Arrive, TInv
  <1>2. UNCHANGED <<rows, scanned, clock, effects, waits>>
    BY DEF Arrive
  <1>3. s # NoRun => s \in Waiting /\ s \in Request
    BY NewestWaits, WaitingTyped
  <1>4. s = NoRun => Waiting = {}
    BY NewestWaits
  <1>5. Waiting' = Waiting /\ \A x, y \in Waiting : x = y
    BY <1>2 DEF Waiting, SerialNow, Alone
  <1> HIDE DEF s
  <1>6. \A p \in Request \ {q} : req'[p] = req[p]
    BY DEF Arrive, Resume, TInv
  <1>7. \/ /\ s # NoRun
           /\ req'[q] = [pc |-> "executing", run |-> s, mode |-> mode, attempts |-> rows[s].attempts, outcome |-> "none"]
        \/ /\ s # NoRun
           /\ req'[q].pc = "expiring" /\ req'[q].run = s /\ req'[q].mode = req[q].mode
           /\ req'[q].attempts = req[q].attempts
        \/ /\ s = NoRun
           /\ req'[q].pc = "creating" /\ req'[q].mode = req[q].mode /\ req'[q].attempts = req[q].attempts
    BY DEF Arrive, Resume, TInv, Call, s
  <1>8. \A p \in Request : p # q => req[p].pc \notin {"expiring", "creating", "executing", "saving"}
    BY <1>1 DEF InFlight
  <1>9. Alone'
    BY <1>1, <1>2, <1>5, <1>6, <1>8 DEF Alone, InFlight
  <1>10. ASSUME NEW p \in Request PROVE Holds(p)'
    <2>1. Holds(p)
      BY DEF SerialNow
    <2>2. CASE p # q
      BY <1>2, <1>5, <1>6, <1>8, <2>1, <2>2 DEF Holds
    <2>3. CASE p = q
      <3>1. rows[q].status = "none" /\ waits[q] = 0 /\ effects[q] = 0 /\ rows[q].attempts = 0 /\ req[q].attempts = 0
        BY <1>1, <2>1, <2>3 DEF Holds
      <3>2. s # NoRun => /\ Waiting \subseteq {s} /\ rows[s].status = "waiting_human"
                         /\ rows[s].attempts = waits[s] /\ effects[s] < waits[s]
        <4>1. s # NoRun => Owes(s)
          BY <1>3 DEF SerialNow
        <4>2. \A x \in Request : req[x].pc # "saving"
          BY <1>1 DEF InFlight
        <4> QED
          BY <1>3, <1>5, <4>1, <4>2 DEF Owes, Waiting
      <3> QED
        BY <1>2, <1>4, <1>5, <1>7, <2>3, <3>1, <3>2 DEF Holds
    <2> QED
      BY <2>2, <2>3
  <1>11. ASSUME NEW r \in Request PROVE Owes(r)'
    <2>1. \A x \in Request : req[x].pc # "saving"
      BY <1>1 DEF InFlight
    <2>2. Owes(r)
      BY DEF SerialNow
    <2> QED
      BY <1>2, <1>5, <2>1, <2>2 DEF Owes
  <1> QED
    BY <1>9, <1>10, <1>11 DEF SerialNow

\* A status other than waiting_human that a turn gives to the run it holds
\* leaves no run waiting.
LEMMA FinishSerial ==
    ASSUME TInv, SerialNow, NEW q \in Request, req[q].pc \in {"expiring", "saving"},
           NEW status, status # "waiting_human", FinishRow(req[q].run, status), Storable(status),
           NEW pc \in {"creating", "done"}, req'[q].pc = pc, pc = "creating" => req[q].pc = "expiring",
           req'[q].attempts = req[q].attempts, \A p \in Request \ {q} : req'[p] = req[p],
           UNCHANGED <<scanned, effects, waits>>
    PROVE  SerialNow'
  <1> DEFINE r == req[q].run
  <1>1. r \in Request /\ q \in InFlight /\ Waiting \subseteq {r}
    BY DEF SerialNow, Holds, TInv, CallOf, InFlight
  <1>2. rows' = [rows EXCEPT ![r].status = status]
    BY DEF FinishRow
  <1> HIDE DEF r
  <1>3. \A x \in Request \ {r} : rows'[x] = rows[x]
    BY <1>1, <1>2 DEF TInv
  <1>4. rows'[r].status = status
    BY <1>1, <1>2 DEF TInv, Row
  <1>5. Waiting' = {}
    BY <1>1, <1>3, <1>4 DEF Waiting
  <1>6. scanned = {} /\ \A p \in Request \ {q} : req[p].pc \notin {"expiring", "creating", "executing", "saving"}
    BY <1>1 DEF SerialNow, Alone, InFlight
  <1>7. Alone'
    BY <1>5, <1>6 DEF Alone, InFlight
  <1>8. ASSUME NEW p \in Request PROVE Holds(p)'
    <2>1. Holds(p)
      BY DEF SerialNow
    <2>2. CASE req'[p].pc \in {"unsent", "creating"}
      <3>1. req[p].pc \in {"unsent", "expiring", "creating"} /\ req'[p].attempts = req[p].attempts
        BY <1>6, <2>2
      <3>2. p # r
        BY <3>1, UnsentHoldsNothing DEF r
      <3> QED
        BY <1>3, <1>5, <1>6, <2>1, <2>2, <3>1, <3>2 DEF Holds
    <2>3. CASE req'[p].pc \notin {"unsent", "creating"}
      <3>1. req'[p].pc \notin {"expiring", "executing", "saving"}
        BY <1>6, <2>3
      <3> QED
        BY <2>3, <3>1 DEF Holds
    <2> QED
      BY <2>2, <2>3
  <1>9. ASSUME NEW x \in Request PROVE Owes(x)'
    BY <1>5 DEF SerialNow, Owes
  <1> QED
    BY <1>7, <1>8, <1>9 DEF SerialNow

\* The suspension that a turn stores is the only one.
LEMMA UpdateSerial ==
    ASSUME TInv, SerialNow, NEW q \in Request, NEW edge \in BOOLEAN, UpdateWaiting(q, edge)
    PROVE  SerialNow'
  <1> DEFINE r == req[q].run
  <1> DEFINE new == [status |-> "waiting_human", updated |-> clock + 1,
                     attempts |-> req[q].attempts + 1, old |-> FALSE, edge |-> edge]
  <1>1. r \in Request /\ q \in InFlight /\ Waiting \subseteq {r} /\ req[q].attempts = waits[r]
    BY DEF SerialNow, Holds, TInv, CallOf, InFlight, UpdateWaiting
  <1>2. rows' = [rows EXCEPT ![r] = new] /\ waits' = [waits EXCEPT ![r] = @ + 1] /\ UNCHANGED <<scanned, effects>>
    BY DEF UpdateWaiting
  <1>3. new.status = "waiting_human" /\ new.attempts = req[q].attempts + 1
    OBVIOUS
  <1>4. req'[q].pc = "done" /\ \A p \in Request \ {q} : req'[p] = req[p]
    BY DEF UpdateWaiting, TInv, Call
  <1> HIDE DEF r, new
  <1>5. rows'[r] = new /\ \A x \in Request \ {r} : rows'[x] = rows[x]
    BY <1>1, <1>2 DEF TInv
  <1>6. waits'[r] = waits[r] + 1 /\ \A x \in Request \ {r} : waits'[x] = waits[x]
    BY <1>1, <1>2 DEF TInv
  <1>7. Waiting' = {r}
    BY <1>1, <1>3, <1>5 DEF Waiting
  <1>8. scanned = {} /\ \A p \in Request \ {q} : req[p].pc \notin {"expiring", "creating", "executing", "saving"}
    BY <1>1 DEF SerialNow, Alone, InFlight
  <1>9. Alone'
    BY <1>2, <1>4, <1>7, <1>8 DEF Alone, InFlight
  <1>10. ASSUME NEW p \in Request PROVE Holds(p)'
    <2>1. CASE req'[p].pc = "unsent"
      <3>1. p # q /\ req'[p] = req[p]
        BY <1>4, <2>1
      <3>2. p # r
        BY <2>1, <3>1, UnsentHoldsNothing, UpdateWaiting(q, edge) DEF r, UpdateWaiting
      <3> QED
        BY <1>2, <1>5, <1>6, <2>1, <3>1, <3>2 DEF Holds, SerialNow
    <2>2. CASE req'[p].pc # "unsent"
      <3>1. req'[p].pc \notin {"expiring", "creating", "executing", "saving"}
        BY <1>4, <1>8
      <3> QED
        BY <2>2, <3>1 DEF Holds
    <2> QED
      BY <2>1, <2>2
  <1>11. ASSUME NEW x \in Request PROVE Owes(x)'
    <2>1. Owes(x) /\ effects[x] \in Nat /\ waits[x] \in Nat /\ effects'[x] = effects[x]
      BY <1>2 DEF SerialNow, TInv
    <2>2. CASE x = r
      BY <1>1, <1>3, <1>5, <1>6, <2>1, <2>2 DEF Owes
    <2>3. CASE x # r
      BY <1>6, <1>7, <2>1, <2>3 DEF Owes
    <2> QED
      BY <2>2, <2>3
  <1> QED
    BY <1>9, <1>10, <1>11 DEF SerialNow

\* A new run begins with nothing: no suspension, no execution, no attempt.
LEMMA CreateSerial ==
    ASSUME TInv, SerialNow, NEW q \in Request, CreateRun(q)
    PROVE  SerialNow'
  <1>1. req[q].pc = "creating" /\ q \in InFlight /\ Waiting = {} /\ req[q].mode = "fresh"
    BY DEF CreateRun, InFlight, SerialNow, Holds, TInv, CallOf
  <1>2. rows' = [rows EXCEPT ![q].status = "running"] /\ UNCHANGED <<scanned, effects, waits>>
    BY DEF CreateRun, history
  <1>3. rows'[q].status = "running" /\ rows'[q].attempts = rows[q].attempts /\ \A x \in Request \ {q} : rows'[x] = rows[x]
    BY <1>2 DEF TInv, Row
  <1>4. req'[q].pc = "executing" /\ req'[q].run = q /\ req'[q].mode = "fresh" /\ req'[q].attempts = req[q].attempts
        /\ \A p \in Request \ {q} : req'[p] = req[p]
    BY <1>1 DEF CreateRun, TInv, Call
  <1>5. Waiting' = {}
    BY <1>1, <1>3 DEF Waiting
  <1>6. scanned = {} /\ \A p \in Request \ {q} : req[p].pc \notin {"expiring", "creating", "executing", "saving"}
    BY <1>1 DEF SerialNow, Alone, InFlight
  <1>7. Alone'
    BY <1>2, <1>4, <1>5, <1>6 DEF Alone, InFlight
  <1>8. ASSUME NEW p \in Request PROVE Holds(p)'
    <2>1. Holds(p)
      BY DEF SerialNow
    <2>2. CASE p = q
      BY <1>1, <1>2, <1>3, <1>4, <1>5, <2>1, <2>2 DEF Holds
    <2>3. CASE p # q
      BY <1>2, <1>3, <1>4, <1>5, <1>6, <2>1, <2>3 DEF Holds
    <2> QED
      BY <2>2, <2>3
  <1>9. ASSUME NEW x \in Request PROVE Owes(x)'
    BY <1>2, <1>5 DEF SerialNow, Owes
  <1> QED
    BY <1>7, <1>8, <1>9 DEF SerialNow

\* The turn of an approving message uses up the one suspension that was open.
LEMMA ExecuteSerial ==
    ASSUME TInv, SerialNow, NEW q \in Request, NEW outcome \in Outcome, Execute(q, outcome)
    PROVE  SerialNow'
  <1> DEFINE r == req[q].run
  <1>1. r \in Request /\ q \in InFlight /\ Waiting \subseteq {r} /\ req[q].pc = "executing"
        /\ rows[r].status \in {"running", "waiting_human"} /\ req[q].attempts = waits[r]
        /\ (req[q].mode = "approve" => effects[r] < waits[r])
    BY DEF SerialNow, Holds, TInv, CallOf, InFlight, Execute
  <1>2. UNCHANGED <<rows, scanned, waits>>
    BY DEF Execute
  <1>3. req'[q].pc = "saving" /\ req'[q].run = r /\ req'[q].attempts = req[q].attempts
        /\ \A p \in Request \ {q} : req'[p] = req[p]
    BY DEF Execute, TInv, Call
  <1>4. effects' = IF req[q].mode = "approve" THEN [effects EXCEPT ![r] = @ + 1] ELSE effects
    BY DEF Execute
  <1> HIDE DEF r
  <1>5. effects'[r] <= waits[r] /\ \A x \in Request \ {r} : effects'[x] = effects[x]
    <2>1. effects[r] \in Nat /\ waits[r] \in Nat /\ effects[r] <= waits[r]
      BY <1>1 DEF TInv, SerialNow, Owes
    <2> QED
      BY <1>1, <1>4, <2>1 DEF TInv
  <1>6. scanned = {} /\ \A p \in Request \ {q} : req[p].pc \notin {"expiring", "creating", "executing", "saving"}
    BY <1>1 DEF SerialNow, Alone, InFlight
  <1>7. Waiting' = Waiting
    BY <1>2 DEF Waiting
  <1>8. Alone'
    BY <1>2, <1>3, <1>6, <1>7 DEF Alone, InFlight, SerialNow
  <1>9. ASSUME NEW p \in Request PROVE Holds(p)'
    <2>1. Holds(p)
      BY DEF SerialNow
    <2>2. CASE p = q
      BY <1>1, <1>2, <1>3, <1>7, <2>1, <2>2 DEF Holds
    <2>3. CASE p # q
      <3>1. req'[p].pc = "unsent" => p # r
        BY <1>1, <1>3, <2>3, UnsentHoldsNothing DEF r
      <3> QED
        BY <1>2, <1>3, <1>5, <1>6, <1>7, <2>1, <2>3, <3>1 DEF Holds
    <2> QED
      BY <2>2, <2>3
  <1>10. ASSUME NEW x \in Request PROVE Owes(x)'
    <2>1. Owes(x)
      BY DEF SerialNow
    <2>2. CASE x = r
      BY <1>2, <1>3, <1>5, <1>7, <2>1, <2>2 DEF Owes
    <2>3. CASE x # r
      BY <1>1, <1>2, <1>5, <1>7, <2>1, <2>3 DEF Owes
    <2> QED
      BY <2>2, <2>3
  <1> QED
    BY <1>8, <1>9, <1>10 DEF SerialNow

\* The scan's update ends runs that wait, while no message is under way.
LEMMA ExpireSerial ==
    ASSUME TInv, SerialNow, Expire
    PROVE  SerialNow'
  <1>1. InFlight = {} /\ scanned' = {} /\ UNCHANGED <<req, effects, waits>>
    BY DEF Expire, SerialNow, Alone, history
  <1>2. \A x \in Request : /\ x \in scanned => rows'[x].status = "timeout"
                           /\ x \notin scanned => rows'[x] = rows[x]
    BY DEF Expire, TInv, Row
  <1>3. Waiting' \subseteq Waiting /\ \A x \in Waiting' : rows'[x] = rows[x]
    BY <1>2 DEF Waiting
  <1>4. Alone'
    <2>1. InFlight' = {}
      BY <1>1 DEF InFlight
    <2> QED
      BY <1>1, <1>3, <2>1 DEF SerialNow, Alone
  <1>5. ASSUME NEW p \in Request PROVE Holds(p)'
    <2>1. req[p].pc \notin {"expiring", "creating", "executing", "saving"} /\ Holds(p)
      BY <1>1 DEF InFlight, SerialNow
    <2>2. req[p].pc = "unsent" => p \notin scanned
      BY UnsentHoldsNothing
    <2> QED
      BY <1>1, <1>2, <2>1, <2>2 DEF Holds
  <1>6. ASSUME NEW x \in Request PROVE Owes(x)'
    BY <1>1, <1>3 DEF SerialNow, Owes
  <1> QED
    BY <1>4, <1>5, <1>6 DEF SerialNow

LEMMA InitSerial == Init => Serial
  <1> SUFFICES ASSUME Init PROVE SerialNow
    BY DEF Serial, SerialNow
  <1>1. \A r \in Request : rows[r] = NoRow /\ req[r] = Unsent /\ waits[r] = 0 /\ effects[r] = 0
    BY DEF Init
  <1>2. Waiting = {} /\ InFlight = {} /\ scanned = {}
    BY <1>1 DEF Init, Waiting, InFlight, NoRow, Unsent
  <1> QED
    BY <1>1, <1>2 DEF SerialNow, Alone, Holds, Owes, NoRow, Unsent

\* Every step that leaves a conversation undisturbed keeps the argument.
LEMMA NextSerial == TInv /\ Serial /\ [Next]_vars => Serial'
  <1> SUFFICES ASSUME TInv, Serial, [Next]_vars, ~disturbed' PROVE SerialNow'
    BY DEF Serial, SerialNow
  <1> USE DEF history
  <1>a. SerialNow
    BY DisturbedStays DEF Serial, SerialNow
  <1>1. ASSUME NEW q \in Request, LazyTimeOut(q) PROVE SerialNow'
    <2>1. req[q].pc = "expiring" /\ FinishRow(req[q].run, "timeout") /\ Storable("timeout")
      BY <1>1 DEF LazyTimeOut, Storable
    <2>2. req'[q].pc = "creating" /\ req'[q].attempts = req[q].attempts /\ \A p \in Request \ {q} : req'[p] = req[p]
      BY <1>1 DEF LazyTimeOut, TInv, Call
    <2>3. UNCHANGED <<scanned, effects, waits>>
      BY <1>1 DEF LazyTimeOut
    <2> QED
      BY <1>a, <2>1, <2>2, <2>3, FinishSerial
  <1>2. ASSUME NEW q \in Request, FinishRun(q) PROVE SerialNow'
    <2>1. Storable(req[q].outcome)
      BY <1>2 DEF FinishRun, TInv, Storable
    <2>2. req[q].pc = "saving" /\ FinishRow(req[q].run, req[q].outcome) /\ req[q].outcome # "waiting_human"
      BY <1>2 DEF FinishRun
    <2>3. req'[q].pc = "done" /\ req'[q].attempts = req[q].attempts /\ \A p \in Request \ {q} : req'[p] = req[p]
      BY <1>2, <2>1 DEF FinishRun, TInv, Call
    <2>4. UNCHANGED <<scanned, effects, waits>>
      BY <1>2 DEF FinishRun
    <2> QED
      BY <1>a, <2>1, <2>2, <2>3, <2>4, FinishSerial
  <1>3. ASSUME NEW q \in Request, Crash(q) PROVE SerialNow'
    BY <1>3 DEF Crash
  <1>4. ASSUME NEW r \in Request, TimePasses(r) PROVE SerialNow'
    <2>1. \A x \in Request : rows'[x].status = rows[x].status /\ rows'[x].attempts = rows[x].attempts
      BY <1>4 DEF TimePasses, TInv, Row
    <2>2. UNCHANGED <<req, scanned, effects, waits>> /\ \A x \in Request : req[x].run \in Request \cup {NoRun}
      BY <1>4 DEF TimePasses, TInv, Call
    <2>3. Waiting' = Waiting /\ InFlight' = InFlight
      BY <2>1, <2>2 DEF Waiting, InFlight
    <2>4. Alone'
      BY <1>a, <2>2, <2>3 DEF SerialNow, Alone
    <2>5. ASSUME NEW p \in Request PROVE Holds(p)'
      <3>1. Holds(p) /\ CallOf(p)
        BY <1>a DEF SerialNow, TInv
      <3> QED
        BY <2>1, <2>2, <2>3, <3>1 DEF Holds, CallOf
    <2>6. ASSUME NEW x \in Request PROVE Owes(x)'
      BY <1>a, <2>1, <2>2, <2>3 DEF SerialNow, Owes
    <2> QED
      BY <2>4, <2>5, <2>6 DEF SerialNow
  <1>5. ASSUME UNCHANGED <<rows, req, effects, waits>>, scanned' \subseteq Waiting, scanned' # {} => InFlight = {}
        PROVE  SerialNow'
    <2>1. Waiting' = Waiting /\ InFlight' = InFlight
      BY <1>5 DEF Waiting, InFlight
    <2> QED
      BY <1>a, <1>5, <2>1 DEF SerialNow, Alone, Holds, Owes
  <1>6. ASSUME Scan \/ ScanCrash \/ UNCHANGED vars PROVE SerialNow'
    <2>1. CASE Scan
      BY <1>5, <2>1 DEF Scan, TInv
    <2>2. CASE ScanCrash
      BY <1>5, <2>2 DEF ScanCrash
    <2>3. CASE UNCHANGED vars
      BY <1>5, <1>a, <2>3 DEF vars, SerialNow, Alone
    <2> QED
      BY <1>6, <2>1, <2>2, <2>3
  <1> QED
    BY <1>a, <1>1, <1>2, <1>3, <1>4, <1>6, ArriveSerial, CreateSerial, ExecuteSerial, UpdateSerial, ExpireSerial DEF Next

\* The argument holds in every reachable state.
LEMMA AlwaysSerial == Spec => []Serial
  <1>1. Init => Serial
    BY InitSerial
  <1>2. TInv /\ Serial /\ [Next]_vars => Serial'
    BY NextSerial
  <1> QED
    BY <1>1, <1>2, AlwaysTInv, PTL DEF Spec

\* While messages do not overlap and no turn is cut off, a suspension is
\* answered at most once, at most one run of the conversation waits for a human
\* and its attempts count its suspensions.
THEOREM SerialCorrect == Spec => []SerialConversation
  <1>1. TInv /\ Serial => SerialConversation
    <2> SUFFICES ASSUME TInv, Serial, ~disturbed
                 PROVE  OncePerSuspension /\ Cardinality(Waiting) <= 1 /\ \A r \in Waiting : rows[r].attempts = waits[r]
      BY DEF SerialConversation
    <2>1. OncePerSuspension /\ \A r \in Waiting : rows[r].attempts = waits[r]
      BY WaitingTyped DEF Serial, Owes, OncePerSuspension
    <2>2. Cardinality(Waiting) <= 1
      <3>1. CASE Waiting = {}
        BY <3>1, FS_EmptySet
      <3>2. CASE Waiting # {}
        <4>1. PICK r \in Waiting : Waiting = {r}
          BY <3>2 DEF Serial, Alone
        <4>2. Cardinality({r}) = 1
          BY FS_Singleton
        <4> QED
          BY <4>1, <4>2
      <3> QED
        BY <3>1, <3>2
    <2> QED
      BY <2>1, <2>2
  <1> QED
    BY <1>1, AlwaysTInv, AlwaysSerial, PTL

\* A run that is over stays as it ended: the scan, and every later message of an
\* undisturbed conversation, writes only rows that are running or waiting.
THEOREM FinishedFinal == Spec => FinishedIsFinal
  <1>1. TInv /\ Serial /\ [Next]_vars =>
            [~disturbed' => \A r \in Request : rows[r].status \in Finished => rows'[r].status = rows[r].status]_vars
    <2> SUFFICES ASSUME TInv, Serial, [Next]_vars, ~disturbed', NEW r \in Request, rows[r].status \in Finished
                 PROVE  rows'[r].status = rows[r].status
      OBVIOUS
    <2>a. SerialNow
      BY DisturbedStays DEF Serial, SerialNow
    <2>b. rows[r].status \notin {"none", "running", "waiting_human"} /\ r \notin Waiting
      BY DEF Finished, Waiting
    <2>1. ASSUME NEW q \in Request, req[q].pc \in {"expiring", "executing", "saving"} PROVE req[q].run # r
      BY <2>a, <2>b, <2>1 DEF SerialNow, Holds
    <2>2. ASSUME NEW q \in Request, NEW status, req[q].pc \in {"expiring", "saving"}, FinishRow(req[q].run, status)
          PROVE  rows'[r].status = rows[r].status
      BY <2>1, <2>2 DEF FinishRow, TInv
    <2>3. ASSUME NEW q \in Request, CreateRun(q) PROVE rows'[r].status = rows[r].status
      <3>1. q # r
        BY <2>a, <2>b, <2>3 DEF CreateRun, SerialNow, Holds
      <3> QED
        BY <2>3, <3>1 DEF CreateRun, TInv
    <2>4. ASSUME NEW q \in Request, NEW edge \in BOOLEAN, UpdateWaiting(q, edge) PROVE rows'[r].status = rows[r].status
      BY <2>1, <2>4 DEF UpdateWaiting, TInv
    <2>5. ASSUME NEW x \in Request, TimePasses(x) PROVE rows'[r].status = rows[r].status
      BY <2>5 DEF TimePasses, TInv, Row
    <2>6. ASSUME Expire PROVE rows'[r].status = rows[r].status
      BY <2>a, <2>b, <2>6 DEF Expire, SerialNow, Alone
    <2>7. ASSUME NEW q \in Request,
                 \/ \E mode \in {"approve", "reject", "expired", "fresh"} : Arrive(q, mode)
                 \/ \E outcome \in Outcome : Execute(q, outcome)
                 \/ Crash(q)
          PROVE  rows'[r].status = rows[r].status
      BY <2>7 DEF Arrive, Execute, Crash
    <2>8. ASSUME NEW q \in Request, LazyTimeOut(q) \/ FinishRun(q) PROVE rows'[r].status = rows[r].status
      BY <2>2, <2>8 DEF LazyTimeOut, FinishRun
    <2>9. ASSUME Scan \/ ScanCrash \/ UNCHANGED vars PROVE rows'[r].status = rows[r].status
      BY <2>9 DEF Scan, ScanCrash, vars
    <2> QED
      BY <2>3, <2>4, <2>5, <2>6, <2>7, <2>8, <2>9 DEF Next
  <1> QED
    BY <1>1, AlwaysTInv, AlwaysSerial, PTL DEF Spec, FinishedIsFinal

===============================================================================
