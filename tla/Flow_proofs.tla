---------------------------- MODULE Flow_proofs ----------------------------
(****************************************************************************)
(* Proofs about the Chatflow modules.                                       *)
(*                                                                          *)
(* FlowExec, for every set of nodes, every set of compiled plans and any    *)
(* number of turns: its type invariant, the promise of the approval gate    *)
(* and the life cycle its row shows.                                        *)
(*                                                                          *)
(* FlowCompile, for every declared graph: Kahn's algorithm finds an order   *)
(* exactly when there is no cycle, and the order, the gates and the paths   *)
(* of every plan are those of the reference definitions.                    *)
(****************************************************************************)
EXTENDS FlowPaths, FlowCompile, NumberFacts, FiniteSetTheorems, TLAPS

\* The position of the turn and the node it waits at are what they are used as.
PositionOK ==
    /\ flow \in Flows
    /\ pos \in Nat \ {0}
    /\ status = "waiting_human" => pos <= Len(flow.sequence)

TInv == TypeOK /\ PositionOK

\* A turn that was approved and has not come to the suspended node yet.
Unspent(n) ==
    /\ status = "running" /\ mode = "approve"
    /\ awaited = n
    /\ \A i \in 1..(pos - 1) : flow.sequence[i] # n

\* CommandsApproved alone is not inductive: between the reply and the command
\* the turn holds one grant that has not been used, with all its tries.
GrantsCover ==
    \A n \in Gated :
        /\ calls[n] <= MostTries * grants[n]
        /\ Unspent(n) => calls[n] + MostTries <= MostTries * grants[n]

IInv == TInv /\ GrantsCover

-------------------------------------------------------------------------------
\* What the assumption says of the flow at hand.
LEMMA FlowFacts ==
    ASSUME flow \in Flows
    PROVE  /\ flow.sequence \in Seq(Node)
           /\ \A i, j \in 1..Len(flow.sequence) : flow.sequence[i] = flow.sequence[j] => i = j
           /\ Gated \subseteq Node
  BY FlowExecAssumption DEF FlowExecAssumption, FlowsAssumption, Gated

\* The item at hand is a node.
LEMMA ItemIsNode ==
    ASSUME TInv, pos <= Len(flow.sequence)
    PROVE  Item \in Node
  <1>1. pos \in 1..Len(flow.sequence)
    BY FlowFacts DEF TInv, PositionOK
  <1> QED
    BY <1>1, FlowFacts DEF TInv, PositionOK, Item

\* A run begins well typed.
LEMMA InitTInv == Init => TInv
  <1> SUFFICES ASSUME Init
               PROVE  TInv
    OBVIOUS
  <1>1. EmptyPool \in [Node -> Results] /\ NothingChosen \in [Node -> Sides \cup {Undecided}]
    BY DEF EmptyPool, Results, NothingChosen
  <1>2. row \in [status : Storable \cup {"none"}, pending : Node \cup {NoNode}, saved : [Node -> Results]]
    BY <1>1 DEF Init
  <1>3. mark \in [effects : Nat, undone : Nat] /\ turns \in 0..MaxTurns
    BY FlowExecAssumption DEF FlowExecAssumption, Init
  <1>4. /\ calls \in [Node -> Nat] /\ grants \in [Node -> Nat]
        /\ decided \in [Node -> SUBSET Sides]
    BY DEF Init
  <1>5. saga \in Seq(Node) /\ effects \in Seq(Node) /\ undone \in Seq(Node)
    BY DEF Init
  <1> QED
    <2>1. /\ flow \in Flows /\ status = "idle" /\ scanned = FALSE
          /\ mode = "fresh" /\ awaited = NoNode /\ pos = 1 /\ pool = EmptyPool /\ chosen = NothingChosen
      BY DEF Init
    <2>2. pool \in [Node -> Results] /\ chosen \in [Node -> Sides \cup {Undecided}]
      BY <1>1, <2>1
    <2>3. /\ status \in Outcomes \cup {"idle", "running", "unwinding"} /\ scanned \in BOOLEAN
          /\ mode \in {"fresh", "approve", "reject", "expired"} /\ awaited \in Node \cup {NoNode} /\ pos \in Nat
      BY <2>1
    <2>4. TypeOK
      BY <1>2, <1>3, <1>4, <1>5, <2>2, <2>3 DEF TypeOK
    <2> QED
      BY <2>1, <2>4 DEF TInv, PositionOK

\* Ending a turn leaves a well-typed memory, and the history as it is.
LEMMA EndTurnTyped ==
    ASSUME TypeOK, EndTurn
    PROVE  /\ status' = "idle" /\ mode' = "fresh" /\ awaited' = NoNode /\ pos' = 1 /\ saga' = <<>>
           /\ pool' \in [Node -> Results]
           /\ chosen' \in [Node -> Sides \cup {Undecided}]
           /\ UNCHANGED <<flow, scanned, calls, effects, grants, decided, undone, mark, turns>>
  BY DEF EndTurn, EmptyPool, NothingChosen, Results, history

\* With a well-typed row, the invariant.
LEMMA EndTurnKeeps ==
    ASSUME TInv, EndTurn,
           row' \in [status : Storable \cup {"none"}, pending : Node \cup {NoNode}, saved : [Node -> Results]]
    PROVE  TInv'
  <1>1. /\ status' = "idle" /\ mode' = "fresh" /\ awaited' = NoNode /\ pos' = 1 /\ saga' = <<>>
        /\ pool' \in [Node -> Results]
        /\ chosen' \in [Node -> Sides \cup {Undecided}]
        /\ UNCHANGED <<flow, scanned, calls, effects, grants, decided, undone, mark, turns>>
    BY EndTurnTyped DEF TInv
  <1>2. TypeOK'
    BY <1>1 DEF TInv, TypeOK
  <1>3. PositionOK'
    BY <1>1 DEF TInv, PositionOK
  <1> QED
    BY <1>2, <1>3 DEF TInv

\* Beginning one, given a well-typed pool, leaves a well-typed memory too.
LEMMA BeginTurnTyped ==
    ASSUME TypeOK, NEW m, NEW node, NEW p \in [Node -> Results], BeginTurn(m, node, p)
    PROVE  /\ status' = "running" /\ mode' = m /\ awaited' = node /\ pos' = 1 /\ saga' = <<>>
           /\ pool' = p
           /\ chosen' \in [Node -> Sides \cup {Undecided}]
           /\ mark' \in [effects : Nat, undone : Nat]
           /\ turns' \in 0..MaxTurns
           /\ UNCHANGED <<flow, scanned, calls, effects, decided, undone>>
  <1>1. mark' \in [effects : Nat, undone : Nat]
    BY DEF TypeOK, BeginTurn
  <1>2. turns' \in 0..MaxTurns
    BY FlowExecAssumption DEF FlowExecAssumption, TypeOK, BeginTurn
  <1>3. chosen' \in [Node -> Sides \cup {Undecided}]
    BY DEF BeginTurn, NothingChosen
  <1> QED
    BY <1>1, <1>2, <1>3 DEF BeginTurn

\* With a well-typed row and grants, the invariant.
LEMMA BeginTurnKeeps ==
    ASSUME TInv, NEW m \in {"fresh", "approve", "reject", "expired"}, NEW node \in Node \cup {NoNode},
           NEW p \in [Node -> Results], BeginTurn(m, node, p), grants' \in [Node -> Nat],
           row' \in [status : Storable \cup {"none"}, pending : Node \cup {NoNode}, saved : [Node -> Results]]
    PROVE  TInv'
  <1>1. /\ status' = "running" /\ mode' = m /\ awaited' = node /\ pos' = 1 /\ saga' = <<>>
        /\ pool' = p
        /\ chosen' \in [Node -> Sides \cup {Undecided}]
        /\ mark' \in [effects : Nat, undone : Nat]
        /\ turns' \in 0..MaxTurns
        /\ UNCHANGED <<flow, scanned, calls, effects, decided, undone>>
    BY BeginTurnTyped DEF TInv
  <1>2. scanned' \in BOOLEAN /\ calls' \in [Node -> Nat] /\ decided' \in [Node -> SUBSET Sides]
    BY <1>1 DEF TInv, TypeOK
  <1>3. saga' \in Seq(Node) /\ effects' \in Seq(Node) /\ undone' \in Seq(Node)
    BY <1>1 DEF TInv, TypeOK
  <1>4. TypeOK'
    BY <1>1, <1>2, <1>3 DEF TypeOK
  <1>5. PositionOK'
    BY <1>1 DEF TInv, PositionOK
  <1> QED
    BY <1>4, <1>5 DEF TInv

\* A decision keeps the types of what it writes.
LEMMA ChooseTyped ==
    ASSUME TypeOK, NEW n \in Node, NEW side \in Sides, Choose(n, side)
    PROVE  /\ chosen' \in [Node -> Sides \cup {Undecided}]
           /\ decided' \in [Node -> SUBSET Sides]
  BY DEF TypeOK, Choose

\* Counting more, wherever, keeps a counter per node.
LEMMA Increment ==
    ASSUME NEW f \in [Node -> Nat], NEW x, NEW k \in Nat
    PROVE  [f EXCEPT ![x] = @ + k] \in [Node -> Nat]
  <1>1. CASE x \in Node
    BY <1>1
  <1>2. CASE x \notin Node
    BY <1>2
  <1> QED
    BY <1>1, <1>2

\* A number of tries is a number, nine at most.
LEMMA TriesBounded ==
    ASSUME NEW k \in Tries \cup {0}
    PROVE  k \in Nat /\ k <= MostTries
  BY FlowExecAssumption DEF FlowExecAssumption, MostTries, Attempts

\* Whatever is counted, it is a number.
LEMMA CountTyped ==
    ASSUME TypeOK, NEW k \in Tries \cup {0}, CountCalls(k)
    PROVE  calls' \in [Node -> Nat]
  BY TriesBounded, Increment DEF CountCalls, TypeOK

\* What the settling of a result writes, and that a turn still running has moved
\* on to the next item.
LEMMA SettleTyped ==
    ASSUME TInv, pos <= Len(flow.sequence), status = "running",
           NEW r \in Results, NEW register \in BOOLEAN, Settle(r, register)
    PROVE  /\ pool' \in [Node -> Results]
           /\ effects' \in Seq(Node) /\ saga' \in Seq(Node)
           /\ chosen' \in [Node -> Sides \cup {Undecided}]
           /\ decided' \in [Node -> SUBSET Sides]
           /\ status' \in {"running", "unwinding"}
           /\ pos' \in {pos, pos + 1}
           /\ status' = "running" => pos' = pos + 1
  <1>1. Item \in Node
    BY ItemIsNode
  <1>2. pool' \in [Node -> Results]
    BY <1>1 DEF Settle, TInv, TypeOK
  <1>3. effects' \in Seq(Node) /\ saga' \in Seq(Node)
    BY <1>1 DEF Settle, TInv, TypeOK
  <1>4. CASE Item \in flow.branching
    <2>1. Choose(Item, IF r = "failed" THEN "error" ELSE "success")
      BY <1>4 DEF Settle
    <2>2. /\ chosen' \in [Node -> Sides \cup {Undecided}]
          /\ decided' \in [Node -> SUBSET Sides]
      BY <1>1, <2>1, ChooseTyped DEF TInv, Sides
    <2>3. pos' = pos + 1 /\ status' = status
      BY <1>4 DEF Settle
    <2> QED
      BY <1>2, <1>3, <2>2, <2>3
  <1>5. CASE Item \notin flow.branching
    <2>1. UNCHANGED <<chosen, decided>>
      BY <1>5 DEF Settle
    <2>2. IF r = "failed" THEN status' = "unwinding" /\ UNCHANGED pos ELSE pos' = pos + 1 /\ UNCHANGED status
      BY <1>5 DEF Settle
    <2> QED
      BY <1>2, <1>3, <2>1, <2>2 DEF TInv, TypeOK
  <1> QED
    BY <1>4, <1>5

-------------------------------------------------------------------------------
\* Every action keeps the types, the flow and the position.
LEMMA NextTInv == TInv /\ [Next]_vars => TInv'
  <1> SUFFICES ASSUME TInv, [Next]_vars
               PROVE  TInv'
    OBVIOUS
  <1> USE DEF TInv
  <1>1. CASE StartRun
    <2>1. EmptyPool \in [Node -> Results]
      BY DEF EmptyPool, Results
    <2>2. BeginTurn("fresh", NoNode, EmptyPool)
      BY <1>1 DEF StartRun
    <2>3. row' \in [status : Storable \cup {"none"}, pending : Node \cup {NoNode}, saved : [Node -> Results]]
      BY <1>1 DEF StartRun, TypeOK, Storable
    <2>4. grants' \in [Node -> Nat]
      BY <1>1 DEF StartRun, TypeOK
    <2> QED
      BY <2>1, <2>2, <2>3, <2>4, BeginTurnKeeps DEF TInv
  <1>2. ASSUME NEW answer \in {"approve", "reject"}, Reply(answer)
        PROVE  TInv'
    <2>1. BeginTurn(answer, row.pending, row.saved) /\ row' = row
      BY <1>2 DEF Reply
    <2>2. row.pending \in Node \cup {NoNode} /\ row.saved \in [Node -> Results]
      BY DEF TypeOK
    <2>3. grants' \in [Node -> Nat]
      BY <1>2, Increment DEF Reply, TypeOK
    <2>4. row' \in [status : Storable \cup {"none"}, pending : Node \cup {NoNode}, saved : [Node -> Results]]
      BY <2>1 DEF TypeOK
    <2> QED
      BY <2>1, <2>2, <2>3, <2>4, BeginTurnKeeps DEF TInv
  <1>3. CASE LateReplyFails
    <2>1. BeginTurn("expired", row.pending, row.saved) /\ row' = row /\ grants' = grants
      BY <1>3 DEF LateReplyFails
    <2>2. row.pending \in Node \cup {NoNode} /\ row.saved \in [Node -> Results]
      BY DEF TypeOK
    <2>3. grants' \in [Node -> Nat]
      BY <2>1 DEF TypeOK
    <2>4. row' \in [status : Storable \cup {"none"}, pending : Node \cup {NoNode}, saved : [Node -> Results]]
      BY <2>1 DEF TypeOK
    <2> QED
      BY <2>1, <2>2, <2>3, <2>4, BeginTurnKeeps DEF TInv
  <1>4. CASE LateReplyEnds \/ Scan \/ Expire
    <2>1. row' \in [status : Storable \cup {"none"}, pending : Node \cup {NoNode}, saved : [Node -> Results]]
      BY <1>4 DEF LateReplyEnds, Scan, Expire, TimeOut, TypeOK, Storable
    <2>2. scanned' \in BOOLEAN
      BY <1>4 DEF LateReplyEnds, Scan, Expire, TypeOK
    <2>3. UNCHANGED <<flow, status, memory, history>>
      BY <1>4 DEF LateReplyEnds, Scan, Expire, TimeOut
    <2>4. PositionOK'
      BY <2>3 DEF PositionOK, memory
    <2>5. UNCHANGED <<status, mode, awaited, pos, pool, chosen, saga>>
      BY <2>3 DEF memory
    <2>6. UNCHANGED <<calls, effects, grants, decided, undone, mark, turns>>
      BY <2>3 DEF history
    <2>7. TypeOK'
      BY <2>1, <2>2, <2>5, <2>6 DEF TypeOK
    <2> QED
      BY <2>4, <2>7
  <1>5. CASE TakeBranch
    <2>1. Item \in Node /\ pos' = pos + 1 /\ status' = "running"
      BY <1>5, ItemIsNode DEF TakeBranch, Looping
    <2>2. Evaluate(Item) \in Sides
      BY <1>5 DEF TakeBranch, Evaluate, Sides
    <2>3. /\ chosen' \in [Node -> Sides \cup {Undecided}]
          /\ decided' \in [Node -> SUBSET Sides]
      BY <1>5, <2>1, <2>2, ChooseTyped DEF TakeBranch
    <2>4. TypeOK'
      <3>1. UNCHANGED <<row, status, scanned, mode, awaited, pool, saga>>
        BY <1>5 DEF TakeBranch, surroundings
      <3>2. UNCHANGED <<calls, effects, grants, undone, mark, turns>>
        BY <1>5 DEF TakeBranch, surroundings
      <3>3. pos' \in Nat
        BY <2>1 DEF TypeOK
      <3> QED
        BY <2>3, <3>1, <3>2, <3>3 DEF TypeOK
    <2>5. PositionOK'
      <3>1. flow' \in Flows /\ pos \in Nat \ {0}
        BY <1>5 DEF TakeBranch, surroundings, PositionOK
      <3>2. pos' \in Nat \ {0} /\ status' # "waiting_human"
        BY <2>1, <3>1
      <3> QED
        BY <3>1, <3>2 DEF PositionOK
    <2> QED
      BY <2>4, <2>5
  <1>6. CASE ConditionFails
    BY <1>6 DEF ConditionFails, TypeOK, PositionOK, memory, history, Outcomes
  <1>7. CASE PassRecorded
    BY <1>7 DEF PassRecorded, Looping, TypeOK, PositionOK, history
  <1>8. CASE SkipUntaken
    <2>1. /\ pos' = pos + 1 /\ status = "running"
          /\ UNCHANGED <<flow, row, status, scanned, mode, awaited, pool, chosen, saga>>
          /\ UNCHANGED <<calls, effects, grants, decided, undone, mark, turns>>
      BY <1>8 DEF SkipUntaken, Looping, history
    <2> QED
      BY <2>1 DEF TypeOK, PositionOK
  <1>9. CASE Suspend
    BY <1>9 DEF Suspend, Looping, TypeOK, PositionOK, memory, history, Outcomes
  <1>10. ASSUME NEW r \in Results \ {NoResult}, NEW k \in Tries \cup {0}, Invoke(r, k)
         PROVE  TInv'
    <2>1. Looping /\ pos <= Len(flow.sequence) /\ status = "running"
      BY <1>10 DEF Invoke, Looping
    <2>2. calls' \in [Node -> Nat]
      BY <1>10, CountTyped DEF Invoke
    <2>3. Settle(r, r # "failed" /\ Item \in flow.comp \cup flow.undo)
      BY <1>10 DEF Invoke
    <2>4. /\ pool' \in [Node -> Results]
          /\ effects' \in Seq(Node) /\ saga' \in Seq(Node)
          /\ chosen' \in [Node -> Sides \cup {Undecided}]
          /\ decided' \in [Node -> SUBSET Sides]
          /\ status' \in {"running", "unwinding"}
          /\ pos' \in {pos, pos + 1}
      BY <2>1, <2>3, SettleTyped
    <2>5. UNCHANGED <<flow, row, scanned, mode, awaited, grants, undone, mark, turns>>
      BY <1>10 DEF Invoke, surroundings
    <2>6. status' \in Outcomes \cup {"idle", "running", "unwinding"} /\ pos' \in Nat \ {0}
      BY <2>4 DEF PositionOK, Outcomes
    <2>7. TypeOK'
      BY <2>2, <2>4, <2>5, <2>6 DEF TypeOK
    <2> QED
      BY <2>4, <2>5, <2>6, <2>7 DEF PositionOK
  <1>11. ASSUME NEW r \in Results \ {NoResult}, NEW k \in Tries \cup {0}, ResumeGranted(r, k)
         PROVE  TInv'
    <2>1. Looping /\ pos <= Len(flow.sequence) /\ status = "running"
      BY <1>11 DEF ResumeGranted, Looping
    <2>2. calls' \in [Node -> Nat]
      BY <1>11, CountTyped DEF ResumeGranted
    <2>3. Settle(r, TRUE) \/ Settle(r, FALSE)
      <3>1. CASE Item \in flow.comp
        BY <1>11, <3>1 DEF ResumeGranted, Settle
      <3>2. CASE Item \notin flow.comp
        BY <1>11, <3>2 DEF ResumeGranted, Settle
      <3> QED
        BY <3>1, <3>2
    <2>4. /\ pool' \in [Node -> Results]
          /\ effects' \in Seq(Node) /\ saga' \in Seq(Node)
          /\ chosen' \in [Node -> Sides \cup {Undecided}]
          /\ decided' \in [Node -> SUBSET Sides]
          /\ status' \in {"running", "unwinding"}
          /\ pos' \in {pos, pos + 1}
      BY <2>1, <2>3, SettleTyped
    <2>5. UNCHANGED <<flow, row, scanned, mode, awaited, grants, undone, mark, turns>>
      BY <1>11 DEF ResumeGranted, surroundings
    <2>6. status' \in Outcomes \cup {"idle", "running", "unwinding"} /\ pos' \in Nat \ {0}
      BY <2>4 DEF PositionOK, Outcomes
    <2>7. TypeOK'
      BY <2>2, <2>4, <2>5, <2>6 DEF TypeOK
    <2> QED
      BY <2>4, <2>5, <2>6, <2>7 DEF PositionOK
  <1>12. ASSUME NEW r \in Results \ {NoResult}, ResumeReplied(r)
         PROVE  TInv'
    <2>1. Item \in Node /\ status = "running"
      BY <1>12, ItemIsNode DEF ResumeReplied, Looping
    <2>2. /\ chosen' \in [Node -> Sides \cup {Undecided}]
          /\ decided' \in [Node -> SUBSET Sides]
      BY <1>12, <2>1, ChooseTyped DEF ResumeReplied, Sides, TypeOK
    <2>3. pool' \in [Node -> Results]
      BY <1>12 DEF ResumeReplied, TypeOK
    <2> QED
      BY SMTT(30), <1>12, <2>1, <2>2, <2>3 DEF ResumeReplied, TypeOK, PositionOK, Outcomes, surroundings
  <1>13. CASE ResumeFailed
    <2>1. Item \in Node /\ status = "running"
      BY <1>13, ItemIsNode DEF ResumeFailed, Looping
    <2>2. /\ chosen' \in [Node -> Sides \cup {Undecided}]
          /\ decided' \in [Node -> SUBSET Sides]
      BY <1>13, <2>1, ChooseTyped DEF ResumeFailed, Sides
    <2>3. pool' \in [Node -> Results]
      BY <1>13 DEF ResumeFailed, TypeOK, Results
    <2> QED
      BY <1>13, <2>1, <2>2, <2>3 DEF ResumeFailed, TypeOK, PositionOK, Outcomes, surroundings
  <1>14. CASE ResumeRejected
    <2>1. Item \in Node
      BY <1>14, ItemIsNode DEF ResumeRejected, Looping
    <2>2. /\ chosen' \in [Node -> Sides \cup {Undecided}]
          /\ decided' \in [Node -> SUBSET Sides]
      BY <1>14, <2>1, ChooseTyped DEF ResumeRejected, Sides, TypeOK
    <2>3. pool' \in [Node -> Results]
      BY <1>14 DEF ResumeRejected, TypeOK, Results
    <2>4. /\ status' = "rejected"
          /\ UNCHANGED <<flow, row, scanned, mode, awaited, grants, mark, turns, pos, saga, calls, effects, undone>>
      BY <1>14 DEF ResumeRejected, surroundings
    <2> QED
      BY <2>2, <2>3, <2>4 DEF TypeOK, PositionOK, Outcomes
  <1>15. CASE Compensate
    <2>1. /\ undone' \in Seq(Node) /\ saga' \in Seq(Node)
      <3>1. saga \in Seq(Node) /\ saga # <<>> /\ undone \in Seq(Node)
        BY <1>15 DEF Compensate, TypeOK
      <3>2. /\ undone' = Append(undone, saga[Len(saga)])
            /\ saga' = SubSeq(saga, 1, Len(saga) - 1)
        BY <1>15 DEF Compensate
      <3>3. saga[Len(saga)] \in Node
        BY <3>1
      <3>4. SubSeq(saga, 1, Len(saga) - 1) \in Seq(Node)
        BY <3>1
      <3> QED
        BY <3>1, <3>2, <3>3, <3>4
    <2> QED
      BY <1>15, <2>1 DEF Compensate, TypeOK, PositionOK, Outcomes, surroundings
  <1>16. CASE FailFast
    BY <1>16 DEF FailFast, TypeOK, PositionOK, memory, history, Outcomes
  <1>17. CASE Complete
    BY <1>17 DEF Complete, TypeOK, PositionOK, memory, history, Outcomes
  <1>18. CASE SaveWaiting
    <2>1. Item \in Node
      BY <1>18, ItemIsNode DEF SaveWaiting, PositionOK
    <2>2. SavedPool \in [Node -> Results]
      BY DEF SavedPool, Results, TypeOK
    <2>3. EndTurn
      BY <1>18 DEF SaveWaiting
    <2>4. row' \in [status : Storable \cup {"none"}, pending : Node \cup {NoNode}, saved : [Node -> Results]]
      BY <1>18, <2>1, <2>2 DEF SaveWaiting, Storable
    <2> QED
      BY <2>3, <2>4, EndTurnKeeps DEF TInv
  <1>19. CASE FinishRun
    <2>1. EndTurn
      BY <1>19 DEF FinishRun
    <2>2. row' \in [status : Storable \cup {"none"}, pending : Node \cup {NoNode}, saved : [Node -> Results]]
      BY <1>19 DEF FinishRun, TypeOK
    <2> QED
      BY <2>1, <2>2, EndTurnKeeps DEF TInv
  <1>20. CASE Abort
    <2>1. EndTurn /\ row' = row
      BY <1>20 DEF Abort
    <2> QED
      BY <2>1, EndTurnKeeps DEF TInv, TypeOK
  <1>21. CASE UNCHANGED vars
    BY <1>21 DEF vars, memory, history, TypeOK, PositionOK
  <1> QED
    BY <1>1, <1>2, <1>3, <1>4, <1>5, <1>6, <1>7, <1>8, <1>9, <1>10, <1>11, <1>12, <1>13, <1>14,
       <1>15, <1>16, <1>17, <1>18, <1>19, <1>20, <1>21
    DEF Next, Step

\* The variables of a run, its row and its history keep their shapes, whatever
\* the flows, the outputs and the interruptions (FlowExec!TypeOK).
THEOREM TypeCorrect == Spec => []TypeOK
  <1>1. TInv => TypeOK
    BY DEF TInv
  <1> QED
    BY <1>1, InitTInv, NextTInv, PTL DEF Spec

-------------------------------------------------------------------------------
\* No command has run and no reply has come before a run begins.
LEMMA InitGrants == Init => GrantsCover
  <1> SUFFICES ASSUME Init, NEW n \in Gated
               PROVE  calls[n] <= MostTries * grants[n] /\ ~Unspent(n)
    BY DEF GrantsCover
  <1>1. n \in Node
    BY FlowFacts DEF Init
  <1> QED
    BY <1>1 DEF Init, Unspent, MostTries, Attempts

\* A step that counts neither a call of a gated command nor a reply keeps
\* GrantsCover unless it makes a reply unspent.
LEMMA Uncounted ==
    ASSUME GrantsCover, UNCHANGED <<flow, grants>>,
           \A n \in Gated : calls'[n] = calls[n],
           \A n \in Gated : Unspent(n)' => Unspent(n)
    PROVE  GrantsCover'
  <1>1. Gated' = Gated
    BY DEF Gated
  <1> QED
    BY <1>1 DEF GrantsCover

\* Going on to the next item of a running turn makes nothing unspent.
LEMMA MovingOn ==
    ASSUME TInv, status = "running", UNCHANGED <<flow, mode, awaited>>,
           status' = "running" => pos' = pos + 1, NEW n, Unspent(n)'
    PROVE  Unspent(n)
  <1>1. pos' = pos + 1 /\ mode = "approve" /\ awaited = n
    BY DEF Unspent
  <1>2. \A i \in 1..pos : flow.sequence[i] # n
    BY <1>1 DEF Unspent, TInv, PositionOK
  <1> QED
    BY <1>1, <1>2 DEF Unspent, TInv, PositionOK

\* The granted command finds its reply unspent, and leaves it spent.
LEMMA GrantSpent ==
    ASSUME TInv, pos <= Len(flow.sequence), status = "running", mode = "approve", AtPending,
           UNCHANGED <<flow, mode, awaited>>, status' = "running" => pos' = pos + 1
    PROVE  Unspent(Item) /\ \A n : ~Unspent(n)'
  <1>1. \A i \in 1..(pos - 1) : flow.sequence[i] # Item
    BY FlowFacts DEF Item, TInv, PositionOK
  <1>2. Unspent(Item)
    BY <1>1 DEF Unspent, AtPending
  <1>3. ASSUME NEW n, Unspent(n)'
        PROVE  FALSE
    <2>1. pos' = pos + 1 /\ n = Item
      BY <1>3 DEF Unspent, AtPending
    <2>2. pos \in 1..(pos' - 1)
      BY <2>1 DEF TInv, PositionOK
    <2> QED
      BY <1>3, <2>1, <2>2 DEF Unspent, Item
  <1> QED
    BY <1>2, <1>3

\* Every action keeps GrantsCover.
LEMMA NextGrants == IInv /\ [Next]_vars => GrantsCover'
  <1> SUFFICES ASSUME TInv, GrantsCover, [Next]_vars
               PROVE  GrantsCover'
    BY DEF IInv
  <1>g. \A n \in Gated : n \in Node
    BY FlowFacts DEF TInv, PositionOK
  <1>1. CASE StartRun
    <2>1. UNCHANGED <<flow, calls, grants>> /\ mode' = "fresh"
      BY <1>1 DEF StartRun, BeginTurn
    <2> QED
      BY <2>1, Uncounted DEF Unspent
  <1>2. CASE Reply("approve")
    <2>1. /\ UNCHANGED <<flow, calls>> /\ status = "idle" /\ awaited' = row.pending
          /\ grants' = [grants EXCEPT ![row.pending] = @ + 1]
      BY <1>2 DEF Reply, BeginTurn
    <2> SUFFICES ASSUME NEW n \in Gated
                 PROVE  /\ calls'[n] <= MostTries * grants'[n]
                        /\ Unspent(n)' => calls'[n] + MostTries <= MostTries * grants'[n]
      <3>1. Gated' = Gated
        BY <2>1 DEF Gated
      <3> QED
        BY <3>1 DEF GrantsCover
    <2>2. n \in Node /\ calls[n] \in Nat /\ grants[n] \in Nat /\ grants \in [Node -> Nat]
      BY <1>g DEF TInv, TypeOK
    <2>3. calls[n] <= MostTries * grants[n]
      BY DEF GrantsCover
    <2>4. CASE n = row.pending
      BY <2>1, <2>2, <2>3, <2>4 DEF MostTries, Attempts
    <2>5. CASE n # row.pending
      BY <2>1, <2>2, <2>3, <2>5 DEF Unspent
    <2> QED
      BY <2>4, <2>5
  <1>3. CASE Reply("reject") \/ LateReplyFails
    <2>1. UNCHANGED <<flow, calls, grants>> /\ mode' # "approve"
      BY <1>3 DEF Reply, LateReplyFails, BeginTurn
    <2> QED
      BY <2>1, Uncounted DEF Unspent
  <1>4. CASE LateReplyEnds \/ Scan \/ Expire
    <2>1. UNCHANGED <<flow, status, mode, awaited, pos, calls, grants>>
      BY <1>4 DEF LateReplyEnds, Scan, Expire, TimeOut, memory, history
    <2> QED
      BY <2>1, Uncounted DEF Unspent
  <1>5. CASE \/ TakeBranch \/ PassRecorded \/ SkipUntaken \/ ResumeFailed
             \/ \E r \in Results \ {NoResult} : ResumeReplied(r)
    <2>1. /\ status = "running" /\ pos' = pos + 1
          /\ UNCHANGED <<flow, mode, awaited, calls, grants>>
      BY <1>5 DEF TakeBranch, PassRecorded, SkipUntaken, ResumeFailed, ResumeReplied, Looping, surroundings, history
    <2> QED
      BY <2>1, MovingOn, Uncounted
  <1>6. CASE ConditionFails \/ Suspend \/ FailFast \/ Complete \/ ResumeRejected \/ Compensate
    <2>1. UNCHANGED <<flow, calls, grants>> /\ (status' = "running" => Compensate)
      BY <1>6 DEF ConditionFails, Suspend, FailFast, Complete, ResumeRejected, Compensate, surroundings, history
    <2>2. status' # "running"
      BY <1>6, <2>1 DEF Compensate
    <2> QED
      BY <2>1, <2>2, Uncounted DEF Unspent
  <1>7. CASE SaveWaiting \/ FinishRun \/ Abort
    <2>1. UNCHANGED <<flow, calls, grants>> /\ status' = "idle"
      BY <1>7 DEF SaveWaiting, FinishRun, Abort, EndTurn, history
    <2> QED
      BY <2>1, Uncounted DEF Unspent
  <1>8. ASSUME NEW r \in Results \ {NoResult}, NEW k \in Tries \cup {0}, Invoke(r, k)
        PROVE  GrantsCover'
    <2>1. /\ pos <= Len(flow.sequence) /\ status = "running" /\ CountCalls(k)
          /\ k \in IF AsksHuman(Item) THEN {0} ELSE Invocations(r)
          /\ UNCHANGED <<flow, row, mode, awaited, grants>>
      BY <1>8 DEF Invoke, Looping, surroundings
    <2>2. Settle(r, r # "failed" /\ Item \in flow.comp \cup flow.undo)
      BY <1>8 DEF Invoke
    <2>3. status' = "running" => pos' = pos + 1
      BY <2>1, <2>2, SettleTyped
    <2>4. ASSUME NEW n \in Gated
          PROVE  calls'[n] = calls[n]
      <3>1. n \in Node /\ calls \in [Node -> Nat] /\ calls[n] \in Nat
        BY <1>g DEF TInv, TypeOK
      <3>2. CASE n = Item
        <4>1. k = 0
          BY <2>1, <3>2 DEF AsksHuman
        <4> QED
          BY <2>1, <3>1, <3>2, <4>1 DEF CountCalls
      <3>3. CASE n # Item
        BY <2>1, <3>1, <3>3 DEF CountCalls
      <3> QED
        BY <3>2, <3>3
    <2> QED
      BY <2>1, <2>3, <2>4, MovingOn, Uncounted
  <1>9. ASSUME NEW r \in Results \ {NoResult}, NEW k \in Tries \cup {0}, ResumeGranted(r, k)
        PROVE  GrantsCover'
    <2>1. /\ pos <= Len(flow.sequence) /\ status = "running"
          /\ mode = "approve" /\ AtPending /\ CountCalls(k)
          /\ UNCHANGED <<flow, row, mode, awaited, grants>>
      BY <1>9 DEF ResumeGranted, Looping, surroundings
    <2>2. Settle(r, TRUE) \/ Settle(r, FALSE)
      <3>1. CASE Item \in flow.comp
        BY <1>9, <3>1 DEF ResumeGranted, Settle
      <3>2. CASE Item \notin flow.comp
        BY <1>9, <3>2 DEF ResumeGranted, Settle
      <3> QED
        BY <3>1, <3>2
    <2>3. status' = "running" => pos' = pos + 1
      BY <2>1, <2>2, SettleTyped
    <2>4. Unspent(Item) /\ \A n : ~Unspent(n)'
      BY <2>1, <2>3, GrantSpent
    <2>5. ASSUME NEW n \in Gated
          PROVE  calls'[n] <= MostTries * grants'[n]
      <3>1. /\ n \in Node /\ calls \in [Node -> Nat] /\ calls[n] \in Nat /\ grants[n] \in Nat
            /\ k \in Nat /\ k <= MostTries
        BY <1>g, TriesBounded DEF TInv, TypeOK
      <3>2. CASE n = Item
        <4>1. calls[n] + MostTries <= MostTries * grants[n]
          BY <2>4, <3>2 DEF GrantsCover
        <4>2. calls'[n] = calls[n] + k /\ grants'[n] = grants[n]
          BY <2>1, <3>1, <3>2 DEF CountCalls
        <4> QED
          BY <3>1, <4>1, <4>2 DEF MostTries, Attempts
      <3>3. CASE n # Item
        <4>1. calls'[n] = calls[n] /\ grants'[n] = grants[n]
          BY <2>1, <3>1, <3>3 DEF CountCalls
        <4> QED
          BY <4>1 DEF GrantsCover
      <3> QED
        BY <3>2, <3>3
    <2>6. Gated' = Gated
      BY <2>1 DEF Gated
    <2> QED
      BY <2>4, <2>5, <2>6 DEF GrantsCover
  <1>10. CASE UNCHANGED vars
    <2>1. UNCHANGED <<flow, status, mode, awaited, pos, calls, grants>>
      BY <1>10 DEF vars, memory, history
    <2> QED
      BY <2>1, Uncounted DEF Unspent
  <1> QED
    BY <1>1, <1>2, <1>3, <1>4, <1>5, <1>6, <1>7, <1>8, <1>9, <1>10 DEF Next, Step

\* However a run is suspended, answered, expired or cut off, a command that
\* needs approval invokes its adapter at most nine times per reply to it that did
\* not reject it, and never without one (FlowExec!CommandsApproved;
\* capability.call, the retries of Connector.execute and the resume of
\* _execute_plan), in every flow, with any number of turns.
THEOREM ApprovalsPay == Spec => []CommandsApproved
  <1>1. Init => IInv
    BY InitTInv, InitGrants DEF IInv
  <1>2. IInv /\ [Next]_vars => IInv'
    BY NextTInv, NextGrants DEF IInv
  <1>3. IInv => CommandsApproved
    BY DEF IInv, GrantsCover, CommandsApproved
  <1> QED
    BY <1>1, <1>2, <1>3, PTL DEF Spec
-------------------------------------------------------------------------------
(****************************************************************************)
(* The run implements the life cycle its row shows.                         *)
(****************************************************************************)
\* A turn is of a run that runs or waits, and of one that waits, or has timed out
\* since, if it resumes it.
Phases ==
    /\ status # "idle" => row.status \in IF mode = "fresh" THEN {"running"} ELSE {"waiting_human", "timeout"}
    /\ scanned => row.status \in {"waiting_human"} \cup Over
    /\ row.status = "none" => effects = <<>>

\* Without compensations nothing is rolled back, without suspensions nothing waits
\* or is resumed.
Unstored ==
    /\ flow.comp \cup flow.undo = {} => saga = <<>> /\ status # "rolled_back"
    /\ ~Suspending(flow) => "waiting_human" \notin {row.status, status} /\ mode = "fresh"

Happened(n) == n \in Elements(effects)

\* What has happened is on record: in the row while the run waits, in the pool
\* during a turn.  What is ahead of a turn has not happened, unless the turn
\* will pass it, which it does with neither its first items nor the pending one.
Recalled ==
    /\ status = "idle" /\ row.status = "waiting_human" =>
          \A n \in Node : Happened(n) => row.saved[n] \in Verdicts /\ n # row.pending
    /\ status # "idle" => \A n \in Node : Happened(n) => pool[n] \in Verdicts
    /\ status = "running" =>
          \A i \in pos..Len(flow.sequence) :
              Happened(flow.sequence[i]) => mode # "fresh" /\ flow.sequence[i] # awaited
    /\ status = "waiting_human" => ~Happened(Item)

RunInv == TInv /\ Phases /\ Unstored /\ (Torn(flow) \/ Recalled)

\* How often each node has taken effect.
Done(s) == [n \in Node |-> Cardinality({i \in DOMAIN s : s[i] = n})]

\* An effect counts for its node and for no other.
LEMMA EffectCounts ==
    ASSUME NEW s \in Seq(Node), NEW x \in Node
    PROVE  Done(Append(s, x)) = [Done(s) EXCEPT ![x] = @ + 1]
  <1> DEFINE At(t, n) == {i \in DOMAIN t : t[i] = n}
             l == Len(s) + 1
  <1>1. /\ DOMAIN Append(s, x) = 1..l /\ DOMAIN s = 1..Len(s) /\ Len(s) \in Nat
        /\ Append(s, x)[l] = x /\ \A i \in 1..Len(s) : Append(s, x)[i] = s[i]
    OBVIOUS
  <1>2. ASSUME NEW n \in Node
        PROVE  IsFiniteSet(At(s, n)) /\ l \notin At(s, n)
    <2>1. IsFiniteSet(1..Len(s))
      BY <1>1, FS_Interval
    <2>2. At(s, n) \in SUBSET (1..Len(s)) /\ l \notin At(s, n)
      BY <1>1
    <2> QED
      BY <2>1, <2>2, FS_Subset
  <1>3. At(Append(s, x), x) = At(s, x) \cup {l}
    BY <1>1
  <1>4. \A n \in Node \ {x} : At(Append(s, x), n) = At(s, n)
    BY <1>1
  <1> HIDE DEF At, l
  <1>5. Cardinality(At(Append(s, x), x)) = Cardinality(At(s, x)) + 1
    BY <1>2, <1>3, FS_AddElement
  <1>6. [n \in Node |-> Cardinality(At(Append(s, x), n))]
        = [[n \in Node |-> Cardinality(At(s, n))] EXCEPT ![x] = @ + 1]
    BY <1>4, <1>5
  <1> QED
    BY <1>6 DEF At, Done

\* What has not happened counts for nothing.
LEMMA NothingCounts ==
    ASSUME NEW s \in Seq(Node), NEW n \in Node, n \notin Elements(s)
    PROVE  Cardinality({i \in DOMAIN s : s[i] = n}) = 0
  <1>1. {i \in DOMAIN s : s[i] = n} = {}
    BY DEF Elements
  <1> QED
    BY <1>1, FS_EmptySet

\* An effect is added to what has happened.
LEMMA HappensNow ==
    ASSUME TInv, NEW x \in Node, effects' = Append(effects, x), NEW n
    PROVE  Happened(n)' <=> Happened(n) \/ n = x
  <1>1. effects \in Seq(Node) /\ Len(effects) \in Nat
    BY DEF TInv, TypeOK
  <1>2. /\ Len(effects') = Len(effects) + 1 /\ effects'[Len(effects) + 1] = x
        /\ \A i \in 1..Len(effects) : effects'[i] = effects[i]
    BY <1>1
  <1> QED
    BY <1>1, <1>2 DEF Happened, Elements

\* A turn does not come back to an item that it has passed.
LEMMA ItemsDiffer ==
    ASSUME TInv, pos <= Len(flow.sequence), NEW i \in (pos + 1)..Len(flow.sequence)
    PROVE  flow.sequence[i] # Item /\ i \in pos..Len(flow.sequence)
  BY FlowFacts DEF Item, TInv, PositionOK

\* What is about to be invoked, or resumed, has not happened.
LEMMA NotYet ==
    ASSUME TInv, Recalled, status = "running", pos <= Len(flow.sequence), FreshItem \/ AtPending
    PROVE  ~Happened(Item)
  <1> SUFFICES ASSUME Happened(Item)
               PROVE  FALSE
    OBVIOUS
  <1>1. Item \in Node /\ pos \in pos..Len(flow.sequence)
    BY ItemIsNode, FlowFacts DEF TInv, PositionOK
  <1>2. pool[Item] \in Verdicts
    BY <1>1 DEF Recalled
  <1>3. mode # "fresh" /\ Item # awaited
    BY <1>1 DEF Recalled, Item
  <1>4. pool[Item] # NoResult
    BY <1>2, FlowExecAssumption DEF FlowExecAssumption, VerdictsAssumption, NoResult
  <1> QED
    BY <1>3, <1>4 DEF FreshItem, AtPending, Recorded, Resuming

\* A turn that goes on remembers what happens.
LEMMA GoesOn ==
    ASSUME TInv, Recalled, status = "running", pos <= Len(flow.sequence), UNCHANGED <<flow, row, mode, awaited>>,
           status' \notin {"idle", "waiting_human"}, status' = "running" => pos' = pos + 1,
           \A n \in Node : Happened(n)' => (Happened(n) \/ n = Item) /\ pool'[n] \in Verdicts
    PROVE  Recalled'
  <1>1. ASSUME status' = "running", NEW i \in pos'..Len(flow.sequence), flow.sequence[i] \in Elements(effects')
        PROVE  mode # "fresh" /\ flow.sequence[i] # awaited
    <2>1. i \in (pos + 1)..Len(flow.sequence)
      BY <1>1 DEF TInv, PositionOK
    <2>2. flow.sequence[i] \in Node /\ flow.sequence[i] # Item /\ i \in pos..Len(flow.sequence)
      BY <2>1, FlowFacts, ItemsDiffer DEF TInv, PositionOK
    <2>3. Happened(flow.sequence[i])
      BY <1>1, <2>2 DEF Happened
    <2> QED
      BY <2>2, <2>3 DEF Recalled
  <1> QED
    BY <1>1 DEF Recalled, Happened

\* So does one whose step settles with the result r.
LEMMA Settles ==
    ASSUME TInv, Recalled, status = "running", pos <= Len(flow.sequence), UNCHANGED <<flow, row, mode, awaited>>,
           NEW r \in Results \ {NoResult}, NEW register \in BOOLEAN, Settle(r, register),
           ~Happened(Item)
    PROVE  Recalled'
  <1>1. Item \in Node /\ pool' = [pool EXCEPT ![Item] = r] /\ pool \in [Node -> Results]
    BY ItemIsNode DEF Settle, TInv, TypeOK
  <1>2. status' \in {"running", "unwinding"} /\ (status' = "running" => pos' = pos + 1)
    BY SettleTyped
  <1>3. ASSUME NEW n \in Node, Happened(n)'
        PROVE  (Happened(n) \/ n = Item) /\ pool'[n] \in Verdicts
    <2>1. CASE r = "failed"
      <3>1. effects' = effects
        BY <2>1 DEF Settle
      <3>2. Happened(n) /\ n # Item
        BY <1>3, <3>1 DEF Happened
      <3> QED
        BY <1>1, <3>2 DEF Recalled
    <2>2. CASE r # "failed"
      <3>1. effects' = Append(effects, Item) /\ r \in Verdicts
        BY <2>2 DEF Settle, Results
      <3>2. Happened(n) \/ n = Item
        BY <1>1, <1>3, <3>1, HappensNow
      <3>3. CASE n = Item
        BY <1>1, <3>1, <3>3
      <3>4. CASE n # Item
        BY <1>1, <3>2, <3>4 DEF Recalled
      <3> QED
        BY <3>2, <3>3, <3>4
    <2> QED
      BY <2>1, <2>2
  <1> QED
    BY <1>2, <1>3, GoesOn

\* So does one that puts down, for what has not happened, a result that is no
\* effect, or nothing.
LEMMA PutsDown ==
    ASSUME TInv, Recalled, status = "running", pos <= Len(flow.sequence), UNCHANGED <<flow, row, mode, awaited, effects>>,
           status' \notin {"idle", "waiting_human"}, status' = "running" => pos' = pos + 1,
           \A n \in Node : Happened(n) => pool'[n] = pool[n]
    PROVE  Recalled'
  <1>1. ASSUME NEW n \in Node, Happened(n)'
        PROVE  Happened(n) /\ pool'[n] \in Verdicts
    <2>1. Happened(n) /\ pool[n] \in Verdicts
      BY <1>1 DEF Happened, Recalled
    <2> QED
      BY <2>1
  <1> QED
    BY <1>1, GoesOn

-------------------------------------------------------------------------------
\* Turns are of runs that run or wait, and nothing happens before a run begins.
LEMMA NextPhases == TInv /\ Phases /\ [Next]_vars => Phases'
  <1> SUFFICES ASSUME TInv, Phases, [Next]_vars
               PROVE  Phases'
    OBVIOUS
  <1>1. CASE StartRun
    <2>1. /\ row.status = "none" /\ row'.status = "running" /\ mode' = "fresh"
          /\ UNCHANGED <<scanned, effects>>
      BY <1>1 DEF StartRun, BeginTurn, TInv, TypeOK
    <2> QED
      BY <2>1 DEF Phases, Over
  <1>2. CASE (\E answer \in {"approve", "reject"} : Reply(answer)) \/ LateReplyFails
    <2>1. /\ row.status = "waiting_human" /\ row' = row /\ mode' # "fresh"
          /\ UNCHANGED <<scanned, effects>>
      BY <1>2 DEF Reply, LateReplyFails, BeginTurn
    <2> QED
      BY <2>1 DEF Phases
  <1>3. CASE LateReplyEnds \/ Expire
    <2>1. /\ row'.status = "timeout" /\ UNCHANGED <<status, mode, effects>>
          /\ status = "idle" \/ scanned
      BY <1>3 DEF LateReplyEnds, Expire, TimeOut, TInv, TypeOK, memory, history
    <2>2. status # "idle" => mode # "fresh"
      BY <2>1 DEF Phases, Over
    <2> QED
      BY <2>1, <2>2 DEF Phases, Over
  <1>4. CASE Scan
    BY <1>4 DEF Scan, Phases, memory, history
  <1>5. CASE TakeBranch \/ ConditionFails \/ PassRecorded \/ SkipUntaken \/ Suspend \/ ResumeFailed
             \/ ResumeRejected \/ Compensate \/ FailFast \/ Complete \/ \E r \in Results \ {NoResult} : ResumeReplied(r)
    <2>1. status # "idle" /\ UNCHANGED <<row, mode, scanned, effects>>
      BY <1>5 DEF TakeBranch, ConditionFails, PassRecorded, SkipUntaken, Suspend, ResumeFailed, ResumeRejected,
                  Compensate, FailFast, Complete, ResumeReplied, Looping, surroundings, memory, history
    <2> QED
      BY <2>1 DEF Phases
  <1>6. CASE \E r \in Results \ {NoResult} : \E k \in Tries \cup {0} : Invoke(r, k) \/ ResumeGranted(r, k)
    <2>1. status # "idle" /\ UNCHANGED <<row, mode, scanned>>
      BY <1>6 DEF Invoke, ResumeGranted, Looping, surroundings
    <2>2. row.status # "none"
      BY <2>1 DEF Phases
    <2> QED
      BY <2>1, <2>2 DEF Phases
  <1>7. CASE SaveWaiting
    <2>1. row'.status = "waiting_human" /\ status' = "idle"
      BY <1>7 DEF SaveWaiting, EndTurn
    <2> QED
      BY <2>1 DEF Phases
  <1>8. CASE FinishRun
    <2>1. /\ row'.status \in {row.status} \cup Over /\ row.status # "none"
          /\ status' = "idle" /\ scanned' = scanned
      BY <1>8 DEF FinishRun, EndTurn, Outcomes, Storable, Over, Phases, TInv, TypeOK
    <2> QED
      BY <2>1 DEF Phases, Over
  <1>9. CASE Abort
    BY <1>9 DEF Abort, EndTurn, Phases, history
  <1>10. CASE UNCHANGED vars
    BY <1>10 DEF vars, memory, history, Phases
  <1> QED
    BY <1>1, <1>2, <1>3, <1>4, <1>5, <1>6, <1>7, <1>8, <1>9, <1>10 DEF Next, Step

\* No step replaces the flow.
LEMMA SameFlow == [Next]_vars => flow' = flow
  BY DEF Next, Step, StartRun, Reply, LateReplyFails, LateReplyEnds, TimeOut, Scan, Expire, BeginTurn, EndTurn,
         TakeBranch, ConditionFails, PassRecorded, SkipUntaken, Suspend, Invoke, ResumeGranted, ResumeReplied,
         ResumeFailed, ResumeRejected, Compensate, FailFast, Complete, SaveWaiting, FinishRun, Abort, surroundings, vars

\* Nothing is rolled back without a compensation, and nothing waits that nobody
\* is asked about.
LEMMA NextUnstored == TInv /\ Unstored /\ [Next]_vars => Unstored'
  <1> SUFFICES ASSUME TInv, Unstored, [Next]_vars
               PROVE  Unstored'
    OBVIOUS
  <1>f. flow' = flow
    BY SameFlow
  <1>1. CASE StartRun
    <2>1. saga' = <<>> /\ status' = "running" /\ row'.status = "running" /\ mode' = "fresh"
      BY <1>1 DEF StartRun, BeginTurn, TInv, TypeOK
    <2> QED
      BY <1>f, <2>1 DEF Unstored
  <1>2. CASE (\E answer \in {"approve", "reject"} : Reply(answer)) \/ LateReplyFails
    <2>1. saga' = <<>> /\ status' = "running" /\ row.status = "waiting_human"
      BY <1>2 DEF Reply, LateReplyFails, BeginTurn
    <2> QED
      BY <1>f, <2>1 DEF Unstored
  <1>3. CASE LateReplyEnds \/ Scan \/ Expire
    <2>1. UNCHANGED <<saga, status, mode>> /\ row'.status \in {row.status, "timeout"}
      BY <1>3 DEF LateReplyEnds, Scan, Expire, TimeOut, memory, TInv, TypeOK
    <2> QED
      BY <1>f, <2>1 DEF Unstored
  <1>4. CASE TakeBranch \/ PassRecorded \/ SkipUntaken \/ ResumeFailed \/ \E r \in Results \ {NoResult} : ResumeReplied(r)
    <2>1. UNCHANGED <<saga, status, row, mode>>
      BY <1>4 DEF TakeBranch, PassRecorded, SkipUntaken, ResumeFailed, ResumeReplied, surroundings
    <2> QED
      BY <1>f, <2>1 DEF Unstored
  <1>5. CASE ConditionFails \/ ResumeRejected \/ FailFast \/ Complete
    <2>1. UNCHANGED <<saga, row, mode>> /\ status' \in {"failed", "rejected", "completed"}
      BY <1>5 DEF ConditionFails, ResumeRejected, FailFast, Complete, memory, surroundings
    <2> QED
      BY <1>f, <2>1 DEF Unstored
  <1>6. CASE Suspend
    <2>1. UNCHANGED <<saga, row>> /\ status' = "waiting_human"
      BY <1>6 DEF Suspend, memory
    <2>2. pos \in 1..Len(flow.sequence) /\ AsksHuman(Item)
      BY <1>6, FlowFacts DEF Suspend, Looping, TInv, PositionOK
    <2>3. Suspending(flow)
      BY <2>2 DEF Suspending, AsksHuman, Gated, Item
    <2> QED
      BY <1>f, <2>1, <2>3 DEF Unstored
  <1>7. ASSUME NEW r \in Results \ {NoResult}, NEW k \in Tries \cup {0}, Invoke(r, k) \/ ResumeGranted(r, k)
        PROVE  Unstored'
    <2>1. UNCHANGED <<row, mode>> /\ status = "running" /\ pos <= Len(flow.sequence)
      BY <1>7 DEF Invoke, ResumeGranted, Looping, surroundings
    <2>2. status' \in {"running", "unwinding"}
      BY <1>7, <2>1 DEF Invoke, ResumeGranted, Settle
    <2>3. flow.comp \cup flow.undo = {} => saga' = saga
      BY <1>7 DEF Invoke, ResumeGranted, Settle
    <2> QED
      BY <1>f, <2>1, <2>2, <2>3 DEF Unstored
  <1>8. CASE Compensate
    <2>1. saga # <<>> /\ UNCHANGED <<row, mode>> /\ status' \in {"unwinding", "rolled_back"}
      BY <1>8 DEF Compensate, surroundings
    <2> QED
      BY <1>f, <2>1 DEF Unstored
  <1>9. CASE SaveWaiting
    <2>1. status = "waiting_human" /\ saga' = <<>> /\ status' = "idle"
      BY <1>9 DEF SaveWaiting, EndTurn
    <2> QED
      BY <1>f, <2>1 DEF Unstored
  <1>10. CASE FinishRun
    <2>1. /\ saga' = <<>> /\ status' = "idle" /\ mode' = "fresh"
          /\ row'.status \in {row.status, status} /\ status # "waiting_human"
      BY <1>10 DEF FinishRun, EndTurn, TInv, TypeOK
    <2> QED
      BY <1>f, <2>1 DEF Unstored
  <1>11. CASE Abort
    <2>1. saga' = <<>> /\ status' = "idle" /\ mode' = "fresh" /\ row' = row
      BY <1>11 DEF Abort, EndTurn
    <2> QED
      BY <1>f, <2>1 DEF Unstored
  <1>12. CASE UNCHANGED vars
    BY <1>12 DEF vars, memory, Unstored
  <1> QED
    BY <1>1, <1>2, <1>3, <1>4, <1>5, <1>6, <1>7, <1>8, <1>9, <1>10, <1>11, <1>12 DEF Next, Step

\* What has happened stays on record in a run that is not torn.
LEMMA NextRecalled ==
    ASSUME TInv, Phases, Unstored, Recalled, ~Torn(flow), [Next]_vars
    PROVE  Recalled'
  <1>1. CASE StartRun
    <2>1. effects' = <<>> /\ status' = "running"
      BY <1>1 DEF StartRun, BeginTurn, Phases
    <2>2. \A n : ~Happened(n)'
      BY <2>1 DEF Happened, Elements
    <2> QED
      BY <2>1, <2>2 DEF Recalled
  <1>2. CASE (\E answer \in {"approve", "reject"} : Reply(answer)) \/ LateReplyFails
    <2>1. /\ status = "idle" /\ row.status = "waiting_human" /\ pool' = row.saved /\ awaited' = row.pending
          /\ status' = "running" /\ mode' # "fresh" /\ pos' = 1 /\ UNCHANGED <<flow, row, effects>>
      BY <1>2 DEF Reply, LateReplyFails, BeginTurn
    <2>2. \A n \in Node : Happened(n)' => row.saved[n] \in Verdicts /\ n # row.pending
      BY <2>1 DEF Recalled, Happened
    <2>3. \A i \in 1..Len(flow.sequence) : flow.sequence[i] \in Node
      BY FlowFacts DEF TInv, PositionOK
    <2> QED
      BY <2>1, <2>2, <2>3 DEF Recalled
  <1>3. CASE LateReplyEnds \/ Expire
    <2>1. row'.status = "timeout" /\ UNCHANGED <<flow, status, mode, awaited, pos, pool, effects>>
      BY <1>3 DEF LateReplyEnds, Expire, TimeOut, memory, history, TInv, TypeOK
    <2> QED
      BY <2>1 DEF Recalled, Happened, Item
  <1>4. CASE Scan
    BY <1>4 DEF Scan, memory, history, Recalled, Happened, Item
  <1>5. CASE TakeBranch \/ PassRecorded \/ SkipUntaken \/ ConditionFails
    <2>1. /\ status = "running" /\ pos <= Len(flow.sequence) /\ pool' = pool
          /\ UNCHANGED <<flow, row, mode, awaited, effects>>
          /\ status' \in {"running", "failed"} /\ (status' = "running" => pos' = pos + 1)
      BY <1>5 DEF TakeBranch, PassRecorded, SkipUntaken, ConditionFails, Looping, surroundings, memory, history
    <2> QED
      BY <2>1, PutsDown
  <1>6. CASE Suspend
    <2>1. /\ status = "running" /\ pos <= Len(flow.sequence) /\ FreshItem
          /\ status' = "waiting_human" /\ UNCHANGED <<flow, row, mode, pos, pool, effects>>
      BY <1>6 DEF Suspend, Looping, memory, history
    <2>2. ~Happened(Item)
      BY <2>1, NotYet
    <2> QED
      BY <2>1, <2>2 DEF Recalled, Happened, Item
  <1>7. ASSUME NEW r \in Results \ {NoResult}, NEW k \in Tries \cup {0}, Invoke(r, k)
        PROVE  Recalled'
    <2>1. /\ status = "running" /\ pos <= Len(flow.sequence) /\ FreshItem
          /\ UNCHANGED <<flow, row, mode, awaited>>
          /\ Settle(r, r # "failed" /\ Item \in flow.comp \cup flow.undo)
      BY <1>7 DEF Invoke, Looping, surroundings
    <2> QED
      BY <2>1, NotYet, Settles
  <1>8. ASSUME NEW r \in Results \ {NoResult}, NEW k \in Tries \cup {0}, ResumeGranted(r, k)
        PROVE  Recalled'
    <2>1. /\ status = "running" /\ pos <= Len(flow.sequence) /\ AtPending
          /\ UNCHANGED <<flow, row, mode, awaited>>
          /\ Settle(r, Item \in flow.comp)
      BY <1>8 DEF ResumeGranted, Looping, surroundings
    <2>2. ~Happened(Item)
      BY <2>1, NotYet
    <2>3. CASE Item \in flow.comp
      <3>1. Settle(r, TRUE)
        BY <2>1, <2>3 DEF Settle
      <3> QED
        BY <2>1, <2>2, <3>1, Settles
    <2>4. CASE Item \notin flow.comp
      <3>1. Settle(r, FALSE)
        BY <2>1, <2>4 DEF Settle
      <3> QED
        BY <2>1, <2>2, <3>1, Settles
    <2> QED
      BY <2>3, <2>4
  <1>9. ASSUME NEW r \in Results \ {NoResult}, ResumeReplied(r)
        PROVE  Recalled'
    <2>1. /\ status = "running" /\ pos <= Len(flow.sequence) /\ AtPending
          /\ UNCHANGED <<flow, row, mode, awaited, effects>>
          /\ pool' = [pool EXCEPT ![Item] = r] /\ status' = "running" /\ pos' = pos + 1
      BY <1>9 DEF ResumeReplied, Looping, surroundings
    <2>2. ~Happened(Item)
      BY <2>1, NotYet
    <2>3. \A n \in Node : Happened(n) => pool'[n] = pool[n]
      BY <2>1, <2>2 DEF TInv, TypeOK
    <2> QED
      BY <2>1, <2>3, PutsDown
  <1>10. CASE ResumeFailed \/ ResumeRejected
    <2>1. /\ status = "running" /\ pos <= Len(flow.sequence) /\ AtPending
          /\ UNCHANGED <<flow, row, mode, awaited, effects>>
          /\ pool' = [pool EXCEPT ![Item] = "failed"]
          /\ status' \in {"running", "rejected"} /\ (status' = "running" => pos' = pos + 1)
      BY <1>10 DEF ResumeFailed, ResumeRejected, Looping, surroundings
    <2>2. ~Happened(Item)
      BY <2>1, NotYet
    <2>3. \A n \in Node : Happened(n) => pool'[n] = pool[n]
      BY <2>1, <2>2 DEF TInv, TypeOK
    <2> QED
      BY <2>1, <2>3, PutsDown
  <1>11. CASE Compensate \/ FailFast \/ Complete
    <2>1. /\ status # "idle" /\ UNCHANGED <<pool, effects>>
          /\ status' \in {"unwinding", "rolled_back", "failed", "completed"}
      BY <1>11 DEF Compensate, FailFast, Complete, surroundings, memory, history
    <2> QED
      BY <2>1 DEF Recalled, Happened
  <1>12. CASE SaveWaiting
    <2>1. /\ status = "waiting_human" /\ status' = "idle" /\ effects' = effects
          /\ row'.pending = Item /\ row'.saved = SavedPool
      BY <1>12 DEF SaveWaiting, EndTurn, history
    <2>2. ASSUME NEW n \in Node, Happened(n)'
          PROVE  row'.saved[n] \in Verdicts /\ n # row'.pending
      <3>1. Happened(n) /\ pool[n] \in Verdicts /\ n # Item
        BY <2>1, <2>2 DEF Recalled, Happened
      <3> QED
        BY <2>1, <3>1 DEF SavedPool
    <2> QED
      BY <2>1, <2>2 DEF Recalled
  <1>13. CASE FinishRun
    <2>1. /\ status' = "idle" /\ row'.status \in {row.status, status} /\ status # "idle"
          /\ status # "waiting_human" /\ (row'.status # status => status = "rolled_back" /\ row' = row)
      BY <1>13 DEF FinishRun, EndTurn, Outcomes, Storable, TInv, TypeOK
    <2>2. row'.status # "waiting_human"
      BY <2>1 DEF Torn, Unstored
    <2> QED
      BY <2>1, <2>2 DEF Recalled
  <1>14. CASE Abort
    BY <1>14 DEF Abort, Torn
  <1>15. CASE UNCHANGED vars
    BY <1>15 DEF vars, memory, history, Recalled, Happened, Item
  <1> QED
    BY <1>1, <1>2, <1>3, <1>4, <1>5, <1>6, <1>7, <1>8, <1>9, <1>10, <1>11, <1>12, <1>13, <1>14, <1>15 DEF Next, Step

\* Every action keeps it all.
LEMMA NextRun ==
    ASSUME RunInv, [Next]_vars
    PROVE  RunInv'
  <1>1. TInv' /\ Phases' /\ Unstored'
    BY NextTInv, NextPhases, NextUnstored DEF RunInv
  <1>2. flow' = flow
    BY SameFlow
  <1>3. Torn(flow) \/ Recalled'
    BY NextRecalled DEF RunInv
  <1> QED
    BY <1>1, <1>2, <1>3 DEF RunInv

\* A step that shows nothing of itself.
LEMMA Unseen ==
    ASSUME UNCHANGED <<flow, row, effects>>, status = "idle" <=> status' = "idle"
    PROVE  UNCHANGED Run!vars
  BY DEF Run!vars

\* A step that completes a node is an effect of the life cycle.
LEMMA EffectSeen ==
    ASSUME TInv, status = "running", status' # "idle", UNCHANGED <<flow, row>>, NEW n \in Node,
           effects' = Append(effects, n), Torn(flow) \/ ~Happened(n)
    PROVE  Run!Effect(n)
  <1>1. effects \in Seq(Node)
    BY DEF TInv, TypeOK
  <1>2. ~Torn(flow) => Cardinality({i \in DOMAIN effects : effects[i] = n}) = 0
    BY <1>1, NothingCounts DEF Happened
  <1>3. Done(effects') = [Done(effects) EXCEPT ![n] = @ + 1]
    BY <1>1, EffectCounts
  <1>4. Done(effects)[n] = 0 \/ Torn(flow)
    BY <1>2 DEF Done
  <1>5. /\ UNCHANGED (IF row.status \in Over THEN "over" ELSE row.status)
        /\ (status # "idle")' = (status # "idle")
        /\ Torn(flow)' = Torn(flow)
    OBVIOUS
  <1> QED
    BY <1>3, <1>4, <1>5 DEF Run!Effect, Done

\* So is the end of a turn.
LEMMA EndSeen ==
    ASSUME UNCHANGED <<flow, effects>>, status # "idle", status' = "idle",
           NEW outcome, (IF row.status \in Over THEN "over" ELSE row.status)' = outcome
    PROVE  Run!EndTurn(outcome)
  BY DEF Run!EndTurn

\* Each step of a run is a step of the life cycle or shows nothing.
LEMMA StepSeen ==
    ASSUME RunInv, RunInv', [Next]_vars
    PROVE  [Run!Next]_Run!vars
  <1>t. TInv /\ Phases /\ Unstored /\ (Torn(flow) \/ Recalled) /\ flow' = flow
    BY SameFlow DEF RunInv
  <1>1. CASE StartRun
    <2>1. /\ row.status = "none" /\ row'.status = "running" /\ effects' = effects
          /\ status' # "idle"
      BY <1>1, <1>t DEF StartRun, BeginTurn, TInv, TypeOK
    <2> QED
      BY <1>t, <2>1 DEF Run!Next, Run!Begin, Over
  <1>2. CASE LateReplyEnds \/ Expire
    <2>1. /\ row.status \in {"waiting_human"} \cup Over /\ row'.status = "timeout"
          /\ UNCHANGED <<status, effects>>
      BY <1>2, <1>t DEF LateReplyEnds, Expire, TimeOut, Phases, TInv, TypeOK, history
    <2>2. CASE row.status = "waiting_human"
      BY <1>t, <2>1, <2>2 DEF Run!Next, Run!Expire, Over
    <2>3. CASE row.status \in Over
      BY <1>t, <2>1, <2>3 DEF Run!vars, Over
    <2> QED
      BY <2>1, <2>2, <2>3
  <1>3. CASE Scan
    BY <1>3, Unseen DEF Scan, memory, history
  <1>4. CASE (\E answer \in {"approve", "reject"} : Reply(answer)) \/ LateReplyFails
    <2>1. /\ row.status = "waiting_human" /\ status = "idle" /\ status' # "idle"
          /\ UNCHANGED <<row, effects>>
      BY <1>4 DEF Reply, LateReplyFails, BeginTurn
    <2> QED
      BY <1>t, <2>1 DEF Run!Next, Run!Resume, Over
  <1>5. CASE TakeBranch \/ ConditionFails \/ PassRecorded \/ SkipUntaken \/ Suspend \/ ResumeFailed
             \/ ResumeRejected \/ Compensate \/ FailFast \/ Complete \/ \E r \in Results \ {NoResult} : ResumeReplied(r)
    <2>1. status # "idle" /\ status' # "idle" /\ UNCHANGED <<flow, row, effects>>
      BY <1>5 DEF TakeBranch, ConditionFails, PassRecorded, SkipUntaken, Suspend, ResumeFailed, ResumeRejected,
                  Compensate, FailFast, Complete, ResumeReplied, Looping, surroundings, memory, history
    <2> QED
      BY <2>1, Unseen
  <1>6. ASSUME NEW r \in Results \ {NoResult}, NEW k \in Tries \cup {0}, Invoke(r, k) \/ ResumeGranted(r, k)
        PROVE  [Run!Next]_Run!vars
    <2>1. /\ status = "running" /\ pos <= Len(flow.sequence) /\ (FreshItem \/ AtPending)
          /\ UNCHANGED <<flow, row>> /\ effects' \in {effects, Append(effects, Item)}
          /\ status' \in {"running", "unwinding"}
      BY <1>6 DEF Invoke, ResumeGranted, Looping, Settle, surroundings
    <2>2. Item \in Node /\ (Torn(flow) \/ ~Happened(Item))
      BY <1>t, <2>1, ItemIsNode, NotYet
    <2>3. CASE effects' = effects
      BY <2>1, <2>3, Unseen
    <2>4. CASE effects' = Append(effects, Item)
      <3>1. Run!Effect(Item)
        BY <1>t, <2>1, <2>2, <2>4, EffectSeen
      <3> QED
        BY <2>2, <3>1 DEF Run!Next
    <2> QED
      BY <2>1, <2>3, <2>4
  <1>7. CASE SaveWaiting
    <2>1. /\ status # "idle" /\ status' = "idle" /\ row'.status = "waiting_human" /\ effects' = effects
      BY <1>7 DEF SaveWaiting, EndTurn, history
    <2>2. Run!EndTurn("waiting_human")
      BY <1>t, <2>1, EndSeen DEF Over
    <2> QED
      BY <2>2 DEF Run!Next
  <1>8. CASE FinishRun \/ Abort
    <2>1. status # "idle" /\ status' = "idle" /\ effects' = effects
      BY <1>8 DEF FinishRun, Abort, EndTurn, Outcomes, history
    <2>2. CASE row'.status \in Over
      <3>1. Run!EndTurn("over")
        BY <1>t, <2>1, <2>2, EndSeen
      <3> QED
        BY <3>1 DEF Run!Next
    <2>3. CASE row'.status \notin Over
      <3>1. row' = row /\ (status = "rolled_back" \/ flow.cut)
        BY <1>8, <1>t, <2>3 DEF FinishRun, Abort, Outcomes, Storable, Over, TInv, TypeOK
      <3>2. Run!Lose
        <4> SUFFICES ASSUME ~Torn(flow)
                     PROVE  row.status = "running" /\ row.status \notin Over
          BY DEF Run!Lose
        <4>1. mode = "fresh"
          BY <1>t, <3>1 DEF Torn, Unstored
        <4> QED
          BY <1>t, <2>1, <4>1 DEF Phases, Over
      <3>3. Run!EndTurn(IF row.status \in Over THEN "over" ELSE row.status)
        BY <1>t, <2>1, <3>1, EndSeen
      <3> QED
        BY <3>2, <3>3 DEF Run!Next
    <2> QED
      BY <2>2, <2>3
  <1>9. CASE UNCHANGED vars
    BY <1>9, Unseen DEF vars, history
  <1> QED
    BY <1>1, <1>2, <1>3, <1>4, <1>5, <1>6, <1>7, <1>8, <1>9 DEF Next, Step

\* A run implements the life cycle that its flow_runs row shows (RunLifecycle): it
\* begins once, its turns begin on a new or a waiting row only, and unless its turns
\* can be cut off, or end rolled back in a flow that suspends, they leave their
\* outcome and no node takes effect twice, through any replies and through time-outs
\* that come at any moment, during a turn too.
THEOREM ImplementsLifecycle == Spec => ImplementsRunLifecycle
  <1>1. Init => RunInv
    <2> SUFFICES ASSUME Init
                 PROVE  RunInv
      OBVIOUS
    <2>1. Phases /\ Unstored /\ Recalled
      BY DEF Init, Phases, Unstored, Recalled
    <2> QED
      BY <2>1, InitTInv DEF RunInv
  <1>2. RunInv /\ [Next]_vars => RunInv'
    BY NextRun
  <1>3. Init => Run!Init
    <2> SUFFICES ASSUME Init
                 PROVE  Run!Init
      OBVIOUS
    <2>1. row.status = "none" /\ status = "idle" /\ effects = <<>>
      BY DEF Init
    <2>2. \A n \in Node : Cardinality({i \in DOMAIN effects : effects[i] = n}) = 0
      BY <2>1, FS_EmptySet
    <2>3. Torn(flow) \in BOOLEAN
      BY FlowExecAssumption DEF Init, FlowExecAssumption, FlowsAssumption, Torn
    <2> QED
      BY <2>1, <2>2, <2>3 DEF Run!Init, Over
  <1>4. RunInv /\ RunInv' /\ [Next]_vars => [Run!Next]_Run!vars
    BY StepSeen
  <1> QED
    BY <1>1, <1>2, <1>3, <1>4, PTL DEF Spec, ImplementsRunLifecycle, Run!Spec

-------------------------------------------------------------------------------
(****************************************************************************)
(* The compiler.  A graph whose lists are lists and whose edges join nodes  *)
(* is drawn; the other rules of validate_workflow are used where they are   *)
(* needed.  The loops of the algorithms are recursive functions: each is    *)
(* shown to have a value, step by step (Stepwise), and reasoned about by    *)
(* counting its steps (Counting) or the nodes in Kahn's order.              *)
(****************************************************************************)
\* A graph whose lists are lists and whose edges join nodes.
Drawn(g) ==
    /\ g.ids \in Seq(NodesOf(g)) /\ IsInjective(g.ids)
    /\ g.edges \in Seq(ToSet(g.edges))
    /\ EdgeRules(g)

\* A drawn graph has finitely many nodes, as many as ids.
LEMMA NodesCounted ==
    ASSUME NEW g, Drawn(g)
    PROVE  Len(g.ids) \in Nat /\ IsFiniteSet(NodesOf(g)) /\ Cardinality(NodesOf(g)) = Len(g.ids)
  <1>1. Len(g.ids) \in Nat /\ DOMAIN g.ids = 1..Len(g.ids)
    BY DEF Drawn
  <1>2. IsFiniteSet(1..Len(g.ids)) /\ Cardinality(1..Len(g.ids)) = Len(g.ids)
    <2> DEFINE N == Len(g.ids)
    <2>1. N \in Nat
      BY <1>1
    <2> HIDE DEF N
    <2>2. IsFiniteSet(1..N) /\ Cardinality(1..N) = IF 1 > N THEN 0 ELSE N - 1 + 1
      BY <2>1, FS_Interval
    <2>3. IsFiniteSet(1..N) /\ Cardinality(1..N) = N
      BY <2>1, <2>2
    <2> QED
      BY <2>3 DEF N
  <1>3. g.ids \in Bijection(1..Len(g.ids), NodesOf(g))
    <2>1. g.ids \in [1..Len(g.ids) -> NodesOf(g)]
      BY <1>1 DEF Drawn
    <2>2. \A a, b \in 1..Len(g.ids) : g.ids[a] = g.ids[b] => a = b
      BY <1>1 DEF Drawn, IsInjective
    <2>3. \A n \in NodesOf(g) : \E a \in 1..Len(g.ids) : g.ids[a] = n
      BY <1>1 DEF NodesOf, ToSet
    <2> QED
      BY <1>1, <2>1, <2>2, <2>3 DEF Bijection, Injection, Surjection, IsInjective
  <1>4. ExistsBijection(1..Len(g.ids), NodesOf(g))
    BY <1>3 DEF ExistsBijection
  <1> QED
    BY <1>1, <1>2, <1>4, FS_Bijection

\* What the edges E lead to from T.
Onward(E, T) == {e.target : e \in {d \in E : d.source \in T}}

\* f is the sweep that Closure computes, pass by pass.
Sweeps(g, S, E, f) ==
    /\ f \in [0..Len(g.ids) -> SUBSET NodesOf(g)] /\ f[0] = S
    /\ \A i \in 1..Len(g.ids) : f[i] = f[i - 1] \cup Onward(E, f[i - 1])
    /\ Closure(g, S, E) = f[Len(g.ids)]

\* There is such a sweep.
LEMMA ClosureSweep ==
    ASSUME NEW g, Drawn(g), NEW S \in SUBSET NodesOf(g), NEW E, \A e \in E : e.target \in NodesOf(g)
    PROVE  \E f : Sweeps(g, S, E, f)
  <1> DEFINE N == Len(g.ids)
             V == SUBSET NodesOf(g)
             step == [i \in 1..N |-> [T \in V |-> T \cup Onward(E, T)]]
             rec(f) == [i \in 0..N |->
                           IF i = 0 THEN S
                           ELSE LET seen == f[i - 1]
                                IN  seen \cup {e.target : e \in {d \in E : d.source \in seen}}]
  <1>1. N \in Nat /\ S \in V /\ step \in [1..N -> [V -> V]]
    BY NodesCounted DEF Onward
  <1>2. PICK f : Unfolds(N, V, S, step, f)
    <2> HIDE DEF step, V, N
    <2> QED
      BY <1>1, Stepwise
  <1>3. ASSUME NEW i \in 1..N, NEW h, h[i - 1] \in V
        PROVE  step[i][h[i - 1]] = rec(h)[i]
    <2>1. i \in 0..N /\ i # 0
      BY <1>1
    <2> QED
      BY <1>3, <2>1 DEF Onward
  <1>4. f = rec(f)
    <2>1. f = [i \in 0..N |-> f[i]]
      BY <1>2 DEF Unfolds
    <2>2. ASSUME NEW i \in 0..N PROVE f[i] = rec(f)[i]
      <3>1. CASE i = 0
        BY <1>2, <3>1 DEF Unfolds
      <3>2. CASE i # 0
        <4>1. i \in 1..N /\ i - 1 \in 0..N
          BY <3>2, <1>1
        <4>2. f[i - 1] \in V
          BY <4>1, <1>2 DEF Unfolds
        <4>3. f[i] = step[i][f[i - 1]]
          BY <4>1, <1>2 DEF Unfolds
        <4> HIDE DEF step, V, rec
        <4> QED
          BY <1>3, <4>1, <4>2, <4>3
      <3> QED
        BY <3>1, <3>2
    <2> QED
      BY <2>1, <2>2
  <1> DEFINE ch == CHOOSE h : h = rec(h)
  <1>5. ch = rec(ch)
    <2> HIDE DEF rec
    <2> QED
      BY <1>4
  <1>6. Closure(g, S, E) = ch[N]
    BY DEF Closure
  <1> HIDE DEF ch
  <1>7. ch[0] = S
    BY <1>1, <1>5
  <1>8. \A i \in 1..N : ch[i - 1] \in V => ch[i] = step[i][ch[i - 1]]
    <2> HIDE DEF step, V, rec
    <2> QED
      BY <1>3, <1>5
  <1>9. \A i \in 0..N : ch[i] \in V
    <2>1. Follows(N, V, S, step, ch)
      <3> HIDE DEF step, V, rec
      <3> QED
        BY <1>7, <1>8 DEF Follows
    <2> HIDE DEF step, V, rec, N
    <2> QED
      BY <1>1, <2>1, Stepped
  <1>10. ch = [i \in 0..N |-> ch[i]]
    BY <1>5
  <1>11. \A i \in 1..N : ch[i] = ch[i - 1] \cup Onward(E, ch[i - 1])
    <2>1. \A i \in 1..N : i \in 0..N /\ i - 1 \in 0..N /\ i # 0
      BY <1>1
    <2> QED
      BY <1>8, <1>9, <2>1
  <1> QED
    BY <1>6, <1>7, <1>9, <1>10, <1>11 DEF Sweeps

\* Closed under the edges E.
ClosedUnder(E, T) == \A e \in E : e.source \in T => e.target \in T

\* The sweep has as many passes as there are nodes, so at its end there is
\* nothing left to add; and it adds nothing that a closed set does not have.
LEMMA ClosureLeast ==
    ASSUME NEW g, Drawn(g), NEW S \in SUBSET NodesOf(g), NEW E, \A e \in E : e.target \in NodesOf(g)
    PROVE  /\ S \subseteq Closure(g, S, E) /\ Closure(g, S, E) \subseteq NodesOf(g)
           /\ ClosedUnder(E, Closure(g, S, E))
           /\ \A T : S \subseteq T /\ ClosedUnder(E, T) => Closure(g, S, E) \subseteq T
  <1> DEFINE N == Len(g.ids)
  <1>0. PICK f : Sweeps(g, S, E, f)
    BY ClosureSweep
  <1>1. /\ f \in [0..N -> SUBSET NodesOf(g)] /\ f[0] = S
        /\ \A i \in 1..N : f[i] = f[i - 1] \cup Onward(E, f[i - 1])
        /\ Closure(g, S, E) = f[N]
    BY <1>0 DEF Sweeps
  <1>2. N \in Nat /\ IsFiniteSet(NodesOf(g)) /\ Cardinality(NodesOf(g)) = N
    BY NodesCounted
  <1> HIDE DEF N
  <1>3. \A i \in 0..N : f[i] \subseteq NodesOf(g) /\ IsFiniteSet(f[i]) /\ Cardinality(f[i]) \in Nat
    BY <1>1, <1>2, FS_Subset, FS_CardinalityType
  <1>4. S \subseteq f[N]
    <2> DEFINE T == {i \in 0..N : S \subseteq f[i]}
    <2>1. 0 \in T
      BY <1>1, <1>2
    <2>2. ASSUME NEW n \in 0..(N - 1), n \in T PROVE n + 1 \in T
      <3>1. n + 1 \in 1..N /\ n + 1 \in 0..N /\ n + 1 - 1 = n
        BY <1>2
      <3>2. f[n + 1] = f[n] \cup Onward(E, f[n])
        BY <1>1, <3>1
      <3> QED
        BY <2>2, <3>1, <3>2
    <2>3. 0..N \subseteq T
      <3> HIDE DEF T
      <3> QED
        BY <1>2, <2>1, <2>2, Counting
    <2> QED
      BY <1>2, <2>3
  <1>5. ClosedUnder(E, f[N])
    <2> DEFINE T == {i \in 0..N : ClosedUnder(E, f[i]) \/ Cardinality(f[i]) >= i}
    <2>1. 0 \in T
      BY <1>2, <1>3
    <2>2. ASSUME NEW n \in 0..(N - 1), n \in T PROVE n + 1 \in T
      <3>1. n + 1 \in 1..N /\ n + 1 \in 0..N /\ n \in 0..N /\ n + 1 - 1 = n
        BY <1>2
      <3>2. f[n + 1] = f[n] \cup Onward(E, f[n])
        BY <1>1, <3>1
      <3>3. CASE ClosedUnder(E, f[n])
        <4>1. f[n + 1] = f[n]
          BY <3>2, <3>3 DEF ClosedUnder, Onward
        <4> QED
          BY <3>1, <3>3, <4>1
      <3>4. CASE ~ClosedUnder(E, f[n])
        <4>1. f[n] \subseteq f[n + 1] /\ f[n] # f[n + 1]
          BY <3>2, <3>4 DEF ClosedUnder, Onward
        <4>2. Cardinality(f[n]) < Cardinality(f[n + 1])
          BY <1>3, <3>1, <4>1, FS_Subset
        <4>3. Cardinality(f[n]) >= n
          BY <2>2, <3>4
        <4> QED
          BY <1>3, <3>1, <4>2, <4>3
      <3> QED
        BY <3>3, <3>4
    <2>3. 0..N \subseteq T
      <3> HIDE DEF T
      <3> QED
        BY <1>2, <2>1, <2>2, Counting
    <2>4. CASE ClosedUnder(E, f[N])
      BY <2>4
    <2>5. CASE Cardinality(f[N]) >= N
      <3>1. Cardinality(f[N]) = Cardinality(NodesOf(g)) /\ f[N] \subseteq NodesOf(g)
        <4>1. N \in 0..N
          BY <1>2
        <4>2. Cardinality(f[N]) <= Cardinality(NodesOf(g))
          BY <1>2, <1>3, <4>1, FS_Subset
        <4> QED
          BY <1>2, <1>3, <4>1, <4>2, <2>5
      <3>2. f[N] = NodesOf(g)
        BY <1>2, <3>1, FS_Subset
      <3> QED
        BY <3>2 DEF ClosedUnder
    <2> QED
      BY <1>2, <2>3, <2>4, <2>5
  <1>6. ASSUME NEW C, S \subseteq C, ClosedUnder(E, C) PROVE f[N] \subseteq C
    <2> DEFINE T == {i \in 0..N : f[i] \subseteq C}
    <2>1. 0 \in T
      BY <1>1, <1>2, <1>6
    <2>2. ASSUME NEW n \in 0..(N - 1), n \in T PROVE n + 1 \in T
      <3>1. n + 1 \in 1..N /\ n + 1 \in 0..N /\ n + 1 - 1 = n
        BY <1>2
      <3>2. f[n + 1] = f[n] \cup Onward(E, f[n])
        BY <1>1, <3>1
      <3> QED
        BY <2>2, <3>1, <3>2, <1>6 DEF ClosedUnder, Onward
    <2>3. 0..N \subseteq T
      <3> HIDE DEF T
      <3> QED
        BY <1>2, <2>1, <2>2, Counting
    <2> QED
      BY <1>2, <2>3
  <1>7. N \in 0..N
    BY <1>2
  <1> QED
    BY <1>1, <1>3, <1>4, <1>5, <1>6, <1>7

\* What is reached is a beginning, or reached by an edge from what is reached.
LEMMA ClosureBackwards ==
    ASSUME NEW g, Drawn(g), NEW S \in SUBSET NodesOf(g), NEW E, \A e \in E : e.target \in NodesOf(g), NEW n
    PROVE  n \in Closure(g, S, E) <=>
              n \in S \/ \E e \in E : e.target = n /\ e.source \in Closure(g, S, E)
  <1> DEFINE R == Closure(g, S, E)
             C == {m \in R : m \in S \/ \E e \in E : e.target = m /\ e.source \in R}
  <1>1. S \subseteq R /\ ClosedUnder(E, R) /\ \A T : S \subseteq T /\ ClosedUnder(E, T) => R \subseteq T
    BY ClosureLeast
  <1> HIDE DEF R
  <1>2. S \subseteq C /\ ClosedUnder(E, C)
    BY <1>1 DEF ClosedUnder
  <1>3. R \subseteq C
    <2> HIDE DEF C
    <2> QED
      BY <1>1, <1>2
  <1>4. n \in R <=> n \in S \/ \E e \in E : e.target = n /\ e.source \in R
    BY <1>1, <1>3 DEF ClosedUnder
  <1> QED
    BY <1>4 DEF R

\* Every node has one place in o, after the sources of the edges to it.
Topological(g, o) ==
    /\ o \in Seq(NodesOf(g)) /\ IsInjective(o) /\ ToSet(o) = NodesOf(g)
    /\ \A p \in DOMAIN o : \A e \in Incoming(g, o[p]) : \E q \in 1..(p - 1) : o[q] = e.source

\* What passes from all earlier nodes to the next holds of all nodes.
LEMMA AlongTheOrder ==
    ASSUME NEW g, NEW o, Topological(g, o), NEW T,
           \A p \in DOMAIN o : (\A q \in 1..(p - 1) : o[q] \in T) => o[p] \in T
    PROVE  NodesOf(g) \subseteq T
  <1> DEFINE U == {p \in DOMAIN o : o[p] \notin T}
  <1>1. DOMAIN o = 1..Len(o) /\ Len(o) \in Nat
    BY DEF Topological
  <1>2. U = {}
    <2> SUFFICES ASSUME U # {} PROVE FALSE
      OBVIOUS
    <2>1. U \in SUBSET Nat
      BY <1>1
    <2>2. PICK m \in U : \A k \in U : m <= k
      <3> HIDE DEF U
      <3> QED
        BY <2>1, LeastNumber
    <2>3. \A q \in 1..(m - 1) : q \in DOMAIN o /\ q \notin U
      BY <1>1, <2>2
    <2> QED
      BY <2>3
  <1>3. \A n \in NodesOf(g) : \E p \in DOMAIN o : o[p] = n
    BY DEF Topological, ToSet
  <1> QED
    BY <1>2, <1>3

\* What passes along the edges into a node to it holds of all nodes.
LEMMA AlongTheEdges ==
    ASSUME NEW g, NEW o, Topological(g, o), NEW T,
           \A n \in NodesOf(g) : (\A e \in Incoming(g, n) : e.source \in T) => n \in T
    PROVE  NodesOf(g) \subseteq T
  <1>1. ASSUME NEW p \in DOMAIN o, \A q \in 1..(p - 1) : o[q] \in T PROVE o[p] \in T
    <2>1. o[p] \in NodesOf(g)
      BY DEF Topological, ToSet
    <2>2. \A e \in Incoming(g, o[p]) : e.source \in T
      BY <1>1 DEF Topological
    <2> QED
      BY <2>1, <2>2
  <1> QED
    BY <1>1, AlongTheOrder

\* What is after a place of the order is closed under the edges.
LEMMA OrderCloses ==
    ASSUME NEW g, Drawn(g), NEW o, Topological(g, o), NEW p \in Nat
    PROVE  ClosedUnder(ToSet(g.edges), {o[q] : q \in {r \in DOMAIN o : p <= r}})
  <1> DEFINE T == {o[q] : q \in {r \in DOMAIN o : p <= r}}
  <1>1. DOMAIN o = 1..Len(o) /\ Len(o) \in Nat
    BY DEF Topological
  <1>2. ASSUME NEW e \in ToSet(g.edges), e.source \in T PROVE e.target \in T
    <2>1. PICK q \in DOMAIN o : p <= q /\ o[q] = e.source
      BY <1>2
    <2>2. e.target \in NodesOf(g)
      BY DEF Drawn, EdgeRules
    <2>3. PICK r \in DOMAIN o : o[r] = e.target
      BY <2>2 DEF Topological, ToSet
    <2>4. e \in Incoming(g, o[r])
      BY <2>3 DEF Incoming
    <2>5. PICK s \in 1..(r - 1) : o[s] = e.source
      BY <2>4 DEF Topological
    <2>6. s \in DOMAIN o
      BY <1>1
    <2>7. s = q
      BY <2>1, <2>5, <2>6 DEF Topological, IsInjective
    <2>8. p <= r
      BY <1>1, <2>1, <2>5, <2>7
    <2> QED
      BY <2>3, <2>8
  <1> QED
    BY <1>2 DEF ClosedUnder

\* No node leads to itself, and what a node leads to comes after it.
LEMMA OrderExact ==
    ASSUME NEW g, Drawn(g), NEW o, Topological(g, o), NEW p \in DOMAIN o
    PROVE  /\ o[p] \notin Closure(g, {e.target : e \in Outgoing(g, o[p])}, ToSet(g.edges))
           /\ \A q \in DOMAIN o : o[q] \in Closure(g, {o[p]}, ToSet(g.edges)) => p <= q
  <1> DEFINE E == ToSet(g.edges)
             T(k) == {o[q] : q \in {r \in DOMAIN o : k <= r}}
  <1>1. DOMAIN o = 1..Len(o) /\ Len(o) \in Nat /\ p \in Nat /\ p + 1 \in Nat
    BY DEF Topological
  <1>2. \A k \in Nat : ClosedUnder(E, T(k))
    BY OrderCloses
  <1>3. \A e \in E : e.target \in NodesOf(g)
    BY DEF Drawn, EdgeRules
  <1>4. \A k \in Nat : \A q \in DOMAIN o : o[q] \in T(k) => k <= q
    BY <1>1 DEF Topological, IsInjective
  <1>5. o[p] \in NodesOf(g)
    BY DEF Topological, ToSet
  <1>6. ASSUME NEW e \in Outgoing(g, o[p]) PROVE e.target \in T(p + 1)
    <2>1. e \in E /\ e.source = o[p]
      BY DEF Outgoing
    <2>2. PICK r \in DOMAIN o : o[r] = e.target
      BY <1>3, <2>1 DEF Topological, ToSet
    <2>3. PICK s \in 1..(r - 1) : o[s] = e.source
      BY <2>1, <2>2 DEF Topological, Incoming
    <2>4. s \in DOMAIN o /\ s = p
      BY <1>1, <2>1, <2>3 DEF Topological, IsInjective
    <2>5. p + 1 <= r
      BY <1>1, <2>3, <2>4
    <2> QED
      BY <2>2, <2>5
  <1>7. o[p] \in T(p) /\ o[p] \notin T(p + 1)
    BY <1>1, <1>4
  <1> DEFINE S == {e.target : e \in Outgoing(g, o[p])}
  <1>8. S \subseteq T(p + 1) /\ S \in SUBSET NodesOf(g) /\ {o[p]} \in SUBSET NodesOf(g) /\ {o[p]} \subseteq T(p)
    BY <1>3, <1>5, <1>6, <1>7 DEF Outgoing
  <1> HIDE DEF T, E, S
  <1>9. Closure(g, S, E) \subseteq T(p + 1)
    BY <1>1, <1>2, <1>3, <1>8, ClosureLeast
  <1>10. Closure(g, {o[p]}, E) \subseteq T(p)
    BY <1>1, <1>2, <1>3, <1>8, ClosureLeast
  <1>11. o[p] \notin Closure(g, S, E)
    BY <1>7, <1>9
  <1>12. \A q \in DOMAIN o : o[q] \in Closure(g, {o[p]}, E) => p <= q
    BY <1>1, <1>4, <1>10
  <1> QED
    BY <1>11, <1>12 DEF S, E

\* The gates a graph can have.
Gatings(g) == [NodesOf(g) -> SUBSET (NodesOf(g) \X Side)]

\* The sides that an edge decides are sides of its source.
LEMMA LabelsTyped ==
    ASSUME NEW g, Drawn(g), NEW e \in ToSet(g.edges)
    PROVE  /\ EdgeLabel(g, e) \subseteq NodesOf(g) \X Side
           /\ \A l \in EdgeLabel(g, e) : l[1] = e.source /\
                  l \in (OfType(g, {"condition"}) \cup ResultBranches(g)) \X Side
  <1>1. e.source \in NodesOf(g)
    BY DEF Drawn, EdgeRules
  <1>2. e.source \in OfType(g, {"condition"}) \/ g.type[e.source] # "condition"
    BY <1>1 DEF OfType
  <1> QED
    BY <1>1, <1>2 DEF EdgeLabel, Side

\* A join of gates is a gate.
LEMMA MergedTyped ==
    ASSUME NEW g, Drawn(g), NEW gate \in Gatings(g), NEW n
    PROVE  Merged(g, gate, n) \subseteq NodesOf(g) \X Side
  <1>1. ASSUME NEW e \in Incoming(g, n)
        PROVE  gate[e.source] \cup EdgeLabel(g, e) \subseteq NodesOf(g) \X Side
    <2>1. e \in ToSet(g.edges) /\ e.source \in NodesOf(g)
      BY DEF Incoming, Drawn, EdgeRules
    <2> QED
      BY <2>1, LabelsTyped DEF Gatings
  <1> QED
    BY <1>1 DEF Merged, Common, Contexts

\* f is the forward pass along the order o, node by node.
Passes(g, o, f) ==
    /\ f \in [0..Len(o) -> Gatings(g)] /\ f[0] = [n \in NodesOf(g) |-> {}]
    /\ \A i \in 1..Len(o) : f[i] = [f[i - 1] EXCEPT ![o[i]] = Merged(g, f[i - 1], o[i])]
    /\ Gates(g) = f[Len(o)]

\* There is such a pass.
LEMMA GatesPass ==
    ASSUME NEW g, Drawn(g), KahnOrder(g) \in Seq(NodesOf(g))
    PROVE  \E f : Passes(g, KahnOrder(g), f)
  <1> DEFINE o == KahnOrder(g)
             N == Len(o)
             V == Gatings(g)
             base == [n \in NodesOf(g) |-> {}]
             step == [i \in 1..N |-> [gate \in V |-> [gate EXCEPT ![o[i]] = Merged(g, gate, o[i])]]]
             rec(f) == [i \in 0..N |->
                           IF i = 0 THEN base
                           ELSE LET gate == f[i - 1]
                                IN  [gate EXCEPT ![o[i]] = Merged(g, gate, o[i])]]
  <1>1. N \in Nat /\ base \in V /\ step \in [1..N -> [V -> V]]
    <2>1. N \in Nat /\ base \in V
      BY DEF Gatings
    <2>2. ASSUME NEW i \in 1..N, NEW gate \in V
          PROVE  [gate EXCEPT ![o[i]] = Merged(g, gate, o[i])] \in V
      <3>1. Merged(g, gate, o[i]) \subseteq NodesOf(g) \X Side
        BY MergedTyped
      <3> QED
        BY <3>1 DEF Gatings
    <2> QED
      BY <2>1, <2>2
  <1>2. PICK f : Unfolds(N, V, base, step, f)
    <2> HIDE DEF step, V, N, base
    <2> QED
      BY <1>1, Stepwise
  <1>3. ASSUME NEW i \in 1..N, NEW h, h[i - 1] \in V
        PROVE  step[i][h[i - 1]] = rec(h)[i]
    <2>1. i \in 0..N /\ i # 0
      BY <1>1
    <2> QED
      BY <1>3, <2>1
  <1>4. f = rec(f)
    <2>1. f = [i \in 0..N |-> f[i]]
      BY <1>2 DEF Unfolds
    <2>2. ASSUME NEW i \in 0..N PROVE f[i] = rec(f)[i]
      <3>1. CASE i = 0
        BY <1>2, <3>1 DEF Unfolds
      <3>2. CASE i # 0
        <4>1. i \in 1..N /\ i - 1 \in 0..N
          BY <3>2, <1>1
        <4>2. f[i - 1] \in V
          BY <4>1, <1>2 DEF Unfolds
        <4>3. f[i] = step[i][f[i - 1]]
          BY <4>1, <1>2 DEF Unfolds
        <4> HIDE DEF step, V, rec
        <4> QED
          BY <1>3, <4>1, <4>2, <4>3
      <3> QED
        BY <3>1, <3>2
    <2> QED
      BY <2>1, <2>2
  <1> DEFINE ch == CHOOSE h : h = rec(h)
  <1>5. ch = rec(ch)
    <2> HIDE DEF rec
    <2> QED
      BY <1>4
  <1>6. Gates(g) = ch[N]
    BY DEF Gates
  <1> HIDE DEF ch
  <1>7. ch[0] = base
    BY <1>1, <1>5
  <1>8. \A i \in 1..N : ch[i - 1] \in V => ch[i] = step[i][ch[i - 1]]
    <2> HIDE DEF step, V, rec
    <2> QED
      BY <1>3, <1>5
  <1>9. \A i \in 0..N : ch[i] \in V
    <2>1. Follows(N, V, base, step, ch)
      <3> HIDE DEF step, V, rec, base
      <3> QED
        BY <1>7, <1>8 DEF Follows
    <2> HIDE DEF step, V, rec, N, base
    <2> QED
      BY <1>1, <2>1, Stepped
  <1>10. ch = [i \in 0..N |-> ch[i]]
    BY <1>5
  <1>11. \A i \in 1..N : ch[i] = [ch[i - 1] EXCEPT ![o[i]] = Merged(g, ch[i - 1], o[i])]
    <2>1. \A i \in 1..N : i \in 0..N /\ i - 1 \in 0..N /\ i # 0
      BY <1>1
    <2> QED
      BY <1>8, <1>9, <2>1
  <1> QED
    BY <1>6, <1>7, <1>9, <1>10, <1>11 DEF Passes

\* A join looks at the gates of the sources only.
LEMMA MergedLocal ==
    ASSUME NEW g, NEW gate, NEW h, NEW n, \A e \in Incoming(g, n) : gate[e.source] = h[e.source]
    PROVE  Merged(g, gate, n) = Merged(g, h, n)
  <1>1. Contexts(g, gate, n) = Contexts(g, h, n)
    BY DEF Contexts
  <1> QED
    BY <1>1 DEF Merged

\* The forward pass leaves every node with the join of its final incoming contexts.
LEMMA GatesFixed ==
    ASSUME NEW g, Drawn(g), Topological(g, KahnOrder(g))
    PROVE  /\ Gates(g) \in Gatings(g)
           /\ \A n \in NodesOf(g) : Gates(g)[n] = Merged(g, Gates(g), n)
  <1> DEFINE o == KahnOrder(g)
             N == Len(o)
  <1>1. o \in Seq(NodesOf(g)) /\ DOMAIN o = 1..N /\ N \in Nat
    BY DEF Topological
  <1>2. PICK f : Passes(g, o, f)
    BY <1>1, GatesPass
  <1> HIDE DEF o, N
  <1>3. f \in [0..N -> Gatings(g)] /\ Gates(g) = f[N]
    BY <1>2 DEF Passes, N
  <1>4. ASSUME NEW i \in 1..N
        PROVE  /\ \A n \in NodesOf(g) : n # o[i] => f[i][n] = f[i - 1][n]
               /\ f[i][o[i]] = Merged(g, f[i - 1], o[i])
    <2>1. f[i - 1] \in Gatings(g) /\ o[i] \in NodesOf(g)
      BY <1>1, <1>3
    <2>2. f[i] = [f[i - 1] EXCEPT ![o[i]] = Merged(g, f[i - 1], o[i])]
      BY <1>2 DEF Passes, N
    <2> QED
      BY <2>1, <2>2 DEF Gatings
  <1> DEFINE T == {i \in 0..N : \A q \in 1..i : f[i][o[q]] = Merged(g, f[i], o[q])}
  <1>5. 0 \in T
    BY <1>1
  <1>6. ASSUME NEW j \in 0..(N - 1), j \in T PROVE j + 1 \in T
    <2> DEFINE i == j + 1
    <2>1. i \in 1..N /\ i \in 0..N /\ i - 1 = j /\ \A q \in 1..i : q \in 1..N
      BY <1>1
    <2> HIDE DEF i
    <2>2. ASSUME NEW q \in 1..i, NEW e \in Incoming(g, o[q])
          PROVE  f[i][e.source] = f[j][e.source]
      <3>1. PICK s \in 1..(q - 1) : o[s] = e.source
        BY <1>1, <2>1 DEF Topological, o
      <3>2. s \in 1..N /\ s # i
        BY <1>1, <2>1
      <3>3. o[s] # o[i]
        BY <1>1, <2>1, <3>2 DEF Topological, IsInjective, o
      <3>4. o[s] \in NodesOf(g)
        BY <1>1, <3>2
      <3> QED
        BY <1>4, <2>1, <3>1, <3>3, <3>4
    <2>3. ASSUME NEW q \in 1..i PROVE f[i][o[q]] = Merged(g, f[i], o[q])
      <3>1. Merged(g, f[i], o[q]) = Merged(g, f[j], o[q])
        BY <2>2, MergedLocal
      <3>2. CASE q = i
        BY <1>4, <2>1, <3>1, <3>2
      <3>3. CASE q # i
        <4>1. q \in 1..j /\ q \in 1..N
          BY <2>1, <3>3
        <4>2. o[q] # o[i] /\ o[q] \in NodesOf(g)
          BY <1>1, <2>1, <4>1, <3>3 DEF Topological, IsInjective, o
        <4>3. f[i][o[q]] = f[j][o[q]]
          BY <1>4, <2>1, <4>2
        <4> QED
          BY <1>6, <3>1, <4>1, <4>3
      <3> QED
        BY <3>2, <3>3
    <2>4. i \in T
      BY <2>1, <2>3
    <2> QED
      BY <2>4 DEF i
  <1>7. N \in T
    <2> HIDE DEF T
    <2>1. 0..N \subseteq T
      BY <1>1, <1>5, <1>6, Counting
    <2> QED
      BY <1>1, <2>1
  <1>8. ASSUME NEW n \in NodesOf(g) PROVE f[N][n] = Merged(g, f[N], n)
    <2>1. PICK q \in 1..N : o[q] = n
      BY <1>1 DEF Topological, ToSet, o
    <2> QED
      BY <1>7, <2>1
  <1>9. N \in 0..N
    BY <1>1
  <1> QED
    BY <1>3, <1>8, <1>9

\* A side is in the gate of a node that has edges into it and that all of them carry it.
LEMMA GateJoins ==
    ASSUME NEW g, Drawn(g), Topological(g, KahnOrder(g)), NEW n \in NodesOf(g), NEW l
    PROVE  l \in Gates(g)[n] <=>
              /\ Incoming(g, n) # {}
              /\ \A e \in Incoming(g, n) : l \in Gates(g)[e.source] \/ l \in EdgeLabel(g, e)
  <1> DEFINE gate == Gates(g)
  <1>1. gate[n] = Merged(g, gate, n)
    BY GatesFixed
  <1> HIDE DEF gate
  <1>2. l \in Merged(g, gate, n) <=>
              /\ Incoming(g, n) # {}
              /\ \A e \in Incoming(g, n) : l \in gate[e.source] \/ l \in EdgeLabel(g, e)
    <2>1. \A C : l \in Common(C) <=> C # {} /\ \A c \in C : l \in c
      BY DEF Common
    <2>2. Contexts(g, gate, n) # {} <=> Incoming(g, n) # {}
      BY DEF Contexts
    <2>3. (\A c \in Contexts(g, gate, n) : l \in c) <=>
              \A e \in Incoming(g, n) : l \in gate[e.source] \/ l \in EdgeLabel(g, e)
      BY DEF Contexts
    <2> QED
      BY <2>1, <2>2, <2>3 DEF Merged
  <1>3. l \in gate[n] <=>
              /\ Incoming(g, n) # {}
              /\ \A e \in Incoming(g, n) : l \in gate[e.source] \/ l \in EdgeLabel(g, e)
    BY <1>1, <1>2
  <1> QED
    BY <1>3 DEF gate

\* The sides in a gate are sides of branches, which come before the node.
LEMMA GateEarlier ==
    ASSUME NEW g, Drawn(g), Topological(g, KahnOrder(g)),
           NEW p \in DOMAIN KahnOrder(g), NEW l \in Gates(g)[KahnOrder(g)[p]]
    PROVE  /\ l \in (OfType(g, {"condition"}) \cup ResultBranches(g)) \X Side
           /\ \E q \in 1..(p - 1) : KahnOrder(g)[q] = l[1]
  <1> DEFINE o == KahnOrder(g)
             B == (OfType(g, {"condition"}) \cup ResultBranches(g)) \X Side
             gate == Gates(g)
             T == {n \in NodesOf(g) : \A k \in gate[n] :
                       /\ k \in B
                       /\ \A r \in DOMAIN o : o[r] = n => \E q \in 1..(r - 1) : o[q] = k[1]}
  <1>1. DOMAIN o = 1..Len(o) /\ Len(o) \in Nat /\ ToSet(o) = NodesOf(g)
    BY DEF Topological
  <1>2. ASSUME NEW n \in NodesOf(g), \A e \in Incoming(g, n) : e.source \in T PROVE n \in T
    <2>1. ASSUME NEW k \in gate[n]
          PROVE  /\ k \in B
                 /\ \A r \in DOMAIN o : o[r] = n => \E q \in 1..(r - 1) : o[q] = k[1]
      <3>1. PICK e \in Incoming(g, n) : k \in gate[e.source] \/ k \in EdgeLabel(g, e)
        <4> HIDE DEF T
        <4> QED
          BY <2>1, GateJoins
      <3>2. e \in ToSet(g.edges)
        BY DEF Incoming
      <3>3. ASSUME NEW r \in DOMAIN o, o[r] = n PROVE \E s \in DOMAIN o : s < r /\ o[s] = e.source
        <4>1. PICK s \in 1..(r - 1) : o[s] = e.source
          BY <3>3 DEF Topological
        <4>2. s \in DOMAIN o /\ s < r
          BY <1>1
        <4> QED
          BY <4>1, <4>2
      <3>4. CASE k \in EdgeLabel(g, e)
        <4>1. k[1] = e.source /\ k \in B
          BY <3>2, <3>4, LabelsTyped
        <4>2. \A r \in DOMAIN o : o[r] = n => \E q \in 1..(r - 1) : o[q] = k[1]
          <5> HIDE DEF o
          <5> QED
            BY <1>1, <3>3, <4>1
        <4> QED
          BY <4>1, <4>2
      <3>5. CASE k \in gate[e.source]
        <4>1. /\ k \in B
              /\ \A s \in DOMAIN o : o[s] = e.source => \E q \in 1..(s - 1) : o[q] = k[1]
          BY <1>2, <3>5
        <4>2. \A r \in DOMAIN o : o[r] = n => \E q \in 1..(r - 1) : o[q] = k[1]
          <5> HIDE DEF o, B, gate, T
          <5>1. ASSUME NEW r \in DOMAIN o, o[r] = n PROVE \E q \in 1..(r - 1) : o[q] = k[1]
            <6>1. PICK s \in DOMAIN o : s < r /\ o[s] = e.source
              BY <3>3, <5>1
            <6>2. PICK q \in 1..(s - 1) : o[q] = k[1]
              BY <4>1, <6>1
            <6> QED
              BY <1>1, <6>1, <6>2
          <5> QED
            BY <5>1
        <4> QED
          BY <4>1, <4>2
      <3> QED
        BY <3>1, <3>4, <3>5
    <2> QED
      BY <2>1
  <1>3. NodesOf(g) \subseteq T
    <2> HIDE DEF T
    <2> QED
      BY <1>2, AlongTheEdges
  <1>4. o[p] \in T
    <2>1. o[p] \in NodesOf(g)
      BY <1>1 DEF ToSet
    <2> QED
      BY <1>3, <2>1
  <1> QED
    BY <1>4

\* A side is in the gate of a node exactly if every way to the node takes it.
LEMMA GateCuts ==
    ASSUME NEW g, Drawn(g), Topological(g, KahnOrder(g)), NEW n \in NodesOf(g), NEW l
    PROVE  l \in Gates(g)[n] <=>
              n \notin Closure(g, {m \in NodesOf(g) : Incoming(g, m) = {}},
                               {e \in ToSet(g.edges) : l \notin EdgeLabel(g, e)})
  <1> DEFINE S == {m \in NodesOf(g) : Incoming(g, m) = {}}
             E == {e \in ToSet(g.edges) : l \notin EdgeLabel(g, e)}
             R == Closure(g, S, E)
             T == {m \in NodesOf(g) : l \in Gates(g)[m] <=> m \notin R}
  <1>1. S \in SUBSET NodesOf(g) /\ \A e \in E : e.target \in NodesOf(g)
    BY DEF Drawn, EdgeRules
  <1>2. \A m : m \in R <=> m \in S \/ \E e \in E : e.target = m /\ e.source \in R
    <2> HIDE DEF S, E
    <2> QED
      BY <1>1, ClosureBackwards
  <1> HIDE DEF R
  <1>3. ASSUME NEW m \in NodesOf(g), \A e \in Incoming(g, m) : e.source \in T PROVE m \in T
    <2>1. l \in Gates(g)[m] <=>
              /\ Incoming(g, m) # {}
              /\ \A e \in Incoming(g, m) : l \in Gates(g)[e.source] \/ l \in EdgeLabel(g, e)
      BY GateJoins
    <2>2. \A e \in Incoming(g, m) : l \in Gates(g)[e.source] <=> e.source \notin R
      BY <1>3
    <2>3. m \in R <=> Incoming(g, m) = {} \/ \E e \in Incoming(g, m) : l \notin EdgeLabel(g, e) /\ e.source \in R
      BY <1>2 DEF Incoming
    <2>4. l \in Gates(g)[m] <=> m \notin R
      BY <2>1, <2>2, <2>3
    <2> QED
      BY <2>4
  <1>4. NodesOf(g) \subseteq T
    <2> HIDE DEF T
    <2> QED
      BY <1>3, AlongTheEdges
  <1> QED
    BY <1>4 DEF R

\* The nodes that run are those whose gate is met by sides of nodes that run:
\* the recursion has a value, because the gates come before the nodes.
LEMMA RunningExact ==
    ASSUME Drawn(graph), Topological(graph, KahnOrder(graph)), plan.gate = Gates(graph), NEW outcome
    PROVE  /\ Running(outcome) \subseteq NodesOf(graph)
           /\ \A n \in NodesOf(graph) :
                 n \in Running(outcome) <=>
                     \A l \in Gates(graph)[n] : l \in outcome /\ l[1] \in Running(outcome)
  <1> DEFINE gate == Gates(graph)
             N == NodesOf(graph)
             Met(C, n) == \A l \in gate[n] : l \in outcome /\ l[1] \in C
             R == UNION {C \in SUBSET N : \A n \in C : Met(C, n)}
             rec(f) == [n \in N |-> \A l \in gate[n] : l \in outcome /\ f[l[1]]]
             f == [n \in N |-> Met(R, n)]
  <1>1. \A n \in N : \A l \in gate[n] : l[1] \in N
    <2>1. gate \in Gatings(graph)
      BY GatesFixed
    <2> HIDE DEF gate
    <2> QED
      BY <2>1 DEF Gatings
  <1> HIDE DEF gate
  <1>2. ASSUME NEW n \in R PROVE Met(R, n)
    <2>1. PICK C \in SUBSET N : n \in C /\ \A m \in C : Met(C, m)
      OBVIOUS
    <2>2. C \subseteq R
      BY <2>1
    <2> HIDE DEF R
    <2> QED
      BY <2>1, <2>2
  <1>3. ASSUME NEW n \in N, Met(R, n) PROVE n \in R
    <2> DEFINE C == R \cup {n}
    <2>1. C \in SUBSET N
      OBVIOUS
    <2>2. \A m \in C : Met(C, m)
      <3> HIDE DEF R
      <3> QED
        BY <1>2, <1>3
    <2> QED
      BY <2>1, <2>2
  <1>4. R \subseteq N
    OBVIOUS
  <1> HIDE DEF R
  <1>5. f = rec(f)
    <2>1. ASSUME NEW n \in N PROVE f[n] = rec(f)[n]
      <3>1. f[n] = Met(R, n)
        BY Zenon
      <3>2. rec(f)[n] = (\A l \in gate[n] : l \in outcome /\ f[l[1]])
        BY Zenon
      <3>3. \A l \in gate[n] : f[l[1]] <=> l[1] \in R
        <4>1. \A m \in N : f[m] <=> Met(R, m)
          OBVIOUS
        <4> HIDE DEF Met, f
        <4> QED
          BY <1>1, <1>2, <1>3, <4>1
      <3>4. (\A l \in gate[n] : l \in outcome /\ f[l[1]]) = Met(R, n)
        <4> HIDE DEF f
        <4> QED
          BY <3>3
      <3> HIDE DEF f, rec, Met
      <3> QED
        BY <3>1, <3>2, <3>4
    <2> QED
      BY <2>1
  <1> DEFINE ch == CHOOSE h : h = rec(h)
  <1>6. ch = rec(ch)
    <2> HIDE DEF rec, f
    <2> QED
      BY <1>5
  <1>7. Running(outcome) = {n \in N : ch[n]}
    BY DEF Running, gate
  <1> HIDE DEF ch
  <1>8. \A n \in N : ch[n] <=> \A l \in gate[n] : l \in outcome /\ ch[l[1]]
    <2> DEFINE r == rec(ch)
    <2>1. \A n \in N : r[n] <=> \A l \in gate[n] : l \in outcome /\ ch[l[1]]
      OBVIOUS
    <2>2. ch = r
      BY <1>6
    <2> HIDE DEF r
    <2> QED
      BY <2>1, <2>2
  <1>9. Running(outcome) \subseteq N
    BY <1>7
  <1>10. ASSUME NEW n \in N
         PROVE  n \in Running(outcome) <=> \A l \in gate[n] : l \in outcome /\ l[1] \in Running(outcome)
    BY <1>1, <1>7, <1>8
  <1> QED
    BY <1>9, <1>10 DEF gate

\* Nothing leads to the start node, and it is the only node that is no note
\* and that nothing leads to.
LEMMA StartFacts ==
    ASSUME Drawn(graph), ValidGraph(graph)
    PROVE  /\ Start(graph) \in NodesOf(graph) /\ Incoming(graph, Start(graph)) = {}
           /\ \A n \in OfType(graph, {"note"}) : Outgoing(graph, n) = {} /\ Incoming(graph, n) = {}
           /\ Start(graph) \notin OfType(graph, {"note"})
  <1>1. PICK s : OfType(graph, {"start"}) = {s}
    <2>1. Cardinality(OfType(graph, {"start"})) = 1
      BY DEF ValidGraph, EndpointRules
    <2>2. IsFiniteSet(OfType(graph, {"start"}))
      BY NodesCounted, FS_Subset DEF OfType
    <2> QED
      BY <2>1, <2>2, FS_Singleton
  <1>2. s \in NodesOf(graph) /\ graph.type[s] = "start"
    BY <1>1 DEF OfType
  <1>3. Start(graph) \in NodesOf(graph) /\ graph.type[Start(graph)] = "start"
    BY <1>2 DEF Start
  <1>4. Start(graph) \in OfType(graph, {"start", "note"}) /\ Start(graph) \notin OfType(graph, {"note"})
    BY <1>3 DEF OfType
  <1>5. \A n \in OfType(graph, {"note"}) :
            n \in OfType(graph, {"start", "note"}) /\ n \in OfType(graph, {"end", "answer", "note"})
    BY DEF OfType
  <1> QED
    BY <1>3, <1>4, <1>5 DEF ValidGraph, EndpointRules

\* The path taken begins with the start node and goes on along edges that are taken.
LEMMA TakenSteps ==
    ASSUME Drawn(graph), ValidGraph(graph), NEW outcome
    PROVE  /\ Taken(outcome) \subseteq NodesOf(graph)
           /\ \A n : n \in Taken(outcome) <=>
                 \/ n = Start(graph)
                 \/ \E e \in Incoming(graph, n) : EdgeLabel(graph, e) \subseteq outcome /\ e.source \in Taken(outcome)
  <1> DEFINE S == {Start(graph)}
             E == {e \in ToSet(graph.edges) : EdgeLabel(graph, e) \subseteq outcome}
             R == Closure(graph, S, E)
  <1>1. S \in SUBSET NodesOf(graph) /\ \A e \in E : e.target \in NodesOf(graph)
    BY StartFacts DEF Drawn, EdgeRules
  <1>2. R \subseteq NodesOf(graph) /\ \A n : n \in R <=> n \in S \/ \E e \in E : e.target = n /\ e.source \in R
    <2> HIDE DEF E, S
    <2>1. R \subseteq NodesOf(graph)
      BY <1>1, ClosureLeast
    <2> QED
      BY <1>1, <2>1, ClosureBackwards
  <1>3. Taken(outcome) = R
    BY DEF Taken
  <1> HIDE DEF R
  <1>4. \A n : (\E e \in E : e.target = n /\ e.source \in R) <=>
              \E e \in Incoming(graph, n) : EdgeLabel(graph, e) \subseteq outcome /\ e.source \in R
    BY DEF Incoming
  <1> QED
    BY <1>2, <1>3, <1>4

\* The gates of a node on the path taken are met, by sides of nodes on the path.
LEMMA TakenMeets ==
    ASSUME Drawn(graph), ValidGraph(graph), Topological(graph, KahnOrder(graph)),
           NEW outcome, NEW n \in Taken(outcome), NEW l \in Gates(graph)[n]
    PROVE  l \in outcome /\ l[1] \in Taken(outcome)
  <1> DEFINE R == Taken(outcome)
             gate == Gates(graph)
             T == {m \in NodesOf(graph) : m \in R => \A k \in gate[m] : k \in outcome /\ k[1] \in R}
  <1>2. /\ R \subseteq NodesOf(graph)
        /\ \A m : m \in R <=>
               \/ m = Start(graph)
               \/ \E e \in Incoming(graph, m) : EdgeLabel(graph, e) \subseteq outcome /\ e.source \in R
    BY TakenSteps
  <1> HIDE DEF R
  <1>3. ASSUME NEW m \in NodesOf(graph), \A e \in Incoming(graph, m) : e.source \in T PROVE m \in T
    <2>1. ASSUME m \in R, NEW k \in gate[m] PROVE k \in outcome /\ k[1] \in R
      <3>1. /\ Incoming(graph, m) # {}
            /\ \A e \in Incoming(graph, m) : k \in gate[e.source] \/ k \in EdgeLabel(graph, e)
        <4> HIDE DEF T
        <4> QED
          BY <2>1, GateJoins
      <3>2. m # Start(graph)
        BY <3>1, StartFacts
      <3>3. PICK e \in Incoming(graph, m) : EdgeLabel(graph, e) \subseteq outcome /\ e.source \in R
        BY <1>2, <2>1, <3>2
      <3>4. e \in ToSet(graph.edges)
        BY <3>3 DEF Incoming
      <3>5. CASE k \in gate[e.source]
        BY <1>3, <3>3, <3>4, <3>5
      <3>6. CASE k \in EdgeLabel(graph, e)
        <4>1. k[1] = e.source
          BY <3>4, <3>6, LabelsTyped
        <4> QED
          BY <3>3, <3>4, <3>6, <4>1
      <3> QED
        BY <3>1, <3>4, <3>5, <3>6
    <2> QED
      BY <2>1
  <1>4. NodesOf(graph) \subseteq T
    <2> HIDE DEF T
    <2> QED
      BY <1>3, AlongTheEdges
  <1>5. n \in R
    BY DEF R
  <1>6. n \in T
    BY <1>2, <1>4, <1>5
  <1>7. l \in outcome /\ l[1] \in R
    BY <1>5, <1>6
  <1> QED
    BY <1>7 DEF R

\* Whatever is decided, the path taken runs.
LEMMA TakenRuns ==
    ASSUME Drawn(graph), ValidGraph(graph), Topological(graph, KahnOrder(graph)),
           plan.gate = Gates(graph), NEW outcome
    PROVE  Taken(outcome) \subseteq Running(outcome)
  <1> DEFINE o == KahnOrder(graph)
             T == {m \in NodesOf(graph) : m \in Taken(outcome) => m \in Running(outcome)}
  <1>1. o \in Seq(NodesOf(graph)) /\ DOMAIN o = 1..Len(o) /\ Len(o) \in Nat
    BY DEF Topological
  <1>2. ASSUME NEW p \in DOMAIN o, \A q \in 1..(p - 1) : o[q] \in T PROVE o[p] \in T
    <2>1. o[p] \in NodesOf(graph)
      BY <1>1
    <2>2. ASSUME o[p] \in Taken(outcome), NEW l \in Gates(graph)[o[p]]
          PROVE  l \in outcome /\ l[1] \in Running(outcome)
      <3>1. l \in outcome /\ l[1] \in Taken(outcome)
        BY <2>2, TakenMeets
      <3>2. PICK q \in 1..(p - 1) : o[q] = l[1]
        BY <2>2, GateEarlier
      <3> QED
        BY <1>2, <3>1, <3>2
    <2>3. o[p] \in Taken(outcome) => o[p] \in Running(outcome)
      <3> HIDE DEF o
      <3> QED
        BY <2>1, <2>2, RunningExact
    <2> QED
      BY <2>1, <2>3
  <1>3. NodesOf(graph) \subseteq T
    <2> HIDE DEF T
    <2> QED
      BY <1>2, AlongTheOrder
  <1>4. Taken(outcome) \subseteq NodesOf(graph)
    BY TakenSteps
  <1> QED
    BY <1>3, <1>4

\* Where every join covers the sides it merges, what runs is on the path taken.
LEMMA RunsTaken ==
    ASSUME Drawn(graph), ValidGraph(graph), Topological(graph, KahnOrder(graph)),
           graph.type \in [NodesOf(graph) -> NodeType],
           plan.gate = Gates(graph), NEW outcome \in Decisions, Structured
    PROVE  Running(outcome) \ OfType(graph, {"note"}) \subseteq Taken(outcome)
  <1> DEFINE R == Taken(outcome)
             notes == OfType(graph, {"note"})
             gate == Gates(graph)
             T == {m \in NodesOf(graph) : m \notin notes /\ gate[m] \subseteq outcome => m \in R}
  <1>2. /\ R \subseteq NodesOf(graph)
        /\ \A m : m \in R <=>
               \/ m = Start(graph)
               \/ \E e \in Incoming(graph, m) : EdgeLabel(graph, e) \subseteq outcome /\ e.source \in R
    BY TakenSteps
  <1> HIDE DEF R
  <1>3. ASSUME NEW m \in NodesOf(graph), m \notin notes, Incoming(graph, m) = {} PROVE m = Start(graph)
    <2> DEFINE F == ToSet(graph.edges)
               S == {Start(graph)}
    <2>1. m \in Closure(graph, S, F)
      <3>1. m \in OfType(graph, NodeType \ {"note"})
        BY <1>3 DEF OfType
      <3> QED
        BY <3>1 DEF Structured, ValidGraph, ShapeRules
    <2>2. S \in SUBSET NodesOf(graph) /\ \A e \in F : e.target \in NodesOf(graph)
      BY StartFacts DEF Drawn, EdgeRules
    <2>3. m \in S \/ \E e \in F : e.target = m
      <3> HIDE DEF F, S
      <3> QED
        <4>1. m \in Closure(graph, S, F) <=> m \in S \/ \E e \in F : e.target = m /\ e.source \in Closure(graph, S, F)
          BY <2>2, ClosureBackwards
        <4> QED
          BY <2>1, <4>1
    <2> QED
      BY <1>3, <2>3 DEF Incoming
  <1>4. ASSUME NEW m \in NodesOf(graph), \A e \in Incoming(graph, m) : e.source \in T PROVE m \in T
    <2>1. ASSUME m \notin notes, gate[m] \subseteq outcome PROVE m \in R
      <3>1. Covered(m)
        BY DEF Structured
      <3>2. CASE Incoming(graph, m) = {}
        BY <1>2, <1>3, <2>1, <3>2
      <3>3. ASSUME NEW e \in Incoming(graph, m), gate[e.source] \cup EdgeLabel(graph, e) \subseteq outcome
            PROVE  m \in R
        <4>1. EdgeLabel(graph, e) \subseteq outcome
          BY <3>3
        <4>2. e.source \notin notes
          BY <3>3, StartFacts DEF Incoming, Outgoing
        <4>3. e.source \in R
          BY <1>4, <3>3, <4>2
        <4> QED
          BY <1>2, <4>1, <4>3
      <3>4. Incoming(graph, m) = {} \/ \E e \in Incoming(graph, m) : gate[e.source] \cup EdgeLabel(graph, e) \subseteq outcome
        BY <2>1, <3>1 DEF Covered
      <3> QED
        BY <3>2, <3>3, <3>4
    <2> QED
      BY <2>1
  <1>5. NodesOf(graph) \subseteq T
    <2> HIDE DEF T
    <2> QED
      BY <1>4, AlongTheEdges
  <1>6. ASSUME NEW n \in Running(outcome), n \notin notes PROVE n \in R
    <2>1. n \in NodesOf(graph) /\ gate[n] \subseteq outcome
      BY <1>6, RunningExact
    <2> QED
      BY <1>5, <1>6, <2>1
  <1> QED
    BY <1>6 DEF R

\* f is the list of the members of S among the first i of s, for every i.
Keeps(s, V, S, f) ==
    /\ f \in [0..Len(s) -> Seq(V)] /\ f[0] = <<>>
    /\ \A i \in 1..Len(s) : f[i] = IF s[i] \in S THEN Append(f[i - 1], s[i]) ELSE f[i - 1]
    /\ Among(s, S) = f[Len(s)]

\* There are such lists.
LEMMA AmongKeeps ==
    ASSUME NEW W, NEW s \in Seq(W), NEW S
    PROVE  \E f : Keeps(s, W, S, f)
  <1> DEFINE N == Len(s)
             V == Seq(W)
             base == <<>>
             step == [i \in 1..N |-> [t \in V |-> IF s[i] \in S THEN Append(t, s[i]) ELSE t]]
             rec(f) == [i \in 0..N |->
                           IF i = 0 THEN <<>>
                           ELSE LET before == f[i - 1] IN IF s[i] \in S THEN Append(before, s[i]) ELSE before]
  <1>1. N \in Nat /\ base \in V /\ step \in [1..N -> [V -> V]]
    OBVIOUS
  <1>2. PICK f : Unfolds(N, V, base, step, f)
    <2> HIDE DEF step, V, N, base
    <2> QED
      BY <1>1, Stepwise
  <1>3. ASSUME NEW i \in 1..N, NEW h, h[i - 1] \in V
        PROVE  step[i][h[i - 1]] = rec(h)[i]
    <2>1. i \in 0..N /\ i # 0
      BY <1>1
    <2> HIDE DEF V
    <2> QED
      BY <1>3, <2>1
  <1>4. f = rec(f)
    <2>1. f = [i \in 0..N |-> f[i]]
      BY <1>2 DEF Unfolds
    <2>2. ASSUME NEW i \in 0..N PROVE f[i] = rec(f)[i]
      <3>1. CASE i = 0
        BY <1>2, <3>1 DEF Unfolds
      <3>2. CASE i # 0
        <4>1. i \in 1..N /\ i - 1 \in 0..N
          BY <3>2, <1>1
        <4>2. f[i - 1] \in V
          BY <4>1, <1>2 DEF Unfolds
        <4>3. f[i] = step[i][f[i - 1]]
          BY <4>1, <1>2 DEF Unfolds
        <4> HIDE DEF step, V, rec
        <4> QED
          BY <1>3, <4>1, <4>2, <4>3
      <3> QED
        BY <3>1, <3>2
    <2> QED
      BY <2>1, <2>2
  <1> DEFINE ch == CHOOSE h : h = rec(h)
  <1>5. ch = rec(ch)
    <2> HIDE DEF rec
    <2> QED
      BY <1>4
  <1>6. Among(s, S) = ch[N]
    BY DEF Among
  <1> HIDE DEF ch
  <1>7. ch[0] = base
    BY <1>1, <1>5
  <1>8. \A i \in 1..N : ch[i - 1] \in V => ch[i] = step[i][ch[i - 1]]
    <2> HIDE DEF step, V, rec
    <2> QED
      BY <1>3, <1>5
  <1>9. \A i \in 0..N : ch[i] \in V
    <2>1. Follows(N, V, base, step, ch)
      <3> HIDE DEF step, V, rec, base
      <3> QED
        BY <1>7, <1>8 DEF Follows
    <2> HIDE DEF step, V, rec, N, base
    <2> QED
      BY <1>1, <2>1, Stepped
  <1>10. ch = [i \in 0..N |-> ch[i]]
    BY <1>5
  <1>11. \A i \in 1..N : ch[i] = IF s[i] \in S THEN Append(ch[i - 1], s[i]) ELSE ch[i - 1]
    <2>1. \A i \in 1..N : i \in 0..N /\ i - 1 \in 0..N /\ i # 0
      BY <1>1
    <2> HIDE DEF V
    <2> QED
      BY <1>8, <1>9, <2>1
  <1> QED
    BY <1>6, <1>7, <1>9, <1>10, <1>11 DEF Keeps

\* t lists the members of S among the first n of s, in the order of s.
Sublist(s, n, S, t) ==
    /\ \A x : (\E a \in DOMAIN t : t[a] = x) <=> x \in S /\ \E c \in 1..n : s[c] = x
    /\ \A a, b \in DOMAIN t : a < b => \E c, d \in 1..n : c < d /\ s[c] = t[a] /\ s[d] = t[b]

\* The filtered list has the members of S in s, in the order of s.
LEMMA AmongFacts ==
    ASSUME NEW W, NEW s \in Seq(W), NEW S
    PROVE  Among(s, S) \in Seq(W) /\ Sublist(s, Len(s), S, Among(s, S))
  <1> DEFINE N == Len(s)
  <1>1. PICK f : Keeps(s, W, S, f)
    BY AmongKeeps
  <1>2. f \in [0..N -> Seq(W)] /\ f[0] = <<>> /\ Among(s, S) = f[N] /\ N \in Nat
    BY <1>1 DEF Keeps
  <1>3. \A i \in 1..N : f[i] = IF s[i] \in S THEN Append(f[i - 1], s[i]) ELSE f[i - 1]
    BY <1>1 DEF Keeps
  <1> DEFINE T == {i \in 0..N : Sublist(s, i, S, f[i])}
  <1> HIDE DEF N
  <1>4. 0 \in T
    BY <1>2 DEF Sublist
  <1>5. ASSUME NEW n \in 0..(N - 1), n \in T PROVE n + 1 \in T
    <2> DEFINE i == n + 1
               t == f[n]
    <2>1. i \in 1..N /\ i \in 0..N /\ i - 1 = n /\ n \in Nat /\ 1..i = 1..n \cup {i}
      <3>1. i \in 1..N /\ i \in 0..N /\ i - 1 = n /\ n \in Nat
        BY <1>2
      <3>2. 1..i = 1..n \cup {i}
        BY <3>1
      <3> QED
        BY <3>1, <3>2
    <2>2. t \in Seq(W) /\ DOMAIN t = 1..Len(t) /\ Len(t) \in Nat
      BY <1>2, <2>1
    <2>3. Sublist(s, n, S, t)
      BY <1>5
    <2>4. CASE s[i] \notin S
      <3>1. f[i] = t
        BY <1>3, <2>1, <2>4
      <3>2. Sublist(s, i, S, t)
        <4> HIDE DEF t, i
        <4> QED
          BY <2>1, <2>3, <2>4 DEF Sublist
      <3> QED
        BY <2>1, <3>1, <3>2
    <2>5. CASE s[i] \in S
      <3> DEFINE u == Append(t, s[i])
                 m == Len(t) + 1
      <3>1. f[i] = u
        BY <1>3, <2>1, <2>5
      <3>2. s[i] \in W
        BY <2>1 DEF N
      <3>3. /\ DOMAIN u = DOMAIN t \cup {m} /\ m \notin DOMAIN t /\ u[m] = s[i] /\ m \in Nat
            /\ \A a \in DOMAIN t : u[a] = t[a] /\ a < m
        BY <2>2, <3>2
      <3> HIDE DEF u, m, t, i
      <3>4. \A x : (\E a \in DOMAIN u : u[a] = x) <=> x \in S /\ \E c \in 1..i : s[c] = x
        <4>1. \A x : (\E a \in DOMAIN u : u[a] = x) <=> x = s[i] \/ \E a \in DOMAIN t : t[a] = x
          BY <3>3
        <4> QED
          BY <2>1, <2>3, <2>5, <4>1 DEF Sublist
      <3>5. ASSUME NEW a \in DOMAIN u, NEW b \in DOMAIN u, a < b
            PROVE  \E c, d \in 1..i : c < d /\ s[c] = u[a] /\ s[d] = u[b]
        <4>1. a \in DOMAIN t
          BY <2>2, <3>3, <3>5
        <4>2. CASE b \in DOMAIN t
          <5>1. PICK c \in 1..n, d \in 1..n : c < d /\ s[c] = t[a] /\ s[d] = t[b]
            BY <2>3, <3>5, <4>1, <4>2 DEF Sublist
          <5>2. c \in 1..i /\ d \in 1..i /\ u[a] = t[a] /\ u[b] = t[b]
            BY <2>1, <3>3, <4>1, <4>2, <5>1
          <5> QED
            BY <5>1, <5>2
        <4>3. CASE b = m
          <5>1. PICK c \in 1..n : s[c] = t[a]
            BY <2>3, <4>1 DEF Sublist
          <5>2. c \in 1..i /\ i \in 1..i /\ c < i
            BY <2>1, <5>1
          <5> QED
            BY <3>3, <4>1, <4>3, <5>1, <5>2
        <4> QED
          BY <3>3, <4>2, <4>3
      <3>6. Sublist(s, i, S, u)
        BY <3>4, <3>5 DEF Sublist
      <3> QED
        BY <2>1, <3>1, <3>6 DEF i
    <2> QED
      BY <2>4, <2>5
  <1>6. N \in T
    <2> HIDE DEF T
    <2>1. 0..N \subseteq T
      BY <1>2, <1>4, <1>5, Counting
    <2> QED
      BY <1>2, <2>1
  <1> QED
    BY <1>2, <1>6 DEF N

\* The states of Kahn's algorithm.
Sorting(g) == [indeg : [NodesOf(g) -> Int], order : Seq(NodesOf(g)), queue : Seq(NodesOf(g))]

\* Relaxing an edge counts it off and queues its target with the last one.
LEMMA RelaxFields ==
    ASSUME NEW g, Drawn(g), NEW s \in Sorting(g), NEW e \in ToSet(g.edges)
    PROVE  /\ Relax(s, e) \in Sorting(g)
           /\ Relax(s, e).indeg = [s.indeg EXCEPT ![e.target] = s.indeg[e.target] - 1]
           /\ Relax(s, e).order = s.order
           /\ Relax(s, e).queue = IF s.indeg[e.target] - 1 = 0 THEN Append(s.queue, e.target) ELSE s.queue
  <1> DEFINE t == e.target
             left == s.indeg[t] - 1
             q == IF left = 0 THEN Append(s.queue, t) ELSE s.queue
             d == [s.indeg EXCEPT ![t] = left]
  <1>1. t \in NodesOf(g)
    BY DEF Drawn, EdgeRules
  <1>2. s.indeg \in [NodesOf(g) -> Int] /\ s.order \in Seq(NodesOf(g)) /\ s.queue \in Seq(NodesOf(g))
    BY DEF Sorting
  <1>3. left \in Int
    BY <1>1, <1>2
  <1>4. d \in [NodesOf(g) -> Int] /\ q \in Seq(NodesOf(g))
    BY <1>1, <1>2, <1>3
  <1>5. Relax(s, e) = [s EXCEPT !.indeg = d, !.queue = q]
    BY DEF Relax
  <1> HIDE DEF d, q
  <1>6. Relax(s, e) \in Sorting(g) /\ Relax(s, e).indeg = d /\ Relax(s, e).order = s.order /\ Relax(s, e).queue = q
    BY <1>2, <1>4, <1>5 DEF Sorting
  <1> QED
    BY <1>6 DEF d, q

\* Relaxing leaves the order alone.
LEMMA RelaxOrder ==
    ASSUME NEW g, Drawn(g), NEW s \in Sorting(g), NEW e \in ToSet(g.edges)
    PROVE  Relax(s, e).order = s.order
  <1>1. Relax(s, e) = [s EXCEPT !.indeg = Relax(s, e).indeg, !.queue = Relax(s, e).queue]
    BY DEF Relax, Sorting
  <1> QED
    BY <1>1 DEF Sorting

\* The head of the queue taken out of it and into the order.
Taking(s) == [s EXCEPT !.queue = Tail(@), !.order = Append(@, Head(s.queue))]

\* f goes through the edges and relaxes those of the head of the queue.
Relaxes(g, s, f) ==
    /\ f \in [0..Len(g.edges) -> Sorting(g)] /\ f[0] = Taking(s)
    /\ \A k \in 1..Len(g.edges) :
           f[k] = IF g.edges[k].source = Head(s.queue) THEN Relax(f[k - 1], g.edges[k]) ELSE f[k - 1]
    /\ Pop(g, s) = f[Len(g.edges)]

\* Taking the head of the queue leaves a state of the algorithm.
LEMMA TakingFields ==
    ASSUME NEW g, NEW s \in Sorting(g), s.queue # <<>>
    PROVE  /\ Taking(s) \in Sorting(g) /\ Head(s.queue) \in NodesOf(g)
           /\ Taking(s).indeg = s.indeg
           /\ Taking(s).order = Append(s.order, Head(s.queue)) /\ Taking(s).queue = Tail(s.queue)
  <1>1. s.indeg \in [NodesOf(g) -> Int] /\ s.order \in Seq(NodesOf(g)) /\ s.queue \in Seq(NodesOf(g))
    BY DEF Sorting
  <1>2. Head(s.queue) \in NodesOf(g) /\ Tail(s.queue) \in Seq(NodesOf(g))
    BY <1>1
  <1>3. Append(s.order, Head(s.queue)) \in Seq(NodesOf(g))
    BY <1>1, <1>2
  <1> QED
    BY <1>1, <1>2, <1>3 DEF Taking, Sorting

\* There is such a pass through the edges.
LEMMA PopRelaxes ==
    ASSUME NEW g, Drawn(g), NEW s \in Sorting(g), s.queue # <<>>
    PROVE  \E f : Relaxes(g, s, f)
  <1> DEFINE N == Len(g.edges)
             V == Sorting(g)
             node == Head(s.queue)
             base == Taking(s)
             step == [k \in 1..N |-> [t \in V |-> IF g.edges[k].source = node THEN Relax(t, g.edges[k]) ELSE t]]
             rec(f) == [k \in 0..N |->
                           IF k = 0 THEN [s EXCEPT !.queue = Tail(@), !.order = Append(@, node)]
                           ELSE LET t == f[k - 1]
                                IN  IF g.edges[k].source = node THEN Relax(t, g.edges[k]) ELSE t]
  <1>1. N \in Nat /\ base \in V /\ step \in [1..N -> [V -> V]]
    <2>1. N \in Nat /\ base \in V
      BY TakingFields DEF Drawn
    <2>2. ASSUME NEW k \in 1..N, NEW t \in V PROVE Relax(t, g.edges[k]) \in V
      <3>1. g.edges[k] \in ToSet(g.edges)
        BY DEF Drawn
      <3> QED
        BY <3>1, RelaxFields
    <2> QED
      BY <2>1, <2>2
  <1>2. PICK f : Unfolds(N, V, base, step, f)
    <2> HIDE DEF step, V, N, base
    <2> QED
      BY <1>1, Stepwise
  <1>3. ASSUME NEW i \in 1..N, NEW h, h[i - 1] \in V
        PROVE  step[i][h[i - 1]] = rec(h)[i]
    <2>1. i \in 0..N /\ i # 0
      BY <1>1
    <2> HIDE DEF V, node
    <2> QED
      BY <1>3, <2>1
  <1>4. f = rec(f)
    <2>1. f = [i \in 0..N |-> f[i]]
      BY <1>2 DEF Unfolds
    <2>2. ASSUME NEW i \in 0..N PROVE f[i] = rec(f)[i]
      <3>1. CASE i = 0
        BY <1>2, <3>1 DEF Unfolds, Taking
      <3>2. CASE i # 0
        <4>1. i \in 1..N /\ i - 1 \in 0..N
          BY <3>2, <1>1
        <4>2. f[i - 1] \in V
          BY <4>1, <1>2 DEF Unfolds
        <4>3. f[i] = step[i][f[i - 1]]
          BY <4>1, <1>2 DEF Unfolds
        <4> HIDE DEF step, V, rec
        <4> QED
          BY <1>3, <4>1, <4>2, <4>3
      <3> QED
        BY <3>1, <3>2
    <2> QED
      BY <2>1, <2>2
  <1> DEFINE ch == CHOOSE h : h = rec(h)
  <1>5. ch = rec(ch)
    <2> HIDE DEF rec
    <2> QED
      BY <1>4
  <1>6. Pop(g, s) = ch[N]
    BY DEF Pop
  <1> HIDE DEF ch
  <1>7. ch[0] = base
    BY <1>1, <1>5 DEF Taking
  <1>8. \A i \in 1..N : ch[i - 1] \in V => ch[i] = step[i][ch[i - 1]]
    <2> HIDE DEF step, V, rec
    <2> QED
      BY <1>3, <1>5
  <1>9. \A i \in 0..N : ch[i] \in V
    <2>1. Follows(N, V, base, step, ch)
      <3> HIDE DEF step, V, rec, base
      <3> QED
        BY <1>7, <1>8 DEF Follows
    <2> HIDE DEF step, V, rec, N, base
    <2> QED
      BY <1>1, <2>1, Stepped
  <1>10. ch = [i \in 0..N |-> ch[i]]
    BY <1>5
  <1>11. \A k \in 1..N : ch[k] = IF g.edges[k].source = node THEN Relax(ch[k - 1], g.edges[k]) ELSE ch[k - 1]
    <2>1. \A i \in 1..N : i \in 0..N /\ i - 1 \in 0..N /\ i # 0
      BY <1>1
    <2> HIDE DEF V, node
    <2> QED
      BY <1>8, <1>9, <2>1
  <1> QED
    BY <1>6, <1>7, <1>9, <1>10, <1>11 DEF Relaxes

\* The edges of X, by number, that lead to n.
Waiting(g, X, n) == {k \in X : g.edges[k].target = n}

Ordered(s, n) == \E a \in DOMAIN s.order : s.order[a] = n
Queued(s, n) == \E a \in DOMAIN s.queue : s.queue[a] = n

\* While the edges of X are left: the counts are those of X, and a node is in
\* the queue or in the order, in one of them and once, when none leads to it.
Counted(g, s, X) ==
    /\ s \in Sorting(g)
    /\ \A n \in NodesOf(g) : s.indeg[n] = Cardinality(Waiting(g, X, n))
    /\ \A n \in NodesOf(g) : Ordered(s, n) \/ Queued(s, n) <=> Waiting(g, X, n) = {}
    /\ IsInjective(s.order) /\ IsInjective(s.queue)
    /\ \A n \in NodesOf(g) : ~(Ordered(s, n) /\ Queued(s, n))

\* The edges are numbered, and finitely many of them lead to a node.
LEMMA WaitingFinite ==
    ASSUME NEW g, Drawn(g), NEW X \in SUBSET (1..Len(g.edges)), NEW n
    PROVE  IsFiniteSet(Waiting(g, X, n)) /\ Cardinality(Waiting(g, X, n)) \in Nat
  <1>1. Len(g.edges) \in Nat
    BY DEF Drawn
  <1>2. IsFiniteSet(1..Len(g.edges))
    BY <1>1, FS_Interval
  <1>3. Waiting(g, X, n) \subseteq 1..Len(g.edges)
    BY DEF Waiting
  <1> QED
    BY <1>2, <1>3, FS_Subset, FS_CardinalityType

\* Relaxing an edge that is left takes it from those that are left.
LEMMA RelaxCounts ==
    ASSUME NEW g, Drawn(g), NEW X \in SUBSET (1..Len(g.edges)), NEW s, Counted(g, s, X), NEW k \in X
    PROVE  Counted(g, Relax(s, g.edges[k]), X \ {k})
  <1> DEFINE e == g.edges[k]
             t == e.target
             u == Relax(s, e)
             Y == X \ {k}
             W(n) == Waiting(g, X, n)
  <1>1. e \in ToSet(g.edges) /\ t \in NodesOf(g) /\ s \in Sorting(g)
    BY DEF Drawn, EdgeRules, Counted, ToSet
  <1>2. /\ u \in Sorting(g) /\ u.indeg = [s.indeg EXCEPT ![t] = s.indeg[t] - 1]
        /\ u.order = s.order
        /\ u.queue = IF s.indeg[t] - 1 = 0 THEN Append(s.queue, t) ELSE s.queue
    BY <1>1, RelaxFields
  <1>3. /\ s.indeg \in [NodesOf(g) -> Int] /\ s.order \in Seq(NodesOf(g)) /\ s.queue \in Seq(NodesOf(g))
    BY <1>1 DEF Sorting
  <1>4. /\ \A n \in NodesOf(g) : s.indeg[n] = Cardinality(W(n))
        /\ \A n \in NodesOf(g) : Ordered(s, n) \/ Queued(s, n) <=> W(n) = {}
        /\ IsInjective(s.order) /\ IsInjective(s.queue)
        /\ \A n \in NodesOf(g) : ~(Ordered(s, n) /\ Queued(s, n))
    BY DEF Counted
  <1>5. k \in W(t) /\ Waiting(g, Y, t) = W(t) \ {k} /\ \A n \in NodesOf(g) : n # t => Waiting(g, Y, n) = W(n)
    BY DEF Waiting
  <1>6. Y \in SUBSET (1..Len(g.edges)) /\ IsFiniteSet(W(t)) /\ Cardinality(W(t)) \in Nat
    BY WaitingFinite
  <1>7. Cardinality(Waiting(g, Y, t)) = Cardinality(W(t)) - 1
    <2> DEFINE A == W(t)
               B == Waiting(g, Y, t)
    <2>1. k \in A /\ IsFiniteSet(A) /\ B = A \ {k}
      BY <1>5, <1>6
    <2> HIDE DEF A, B
    <2>2. Cardinality(A \ {k}) = Cardinality(A) - 1
      BY <2>1, FS_RemoveElement
    <2>3. Cardinality(B) = Cardinality(A) - 1
      BY <2>1, <2>2
    <2> QED
      BY <2>3 DEF A, B
  <1>8. Waiting(g, Y, t) = {} <=> s.indeg[t] - 1 = 0
    <2>1. IsFiniteSet(Waiting(g, Y, t))
      BY <1>6, WaitingFinite
    <2>2. Cardinality(Waiting(g, Y, t)) = 0 <=> Waiting(g, Y, t) = {}
      BY <2>1, FS_EmptySet
    <2> QED
      BY <1>1, <1>4, <1>7, <2>2
  <1>9. ~Ordered(s, t) /\ ~Queued(s, t)
    BY <1>1, <1>4, <1>5
  <1> HIDE DEF u, Y, W, t
  <1>10. \A n \in NodesOf(g) : u.indeg[n] = Cardinality(Waiting(g, Y, n))
    BY <1>1, <1>2, <1>3, <1>4, <1>5, <1>7
  <1>11. \A n \in NodesOf(g) : Ordered(u, n) <=> Ordered(s, n)
    BY <1>2 DEF Ordered
  <1>12. CASE s.indeg[t] - 1 # 0
    <2>1. u.queue = s.queue
      BY <1>2, <1>12
    <2>2. \A n \in NodesOf(g) : Queued(u, n) <=> Queued(s, n)
      BY <2>1 DEF Queued
    <2>3. \A n \in NodesOf(g) : Ordered(u, n) \/ Queued(u, n) <=> Waiting(g, Y, n) = {}
      BY <1>4, <1>5, <1>8, <1>9, <1>11, <1>12, <2>2
    <2> QED
      BY <1>2, <1>4, <1>10, <1>11, <2>1, <2>2, <2>3 DEF Counted, u, Y
  <1>13. CASE s.indeg[t] - 1 = 0
    <2>1. u.queue = Append(s.queue, t)
      BY <1>2, <1>13
    <2> DEFINE m == Len(s.queue) + 1
    <2>2. /\ DOMAIN u.queue = DOMAIN s.queue \cup {m} /\ m \notin DOMAIN s.queue
          /\ u.queue[m] = t /\ \A a \in DOMAIN s.queue : u.queue[a] = s.queue[a]
      BY <1>1, <1>3, <2>1
    <2> HIDE DEF m
    <2>3. \A n \in NodesOf(g) : Queued(u, n) <=> Queued(s, n) \/ n = t
      BY <2>2 DEF Queued
    <2>4. IsInjective(u.queue)
      BY <1>4, <1>9, <2>2 DEF IsInjective, Queued
    <2>5. \A n \in NodesOf(g) : Ordered(u, n) \/ Queued(u, n) <=> Waiting(g, Y, n) = {}
      BY <1>4, <1>5, <1>8, <1>11, <1>13, <2>3
    <2>6. \A n \in NodesOf(g) : ~(Ordered(u, n) /\ Queued(u, n))
      BY <1>4, <1>9, <1>11, <2>3
    <2> QED
      BY <1>2, <1>4, <1>10, <2>4, <2>5, <2>6 DEF Counted, u, Y
  <1> QED
    BY <1>12, <1>13

\* Taking the head of the queue leaves the edges and moves one node.
LEMMA TakingCounts ==
    ASSUME NEW g, Drawn(g), NEW X, NEW s, Counted(g, s, X), s.queue # <<>>
    PROVE  Counted(g, Taking(s), X)
  <1> DEFINE u == Taking(s)
             h == Head(s.queue)
  <1>1. s \in Sorting(g)
    BY DEF Counted
  <1>2. s.order \in Seq(NodesOf(g)) /\ s.queue \in Seq(NodesOf(g))
    BY <1>1 DEF Sorting
  <1>3. u \in Sorting(g) /\ h \in NodesOf(g) /\ u.indeg = s.indeg /\ u.order = Append(s.order, h) /\ u.queue = Tail(s.queue)
    BY <1>1, TakingFields
  <1> DEFINE m == Len(s.order) + 1
  <1>4. /\ DOMAIN u.order = DOMAIN s.order \cup {m} /\ m \notin DOMAIN s.order
        /\ u.order[m] = h /\ \A a \in DOMAIN s.order : u.order[a] = s.order[a]
    <2> HIDE DEF h
    <2> QED
      BY <1>2, <1>3
  <1>5. /\ 1 \in DOMAIN s.queue /\ s.queue[1] = h
        /\ \A a \in DOMAIN u.queue : a # 0 /\ a + 1 \in DOMAIN s.queue /\ u.queue[a] = s.queue[a + 1] /\ a + 1 # 1
        /\ \A a \in DOMAIN s.queue : a # 1 => a - 1 \in DOMAIN u.queue /\ u.queue[a - 1] = s.queue[a]
        /\ \A a, b \in DOMAIN u.queue : a + 1 = b + 1 => a = b
    <2>1. DOMAIN s.queue = 1..Len(s.queue) /\ Len(s.queue) \in Nat \ {0}
      BY <1>2
    <2>2. DOMAIN u.queue = 1..(Len(s.queue) - 1) /\ \A a \in 1..(Len(s.queue) - 1) : u.queue[a] = s.queue[a + 1]
      BY <1>2, <1>3, <2>1
    <2> HIDE DEF u
    <2>3. 1 \in DOMAIN s.queue /\ s.queue[1] = h
      BY <1>2, <2>1
    <2>4. \A a \in DOMAIN s.queue : a # 1 => a - 1 \in DOMAIN u.queue /\ u.queue[a - 1] = s.queue[a]
      <3>1. ASSUME NEW a \in DOMAIN s.queue, a # 1 PROVE a - 1 \in 1..(Len(s.queue) - 1) /\ a - 1 + 1 = a
        BY <2>1, <3>1
      <3> QED
        BY <2>2, <3>1
    <2> QED
      BY <2>1, <2>2, <2>3, <2>4
  <1> HIDE DEF u, h, m
  <1>6. \A n \in NodesOf(g) : Ordered(u, n) <=> Ordered(s, n) \/ n = h
    BY <1>4 DEF Ordered
  <1>7. IsInjective(s.order) /\ IsInjective(s.queue) /\ \A n \in NodesOf(g) : ~(Ordered(s, n) /\ Queued(s, n))
    BY DEF Counted
  <1>8. \A n \in NodesOf(g) : Queued(u, n) <=> Queued(s, n) /\ n # h
    <2>1. ASSUME NEW n, Queued(u, n) PROVE Queued(s, n) /\ n # h
      <3>1. PICK a \in DOMAIN u.queue : u.queue[a] = n
        BY <2>1 DEF Queued
      <3>2. a + 1 \in DOMAIN s.queue /\ s.queue[a + 1] = n /\ a + 1 # 1
        BY <1>5, <3>1
      <3> QED
        BY <1>5, <1>7, <3>2 DEF Queued, IsInjective
    <2>2. ASSUME NEW n, Queued(s, n), n # h PROVE Queued(u, n)
      BY <1>5, <2>2 DEF Queued
    <2> QED
      BY <2>1, <2>2
  <1>9. Queued(s, h)
    BY <1>5 DEF Queued
  <1>10. IsInjective(u.queue)
    BY <1>5, <1>7 DEF IsInjective
  <1>11. IsInjective(u.order)
    BY <1>3, <1>4, <1>7, <1>9 DEF IsInjective, Ordered
  <1>12. \A n \in NodesOf(g) : ~(Ordered(u, n) /\ Queued(u, n))
    BY <1>6, <1>7, <1>8
  <1>13. \A n \in NodesOf(g) : Ordered(u, n) \/ Queued(u, n) <=> Waiting(g, X, n) = {}
    BY <1>6, <1>8, <1>9 DEF Counted
  <1>14. \A n \in NodesOf(g) : u.indeg[n] = Cardinality(Waiting(g, X, n))
    BY <1>3 DEF Counted
  <1> QED
    BY <1>3, <1>10, <1>11, <1>12, <1>13, <1>14 DEF Counted, u

\* A pop takes one node into the order and its edges from those that are left.
LEMMA PopCounts ==
    ASSUME NEW g, Drawn(g), NEW X \in SUBSET (1..Len(g.edges)), NEW s, Counted(g, s, X), s.queue # <<>>,
           \A k \in 1..Len(g.edges) : g.edges[k].source = Head(s.queue) => k \in X
    PROVE  /\ Counted(g, Pop(g, s), {k \in X : g.edges[k].source # Head(s.queue)})
           /\ Pop(g, s).order = Append(s.order, Head(s.queue))
  <1> DEFINE M == Len(g.edges)
             h == Head(s.queue)
             Left(j) == {k \in X : ~(k <= j /\ g.edges[k].source = h)}
  <1>1. s \in Sorting(g) /\ M \in Nat
    BY DEF Counted, Drawn
  <1>2. PICK f : Relaxes(g, s, f)
    BY <1>1, PopRelaxes
  <1>3. /\ f[0] = Taking(s) /\ Pop(g, s) = f[M]
        /\ \A k \in 1..M : f[k] = IF g.edges[k].source = h THEN Relax(f[k - 1], g.edges[k]) ELSE f[k - 1]
    BY <1>2 DEF Relaxes
  <1>4. Counted(g, Taking(s), X) /\ Taking(s).order = Append(s.order, h)
    BY <1>1, TakingCounts, TakingFields
  <1> DEFINE T == {j \in 0..M : Counted(g, f[j], Left(j)) /\ f[j].order = Append(s.order, h)}
  <1> HIDE DEF M, h
  <1>5. 0 \in T
    <2>1. Left(0) = X
      <3>1. \A k \in X : ~(k <= 0)
        OBVIOUS
      <3> QED
        BY <3>1
    <2>2. 0 \in 0..M
      BY <1>1
    <2> HIDE DEF Left
    <2> QED
      BY <1>3, <1>4, <2>1, <2>2
  <1>6. ASSUME NEW n \in 0..(M - 1), n \in T PROVE n + 1 \in T
    <2> DEFINE j == n + 1
    <2>1. j \in 1..M /\ j \in 0..M /\ j - 1 = n /\ n \in Nat
      BY <1>1
    <2>2. Counted(g, f[n], Left(n)) /\ f[n].order = Append(s.order, h)
      BY <1>6
    <2>3. CASE g.edges[j].source # h
      <3>1. \A k \in 1..M : g.edges[k].source = h => (k <= j <=> k <= n)
        BY <2>1, <2>3
      <3>2. Left(j) = Left(n)
        BY <3>1 DEF M
      <3>3. f[j] = f[n]
        BY <1>3, <2>1, <2>3
      <3> QED
        BY <2>1, <2>2, <3>2, <3>3
    <2>4. CASE g.edges[j].source = h
      <3>1. j \in Left(n)
        BY <2>1, <2>4 DEF M, h
      <3>2. Left(j) = Left(n) \ {j}
        <4>1. \A k \in 1..M : k <= j <=> k <= n \/ k = j
          BY <2>1
        <4> QED
          BY <4>1, <2>4 DEF M
      <3>3. f[j] = Relax(f[n], g.edges[j])
        BY <1>3, <2>1, <2>4
      <3>4. Left(n) \in SUBSET (1..Len(g.edges))
        OBVIOUS
      <3> DEFINE A == Left(n)
                 t == f[n]
                 e == g.edges[j]
      <3>5. Counted(g, f[j], Left(j))
        <4>1. A \in SUBSET (1..Len(g.edges)) /\ Counted(g, t, A) /\ j \in A
          BY <2>2, <3>1, <3>4
        <4> HIDE DEF A, t, j
        <4>2. Counted(g, Relax(t, g.edges[j]), A \ {j})
          BY <4>1, RelaxCounts
        <4>3. f[j] = Relax(t, g.edges[j]) /\ Left(j) = A \ {j}
          BY <3>2, <3>3 DEF A, t
        <4> HIDE DEF Left
        <4> QED
          BY <4>2, <4>3
      <3>6. f[j].order = f[n].order
        <4>1. t \in Sorting(g) /\ e \in ToSet(g.edges) /\ f[j] = Relax(t, e)
          BY <2>1, <2>2, <3>3 DEF Counted, Drawn, M
        <4> HIDE DEF t, e
        <4>2. Relax(t, e).order = t.order
          BY <4>1, RelaxOrder
        <4> QED
          BY <4>1, <4>2 DEF t
      <3> QED
        BY <2>1, <2>2, <3>5, <3>6
    <2> QED
      BY <2>3, <2>4
  <1>7. M \in T
    <2> HIDE DEF T
    <2>1. 0..M \subseteq T
      BY <1>1, <1>5, <1>6, Counting
    <2> QED
      BY <1>1, <2>1
  <1>8. Left(M) = {k \in X : g.edges[k].source # h}
    <2>1. \A k \in X : k <= M
      BY <1>1 DEF M
    <2> QED
      BY <2>1
  <1>9. Counted(g, f[M], Left(M)) /\ f[M].order = Append(s.order, h)
    BY <1>7
  <1> QED
    BY <1>3, <1>8, <1>9 DEF h

\* The algorithm before its first pop.
Unsorted(g) ==
    [indeg |-> [n \in NodesOf(g) |-> Indegree(g, n)], order |-> <<>>,
     queue |-> Among(g.ids, {n \in NodesOf(g) : Indegree(g, n) = 0})]

\* f pops node after node, as long as there is one in the queue.
Sorts(g, f) ==
    /\ f \in [0..Len(g.ids) -> Sorting(g)] /\ f[0] = Unsorted(g)
    /\ \A i \in 1..Len(g.ids) : f[i] = IF f[i - 1].queue = <<>> THEN f[i - 1] ELSE Pop(g, f[i - 1])
    /\ KahnOrder(g) = f[Len(g.ids)].order

\* At first all edges are left, and the nodes that none leads to are queued.
LEMMA UnsortedCounts ==
    ASSUME NEW g, Drawn(g)
    PROVE  Counted(g, Unsorted(g), 1..Len(g.edges))
  <1> DEFINE X == 1..Len(g.edges)
             Free == {n \in NodesOf(g) : Indegree(g, n) = 0}
             u == Unsorted(g)
  <1>1. Len(g.edges) \in Nat /\ DOMAIN g.edges = X /\ X \in SUBSET (1..Len(g.edges))
    BY DEF Drawn
  <1>2. \A n : Indegree(g, n) = Cardinality(Waiting(g, X, n))
    BY <1>1 DEF Indegree, Waiting
  <1>3. \A n : Indegree(g, n) \in Nat /\ (Indegree(g, n) = 0 <=> Waiting(g, X, n) = {})
    <2> HIDE DEF X
    <2> QED
      BY <1>1, <1>2, WaitingFinite, FS_EmptySet
  <1> DEFINE q == Among(g.ids, Free)
  <1>4. q \in Seq(NodesOf(g)) /\ Sublist(g.ids, Len(g.ids), Free, q)
    <2>1. g.ids \in Seq(NodesOf(g))
      BY DEF Drawn
    <2> HIDE DEF Free
    <2> QED
      BY <2>1, AmongFacts
  <1>5. u \in Sorting(g) /\ u.order = <<>> /\ u.queue = q /\ \A n \in NodesOf(g) : u.indeg[n] = Indegree(g, n)
    <2> HIDE DEF q
    <2>1. [n \in NodesOf(g) |-> Indegree(g, n)] \in [NodesOf(g) -> Int]
      BY <1>3
    <2>2. u = [indeg |-> [n \in NodesOf(g) |-> Indegree(g, n)], order |-> <<>>, queue |-> q]
      BY DEF Unsorted, q
    <2> QED
      BY <1>4, <2>1, <2>2 DEF Sorting
  <1> HIDE DEF q, u
  <1>6. \A n : ~Ordered(u, n)
    BY <1>5 DEF Ordered
  <1>7. \A n \in NodesOf(g) : Queued(u, n) <=> n \in Free
    <2>1. \A n \in NodesOf(g) : \E c \in 1..Len(g.ids) : g.ids[c] = n
      <3>1. DOMAIN g.ids = 1..Len(g.ids)
        BY DEF Drawn
      <3> QED
        BY <3>1 DEF NodesOf, ToSet
    <2> HIDE DEF Free
    <2> QED
      BY <1>4, <1>5, <2>1 DEF Sublist, Queued
  <1>8. IsInjective(q)
    <2> SUFFICES ASSUME NEW a \in DOMAIN q, NEW b \in DOMAIN q, q[a] = q[b] PROVE a = b
      BY DEF IsInjective
    <2>1. ASSUME NEW c \in DOMAIN q, NEW d \in DOMAIN q, c < d, q[c] = q[d] PROVE FALSE
      <3>1. PICK i \in 1..Len(g.ids), j \in 1..Len(g.ids) : i < j /\ g.ids[i] = q[c] /\ g.ids[j] = q[d]
        BY <1>4, <2>1 DEF Sublist
      <3>2. i \in DOMAIN g.ids /\ j \in DOMAIN g.ids
        BY DEF Drawn
      <3> QED
        BY <2>1, <3>1, <3>2 DEF Drawn, IsInjective
    <2>2. a \in Nat /\ b \in Nat
      BY <1>4
    <2> QED
      BY <2>1, <2>2
  <1>9. IsInjective(u.order)
    BY <1>5 DEF IsInjective
  <1>10. \A n \in NodesOf(g) : u.indeg[n] = Cardinality(Waiting(g, X, n))
    BY <1>2, <1>5
  <1>11. \A n \in NodesOf(g) : Ordered(u, n) \/ Queued(u, n) <=> Waiting(g, X, n) = {}
    BY <1>3, <1>6, <1>7
  <1> QED
    BY <1>5, <1>6, <1>8, <1>9, <1>10, <1>11 DEF Counted, u

\* There is such a run of the algorithm.
LEMMA KahnSorts ==
    ASSUME NEW g, Drawn(g)
    PROVE  \E f : Sorts(g, f)
  <1> DEFINE N == Len(g.ids)
             V == Sorting(g)
             base == Unsorted(g)
             step == [i \in 1..N |-> [s \in V |-> IF s.queue = <<>> THEN s ELSE Pop(g, s)]]
             rec(f) == [i \in 0..N |->
                           IF i = 0
                           THEN [indeg |-> [n \in NodesOf(g) |-> Indegree(g, n)], order |-> <<>>,
                                 queue |-> Among(g.ids, {n \in NodesOf(g) : Indegree(g, n) = 0})]
                           ELSE LET s == f[i - 1] IN IF s.queue = <<>> THEN s ELSE Pop(g, s)]
  <1>1. N \in Nat /\ base \in V /\ step \in [1..N -> [V -> V]]
    <2>1. N \in Nat /\ base \in V
      BY NodesCounted, UnsortedCounts DEF Counted
    <2>2. ASSUME NEW s \in V, s.queue # <<>> PROVE Pop(g, s) \in V
      <3>1. PICK f : Relaxes(g, s, f)
        BY <2>2, PopRelaxes
      <3>2. Len(g.edges) \in 0..Len(g.edges)
        BY DEF Drawn
      <3> QED
        BY <3>1, <3>2 DEF Relaxes
    <2> QED
      BY <2>1, <2>2
  <1>2. PICK f : Unfolds(N, V, base, step, f)
    <2> HIDE DEF step, V, N, base
    <2> QED
      BY <1>1, Stepwise
  <1>3. ASSUME NEW i \in 1..N, NEW h, h[i - 1] \in V
        PROVE  step[i][h[i - 1]] = rec(h)[i]
    <2>1. i \in 0..N /\ i # 0
      BY <1>1
    <2> HIDE DEF V
    <2> QED
      BY <1>3, <2>1
  <1>4. f = rec(f)
    <2>1. f = [i \in 0..N |-> f[i]]
      BY <1>2 DEF Unfolds
    <2>2. ASSUME NEW i \in 0..N PROVE f[i] = rec(f)[i]
      <3>1. CASE i = 0
        BY <1>2, <3>1 DEF Unfolds, Unsorted
      <3>2. CASE i # 0
        <4>1. i \in 1..N /\ i - 1 \in 0..N
          BY <3>2, <1>1
        <4>2. f[i - 1] \in V
          BY <4>1, <1>2 DEF Unfolds
        <4>3. f[i] = step[i][f[i - 1]]
          BY <4>1, <1>2 DEF Unfolds
        <4> HIDE DEF step, V, rec
        <4> QED
          BY <1>3, <4>1, <4>2, <4>3
      <3> QED
        BY <3>1, <3>2
    <2> QED
      BY <2>1, <2>2
  <1> DEFINE ch == CHOOSE h : h = rec(h)
  <1>5. ch = rec(ch)
    <2> HIDE DEF rec
    <2> QED
      BY <1>4
  <1>6. KahnOrder(g) = ch[N].order
    BY DEF KahnOrder
  <1> HIDE DEF ch
  <1>7. ch[0] = base
    BY <1>1, <1>5 DEF Unsorted
  <1>8. \A i \in 1..N : ch[i - 1] \in V => ch[i] = step[i][ch[i - 1]]
    <2> HIDE DEF step, V, rec
    <2> QED
      BY <1>3, <1>5
  <1>9. \A i \in 0..N : ch[i] \in V
    <2>1. Follows(N, V, base, step, ch)
      <3> HIDE DEF step, V, rec, base
      <3> QED
        BY <1>7, <1>8 DEF Follows
    <2> HIDE DEF step, V, rec, N, base
    <2> QED
      BY <1>1, <2>1, Stepped
  <1>10. ch = [i \in 0..N |-> ch[i]]
    BY <1>5
  <1>11. \A i \in 1..N : ch[i] = IF ch[i - 1].queue = <<>> THEN ch[i - 1] ELSE Pop(g, ch[i - 1])
    <2>1. \A i \in 1..N : i \in 0..N /\ i - 1 \in 0..N /\ i # 0
      BY <1>1
    <2> HIDE DEF V
    <2> QED
      BY <1>8, <1>9, <2>1
  <1> QED
    BY <1>6, <1>7, <1>9, <1>10, <1>11 DEF Sorts

\* The edges whose source is not in the order yet.
Remaining(g, s) == {k \in 1..Len(g.edges) : ~Ordered(s, g.edges[k].source)}

\* The order has every node after the sources of the edges to it.
SourcesFirst(g, o) ==
    \A p \in DOMAIN o : \A k \in 1..Len(g.edges) :
        g.edges[k].target = o[p] => \E q \in 1..(p - 1) : o[q] = g.edges[k].source

\* Between the pops the edges that are left are those whose source is not in
\* the order; a node that is popped has none of them.
LEMMA PopOrders ==
    ASSUME NEW g, Drawn(g), NEW s, Counted(g, s, Remaining(g, s)), SourcesFirst(g, s.order), s.queue # <<>>
    PROVE  Counted(g, Pop(g, s), Remaining(g, Pop(g, s))) /\ SourcesFirst(g, Pop(g, s).order)
  <1> DEFINE h == Head(s.queue)
             X == Remaining(g, s)
             u == Pop(g, s)
  <1>1. s \in Sorting(g)
    BY DEF Counted
  <1>2. s.order \in Seq(NodesOf(g)) /\ s.queue \in Seq(NodesOf(g)) /\ h \in NodesOf(g)
    BY <1>1, TakingFields DEF Sorting
  <1>3. Queued(s, h) /\ ~Ordered(s, h)
    <2>1. Queued(s, h)
      BY <1>2 DEF Queued
    <2> QED
      BY <1>2, <2>1 DEF Counted
  <1>4. X \in SUBSET (1..Len(g.edges)) /\ \A k \in 1..Len(g.edges) : g.edges[k].source = h => k \in X
    BY <1>3 DEF Remaining
  <1>5. Counted(g, u, {k \in X : g.edges[k].source # h}) /\ u.order = Append(s.order, h)
    <2> HIDE DEF X
    <2> QED
      BY <1>4, PopCounts DEF X
  <1> DEFINE m == Len(s.order) + 1
  <1>6. /\ DOMAIN u.order = DOMAIN s.order \cup {m} /\ m \notin DOMAIN s.order
        /\ u.order[m] = h /\ \A a \in DOMAIN s.order : u.order[a] = s.order[a]
        /\ DOMAIN s.order = 1..(m - 1) /\ m \in Nat
    <2> HIDE DEF h, u
    <2> QED
      BY <1>2, <1>5
  <1> HIDE DEF h, m, u
  <1>7. \A n : Ordered(u, n) <=> Ordered(s, n) \/ n = h
    BY <1>6 DEF Ordered
  <1>8. Remaining(g, u) = {k \in X : g.edges[k].source # h}
    BY <1>7 DEF Remaining
  <1>9. Waiting(g, X, h) = {}
    BY <1>2, <1>3 DEF Counted
  <1>10. ASSUME NEW p \in DOMAIN u.order, NEW k \in 1..Len(g.edges), g.edges[k].target = u.order[p]
         PROVE  \E q \in 1..(p - 1) : u.order[q] = g.edges[k].source
    <2>1. CASE p \in DOMAIN s.order
      <3>1. PICK q \in 1..(p - 1) : s.order[q] = g.edges[k].source
        BY <1>6, <1>10, <2>1 DEF SourcesFirst
      <3>2. q \in DOMAIN s.order
        BY <1>6, <2>1
      <3> QED
        BY <1>6, <3>1, <3>2
    <2>2. CASE p = m
      <3>1. k \notin X
        BY <1>6, <1>9, <1>10, <2>2 DEF Waiting
      <3>2. Ordered(s, g.edges[k].source)
        BY <3>1 DEF Remaining
      <3>3. PICK q \in DOMAIN s.order : s.order[q] = g.edges[k].source
        BY <3>2 DEF Ordered
      <3> QED
        BY <1>6, <2>2, <3>3
    <2> QED
      BY <1>6, <2>1, <2>2
  <1> QED
    BY <1>5, <1>8, <1>10 DEF SourcesFirst, u

\* If every node gets a place, Kahn's order is a topological one.
LEMMA KahnTopological ==
    ASSUME NEW g, Drawn(g), HasTopoOrder(g)
    PROVE  Topological(g, KahnOrder(g))
  <1> DEFINE N == Len(g.ids)
  <1>1. PICK f : Sorts(g, f)
    BY KahnSorts
  <1>2. /\ f[0] = Unsorted(g) /\ KahnOrder(g) = f[N].order
        /\ \A i \in 1..N : f[i] = IF f[i - 1].queue = <<>> THEN f[i - 1] ELSE Pop(g, f[i - 1])
    BY <1>1 DEF Sorts
  <1>3. N \in Nat /\ IsFiniteSet(NodesOf(g)) /\ Cardinality(NodesOf(g)) = N
    BY NodesCounted
  <1> DEFINE Good(s) == Counted(g, s, Remaining(g, s)) /\ SourcesFirst(g, s.order)
             T == {i \in 0..N : Good(f[i])}
  <1> HIDE DEF N
  <1>4. 0 \in T
    <2> DEFINE u == Unsorted(g)
    <2>1. Counted(g, u, 1..Len(g.edges)) /\ u.order = <<>>
      BY UnsortedCounts DEF Unsorted
    <2> HIDE DEF u
    <2>2. Remaining(g, u) = 1..Len(g.edges)
      BY <2>1 DEF Remaining, Ordered
    <2>3. SourcesFirst(g, u.order)
      BY <2>1 DEF SourcesFirst
    <2> QED
      BY <1>2, <1>3, <2>1, <2>2, <2>3 DEF u
  <1>5. ASSUME NEW n \in 0..(N - 1), n \in T PROVE n + 1 \in T
    <2>1. n + 1 \in 1..N /\ n + 1 \in 0..N /\ n + 1 - 1 = n
      BY <1>3
    <2>2. Good(f[n])
      BY <1>5
    <2> DEFINE s == f[n]
    <2> HIDE DEF s
    <2>3. f[n + 1] = IF s.queue = <<>> THEN s ELSE Pop(g, s)
      BY <1>2, <2>1 DEF s
    <2>4. Good(s)
      BY <2>2 DEF s
    <2>5. s.queue # <<>> => Good(Pop(g, s))
      BY <2>4, PopOrders
    <2>6. Good(f[n + 1])
      <3> HIDE DEF Good
      <3> QED
        BY <2>3, <2>4, <2>5
    <2> QED
      BY <2>1, <2>6
  <1>6. Good(f[N])
    <2> HIDE DEF T
    <2>1. 0..N \subseteq T
      BY <1>3, <1>4, <1>5, Counting
    <2> QED
      BY <1>3, <2>1 DEF T
  <1> DEFINE o == KahnOrder(g)
  <1>7. o \in Seq(NodesOf(g)) /\ IsInjective(o) /\ SourcesFirst(g, o)
    BY <1>2, <1>6 DEF Counted, Sorting
  <1>8. Len(o) = N /\ DOMAIN o = 1..N
    BY <1>7 DEF HasTopoOrder, N
  <1> HIDE DEF o
  <1>9. ToSet(o) = NodesOf(g)
    <2>1. o \in [1..N -> NodesOf(g)]
      BY <1>7, <1>8
    <2>2. o \in Injection(1..N, NodesOf(g))
      BY <1>7, <2>1 DEF Injection, IsInjective
    <2>3. IsFiniteSet(1..N) /\ Cardinality(1..N) = N
      BY <1>3, FS_Interval
    <2>4. o \in Surjection(1..N, NodesOf(g))
      BY <1>3, <2>2, <2>3, FS_Injection
    <2> QED
      BY <1>8, <2>1, <2>4 DEF Surjection, ToSet
  <1>10. ASSUME NEW p \in DOMAIN o, NEW e \in Incoming(g, o[p]) PROVE \E q \in 1..(p - 1) : o[q] = e.source
    <2>1. PICK k \in 1..Len(g.edges) : g.edges[k] = e
      BY DEF Incoming, ToSet, Drawn
    <2>2. e.target = o[p]
      BY DEF Incoming
    <2> QED
      BY <1>7, <2>1, <2>2 DEF SourcesFirst
  <1> QED
    BY <1>7, <1>9, <1>10 DEF Topological, o

\* Kahn's algorithm pops a node in each of its steps until the queue is empty,
\* which it is at the end if a node is left over.
LEMMA KahnStops ==
    ASSUME NEW g, Drawn(g), ~HasTopoOrder(g)
    PROVE  \E s : Counted(g, s, Remaining(g, s)) /\ s.queue = <<>> /\ Len(s.order) # Len(g.ids)
  <1> DEFINE N == Len(g.ids)
  <1>1. PICK f : Sorts(g, f)
    BY KahnSorts
  <1>2. /\ f[0] = Unsorted(g) /\ KahnOrder(g) = f[N].order
        /\ \A i \in 1..N : f[i] = IF f[i - 1].queue = <<>> THEN f[i - 1] ELSE Pop(g, f[i - 1])
    BY <1>1 DEF Sorts
  <1>3. N \in Nat
    BY NodesCounted
  <1> DEFINE Good(s) == Counted(g, s, Remaining(g, s)) /\ SourcesFirst(g, s.order)
             T == {i \in 0..N : Good(f[i]) /\ (f[i].queue = <<>> \/ Len(f[i].order) = i)}
  <1> HIDE DEF N
  <1>4. 0 \in T
    <2> DEFINE u == Unsorted(g)
    <2>1. Counted(g, u, 1..Len(g.edges)) /\ u.order = <<>>
      BY UnsortedCounts DEF Unsorted
    <2> HIDE DEF u
    <2>2. Remaining(g, u) = 1..Len(g.edges)
      BY <2>1 DEF Remaining, Ordered
    <2>3. SourcesFirst(g, u.order) /\ Len(u.order) = 0
      BY <2>1 DEF SourcesFirst
    <2> QED
      BY <1>2, <1>3, <2>1, <2>2, <2>3 DEF u
  <1>5. ASSUME NEW n \in 0..(N - 1), n \in T PROVE n + 1 \in T
    <2>1. n + 1 \in 1..N /\ n + 1 \in 0..N /\ n + 1 - 1 = n
      BY <1>3
    <2> DEFINE s == f[n]
    <2>2. Good(s) /\ (s.queue = <<>> \/ Len(s.order) = n)
      BY <1>5
    <2>3. f[n + 1] = IF s.queue = <<>> THEN s ELSE Pop(g, s)
      BY <1>2, <2>1
    <2> HIDE DEF s
    <2>4. CASE s.queue = <<>>
      <3>1. f[n + 1] = s
        BY <2>3, <2>4
      <3> HIDE DEF Good
      <3> QED
        BY <2>1, <2>2, <2>4, <3>1
    <2>5. CASE s.queue # <<>>
      <3> DEFINE X == Remaining(g, s)
      <3>1. Good(Pop(g, s))
        BY <2>2, <2>5, PopOrders
      <3>2. s \in Sorting(g) /\ Head(s.queue) \in NodesOf(g) /\ ~Ordered(s, Head(s.queue))
        <4>1. s \in Sorting(g)
          BY <2>2 DEF Counted
        <4>2. Head(s.queue) \in NodesOf(g) /\ Queued(s, Head(s.queue))
          BY <2>5, <4>1, TakingFields DEF Sorting, Queued
        <4> QED
          BY <2>2, <4>1, <4>2 DEF Counted
      <3>3. X \in SUBSET (1..Len(g.edges)) /\ \A k \in 1..Len(g.edges) : g.edges[k].source = Head(s.queue) => k \in X
        BY <3>2 DEF Remaining
      <3>4. Counted(g, s, X)
        BY <2>2
      <3> HIDE DEF X
      <3>5. Pop(g, s).order = Append(s.order, Head(s.queue))
        BY <2>5, <3>3, <3>4, PopCounts
      <3>6. Len(Pop(g, s).order) = n + 1
        BY <2>2, <2>5, <3>2, <3>5 DEF Sorting
      <3>7. f[n + 1] = Pop(g, s)
        BY <2>3, <2>5
      <3> HIDE DEF Good
      <3> QED
        BY <2>1, <3>1, <3>6, <3>7
    <2> QED
      BY <2>4, <2>5
  <1>6. N \in T
    <2> HIDE DEF T
    <2>1. 0..N \subseteq T
      BY <1>3, <1>4, <1>5, Counting
    <2> QED
      BY <1>3, <2>1
  <1>7. Len(f[N].order) # N
    BY <1>2 DEF HasTopoOrder, N
  <1> QED
    BY <1>6, <1>7 DEF N

\* If every node of a set has an edge into it from the set, a node leads to itself.
LEMMA CycleExists ==
    ASSUME NEW g, Drawn(g), NEW U \in SUBSET NodesOf(g), U # {},
           \A n \in U : \E e \in Incoming(g, n) : e.source \in U
    PROVE  \E n \in NodesOf(g) : n \in Closure(g, {e.target : e \in Outgoing(g, n)}, ToSet(g.edges))
  <1> DEFINE E == ToSet(g.edges)
             N == NodesOf(g)
             Down(n) == Closure(g, {n}, E)
             Successors(n) == {e.target : e \in Outgoing(g, n)}
             Up(n) == {m \in N : n \in Down(m)}
  <1>1. \A e \in E : e.source \in N /\ e.target \in N /\ e.source # e.target
    BY DEF Drawn, EdgeRules
  <1>2. \A n \in N : {n} \in SUBSET N /\ Successors(n) \in SUBSET N
    BY <1>1 DEF Outgoing
  <1>3. ASSUME NEW n \in N
        PROVE  /\ n \in Down(n) /\ ClosedUnder(E, Down(n))
               /\ \A T : n \in T /\ ClosedUnder(E, T) => Down(n) \subseteq T
    <2> DEFINE S == {n}
    <2>1. S \in SUBSET N /\ \A e \in E : e.target \in N
      BY <1>1
    <2> HIDE DEF S, E
    <2>2. S \subseteq Closure(g, S, E) /\ ClosedUnder(E, Closure(g, S, E))
          /\ \A T : S \subseteq T /\ ClosedUnder(E, T) => Closure(g, S, E) \subseteq T
      BY <2>1, ClosureLeast
    <2> QED
      BY <2>2 DEF S
  <1>4. ASSUME NEW n \in N
        PROVE  Successors(n) \subseteq Closure(g, Successors(n), E) /\ ClosedUnder(E, Closure(g, Successors(n), E))
    <2> DEFINE S == Successors(n)
    <2>1. S \in SUBSET N /\ \A e \in E : e.target \in N
      BY <1>1, <1>2
    <2> HIDE DEF S, E
    <2>2. S \subseteq Closure(g, S, E) /\ ClosedUnder(E, Closure(g, S, E))
      BY <2>1, ClosureLeast
    <2> QED
      BY <2>2 DEF S
  <1> SUFFICES ASSUME \A n \in N : n \notin Closure(g, Successors(n), E) PROVE FALSE
    OBVIOUS
  <1> HIDE DEF Down, E
  <1>5. ASSUME NEW n \in N, NEW e \in E, e.target = n PROVE e.source \notin Down(n)
    <2> DEFINE m == e.source
               C == Closure(g, Successors(n), E)
    <2>1. m \in N /\ m # n
      BY <1>1, <1>5
    <2>2. Successors(n) \subseteq C /\ ClosedUnder(E, C) /\ n \notin C
      BY <1>4
    <2>3. \A d \in E : d.source = n => d.target \in Successors(n)
      BY DEF Outgoing, E
    <2> HIDE DEF C, Successors
    <2>4. ClosedUnder(E, C \cup {n})
      BY <2>2, <2>3 DEF ClosedUnder
    <2>5. Down(n) \subseteq C \cup {n}
      BY <1>3, <2>4
    <2>6. m \notin C
      BY <1>5, <2>2 DEF ClosedUnder
    <2> QED
      BY <2>1, <2>5, <2>6
  <1>6. ASSUME NEW n \in N, NEW e \in E, e.target = n
        PROVE  Up(e.source) \subseteq Up(n) /\ n \in Up(n) /\ n \notin Up(e.source)
    BY <1>1, <1>3, <1>5, <1>6 DEF ClosedUnder
  <1>7. \A n \in N : IsFiniteSet(Up(n)) /\ Cardinality(Up(n)) \in Nat
    BY NodesCounted, FS_Subset, FS_CardinalityType
  <1> HIDE DEF Up
  <1> DEFINE K == {Cardinality(Up(n)) : n \in U}
  <1>8. K \in SUBSET Nat /\ K # {}
    BY <1>7
  <1>9. PICK k \in K : \A j \in K : k <= j
    <2> HIDE DEF K
    <2> QED
      BY <1>8, LeastNumber
  <1>10. PICK n \in U : k = Cardinality(Up(n))
    BY <1>9
  <1>11. PICK e \in Incoming(g, n) : e.source \in U
    BY <1>10
  <1>12. e \in E /\ e.target = n /\ n \in N
    BY <1>11 DEF Incoming, E
  <1> DEFINE A == Up(e.source)
             B == Up(n)
  <1>13. A \subseteq B /\ A # B
    BY <1>6, <1>12
  <1>14. IsFiniteSet(B) /\ Cardinality(B) \in Nat /\ Cardinality(A) \in Nat
    BY <1>7, <1>11, <1>12
  <1>15. Cardinality(B) <= Cardinality(A)
    BY <1>9, <1>10, <1>11
  <1> HIDE DEF A, B
  <1>16. Cardinality(A) <= Cardinality(B) /\ (Cardinality(B) = Cardinality(A) => B = A)
    BY <1>13, <1>14, FS_Subset
  <1> QED
    BY <1>13, <1>14, <1>15, <1>16

\* Kahn's order is complete exactly if no node leads to itself: validate_workflow
\* finds every cycle and reports no other graph for one.
THEOREM CyclesAreFound ==
    ASSUME NEW g, Drawn(g)
    PROVE  HasTopoOrder(g) <=>
               \A n \in NodesOf(g) : n \notin Closure(g, {e.target : e \in Outgoing(g, n)}, ToSet(g.edges))
  <1>1. ASSUME HasTopoOrder(g), NEW n \in NodesOf(g)
        PROVE  n \notin Closure(g, {e.target : e \in Outgoing(g, n)}, ToSet(g.edges))
    <2>1. Topological(g, KahnOrder(g))
      BY <1>1, KahnTopological
    <2>2. PICK p \in DOMAIN KahnOrder(g) : KahnOrder(g)[p] = n
      BY <2>1 DEF Topological, ToSet
    <2> QED
      BY <2>1, <2>2, OrderExact
  <1>2. ASSUME ~HasTopoOrder(g)
        PROVE  \E n \in NodesOf(g) : n \in Closure(g, {e.target : e \in Outgoing(g, n)}, ToSet(g.edges))
    <2>1. PICK s : Counted(g, s, Remaining(g, s)) /\ s.queue = <<>> /\ Len(s.order) # Len(g.ids)
      BY <1>2, KahnStops
    <2> DEFINE U == {n \in NodesOf(g) : ~Ordered(s, n)}
    <2>2. s.order \in Seq(NodesOf(g)) /\ IsInjective(s.order)
      BY <2>1 DEF Counted, Sorting
    <2>3. U # {}
      <3> SUFFICES ASSUME \A n \in NodesOf(g) : Ordered(s, n) PROVE FALSE
        OBVIOUS
      <3> DEFINE o == s.order
                 K == Len(o)
      <3>1. o \in [1..K -> NodesOf(g)] /\ K \in Nat /\ DOMAIN o = 1..K
        BY <2>2
      <3>2. o \in Bijection(1..K, NodesOf(g))
        BY <2>2, <3>1 DEF Bijection, Injection, Surjection, IsInjective, Ordered
      <3>3. ExistsBijection(1..K, NodesOf(g)) /\ IsFiniteSet(1..K) /\ Cardinality(1..K) = K
        BY <3>1, <3>2, FS_Interval DEF ExistsBijection
      <3>4. Cardinality(NodesOf(g)) = K
        <4> HIDE DEF K
        <4> QED
          BY <3>3, FS_Bijection
      <3> QED
        BY <2>1, <3>4, NodesCounted
    <2>4. ASSUME NEW n \in U PROVE \E e \in Incoming(g, n) : e.source \in U
      <3>1. ~Queued(s, n)
        BY <2>1 DEF Queued
      <3>2. Waiting(g, Remaining(g, s), n) # {}
        BY <2>1, <3>1 DEF Counted
      <3>3. PICK k \in Remaining(g, s) : g.edges[k].target = n
        BY <3>2 DEF Waiting
      <3>4. k \in 1..Len(g.edges) /\ ~Ordered(s, g.edges[k].source)
        BY <3>3 DEF Remaining
      <3>5. g.edges[k] \in ToSet(g.edges)
        BY <3>4 DEF ToSet, Drawn
      <3>6. g.edges[k].source \in NodesOf(g)
        BY <3>5 DEF Drawn, EdgeRules
      <3> QED
        BY <3>3, <3>4, <3>5, <3>6 DEF Incoming
    <2> QED
      <3> HIDE DEF U
      <3>1. U \in SUBSET NodesOf(g)
        BY DEF U
      <3> QED
        BY <2>3, <2>4, <3>1, CycleExists
  <1> QED
    BY <1>1, <1>2

-------------------------------------------------------------------------------
\* What the compiler has decided is what it decides of the graph submitted.
CompileInv ==
    /\ graph \in Graphs
    /\ verdict \in {"pending", "accepted", "rejected"}
    /\ Accepted => Compilable(graph) /\ plan = CompiledWorkflow(graph)

\* A graph is accepted or rejected once, by the rules, and left alone.
LEMMA CompileInvHolds == CompileSpec => []CompileInv
  <1>1. CompileInit => CompileInv
    BY DEF CompileInit, CompileInv, Accepted
  <1>2. CompileInv /\ [CompileNext]_compileVars => CompileInv'
    <2> SUFFICES ASSUME CompileInv, [CompileNext]_compileVars PROVE CompileInv'
      OBVIOUS
    <2>1. CASE Accept
      BY <2>1 DEF Accept, CompileInv, Accepted
    <2>2. CASE Reject
      BY <2>2 DEF Reject, CompileInv, Accepted
    <2>3. CASE UNCHANGED compileVars
      BY <2>3 DEF compileVars, CompileInv, Accepted
    <2> QED
      BY <2>1, <2>2, <2>3 DEF CompileNext
  <1> QED
    BY <1>1, <1>2, PTL DEF CompileSpec

\* What an accepted graph and its plan are.
LEMMA AcceptedFacts ==
    ASSUME CompileInv, Accepted
    PROVE  /\ Drawn(graph) /\ ValidGraph(graph) /\ graph.type \in [NodesOf(graph) -> NodeType]
           /\ Topological(graph, KahnOrder(graph))
           /\ plan.gate = Gates(graph) /\ plan.ids = OfType(graph, Executable)
           /\ plan.sequence = Among(KahnOrder(graph), OfType(graph, Executable))
  <1>1. Compilable(graph) /\ plan = CompiledWorkflow(graph) /\ graph \in Graphs
    BY DEF CompileInv
  <1>2. ValidGraph(graph) /\ HasTopoOrder(graph)
    BY <1>1 DEF Compilable
  <1>3. Drawn(graph) /\ graph.type \in [NodesOf(graph) -> NodeType]
    BY <1>1, <1>2, GraphsAssumption DEF Drawn, ValidGraph
  <1> QED
    BY <1>1, <1>2, <1>3, KahnTopological DEF CompiledWorkflow

\* Every plan is for an acyclic graph and lists its executable nodes once each,
\* after everything that leads to them.
LEMMA SequenceIsExact ==
    ASSUME CompileInv
    PROVE  SequenceExact
  <1> SUFFICES ASSUME Accepted
               PROVE  /\ \A n \in NodesOf(graph) :
                            n \notin Closure(graph, {e.target : e \in Outgoing(graph, n)}, ToSet(graph.edges))
                      /\ IsInjective(plan.sequence) /\ ToSet(plan.sequence) = plan.ids
                      /\ \A i, j \in DOMAIN plan.sequence :
                             plan.sequence[j] \in Closure(graph, {plan.sequence[i]}, ToSet(graph.edges)) => i <= j
    BY DEF SequenceExact
  <1> DEFINE o == KahnOrder(graph)
             S == OfType(graph, Executable)
             t == plan.sequence
  <1>1. Drawn(graph) /\ Topological(graph, o) /\ plan.ids = S /\ t = Among(o, S)
    BY AcceptedFacts
  <1>2. o \in Seq(NodesOf(graph)) /\ IsInjective(o) /\ ToSet(o) = NodesOf(graph) /\ DOMAIN o = 1..Len(o) /\ Len(o) \in Nat
    BY <1>1 DEF Topological
  <1> HIDE DEF o, S, t
  <1>3. t \in Seq(NodesOf(graph)) /\ Sublist(o, Len(o), S, t)
    BY <1>1, <1>2, AmongFacts
  <1>4. DOMAIN t \subseteq Nat
    BY <1>3
  <1>5. ASSUME NEW p \in DOMAIN o
        PROVE  /\ o[p] \notin Closure(graph, {e.target : e \in Outgoing(graph, o[p])}, ToSet(graph.edges))
               /\ \A q \in DOMAIN o : o[q] \in Closure(graph, {o[p]}, ToSet(graph.edges)) => p <= q
    BY <1>1, OrderExact
  <1>6. ASSUME NEW n \in NodesOf(graph)
        PROVE  n \notin Closure(graph, {e.target : e \in Outgoing(graph, n)}, ToSet(graph.edges))
    <2>1. PICK p \in DOMAIN o : o[p] = n
      BY <1>2 DEF ToSet
    <2> QED
      BY <1>5, <2>1
  <1>7. ASSUME NEW i \in DOMAIN t, NEW j \in DOMAIN t, j < i
        PROVE  t[j] # t[i] /\ t[j] \notin Closure(graph, {t[i]}, ToSet(graph.edges))
    <2>1. PICK c \in 1..Len(o), d \in 1..Len(o) : c < d /\ o[c] = t[j] /\ o[d] = t[i]
      BY <1>3, <1>7 DEF Sublist
    <2>2. c \in DOMAIN o /\ d \in DOMAIN o /\ ~(d <= c)
      BY <1>2, <2>1
    <2>3. t[j] # t[i]
      BY <1>2, <2>1, <2>2 DEF IsInjective
    <2> QED
      BY <1>5, <2>1, <2>2, <2>3
  <1>8. IsInjective(t)
    <2> SUFFICES ASSUME NEW a \in DOMAIN t, NEW b \in DOMAIN t, t[a] = t[b] PROVE a = b
      BY DEF IsInjective
    <2>1. a \in Nat /\ b \in Nat /\ ~(a < b) /\ ~(b < a)
      BY <1>4, <1>7
    <2> QED
      BY <2>1
  <1>9. ToSet(t) = S
    <2>1. S \subseteq NodesOf(graph)
      BY DEF S, OfType
    <2>2. \A x : x \in ToSet(t) <=> x \in S /\ \E c \in 1..Len(o) : o[c] = x
      BY <1>3 DEF Sublist, ToSet
    <2>3. \A x \in NodesOf(graph) : \E c \in 1..Len(o) : o[c] = x
      BY <1>2 DEF ToSet
    <2> QED
      BY <2>1, <2>2, <2>3
  <1>10. \A i, j \in DOMAIN t : t[j] \in Closure(graph, {t[i]}, ToSet(graph.edges)) => i <= j
    BY <1>4, <1>7
  <1> QED
    BY <1>1, <1>6, <1>8, <1>9, <1>10 DEF t

\* Every gate is the set of branch sides that all ways to the node take.
LEMMA GatesAreCuts ==
    ASSUME CompileInv
    PROVE  GateIsCut
  <1> SUFFICES ASSUME Accepted, NEW n \in NodesOf(graph)
               PROVE  plan.gate[n] = {l \in Deciders \X Side : Separates(l, n)}
    BY DEF GateIsCut
  <1>1. Drawn(graph) /\ Topological(graph, KahnOrder(graph)) /\ plan.gate = Gates(graph)
    BY AcceptedFacts
  <1>2. \A l : l \in Gates(graph)[n] <=> Separates(l, n)
    BY <1>1, GateCuts DEF Separates, Roots
  <1>3. ASSUME NEW l \in Gates(graph)[n] PROVE l \in Deciders \X Side
    <2>1. PICK p \in DOMAIN KahnOrder(graph) : KahnOrder(graph)[p] = n
      BY <1>1 DEF Topological, ToSet
    <2> QED
      BY <1>1, <1>3, <2>1, GateEarlier DEF Deciders
  <1> QED
    BY <1>1, <1>2, <1>3

\* The plan is an order and gates of the graph.
LEMMA CompileIsTyped ==
    ASSUME CompileInv
    PROVE  CompileTypeOK
  <1>1. ASSUME Accepted PROVE plan.gate \in [NodesOf(graph) -> SUBSET (Deciders \X Side)]
    <2>1. Drawn(graph) /\ Topological(graph, KahnOrder(graph)) /\ plan.gate = Gates(graph)
      BY <1>1, AcceptedFacts
    <2>2. plan.gate \in Gatings(graph)
      BY <2>1, GatesFixed
    <2>3. \A n \in NodesOf(graph) : plan.gate[n] \subseteq Deciders \X Side
      BY <1>1, GatesAreCuts DEF GateIsCut
    <2> QED
      BY <2>2, <2>3 DEF Gatings
  <1> QED
    BY <1>1 DEF CompileTypeOK, CompileInv

\* The nodes on the path taken run, and in structured graphs no others.
LEMMA GatesAreFollowed ==
    ASSUME CompileInv
    PROVE  GatesFollowPath
  <1> SUFFICES ASSUME Accepted, NEW outcome \in Decisions
               PROVE  /\ Taken(outcome) \subseteq Running(outcome)
                      /\ Structured => Running(outcome) \ OfType(graph, {"note"}) = Taken(outcome)
    BY DEF GatesFollowPath
  <1>1. /\ Drawn(graph) /\ ValidGraph(graph) /\ Topological(graph, KahnOrder(graph))
        /\ graph.type \in [NodesOf(graph) -> NodeType] /\ plan.gate = Gates(graph)
    BY AcceptedFacts
  <1>2. Taken(outcome) \subseteq Running(outcome)
    BY <1>1, TakenRuns
  <1>3. Structured => Running(outcome) \ OfType(graph, {"note"}) \subseteq Taken(outcome)
    BY <1>1, RunsTaken
  <1>4. ASSUME NEW n \in Taken(outcome) PROVE n \notin OfType(graph, {"note"})
    <2>1. n = Start(graph) \/ Incoming(graph, n) # {}
      BY <1>1, TakenSteps
    <2> QED
      BY <1>1, <2>1, StartFacts
  <1> QED
    BY <1>2, <1>3, <1>4

\* Only acyclic graphs get a plan, whose sequence lists the executable nodes of
\* the graph once each, after everything that leads to them (_topo_order).
THEOREM PlansAreOrdered == CompileSpec => []SequenceExact
  BY CompileInvHolds, SequenceIsExact, PTL

\* The forward pass of _compile_graph computes, for every graph, exactly the
\* branch sides that every path to the node must take.
THEOREM PlansAreCut == CompileSpec => []GateIsCut
  BY CompileInvHolds, GatesAreCuts, PTL

\* A plan gates its nodes by branches of its graph.
THEOREM PlansAreTyped == CompileSpec => []CompileTypeOK
  BY CompileInvHolds, CompileIsTyped, PTL

\* However its branches are decided, a plan skips no node on the path taken, and
\* when every join covers the sides it merges it runs no other node.
THEOREM PlansFollowPaths == CompileSpec => []GatesFollowPath
  BY CompileInvHolds, GatesAreFollowed, PTL
============================================================================
