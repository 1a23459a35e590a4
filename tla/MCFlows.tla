------------------------------- MODULE MCFlows -------------------------------
(****************************************************************************)
(* A Chatflow from its declared graph to the row of its run: the compiler   *)
(* over all small graphs, and the executor over the flows of MCFlowExec.  A *)
(* behaviour is of one part, and the variables of the other stay.           *)
(****************************************************************************)
EXTENDS MCFlowExec, FlowCompile

CONSTANT LastTypes      \* the types the last node of a declared graph may have

-------------------------------------------------------------------------------
(****************************************************************************)
(* Every graph over a start node 0, the middle nodes 1, 2, 3 and a last     *)
(* node 4 in which each middle node is a condition or a capability node     *)
(* with an error edge, an approval, an answer or a note: cycles, dead ends  *)
(* and orphans included.                                                    *)
(****************************************************************************)
Inner == 1..3

\* What leaves a middle node: its type and the targets of its edges.
Shapes(n) ==
    LET T == (Inner \cup {4}) \ {n}
        edge(t, h) == [source |-> n, target |-> t, handle |-> h]
    IN  {[type |-> "condition", out |-> <<edge(t, "true"), edge(f, "false")>>] : t, f \in T}
        \cup {[type |-> "capability", out |-> <<edge(t, ""), edge(f, "error")>>] : t, f \in T}
        \cup {[type |-> "human_approval", out |-> <<edge(t, "")>>] : t \in T}
        \cup {[type |-> t, out |-> <<>>] : t \in {"answer", "note"}}

FromShapes(shape, last) ==
    [ids   |-> <<0, 1, 2, 3, 4>>,
     type  |-> [n \in 0..4 |-> CASE n = 0 -> "start" [] n = 4 -> last [] OTHER -> shape[n].type],
     edges |-> <<go(0, 1)>> \o shape[1].out \o shape[2].out \o shape[3].out,
     left  |-> [n \in 0..4 |-> 0],
     op    |-> [n \in 0..4 |-> "exists"],
     comp  |-> {}]

\* Start leads to node 1; the middle nodes are interchangeable up to that.
MCGraphs == {FromShapes(shape, last) : shape \in Shapes(1) \X Shapes(2) \X Shapes(3), last \in LastTypes}

-------------------------------------------------------------------------------
VARIABLE part

\* While the compiler works some run has not begun; while a run is executed no
\* graph is submitted.
MCInit ==
    \/ part = "compile" /\ flow = (CHOOSE f \in Flows : TRUE) /\ Init /\ CompileInit
    \/ part = "run" /\ Init /\ graph = <<>> /\ verdict = "pending" /\ plan = <<>>

\* What a completed output means matters where a condition reads it.
ReadVerdicts ==
    \A n \in Node : pool'[n] \in {"miss", "null"} =>
        \E m \in Elements(flow.sequence) : IsCondition(m) /\ flow.left[m] = n

MCNext ==
    /\ UNCHANGED part
    /\ \/ part = "compile" /\ CompileNext /\ UNCHANGED vars
       \/ part = "run" /\ Next /\ ReadVerdicts /\ UNCHANGED compileVars

\* The fairness of FlowExec.
MCSpec ==
    /\ MCInit /\ [][MCNext]_<<part, vars, compileVars>>
    /\ WF_vars(Step) /\ WF_vars(Scan) /\ WF_vars(Expire)
==============================================================================
