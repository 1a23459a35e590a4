----------------------------- MODULE MCFlowRuns ------------------------------
(****************************************************************************)
(* Instances of FlowRuns: the messages of a conversation are interchangeable.*)
(****************************************************************************)
EXTENDS FlowRuns, TLC

Messages == Permutations(Request)
==============================================================================
