---------------------------- MODULE RunLifecycle -----------------------------
(****************************************************************************)
(* What flow_runs promises of a run to whoever reads its row: it starts     *)
(* once; nothing of it is executed but in a turn, and a turn begins only on *)
(* a new run or on one that waits for a human.  So a run that is over and   *)
(* has no turn in progress is over for good.  A waiting run may time out,   *)
(* even during the turn that resumes it, whose outcome counts in the end.   *)
(* A node's effect happens at most once, unless the run is torn.            *)
(****************************************************************************)
EXTENDS Naturals

CONSTANT Node

VARIABLES phase,    \* "none", "running", "waiting_human" or "over"
          busy,     \* whether a turn is in progress
          done,     \* node -> how often its effect has happened
          torn      \* whether turns of this run may end without leaving their outcome
vars == <<phase, busy, done, torn>>

Init == phase = "none" /\ busy = FALSE /\ done = [n \in Node |-> 0] /\ torn \in BOOLEAN

Begin == phase = "none" /\ phase' = "running" /\ busy' = TRUE /\ UNCHANGED <<done, torn>>

Resume == phase = "waiting_human" /\ ~busy /\ busy' = TRUE /\ UNCHANGED <<phase, done, torn>>

Effect(n) ==
    /\ busy
    /\ done[n] = 0 \/ torn
    /\ done' = [done EXCEPT ![n] = @ + 1]
    /\ UNCHANGED <<phase, busy, torn>>

EndTurn(outcome) == busy /\ busy' = FALSE /\ phase' = outcome /\ UNCHANGED <<done, torn>>

\* The turn leaves no outcome; one that was not torn leaves a run for ever running.
Lose == torn \/ phase = "running"

Expire == phase = "waiting_human" /\ phase' = "over" /\ UNCHANGED <<busy, done, torn>>

Next ==
    \/ Begin \/ Resume
    \/ \E n \in Node : Effect(n)
    \/ EndTurn("waiting_human") \/ EndTurn("over")
    \/ Lose /\ EndTurn(phase)
    \/ Expire

Spec == Init /\ [][Next]_vars
==============================================================================
