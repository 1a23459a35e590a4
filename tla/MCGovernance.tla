----------------------------- MODULE MCGovernance -----------------------------
(****************************************************************************)
(* What is governed, checked side by side: a causal model, its versions,    *)
(* the graph of one draft, and the commands that repeat and compete; and an *)
(* entity type with the requests to change it.  A behaviour is of one of    *)
(* these, "part" says which, and the variables of the others stay.          *)
(****************************************************************************)
EXTENDS CausalModels, CausalContent, CausalCommands, TBoxGovernance

CONSTANTS ann, root,            \* users; root is an administrator
          n1, n2, n3, e1, e2,   \* nodes and edges
          q2, cid               \* the second change request and the third steward

MCActor == {ann, root}
MCAdmins == {root}
MCNodeShape == {[entry |-> TRUE, observable |-> TRUE], [entry |-> FALSE, observable |-> TRUE],
                [entry |-> FALSE, observable |-> FALSE]}
\* "again" is another edit that is sent with the key of "edit".
MCCommand == {"create", "edit", "again", "submit", "compile"}
MCKind == [c \in MCCommand |-> IF c = "again" THEN "edit" ELSE c]
MCKeyOf == [c \in MCCommand |-> IF c = "again" THEN "edit" ELSE c]

VARIABLE part

\* The parts that do not run start in one of their initial states.
MCInit ==
    /\ part \in {"versions", "content", "commands", "types", "reviews"}
    /\ CausalInit /\ ContentInit /\ CommandInit /\ TBoxInit
    /\ part # "versions" => catalogNow = Retired

\* The type is governed by two stewards with two requests, or by three with one
\* while domains are switched.
TwoRequests ==
    /\ TBoxNext /\ UNCHANGED activeDomains
    /\ reviewing'[cid] = reviewing[cid]
    /\ \A q \in TypeChange : requested'[q].status # "none" => requested'[q].by # cid
ThreeStewards == TBoxNext /\ requested'[q2] = requested[q2]

\* Rules and evidence are not there together: nothing relates them.
DraftCommands == ContentNext /\ (rules' = {} \/ evidence' = [n \in Node |-> "none"])

MCNext ==
    /\ UNCHANGED part
    /\ \/ part = "versions" /\ CausalNext /\ UNCHANGED <<contentVars, commandVars, tboxVars>>
       \/ part = "content" /\ DraftCommands /\ UNCHANGED <<causalVars, commandVars, tboxVars>>
       \/ part = "commands" /\ CommandNext /\ UNCHANGED <<causalVars, contentVars, tboxVars>>
       \/ part = "types" /\ TwoRequests /\ UNCHANGED <<causalVars, contentVars, commandVars>>
       \/ part = "reviews" /\ ThreeStewards /\ UNCHANGED <<causalVars, contentVars, commandVars>>

MCSpec == MCInit /\ [][MCNext]_<<part, causalVars, contentVars, commandVars, tboxVars>>

\* Every variable of the four holds a value of its set.
MCTypeOK == CausalTypeOK /\ ContentTypeOK /\ CommandTypeOK /\ TBoxTypeOK
===============================================================================
