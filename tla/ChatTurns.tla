------------------------------- MODULE ChatTurns -------------------------------
(****************************************************************************)
(* One conversation with an app that answers from its knowledge: each turn  *)
(* stores the question, collects the history and the facts, lets the model  *)
(* answer, and stores the answer and its citations, in a transaction each.  *)
(* Turns of one conversation are not serialised.                            *)
(****************************************************************************)
EXTENDS Integers, FiniteSets, FiniteSetsExt, SequencesExt

CONSTANTS
    Turn,       \* requests
    Pairs,      \* context_turns of the app: question and answer pairs of history
    NoTurn

ASSUME ChatTurnsConstants == Pairs \in Nat \ {0} /\ NoTurn \notin Turn

VARIABLES
    conversation,  \* [there, count, entities, relations]; the last two name the turn they are from
    messages,      \* set of [seq, role, turn, cites]
    turns          \* [pc, role, seq, history, facts, alone] of each turn

chatVars == <<conversation, messages, turns>>

\* alone: no other turn has run since this one began; only properties read it.
Waiting == [pc |-> "off", seq |-> 0, history |-> <<>>, facts |-> {}, alone |-> TRUE]

ChatInit ==
    /\ conversation = [there |-> FALSE, count |-> 0, entities |-> NoTurn, relations |-> NoTurn]
    /\ messages = {}
    /\ turns = [t \in Turn |-> Waiting]

Over(t) == [Waiting EXCEPT !.pc = "over", !.alone = turns[t].alone]
Running(t) == turns[t].pc \notin {"off", "over"}

\* Continue a conversation that is there, or begin it.
BeginTurn(t) ==
    /\ turns[t].pc = "off"
    /\ conversation' = [conversation EXCEPT !.there = TRUE]
    /\ LET others == {u \in Turn \ {t} : Running(u)}
       IN turns' = [u \in Turn |->
              IF u = t THEN [Waiting EXCEPT !.pc = "question", !.alone = others = {}]
              ELSE IF u \in others THEN [turns[u] EXCEPT !.alone = FALSE] ELSE turns[u]]
    /\ UNCHANGED messages

-------------------------------------------------------------------------------
(* Storing a message                                                        *)

\* Its number is read first, and another turn may take that number.
NextSeq(t) ==
    /\ turns[t].pc \in {"question", "answer"} /\ turns[t].seq = 0
    /\ turns' = [turns EXCEPT ![t].seq = Max({0} \cup {m.seq : m \in messages}) + 1]
    /\ UNCHANGED <<conversation, messages>>

\* The insert and the count are one transaction, which fails on a number that
\* is taken, and the turn with it.
Insert(t, author, next) ==
    \/ /\ \A m \in messages : m.seq # turns[t].seq
       /\ messages' = messages \cup {[seq |-> turns[t].seq, role |-> author, turn |-> t, cites |-> NoTurn]}
       /\ conversation' = [conversation EXCEPT !.count = @ + 1]
       /\ turns' = [turns EXCEPT ![t].pc = next, ![t].seq = 0]
    \/ /\ \E m \in messages : m.seq = turns[t].seq
       /\ turns' = [turns EXCEPT ![t] = Over(t)]
       /\ UNCHANGED <<conversation, messages>>

AddQuestion(t) == turns[t].pc = "question" /\ turns[t].seq # 0 /\ Insert(t, "user", "history")
AddAnswer(t) == turns[t].pc = "answer" /\ turns[t].seq # 0 /\ Insert(t, "assistant", "cite")

-------------------------------------------------------------------------------
(* Between the question and the answer                                      *)

\* The messages in the order of their numbers.
Ranked == [k \in 1..Cardinality(messages) |->
              CHOOSE m \in messages : Cardinality({n \in messages : n.seq <= m.seq}) = k]

\* The last 4N + 1 of them, without a question at the end, which is taken to be
\* that of this turn.
Recent ==
    LET window == SubSeq(Ranked, Max({1, Len(Ranked) - 4 * Pairs}), Len(Ranked))
    IN IF window # <<>> /\ Last(window).role = "user" THEN Front(window) ELSE window

\* Mutant: every message before an answer is taken for its question, from the front.
RecentPairsFromFront(recent) ==
    LET n == Len(recent) \div 2
        pairs == [k \in 1..n |-> <<recent[2 * k - 1].turn, recent[2 * k].turn>>]
    IN SubSeq(pairs, Max({1, n - Pairs + 1}), n)

\* Adjacent questions and answers from the end, at most N of them.
RecentPairs(recent) ==
    LET ends == {i \in 2..Len(recent) : recent[i].role = "assistant" /\ recent[i - 1].role = "user"}
        last == {i \in ends : Cardinality({j \in ends : j > i}) < Pairs}
    IN [k \in 1..Cardinality(last) |->
           LET i == CHOOSE i \in last : Cardinality({j \in last : j <= i}) = k
           IN <<recent[i - 1].turn, recent[i].turn>>]

CollectHistory(t) ==
    /\ turns[t].pc = "history"
    /\ turns' = [turns EXCEPT ![t].pc = "retrieve", ![t].history = RecentPairs(Recent)]
    /\ UNCHANGED <<conversation, messages>>

\* An app without bases of its own reads the context of the conversation, in
\* which the references of the question are resolved.
Retrieve(t, planned) ==
    /\ turns[t].pc = "retrieve"
    /\ turns' = [turns EXCEPT
           ![t].pc = IF planned THEN "context" ELSE "stream",
           ![t].facts = IF planned THEN {conversation.entities, conversation.relations} \ {NoTurn} ELSE {}]
    /\ UNCHANGED <<conversation, messages>>

\* Only a turn that found entities writes them, and its relations if it found
\* any; the relations of an earlier turn stay beside newer entities.  An error
\* is swallowed.
WriteContext(t) ==
    /\ turns[t].pc = "context"
    /\ conversation' \in {conversation, [conversation EXCEPT !.entities = t],
                          [conversation EXCEPT !.entities = t, !.relations = t]}
    /\ turns' = [turns EXCEPT ![t].pc = "stream"]
    /\ UNCHANGED messages

Stream(t) ==
    /\ turns[t].pc = "stream"
    /\ turns' = [turns EXCEPT ![t] = [Waiting EXCEPT !.pc = "answer", !.alone = turns[t].alone]]
    /\ UNCHANGED <<conversation, messages>>

SetCitations(t) ==
    /\ turns[t].pc = "cite"
    /\ messages' = {IF m.turn = t /\ m.role = "assistant" THEN [m EXCEPT !.cites = t] ELSE m : m \in messages}
    /\ turns' = [turns EXCEPT ![t] = Over(t)]
    /\ UNCHANGED conversation

\* Any call fails, or the client goes away: the question stays without an answer.
TurnFails(t) ==
    /\ Running(t)
    /\ turns' = [turns EXCEPT ![t] = Over(t)]
    /\ UNCHANGED <<conversation, messages>>

ChatNext == \E t \in Turn :
    \/ BeginTurn(t) \/ NextSeq(t) \/ AddQuestion(t) \/ AddAnswer(t) \/ CollectHistory(t)
    \/ \E planned \in BOOLEAN : Retrieve(t, planned)
    \/ WriteContext(t) \/ Stream(t) \/ SetCitations(t) \/ TurnFails(t)

ChatSpec == ChatInit /\ [][ChatNext]_chatVars

-------------------------------------------------------------------------------
\* Each field holds a value of its set.
ChatTypeOK ==
    /\ conversation \in [there : BOOLEAN, count : Nat, entities : Turn \cup {NoTurn}, relations : Turn \cup {NoTurn}]
    /\ messages \subseteq [seq : Nat \ {0}, role : {"user", "assistant"}, turn : Turn, cites : Turn \cup {NoTurn}]

\* add_message numbers the messages of a conversation from one without a gap or
\* a repetition and counts them, however its transactions interleave and fail;
\* an answer comes after its question.
TranscriptWhole ==
    /\ {m.seq : m \in messages} = 1..conversation.count
    /\ Cardinality(messages) = conversation.count
    /\ \A m, n \in messages : m.turn = n.turn /\ m.role = "user" /\ n.role = "assistant" => m.seq < n.seq

\* _recent_pairs tells the model no wrong story: as long as the turns of the
\* conversation did not overlap, each pair of the history is a question and the
\* answer to it, questions that were never answered are left out, and as many
\* pairs are found as were asked for, unless more questions stayed unanswered
\* than its window has room for.
HistoryIsTrue ==
    \A t \in Turn :
        LET h == turns[t].history
            answered == {m.turn : m \in {x \in messages : x.role = "assistant" /\ x.turn # t}}
        IN (\A u \in Turn : turns[u].alone) /\ turns[t].pc \in {"retrieve", "context", "stream"} =>
              /\ \A k \in DOMAIN h : h[k][1] = h[k][2] /\ h[k][1] \in answered
              /\ Cardinality({u \in Turn : turns[u].pc = "over"} \ answered) <= 2 * Pairs =>
                    Len(h) = Min({Pairs, Cardinality(answered)})

\* The two promises about the messages of a conversation, as one.
TranscriptIsTrue == TranscriptWhole /\ HistoryIsTrue
===============================================================================
