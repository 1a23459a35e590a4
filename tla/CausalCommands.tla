---------------------------- MODULE CausalCommands ----------------------------
(****************************************************************************)
(* How a command on a version meets its own repetitions and its             *)
(* competitors.  A command is one transaction: it looks for the record of   *)
(* its idempotency key, locks the version, checks the revision the client   *)
(* expects, and commits its effect together with the record of its answer.  *)
(* The look-up comes before the lock, so two requests with one key can both *)
(* find nothing.  A client whose answer is lost sends the command again     *)
(* with the same key; it may also use the key for another command.          *)
(****************************************************************************)
EXTENDS Naturals, FiniteSets

CONSTANTS
    Command,    \* commands the clients have to send
    Kind,       \* "create", "edit", "submit" or "compile"
    KeyOf,      \* idempotency key of each command: actor, operation and key
    Request,    \* transactions that serve them
    NoCommand,
    MaxSends    \* bound on the times a command is sent

ASSUME CommandConstants ==
    /\ Kind \in [Command -> {"create", "edit", "submit", "compile"}]
    /\ DOMAIN KeyOf = Command
    /\ NoCommand \notin Command
    /\ MaxSends \in Nat

Keys == {KeyOf[c] : c \in Command}

VARIABLES
    version,    \* committed row: [revision, sound, draft]
    known,      \* revision the client of a command has read, 0 before it is sent
    records,    \* idempotency_records: [command, answer] of each key
    effects,    \* how often a command took effect
    sends,      \* how often a command was sent, in all
    serving,    \* what each transaction does: [command, pc]
    holder,     \* the transaction with the version's row lock, a set of at most one
    answers     \* answers from the record that each client has received

commandVars == <<version, known, records, effects, sends, serving, holder, answers>>

Unrecorded == [command |-> NoCommand, answer |-> "none"]
Idle == [command |-> NoCommand, pc |-> "idle"]
Final == {"done", "refused"}

\* Creation inserts rows of its own and locks none.
Locks(c) == Kind[c] # "create"
ChecksRevision(c) == Kind[c] \in {"edit", "submit"}

CommandInit ==
    /\ version = [revision |-> 1, sound |-> FALSE, draft |-> TRUE]
    /\ known = [c \in Command |-> 0]
    /\ records = [k \in Keys |-> Unrecorded]
    /\ effects = [c \in Command |-> 0] /\ sends = 0
    /\ serving = [t \in Request |-> Idle] /\ holder = {}
    /\ answers = [c \in Command |-> {}]

-------------------------------------------------------------------------------
\* The client has looked at the version, then or at some time before, and sends
\* the same expected revision when it repeats the command.
Send(c, t, revision) ==
    /\ sends < MaxSends /\ serving[t] = Idle
    /\ IF known[c] = 0 THEN revision \in 1..version.revision ELSE revision = known[c]
    /\ sends' = sends + 1
    /\ known' = [known EXCEPT ![c] = revision]
    /\ serving' = [serving EXCEPT ![t] = [command |-> c, pc |-> "replay"]]
    /\ UNCHANGED <<version, records, effects, holder, answers>>

\* The transaction of t ends; its answer reaches the client or is lost.
Answer(t, answer) ==
    /\ serving' = [serving EXCEPT ![t] = Idle]
    /\ holder' = holder \ {t}
    /\ \/ answers' = [answers EXCEPT ![serving[t].command] = @ \cup ({answer} \cap Final)]
       \/ UNCHANGED answers

\* The record of the key answers for this command, or refuses another one.
Replay(t) ==
    LET c == serving[t].command
        record == records[KeyOf[c]]
    IN /\ serving[t].pc = "replay"
       /\ IF record = Unrecorded
          THEN /\ serving' = [serving EXCEPT ![t].pc = IF Locks(c) THEN "lock" ELSE "write"]
               /\ UNCHANGED <<holder, answers>>
          ELSE Answer(t, IF record.command = c THEN record.answer ELSE "key reuse")
       /\ UNCHANGED <<version, known, records, effects, sends>>

\* Mutant: only the status is compared.
AdmittedByStatus(c) == IF Kind[c] = "compile" THEN ~version.draft ELSE version.draft

\* What the command finds in the row it has locked.
Admitted(c) ==
    CASE Kind[c] = "compile" -> ~version.draft
      [] OTHER -> version.revision = known[c] /\ version.draft

LockVersion(t) ==
    /\ serving[t].pc = "lock" /\ holder = {}
    /\ IF Admitted(serving[t].command)
       THEN /\ holder' = {t}
            /\ serving' = [serving EXCEPT ![t].pc = "write"]
            /\ UNCHANGED answers
       ELSE Answer(t, "conflict")
    /\ UNCHANGED <<version, known, records, effects, sends>>

\* An edit leaves a content that is sound or not; a submission closes it.
Effect(c) ==
    CASE Kind[c] = "edit" -> \E sound \in BOOLEAN :
                                 version' = [version EXCEPT !.revision = @ + 1, !.sound = sound]
      [] Kind[c] = "submit" -> version' = [version EXCEPT !.revision = @ + 1, !.draft = FALSE]
      [] OTHER -> UNCHANGED version

\* A submission of an unsound content changes nothing but is remembered.
Blocked(c) == Kind[c] = "submit" /\ ~version.sound

\* Mutant: the record is overwritten.
InsertsOrUpdates(key) == TRUE

\* The record has the key as its primary key.
Inserts(key) == records[key] = Unrecorded

\* The second one to insert its record fails with everything it did.
Commit(t) ==
    LET c == serving[t].command
        answer == IF Blocked(c) THEN "refused" ELSE "done"
    IN /\ serving[t].pc = "write"
       /\ IF ~Inserts(KeyOf[c])
          THEN Answer(t, "error") /\ UNCHANGED <<version, records, effects>>
          ELSE /\ records' = [records EXCEPT ![KeyOf[c]] = [command |-> c, answer |-> answer]]
               /\ IF Blocked(c) THEN UNCHANGED <<version, effects>>
                  ELSE Effect(c) /\ effects' = [effects EXCEPT ![c] = @ + 1]
               /\ Answer(t, answer)
       /\ UNCHANGED <<known, sends>>

\* The server or its connection is lost before the commit.
Abort(t) ==
    /\ serving[t] # Idle
    /\ serving' = [serving EXCEPT ![t] = Idle]
    /\ holder' = holder \ {t}
    /\ UNCHANGED <<version, known, records, effects, sends, answers>>

CommandNext ==
    \/ \E c \in Command, t \in Request, revision \in 1..version.revision : Send(c, t, revision)
    \/ \E t \in Request : Replay(t) \/ LockVersion(t) \/ Commit(t) \/ Abort(t)

CommandSpec == CommandInit /\ [][CommandNext]_commandVars

-------------------------------------------------------------------------------
CommandTypeOK ==
    /\ version \in [revision : Nat, sound : BOOLEAN, draft : BOOLEAN]
    /\ known \in [Command -> Nat] /\ effects \in [Command -> Nat] /\ sends \in 0..MaxSends
    /\ records \in [Keys -> [command : Command \cup {NoCommand}, answer : Final \cup {"none"}]]
    /\ serving \in [Request -> [command : Command \cup {NoCommand}, pc : {"idle", "replay", "lock", "write"}]]
    /\ holder \subseteq Request /\ Cardinality(holder) <= 1
    /\ answers \in [Command -> SUBSET Final]

\* However often a command is repeated, by however many requests at once, it
\* takes effect at most once, and the commands that share a key at most once
\* together; the record of a key tells what happened to it.
OneEffectPerKey ==
    \A c \in Command :
        /\ effects[c] = IF records[KeyOf[c]] = [command |-> c, answer |-> "done"] THEN 1 ELSE 0
        /\ "done" \in answers[c] => effects[c] = 1
        /\ ~(Final \subseteq answers[c])

\* An edit or a submission applies to the very revision its client has seen,
\* whatever was committed between its look-up and its lock.
NoLostUpdate ==
    [][\A c \in Command :
          effects'[c] # effects[c] /\ ChecksRevision(c) =>
              /\ known[c] = version.revision
              /\ version'.revision = version.revision + 1]_commandVars
===============================================================================
