----------------------------- MODULE Causal_proofs -----------------------------
(****************************************************************************)
(* Proofs about the causal models, for any number of versions, snapshots,   *)
(* attempts and users, about the commands on a version, for any number of   *)
(* commands, keys, requests and repetitions, and about the graph of a       *)
(* draft, for any number of nodes and edges.                                *)
(****************************************************************************)
EXTENDS CausalCommands, CausalModels, CausalContent, NumberFacts, SequenceTheorems

-------------------------------------------------------------------------------
(****************************************************************************)
(* Commands.                                                                *)
(****************************************************************************)
VersionState == [revision : Nat \ {0}, sound : BOOLEAN, draft : BOOLEAN]
Record == [command : Command \cup {NoCommand}, answer : Final \cup {"none"}]
Transaction == [command : Command \cup {NoCommand}, pc : {"idle", "replay", "lock", "write"}]

\* Every variable has a value of its set, and a transaction at work has a
\* command whose client has read some revision.
CommandTInv ==
    /\ version \in VersionState
    /\ known \in [Command -> Nat] /\ effects \in [Command -> Nat] /\ sends \in 0..MaxSends
    /\ records \in [Keys -> Record]
    /\ serving \in [Request -> Transaction]
    /\ holder \subseteq Request /\ \A t, u \in holder : t = u
    /\ answers \in [Command -> SUBSET Final]
    /\ \A t \in Request : serving[t] # Idle => serving[t].command \in Command /\ known[serving[t].command] # 0

\* The record of a key tells everything about it: a command has taken effect if
\* it is the one recorded as done, and clients were given the recorded answer.
Recorded(c) ==
    /\ effects[c] = IF records[KeyOf[c]] = [command |-> c, answer |-> "done"] THEN 1 ELSE 0
    /\ \A answer \in answers[c] : records[KeyOf[c]] = [command |-> c, answer |-> answer]
CommandRecords ==
    /\ \A c \in Command : Recorded(c)
    /\ \A k \in Keys : records[k].answer = "none" => records[k] = Unrecorded

\* A transaction that is about to write a command that needs the row has the
\* lock and has found what it needs; nobody can have written since.
LockAt(t) ==
    serving[t].pc = "write" /\ Locks(serving[t].command) => t \in holder /\ Admitted(serving[t].command)
CommandLocks == \A t \in Request : LockAt(t)

CommandInv == CommandTInv /\ CommandRecords /\ CommandLocks

-------------------------------------------------------------------------------
LEMMA CommandInitInv == CommandInit => CommandInv
  <1> SUFFICES ASSUME CommandInit PROVE CommandInv
    OBVIOUS
  <1>1. CommandTInv
    BY CommandConstants DEF CommandInit, CommandTInv, VersionState, Record, Transaction, Unrecorded, Idle, Final
  <1>2. CommandRecords
    BY CommandConstants DEF CommandInit, CommandRecords, Recorded, Unrecorded, Keys
  <1>3. CommandLocks
    BY DEF CommandInit, CommandLocks, LockAt, Idle
  <1> QED
    BY <1>1, <1>2, <1>3 DEF CommandInv

LEMMA KeyIsKey == ASSUME NEW c \in Command PROVE KeyOf[c] \in Keys
  BY DEF Keys

\* A transaction that is not idle has a command.
LEMMA CommandAt ==
    ASSUME CommandTInv, NEW t \in Request, serving[t].pc # "idle"
    PROVE  /\ serving[t] \in Transaction /\ serving[t] # Idle
           /\ serving[t].command \in Command /\ known[serving[t].command] # 0
  BY DEF CommandTInv, Idle

\* What the end of a transaction changes: its state, its lock and at most one
\* answer of its command.
LEMMA AnswerTInv ==
    ASSUME CommandTInv, NEW t \in Request, serving[t].pc # "idle", NEW answer, Answer(t, answer)
    PROVE  /\ serving' \in [Request -> Transaction] /\ serving'[t] = Idle
           /\ \A u \in Request \ {t} : serving'[u] = serving[u]
           /\ holder' = holder \ {t}
           /\ answers' \in [Command -> SUBSET Final]
           /\ \A c \in Command : c # serving[t].command => answers'[c] = answers[c]
           /\ answers'[serving[t].command] \subseteq answers[serving[t].command] \cup ({answer} \cap Final)
  <1>1. Idle \in Transaction /\ serving \in [Request -> Transaction] /\ answers \in [Command -> SUBSET Final]
        /\ serving[t].command \in Command
    BY CommandAt DEF Idle, Transaction, CommandTInv
  <1>2. serving' = [serving EXCEPT ![t] = Idle] /\ holder' = holder \ {t}
    BY DEF Answer
  <1>3. CASE answers' = answers
    BY <1>1, <1>2, <1>3
  <1>4. CASE answers' = [answers EXCEPT ![serving[t].command] = @ \cup ({answer} \cap Final)]
    <2>1. answers[serving[t].command] \cup ({answer} \cap Final) \in SUBSET Final
      BY <1>1
    <2> QED
      BY <1>1, <1>2, <1>4, <2>1
  <1> QED
    BY <1>3, <1>4 DEF Answer

-------------------------------------------------------------------------------
LEMMA SendInv ==
    ASSUME CommandInv, NEW c \in Command, NEW t \in Request, NEW revision \in 1..version.revision,
           Send(c, t, revision)
    PROVE  CommandInv'
  <1> DEFINE sent == [command |-> c, pc |-> "replay"]
  <1>1. /\ UNCHANGED <<version, records, effects, holder, answers>>
        /\ serving' = [serving EXCEPT ![t] = sent] /\ known' = [known EXCEPT ![c] = revision]
        /\ sends < MaxSends /\ sends' = sends + 1 /\ (known[c] # 0 => revision = known[c])
        /\ revision \in Nat /\ revision # 0
    BY DEF Send, CommandInv, CommandTInv, VersionState
  <1>2. sent \in Transaction /\ sent.command = c /\ sent.pc = "replay"
    BY DEF Transaction
  <1> HIDE DEF sent
  <1>3. /\ \A u \in Request : serving'[u] = IF u = t THEN sent ELSE serving[u]
        /\ \A d \in Command : known'[d] = IF d = c THEN revision ELSE known[d]
        /\ \A d \in Command : known[d] # 0 => known'[d] = known[d]
        /\ known'[c] # 0
    BY <1>1 DEF CommandInv, CommandTInv
  <1>4. CommandTInv'
    <2>1. known' \in [Command -> Nat] /\ serving' \in [Request -> Transaction] /\ sends' \in 0..MaxSends
      BY <1>1, <1>2, CommandConstants DEF CommandInv, CommandTInv
    <2>2. \A u \in Request : serving'[u] # Idle => serving'[u].command \in Command /\ known'[serving'[u].command] # 0
      BY <1>2, <1>3 DEF CommandInv, CommandTInv
    <2> QED
      BY <1>1, <2>1, <2>2 DEF CommandInv, CommandTInv, Idle
  <1>5. CommandRecords'
    BY <1>1 DEF CommandInv, CommandRecords, Recorded, Unrecorded
  <1>6. ASSUME NEW u \in Request PROVE LockAt(u)'
    <2>1. CASE u = t
      BY <1>2, <1>3, <2>1 DEF LockAt
    <2>2. CASE u # t
      <3>1. serving'[u] = serving[u] /\ LockAt(u)
        BY <1>3, <2>2 DEF CommandInv, CommandLocks
      <3>2. ASSUME serving[u].pc = "write", Locks(serving[u].command) PROVE (u \in holder /\ Admitted(serving[u].command))'
        <4>1. serving[u].command \in Command /\ known'[serving[u].command] = known[serving[u].command]
          BY <1>3, <3>2, CommandAt DEF CommandInv
        <4> QED
          BY <1>1, <3>1, <3>2, <4>1 DEF LockAt, Admitted
      <3> QED
        BY <3>1, <3>2 DEF LockAt, Locks
    <2> QED
      BY <2>1, <2>2
  <1> QED
    BY <1>4, <1>5, <1>6 DEF CommandInv, CommandLocks

\* A transaction that only moves on to pc.
LEMMA MoveOn ==
    ASSUME CommandTInv, NEW t \in Request, serving[t].pc # "idle", NEW pc \in {"lock", "write"},
           serving' = [serving EXCEPT ![t].pc = pc]
    PROVE  /\ serving' \in [Request -> Transaction]
           /\ serving'[t].pc = pc /\ serving'[t].command = serving[t].command
           /\ \A u \in Request \ {t} : serving'[u] = serving[u]
  <1> DEFINE moved == [serving[t] EXCEPT !.pc = pc]
  <1>1. serving[t] \in Transaction
    BY CommandAt
  <1>2. moved \in Transaction /\ moved.pc = pc /\ moved.command = serving[t].command
    BY <1>1 DEF Transaction
  <1>3. serving' = [serving EXCEPT ![t] = moved]
    OBVIOUS
  <1> HIDE DEF moved
  <1> QED
    BY <1>2, <1>3 DEF CommandTInv

\* A transaction that ends without an effect, whatever it answers or not.
LEMMA EndInv ==
    ASSUME CommandInv, NEW t \in Request,
           UNCHANGED <<version, known, records, effects, sends>>,
           serving' \in [Request -> Transaction], serving'[t] = Idle,
           \A u \in Request \ {t} : serving'[u] = serving[u],
           holder' = holder \ {t},
           answers' \in [Command -> SUBSET Final],
           \A c \in Command : \A answer \in answers'[c] : records[KeyOf[c]] = [command |-> c, answer |-> answer]
    PROVE  CommandInv'
  <1>1. CommandTInv'
    <2>1. ASSUME NEW u \in Request, serving'[u] # Idle PROVE serving'[u].command \in Command /\ known[serving'[u].command] # 0
      BY <2>1 DEF CommandInv, CommandTInv
    <2> QED
      BY <2>1 DEF CommandInv, CommandTInv, Idle
  <1>2. CommandRecords'
    BY DEF CommandInv, CommandRecords, Recorded, Unrecorded
  <1>3. ASSUME NEW u \in Request PROVE LockAt(u)'
    <2>1. CASE u = t
      BY <2>1 DEF LockAt, Idle
    <2>2. CASE u # t
      <3>1. serving'[u] = serving[u] /\ LockAt(u)
        BY <2>2 DEF CommandInv, CommandLocks
      <3> QED
        BY <2>2, <3>1 DEF LockAt, Admitted, Locks
    <2> QED
      BY <2>1, <2>2
  <1> QED
    BY <1>1, <1>2, <1>3 DEF CommandInv, CommandLocks

LEMMA ReplayInv ==
    ASSUME CommandInv, NEW t \in Request, Replay(t)
    PROVE  CommandInv'
  <1> DEFINE c == serving[t].command
             record == records[KeyOf[c]]
  <1>1. CommandTInv /\ serving[t].pc = "replay" /\ UNCHANGED <<version, known, records, effects, sends>>
    BY DEF Replay, CommandInv
  <1>2. c \in Command /\ KeyOf[c] \in Keys /\ record \in Record
    <2>1. c \in Command
      BY <1>1, CommandAt
    <2> QED
      BY <1>1, <2>1, KeyIsKey DEF CommandTInv
  <1>3. CASE record = Unrecorded
    <2> DEFINE pc == IF Locks(c) THEN "lock" ELSE "write"
    <2>1. serving' = [serving EXCEPT ![t].pc = pc] /\ UNCHANGED <<holder, answers>> /\ pc \in {"lock", "write"}
          /\ (pc = "write" => ~Locks(c))
      BY <1>3 DEF Replay
    <2> HIDE DEF pc
    <2>2. /\ serving' \in [Request -> Transaction]
          /\ serving'[t].pc = pc /\ serving'[t].command = c
          /\ \A u \in Request \ {t} : serving'[u] = serving[u]
      BY <1>1, <2>1, MoveOn
    <2> HIDE DEF c
    <2>3. CommandTInv'
      <3>1. ASSUME NEW u \in Request, serving'[u] # Idle PROVE serving'[u].command \in Command /\ known[serving'[u].command] # 0
        <4>1. known[c] # 0
          BY <1>1, CommandAt DEF c
        <4> QED
          BY <1>1, <1>2, <2>2, <3>1, <4>1 DEF CommandTInv
      <3> QED
        BY <1>1, <2>1, <2>2, <3>1 DEF CommandTInv, Idle
    <2>4. CommandRecords'
      BY <1>1, <2>1 DEF CommandInv, CommandRecords, Recorded, Unrecorded
    <2>5. ASSUME NEW u \in Request PROVE LockAt(u)'
      <3>1. CASE u = t
        BY <2>1, <2>2, <3>1 DEF LockAt, Locks
      <3>2. CASE u # t
        <4>1. serving'[u] = serving[u] /\ LockAt(u)
          BY <2>2, <3>2 DEF CommandInv, CommandLocks
        <4> QED
          BY <1>1, <2>1, <4>1 DEF LockAt, Admitted, Locks
      <3> QED
        BY <3>1, <3>2
    <2> QED
      BY <2>3, <2>4, <2>5 DEF CommandInv, CommandLocks
  <1>4. CASE record # Unrecorded
    <2> DEFINE answer == IF record.command = c THEN record.answer ELSE "key reuse"
    <2>1. Answer(t, answer)
      BY <1>4 DEF Replay
    <2>2. answer \in Final => record = [command |-> c, answer |-> answer]
      BY <1>2 DEF Record, Final
    <2> HIDE DEF answer
    <2>3. /\ serving' \in [Request -> Transaction] /\ serving'[t] = Idle
          /\ \A u \in Request \ {t} : serving'[u] = serving[u]
          /\ holder' = holder \ {t}
          /\ answers' \in [Command -> SUBSET Final]
          /\ \A d \in Command : d # c => answers'[d] = answers[d]
          /\ answers'[c] \subseteq answers[c] \cup ({answer} \cap Final)
      BY <1>1, <2>1, AnswerTInv
    <2>4. ASSUME NEW d \in Command, NEW x \in answers'[d] PROVE records[KeyOf[d]] = [command |-> d, answer |-> x]
      <3>1. Recorded(d)
        BY DEF CommandInv, CommandRecords
      <3>2. CASE x \in answers[d]
        BY <3>1, <3>2 DEF Recorded
      <3>3. CASE x \notin answers[d]
        <4>1. d = c /\ x = answer /\ answer \in Final
          BY <2>3, <2>4, <3>3
        <4> QED
          BY <2>2, <4>1
      <3> QED
        BY <3>2, <3>3
    <2> HIDE DEF c, record
    <2> QED
      BY <1>1, <2>3, <2>4, EndInv
  <1> QED
    BY <1>3, <1>4

\* Whoever gets the row's lock is alone with it, and has looked.
LEMMA LockInv ==
    ASSUME CommandInv, NEW t \in Request, LockVersion(t)
    PROVE  CommandInv'
  <1> DEFINE c == serving[t].command
  <1>1. CommandTInv /\ serving[t].pc = "lock" /\ holder = {} /\ UNCHANGED <<version, known, records, effects, sends>>
    BY DEF LockVersion, CommandInv
  <1>2. CASE Admitted(c)
    <2>1. serving' = [serving EXCEPT ![t].pc = "write"] /\ holder' = {t} /\ UNCHANGED answers
      BY <1>2 DEF LockVersion
    <2>2. /\ serving' \in [Request -> Transaction]
          /\ serving'[t].pc = "write" /\ serving'[t].command = c
          /\ \A u \in Request \ {t} : serving'[u] = serving[u]
      BY <1>1, <2>1, MoveOn
    <2>3. c \in Command /\ known[c] # 0
      BY <1>1, CommandAt
    <2> HIDE DEF c
    <2>4. CommandTInv'
      <3>1. ASSUME NEW u \in Request, serving'[u] # Idle PROVE serving'[u].command \in Command /\ known[serving'[u].command] # 0
        BY <1>1, <2>2, <2>3, <3>1 DEF CommandTInv
      <3> QED
        BY <1>1, <2>1, <2>2, <3>1 DEF CommandTInv, Idle
    <2>5. CommandRecords'
      BY <1>1, <2>1 DEF CommandInv, CommandRecords, Recorded, Unrecorded
    <2>6. ASSUME NEW u \in Request PROVE LockAt(u)'
      <3>1. CASE u = t
        BY <1>1, <1>2, <2>1, <2>2, <3>1 DEF LockAt, Admitted
      <3>2. CASE u # t
        <4>1. serving'[u] = serving[u] /\ LockAt(u)
          BY <2>2, <3>2 DEF CommandInv, CommandLocks
        <4>2. ~(serving[u].pc = "write" /\ Locks(serving[u].command))
          BY <1>1, <4>1 DEF LockAt
        <4> QED
          BY <4>1, <4>2 DEF LockAt, Locks
      <3> QED
        BY <3>1, <3>2
    <2> QED
      BY <2>4, <2>5, <2>6 DEF CommandInv, CommandLocks
  <1>3. CASE ~Admitted(c)
    <2>1. Answer(t, "conflict")
      BY <1>3 DEF LockVersion
    <2>2. /\ serving' \in [Request -> Transaction] /\ serving'[t] = Idle
          /\ \A u \in Request \ {t} : serving'[u] = serving[u]
          /\ holder' = holder \ {t}
          /\ answers' \in [Command -> SUBSET Final]
          /\ \A d \in Command : d # c => answers'[d] = answers[d]
          /\ answers'[c] \subseteq answers[c] \cup ({"conflict"} \cap Final)
      BY <1>1, <2>1, AnswerTInv
    <2>3. ASSUME NEW d \in Command, NEW x \in answers'[d] PROVE records[KeyOf[d]] = [command |-> d, answer |-> x]
      <3>1. x \in answers[d]
        BY <2>2, <2>3 DEF Final
      <3> QED
        BY <3>1 DEF CommandInv, CommandRecords, Recorded
    <2> HIDE DEF c
    <2> QED
      BY <1>1, <2>2, <2>3, EndInv
  <1> QED
    BY <1>2, <1>3

\* What a commit does to the version: nothing, or an edit or a submission by the
\* one that has the lock and has found the revision its client knows.
LEMMA EffectOnVersion ==
    ASSUME CommandInv, NEW t \in Request, serving[t].pc = "write", Effect(serving[t].command)
    PROVE  /\ version' \in VersionState
           /\ ~ChecksRevision(serving[t].command) => version' = version
           /\ ChecksRevision(serving[t].command) =>
                /\ t \in holder /\ known[serving[t].command] = version.revision
                /\ version'.revision = version.revision + 1
  <1> DEFINE c == serving[t].command
  <1>1. c \in Command /\ Kind[c] \in {"create", "edit", "submit", "compile"} /\ version \in VersionState
    BY CommandAt, CommandConstants DEF CommandInv, CommandTInv
  <1>2. LockAt(t)
    BY DEF CommandInv, CommandLocks
  <1> HIDE DEF c
  <1>3. CASE Kind[c] = "edit"
    <2>1. PICK sound \in BOOLEAN : version' = [version EXCEPT !.revision = @ + 1, !.sound = sound]
      BY <1>3 DEF Effect, c
    <2>0. version.revision \in Nat /\ version.revision + 1 \in Nat \ {0} /\ version.sound \in BOOLEAN /\ version.draft \in BOOLEAN
      BY <1>1 DEF VersionState
    <2>2. version' \in VersionState /\ version'.revision = version.revision + 1
      BY <1>1, <2>0, <2>1 DEF VersionState
    <2> QED
      BY <1>2, <1>3, <2>2 DEF LockAt, Locks, Admitted, ChecksRevision, c
  <1>4. CASE Kind[c] = "submit"
    <2>1. version' = [version EXCEPT !.revision = @ + 1, !.draft = FALSE]
      BY <1>4 DEF Effect, c
    <2>0. version.revision \in Nat /\ version.revision + 1 \in Nat \ {0} /\ version.sound \in BOOLEAN /\ version.draft \in BOOLEAN
      BY <1>1 DEF VersionState
    <2>2. version' \in VersionState /\ version'.revision = version.revision + 1
      BY <1>1, <2>0, <2>1 DEF VersionState
    <2> QED
      BY <1>2, <1>4, <2>2 DEF LockAt, Locks, Admitted, ChecksRevision, c
  <1>5. CASE Kind[c] \in {"create", "compile"}
    BY <1>1, <1>5 DEF Effect, ChecksRevision, c
  <1> QED
    BY <1>1, <1>3, <1>4, <1>5

\* What a commit writes: the record of its key if there was none, and then the
\* effect of the command unless it is blocked; nothing else but an answer.
LEMMA CommitStep ==
    ASSUME CommandInv, NEW t \in Request, Commit(t), NEW c, c = serving[t].command
    PROVE  /\ c \in Command /\ KeyOf[c] \in Keys /\ serving[t].pc = "write" /\ UNCHANGED <<known, sends>>
           /\ \/ Answer(t, "error") /\ UNCHANGED <<version, records, effects>>
              \/ \E answer \in Final :
                    /\ records[KeyOf[c]] = Unrecorded
                    /\ records' = [records EXCEPT ![KeyOf[c]] = [command |-> c, answer |-> answer]]
                    /\ Answer(t, answer)
                    /\ \/ answer = "refused" /\ UNCHANGED <<version, effects>>
                       \/ answer = "done" /\ Effect(c) /\ effects' = [effects EXCEPT ![c] = @ + 1]
  <1>1. c \in Command /\ serving[t].pc = "write"
    BY CommandAt DEF Commit, CommandInv
  <1>2. KeyOf[c] \in Keys
    BY <1>1, KeyIsKey
  <1> QED
    BY <1>1, <1>2 DEF Commit, Inserts, Final

LEMMA CommitInv ==
    ASSUME CommandInv, NEW t \in Request, Commit(t)
    PROVE  CommandInv'
  <1> DEFINE c == serving[t].command
  <1>1. /\ c \in Command /\ KeyOf[c] \in Keys /\ serving[t].pc = "write" /\ UNCHANGED <<known, sends>>
        /\ \/ Answer(t, "error") /\ UNCHANGED <<version, records, effects>>
           \/ \E answer \in Final :
                 /\ records[KeyOf[c]] = Unrecorded
                 /\ records' = [records EXCEPT ![KeyOf[c]] = [command |-> c, answer |-> answer]]
                 /\ Answer(t, answer)
                 /\ \/ answer = "refused" /\ UNCHANGED <<version, effects>>
                    \/ answer = "done" /\ Effect(c) /\ effects' = [effects EXCEPT ![c] = @ + 1]
    BY CommitStep
  <1>2. CommandTInv
    BY DEF CommandInv
  <1>3. CASE Answer(t, "error") /\ UNCHANGED <<version, records, effects>>
    <2>1. /\ serving' \in [Request -> Transaction] /\ serving'[t] = Idle
          /\ \A u \in Request \ {t} : serving'[u] = serving[u]
          /\ holder' = holder \ {t}
          /\ answers' \in [Command -> SUBSET Final]
          /\ \A d \in Command : d # c => answers'[d] = answers[d]
          /\ answers'[c] \subseteq answers[c] \cup ({"error"} \cap Final)
      BY <1>1, <1>2, <1>3, AnswerTInv
    <2>2. ASSUME NEW d \in Command, NEW x \in answers'[d] PROVE records[KeyOf[d]] = [command |-> d, answer |-> x]
      <3>1. x \in answers[d]
        BY <2>1, <2>2 DEF Final
      <3> QED
        BY <3>1 DEF CommandInv, CommandRecords, Recorded
    <2> HIDE DEF c
    <2> QED
      BY <1>1, <1>3, <2>1, <2>2, EndInv
  <1>4. ASSUME NEW answer \in Final,
               records[KeyOf[c]] = Unrecorded,
               records' = [records EXCEPT ![KeyOf[c]] = [command |-> c, answer |-> answer]],
               Answer(t, answer),
               \/ answer = "refused" /\ UNCHANGED <<version, effects>>
               \/ answer = "done" /\ Effect(c) /\ effects' = [effects EXCEPT ![c] = @ + 1]
        PROVE  CommandInv'
    <2>1. /\ serving' \in [Request -> Transaction] /\ serving'[t] = Idle
          /\ \A u \in Request \ {t} : serving'[u] = serving[u]
          /\ holder' = holder \ {t}
          /\ answers' \in [Command -> SUBSET Final]
          /\ \A d \in Command : d # c => answers'[d] = answers[d]
          /\ answers'[c] \subseteq answers[c] \cup ({answer} \cap Final)
      BY <1>1, <1>2, <1>4, AnswerTInv
    <2>2. /\ version' \in VersionState
          /\ version' = version \/ (t \in holder /\ ChecksRevision(c))
      <3>1. CASE Effect(c)
        BY <1>1, <3>1, EffectOnVersion
      <3> QED
        BY <1>2, <1>4, <3>1 DEF CommandTInv
    <2> HIDE DEF c
    <2>3. /\ effects' \in [Command -> Nat] /\ \A d \in Command : d # c => effects'[d] = effects[d]
          /\ effects'[c] = IF answer = "done" THEN effects[c] + 1 ELSE effects[c]
      BY <1>1, <1>2, <1>4 DEF CommandTInv
    <2>4. /\ records' \in [Keys -> Record] /\ records'[KeyOf[c]] = [command |-> c, answer |-> answer]
          /\ \A k \in Keys : k # KeyOf[c] => records'[k] = records[k]
      <3>1. [command |-> c, answer |-> answer] \in Record
        BY <1>1, <1>4 DEF Record
      <3> QED
        BY <1>1, <1>2, <1>4, <3>1 DEF CommandTInv
    <2>5. CommandTInv'
      <3>1. ASSUME NEW u \in Request, serving'[u] # Idle PROVE serving'[u].command \in Command /\ known[serving'[u].command] # 0
        BY <1>2, <2>1, <3>1 DEF CommandTInv
      <3> QED
        BY <1>1, <1>2, <2>1, <2>2, <2>3, <2>4, <3>1 DEF CommandTInv, Idle
    <2>6. ASSUME NEW d \in Command PROVE Recorded(d)'
      <3>1. Recorded(d) /\ KeyOf[d] \in Keys
        BY KeyIsKey DEF CommandInv, CommandRecords
      <3>2. CASE KeyOf[d] # KeyOf[c]
        BY <2>1, <2>3, <2>4, <3>1, <3>2 DEF Recorded
      <3>3. CASE KeyOf[d] = KeyOf[c]
        <4>1. effects[d] = 0 /\ answers[d] = {}
          <5>1. \A x : records[KeyOf[d]] # [command |-> d, answer |-> x]
            BY <1>4, <3>3, CommandConstants DEF Unrecorded
          <5> QED
            BY <3>1, <5>1 DEF Recorded
        <4>2. CASE d = c
          BY <1>4, <2>1, <2>3, <2>4, <4>1, <4>2 DEF Recorded, Final
        <4>3. CASE d # c
          <5>1. effects'[d] = 0 /\ answers'[d] = {} /\ records'[KeyOf[d]] # [command |-> d, answer |-> "done"]
            BY <2>1, <2>3, <2>4, <3>3, <4>1, <4>3
          <5> QED
            BY <5>1 DEF Recorded
        <4> QED
          BY <4>2, <4>3
      <3> QED
        BY <3>2, <3>3
    <2>7. CommandRecords'
      <3>1. ASSUME NEW k \in Keys, records'[k].answer = "none" PROVE records'[k] = Unrecorded
        BY <1>4, <2>4, <3>1 DEF CommandInv, CommandRecords, Final
      <3> QED
        BY <2>6, <3>1 DEF CommandRecords, Unrecorded
    <2>8. ASSUME NEW u \in Request PROVE LockAt(u)'
      <3>1. CASE u = t
        BY <2>1, <3>1 DEF LockAt, Idle
      <3>2. CASE u # t
        <4>1. serving'[u] = serving[u] /\ LockAt(u)
          BY <2>1, <3>2 DEF CommandInv, CommandLocks
        <4>2. ASSUME serving[u].pc = "write", Locks(serving[u].command)
              PROVE  u \in holder' /\ version' = version
          BY <1>2, <2>1, <2>2, <3>2, <4>1, <4>2 DEF LockAt, CommandTInv
        <4> QED
          BY <1>1, <4>1, <4>2 DEF LockAt, Locks, Admitted
      <3> QED
        BY <3>1, <3>2
    <2> QED
      BY <2>5, <2>7, <2>8 DEF CommandInv, CommandLocks
  <1> QED
    BY <1>1, <1>3, <1>4

LEMMA AbortInv ==
    ASSUME CommandInv, NEW t \in Request, Abort(t)
    PROVE  CommandInv'
  <1>1. UNCHANGED <<version, known, records, effects, sends, answers>> /\ holder' = holder \ {t}
    BY DEF Abort
  <1>2. serving' \in [Request -> Transaction] /\ serving'[t] = Idle /\ \A u \in Request \ {t} : serving'[u] = serving[u]
    <2>1. Idle \in Transaction
      BY DEF Idle, Transaction
    <2> QED
      BY <2>1 DEF Abort, CommandInv, CommandTInv
  <1>3. answers' \in [Command -> SUBSET Final]
        /\ \A c \in Command : \A answer \in answers'[c] : records[KeyOf[c]] = [command |-> c, answer |-> answer]
    BY <1>1 DEF CommandInv, CommandTInv, CommandRecords, Recorded
  <1> QED
    BY <1>1, <1>2, <1>3, EndInv

LEMMA CommandNextInv == CommandInv /\ [CommandNext]_commandVars => CommandInv'
  <1> SUFFICES ASSUME CommandInv, [CommandNext]_commandVars PROVE CommandInv'
    OBVIOUS
  <1>1. CASE UNCHANGED commandVars
    BY <1>1 DEF commandVars, CommandInv, CommandTInv, CommandRecords, Recorded, Unrecorded, CommandLocks, LockAt,
                Locks, Admitted, Idle
  <1>2. CASE \E c \in Command, t \in Request, revision \in 1..version.revision : Send(c, t, revision)
    BY <1>2, SendInv
  <1>3. ASSUME NEW t \in Request, Replay(t) \/ LockVersion(t) \/ Commit(t) \/ Abort(t) PROVE CommandInv'
    BY <1>3, ReplayInv, LockInv, CommitInv, AbortInv
  <1> QED
    BY <1>1, <1>2, <1>3 DEF CommandNext

LEMMA CommandAlways == CommandSpec => []CommandInv
  BY CommandInitInv, CommandNextInv, PTL DEF CommandSpec

-------------------------------------------------------------------------------
\* The type invariant of the commands, with a lock that at most one holds
\* (the row lock of _lock_version in the service's commands).
THEOREM CommandsTypeCorrect == CommandSpec => []CommandTypeOK
  <1>1. ASSUME CommandInv PROVE CommandTypeOK
    <2>1. version \in [revision : Nat, sound : BOOLEAN, draft : BOOLEAN]
      BY <1>1 DEF CommandInv, CommandTInv, VersionState
    <2>2. Cardinality(holder) <= 1
      <3>1. holder = {} \/ \E t \in holder : holder = {t}
        BY <1>1 DEF CommandInv, CommandTInv
      <3>2. Cardinality({}) = 0 /\ \A t \in holder : Cardinality({t}) = 1
        BY FS_EmptySet, FS_Singleton
      <3> QED
        BY <3>1, <3>2
    <2> QED
      BY <1>1, <2>1, <2>2 DEF CommandInv, CommandTInv, CommandTypeOK, Record, Transaction
  <1> QED
    BY <1>1, CommandAlways, PTL

\* However many requests serve however many repetitions of a command, and
\* whichever of them fail, the commands of one idempotency key take effect at
\* most once together, and every answer given for the key tells which
\* (the replay before the lock, and the primary key of idempotency_records).
THEOREM OncePerKey == CommandSpec => []OneEffectPerKey
  <1>1. ASSUME CommandInv PROVE OneEffectPerKey
    <2> SUFFICES ASSUME NEW c \in Command
                 PROVE  /\ effects[c] = IF records[KeyOf[c]] = [command |-> c, answer |-> "done"] THEN 1 ELSE 0
                        /\ "done" \in answers[c] => effects[c] = 1
                        /\ ~(Final \subseteq answers[c])
      BY DEF OneEffectPerKey
    <2>1. Recorded(c)
      BY <1>1 DEF CommandInv, CommandRecords
    <2>2. ~("done" \in answers[c] /\ "refused" \in answers[c])
      <3>1. [command |-> c, answer |-> "done"] # [command |-> c, answer |-> "refused"]
        <4>1. [command |-> c, answer |-> "done"].answer # [command |-> c, answer |-> "refused"].answer
          OBVIOUS
        <4> QED
          BY <4>1
      <3> QED
        BY <2>1, <3>1 DEF Recorded
    <2> QED
      BY <2>1, <2>2 DEF Recorded, Final
  <1> QED
    BY <1>1, CommandAlways, PTL

\* An edit or a submission that takes effect finds the very revision its client
\* had seen and moves it on by one, whatever was committed between its look-up
\* and its lock (the expected revision, compared under the row lock).
THEOREM NothingLost == CommandSpec => NoLostUpdate
  <1> DEFINE Applies == \A c \in Command :
                 effects'[c] # effects[c] /\ ChecksRevision(c) =>
                    /\ known[c] = version.revision
                    /\ version'.revision = version.revision + 1
  <1>1. ASSUME CommandInv, CommandNext PROVE Applies
    <2> SUFFICES ASSUME NEW c \in Command, effects'[c] # effects[c], ChecksRevision(c)
                 PROVE  known[c] = version.revision /\ version'.revision = version.revision + 1
      OBVIOUS
    <2>1. PICK t \in Request : Commit(t)
      BY <1>1 DEF CommandNext, Send, Replay, LockVersion, Abort
    <2>2. /\ serving[t].command \in Command /\ serving[t].pc = "write"
          /\ Effect(serving[t].command)
          /\ effects' = [effects EXCEPT ![serving[t].command] = @ + 1]
      BY <1>1, <2>1, CommitStep
    <2>3. c = serving[t].command
      BY <1>1, <2>2 DEF CommandInv, CommandTInv
    <2> QED
      BY <1>1, <2>2, <2>3, EffectOnVersion
  <1>2. CommandInv /\ [CommandNext]_commandVars => [Applies]_commandVars
    BY <1>1
  <1> QED
    BY <1>2, CommandAlways, PTL DEF CommandSpec, NoLostUpdate

-------------------------------------------------------------------------------
(****************************************************************************)
(* Models.                                                                  *)
(****************************************************************************)
CausalTInv ==
    /\ modelVersions \in Seq(VersionRow) /\ snapshots \in Seq(SnapshotRow)
    /\ attempts \in Seq(AttemptRow) /\ blueprints \in SUBSET BlueprintRow
    /\ activePointer \in 0..Len(snapshots)
    /\ catalogNow \in CatalogState /\ stepPins \in 0..MaxPins

Unpublished == {"draft", "in_review"}

\* A version has a snapshot, which is its own, once it is published and not
\* before; one in review holds what passed when it was submitted.
VersionTrue(v) ==
    /\ modelVersions[v].snapshot \in 0..Len(snapshots)
    /\ modelVersions[v].status \in Unpublished => modelVersions[v].snapshot = 0
    /\ modelVersions[v].status \in {"published", "superseded"} => modelVersions[v].snapshot # 0
    /\ modelVersions[v].snapshot # 0 => snapshots[modelVersions[v].snapshot].version = v
    /\ modelVersions[v].status = "in_review" =>
          modelVersions[v].checked = modelVersions[v].content /\ modelVersions[v].content \in ValidContent

\* What a snapshot says of its version, which is closed from then on.
SnapshotTrue(s) ==
    /\ snapshots[s].version \in Versions
    /\ modelVersions[snapshots[s].version].snapshot = s
    /\ snapshots[s].content = modelVersions[snapshots[s].version].checked
    /\ modelVersions[snapshots[s].version].checked = modelVersions[snapshots[s].version].content
    /\ snapshots[s].content \in ValidContent
    /\ snapshots[s].publisher \in Admins \/ snapshots[s].publisher # modelVersions[snapshots[s].version].submitter

\* An attempt is about the snapshot of its version.
AttemptTrue(c) ==
    /\ attempts[c].version \in Versions /\ attempts[c].snapshot \in Snapshots
    /\ snapshots[attempts[c].snapshot].version = attempts[c].version

Built(b) == \E c \in Attempts :
    attempts[c].status = "success" /\ attempts[c].snapshot = b.snapshot /\ attempts[c].pins = b.pins

Published == (\A v \in Versions : VersionTrue(v)) /\ (\A s \in Snapshots : SnapshotTrue(s))

\* A blueprint comes from a successful attempt; the compiled ones are the
\* current one, which there is as long as there is an active snapshot.
Served ==
    /\ \A b \in blueprints : Built(b) /\ b.snapshot # 0
    /\ \A b \in blueprints : b.status = "compiled" => b.snapshot = activePointer
    /\ activePointer # 0 => \E b \in blueprints : Current = {b}

CausalInv == CausalTInv /\ Published /\ (\A c \in Attempts : AttemptTrue(c)) /\ Served

-------------------------------------------------------------------------------
LEMMA RowsTyped ==
    ASSUME CausalTInv
    PROVE  /\ Len(modelVersions) \in Nat /\ Len(snapshots) \in Nat /\ Len(attempts) \in Nat
           /\ \A v \in Versions : modelVersions[v] \in VersionRow
           /\ \A s \in Snapshots : snapshots[s] \in SnapshotRow
           /\ \A c \in Attempts : attempts[c] \in AttemptRow
  BY LenProperties, ElementOfSeq DEF CausalTInv, Versions, Snapshots, Attempts

LEMMA CausalInitInv == CausalInit => CausalInv
  <1> SUFFICES ASSUME CausalInit PROVE CausalInv
    OBVIOUS
  <1>1. Len(modelVersions) = 0 /\ Len(snapshots) = 0 /\ Len(attempts) = 0
    BY EmptySeq DEF CausalInit
  <1>2. CausalTInv
    BY <1>1, CausalConstants DEF CausalInit, CausalTInv
  <1>3. Versions = {} /\ Snapshots = {} /\ Attempts = {}
    BY <1>1 DEF Versions, Snapshots, Attempts
  <1> QED
    BY <1>2, <1>3 DEF CausalInit, CausalInv, Published, Served

\* What every change of a version keeps: its snapshot, and what the snapshot was
\* taken of once there is one.
Keeps(v, row) ==
    /\ row.snapshot = modelVersions[v].snapshot
    /\ row.snapshot # 0 => /\ row.content = modelVersions[v].content /\ row.checked = modelVersions[v].checked
                           /\ row.submitter = modelVersions[v].submitter
    /\ row.status \in Unpublished => row.snapshot = 0
    /\ row.status \in {"published", "superseded"} => row.snapshot # 0
    /\ row.status = "in_review" => row.checked = row.content /\ row.content \in ValidContent

\* Snapshots and attempts stay true when every version keeps that and new ones
\* are drafts.
LEMMA KeptPublished ==
    ASSUME CausalInv, modelVersions' \in Seq(VersionRow), Len(modelVersions) <= Len(modelVersions'),
           UNCHANGED snapshots,
           \A v \in Versions : Keeps(v, modelVersions'[v]),
           \A v \in Versions' \ Versions : modelVersions'[v].status = "draft" /\ modelVersions'[v].snapshot = 0
    PROVE  /\ Published' /\ Versions \subseteq Versions' /\ Snapshots' = Snapshots
           /\ UNCHANGED attempts => \A c \in Attempts' : AttemptTrue(c)'
  <1>1. CausalTInv /\ Len(modelVersions) \in Nat /\ Len(snapshots) \in Nat
    BY RowsTyped DEF CausalInv
  <1>2. Versions \subseteq Versions' /\ Snapshots' = Snapshots
    <2>1. Len(modelVersions') \in Nat
      BY LenProperties
    <2> QED
      BY <1>1, <2>1 DEF Versions, Snapshots
  <1>3. ASSUME NEW v \in Versions' PROVE VersionTrue(v)'
    <2>1. CASE v \in Versions
      BY <2>1, <1>1 DEF CausalInv, Published, VersionTrue, Keeps
    <2>2. CASE v \notin Versions
      BY <2>2, <1>1 DEF VersionTrue, Unpublished
    <2> QED
      BY <2>1, <2>2
  <1>4. ASSUME NEW s \in Snapshots PROVE SnapshotTrue(s)'
    <2>1. SnapshotTrue(s) /\ Keeps(snapshots[s].version, modelVersions'[snapshots[s].version])
      BY DEF CausalInv, Published, SnapshotTrue
    <2>2. s # 0
      BY DEF Snapshots
    <2> QED
      BY <1>2, <2>1, <2>2 DEF SnapshotTrue, Keeps
  <1>5. ASSUME UNCHANGED attempts, NEW c \in Attempts' PROVE AttemptTrue(c)'
    BY <1>2, <1>5 DEF CausalInv, AttemptTrue, Attempts
  <1> QED
    BY <1>2, <1>3, <1>4, <1>5 DEF Published

\* One version changes.
LEMMA VersionStep ==
    ASSUME CausalInv, NEW v \in Versions, NEW row \in VersionRow, Keeps(v, row),
           modelVersions' = [modelVersions EXCEPT ![v] = row], UNCHANGED snapshots
    PROVE  /\ modelVersions' \in Seq(VersionRow) /\ Len(modelVersions') = Len(modelVersions)
           /\ modelVersions'[v] = row /\ \A u \in Versions \ {v} : modelVersions'[u] = modelVersions[u]
           /\ Published' /\ Versions' = Versions /\ Snapshots' = Snapshots
           /\ UNCHANGED attempts => \A c \in Attempts' : AttemptTrue(c)'
  <1>1. modelVersions \in Seq(VersionRow) /\ CausalTInv
    BY DEF CausalInv, CausalTInv
  <1>2. /\ modelVersions' \in Seq(VersionRow) /\ Len(modelVersions') = Len(modelVersions)
        /\ \A u \in Versions : modelVersions'[u] = IF u = v THEN row ELSE modelVersions[u]
    BY <1>1, ExceptSeq DEF Versions
  <1>3. Versions' = Versions /\ Len(modelVersions) \in Nat
    BY <1>1, <1>2, RowsTyped DEF Versions
  <1>4. ASSUME NEW u \in Versions PROVE Keeps(u, modelVersions'[u])
    <2>1. CASE u = v
      BY <1>2, <2>1
    <2>2. CASE u # v
      <3>1. VersionTrue(u) /\ modelVersions'[u] = modelVersions[u]
        BY <1>2, <2>2 DEF CausalInv, Published
      <3> QED
        BY <3>1 DEF VersionTrue, Keeps
    <2> QED
      BY <2>1, <2>2
  <1> QED
    BY <1>2, <1>3, <1>4, KeptPublished

\* The rest of the state does not look at the versions.
LEMMA StillServed ==
    ASSUME CausalInv, UNCHANGED <<attempts, blueprints, activePointer>>
    PROVE  Served'
  BY DEF CausalInv, Served, Built, Attempts, Current

\* A version that changes in the draft and review stages.
LEMMA DraftStep ==
    ASSUME CausalInv, NEW v \in Versions, NEW row \in VersionRow, Keeps(v, row),
           modelVersions' = [modelVersions EXCEPT ![v] = row], UNCHANGED snapshots, UnchangedRuntime, UnchangedWorld
    PROVE  CausalInv'
  <1>1. /\ modelVersions' \in Seq(VersionRow) /\ Published' /\ \A c \in Attempts' : AttemptTrue(c)'
    BY VersionStep DEF UnchangedRuntime
  <1>2. Served'
    BY StillServed DEF UnchangedRuntime
  <1>3. CausalTInv'
    BY <1>1 DEF CausalInv, CausalTInv, UnchangedRuntime, UnchangedWorld
  <1> QED
    BY <1>1, <1>2, <1>3 DEF CausalInv

\* The rows that the commands leave behind, one revision on.
Written(old, content) == [old EXCEPT !.content = content, !.revision = @ + 1]
Submitted(old, a) == [old EXCEPT !.status = "in_review", !.revision = @ + 1, !.submitter = a, !.checked = old.content]
Moved(old, status) == [old EXCEPT !.status = status, !.revision = @ + 1]
Revised(old) == [old EXCEPT !.revision = @ + 1]
PublishedAs(old, s) == [old EXCEPT !.status = "published", !.revision = @ + 1, !.snapshot = s]

LEMMA WrittenRow ==
    ASSUME NEW old \in VersionRow, NEW content \in Content
    PROVE  LET row == Written(old, content) IN
           /\ row \in VersionRow
           /\ row.status = old.status /\ row.snapshot = old.snapshot
  <1> DEFINE next == old.revision + 1
             row == Written(old, content)
  <1>1. next \in Nat /\ row = [old EXCEPT !.content = content, !.revision = next]
    BY DEF VersionRow, Written
  <1> HIDE DEF next, row
  <1>2. row \in VersionRow
    BY <1>1 DEF VersionRow
  <1>3. row.status = old.status /\ row.snapshot = old.snapshot
    BY <1>1 DEF VersionRow
  <1> QED
    BY <1>2, <1>3 DEF row

LEMMA SubmittedRow ==
    ASSUME NEW old \in VersionRow, NEW a \in Actor
    PROVE  LET row == Submitted(old, a) IN
           /\ row \in VersionRow
           /\ row.status = "in_review" /\ row.snapshot = old.snapshot
           /\ row.checked = old.content /\ row.content = old.content
  <1> DEFINE next == old.revision + 1
             row == Submitted(old, a)
  <1>1. next \in Nat /\ row = [old EXCEPT !.status = "in_review", !.revision = next, !.submitter = a, !.checked = old.content]
    BY DEF VersionRow, Submitted
  <1> HIDE DEF next, row
  <1>2. row \in VersionRow
    BY <1>1 DEF VersionRow, GovernanceStatus
  <1>3. row.status = "in_review" /\ row.snapshot = old.snapshot /\ row.checked = old.content /\ row.content = old.content
    BY <1>1 DEF VersionRow, GovernanceStatus
  <1> QED
    BY <1>2, <1>3 DEF row

LEMMA MovedRow ==
    ASSUME NEW old \in VersionRow, NEW status \in GovernanceStatus
    PROVE  LET row == Moved(old, status) IN
           /\ row \in VersionRow
           /\ row.status = status
           /\ row.snapshot = old.snapshot /\ row.checked = old.checked
           /\ row.content = old.content /\ row.submitter = old.submitter
  <1> DEFINE next == old.revision + 1
             row == Moved(old, status)
  <1>1. next \in Nat /\ row = [old EXCEPT !.status = status, !.revision = next]
    BY DEF VersionRow, Moved
  <1> HIDE DEF next, row
  <1>2. row \in VersionRow
    BY <1>1 DEF VersionRow
  <1>3. row.status = status /\ row.snapshot = old.snapshot /\ row.checked = old.checked /\ row.content = old.content /\ row.submitter = old.submitter
    BY <1>1 DEF VersionRow
  <1> QED
    BY <1>2, <1>3 DEF row

LEMMA RevisedRow ==
    ASSUME NEW old \in VersionRow
    PROVE  LET row == Revised(old) IN
           /\ row \in VersionRow
           /\ row.status = old.status
           /\ row.snapshot = old.snapshot /\ row.checked = old.checked
           /\ row.content = old.content /\ row.submitter = old.submitter
  <1> DEFINE next == old.revision + 1
             row == Revised(old)
  <1>1. next \in Nat /\ row = [old EXCEPT !.revision = next]
    BY DEF VersionRow, Revised
  <1> HIDE DEF next, row
  <1>2. row \in VersionRow
    BY <1>1 DEF VersionRow
  <1>3. row.status = old.status /\ row.snapshot = old.snapshot /\ row.checked = old.checked /\ row.content = old.content /\ row.submitter = old.submitter
    BY <1>1 DEF VersionRow
  <1> QED
    BY <1>2, <1>3 DEF row

LEMMA PublishedRow ==
    ASSUME NEW old \in VersionRow, NEW s \in Nat
    PROVE  LET row == PublishedAs(old, s) IN
           /\ row \in VersionRow
           /\ row.status = "published" /\ row.snapshot = s
           /\ row.checked = old.checked
           /\ row.content = old.content /\ row.submitter = old.submitter
  <1> DEFINE next == old.revision + 1
             row == PublishedAs(old, s)
  <1>1. next \in Nat /\ row = [old EXCEPT !.status = "published", !.revision = next, !.snapshot = s]
    BY DEF VersionRow, PublishedAs
  <1> HIDE DEF next, row
  <1>2. row \in VersionRow
    BY <1>1 DEF VersionRow, GovernanceStatus
  <1>3. row.status = "published" /\ row.snapshot = s /\ row.checked = old.checked /\ row.content = old.content /\ row.submitter = old.submitter
    BY <1>1 DEF VersionRow, GovernanceStatus
  <1> QED
    BY <1>2, <1>3 DEF row

LEMMA WriteDraftInv ==
    ASSUME CausalInv, NEW a \in Actor, NEW v \in Versions, NEW content \in Content, WriteDraft(a, v, content)
    PROVE  CausalInv'
  <1> DEFINE row == Written(modelVersions[v], content)
  <1>1. /\ modelVersions[v] \in VersionRow /\ VersionTrue(v) /\ modelVersions \in Seq(VersionRow)
        /\ modelVersions[v].status = "draft"
    BY RowsTyped DEF CausalInv, CausalTInv, Published, WriteDraft, DraftForWrite
  <1>2. row \in VersionRow /\ row.status = "draft" /\ row.snapshot = modelVersions[v].snapshot
    BY <1>1, WrittenRow DEF GovernanceStatus
  <1>3. modelVersions' = [modelVersions EXCEPT ![v] = row]
    BY <1>1, LenProperties DEF WriteDraft, Versions, Written
  <1> HIDE DEF row
  <1>4. Keeps(v, row)
    BY <1>1, <1>2 DEF Keeps, VersionTrue, Unpublished
  <1> QED
    BY <1>2, <1>3, <1>4, DraftStep DEF WriteDraft

LEMMA SubmitReviewInv ==
    ASSUME CausalInv, NEW a \in Actor, NEW v \in Versions, SubmitReview(a, v)
    PROVE  CausalInv'
  <1> DEFINE row == Submitted(modelVersions[v], a)
  <1>1. /\ modelVersions[v] \in VersionRow /\ VersionTrue(v) /\ modelVersions \in Seq(VersionRow)
        /\ modelVersions[v].status = "draft" /\ modelVersions[v].content \in ValidContent
    BY RowsTyped DEF CausalInv, CausalTInv, Published, SubmitReview, DraftForWrite, Passes
  <1>2. /\ row \in VersionRow /\ row.status = "in_review" /\ row.snapshot = modelVersions[v].snapshot
        /\ row.checked = modelVersions[v].content /\ row.content = modelVersions[v].content
    BY <1>1, SubmittedRow DEF GovernanceStatus
  <1>3. modelVersions' = [modelVersions EXCEPT ![v] = row]
    BY <1>1, LenProperties DEF SubmitReview, Versions, Submitted
  <1> HIDE DEF row
  <1>4. Keeps(v, row)
    BY <1>1, <1>2 DEF Keeps, VersionTrue, Unpublished
  <1> QED
    BY <1>2, <1>3, <1>4, DraftStep DEF SubmitReview

LEMMA RejectReviewInv ==
    ASSUME CausalInv, NEW a \in Actor, NEW v \in Versions, RejectReview(a, v)
    PROVE  CausalInv'
  <1> DEFINE row == Moved(modelVersions[v], "draft")
  <1>1. /\ modelVersions[v] \in VersionRow /\ VersionTrue(v) /\ modelVersions \in Seq(VersionRow)
        /\ modelVersions[v].status = "in_review"
    BY RowsTyped DEF CausalInv, CausalTInv, Published, RejectReview, InReview
  <1>2. row \in VersionRow /\ row.status = "draft" /\ row.snapshot = modelVersions[v].snapshot
    BY <1>1, MovedRow DEF GovernanceStatus
  <1>3. modelVersions' = [modelVersions EXCEPT ![v] = row]
    BY <1>1, LenProperties DEF RejectReview, Versions, Moved
  <1> HIDE DEF row
  <1>4. Keeps(v, row)
    BY <1>1, <1>2 DEF Keeps, VersionTrue, Unpublished
  <1> QED
    BY <1>2, <1>3, <1>4, DraftStep DEF RejectReview

\* A new draft.
LEMMA NewDraftInv ==
    ASSUME CausalInv, NEW content \in Content, modelVersions' = Append(modelVersions, NewDraft(content)),
           UNCHANGED snapshots, UnchangedRuntime, UnchangedWorld
    PROVE  CausalInv'
  <1> DEFINE row == NewDraft(content)
  <1>1. row \in VersionRow /\ row.status = "draft" /\ row.snapshot = 0
    BY DEF NewDraft, VersionRow, GovernanceStatus
  <1>2. CausalTInv /\ modelVersions \in Seq(VersionRow) /\ Len(modelVersions) \in Nat
    BY RowsTyped DEF CausalInv, CausalTInv
  <1> HIDE DEF row
  <1>3. /\ modelVersions' \in Seq(VersionRow) /\ Len(modelVersions') = Len(modelVersions) + 1
        /\ \A u \in Versions : modelVersions'[u] = modelVersions[u]
        /\ modelVersions'[Len(modelVersions) + 1] = row
    BY <1>1, <1>2, AppendProperties DEF Versions, row
  <1>4. \A v \in Versions' \ Versions : modelVersions'[v].status = "draft" /\ modelVersions'[v].snapshot = 0
    <2>1. \A v \in Versions' \ Versions : v = Len(modelVersions) + 1
      BY <1>2, <1>3 DEF Versions
    <2> QED
      BY <1>1, <1>3, <2>1
  <1>5. ASSUME NEW v \in Versions PROVE Keeps(v, modelVersions'[v])
    BY <1>3 DEF CausalInv, Published, VersionTrue, Keeps
  <1>6. Published' /\ \A c \in Attempts' : AttemptTrue(c)'
    <2>1. Len(modelVersions) <= Len(modelVersions')
      BY <1>2, <1>3
    <2> QED
      BY <1>3, <1>4, <1>5, <2>1, KeptPublished DEF UnchangedRuntime
  <1>7. Served'
    BY StillServed DEF UnchangedRuntime
  <1>8. CausalTInv'
    BY <1>2, <1>3 DEF CausalTInv, UnchangedRuntime, UnchangedWorld
  <1> QED
    BY <1>6, <1>7, <1>8 DEF CausalInv

LEMMA CreateInv ==
    ASSUME CausalInv, NEW a \in Actor,
           CreateModel(a) \/ \E from \in 0..MaxVersions : CreateVersion(a, from)
    PROVE  CausalInv'
  <1>1. CASE CreateModel(a)
    <2>1. modelVersions' = Append(modelVersions, NewDraft(EmptyContent)) /\ EmptyContent \in Content
      BY <1>1, CausalConstants DEF CreateModel
    <2> QED
      BY <1>1, <2>1, NewDraftInv DEF CreateModel
  <1>2. ASSUME NEW from \in 0..MaxVersions, CreateVersion(a, from) PROVE CausalInv'
    <2> DEFINE content == IF from = 0 THEN EmptyContent ELSE modelVersions[from].content
    <2>1. content \in Content
      <3>1. from = 0 \/ from \in Versions
        BY <1>2, RowsTyped DEF CreateVersion, Versions, CausalInv
      <3>2. from \in Versions => modelVersions[from] \in VersionRow
        BY RowsTyped DEF CausalInv
      <3> QED
        BY <3>1, <3>2, CausalConstants DEF VersionRow
    <2>2. modelVersions' = Append(modelVersions, NewDraft(content))
      BY <1>2 DEF CreateVersion
    <2> HIDE DEF content
    <2> QED
      BY <1>2, <2>1, <2>2, NewDraftInv DEF CreateVersion
  <1> QED
    BY <1>1, <1>2

\* A snapshot of the version that is published joins the others, whose versions
\* were published before.
LEMMA PublishInv ==
    ASSUME CausalInv, NEW a \in Actor, NEW v \in Versions, Publish(a, v)
    PROVE  CausalInv'
  <1> DEFINE n == Len(snapshots) + 1
             row == PublishedAs(modelVersions[v], n)
             snapshot == [version |-> v, content |-> modelVersions[v].content, pin |-> catalogNow, publisher |-> a]
  <1>1. /\ CausalTInv /\ modelVersions[v] \in VersionRow /\ VersionTrue(v)
        /\ modelVersions \in Seq(VersionRow) /\ snapshots \in Seq(SnapshotRow)
        /\ modelVersions[v].status = "in_review" /\ modelVersions[v].content \in ValidContent
        /\ MayPublish(a, v) /\ UNCHANGED <<attempts, blueprints, activePointer, catalogNow, stepPins>>
    BY RowsTyped DEF CausalInv, CausalTInv, Published, Publish, InReview, Passes, UnchangedRuntime, UnchangedWorld
  <1>2. Len(modelVersions) \in Nat /\ Len(snapshots) \in Nat /\ n \in Nat /\ n # 0 /\ v \in Nat
    BY <1>1, RowsTyped DEF Versions
  <1>3. /\ row \in VersionRow /\ row.status = "published" /\ row.snapshot = n
        /\ row.checked = modelVersions[v].checked /\ row.content = modelVersions[v].content
        /\ row.submitter = modelVersions[v].submitter
    BY <1>1, <1>2, PublishedRow
  <1>4. snapshot \in SnapshotRow /\ snapshot.version = v /\ snapshot.publisher = a /\ snapshot.content = modelVersions[v].content
    BY <1>1, <1>2 DEF VersionRow, SnapshotRow, CausalTInv
  <1>5. modelVersions' = [modelVersions EXCEPT ![v] = row] /\ snapshots' = Append(snapshots, snapshot)
    BY <1>1, LenProperties DEF Publish, Versions, PublishedAs
  <1> HIDE DEF row, snapshot
  <1>6. /\ modelVersions' \in Seq(VersionRow) /\ Versions' = Versions
        /\ \A u \in Versions : modelVersions'[u] = IF u = v THEN row ELSE modelVersions[u]
    BY <1>1, <1>3, <1>5, ExceptSeq DEF Versions
  <1>7. /\ snapshots' \in Seq(SnapshotRow) /\ Len(snapshots') = n
        /\ \A s \in Snapshots : snapshots'[s] = snapshots[s] /\ snapshots'[n] = snapshot
    BY <1>1, <1>4, <1>5, AppendProperties DEF Snapshots
  <1>8. snapshots'[n] = snapshot
    BY <1>1, <1>4, <1>5, AppendProperties
  <1> HIDE DEF n
  <1>9. Snapshots' = Snapshots \cup {n} /\ n \notin Snapshots /\ 0 \notin Snapshots
    BY <1>2, <1>7 DEF Snapshots, n
  <1>10. ASSUME NEW u \in Versions PROVE VersionTrue(u)'
    <2>1. CASE u = v
      BY <1>2, <1>3, <1>4, <1>6, <1>7, <1>8, <2>1 DEF VersionTrue, Unpublished
    <2>2. CASE u # v
      <3>1. VersionTrue(u) /\ modelVersions'[u] = modelVersions[u]
        BY <1>6, <2>2 DEF CausalInv, Published
      <3>2. modelVersions[u].snapshot # 0 => modelVersions[u].snapshot \in Snapshots
        BY <1>2, <3>1 DEF VersionTrue, Snapshots
      <3>3. modelVersions[u].snapshot \in 0..Len(snapshots')
        BY <1>2, <1>7, <3>1 DEF VersionTrue, n
      <3> QED
        BY <1>7, <3>1, <3>2, <3>3 DEF VersionTrue
    <2> QED
      BY <2>1, <2>2
  <1>11. ASSUME NEW s \in Snapshots PROVE SnapshotTrue(s)'
    <2>1. SnapshotTrue(s) /\ snapshots'[s] = snapshots[s]
      BY <1>7 DEF CausalInv, Published
    <2>2. modelVersions[v].snapshot = 0
      BY <1>1 DEF VersionTrue, Unpublished
    <2>3. snapshots[s].version # v /\ snapshots[s].version \in Versions
      BY <1>9, <2>1, <2>2 DEF SnapshotTrue
    <2> QED
      BY <1>6, <2>1, <2>3 DEF SnapshotTrue
  <1>12. ASSUME NEW s, s = n PROVE SnapshotTrue(s)'
    <2>1. modelVersions[v].checked = modelVersions[v].content
      BY <1>1 DEF VersionTrue
    <2>2. a \in Admins \/ a # modelVersions[v].submitter
      BY <1>1 DEF MayPublish
    <2>3. /\ snapshots'[n].version = v /\ snapshots'[n].content = modelVersions[v].content /\ snapshots'[n].publisher = a
          /\ modelVersions'[v] = row /\ v \in Versions'
      BY <1>4, <1>6, <1>8
    <2>4. modelVersions'[v].snapshot = n /\ modelVersions'[v].checked = modelVersions[v].content
          /\ modelVersions'[v].content = modelVersions[v].content /\ modelVersions'[v].submitter = modelVersions[v].submitter
      BY <1>3, <2>1, <2>3
    <2> QED
      BY <1>1, <1>12, <2>2, <2>3, <2>4 DEF SnapshotTrue
  <1>13. ASSUME NEW c \in Attempts' PROVE AttemptTrue(c)'
    <2>1. AttemptTrue(c)
      BY <1>1, <1>13 DEF CausalInv, Attempts
    <2> QED
      BY <1>1, <1>6, <1>7, <1>9, <2>1 DEF AttemptTrue
  <1>14. Served'
    BY <1>1, StillServed
  <1>15. CausalTInv'
    <2>1. activePointer \in 0..Len(snapshots')
      BY <1>1, <1>2, <1>7 DEF CausalTInv, n
    <2> QED
      BY <1>1, <1>6, <1>7, <2>1 DEF CausalTInv
  <1>16. Published'
    <2>1. ASSUME NEW s \in Snapshots' PROVE SnapshotTrue(s)'
      BY <1>9, <1>11, <1>12, <2>1
    <2> QED
      BY <1>6, <1>10, <2>1 DEF Published
  <1> QED
    BY <1>13, <1>14, <1>15, <1>16 DEF CausalInv

-------------------------------------------------------------------------------
\* What the versions and the snapshots are does not depend on the rest.
LEMMA StillPublished ==
    ASSUME CausalInv, UNCHANGED <<modelVersions, snapshots>>
    PROVE  Published' /\ Versions' = Versions /\ Snapshots' = Snapshots
  BY DEF CausalInv, Published, VersionTrue, SnapshotTrue, Versions, Snapshots

\* An attempt that begins is about the snapshot of the published version.
LEMMA RequestCompileInv ==
    ASSUME CausalInv, NEW a \in Actor, NEW v \in Versions, NEW parent, RequestCompile(a, v, parent)
    PROVE  CausalInv'
  <1> DEFINE row == [version |-> v, snapshot |-> modelVersions[v].snapshot, status |-> "running", pins |-> 0]
  <1>1. /\ CausalTInv /\ attempts \in Seq(AttemptRow) /\ VersionTrue(v) /\ modelVersions[v].status = "published"
        /\ UNCHANGED <<modelVersions, snapshots, blueprints, activePointer, catalogNow, stepPins>>
        /\ attempts' = Append(attempts, row)
    BY DEF CausalInv, CausalTInv, Published, RequestCompile, UnchangedWorld
  <1>2. Len(modelVersions) \in Nat /\ Len(snapshots) \in Nat /\ Len(attempts) \in Nat /\ v \in Nat
    BY <1>1, RowsTyped DEF Versions
  <1>3. modelVersions[v].snapshot \in Snapshots /\ snapshots[modelVersions[v].snapshot].version = v
    BY <1>1, <1>2 DEF VersionTrue, Snapshots
  <1>4. row \in AttemptRow /\ row.version = v /\ row.snapshot = modelVersions[v].snapshot
    BY <1>2, <1>3 DEF AttemptRow, AttemptStatus, Snapshots
  <1> HIDE DEF row
  <1>5. /\ attempts' \in Seq(AttemptRow) /\ Len(attempts') = Len(attempts) + 1
        /\ \A c \in Attempts : attempts'[c] = attempts[c]
    BY <1>1, <1>4, AppendProperties DEF Attempts
  <1>6. attempts'[Len(attempts) + 1] = row
    BY <1>1, <1>4, AppendProperties
  <1>7. Attempts' = Attempts \cup {Len(attempts) + 1}
    BY <1>2, <1>5 DEF Attempts
  <1>8. Published' /\ Versions' = Versions /\ Snapshots' = Snapshots
    BY <1>1, StillPublished
  <1>9. ASSUME NEW c \in Attempts' PROVE AttemptTrue(c)'
    <2>1. CASE c \in Attempts
      <3>1. AttemptTrue(c)
        BY <2>1 DEF CausalInv
      <3> QED
        BY <1>1, <1>5, <1>8, <2>1, <3>1 DEF AttemptTrue
    <2>2. CASE c = Len(attempts) + 1
      BY <1>1, <1>3, <1>4, <1>6, <1>8, <2>2 DEF AttemptTrue
    <2> QED
      BY <1>7, <2>1, <2>2
  <1>10. Served'
    <2>1. ASSUME NEW b \in blueprints PROVE Built(b)' /\ b.snapshot # 0
      <3>1. Built(b) /\ b.snapshot # 0
        BY DEF CausalInv, Served
      <3> QED
        BY <1>5, <1>7, <3>1 DEF Built
    <2>2. Current' = Current
      BY <1>1 DEF Current
    <2> QED
      BY <1>1, <2>1, <2>2 DEF CausalInv, Served
  <1>11. CausalTInv'
    BY <1>1, <1>5 DEF CausalTInv
  <1> QED
    BY <1>8, <1>9, <1>10, <1>11 DEF CausalInv

\* The outcome of an attempt; it was not a success before.
Completed(old, status, pins) == [old EXCEPT !.status = status, !.pins = pins]

LEMMA CompletedRow ==
    ASSUME NEW old \in AttemptRow, NEW status \in AttemptStatus, NEW pins \in Nat
    PROVE  LET row == Completed(old, status, pins) IN
           row \in AttemptRow /\ row.version = old.version /\ row.snapshot = old.snapshot
  BY DEF Completed, AttemptRow

LEMMA CompleteAttemptInv ==
    ASSUME CausalInv, NEW c \in Attempts, CompleteAttempt(c)
    PROVE  CausalInv'
  <1> DEFINE status == IF Buildable(c) THEN "success" ELSE "failed"
             pins == IF Buildable(c) THEN stepPins ELSE 0
             row == Completed(attempts[c], status, pins)
  <1>1. /\ CausalTInv /\ attempts \in Seq(AttemptRow) /\ attempts[c] \in AttemptRow /\ attempts[c].status = "running"
        /\ UNCHANGED <<modelVersions, snapshots, blueprints, activePointer, catalogNow, stepPins>>
    BY RowsTyped DEF CausalInv, CausalTInv, CompleteAttempt, UnchangedWorld
  <1>2. status \in AttemptStatus /\ pins \in Nat
    BY <1>1, CausalConstants DEF AttemptStatus, CausalTInv
  <1>3. attempts' = [attempts EXCEPT ![c] = row]
    BY <1>1, LenProperties DEF CompleteAttempt, Attempts, Completed
  <1> HIDE DEF status, pins
  <1>4. row \in AttemptRow /\ row.version = attempts[c].version /\ row.snapshot = attempts[c].snapshot
    BY <1>1, <1>2, CompletedRow
  <1> HIDE DEF row
  <1>5. /\ attempts' \in Seq(AttemptRow) /\ Attempts' = Attempts
        /\ \A d \in Attempts : attempts'[d] = IF d = c THEN row ELSE attempts[d]
    BY <1>1, <1>3, <1>4, ExceptSeq DEF Attempts
  <1>6. Published' /\ Versions' = Versions /\ Snapshots' = Snapshots
    BY <1>1, StillPublished
  <1>7. ASSUME NEW d \in Attempts' PROVE AttemptTrue(d)'
    <2>1. AttemptTrue(d) /\ attempts'[d].version = attempts[d].version /\ attempts'[d].snapshot = attempts[d].snapshot
      BY <1>4, <1>5, <1>7 DEF CausalInv
    <2> QED
      BY <1>1, <1>6, <2>1 DEF AttemptTrue
  <1>8. Served'
    <2>1. ASSUME NEW b \in blueprints PROVE Built(b)' /\ b.snapshot # 0
      <3>1. b.snapshot # 0
        BY DEF CausalInv, Served
      <3>2. PICK d \in Attempts : attempts[d].status = "success" /\ attempts[d].snapshot = b.snapshot /\ attempts[d].pins = b.pins
        BY DEF CausalInv, Served, Built
      <3>3. attempts'[d] = attempts[d]
        BY <1>1, <1>5, <3>2
      <3> QED
        BY <1>5, <3>1, <3>2, <3>3 DEF Built
    <2>2. Current' = Current
      BY <1>1 DEF Current
    <2> QED
      BY <1>1, <2>1, <2>2 DEF CausalInv, Served
  <1>9. CausalTInv'
    BY <1>1, <1>5 DEF CausalTInv
  <1> QED
    BY <1>6, <1>7, <1>8, <1>9 DEF CausalInv

LEMMA WorldInv ==
    ASSUME CausalInv, CatalogChanges \/ StepTypesChange
    PROVE  CausalInv'
  <1>1. UNCHANGED <<modelVersions, snapshots, attempts, blueprints, activePointer>>
    BY DEF CatalogChanges, StepTypesChange, UnchangedRuntime
  <1>2. Published' /\ Versions' = Versions /\ Snapshots' = Snapshots
    BY <1>1, StillPublished
  <1>3. \A c \in Attempts' : AttemptTrue(c)'
    BY <1>1, <1>2 DEF CausalInv, AttemptTrue, Attempts
  <1>4. Served'
    BY <1>1, StillServed
  <1>5. CausalTInv'
    BY <1>1 DEF CausalInv, CausalTInv, CatalogChanges, StepTypesChange
  <1> QED
    BY <1>2, <1>3, <1>4, <1>5 DEF CausalInv

-------------------------------------------------------------------------------
\* Whatever the current blueprint ends as, no compiled one is left, and each is
\* still an artifact.
LEMMA RetiredRows ==
    ASSUME CausalInv, NEW status \in {"superseded", "withdrawn"}, NEW r \in Retire(status)
    PROVE  r \in BlueprintRow /\ r.status # "compiled" /\ Built(r) /\ r.snapshot # 0
  <1>1. PICK b \in blueprints : r = IF b \in Current THEN [b EXCEPT !.status = status] ELSE b
    BY DEF Retire
  <1>2. b \in BlueprintRow /\ Built(b) /\ b.snapshot # 0 /\ (b.status = "compiled" => b.snapshot = activePointer)
    BY DEF CausalInv, CausalTInv, Served
  <1>3. r \in BlueprintRow /\ r.snapshot = b.snapshot /\ r.pins = b.pins
    BY <1>1, <1>2 DEF BlueprintRow, BlueprintStatus
  <1>4. r.status # "compiled"
    <2>1. CASE b \in Current
      BY <1>1, <1>2, <2>1 DEF BlueprintRow
    <2>2. CASE b \notin Current
      BY <1>1, <1>2, <2>2 DEF Current
    <2> QED
      BY <2>1, <2>2
  <1> QED
    BY <1>2, <1>3, <1>4 DEF Built

\* A version that is active is the version of the active snapshot.
LEMMA ActiveIsVersion ==
    ASSUME CausalInv, ActiveVersion # 0
    PROVE  ActiveVersion \in Versions /\ activePointer \in Snapshots /\ activePointer # 0
  <1>1. activePointer # 0 /\ activePointer \in 0..Len(snapshots) /\ Len(snapshots) \in Nat
    BY RowsTyped DEF ActiveVersion, CausalInv, CausalTInv
  <1>2. activePointer \in Snapshots
    BY <1>1 DEF Snapshots
  <1> QED
    BY <1>1, <1>2 DEF CausalInv, Published, SnapshotTrue, ActiveVersion

LEMMA ArchiveInv ==
    ASSUME CausalInv, NEW a \in Actor, NEW v \in Versions, Archive(a, v)
    PROVE  CausalInv' /\ modelVersions'[v].status = "archived" /\ activePointer' \in {activePointer, 0}
  <1> DEFINE row == Moved(modelVersions[v], "archived")
  <1>1. /\ CausalTInv /\ modelVersions[v] \in VersionRow /\ VersionTrue(v) /\ modelVersions \in Seq(VersionRow)
        /\ UNCHANGED <<snapshots, attempts, catalogNow, stepPins>>
    BY RowsTyped DEF CausalInv, CausalTInv, Published, Archive, UnchangedWorld
  <1>2. /\ row \in VersionRow /\ row.status = "archived"
        /\ row.snapshot = modelVersions[v].snapshot /\ row.checked = modelVersions[v].checked
        /\ row.content = modelVersions[v].content /\ row.submitter = modelVersions[v].submitter
    BY <1>1, MovedRow DEF GovernanceStatus
  <1>3. modelVersions' = [modelVersions EXCEPT ![v] = row]
    BY <1>1, LenProperties DEF Archive, Versions, Moved
  <1> HIDE DEF row
  <1>4. Keeps(v, row)
    BY <1>1, <1>2 DEF Keeps, VersionTrue, Unpublished
  <1>5. /\ modelVersions' \in Seq(VersionRow) /\ Published' /\ \A c \in Attempts' : AttemptTrue(c)'
        /\ modelVersions'[v] = row
    BY <1>1, <1>2, <1>3, <1>4, VersionStep
  <1>6. CASE ActiveVersion = v
    <2>1. blueprints' = Retire("withdrawn") /\ activePointer' = 0
      BY <1>6 DEF Archive
    <2>2. ASSUME NEW b \in blueprints' PROVE b \in BlueprintRow /\ b.status # "compiled" /\ Built(b)' /\ b.snapshot # 0
      <3>1. b \in Retire("withdrawn")
        BY <2>1
      <3>2. b \in BlueprintRow /\ b.status # "compiled" /\ Built(b) /\ b.snapshot # 0
        BY <3>1, RetiredRows
      <3> QED
        BY <1>1, <3>2 DEF Built, Attempts
    <2>3. Served'
      BY <2>1, <2>2 DEF Served
    <2>4. CausalTInv'
      <3>1. blueprints' \in SUBSET BlueprintRow
        BY <2>2
      <3>2. 0 \in 0..Len(snapshots)
        BY <1>1, RowsTyped
      <3> QED
        BY <1>1, <1>5, <2>1, <3>1, <3>2 DEF CausalTInv
    <2> QED
      BY <1>2, <1>5, <2>1, <2>3, <2>4 DEF CausalInv
  <1>7. CASE ActiveVersion # v
    <2>1. UNCHANGED <<blueprints, activePointer>>
      BY <1>7 DEF Archive
    <2>2. Served'
      BY <1>1, <2>1, StillServed
    <2>3. CausalTInv'
      BY <1>1, <1>5, <2>1 DEF CausalTInv
    <2> QED
      BY <1>2, <1>5, <2>1, <2>2, <2>3 DEF CausalInv
  <1> QED
    BY <1>6, <1>7

\* The version that was active is superseded if it is published, and the other
\* moves on by a revision, whichever of the two they are.
LEMMA AfterActivationKeeps ==
    ASSUME CausalInv, NEW v \in Versions, NEW rows, rows = AfterActivation(v)
    PROVE  /\ rows \in Seq(VersionRow) /\ Len(rows) = Len(modelVersions)
           /\ \A u \in Versions : Keeps(u, rows[u])
  <1> DEFINE old == ActiveVersion
             superseding == old # 0 /\ modelVersions[old].status = "published"
             superseded == IF superseding
                           THEN [modelVersions EXCEPT ![old].status = "superseded", ![old].revision = @ + 1]
                           ELSE modelVersions
             row == Revised(superseded[v])
  <1>1. /\ modelVersions \in Seq(VersionRow) /\ \A u \in Versions : modelVersions[u] \in VersionRow
        /\ \A u \in Versions : VersionTrue(u)
    BY RowsTyped DEF CausalInv, CausalTInv, Published
  <1>2. \A u \in Versions : Keeps(u, modelVersions[u])
    BY <1>1 DEF VersionTrue, Keeps
  <1>3. /\ superseded \in Seq(VersionRow) /\ Len(superseded) = Len(modelVersions)
        /\ \A u \in Versions : Keeps(u, superseded[u])
    <2>1. CASE superseding
      <3> DEFINE past == Moved(modelVersions[old], "superseded")
      <3>1. old \in Versions /\ modelVersions[old] \in VersionRow /\ VersionTrue(old)
        BY <1>1, <2>1, ActiveIsVersion
      <3>2. /\ past \in VersionRow /\ past.status = "superseded"
            /\ past.snapshot = modelVersions[old].snapshot /\ past.checked = modelVersions[old].checked
            /\ past.content = modelVersions[old].content /\ past.submitter = modelVersions[old].submitter
        BY <3>1, MovedRow DEF GovernanceStatus
      <3>3. superseded = [modelVersions EXCEPT ![old] = past]
        BY <1>1, <2>1, <3>1, LenProperties DEF Versions, Moved
      <3> HIDE DEF past, superseded
      <3>4. Keeps(old, past)
        BY <2>1, <3>1, <3>2 DEF Keeps, VersionTrue, Unpublished
      <3> HIDE DEF old
      <3>5. /\ superseded \in Seq(VersionRow) /\ Len(superseded) = Len(modelVersions)
            /\ \A u \in Versions : superseded[u] = IF u = old THEN past ELSE modelVersions[u]
        BY <1>1, <3>1, <3>2, <3>3, ExceptSeq DEF Versions
      <3> QED
        BY <1>2, <3>4, <3>5
    <2>2. CASE ~superseding
      BY <1>1, <1>2, <2>2
    <2> QED
      BY <2>1, <2>2
  <1>4. rows = [superseded EXCEPT ![v].revision = @ + 1]
    BY DEF AfterActivation
  <1> HIDE DEF superseded
  <1>5. superseded[v] \in VersionRow
    BY <1>3, ElementOfSeq DEF Versions
  <1>6. /\ row \in VersionRow /\ row.status = superseded[v].status
        /\ row.snapshot = superseded[v].snapshot /\ row.checked = superseded[v].checked
        /\ row.content = superseded[v].content /\ row.submitter = superseded[v].submitter
    BY <1>5, RevisedRow
  <1>7. rows = [superseded EXCEPT ![v] = row]
    BY <1>3, <1>4, LenProperties DEF Versions, Revised
  <1> HIDE DEF row
  <1>8. Keeps(v, row)
    BY <1>3, <1>6 DEF Keeps
  <1>9. /\ rows \in Seq(VersionRow) /\ Len(rows) = Len(modelVersions)
        /\ \A u \in Versions : rows[u] = IF u = v THEN row ELSE superseded[u]
    BY <1>3, <1>6, <1>7, ExceptSeq DEF Versions
  <1> QED
    BY <1>3, <1>8, <1>9

\* The new blueprint is the only compiled one and pins the snapshot that becomes
\* active.
LEMMA ActivateInv ==
    ASSUME CausalInv, NEW a \in Actor, NEW v \in Versions, NEW c \in Attempts, Activate(a, v, c)
    PROVE  /\ CausalInv' /\ activePointer' # 0 /\ modelVersions[snapshots[activePointer'].version].status = "published"
  <1> DEFINE new == [snapshot |-> attempts[c].snapshot, pins |-> attempts[c].pins, status |-> "compiled"]
  <1>1. /\ CausalTInv /\ attempts[c] \in AttemptRow /\ AttemptTrue(c) /\ attempts[c].status = "success"
        /\ attempts[c].version = v /\ modelVersions[v].status = "published"
        /\ UNCHANGED <<snapshots, attempts, catalogNow, stepPins>> /\ activePointer' = attempts[c].snapshot
        /\ blueprints' = Retire("superseded") \cup {new} /\ modelVersions' = AfterActivation(v)
    BY RowsTyped DEF CausalInv, Activate, Activatable, Materialise, UnchangedWorld
  <1>2. /\ modelVersions' \in Seq(VersionRow) /\ Len(modelVersions') = Len(modelVersions)
        /\ \A u \in Versions : Keeps(u, modelVersions'[u])
    BY <1>1, AfterActivationKeeps
  <1>3. Len(modelVersions) \in Nat /\ Len(snapshots) \in Nat /\ Versions' = Versions
    BY <1>1, <1>2, RowsTyped DEF Versions
  <1>4. Published' /\ Snapshots' = Snapshots /\ \A d \in Attempts' : AttemptTrue(d)'
    <2>1. Len(modelVersions) <= Len(modelVersions')
      BY <1>2, <1>3
    <2> QED
      BY <1>1, <1>2, <1>3, <2>1, KeptPublished
  <1>5. attempts[c].snapshot \in Snapshots /\ attempts[c].snapshot # 0 /\ activePointer' \in 0..Len(snapshots)
    BY <1>1, <1>3 DEF AttemptTrue, Snapshots
  <1>6. new \in BlueprintRow /\ new.snapshot = activePointer' /\ new.status = "compiled" /\ Built(new)
    BY <1>1 DEF BlueprintRow, BlueprintStatus, AttemptRow, Built
  <1> HIDE DEF new
  <1>7. ASSUME NEW b \in blueprints'
        PROVE  b \in BlueprintRow /\ Built(b)' /\ b.snapshot # 0 /\ (b.status = "compiled" <=> b = new)
    <2>1. b \in BlueprintRow /\ Built(b) /\ b.snapshot # 0 /\ (b.status = "compiled" <=> b = new)
      <3>1. CASE b = new
        BY <1>1, <1>5, <1>6, <3>1
      <3>2. CASE b \in Retire("superseded")
        BY <1>6, <3>2, RetiredRows
      <3> QED
        BY <1>1, <1>7, <3>1, <3>2
    <2> QED
      BY <1>1, <2>1 DEF Built, Attempts
  <1>8. Served'
    <2>1. new \in blueprints' /\ Current' = {new}
      <3>1. new \in blueprints'
        BY <1>1
      <3>2. \A b \in blueprints' : b \in Current' <=> b = new
        BY <1>6, <1>7 DEF Current
      <3> QED
        BY <3>1, <3>2 DEF Current
    <2>2. \E b \in blueprints' : Current' = {b}
      BY <2>1
    <2> QED
      BY <1>6, <1>7, <2>2 DEF Served
  <1>9. CausalTInv'
    <2>1. blueprints' \in SUBSET BlueprintRow
      BY <1>7
    <2> QED
      BY <1>1, <1>2, <1>5, <2>1 DEF CausalTInv
  <1>10. modelVersions[snapshots[activePointer'].version].status = "published"
    BY <1>1 DEF AttemptTrue
  <1> QED
    BY <1>1, <1>4, <1>5, <1>8, <1>9, <1>10 DEF CausalInv

LEMMA CausalNextInv == CausalInv /\ [CausalNext]_causalVars => CausalInv'
  <1> SUFFICES ASSUME CausalInv, [CausalNext]_causalVars PROVE CausalInv'
    OBVIOUS
  <1>1. CASE UNCHANGED causalVars
    <2>1. UNCHANGED <<modelVersions, snapshots, attempts, blueprints, activePointer, catalogNow, stepPins>>
      BY <1>1 DEF causalVars
    <2>2. Published' /\ Versions' = Versions /\ Snapshots' = Snapshots
      BY <2>1, StillPublished
    <2>3. Served' /\ \A c \in Attempts' : AttemptTrue(c)'
      BY <2>1, <2>2, StillServed DEF CausalInv, AttemptTrue, Attempts
    <2> QED
      BY <2>1, <2>2, <2>3 DEF CausalInv, CausalTInv
  <1>2. ASSUME NEW a \in Actor, CreateModel(a) \/ \E from \in 0..MaxVersions : CreateVersion(a, from) PROVE CausalInv'
    BY <1>2, CreateInv
  <1>3. ASSUME NEW v \in Versions, NEW a \in Actor,
               \/ \E content \in Content : WriteDraft(a, v, content)
               \/ SubmitReview(a, v) \/ RejectReview(a, v) \/ Publish(a, v) \/ Archive(a, v)
               \/ \E parent \in {0} \cup Attempts : RequestCompile(a, v, parent)
               \/ \E c \in Attempts : Activate(a, v, c)
        PROVE  CausalInv'
    BY <1>3, WriteDraftInv, SubmitReviewInv, RejectReviewInv, PublishInv, ArchiveInv, RequestCompileInv, ActivateInv
  <1>4. ASSUME NEW c \in Attempts, CompleteAttempt(c) PROVE CausalInv'
    BY <1>4, CompleteAttemptInv
  <1>5. CASE CatalogChanges \/ StepTypesChange
    BY <1>5, WorldInv
  <1> QED
    BY <1>1, <1>2, <1>3, <1>4, <1>5 DEF CausalNext

LEMMA CausalAlways == CausalSpec => []CausalInv
  BY CausalInitInv, CausalNextInv, PTL DEF CausalSpec

-------------------------------------------------------------------------------
\* The type invariant of the models: versions, snapshots, attempts and
\* blueprints are rows of their tables (migration 0040).
THEOREM ModelsTypeCorrect == CausalSpec => []CausalTypeOK
  <1>1. CausalInv => CausalTypeOK
    BY DEF CausalInv, CausalTInv, CausalTypeOK
  <1> QED
    BY <1>1, CausalAlways, PTL

\* Whatever is drafted, rejected, compiled, activated and archived in between,
\* by whomever: a snapshot holds what passed at its submission, is published by
\* another than its submitter or by an administrator, and the model serves
\* exactly one compiled blueprint, that of its active snapshot, or none (the
\* commands of the service and of the activation).
THEOREM ModelsGoverned == CausalSpec => []ModelsAreGoverned
  <1>1. ASSUME CausalInv PROVE CurrentBlueprintIsActive
    <2>1. {b \in blueprints : b.status = "compiled"} = Current
      BY <1>1 DEF CausalInv, Served, Current
    <2>2. CASE activePointer = 0
      <3>1. Current = {}
        BY <1>1, <2>2 DEF CausalInv, Served, Current
      <3> QED
        BY <1>1, <2>1, <2>2, <3>1 DEF CausalInv, Served, Built, CurrentBlueprintIsActive
    <2>3. CASE activePointer # 0
      <3>1. PICK b \in blueprints : Current = {b}
        BY <1>1, <2>3 DEF CausalInv, Served
      <3>2. Cardinality(Current) = 1
        BY <3>1, FS_Singleton
      <3> QED
        BY <1>1, <2>1, <2>3, <3>2 DEF CausalInv, Served, Built, CurrentBlueprintIsActive
    <2> QED
      BY <2>2, <2>3
  <1>2. ASSUME CausalInv PROVE PublishedAsSubmitted
    BY <1>2 DEF CausalInv, Published, SnapshotTrue, PublishedAsSubmitted
  <1> QED
    BY <1>1, <1>2, CausalAlways, PTL DEF ModelsAreGoverned

\* The active pointer never leaves a version for nothing: it moves to an
\* artifact of a version that is published at that moment, or its version is
\* archived (activation and archive, each one transaction).
THEOREM LastKnownGood == CausalSpec => LastKnownGoodServes
  <1> DEFINE Serves == activePointer # activePointer' =>
                          IF activePointer' = 0
                          THEN modelVersions'[ActiveVersion].status = "archived"
                          ELSE modelVersions[snapshots[activePointer'].version].status = "published"
  <1>1. ASSUME CausalInv, CausalNext PROVE Serves
    <2> SUFFICES ASSUME activePointer # activePointer'
                 PROVE  IF activePointer' = 0
                        THEN modelVersions'[ActiveVersion].status = "archived"
                        ELSE modelVersions[snapshots[activePointer'].version].status = "published"
      OBVIOUS
    <2>1. \E v \in Versions, a \in Actor : Archive(a, v) \/ \E c \in Attempts : Activate(a, v, c)
      <3>1. ASSUME NEW a \in Actor, CreateModel(a) \/ \E from \in 0..MaxVersions : CreateVersion(a, from)
            PROVE  FALSE
        BY <3>1 DEF CreateModel, CreateVersion, UnchangedRuntime
      <3>2. ASSUME NEW v \in Versions, NEW a \in Actor, \E content \in Content : WriteDraft(a, v, content)
            PROVE  FALSE
        BY <3>2 DEF WriteDraft, UnchangedRuntime
      <3>3. ASSUME NEW v \in Versions, NEW a \in Actor, SubmitReview(a, v) \/ RejectReview(a, v) \/ Publish(a, v)
            PROVE  FALSE
        BY <3>3 DEF SubmitReview, RejectReview, Publish, UnchangedRuntime
      <3>4. ASSUME NEW v \in Versions, NEW a \in Actor,
                   \E parent \in {0} \cup Attempts : RequestCompile(a, v, parent)
            PROVE  FALSE
        BY <3>4 DEF RequestCompile
      <3>5. ASSUME (\E c \in Attempts : CompleteAttempt(c)) \/ CatalogChanges \/ StepTypesChange
            PROVE  FALSE
        BY <3>5 DEF CompleteAttempt, CatalogChanges, StepTypesChange, UnchangedRuntime
      <3> QED
        BY <1>1, <3>1, <3>2, <3>3, <3>4, <3>5 DEF CausalNext
    <2>2. ASSUME NEW v \in Versions, NEW a \in Actor, Archive(a, v)
          PROVE  activePointer' = 0 /\ modelVersions'[ActiveVersion].status = "archived"
      <3>1. modelVersions'[v].status = "archived" /\ activePointer' = 0
        BY <1>1, <2>2, ArchiveInv
      <3>2. ActiveVersion = v
        BY <2>2 DEF Archive
      <3> QED
        BY <3>1, <3>2
    <2>3. ASSUME NEW v \in Versions, NEW a \in Actor, NEW c \in Attempts, Activate(a, v, c)
          PROVE  activePointer' # 0 /\ modelVersions[snapshots[activePointer'].version].status = "published"
      BY <1>1, <2>3, ActivateInv
    <2> QED
      BY <2>1, <2>2, <2>3
  <1>2. CausalInv /\ [CausalNext]_causalVars => [Serves]_causalVars
    BY <1>1
  <1> QED
    BY <1>2, CausalAlways, PTL DEF CausalSpec, LastKnownGoodServes

-------------------------------------------------------------------------------
(****************************************************************************)
(* The searches of the analysis, in any finite graph.                       *)
(****************************************************************************)
IsAdjacency(next) == IsFiniteSet(DOMAIN next) /\ next \in [DOMAIN next -> SUBSET DOMAIN next]

\* S has all that its members lead to.
IsWhole(next, S) == \A n \in S : next[n] \subseteq S

\* What a node leads to, by one edge at least.
AheadOf(next, n) ==
    {m \in DOMAIN next : \A S \in SUBSET DOMAIN next : IsWhole(next, S) /\ next[n] \subseteq S => m \in S}

\* What is ahead of a node is whole, and is ahead of all that the node is ahead of.
LEMMA AheadFacts ==
    ASSUME NEW next, IsAdjacency(next), NEW n \in DOMAIN next
    PROVE  /\ AheadOf(next, n) \subseteq DOMAIN next /\ IsWhole(next, AheadOf(next, n))
           /\ next[n] \subseteq AheadOf(next, n)
           /\ \A S \in SUBSET DOMAIN next : IsWhole(next, S) /\ next[n] \subseteq S => AheadOf(next, n) \subseteq S
           /\ \A m \in AheadOf(next, n) : AheadOf(next, m) \subseteq AheadOf(next, n)
  <1>1. AheadOf(next, n) \subseteq DOMAIN next /\ next[n] \subseteq AheadOf(next, n)
    BY DEF AheadOf, IsAdjacency
  <1>2. ASSUME NEW S \in SUBSET DOMAIN next, IsWhole(next, S), next[n] \subseteq S
        PROVE  AheadOf(next, n) \subseteq S
    BY <1>2 DEF AheadOf
  <1>3. IsWhole(next, AheadOf(next, n))
    <2>1. ASSUME NEW m \in AheadOf(next, n), NEW k \in next[m] PROVE k \in AheadOf(next, n)
      <3>1. k \in DOMAIN next
        BY <1>1, <2>1 DEF IsAdjacency
      <3>2. ASSUME NEW S \in SUBSET DOMAIN next, IsWhole(next, S), next[n] \subseteq S PROVE k \in S
        BY <1>2, <2>1, <3>2 DEF IsWhole
      <3> QED
        BY <3>1, <3>2 DEF AheadOf
    <2> QED
      BY <2>1 DEF IsWhole
  <1>4. ASSUME NEW m \in AheadOf(next, n) PROVE AheadOf(next, m) \subseteq AheadOf(next, n)
    <2>1. next[m] \subseteq AheadOf(next, n)
      BY <1>3 DEF IsWhole
    <2> QED
      BY <1>1, <1>3, <2>1 DEF AheadOf
  <1> QED
    BY <1>1, <1>2, <1>3, <1>4

\* What is left to a search: the nodes it has not taken, then those at hand.
LeftOver(all, taken, hand) == Cardinality(all \ taken) * (Cardinality(all) + 1) + Cardinality(hand)
MostLeft(all) == Cardinality(all) * (Cardinality(all) + 1) + Cardinality(all)

LEMMA LeftOverNumber ==
    ASSUME NEW all, IsFiniteSet(all), NEW taken \in SUBSET all, NEW hand \in SUBSET all
    PROVE  MostLeft(all) \in Nat /\ LeftOver(all, taken, hand) \in 0..MostLeft(all)
  <1> DEFINE N == Cardinality(all)
             a == Cardinality(all \ taken)
             c == Cardinality(hand)
  <1>1. N \in Nat /\ a \in Nat /\ c \in Nat /\ a <= N /\ c <= N
    BY FS_Subset, FS_CardinalityType
  <1> HIDE DEF N, a, c
  <1>2. a * (N + 1) \in Nat /\ N * (N + 1) \in Nat
    BY <1>1
  <1>3. a * (N + 1) <= N * (N + 1)
    <2>1. CASE a = N
      BY <1>2, <2>1
    <2>2. CASE a < N
      <3>1. a * (N + 1) + 0 < N * (N + 1) + 0
        BY <1>1, <2>2, InOrderOfTwo
      <3> QED
        BY <1>2, <3>1
    <2> QED
      BY <1>1, <2>1, <2>2
  <1>4. N * (N + 1) + N \in Nat /\ a * (N + 1) + c \in 0..(N * (N + 1) + N)
    BY <1>1, <1>2, <1>3
  <1> QED
    BY <1>4 DEF MostLeft, LeftOver, N, a, c

\* A search that takes a node has less left, whatever comes to hand.
LEMMA LeftOverTaken ==
    ASSUME NEW all, IsFiniteSet(all), NEW taken \in SUBSET all, NEW n \in all \ taken,
           NEW hand \in SUBSET all, NEW more \in SUBSET all
    PROVE  LeftOver(all, taken \cup {n}, more) < LeftOver(all, taken, hand)
  <1> DEFINE N == Cardinality(all)
             a == Cardinality(all \ (taken \cup {n}))
             b == Cardinality(all \ taken)
             c == Cardinality(more)
             d == Cardinality(hand)
  <1>1. N \in Nat /\ a \in Nat /\ c \in Nat /\ d \in Nat /\ c <= N
    BY FS_Subset, FS_CardinalityType
  <1>2. b \in Nat /\ a < b
    <2> DEFINE R == all \ taken
    <2>1. all \ (taken \cup {n}) = R \ {n} /\ IsFiniteSet(R) /\ n \in R
      BY FS_Subset
    <2>2. a = b - 1 /\ b \in Nat
      <3>1. b = Cardinality(R) /\ a = Cardinality(R \ {n})
        BY <2>1
      <3> HIDE DEF R, a, b
      <3> QED
        BY <2>1, <3>1, FS_RemoveElement, FS_CardinalityType
    <2> QED
      BY <1>1, <2>2
  <1> HIDE DEF N, a, b, c, d
  <1>3. a * (N + 1) + c < b * (N + 1) + d
    BY <1>1, <1>2, InOrderOfTwo
  <1> QED
    BY <1>3 DEF LeftOver, N, a, b, c, d

\* So has one that puts a node away.
LEMMA LeftOverDone ==
    ASSUME NEW all, IsFiniteSet(all), NEW taken \in SUBSET all, NEW hand \in SUBSET all, NEW n \in hand
    PROVE  LeftOver(all, taken, hand \ {n}) < LeftOver(all, taken, hand)
  <1> DEFINE k == Cardinality(all \ taken) * (Cardinality(all) + 1)
             c == Cardinality(hand \ {n})
             d == Cardinality(hand)
  <1>1. k \in Nat
    <2>1. Cardinality(all \ taken) \in Nat /\ Cardinality(all) \in Nat
      BY FS_Subset, FS_CardinalityType
    <2> QED
      BY <2>1
  <1>2. c \in Nat /\ d \in Nat /\ c = d - 1
    BY FS_Subset, FS_CardinalityType, FS_RemoveElement
  <1> HIDE DEF k, c, d
  <1>3. k + c < k + d
    BY <1>1, <1>2
  <1> QED
    BY <1>3 DEF LeftOver, k, c, d

(****************************************************************************)
(* The worklist search.                                                     *)
(****************************************************************************)
Searches(next) == [pending : SUBSET DOMAIN next, seen : SUBSET DOMAIN next]

\* One node taken from the list, and what is searched after it.
TakenFrom(S) == CHOOSE n \in S : TRUE
SearchedAfter(next, at) ==
    LET n == TakenFrom(at.pending)
    IN  [pending |-> (at.pending \ {n}) \cup (IF n \in at.seen THEN {} ELSE next[n]),
         seen |-> at.seen \cup {n}]
SearchBody(next, to, f, at) ==
    IF at.pending = {} THEN FALSE
    ELSE \/ TakenFrom(at.pending) = to
         \/ f[SearchedAfter(next, at)]

LEMMA SearchProceeds ==
    ASSUME NEW next, IsAdjacency(next), NEW at \in Searches(next), at.pending # {}
    PROVE  /\ TakenFrom(at.pending) \in at.pending
           /\ SearchedAfter(next, at) \in Searches(next)
           /\ LeftOver(DOMAIN next, SearchedAfter(next, at).seen, SearchedAfter(next, at).pending)
                  < LeftOver(DOMAIN next, at.seen, at.pending)
  <1> DEFINE n == TakenFrom(at.pending)
             all == DOMAIN next
             rest == (at.pending \ {n}) \cup (IF n \in at.seen THEN {} ELSE next[n])
  <1>1. n \in at.pending
    BY DEF TakenFrom
  <1>2. at.pending \in SUBSET all /\ at.seen \in SUBSET all /\ n \in all /\ next[n] \in SUBSET all
    BY <1>1 DEF Searches, IsAdjacency
  <1>3. SearchedAfter(next, at) = [pending |-> rest, seen |-> at.seen \cup {n}]
    BY DEF SearchedAfter
  <1>4. rest \in SUBSET all /\ at.seen \cup {n} \in SUBSET all /\ IsFiniteSet(all)
    BY <1>2 DEF IsAdjacency
  <1> HIDE DEF n
  <1>5. LeftOver(all, at.seen \cup {n}, rest) < LeftOver(all, at.seen, at.pending)
    <2>1. CASE n \in at.seen
      <3>1. at.seen \cup {n} = at.seen /\ rest = at.pending \ {n}
        BY <2>1
      <3> HIDE DEF all, rest
      <3> QED
        BY <1>1, <1>2, <1>4, <3>1, LeftOverDone
    <2>2. CASE n \notin at.seen
      <3>1. n \in all \ at.seen
        BY <1>2, <2>2
      <3> HIDE DEF all, rest
      <3> QED
        BY <1>2, <1>4, <3>1, LeftOverTaken
    <2> QED
      BY <2>1, <2>2
  <1> HIDE DEF all, rest
  <1>6. SearchedAfter(next, at).seen = at.seen \cup {n} /\ SearchedAfter(next, at).pending = rest
    BY <1>3
  <1>7. SearchedAfter(next, at) \in [pending : SUBSET all, seen : SUBSET all]
    BY <1>3, <1>4
  <1> QED
    BY <1>1, <1>5, <1>6, <1>7 DEF Searches, all, n

\* The recursion of the search has a value.
LEMMA SearchExists ==
    ASSUME NEW next, IsAdjacency(next), NEW to
    PROVE  \E f : f = [at \in Searches(next) |-> SearchBody(next, to, f, at)]
  <1> DEFINE D == Searches(next)
             M == MostLeft(DOMAIN next)
             rank == [at \in D |-> LeftOver(DOMAIN next, at.seen, at.pending)]
             W == [D -> BOOLEAN]
             body == [f \in W |-> [at \in D |-> SearchBody(next, to, f, at)]]
  <1>1. M \in Nat /\ rank \in [D -> 0..M]
    <2>1. ASSUME NEW at \in D PROVE M \in Nat /\ LeftOver(DOMAIN next, at.seen, at.pending) \in 0..M
      BY LeftOverNumber DEF IsAdjacency, Searches
    <2>2. [pending |-> {}, seen |-> {}] \in D
      BY DEF Searches
    <2> HIDE DEF D, M
    <2> QED
      BY <2>1, <2>2
  <1>2. ASSUME NEW at \in D, at.pending # {}
        PROVE  SearchedAfter(next, at) \in D /\ rank[SearchedAfter(next, at)] < rank[at]
    <2>1. SearchedAfter(next, at) \in D
      BY <1>2, SearchProceeds
    <2> HIDE DEF D
    <2>2. rank[SearchedAfter(next, at)] = LeftOver(DOMAIN next, SearchedAfter(next, at).seen, SearchedAfter(next, at).pending)
      BY <2>1
    <2>3. rank[at] = LeftOver(DOMAIN next, at.seen, at.pending)
      BY <1>2
    <2> QED
      BY <1>2, <2>1, <2>2, <2>3, SearchProceeds DEF D
  <1> HIDE DEF D, M, rank
  <1>3. body \in [W -> W]
    <2>1. ASSUME NEW f \in W, NEW at \in D PROVE SearchBody(next, to, f, at) \in BOOLEAN
      BY <1>2, <2>1 DEF SearchBody
    <2> QED
      BY <2>1
  <1>4. ASSUME NEW f \in W, NEW g \in W, NEW at \in D, \A b \in D : rank[b] < rank[at] => f[b] = g[b]
        PROVE  body[f][at] = body[g][at]
    <2>1. SearchBody(next, to, f, at) = SearchBody(next, to, g, at)
      BY <1>2, <1>4 DEF SearchBody
    <2> QED
      BY <1>4, <2>1
  <1>5. FALSE \in BOOLEAN
    OBVIOUS
  <1>6. PICK f : Solves(D, BOOLEAN, body, f)
    <2> HIDE DEF body
    <2> DEFINE V == BOOLEAN
    <2>1. FALSE \in V /\ body \in [[D -> V] -> [D -> V]]
      BY <1>3, <1>5
    <2>2. \A f, g \in [D -> V] : \A at \in D :
              (\A b \in D : rank[b] < rank[at] => f[b] = g[b]) => body[f][at] = body[g][at]
      BY <1>4
    <2> HIDE DEF V, W
    <2>3. \E f : Solves(D, V, body, f)
      BY <1>1, <2>1, <2>2, Recursively
    <2> QED
      BY <2>3 DEF V
  <1>7. f \in W /\ body[f] = f
    BY <1>6 DEF Solves
  <1>8. body[f] = [at \in D |-> SearchBody(next, to, f, at)]
    BY <1>7
  <1> QED
    BY <1>7, <1>8 DEF D

\* The search from a node is a value of that recursion.
LEMMA ReachesSearches ==
    ASSUME NEW next, IsAdjacency(next), NEW from \in DOMAIN next, NEW to
    PROVE  \E h : /\ \A at \in Searches(next) : h[at] = SearchBody(next, to, h, at)
                  /\ Reaches(next, from, to) = h[[pending |-> {from}, seen |-> {}]]
  <1> DEFINE rec(f) ==
          [at \in [pending : SUBSET DOMAIN next, seen : SUBSET DOMAIN next] |->
            IF at.pending = {} THEN FALSE
            ELSE LET n == CHOOSE x \in at.pending : TRUE
                     more == IF n \in at.seen THEN {} ELSE next[n]
                 IN \/ n = to
                    \/ f[[pending |-> (at.pending \ {n}) \cup more, seen |-> at.seen \cup {n}]]]
             h == CHOOSE f : f = rec(f)
  <1>1. Reaches(next, from, to) = h[[pending |-> {from}, seen |-> {}]]
    BY DEF Reaches
  <1>2. \A f : rec(f) = [at \in Searches(next) |-> SearchBody(next, to, f, at)]
    BY DEF Searches, SearchBody, SearchedAfter, TakenFrom
  <1> HIDE DEF rec
  <1>3. \E f : f = rec(f)
    BY <1>2, SearchExists
  <1>4. h = rec(h)
    BY <1>3
  <1> HIDE DEF h
  <1>5. \A at \in Searches(next) : h[at] = SearchBody(next, to, h, at)
    <2>1. h = [at \in Searches(next) |-> SearchBody(next, to, h, at)]
      BY <1>2, <1>4
    <2> QED
      BY <2>1
  <1> QED
    BY <1>1, <1>5

\* What a search in progress relies on: a node that was seen leads to nodes that
\* were seen or are pending, and the goal was not seen.
SearchSound(next, to, at) ==
    to \notin at.seen /\ \A n \in at.seen : next[n] \subseteq at.seen \cup at.pending

\* What its result means: a pending node is the goal or leads to it, or else there
\* is a set without the goal which nothing that was seen or is pending leads out of.
SearchTells(next, to, at, result) ==
    /\ result \in BOOLEAN
    /\ result => \E n \in at.pending : n = to \/ to \in AheadOf(next, n)
    /\ ~result => \E S \in SUBSET DOMAIN next :
                     at.pending \cup at.seen \subseteq S /\ IsWhole(next, S) /\ to \notin S

LEMMA SearchMeans ==
    ASSUME NEW next, IsAdjacency(next), NEW to \in DOMAIN next,
           NEW h, \A at \in Searches(next) : h[at] = SearchBody(next, to, h, at)
    PROVE  \A at \in Searches(next) : SearchSound(next, to, at) => SearchTells(next, to, at, h[at])
  <1> DEFINE all == DOMAIN next
             M == MostLeft(all)
             rank == [at \in Searches(next) |-> LeftOver(all, at.seen, at.pending)]
             Right(at) == SearchSound(next, to, at) => SearchTells(next, to, at, h[at])
             T == {at \in Searches(next) : Right(at)}
  <1>1. M \in Nat /\ rank \in [Searches(next) -> 0..M]
    <2>1. {} \in SUBSET all /\ IsFiniteSet(all)
      BY DEF IsAdjacency
    <2>2. M \in Nat
      <3> HIDE DEF all, M
      <3> QED
        BY <2>1, LeftOverNumber DEF M
    <2>3. ASSUME NEW at \in Searches(next) PROVE LeftOver(all, at.seen, at.pending) \in 0..M
      BY <2>1, LeftOverNumber DEF Searches
    <2> HIDE DEF M
    <2> QED
      BY <2>2, <2>3
  <1>2. ASSUME NEW at \in Searches(next),
               \A b \in Searches(next) : rank[b] < rank[at] => Right(b)
        PROVE  Right(at)
    <2> SUFFICES ASSUME SearchSound(next, to, at) PROVE SearchTells(next, to, at, h[at])
      OBVIOUS
    <2>1. h[at] = SearchBody(next, to, h, at) /\ at.pending \in SUBSET all /\ at.seen \in SUBSET all
      BY DEF Searches
    <2>2. CASE at.pending = {}
      <3>1. h[at] = FALSE
        BY <2>1, <2>2 DEF SearchBody
      <3>2. IsWhole(next, at.seen) /\ to \notin at.seen
        BY <2>2 DEF SearchSound, IsWhole
      <3> QED
        BY <2>1, <2>2, <3>1, <3>2 DEF SearchTells
    <2>3. CASE at.pending # {}
      <3> DEFINE n == TakenFrom(at.pending)
                 then == SearchedAfter(next, at)
      <3>1. n \in at.pending /\ then \in Searches(next) /\ rank[then] < rank[at]
        <4>1. n \in at.pending /\ then \in Searches(next)
              /\ LeftOver(all, then.seen, then.pending) < LeftOver(all, at.seen, at.pending)
          BY <2>3, SearchProceeds
        <4> HIDE DEF n, then
        <4> QED
          BY <4>1
      <3>2. n \in all /\ next[n] \in SUBSET all
        BY <2>1, <3>1 DEF IsAdjacency
      <3>3. /\ then.seen = at.seen \cup {n}
            /\ then.pending = (at.pending \ {n}) \cup (IF n \in at.seen THEN {} ELSE next[n])
        BY DEF SearchedAfter
      <3>4. h[at] = (n = to \/ h[then])
        BY <2>1, <2>3 DEF SearchBody
      <3> HIDE DEF n, then
      <3>5. CASE n = to
        <4>1. h[at] = TRUE
          BY <3>4, <3>5
        <4> QED
          BY <3>1, <3>5, <4>1 DEF SearchTells
      <3>6. CASE n # to
        <4>1. SearchSound(next, to, then)
          <5>1. to \notin then.seen
            BY <3>3, <3>6 DEF SearchSound
          <5>2. ASSUME NEW m \in then.seen PROVE next[m] \subseteq then.seen \cup then.pending
            <6>1. CASE m \in at.seen
              BY <3>3, <6>1 DEF SearchSound
            <6>2. CASE m \notin at.seen
              <7>1. m = n
                BY <3>3, <6>2
              <7> QED
                BY <3>3, <6>2, <7>1
            <6> QED
              BY <6>1, <6>2
          <5> QED
            BY <5>1, <5>2 DEF SearchSound
        <4>2. SearchTells(next, to, then, h[then])
          BY <1>2, <3>1, <4>1
        <4>3. h[at] = h[then]
          BY <3>4, <3>6, <4>2 DEF SearchTells
        <4>4. ASSUME h[then] PROVE \E m \in at.pending : m = to \/ to \in AheadOf(next, m)
          <5>1. PICK m \in then.pending : m = to \/ to \in AheadOf(next, m)
            BY <4>2, <4>4 DEF SearchTells
          <5>2. CASE m \in at.pending
            BY <5>1, <5>2
          <5>3. CASE m \notin at.pending
            <6>1. m \in next[n]
              BY <3>3, <5>3
            <6>2. to \in AheadOf(next, n)
              BY <3>2, <5>1, <6>1, AheadFacts
            <6> QED
              BY <3>1, <6>2
          <5> QED
            BY <5>2, <5>3
        <4>5. ASSUME ~h[then]
              PROVE  \E S \in SUBSET all : at.pending \cup at.seen \subseteq S /\ IsWhole(next, S) /\ to \notin S
          <5>1. PICK S \in SUBSET all : then.pending \cup then.seen \subseteq S /\ IsWhole(next, S) /\ to \notin S
            BY <4>2, <4>5 DEF SearchTells
          <5>2. at.pending \cup at.seen \subseteq S
            BY <3>3, <5>1
          <5> QED
            BY <5>1, <5>2
        <4> QED
          BY <4>2, <4>3, <4>4, <4>5 DEF SearchTells
      <3> QED
        BY <3>5, <3>6
    <2> QED
      BY <2>2, <2>3
  <1>3. \A at \in Searches(next) : (\A b \in Searches(next) : rank[b] < rank[at] => b \in T) => at \in T
    BY <1>2
  <1>4. Searches(next) \subseteq T
    <2> HIDE DEF T, M, rank
    <2> QED
      BY <1>1, <1>3, ByRank
  <1> QED
    BY <1>4

\* The worklist search is exact: it finds the goal if and only if it starts there or
\* something leads to it.
LEMMA ReachesExact ==
    ASSUME NEW next, IsAdjacency(next), NEW from \in DOMAIN next, NEW to \in DOMAIN next
    PROVE  Reaches(next, from, to) <=> from = to \/ to \in AheadOf(next, from)
  <1> DEFINE start == [pending |-> {from}, seen |-> {}]
  <1>1. PICK h : /\ \A at \in Searches(next) : h[at] = SearchBody(next, to, h, at)
                 /\ Reaches(next, from, to) = h[start]
    BY ReachesSearches
  <1>2. start \in Searches(next) /\ SearchSound(next, to, start)
    BY DEF Searches, SearchSound
  <1>3. SearchTells(next, to, start, h[start])
    BY <1>1, <1>2, SearchMeans
  <1>4. start.pending = {from} /\ start.seen = {}
    OBVIOUS
  <1> HIDE DEF start
  <1>5. ASSUME h[start] PROVE from = to \/ to \in AheadOf(next, from)
    BY <1>3, <1>4, <1>5 DEF SearchTells
  <1>6. ASSUME ~h[start] PROVE from # to /\ to \notin AheadOf(next, from)
    <2>1. PICK S \in SUBSET DOMAIN next : {from} \subseteq S /\ IsWhole(next, S) /\ to \notin S
      BY <1>3, <1>4, <1>6 DEF SearchTells
    <2>2. next[from] \subseteq S
      BY <2>1 DEF IsWhole
    <2> QED
      BY <2>1, <2>2, AheadFacts
  <1>7. h[start] \in BOOLEAN
    BY <1>3 DEF SearchTells
  <1> QED
    BY <1>1, <1>5, <1>6, <1>7

(****************************************************************************)
(* The depth-first search.                                                  *)
(****************************************************************************)
Visits(next) == [todo : SUBSET DOMAIN next, path : SUBSET DOMAIN next, done : SUBSET DOMAIN next]
Found(next) == [cycle : BOOLEAN, done : SUBSET DOMAIN next]

\* The visit below the node taken, what it finds, and the visit of the rest.
Descent(next, at) ==
    LET n == TakenFrom(at.todo)
    IN  [todo |-> next[n], path |-> at.path \cup {n}, done |-> at.done]
FoundBelow(next, f, at) ==
    LET n == TakenFrom(at.todo)
    IN  IF n \in at.path THEN [cycle |-> TRUE, done |-> at.done]
        ELSE IF n \in at.done THEN [cycle |-> FALSE, done |-> at.done]
        ELSE f[Descent(next, at)]
Remainder(at, below) ==
    LET n == TakenFrom(at.todo)
    IN  [todo |-> at.todo \ {n}, path |-> at.path, done |-> below.done \cup {n}]
VisitBody(next, f, at) ==
    IF at.todo = {} THEN [cycle |-> FALSE, done |-> at.done]
    ELSE LET below == FoundBelow(next, f, at)
         IN  IF below.cycle THEN below ELSE f[Remainder(at, below)]

VisitRank(next, at) == LeftOver(DOMAIN next, at.path, at.todo)

LEMMA VisitProceeds ==
    ASSUME NEW next, IsAdjacency(next), NEW at \in Visits(next), at.todo # {},
           NEW below \in Found(next)
    PROVE  /\ TakenFrom(at.todo) \in at.todo
           /\ Remainder(at, below) \in Visits(next)
           /\ VisitRank(next, Remainder(at, below)) < VisitRank(next, at)
           /\ TakenFrom(at.todo) \notin at.path =>
                 /\ Descent(next, at) \in Visits(next)
                 /\ VisitRank(next, Descent(next, at)) < VisitRank(next, at)
  <1> DEFINE n == TakenFrom(at.todo)
             all == DOMAIN next
  <1>1. n \in at.todo
    BY DEF TakenFrom
  <1>2. /\ at.todo \in SUBSET all /\ at.path \in SUBSET all /\ at.done \in SUBSET all
        /\ n \in all /\ next[n] \in SUBSET all /\ IsFiniteSet(all) /\ below.done \in SUBSET all
    BY <1>1 DEF Visits, Found, IsAdjacency
  <1>3. /\ Remainder(at, below) = [todo |-> at.todo \ {n}, path |-> at.path, done |-> below.done \cup {n}]
        /\ Descent(next, at) = [todo |-> next[n], path |-> at.path \cup {n}, done |-> at.done]
    BY DEF Remainder, Descent
  <1> HIDE DEF n, all
  <1>4. Remainder(at, below) \in Visits(next) /\ Descent(next, at) \in Visits(next)
    BY <1>2, <1>3 DEF Visits, all
  <1>5. VisitRank(next, Remainder(at, below)) < VisitRank(next, at)
    <2>1. LeftOver(all, at.path, at.todo \ {n}) < LeftOver(all, at.path, at.todo)
      BY <1>1, <1>2, LeftOverDone
    <2>2. Remainder(at, below).path = at.path /\ Remainder(at, below).todo = at.todo \ {n}
      BY <1>3
    <2> QED
      BY <2>1, <2>2 DEF VisitRank, all
  <1>6. ASSUME n \notin at.path PROVE VisitRank(next, Descent(next, at)) < VisitRank(next, at)
    <2>1. n \in all \ at.path
      BY <1>2, <1>6
    <2>2. LeftOver(all, at.path \cup {n}, next[n]) < LeftOver(all, at.path, at.todo)
      BY <1>2, <2>1, LeftOverTaken
    <2>3. Descent(next, at).path = at.path \cup {n} /\ Descent(next, at).todo = next[n]
      BY <1>3
    <2> QED
      BY <2>2, <2>3 DEF VisitRank, all
  <1> QED
    BY <1>1, <1>4, <1>5, <1>6 DEF n

LEMMA VisitRanks ==
    ASSUME NEW next, IsAdjacency(next)
    PROVE  MostLeft(DOMAIN next) \in Nat /\ \A at \in Visits(next) : VisitRank(next, at) \in 0..MostLeft(DOMAIN next)
  <1>1. {} \in SUBSET DOMAIN next /\ IsFiniteSet(DOMAIN next)
    BY DEF IsAdjacency
  <1>2. MostLeft(DOMAIN next) \in Nat
    BY <1>1, LeftOverNumber
  <1>3. ASSUME NEW at \in Visits(next) PROVE VisitRank(next, at) \in 0..MostLeft(DOMAIN next)
    <2>1. at.path \in SUBSET DOMAIN next /\ at.todo \in SUBSET DOMAIN next
      BY DEF Visits
    <2> QED
      BY <1>1, <2>1, LeftOverNumber DEF VisitRank
  <1> QED
    BY <1>2, <1>3

\* The recursion of the visits has a value.
LEMMA VisitExists ==
    ASSUME NEW next, IsAdjacency(next)
    PROVE  \E f : f = [at \in Visits(next) |-> VisitBody(next, f, at)]
  <1> DEFINE D == Visits(next)
             V == Found(next)
             M == MostLeft(DOMAIN next)
             rank == [at \in D |-> VisitRank(next, at)]
             W == [D -> V]
             body == [f \in W |-> [at \in D |-> VisitBody(next, f, at)]]
             none == [cycle |-> FALSE, done |-> {}]
  <1>1. M \in Nat /\ rank \in [D -> 0..M] /\ none \in V
    BY VisitRanks DEF Found
  <1>2. ASSUME NEW at \in D, at.todo # {}, NEW below \in V
        PROVE  Remainder(at, below) \in D /\ rank[Remainder(at, below)] < rank[at]
    <2>1. Remainder(at, below) \in D /\ VisitRank(next, Remainder(at, below)) < VisitRank(next, at)
      BY <1>2, VisitProceeds
    <2> HIDE DEF D
    <2> QED
      BY <1>2, <2>1
  <1>3. ASSUME NEW at \in D, at.todo # {}, TakenFrom(at.todo) \notin at.path
        PROVE  Descent(next, at) \in D /\ rank[Descent(next, at)] < rank[at]
    <2>1. Descent(next, at) \in D /\ VisitRank(next, Descent(next, at)) < VisitRank(next, at)
      BY <1>1, <1>3, VisitProceeds
    <2> HIDE DEF D
    <2> QED
      BY <1>3, <2>1
  <1>4. ASSUME NEW at \in D PROVE [cycle |-> FALSE, done |-> at.done] \in V /\ [cycle |-> TRUE, done |-> at.done] \in V
    BY DEF Visits, Found
  <1>5. ASSUME NEW f \in W, NEW at \in D, at.todo # {} PROVE FoundBelow(next, f, at) \in V
    <2> HIDE DEF D, V, rank
    <2> QED
      BY <1>3, <1>4, <1>5 DEF FoundBelow
  <1> HIDE DEF D, V, M, rank, none
  <1>6. body \in [W -> W]
    <2>1. ASSUME NEW f \in W, NEW at \in D PROVE VisitBody(next, f, at) \in V
      BY <1>2, <1>4, <1>5 DEF VisitBody
    <2> QED
      BY <2>1
  <1>7. ASSUME NEW f \in W, NEW g \in W, NEW at \in D, \A b \in D : rank[b] < rank[at] => f[b] = g[b]
        PROVE  body[f][at] = body[g][at]
    <2>1. CASE at.todo = {}
      BY <2>1 DEF VisitBody
    <2>2. CASE at.todo # {}
      <3>1. FoundBelow(next, f, at) = FoundBelow(next, g, at)
        BY <1>3, <1>7, <2>2 DEF FoundBelow
      <3> DEFINE below == FoundBelow(next, f, at)
      <3>2. below \in V
        BY <1>5, <2>2
      <3>3. f[Remainder(at, below)] = g[Remainder(at, below)]
        <4> HIDE DEF below
        <4> QED
          BY <1>2, <1>7, <2>2, <3>2
      <3>4. VisitBody(next, f, at) = VisitBody(next, g, at)
        BY <2>2, <3>1, <3>3 DEF VisitBody
      <3> QED
        BY <1>7, <3>4
    <2> QED
      BY <2>1, <2>2
  <1>8. PICK f : Solves(D, V, body, f)
    <2>1. body \in [[D -> V] -> [D -> V]]
      BY <1>6
    <2>2. \A f, g \in [D -> V] : \A at \in D :
              (\A b \in D : rank[b] < rank[at] => f[b] = g[b]) => body[f][at] = body[g][at]
      BY <1>7
    <2> HIDE DEF body, W
    <2> QED
      BY <1>1, <2>1, <2>2, Recursively
  <1>9. f \in W /\ body[f] = f
    BY <1>8 DEF Solves
  <1>10. body[f] = [at \in D |-> VisitBody(next, f, at)]
    BY <1>9
  <1> QED
    BY <1>9, <1>10 DEF D

\* HasCycle is a value of that recursion.
LEMMA HasCycleVisits ==
    ASSUME NEW next, IsAdjacency(next)
    PROVE  \E h : /\ \A at \in Visits(next) : h[at] = VisitBody(next, h, at)
                  /\ HasCycle(next) = h[[todo |-> DOMAIN next, path |-> {}, done |-> {}]].cycle
  <1> DEFINE rec(f) ==
          [at \in [todo : SUBSET DOMAIN next, path : SUBSET DOMAIN next, done : SUBSET DOMAIN next] |->
            IF at.todo = {} THEN [cycle |-> FALSE, done |-> at.done]
            ELSE LET n == CHOOSE x \in at.todo : TRUE
                     below == IF n \in at.path THEN [cycle |-> TRUE, done |-> at.done]
                              ELSE IF n \in at.done THEN [cycle |-> FALSE, done |-> at.done]
                              ELSE f[[todo |-> next[n], path |-> at.path \cup {n}, done |-> at.done]]
                 IN IF below.cycle THEN below
                    ELSE f[[todo |-> at.todo \ {n}, path |-> at.path, done |-> below.done \cup {n}]]]
             h == CHOOSE f : f = rec(f)
  <1>1. HasCycle(next) = h[[todo |-> DOMAIN next, path |-> {}, done |-> {}]].cycle
    BY DEF HasCycle
  <1>2. \A f : rec(f) = [at \in Visits(next) |-> VisitBody(next, f, at)]
    BY DEF Visits, VisitBody, FoundBelow, Descent, Remainder, TakenFrom
  <1> HIDE DEF rec
  <1>3. \E f : f = rec(f)
    BY <1>2, VisitExists
  <1>4. h = rec(h)
    BY <1>3
  <1> HIDE DEF h
  <1>5. \A at \in Visits(next) : h[at] = VisitBody(next, h, at)
    <2>1. h = [at \in Visits(next) |-> VisitBody(next, h, at)]
      BY <1>2, <1>4
    <2> QED
      BY <2>1
  <1> QED
    BY <1>1, <1>5

\* S is whole and none of its members leads back to itself.
IsClear(next, S) == IsWhole(next, S) /\ \A n \in S : n \notin AheadOf(next, n)

\* What a visit relies on: what is done is clear and not on the path, and the nodes
\* on the path lead to all that is to do.
VisitSound(next, at) ==
    /\ IsClear(next, at.done) /\ at.done \cap at.path = {}
    /\ \A p \in at.path : at.todo \subseteq AheadOf(next, p)

\* What it finds: a node that leads back to itself, or else all that was to do is
\* done, and what is done is clear and not on the path.
VisitTells(next, at, found) ==
    /\ found \in Found(next)
    /\ found.cycle => \E n \in DOMAIN next : n \in AheadOf(next, n)
    /\ ~found.cycle => /\ at.todo \cup at.done \subseteq found.done
                       /\ IsClear(next, found.done) /\ found.done \cap at.path = {}

\* A node can be added to what is done when all it leads to is done and it is not.
LEMMA ClearGrows ==
    ASSUME NEW next, IsAdjacency(next), NEW S \in SUBSET DOMAIN next, IsClear(next, S),
           NEW n \in DOMAIN next, n \notin S, next[n] \subseteq S
    PROVE  IsClear(next, S \cup {n})
  <1>1. IsWhole(next, S) /\ AheadOf(next, n) \subseteq S
    BY AheadFacts DEF IsClear
  <1>2. IsWhole(next, S \cup {n})
    BY <1>1 DEF IsWhole
  <1> QED
    BY <1>1, <1>2 DEF IsClear

\* The visit below a node keeps to what a visit relies on.
LEMMA DescentSound ==
    ASSUME NEW next, IsAdjacency(next), NEW at \in Visits(next), at.todo # {}, VisitSound(next, at),
           TakenFrom(at.todo) \notin at.path \cup at.done
    PROVE  VisitSound(next, Descent(next, at))
  <1> DEFINE n == TakenFrom(at.todo)
  <1>1. n \in at.todo /\ n \in DOMAIN next
    BY DEF TakenFrom, Visits
  <1>2. /\ Descent(next, at).todo = next[n] /\ Descent(next, at).done = at.done
        /\ Descent(next, at).path = at.path \cup {n}
    BY DEF Descent
  <1>3. ASSUME NEW p \in at.path \cup {n} PROVE next[n] \subseteq AheadOf(next, p)
    <2>1. CASE p = n
      BY <1>1, <2>1, AheadFacts
    <2>2. CASE p # n
      <3>1. p \in DOMAIN next /\ n \in AheadOf(next, p)
        BY <1>1, <1>3, <2>2 DEF VisitSound, Visits
      <3>2. IsWhole(next, AheadOf(next, p))
        BY <3>1, AheadFacts
      <3> QED
        BY <3>1, <3>2 DEF IsWhole
    <2> QED
      BY <2>1, <2>2
  <1>4. at.done \cap (at.path \cup {n}) = {}
    BY DEF VisitSound
  <1> HIDE DEF n
  <1> QED
    BY <1>2, <1>3, <1>4 DEF VisitSound

\* What the visit below a node finds tells of the node as well.
LEMMA BelowTells ==
    ASSUME NEW next, IsAdjacency(next), NEW at \in Visits(next), at.todo # {}, VisitSound(next, at), NEW f,
           TakenFrom(at.todo) \notin at.path \cup at.done =>
               VisitTells(next, Descent(next, at), f[Descent(next, at)])
    PROVE  LET n == TakenFrom(at.todo)
               below == FoundBelow(next, f, at)
           IN  /\ below \in Found(next)
               /\ below.cycle => \E m \in DOMAIN next : m \in AheadOf(next, m)
               /\ ~below.cycle => /\ at.done \subseteq below.done /\ n \notin at.path
                                  /\ IsClear(next, below.done \cup {n})
                                  /\ (below.done \cup {n}) \cap at.path = {}
  <1> DEFINE n == TakenFrom(at.todo)
             below == FoundBelow(next, f, at)
  <1>1. n \in at.todo /\ n \in DOMAIN next /\ at.done \in SUBSET DOMAIN next /\ at.path \in SUBSET DOMAIN next
    BY DEF TakenFrom, Visits
  <1>2. CASE n \in at.path
    <2>1. below = [cycle |-> TRUE, done |-> at.done]
      BY <1>2 DEF FoundBelow
    <2>2. n \in AheadOf(next, n)
      BY <1>1, <1>2 DEF VisitSound
    <2> HIDE DEF n, below
    <2>3. below \in Found(next) /\ below.cycle
      BY <1>1, <2>1 DEF Found
    <2> QED
      BY <1>1, <2>2, <2>3 DEF n, below
  <1>3. CASE n \notin at.path /\ n \in at.done
    <2>1. below = [cycle |-> FALSE, done |-> at.done]
      BY <1>3 DEF FoundBelow
    <2> HIDE DEF n, below
    <2>2. below \in Found(next) /\ ~below.cycle /\ below.done = at.done /\ at.done \cup {n} = at.done
      BY <1>1, <1>3, <2>1 DEF Found
    <2>3. IsClear(next, below.done \cup {n}) /\ (below.done \cup {n}) \cap at.path = {}
      BY <2>2 DEF VisitSound
    <2> QED
      BY <1>3, <2>2, <2>3 DEF n, below
  <1>4. CASE n \notin at.path /\ n \notin at.done
    <2>1. below = f[Descent(next, at)]
      BY <1>4 DEF FoundBelow
    <2>2. VisitTells(next, Descent(next, at), below)
      BY <1>4, <2>1
    <2>3. /\ Descent(next, at).todo = next[n] /\ Descent(next, at).done = at.done
          /\ Descent(next, at).path = at.path \cup {n}
      BY DEF Descent
    <2> HIDE DEF n, below
    <2>4. below \in Found(next) /\ (below.cycle => \E m \in DOMAIN next : m \in AheadOf(next, m))
      BY <2>2 DEF VisitTells
    <2>5. ASSUME ~below.cycle
          PROVE  /\ at.done \subseteq below.done /\ IsClear(next, below.done \cup {n})
                 /\ (below.done \cup {n}) \cap at.path = {}
      <3>1. /\ next[n] \subseteq below.done /\ at.done \subseteq below.done
            /\ IsClear(next, below.done) /\ below.done \cap (at.path \cup {n}) = {}
        BY <2>2, <2>3, <2>5 DEF VisitTells
      <3>2. n \notin below.done /\ below.done \in SUBSET DOMAIN next
        BY <2>4, <3>1 DEF Found
      <3>3. IsClear(next, below.done \cup {n})
        BY <1>1, <3>1, <3>2, ClearGrows
      <3> QED
        BY <1>4, <3>1, <3>3
    <2> QED
      BY <1>4, <2>4, <2>5 DEF n, below
  <1> QED
    BY <1>2, <1>3, <1>4

LEMMA VisitMeans ==
    ASSUME NEW next, IsAdjacency(next),
           NEW h, \A at \in Visits(next) : h[at] = VisitBody(next, h, at)
    PROVE  \A at \in Visits(next) : VisitSound(next, at) => VisitTells(next, at, h[at])
  <1> DEFINE D == Visits(next)
             M == MostLeft(DOMAIN next)
             rank == [at \in D |-> VisitRank(next, at)]
             T == {at \in D : VisitSound(next, at) => VisitTells(next, at, h[at])}
  <1>1. M \in Nat /\ rank \in [D -> 0..M]
    BY VisitRanks
  <1>2. ASSUME NEW at \in D, \A b \in D : rank[b] < rank[at] => b \in T
        PROVE  at \in T
    <2> SUFFICES ASSUME VisitSound(next, at) PROVE VisitTells(next, at, h[at])
      OBVIOUS
    <2>1. h[at] = VisitBody(next, h, at) /\ at.done \in SUBSET DOMAIN next
      BY DEF Visits
    <2>2. CASE at.todo = {}
      <3>1. h[at] = [cycle |-> FALSE, done |-> at.done]
        BY <2>1, <2>2 DEF VisitBody
      <3>2. h[at] \in Found(next) /\ ~h[at].cycle /\ h[at].done = at.done
        BY <2>1, <3>1 DEF Found
      <3> QED
        BY <2>2, <3>2 DEF VisitTells, VisitSound
    <2>3. CASE at.todo # {}
      <3> DEFINE n == TakenFrom(at.todo)
                 down == Descent(next, at)
                 below == FoundBelow(next, h, at)
                 rest == Remainder(at, below)
      <3>1. [cycle |-> FALSE, done |-> {}] \in Found(next)
        BY DEF Found
      <3>2. n \notin at.path => down \in D /\ VisitRank(next, down) < VisitRank(next, at)
        BY <2>3, <3>1, VisitProceeds
      <3>3. n \notin at.path \cup at.done => VisitTells(next, down, h[down])
        <4>1. n \notin at.path \cup at.done => VisitSound(next, down)
          BY <2>3, DescentSound
        <4> HIDE DEF n, down
        <4> QED
          BY <1>2, <3>2, <4>1
      <3>4. /\ below \in Found(next)
            /\ below.cycle => \E m \in DOMAIN next : m \in AheadOf(next, m)
            /\ ~below.cycle => /\ at.done \subseteq below.done /\ n \notin at.path
                               /\ IsClear(next, below.done \cup {n})
                               /\ (below.done \cup {n}) \cap at.path = {}
        BY <2>3, <3>3, BelowTells
      <3>5. h[at] = IF below.cycle THEN below ELSE h[rest]
        BY <2>1, <2>3 DEF VisitBody
      <3>6. n \in at.todo /\ rest \in D /\ VisitRank(next, rest) < VisitRank(next, at)
        BY <2>3, <3>4, VisitProceeds
      <3>7. rest.todo = at.todo \ {n} /\ rest.path = at.path /\ rest.done = below.done \cup {n}
        BY DEF Remainder
      <3> HIDE DEF n, down, below, rest
      <3>8. CASE below.cycle
        BY <3>4, <3>5, <3>8 DEF VisitTells
      <3>9. CASE ~below.cycle
        <4>1. VisitSound(next, rest)
          BY <3>4, <3>7, <3>9 DEF VisitSound
        <4>2. VisitTells(next, rest, h[rest])
          BY <1>2, <3>6, <4>1
        <4>3. h[at] = h[rest]
          BY <3>5, <3>9
        <4>4. ~h[at].cycle => at.todo \cup at.done \subseteq h[at].done
          BY <3>4, <3>7, <3>9, <4>2, <4>3 DEF VisitTells
        <4> QED
          BY <3>7, <4>2, <4>3, <4>4 DEF VisitTells
      <3> QED
        BY <3>8, <3>9
    <2> QED
      BY <2>2, <2>3
  <1>3. D \subseteq T
    <2>1. \A at \in D : (\A b \in D : rank[b] < rank[at] => b \in T) => at \in T
      BY <1>2
    <2> HIDE DEF T, M, rank, D
    <2> QED
      BY <1>1, <2>1, ByRank
  <1> QED
    BY <1>3

\* The depth-first search is exact: it reports a cycle if and only if some node
\* leads back to itself.
LEMMA HasCycleExact ==
    ASSUME NEW next, IsAdjacency(next)
    PROVE  HasCycle(next) <=> \E n \in DOMAIN next : n \in AheadOf(next, n)
  <1> DEFINE start == [todo |-> DOMAIN next, path |-> {}, done |-> {}]
  <1>1. PICK h : /\ \A at \in Visits(next) : h[at] = VisitBody(next, h, at)
                 /\ HasCycle(next) = h[start].cycle
    BY HasCycleVisits
  <1>2. start \in Visits(next) /\ VisitSound(next, start)
    BY DEF Visits, VisitSound, IsClear, IsWhole
  <1>3. VisitTells(next, start, h[start])
    BY <1>1, <1>2, VisitMeans
  <1>4. start.todo = DOMAIN next
    OBVIOUS
  <1> HIDE DEF start
  <1>5. h[start].cycle \in BOOLEAN
    BY <1>3 DEF VisitTells, Found
  <1>6. ASSUME ~h[start].cycle, NEW n \in DOMAIN next PROVE n \notin AheadOf(next, n)
    BY <1>3, <1>4, <1>6 DEF VisitTells, IsClear
  <1> QED
    BY <1>1, <1>3, <1>5, <1>6 DEF VisitTells

-------------------------------------------------------------------------------
(****************************************************************************)
(* The content of a version.                                                *)
(****************************************************************************)
\* Content has its types and does not dangle, and what left the draft has passed
\* the analysis and was not touched since.
ContentInv == ContentTypeOK /\ NothingDangles /\ (stage # "draft" => AnalysisPasses)

LEMMA ContentInitInv == ContentInit => ContentInv
  <1> SUFFICES ASSUME ContentInit PROVE ContentInv
    OBVIOUS
  <1>1. ContentTypeOK
    BY ContentConstants DEF ContentInit, ContentTypeOK, Level
  <1>2. NothingDangles
    BY DEF ContentInit, NothingDangles, Drawn, Present
  <1> QED
    BY <1>1, <1>2 DEF ContentInv, ContentInit

\* The analysis looks at nodes, edges and evidence.
LEMMA AnalysisStays ==
    ASSUME nodes' = nodes, edges' = edges, evidence' = evidence, AnalysisPasses
    PROVE  AnalysisPasses'
  <1>1. Present' = Present /\ Drawn' = Drawn
    BY DEF Present, Drawn
  <1>2. Entries' = Entries /\ Adjacency' = Adjacency
    BY <1>1 DEF Entries, Adjacency
  <1> QED
    BY <1>1, <1>2 DEF AnalysisPasses, EntryIssue, EdgeIssue, CycleIssue, ReachIssue, EvidenceIssue

LEMMA ContentNextInv == ContentInv /\ [ContentNext]_contentVars => ContentInv'
  <1> SUFFICES ASSUME ContentInv, [ContentNext]_contentVars PROVE ContentInv'
    OBVIOUS
  <1> USE ContentConstants
  <1>1. ASSUME NEW n \in Node, NEW shape \in NodeShape, PutNode(n, shape) PROVE ContentInv'
    <2>1. Present' = Present \cup {n} /\ Drawn' = Drawn /\ ContentTypeOK'
      BY <1>1 DEF ContentInv, ContentTypeOK, PutNode, Present, Drawn
    <2>2. NothingDangles'
      BY <1>1, <2>1 DEF ContentInv, NothingDangles, PutNode
    <2> QED
      BY <1>1, <2>1, <2>2 DEF ContentInv, PutNode
  <1>2. ASSUME NEW e \in Edge, NEW from \in Node, NEW to \in Node, PutEdge(e, from, to) PROVE ContentInv'
    <2>1. Present' = Present /\ ContentTypeOK'
      BY <1>2 DEF ContentInv, ContentTypeOK, PutEdge, Present
    <2>2. edges'[e] = <<from, to>> /\ \A d \in Edge \ {e} : edges'[d] = edges[d]
      BY <1>2 DEF ContentInv, ContentTypeOK, PutEdge
    <2>3. ASSUME NEW d \in Drawn' PROVE {edges'[d][1], edges'[d][2]} \subseteq Present
      <3>1. CASE d = e
        BY <1>2, <2>2, <3>1 DEF PutEdge
      <3>2. CASE d # e
        <4>1. d \in Edge /\ edges'[d] = edges[d]
          BY <2>2, <2>3, <3>2 DEF Drawn
        <4>2. d \in Drawn
          BY <2>3, <4>1 DEF Drawn
        <4> QED
          BY <4>1, <4>2 DEF ContentInv, NothingDangles
      <3> QED
        BY <3>1, <3>2
    <2>4. NothingDangles'
      BY <1>2, <2>1, <2>3 DEF ContentInv, NothingDangles, PutEdge
    <2> QED
      BY <1>2, <2>1, <2>4 DEF ContentInv, PutEdge
  <1>3. ASSUME NEW n \in Node, DeleteNode(n) PROVE ContentInv'
    <2>1. Present' = Present \ {n} /\ Drawn' = Drawn /\ ContentTypeOK'
      BY <1>3 DEF ContentInv, ContentTypeOK, DeleteNode, Present, Drawn
    <2>2. \A e \in Drawn : n \notin {edges[e][1], edges[e][2]}
      BY <1>3 DEF DeleteNode, Dependents
    <2>3. \A e \in Drawn : {edges[e][1], edges[e][2]} \subseteq Present \ {n}
      BY <2>2 DEF ContentInv, NothingDangles
    <2>4. NothingDangles'
      BY <1>3, <2>1, <2>3 DEF ContentInv, NothingDangles, DeleteNode
    <2> QED
      BY <1>3, <2>1, <2>4 DEF ContentInv, DeleteNode
  <1>4. ASSUME NEW e \in Edge, DeleteEdge(e) PROVE ContentInv'
    <2>1. Present' = Present /\ ContentTypeOK'
      BY <1>4 DEF ContentInv, ContentTypeOK, DeleteEdge, Present
    <2>2. \A d \in Drawn' : d \in Drawn /\ edges'[d] = edges[d]
      BY <1>4 DEF ContentInv, ContentTypeOK, DeleteEdge, Drawn
    <2>3. \A d \in Drawn' : {edges'[d][1], edges'[d][2]} \subseteq Present
      BY <2>2 DEF ContentInv, NothingDangles
    <2>4. NothingDangles'
      BY <1>4, <2>1, <2>3 DEF ContentInv, NothingDangles, DeleteEdge
    <2> QED
      BY <1>4, <2>1, <2>4 DEF ContentInv, DeleteEdge
  <1>5. ASSUME NEW n \in Node, NEW level \in Level \ {"none"}, PutEvidence(n, level) PROVE ContentInv'
    <2>1. Present' = Present /\ Drawn' = Drawn /\ ContentTypeOK'
      BY <1>5 DEF ContentInv, ContentTypeOK, PutEvidence, Present, Drawn, Level
    <2>2. \A m \in Node : evidence'[m] # "none" => m = n \/ evidence[m] # "none"
      BY <1>5 DEF ContentInv, ContentTypeOK, PutEvidence
    <2>3. NothingDangles'
      BY <1>5, <2>1, <2>2 DEF ContentInv, NothingDangles, PutEvidence
    <2> QED
      BY <1>5, <2>1, <2>3 DEF ContentInv, PutEvidence
  <1>6. ASSUME NEW n \in Node, DeleteEvidence(n) PROVE ContentInv'
    <2>1. Present' = Present /\ Drawn' = Drawn /\ ContentTypeOK'
      BY <1>6 DEF ContentInv, ContentTypeOK, DeleteEvidence, Present, Drawn, Level
    <2>2. \A m \in Node : evidence'[m] # "none" => evidence[m] # "none"
      BY <1>6 DEF ContentInv, ContentTypeOK, DeleteEvidence
    <2>3. NothingDangles'
      BY <1>6, <2>1, <2>2 DEF ContentInv, NothingDangles, DeleteEvidence
    <2> QED
      BY <1>6, <2>1, <2>3 DEF ContentInv, DeleteEvidence
  <1>7. ASSUME nodes' = nodes, edges' = edges, evidence' = evidence, rules' \subseteq Rule,
               stage' \in {"draft", "in_review", "published"}, stage' # "draft" => AnalysisPasses
        PROVE  ContentInv'
    <2>1. Present' = Present /\ Drawn' = Drawn /\ ContentTypeOK'
      BY <1>7 DEF ContentInv, ContentTypeOK, Present, Drawn
    <2>2. NothingDangles'
      BY <1>7, <2>1 DEF ContentInv, NothingDangles
    <2>3. stage' # "draft" => AnalysisPasses'
      BY <1>7, AnalysisStays
    <2> QED
      BY <2>1, <2>2, <2>3 DEF ContentInv
  <1>8. ASSUME NEW r \in Rule, PutRule(r) \/ DeleteRule(r) PROVE ContentInv'
    <2>1. rules' \subseteq Rule /\ stage' = "draft" /\ UNCHANGED <<nodes, edges, evidence>>
      BY <1>8 DEF PutRule, DeleteRule, ContentInv, ContentTypeOK
    <2> QED
      BY <1>7, <2>1
  <1>9. CASE Submit \/ Reject \/ PublishContent \/ CloneChildren
    <2>1. /\ nodes' = nodes /\ edges' = edges /\ evidence' = evidence /\ rules' \subseteq Rule
          /\ stage' \in {"draft", "in_review", "published"}
      BY <1>9 DEF Submit, Reject, PublishContent, CloneChildren, ContentInv, ContentTypeOK
    <2>2. stage' # "draft" => AnalysisPasses
      BY <1>9 DEF Submit, Reject, PublishContent, CloneChildren
    <2> QED
      BY <1>7, <2>1, <2>2
  <1>10. CASE UNCHANGED contentVars
    <2>1. /\ nodes' = nodes /\ edges' = edges /\ evidence' = evidence /\ rules' \subseteq Rule
          /\ stage' \in {"draft", "in_review", "published"} /\ stage' = stage
      BY <1>10 DEF contentVars, ContentInv, ContentTypeOK
    <2> QED
      BY <1>7, <2>1 DEF ContentInv
  <1> QED
    BY <1>1, <1>2, <1>3, <1>4, <1>5, <1>6, <1>8, <1>9, <1>10 DEF ContentNext

LEMMA ContentInvHolds == ContentSpec => []ContentInv
  <1> QED
    BY ContentInitInv, ContentNextInv, PTL DEF ContentSpec

-------------------------------------------------------------------------------
\* The adjacency is a finite graph on the nodes that are there, whose edges are
\* the arrows but for self loops.
LEMMA AdjacencyFacts ==
    ASSUME ContentInv
    PROVE  /\ IsAdjacency(Adjacency) /\ DOMAIN Adjacency = Present /\ Present \subseteq Node
           /\ \A a \in Present : Adjacency[a] = {b \in Present \ {a} : <<a, b>> \in Arrows}
           /\ \A a, b \in Node : <<a, b>> \in Arrows => a \in Present /\ b \in Present
  <1>1. Present \subseteq Node /\ DOMAIN Adjacency = Present
    BY DEF Present, Adjacency
  <1>2. IsFiniteSet(Present)
    BY <1>1, ContentConstants, FS_Subset
  <1>3. \A a \in Present : Adjacency[a] = {b \in Present \ {a} : <<a, b>> \in Arrows}
    BY DEF Adjacency, Arrows
  <1>4. Adjacency \in [Present -> SUBSET Present]
    BY DEF Adjacency
  <1>5. ASSUME NEW a \in Node, NEW b \in Node, <<a, b>> \in Arrows PROVE a \in Present /\ b \in Present
    <2>1. PICK e \in Drawn : edges[e] = <<a, b>>
      BY <1>5 DEF Arrows
    <2>2. {edges[e][1], edges[e][2]} \subseteq Present
      BY DEF ContentInv, NothingDangles
    <2> QED
      BY <2>1, <2>2
  <1> QED
    BY <1>1, <1>2, <1>3, <1>4, <1>5 DEF IsAdjacency

\* S has the targets of all arrows that leave its members.
IsClosed(S) == \A a \in S, b \in Node : <<a, b>> \in Arrows => b \in S

\* What Leads says of two nodes.
LEMMA LeadsFacts ==
    ASSUME ContentInv, NEW a \in Node, NEW c \in Node
    PROVE  <<a, c>> \in Leads <=>
             \A S \in SUBSET Node :
                 IsClosed(S) /\ (\A b \in Node : <<a, b>> \in Arrows => b \in S) => c \in S
  <1>1. \A r \in Arrows : r \in Node \X Node
    BY ContentConstants DEF Arrows, Drawn, ContentInv, ContentTypeOK
  <1>2. ASSUME NEW S \in SUBSET Node
        PROVE  /\ (\A r \in Arrows : r[1] \in S => r[2] \in S) <=> IsClosed(S)
               /\ (\A r \in Arrows : r[1] = a => r[2] \in S) <=> (\A b \in Node : <<a, b>> \in Arrows => b \in S)
    BY <1>1 DEF IsClosed
  <1>3. <<a, c>>[1] = a /\ <<a, c>>[2] = c /\ <<a, c>> \in Node \X Node
    OBVIOUS
  <1>4. <<a, c>> \in Leads <=>
            \A S \in {T \in SUBSET Node : \A r \in Arrows : r[1] \in T => r[2] \in T} :
                (\A r \in Arrows : r[1] = a => r[2] \in S) => c \in S
    BY <1>3 DEF Leads
  <1> QED
    BY <1>2, <1>4

\* A node leads to whatever is ahead of it in the adjacency.
LEMMA AheadLeads ==
    ASSUME ContentInv, NEW a \in Present, NEW c \in AheadOf(Adjacency, a)
    PROVE  <<a, c>> \in Leads
  <1>1. a \in Node /\ c \in Node /\ c \in Present
    BY AdjacencyFacts, AheadFacts
  <1>2. ASSUME NEW S \in SUBSET Node, IsClosed(S), \A b \in Node : <<a, b>> \in Arrows => b \in S
        PROVE  c \in S
    <2> DEFINE P == S \cap Present
    <2>1. IsWhole(Adjacency, P)
      <3>1. ASSUME NEW x \in P, NEW b \in Adjacency[x] PROVE b \in P
        <4>1. b \in Present /\ <<x, b>> \in Arrows /\ b \in Node
          BY <3>1, AdjacencyFacts
        <4> QED
          BY <1>2, <4>1 DEF IsClosed
      <3> QED
        BY <3>1 DEF IsWhole
    <2>2. Adjacency[a] \subseteq P
      BY <1>2, AdjacencyFacts
    <2>3. P \in SUBSET DOMAIN Adjacency
      BY AdjacencyFacts
    <2> HIDE DEF P
    <2>4. c \in P
      BY <2>1, <2>2, <2>3 DEF AheadOf
    <2> QED
      BY <2>4 DEF P
  <1> QED
    BY <1>1, <1>2, LeadsFacts

\* What a node leads to is in every set of nodes that are there which has the
\* targets of its arrows and of those of its members.
LEMMA LeadsWithin ==
    ASSUME ContentInv, NEW a \in Node, NEW c \in Node, <<a, c>> \in Leads, NEW S \in SUBSET Present,
           a \in Present => \A b \in Present : <<a, b>> \in Arrows => b \in S,
           \A x \in S, b \in Present : <<x, b>> \in Arrows => b \in S
    PROVE  c \in S
  <1>1. S \in SUBSET Node
    BY AdjacencyFacts
  <1>2. IsClosed(S)
    <2>1. ASSUME NEW x \in S, NEW b \in Node, <<x, b>> \in Arrows PROVE b \in S
      <3>1. b \in Present
        BY <1>1, <2>1, AdjacencyFacts
      <3> QED
        BY <2>1, <3>1
    <2> QED
      BY <2>1 DEF IsClosed
  <1>3. \A b \in Node : <<a, b>> \in Arrows => b \in S
    BY AdjacencyFacts
  <1> QED
    BY <1>1, <1>2, <1>3, LeadsFacts

\* Conversely a node that leads to another is there and has it ahead.
LEMMA LeadsAhead ==
    ASSUME ContentInv, NEW a \in Node, NEW c \in Node, <<a, c>> \in Leads, a # c
    PROVE  a \in Present /\ c \in AheadOf(Adjacency, a)
  <1>1. CASE a \notin Present
    <2>1. c \in {}
      BY <1>1, LeadsWithin
    <2> QED
      BY <2>1
  <1>2. CASE a \in Present
    <2> DEFINE S == AheadOf(Adjacency, a) \cup {a}
    <2>1. /\ AheadOf(Adjacency, a) \subseteq Present /\ IsWhole(Adjacency, AheadOf(Adjacency, a))
          /\ Adjacency[a] \subseteq AheadOf(Adjacency, a)
      BY <1>2, AdjacencyFacts, AheadFacts
    <2>2. ASSUME NEW x \in S, NEW b \in Present, <<x, b>> \in Arrows PROVE b \in S
      <3>1. CASE x = b
        BY <2>2, <3>1
      <3>2. CASE x # b
        <4>1. x \in Present
          BY <1>2, <2>1, <2>2
        <4>2. b \in Adjacency[x]
          BY <2>2, <3>2, <4>1, AdjacencyFacts
        <4> QED
          BY <2>1, <2>2, <4>2 DEF IsWhole
      <3> QED
        BY <3>1, <3>2
    <2>3. S \in SUBSET Present /\ a \in S
      BY <1>2, <2>1
    <2>4. c \in S
      <3> HIDE DEF S
      <3> QED
        BY <2>2, <2>3, LeadsWithin
    <2> QED
      BY <1>2, <2>4
  <1> QED
    BY <1>1, <1>2

\* A node that leads back to itself does so by another node.
LEMMA CycleHasTwo ==
    ASSUME NEW next, IsAdjacency(next), \A n \in DOMAIN next : n \notin next[n],
           NEW n \in DOMAIN next, n \in AheadOf(next, n)
    PROVE  \E m \in DOMAIN next : m # n /\ m \in AheadOf(next, n) /\ n \in AheadOf(next, m)
  <1> DEFINE S == {m \in AheadOf(next, n) \ {n} : n \notin AheadOf(next, m)}
  <1>1. AheadOf(next, n) \subseteq DOMAIN next /\ next[n] \subseteq AheadOf(next, n)
    BY AheadFacts
  <1>2. ASSUME NEW m \in S, NEW k \in next[m] PROVE k \in S
    <2>1. m \in DOMAIN next /\ m \in AheadOf(next, n) /\ n \notin AheadOf(next, m)
      BY <1>1, <1>2
    <2>2. k \in AheadOf(next, m) /\ AheadOf(next, m) \subseteq AheadOf(next, n)
      BY <1>2, <2>1, AheadFacts
    <2>3. AheadOf(next, k) \subseteq AheadOf(next, m)
      BY <2>1, <2>2, AheadFacts
    <2> QED
      BY <2>1, <2>2, <2>3
  <1>3. ASSUME next[n] \subseteq S PROVE FALSE
    <2>1. IsWhole(next, S) /\ S \in SUBSET DOMAIN next
      BY <1>1, <1>2 DEF IsWhole
    <2>2. AheadOf(next, n) \subseteq S
      <3> HIDE DEF S
      <3> QED
        BY <1>3, <2>1, AheadFacts
    <2> QED
      BY <2>2
  <1>4. PICK m \in next[n] : m \notin S
    BY <1>3
  <1>5. m \in AheadOf(next, n) /\ m # n
    BY <1>1, <1>4
  <1>6. n \in AheadOf(next, m)
    BY <1>4, <1>5
  <1> QED
    BY <1>1, <1>5, <1>6

LEMMA SearchesAgree ==
    ASSUME ContentInv
    PROVE  SearchesExact
  <1>1. IsAdjacency(Adjacency) /\ DOMAIN Adjacency = Present /\ Present \subseteq Node
    BY AdjacencyFacts
  <1>2. \A n \in Present : n \notin Adjacency[n]
    BY AdjacencyFacts
  <1>3. ASSUME HasCycle(Adjacency)
        PROVE  \E n, m \in Present : n # m /\ <<n, m>> \in Leads /\ <<m, n>> \in Leads
    <2>1. PICK n \in Present : n \in AheadOf(Adjacency, n)
      BY <1>1, <1>3, HasCycleExact
    <2>2. PICK m \in Present : m # n /\ m \in AheadOf(Adjacency, n) /\ n \in AheadOf(Adjacency, m)
      BY <1>1, <1>2, <2>1, CycleHasTwo
    <2>3. <<n, m>> \in Leads /\ <<m, n>> \in Leads
      BY <2>2, AheadLeads
    <2> QED
      BY <2>2, <2>3
  <1>4. ASSUME NEW n \in Present, NEW m \in Present, n # m, <<n, m>> \in Leads, <<m, n>> \in Leads
        PROVE  HasCycle(Adjacency)
    <2>1. m \in AheadOf(Adjacency, n) /\ n \in AheadOf(Adjacency, m)
      BY <1>1, <1>4, LeadsAhead
    <2>2. n \in AheadOf(Adjacency, n)
      BY <1>1, <2>1, AheadFacts
    <2> QED
      BY <1>1, <2>1, <2>2, HasCycleExact
  <1>5. ASSUME NEW n \in Present, NEW m \in Present
        PROVE  Reaches(Adjacency, n, m) <=> n = m \/ <<n, m>> \in Leads
    <2>1. Reaches(Adjacency, n, m) <=> n = m \/ m \in AheadOf(Adjacency, n)
      BY <1>1, ReachesExact
    <2>2. m \in AheadOf(Adjacency, n) => <<n, m>> \in Leads
      BY AheadLeads
    <2>3. n # m /\ <<n, m>> \in Leads => m \in AheadOf(Adjacency, n)
      BY <1>1, LeadsAhead
    <2> QED
      BY <2>1, <2>2, <2>3
  <1>6. HasCycle(Adjacency) <=> \E n, m \in Present : n # m /\ <<n, m>> \in Leads /\ <<m, n>> \in Leads
    BY <1>3, <1>4
  <1> QED
    BY <1>5, <1>6 DEF SearchesExact

LEMMA PassedIsSound ==
    ASSUME ContentInv
    PROVE  ReviewedIsSound
  <1> SUFFICES ASSUME stage # "draft" PROVE ReviewedIsSound
    BY DEF ReviewedIsSound
  <1>1. AnalysisPasses /\ IsAdjacency(Adjacency) /\ DOMAIN Adjacency = Present /\ Present \subseteq Node
    BY AdjacencyFacts DEF ContentInv
  <1>2. Entries = {Target}
    <2>1. Cardinality(Entries) = 1 /\ \A n \in Entries : n = Target
      BY <1>1 DEF AnalysisPasses, EntryIssue
    <2>2. IsFiniteSet(Entries)
      BY <1>1, ContentConstants, FS_Subset DEF Entries
    <2>3. Entries # {}
      BY <2>1, FS_EmptySet
    <2> QED
      BY <2>1, <2>3
  <1>3. ASSUME NEW n \in Node PROVE <<n, n>> \notin Leads
    <2> SUFFICES ASSUME <<n, n>> \in Leads PROVE FALSE
      OBVIOUS
    <2>1. \A a, b \in Node : <<a, b>> \in Arrows => a # b
      <3>1. \A e \in Drawn : edges[e][1] # edges[e][2]
        BY <1>1 DEF AnalysisPasses, EdgeIssue
      <3> QED
        BY <3>1 DEF Arrows
    <2>2. CASE n \notin Present
      <3>1. n \in {}
        BY <2>2, LeadsWithin
      <3> QED
        BY <3>1
    <2>3. CASE n \in Present
      <3> DEFINE S == AheadOf(Adjacency, n)
      <3>1. S \subseteq Present /\ IsWhole(Adjacency, S) /\ Adjacency[n] \subseteq S
        BY <1>1, <2>3, AheadFacts
      <3>2. \A x, b \in Present : <<x, b>> \in Arrows => b \in Adjacency[x]
        BY <1>1, <2>1, AdjacencyFacts
      <3> HIDE DEF S
      <3>3. \A x \in S, b \in Present : <<x, b>> \in Arrows => b \in S
        BY <3>1, <3>2 DEF IsWhole
      <3>4. n \in S
        BY <2>3, <3>1, <3>2, <3>3, LeadsWithin
      <3>5. HasCycle(Adjacency)
        BY <1>1, <2>3, <3>4, HasCycleExact DEF S
      <3> QED
        BY <1>1, <3>5 DEF AnalysisPasses, CycleIssue
    <2> QED
      BY <2>2, <2>3
  <1>4. ASSUME NEW n \in Present \ {Target} PROVE <<n, Target>> \in Leads
    <2>1. Cardinality(Entries) = 1
      BY <1>1 DEF AnalysisPasses, EntryIssue
    <2>2. Reaches(Adjacency, n, Target)
      BY <1>1, <1>2, <2>1 DEF AnalysisPasses, ReachIssue
    <2>3. Target \in Present
      BY <1>2 DEF Entries
    <2>4. Target \in AheadOf(Adjacency, n)
      BY <1>1, <2>2, <2>3, ReachesExact
    <2> QED
      BY <2>4, AheadLeads
  <1>5. \A n \in Present : nodes[n].observable => evidence[n] = "required"
    BY <1>1 DEF AnalysisPasses, EvidenceIssue
  <1> QED
    BY <1>2, <1>3, <1>4, <1>5 DEF ReviewedIsSound, Entries

\* Stage, rows and levels of any number of nodes, edges and rules have their types.
THEOREM ContentTypeCorrect == ContentSpec => []ContentTypeOK
  <1>1. ContentInv => ContentTypeOK
    BY DEF ContentInv
  <1> QED
    BY <1>1, ContentInvHolds, PTL

\* In every graph that the commands can draw, the searches of the analysis are exact.
THEOREM SearchesCorrect == ContentSpec => []SearchesExact
  <1>1. ContentInv => SearchesExact
    BY SearchesAgree
  <1> QED
    BY <1>1, ContentInvHolds, PTL

\* No draft dangles, and what is under review or published is sound: without a
\* cycle, with one entry point that every node leads to, and with the evidence
\* that observable nodes require.
THEOREM DraftsAreSound == ContentSpec => []DraftIsSound
  <1>1. ContentInv => DraftIsSound
    BY SearchesAgree, PassedIsSound DEF ContentInv, DraftIsSound
  <1> QED
    BY <1>1, ContentInvHolds, PTL
===============================================================================
