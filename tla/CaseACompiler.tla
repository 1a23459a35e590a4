----------------------------- MODULE CaseACompiler ----------------------------
(****************************************************************************)
(* The deterministic compiler of the Case A blueprints.  The identity of a  *)
(* compile record is its input, so that the same request finds the same     *)
(* record: a success makes its blueprint version the current one again, a   *)
(* failure is final.  A dry run records its draft and writes no blueprint.  *)
(*                                                                          *)
(* A compilation is one transaction under READ COMMITTED.  The insertion of *)
(* its record waits for a transaction with the same input; the others run   *)
(* side by side, and supersede the compiled versions they can see before a  *)
(* unique index checks that there is one.                                   *)
(****************************************************************************)
EXTENDS FiniteSets

CONSTANTS
    Snapshot,   \* snapshots of one causal model
    Config,     \* compiler configurations
    Compiler,   \* transactions
    NoInput

CompileInput == [snapshot : Snapshot, config : Config, dry : BOOLEAN]

ASSUME CompilerConstants == NoInput \notin CompileInput

VARIABLES
    passed,         \* snapshots with a passed validation run
    registered,     \* the step type handlers are registered
    compileRecords, \* committed records: "none", "success" or "failed" of each input
    current,        \* inputs whose blueprint version is compiled
    persisted,      \* inputs whose blueprint version exists
    compiling       \* [input, pc, seen] of each transaction

compilerVars == <<passed, registered, compileRecords, current, persisted, compiling>>

NotCompiling == [input |-> NoInput, pc |-> "off", seen |-> {}]

CompilerInit ==
    /\ passed \in SUBSET Snapshot /\ registered \in BOOLEAN
    /\ compileRecords = [i \in CompileInput |-> "none"]
    /\ current = {} /\ persisted = {}
    /\ compiling = [t \in Compiler |-> NotCompiling]

\* The bootstrap registers the handlers; a validation run passes.
SeedStepTypes ==
    /\ registered' = TRUE
    /\ UNCHANGED <<passed, compileRecords, current, persisted, compiling>>

ValidationPasses(s) ==
    /\ passed' = passed \cup {s}
    /\ UNCHANGED <<registered, compileRecords, current, persisted, compiling>>

Off(t) == compiling' = [compiling EXCEPT ![t] = NotCompiling]

\* The record is inserted, or the one that is there is read; then the source.
InsertRecord(t, i) ==
    /\ compiling[t] = NotCompiling
    /\ \A u \in Compiler : compiling[u].input # i
    /\ compileRecords[i] # "failed"
    /\ IF compileRecords[i] = "success" /\ i.dry THEN UNCHANGED compiling
       ELSE compiling' = [compiling EXCEPT ![t] = [input |-> i, seen |-> {}, pc |->
                IF compileRecords[i] = "success" THEN "replay"
                ELSE IF i.snapshot \in passed /\ registered THEN "compile" ELSE "fail"]]
    /\ UNCHANGED <<passed, registered, compileRecords, current, persisted>>

\* A failure is committed with its record.
CommitFailure(t) ==
    /\ compiling[t].pc = "fail"
    /\ compileRecords' = [compileRecords EXCEPT ![compiling[t].input] = "failed"]
    /\ Off(t)
    /\ UNCHANGED <<passed, registered, current, persisted>>

CommitDryRun(t) ==
    /\ compiling[t].pc = "compile" /\ compiling[t].input.dry
    /\ compileRecords' = [compileRecords EXCEPT ![compiling[t].input] = "success"]
    /\ Off(t)
    /\ UNCHANGED <<passed, registered, current, persisted>>

\* The update that supersedes whatever else is compiled and committed now.
SupersedeCurrent(t) ==
    /\ compiling[t].pc \in {"compile", "replay"} /\ ~compiling[t].input.dry
    /\ compiling' = [compiling EXCEPT ![t].pc = "write", ![t].seen = current \ {compiling[t].input}]
    /\ UNCHANGED <<passed, registered, compileRecords, current, persisted>>

\* Mutant: the index is not unique.
AnyCompiled(versions) == versions # {}

\* The unique index on the compiled version of a blueprint.
OneCompiled(versions) == Cardinality(versions) = 1

\* The version becomes compiled, unless the index finds another one that was
\* committed after the update; then everything is rolled back.
PersistBlueprint(t) ==
    LET i == compiling[t].input
        left == (current \ compiling[t].seen) \cup {i}
    IN /\ compiling[t].pc = "write"
       /\ IF OneCompiled(left)
          THEN /\ current' = left /\ persisted' = persisted \cup {i}
               /\ compileRecords' = [compileRecords EXCEPT ![i] = "success"]
          ELSE UNCHANGED <<current, persisted, compileRecords>>
       /\ Off(t)
       /\ UNCHANGED <<passed, registered>>

\* The connection is lost, or the database raises another error.
CompilerAborts(t) ==
    /\ compiling[t] # NotCompiling
    /\ Off(t)
    /\ UNCHANGED <<passed, registered, compileRecords, current, persisted>>

CompilerNext ==
    \/ SeedStepTypes
    \/ \E s \in Snapshot : ValidationPasses(s)
    \/ \E t \in Compiler :
          \/ \E i \in CompileInput : InsertRecord(t, i)
          \/ CommitFailure(t) \/ CommitDryRun(t) \/ SupersedeCurrent(t) \/ PersistBlueprint(t)
          \/ CompilerAborts(t)

CompilerSpec == CompilerInit /\ [][CompilerNext]_compilerVars

-------------------------------------------------------------------------------
CompilerTypeOK ==
    /\ passed \subseteq Snapshot /\ registered \in BOOLEAN
    /\ compileRecords \in [CompileInput -> {"none", "success", "failed"}]
    /\ current \subseteq CompileInput /\ persisted \subseteq CompileInput
    /\ compiling \in [Compiler -> [input : CompileInput \cup {NoInput}, seen : SUBSET CompileInput,
                                   pc : {"off", "compile", "replay", "fail", "write"}]]

\* The records and the blueprint tell one story, however compilations, replays
\* and aborts are interleaved: a version exists exactly when its record is a
\* success that was no dry run, one of them is current as soon as there is one,
\* and never two.
CompiledAsRecorded ==
    /\ persisted = {i \in CompileInput : compileRecords[i] = "success" /\ ~i.dry}
    /\ current \subseteq persisted
    /\ persisted # {} => Cardinality(current) = 1
    /\ \A i \in CompileInput : compileRecords[i] = "success" => i.snapshot \in passed
===============================================================================
