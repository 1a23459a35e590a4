----------------------------- MODULE FileDatasets -----------------------------
(****************************************************************************)
(* Scenario datasets that are uploaded as files: a package is validated,    *)
(* written to the directory of its content hash and recorded as staged; the *)
(* latest staged revision is published, which imports its entities and      *)
(* relations; and a diagnosis that pins a published revision acquires its   *)
(* observations from the files.                                             *)
(*                                                                          *)
(* The database is transactional, the directory is not: the files are       *)
(* written in place before the transaction, a reader may meet a file that   *)
(* is being written, and a crash leaves it as it is.                        *)
(****************************************************************************)
EXTENDS FiniteSets

CONSTANTS
    Package,        \* uploads, named by their content hash
    ValidPackage,   \* packages with a sound manifest and a usable row
    Uploader,       \* requests that stage
    PublishRequest, \* requests that publish
    Acquirer,       \* acquisitions of one observation, with a pinned revision
    NoPackage

ASSUME FileConstants == ValidPackage \subseteq Package /\ NoPackage \notin Package

VARIABLES
    disk,       \* the directory of each package: "absent", "torn" or "whole"
    dataset,    \* file_datasets: [staged, published], hashes or NoPackage
    revisions,  \* file_dataset_revisions: status of each package
    imported,   \* packages of which all rows were imported by a publication
    staging,    \* [pc, package] of each uploader
    releasing,  \* the hash each publication has read, or NoPackage
    acquiring   \* [pc, pin, seen] of each acquirer

fileVars == <<disk, dataset, revisions, imported, staging, releasing, acquiring>>

NotStaging == [pc |-> "off", package |-> NoPackage]
NotAcquiring == [pc |-> "off", pin |-> NoPackage, seen |-> "none"]

FilesInit ==
    /\ disk = [p \in Package |-> "absent"]
    /\ dataset = [staged |-> NoPackage, published |-> NoPackage]
    /\ revisions = [p \in Package |-> "none"]
    /\ imported = {}
    /\ staging = [u \in Uploader |-> NotStaging]
    /\ releasing = [r \in PublishRequest |-> NoPackage]
    /\ acquiring = [q \in Acquirer |-> NotAcquiring]

-------------------------------------------------------------------------------
\* Limits, manifest and rows are checked before anything is written; then the
\* first file is truncated, also in a directory that is there already.
BeginStaging(u, p) ==
    /\ staging[u] = NotStaging /\ p \in ValidPackage
    /\ staging' = [staging EXCEPT ![u] = [pc |-> "write", package |-> p]]
    /\ disk' = [disk EXCEPT ![p] = "torn"]
    /\ UNCHANGED <<dataset, revisions, imported, releasing, acquiring>>

FinishWriting(u) ==
    /\ staging[u].pc = "write"
    /\ staging' = [staging EXCEPT ![u].pc = "commit"]
    /\ disk' = [disk EXCEPT ![staging[u].package] =
           IF \E v \in Uploader \ {u} : staging[v] = staging[u] THEN "torn" ELSE "whole"]
    /\ UNCHANGED <<dataset, revisions, imported, releasing, acquiring>>

\* Mutant: an upload always stages.
CommitStagingAgain(u) ==
    /\ staging[u].pc = "commit"
    /\ dataset' = [dataset EXCEPT !.staged = staging[u].package]
    /\ revisions' = [revisions EXCEPT ![staging[u].package] = "staged"]
    /\ staging' = [staging EXCEPT ![u] = NotStaging]
    /\ UNCHANGED <<disk, imported, releasing, acquiring>>

\* The revision that is there keeps its status, published or not.
CommitStaging(u) ==
    LET p == staging[u].package
    IN /\ staging[u].pc = "commit"
       /\ dataset' = [dataset EXCEPT !.staged = p]
       /\ revisions' = [revisions EXCEPT ![p] = IF @ = "none" THEN "staged" ELSE @]
       /\ staging' = [staging EXCEPT ![u] = NotStaging]
       /\ UNCHANGED <<disk, imported, releasing, acquiring>>

UploaderLost(u) ==
    /\ staging[u] # NotStaging
    /\ staging' = [staging EXCEPT ![u] = NotStaging]
    /\ UNCHANGED <<disk, dataset, revisions, imported, releasing, acquiring>>

-------------------------------------------------------------------------------
\* The latest staged hash is read in a transaction of its own.
BeginPublish(r) ==
    /\ releasing[r] = NoPackage /\ dataset.staged # NoPackage
    /\ releasing' = [releasing EXCEPT ![r] = dataset.staged]
    /\ UNCHANGED <<disk, dataset, revisions, imported, staging, acquiring>>

\* The files are read as they are, without a look at their hashes; rows that do
\* not fit are skipped, and so are those that a torn file lacks.
PublishDataset(r) ==
    LET p == releasing[r]
    IN /\ p # NoPackage
       /\ imported' = imported \cup (IF disk[p] = "whole" THEN {p} ELSE {})
       /\ revisions' = [revisions EXCEPT ![p] = "published"]
       /\ dataset' = [dataset EXCEPT !.published = p]
       /\ releasing' = [releasing EXCEPT ![r] = NoPackage]
       /\ UNCHANGED <<disk, staging, acquiring>>

\* The shared catalog refuses a row, or the connection is lost.
PublishAborts(r) ==
    /\ releasing[r] # NoPackage
    /\ releasing' = [releasing EXCEPT ![r] = NoPackage]
    /\ UNCHANGED <<disk, dataset, revisions, imported, staging, acquiring>>

-------------------------------------------------------------------------------
\* A run has pinned what was published when it was prepared; the revision is
\* looked up by its hash, whatever is the latest one now.
PinDataset(q) ==
    /\ acquiring[q] = NotAcquiring /\ dataset.published # NoPackage
    /\ acquiring' = [acquiring EXCEPT ![q] = [pc |-> "acquire", pin |-> dataset.published, seen |-> "none"]]
    /\ UNCHANGED <<disk, dataset, revisions, imported, staging, releasing>>

\* The file must have the hash that was recorded when it was staged; anything
\* else is an error of the infrastructure, after which the connector tries again.
AcquireObservation(q) ==
    LET p == acquiring[q].pin
    IN /\ acquiring[q].pc = "acquire"
       /\ acquiring' = [acquiring EXCEPT
              ![q].seen = disk[p],
              ![q].pc = IF revisions[p] = "published" /\ disk[p] = "whole" THEN "answered" ELSE @]
       /\ UNCHANGED <<disk, dataset, revisions, imported, staging, releasing>>

\* A requirement that no provider maps is answered DATA_UNAVAILABLE from the
\* manifest alone.
AnswerUnavailable(q) ==
    /\ acquiring[q].pc = "acquire" /\ revisions[acquiring[q].pin] = "published"
    /\ acquiring' = [acquiring EXCEPT ![q].pc = "unavailable"]
    /\ UNCHANGED <<disk, dataset, revisions, imported, staging, releasing>>

EndAcquisition(q) ==
    /\ acquiring[q] # NotAcquiring
    /\ acquiring' = [acquiring EXCEPT ![q] = NotAcquiring]
    /\ UNCHANGED <<disk, dataset, revisions, imported, staging, releasing>>

FilesNext ==
    \/ \E u \in Uploader : (\E p \in Package : BeginStaging(u, p)) \/ FinishWriting(u) \/ CommitStaging(u)
                              \/ UploaderLost(u)
    \/ \E r \in PublishRequest : BeginPublish(r) \/ PublishDataset(r) \/ PublishAborts(r)
    \/ \E q \in Acquirer : PinDataset(q) \/ AcquireObservation(q) \/ AnswerUnavailable(q)
                              \/ EndAcquisition(q)

FilesSpec == FilesInit /\ [][FilesNext]_fileVars

-------------------------------------------------------------------------------
\* Each field holds a value of its set.
FilesTypeOK ==
    /\ disk \in [Package -> {"absent", "torn", "whole"}]
    /\ dataset \in [staged : Package \cup {NoPackage}, published : Package \cup {NoPackage}]
    /\ revisions \in [Package -> {"none", "staged", "published"}] /\ imported \subseteq Package
    /\ \A q \in Acquirer : acquiring[q].seen \in {"none", "torn", "whole"}

\* The revision that a diagnosis has pinned stays published and acquirable for as
\* long as it is used, also while the same package is uploaded again or others
\* are staged and published, and an observation is never computed from a file
\* that an upload is still writing or that a lost upload has left torn.
PinnedIsServedWhole ==
    /\ dataset.published # NoPackage => revisions[dataset.published] = "published"
    /\ \A q \in Acquirer : acquiring[q] # NotAcquiring =>
           /\ revisions[acquiring[q].pin] = "published"
           /\ acquiring[q].pc = "answered" => acquiring[q].seen = "whole"
===============================================================================
