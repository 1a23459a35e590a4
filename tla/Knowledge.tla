------------------------------- MODULE Knowledge -------------------------------
(****************************************************************************)
(* Knowledge bases: documents are uploaded, split into chunks and embedded, *)
(* and indexed again, one by one or a whole base at a time; a search is     *)
(* routed to bases and answered within what its role may read.              *)
(*                                                                          *)
(* The chunks that one pass over one document writes are a batch; they are  *)
(* inserted in one transaction, embedded in a second one and deleted        *)
(* together.  A request is a job that can fail where a provider is called,  *)
(* and stop between any two of its transactions.                            *)
(****************************************************************************)
EXTENDS Naturals, FiniteSets

CONSTANTS
    Document,   \* documents by their id, which are never used again
    Base,       \* knowledge bases
    BaseOf,     \* the base each document is uploaded to
    Text,       \* the content hash of each document
    Domain,     \* data domains
    Indexer,    \* requests that upload or index again
    Searcher,   \* searches of one role
    Batch,      \* names of batches, numbers; as many as are in use at one time
    NoDomain, NoBase, NoDocument

ASSUME KnowledgeConstants ==
    /\ BaseOf \in [Document -> Base] /\ NoDomain \notin Domain /\ NoBase \notin Base /\ NoDocument \notin Document
    /\ Batch \subseteq Nat \ {0} /\ IsFiniteSet(Batch)

VARIABLES
    bases,      \* [there, domain, located] of each base; located: its summary is embedded
    documents,  \* "none", "active", "disabled" or "deleted"
    chunks,     \* the batches that are there: set of [batch, doc, embedded]
    jobs,       \* [pc, kind, base, doc, batch, todo, listed, old] of each indexer
    role,       \* [admin, granted, bases] of the role that searches; bases: those that admit it
    searches    \* [pc, bases, domains, gate, found] of each search

knowledgeVars == <<bases, documents, chunks, jobs, role, searches>>
indexVars == <<bases, documents, chunks>>

Idle == [pc |-> "off", kind |-> "none", base |-> NoBase, doc |-> NoDocument, batch |-> 0,
         todo |-> {}, listed |-> {}, old |-> {}]
NotSearching == [pc |-> "off", bases |-> {}, domains |-> {}, gate |-> {}, found |-> {}]

KnowledgeInit ==
    /\ bases \in [Base -> [there : {TRUE}, domain : Domain \cup {NoDomain}, located : BOOLEAN]]
    /\ documents = [d \in Document |-> "none"]
    /\ chunks = {}
    /\ jobs = [j \in Indexer |-> Idle]
    /\ role \in [admin : BOOLEAN, granted : {{}}, bases : SUBSET Base]
    /\ searches = [s \in Searcher |-> NotSearching]

Present(d) == documents[d] \in {"active", "disabled"}
BatchesOf(ds) == {c.batch : c \in {x \in chunks : x.doc \in ds}}
Without(bs) == {c \in chunks : c.batch \notin bs}
DocumentsOf(b) == {d \in Document : BaseOf[d] = b /\ Present(d)}

\* A name that nothing in the system mentions.
Fresh(b) ==
    /\ \A c \in chunks : c.batch # b
    /\ \A j \in Indexer : b \notin jobs[j].old \cup {jobs[j].batch}

\* A document that the vector lane ranks.
Indexed(d) == \E c \in chunks : c.doc = d /\ c.embedded

-------------------------------------------------------------------------------
(* Indexing                                                                 *)

\* A content that the base has already is answered "unchanged", whether its
\* document was ever indexed or not.
BeginUpload(j, d) ==
    /\ jobs[j] = Idle /\ documents[d] = "none" /\ \A k \in Indexer : jobs[k].doc # d
    /\ ~ \E e \in DocumentsOf(BaseOf[d]) : Text[e] = Text[d]
    /\ jobs' = [jobs EXCEPT ![j] = [Idle EXCEPT !.pc = "create", !.kind = "upload", !.doc = d]]
    /\ UNCHANGED <<indexVars, role, searches>>

\* The insert needs its base, which may have been deleted meanwhile.
CreateDocument(j) ==
    LET d == jobs[j].doc
    IN /\ jobs[j].pc = "create"
       /\ \/ /\ bases[BaseOf[d]].there
             /\ documents' = [documents EXCEPT ![d] = "active"]
             /\ jobs' = [jobs EXCEPT ![j].pc = "chunk", ![j].todo = {d}]
          \/ /\ ~bases[BaseOf[d]].there
             /\ jobs' = [jobs EXCEPT ![j] = Idle]
             /\ UNCHANGED documents
       /\ UNCHANGED <<bases, chunks, role, searches>>

\* One document: it and its chunks are read in one transaction.
BeginReindex(j, d) ==
    /\ jobs[j] = Idle /\ Present(d)
    /\ jobs' = [jobs EXCEPT ![j] = [Idle EXCEPT
           !.pc = "chunk", !.kind = "document", !.todo = {d}, !.old = BatchesOf({d})]]
    /\ UNCHANGED <<indexVars, role, searches>>

\* A base: its documents are listed by one statement and their chunks by the
\* next, which sees what was committed in between.
BeginReindexBase(j, b) ==
    /\ jobs[j] = Idle /\ bases[b].there
    /\ jobs' = [jobs EXCEPT ![j] = [Idle EXCEPT
           !.pc = "list", !.kind = "base", !.base = b, !.todo = DocumentsOf(b), !.listed = DocumentsOf(b)]]
    /\ UNCHANGED <<indexVars, role, searches>>

ListChunks(j, b) ==
    /\ jobs[j].pc = "list" /\ jobs[j].base = b
    /\ jobs' = [jobs EXCEPT ![j].pc = "chunk", ![j].old = BatchesOf(DocumentsOf(b))]
    /\ UNCHANGED <<indexVars, role, searches>>

\* The document is looked up and its chunks are inserted; if it is gone, the
\* request fails, and the batches it has written for others stay.
CreateChunks(j, d) ==
    /\ jobs[j].pc = "chunk" /\ d \in jobs[j].todo
    /\ \/ /\ Present(d) /\ \E b \in Batch : Fresh(b)
          /\ LET b == CHOOSE x \in Batch : Fresh(x)
             IN /\ chunks' = chunks \cup {[batch |-> b, doc |-> d, embedded |-> FALSE]}
                /\ jobs' = [jobs EXCEPT ![j].pc = "embed", ![j].doc = d, ![j].batch = b]
       \/ /\ ~Present(d)
          /\ jobs' = [jobs EXCEPT ![j] = Idle]
          /\ UNCHANGED chunks
    /\ UNCHANGED <<bases, documents, role, searches>>

\* Chunks that another request has deleted are passed over without an error.
Embed(j) ==
    LET job == jobs[j]
    IN /\ job.pc = "embed"
       /\ chunks' = {[c EXCEPT !.embedded = @ \/ c.batch = job.batch] : c \in chunks}
       /\ jobs' = [jobs EXCEPT ![j] = IF job.kind = "upload" THEN Idle
              ELSE [job EXCEPT !.pc = "chunk", !.todo = @ \ {job.doc}, !.doc = NoDocument, !.batch = 0]]
       /\ UNCHANGED <<bases, documents, role, searches>>

\* Mutant: the old chunks are dropped whatever became of the new ones.
EmbedFailsOpen(j) ==
    /\ jobs[j].pc = "embed"
    /\ jobs' = [jobs EXCEPT ![j] = [@ EXCEPT !.pc = "chunk", !.todo = {}]]
    /\ UNCHANGED <<indexVars, role, searches>>

\* An upload leaves its document and the chunks without embeddings.
EmbedFails(j) ==
    /\ jobs[j].pc = "embed"
    /\ jobs' = [jobs EXCEPT ![j] = IF @.kind = "upload" THEN Idle ELSE [@ EXCEPT !.pc = "undo"]]
    /\ UNCHANGED <<indexVars, role, searches>>

\* The new chunks of the document that failed are deleted; in a base, those of
\* the documents before it stay beside the old ones.
Undo(j) ==
    /\ jobs[j].pc = "undo"
    /\ chunks' = Without({jobs[j].batch})
    /\ jobs' = [jobs EXCEPT ![j] = Idle]
    /\ UNCHANGED <<bases, documents, role, searches>>

\* All new chunks are embedded: the old ones go.
DropOld(j) ==
    /\ jobs[j].pc = "chunk" /\ jobs[j].todo = {}
    /\ chunks' = Without(jobs[j].old)
    /\ jobs' = [jobs EXCEPT ![j] = Idle]
    /\ UNCHANGED <<bases, documents, role, searches>>

IndexerLost(j) ==
    /\ jobs[j] # Idle
    /\ jobs' = [jobs EXCEPT ![j] = Idle]
    /\ UNCHANGED <<indexVars, role, searches>>

-------------------------------------------------------------------------------
(* Administration                                                           *)

DeleteDocument(d) ==
    /\ Present(d)
    /\ documents' = [documents EXCEPT ![d] = "deleted"]
    /\ chunks' = Without(BatchesOf({d}))
    /\ UNCHANGED <<bases, jobs, role, searches>>

SetStatus(d) ==
    /\ Present(d)
    /\ documents' = [documents EXCEPT ![d] = IF @ = "active" THEN "disabled" ELSE "active"]
    /\ UNCHANGED <<bases, chunks, jobs, role, searches>>

DeleteBase(b) ==
    /\ bases[b].there
    /\ chunks' = Without(BatchesOf(DocumentsOf(b)))
    /\ documents' = [d \in Document |-> IF d \in DocumentsOf(b) THEN "deleted" ELSE documents[d]]
    /\ bases' = [bases EXCEPT ![b].there = FALSE]
    /\ UNCHANGED <<jobs, role, searches>>

\* A base moves to a domain; its summary is embedded again, as it also is after
\* uploads, unless the provider fails, and then keeps what it had.
UpdateBase(b, dm) ==
    /\ bases[b].there /\ bases[b].domain # dm
    /\ bases' = [bases EXCEPT ![b].domain = dm]
    /\ UNCHANGED <<documents, chunks, jobs, role, searches>>

GrantDomains(g) ==
    /\ role.granted # g
    /\ role' = [role EXCEPT !.granted = g]
    /\ UNCHANGED <<indexVars, jobs, searches>>

-------------------------------------------------------------------------------
(* Search                                                                   *)

RoleDomainAccess(requested) == IF role.admin THEN requested ELSE requested \cap role.granted

\* No scope: the domains that the keywords or the vectors propose and the role
\* may see; the bases in them that admit the role and have a summary; or else all
\* that do.
Located(domains) == {b \in role.bases : bases[b].there /\ bases[b].located /\ bases[b].domain \in domains}

RouteQuery(s, proposed) ==
    LET candidates == RoleDomainAccess(proposed)
        located == Located(candidates)
        anywhere == Located(IF role.admin THEN Domain \cup {NoDomain} ELSE role.granted)
    IN /\ searches[s] = NotSearching
       /\ searches' = [searches EXCEPT ![s] = [NotSearching EXCEPT
              !.pc = "gate", !.domains = candidates, !.bases = IF located # {} THEN located ELSE anywhere]]
       /\ UNCHANGED <<indexVars, jobs, role>>

\* The client names bases or domains, and nothing is routed.
ExplicitScope(s, bs, ds) ==
    /\ searches[s] = NotSearching
    /\ searches' = [searches EXCEPT ![s] = [NotSearching EXCEPT !.pc = "gate", !.bases = bs, !.domains = ds]]
    /\ UNCHANGED <<indexVars, jobs, role>>

\* The domains of the role are read again, in a transaction before the lanes.
RoleScope(s) ==
    /\ searches[s].pc = "gate"
    /\ searches' = [searches EXCEPT ![s].pc = "lanes",
           ![s].gate = IF role.admin THEN Domain \cup {NoDomain} ELSE role.granted]
    /\ UNCHANGED <<indexVars, jobs, role>>

\* The bases in scope, or else the domains (and bases without one), or else all;
\* always within the domains of the role and the bases that admit it.
Conditions(q, d) ==
    LET b == BaseOf[d]
    IN /\ documents[d] = "active" /\ BatchesOf({d}) # {}
       /\ b \in role.bases
       /\ \/ b \in q.bases
          \/ q.bases = {} /\ (q.domains = {} \/ bases[b].domain \in q.domains \cup {NoDomain})
       /\ bases[b].domain \in q.gate

\* Of the documents that match the client's metadata filters.
Search(s, matching) ==
    /\ searches[s].pc = "lanes"
    /\ searches' = [searches EXCEPT ![s].pc = "answered",
           ![s].found = {<<d, bases[BaseOf[d]].domain>> : d \in {x \in matching : Conditions(searches[s], x)}}]
    /\ UNCHANGED <<indexVars, jobs, role>>

EndSearch(s) ==
    /\ searches[s].pc = "answered"
    /\ searches' = [searches EXCEPT ![s] = NotSearching]
    /\ UNCHANGED <<indexVars, jobs, role>>

IndexNext ==
    \/ \E j \in Indexer :
          \/ \E d \in Document : BeginUpload(j, d) \/ BeginReindex(j, d) \/ CreateChunks(j, d)
          \/ \E b \in Base : BeginReindexBase(j, b) \/ ListChunks(j, b)
          \/ CreateDocument(j) \/ Embed(j) \/ EmbedFails(j) \/ Undo(j) \/ DropOld(j) \/ IndexerLost(j)
    \/ \E d \in Document : DeleteDocument(d)
    \/ \E b \in Base : DeleteBase(b)

SearchNext ==
    \/ \E s \in Searcher :
          \/ \E ds \in SUBSET Domain : RouteQuery(s, ds) \/ ExplicitScope(s, {}, ds)
          \/ \E bs \in SUBSET Base : ExplicitScope(s, bs, {})
          \/ \E matching \in SUBSET Document : Search(s, matching)
          \/ RoleScope(s) \/ EndSearch(s)
    \/ \E d \in Document : SetStatus(d)
    \/ \E b \in Base, dm \in Domain : UpdateBase(b, dm)
    \/ \E g \in SUBSET Domain : GrantDomains(g)

KnowledgeNext == IndexNext \/ SearchNext
KnowledgeSpec == KnowledgeInit /\ [][KnowledgeNext]_knowledgeVars

-------------------------------------------------------------------------------
\* Each field holds a value of its set.
KnowledgeTypeOK ==
    /\ bases \in [Base -> [there : BOOLEAN, domain : Domain \cup {NoDomain}, located : BOOLEAN]]
    /\ documents \in [Document -> {"none", "active", "disabled", "deleted"}]
    /\ chunks \subseteq [batch : Batch, doc : Document, embedded : BOOLEAN]
    /\ role \in [admin : BOOLEAN, granted : SUBSET Domain, bases : SUBSET Base]

\* reindex_kb and reindex_document keep the index: a document that search can
\* rank stays so, however many requests index it at the same time, fail at its
\* embeddings or are lost, until it is deleted itself.  The exception is a
\* document that came into a base while the base was listed.
IndexKept ==
    [][\A d \in Document : Indexed(d) /\ ~Indexed(d)' =>
          \/ ~Present(d)'
          \/ \E j \in Indexer : jobs[j].kind = "base" /\ jobs'[j] = Idle /\ d \notin jobs[j].listed]_knowledgeVars

\* What a search returns lies in the domains that its role had when they were
\* read and in bases that admit the role, however the search was scoped or routed
\* and although bases move.
FoundIsReadable ==
    \A s \in Searcher : \A x \in searches[s].found :
        x[2] \in searches[s].gate /\ BaseOf[x[1]] \in role.bases

\* What was indexed is kept until it is replaced, and nothing else is found.
KnowledgeIsKept == IndexKept /\ []FoundIsReadable
===============================================================================
