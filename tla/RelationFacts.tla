----------------------------- MODULE RelationFacts -----------------------------
(****************************************************************************)
(* One relation type, the requests to edit which entity types it may join,  *)
(* and the facts that are imported under it at the same time.  An import    *)
(* reads types, relation and entities once, checks the rows of its file     *)
(* against what it read, and then writes row by row, each in a transaction  *)
(* of its own.  A dry run does the same and writes nothing.                 *)
(*                                                                          *)
(* An edit that narrows the relation is refused while an active fact lies   *)
(* outside of it; that is checked when the edit is submitted and again when *)
(* it is approved, by a statement before the one that narrows.  An entity   *)
(* is known by its type and code.  Who may review, and the requests for the *)
(* other changes of a type, are in TBoxGovernance.                          *)
(****************************************************************************)
EXTENDS Naturals, Sequences, FiniteSets

CONSTANTS
    ObjectType,     \* entity types that instances are imported of
    OtherType,      \* metrics and concepts, which are not imported
    Code,           \* business codes
    File,           \* files: [rows: sequence of <<type, code>>, facts: set of <<code, code>>]
    RelationEdit,   \* requests to edit the relation type
    Reviewer,       \* approvals that may run at one time
    Importer,       \* imports that may run at one time
    NoType, NoFacts, NoRequest

ASSUME RelationConstants ==
    /\ NoType \notin ObjectType \cup OtherType
    /\ \A f \in File : f.rows \in Seq((ObjectType \cup OtherType) \X Code) /\ f.facts \subseteq Code \X Code

EntityKey == ObjectType \X Code

VARIABLES
    relation,   \* [status, source, target]: the sets of types it joins
    relationEdits,  \* [status, source, target] of each request; {} for a side it leaves alone
    approving,  \* [pc, edit, source, target] of each reviewer; {} for a side it will not write
    abox,      \* active entities
    stated,     \* active facts: set of <<source, target>>
    importing,  \* [pc, file, sees, codes, todo, accepted, expects, overtaken] of each importer
    previews,   \* what the last dry run of a file accepted, if nothing has changed since
    strays      \* facts that no check covers: not checked, or overtaken by an edit (history)

relationVars == <<relation, relationEdits, approving, abox, stated, importing, previews, strays>>
requestVars == <<relationEdits, approving>>

AtEase == [pc |-> "rest", edit |-> NoRequest, source |-> {}, target |-> {}]
NotImporting == [pc |-> "off", file |-> NoFacts, sees |-> {}, codes |-> [c \in Code |-> NoType], todo |-> {},
                 accepted |-> NoFacts, expects |-> NoFacts, overtaken |-> FALSE]
NoPreview == [f \in File |-> NoFacts]

RelationInit ==
    /\ relation = [status |-> "none", source |-> {}, target |-> {}]
    /\ relationEdits = [q \in RelationEdit |-> [status |-> "none", source |-> {}, target |-> {}]]
    /\ approving = [r \in Reviewer |-> AtEase]
    /\ abox = {} /\ stated = {}
    /\ importing = [i \in Importer |-> NotImporting]
    /\ previews = NoPreview
    /\ strays = {}

\* The pairs of types that the relation, as it is in r, joins.
Fits(fact, r) == fact[1][1] \in r.source /\ fact[2][1] \in r.target

\* The imports that are under way have read another relation.
Overtaken == importing' = [i \in Importer |->
    IF importing[i] = NotImporting THEN NotImporting ELSE [importing[i] EXCEPT !.overtaken = TRUE]]

-------------------------------------------------------------------------------
(* The relation type                                                        *)

\* Created once, then deprecated and reactivated; facts are left alone.
CreateRelation(source, target) ==
    /\ relation.status = "none"
    /\ relation' = [status |-> "active", source |-> source, target |-> target]
    /\ previews' = NoPreview
    /\ UNCHANGED <<requestVars, abox, stated, importing, strays>>

SwitchRelation ==
    /\ relation.status # "none"
    /\ relation' = [relation EXCEPT !.status = IF @ = "active" THEN "deprecated" ELSE "active"]
    /\ previews' = NoPreview
    /\ UNCHANGED <<requestVars, abox, stated, importing, strays>>

\* The relation as an edit would leave it.
Edited(edit) == [relation EXCEPT !.source = IF edit.source = {} THEN @ ELSE edit.source,
                                 !.target = IF edit.target = {} THEN @ ELSE edit.target]

\* Mutant: only an edit that takes types away on both sides narrows.
NarrowsBoth(new) == ~(relation.source \subseteq new.source) /\ ~(relation.target \subseteq new.target)

Narrows(new) == ~(relation.source \subseteq new.source) \/ ~(relation.target \subseteq new.target)

\* What an edit must satisfy, when it is submitted and when it is applied.
PlanRelationUpdate(edit) ==
    /\ relation.status = "active"
    /\ Narrows(Edited(edit)) => \A fact \in stated : Fits(fact, Edited(edit))
    /\ Edited(edit) # relation

SubmitEdit(q, source, target) ==
    LET edit == [status |-> "pending", source |-> source, target |-> target]
    IN /\ relationEdits[q].status = "none"
       /\ PlanRelationUpdate(edit)
       /\ relationEdits' = [relationEdits EXCEPT ![q] = edit]
       /\ UNCHANGED <<relation, approving, abox, stated, importing, previews, strays>>

\* The approval finds the request pending ...
AdmitEdit(r, q) ==
    /\ approving[r] = AtEase /\ relationEdits[q].status = "pending"
    /\ approving' = [approving EXCEPT ![r] = [AtEase EXCEPT !.pc = "plan", !.edit = q]]
    /\ UNCHANGED <<relation, relationEdits, abox, stated, importing, previews, strays>>

\* ... then, in another transaction, plans it again, which tells the sides that
\* differ from the row; a plan that fails leaves the request pending ...
PlanEdit(r) ==
    LET q == approving[r].edit
        new == Edited(relationEdits[q])
    IN /\ approving[r].pc = "plan"
       /\ approving' = [approving EXCEPT ![r] =
              IF PlanRelationUpdate(relationEdits[q])
              THEN [pc |-> "write", edit |-> q,
                    source |-> IF new.source = relation.source THEN {} ELSE new.source,
                    target |-> IF new.target = relation.target THEN {} ELSE new.target]
              ELSE AtEase]
       /\ UNCHANGED <<relation, relationEdits, abox, stated, importing, previews, strays>>

\* ... and writes those sides and the request, whatever was committed since.
WriteEdit(r) ==
    /\ approving[r].pc = "write"
    /\ relation' = Edited(approving[r])
    /\ relationEdits' = [relationEdits EXCEPT ![approving[r].edit].status = "applied"]
    /\ approving' = [approving EXCEPT ![r] = AtEase]
    /\ previews' = NoPreview
    /\ Overtaken
    /\ UNCHANGED <<abox, stated, strays>>

ApproverLost(r) ==
    /\ approving[r] # AtEase
    /\ approving' = [approving EXCEPT ![r] = AtEase]
    /\ UNCHANGED <<relation, relationEdits, abox, stated, importing, previews, strays>>

-------------------------------------------------------------------------------
(* Imports                                                                  *)

\* The rows that are taken: of a type whose instances are imported, and not twice.
ValidRows(file) ==
    LET good(k) == file.rows[k][1] \in ObjectType /\ \A j \in 1..(k - 1) : file.rows[j] # file.rows[k]
    IN {k \in DOMAIN file.rows : good(k)}

\* Which entity a code of the facts stands for: the last row with that code, or
\* else an entity that was there.
CodesAfter(file, codes) == [c \in Code |->
    LET ks == {k \in ValidRows(file) : file.rows[k][2] = c}
    IN IF ks = {} THEN codes[c] ELSE file.rows[CHOOSE k \in ks : \A j \in ks : j <= k][1]]

\* The types of the active entities by code; if two have one, either.
CodesNow == {codes \in [Code -> ObjectType \cup {NoType}] :
    \A c \in Code : IF \E t \in ObjectType : <<t, c>> \in abox THEN <<codes[c], c>> \in abox ELSE codes[c] = NoType}

SeenRelation == IF relation.status = "active" THEN {relation} ELSE {}

\* The facts that are taken: the relation is there, both codes are known, and
\* the relation joins their types.
ValidFacts(file, sees, codes) ==
    LET entity(c) == <<codes[c], c>>
    IN {fact \in {<<entity(row[1]), entity(row[2])>> : row \in file.facts} :
           \E r \in sees : fact \in EntityKey \X EntityKey /\ Fits(fact, r)}

Unambiguous == \A t, u \in ObjectType, c \in Code : <<t, c>> \in abox /\ <<u, c>> \in abox => t = u

\* A dry run reads, checks and answers.  Where two entities have one code, its
\* answer depends on the one it reads last, and is not kept here.
DryRun(file) ==
    \E codes \in CodesNow :
        /\ previews' = [previews EXCEPT ![file] = IF Unambiguous
               THEN ValidFacts(file, SeenRelation, CodesAfter(file, codes)) ELSE NoFacts]
        /\ UNCHANGED <<relation, requestVars, abox, stated, importing, strays>>

\* The four reads of the import, in one transaction.
LoadTBox(i, file) ==
    /\ importing[i] = NotImporting
    /\ \E codes \in CodesNow :
        importing' = [importing EXCEPT ![i] = [NotImporting EXCEPT
            !.pc = "entities", !.file = file, !.sees = SeenRelation, !.codes = codes, !.todo = ValidRows(file),
            !.expects = previews[file]]]
    /\ UNCHANGED <<relation, requestVars, abox, stated, previews, strays>>

\* The next row: its entity is inserted, or updated if it is there.
WriteEntityRow(i) ==
    LET file == importing[i].file
        k == CHOOSE n \in importing[i].todo : \A j \in importing[i].todo : n <= j
    IN /\ importing[i].pc = "entities" /\ importing[i].todo # {}
       /\ abox' = abox \cup {file.rows[k]}
       /\ previews' = IF file.rows[k] \in abox THEN previews ELSE NoPreview
       /\ importing' = [importing EXCEPT ![i].todo = @ \ {k}, ![i].codes[file.rows[k][2]] = file.rows[k][1]]
       /\ UNCHANGED <<relation, requestVars, stated, strays>>

ValidateFacts(i) ==
    LET valid == ValidFacts(importing[i].file, importing[i].sees, importing[i].codes)
    IN /\ importing[i].pc = "entities" /\ importing[i].todo = {}
       /\ importing' = [importing EXCEPT ![i].pc = "facts", ![i].todo = valid, ![i].accepted = valid]
       /\ UNCHANGED <<relation, requestVars, abox, stated, previews, strays>>

\* No look-up and no lock: a fact that is there is stated again.
WriteFact(i, fact) ==
    /\ importing[i].pc = "facts" /\ fact \in importing[i].todo
    /\ stated' = stated \cup {fact}
    /\ strays' = IF importing[i].overtaken \/ \E r \in Reviewer : approving[r].pc = "write"
                 THEN strays \cup ({fact} \ stated) ELSE strays
    /\ importing' = [importing EXCEPT ![i].todo = @ \ {fact}]
    /\ UNCHANGED <<relation, requestVars, abox, previews>>

\* All is written and the profiles are compiled again; or a write fails, and what
\* was written stays.
ImportEnds(i) ==
    /\ importing[i] # NotImporting
    /\ importing' = [importing EXCEPT ![i] = NotImporting]
    /\ UNCHANGED <<relation, requestVars, abox, stated, previews, strays>>

-------------------------------------------------------------------------------
(* The ABox without an import                                               *)

\* The route checks neither the relation nor the types.
AddFactUnchecked(fact) ==
    /\ fact \in (abox \X abox) \ stated
    /\ stated' = stated \cup {fact} /\ strays' = strays \cup {fact}
    /\ UNCHANGED <<relation, requestVars, abox, importing, previews>>

RevokeFact(fact) ==
    /\ fact \in stated
    /\ stated' = stated \ {fact} /\ strays' = strays \ {fact}
    /\ UNCHANGED <<relation, requestVars, abox, importing, previews>>

\* The facts of an entity that is deprecated stay.
DeprecateEntity(e) ==
    /\ e \in abox
    /\ abox' = abox \ {e} /\ previews' = NoPreview
    /\ UNCHANGED <<relation, requestVars, stated, importing, strays>>

RelationNext ==
    \/ \E s, t \in SUBSET ObjectType :
          \/ s # {} /\ t # {} /\ CreateRelation(s, t)
          \/ \E q \in RelationEdit : SubmitEdit(q, s, t)
    \/ SwitchRelation
    \/ \E r \in Reviewer : PlanEdit(r) \/ WriteEdit(r) \/ ApproverLost(r) \/ \E q \in RelationEdit : AdmitEdit(r, q)
    \/ \E f \in File : DryRun(f) \/ \E i \in Importer : LoadTBox(i, f)
    \/ \E i \in Importer :
          \/ WriteEntityRow(i) \/ ValidateFacts(i) \/ ImportEnds(i)
          \/ \E fact \in importing[i].todo : WriteFact(i, fact)
    \/ \E fact \in abox \X abox : AddFactUnchecked(fact)
    \/ \E fact \in stated : RevokeFact(fact)
    \/ \E e \in abox : DeprecateEntity(e)

RelationSpec == RelationInit /\ [][RelationNext]_relationVars

-------------------------------------------------------------------------------
RelationTypeOK ==
    /\ relation \in [status : {"none", "active", "deprecated"}, source : SUBSET ObjectType, target : SUBSET ObjectType]
    /\ abox \subseteq EntityKey /\ stated \subseteq EntityKey \X EntityKey /\ strays \subseteq stated
    /\ \A r \in Reviewer : approving[r].pc \in {"rest", "plan", "write"}

\* However the relation is edited while facts are imported, every fact of a
\* file joins types that the relation joins now: a relation is never narrowed
\* under its facts.  Outside of this are the facts that come between the check
\* and the write of an approval, or that were checked before an edit and
\* written after it; and those that the route adds without a check.
FactsFitRelation == \A fact \in stated \ strays : Fits(fact, relation)

\* An import takes exactly the facts that the dry run of its file promised, if
\* no entity, and nothing about the relation, changed in between.
DryRunPredicts ==
    \A i \in Importer : NoFacts \notin {importing[i].accepted, importing[i].expects} =>
        importing[i].accepted = importing[i].expects

\* What is taken was promised, and what was taken still fits: both of the above.
FactsAreGoverned == FactsFitRelation /\ DryRunPredicts
===============================================================================
