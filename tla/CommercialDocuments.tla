------------------------ MODULE CommercialDocuments ------------------------
(***************************************************************************)
(* Commercial documents: versions with declared metadata whose bytes are   *)
(* in an object store, finalized once the store confirms the declaration   *)
(* (modules/document/application/commercial-documents.ts, the DOCUMENT.*   *)
(* commands of apps/api/src/contract-routes.ts).                           *)
(*                                                                         *)
(* FINALIZE asks the object store between two transactions, so other       *)
(* commands can come between; every other command is one transaction.      *)
(* Type and resource of a document are data: any final document may be the *)
(* replacement of another.                                                 *)
(***************************************************************************)
EXTENDS Naturals, Sequences, FiniteSets

CONSTANTS Docs,
          ObjectKeys,    \* keys of the object store
          Metadata,      \* checksum, content type and size, as one value
          MaxDocVersions \* bound: versions of all documents together

ASSUME DocumentAssumption == MaxDocVersions \in Nat

VARIABLES documents, inspected, objects, replacedBy

documentVars == <<documents, inspected, objects, replacedBy>>

NoDoc == [state |-> "NONE", versions |-> <<>>]
NoObject == [key |-> "NONE", meta |-> "NONE"]

(* objects is the store, inspected what a running FINALIZE has seen in it.   *)
DocumentsInit ==
    /\ documents = [d \in Docs |-> NoDoc] /\ inspected = [d \in Docs |-> NoObject]
    /\ objects = {} /\ replacedBy = {}

-----------------------------------------------------------------------------
Last(d) == Len(documents[d].versions)
CurrentVersion(d) == documents[d].versions[Last(d)]
VersionsInUse == UNION {{d} \X DOMAIN documents[d].versions : d \in Docs}
DraftVersion(o, signed) == [state |-> "DRAFT", object |-> o, signed |-> signed]
Declarations == [key : ObjectKeys, meta : Metadata]

(* The versions of a document, its current one moved from one state to       *)
(* another if it is in the first.                                            *)
Moved(d, from, to) == [documents[d].versions EXCEPT ![Last(d)].state = IF @ = from THEN to ELSE @]

CreateDocument(d, o, signed) ==
    /\ documents[d].state = "NONE" /\ Cardinality(VersionsInUse) < MaxDocVersions
    /\ documents' = [documents EXCEPT ![d] = [state |-> "DRAFT", versions |-> <<DraftVersion(o, signed)>>]]
    /\ UNCHANGED <<inspected, objects, replacedBy>>

(* Only a FINAL current version stands in the way of a new one; a draft that *)
(* is replaced is SUPERSEDED.                                                *)
AddDocumentVersion(d, o, signed) ==
    /\ documents[d].state # "NONE" /\ Cardinality(VersionsInUse) < MaxDocVersions
    /\ CurrentVersion(d).state # "FINAL"
    /\ documents' = [documents EXCEPT ![d] =
         [state |-> "DRAFT", versions |-> Append(Moved(d, "DRAFT", "SUPERSEDED"), DraftVersion(o, signed))]]
    /\ UNCHANGED <<inspected, objects, replacedBy>>

(* FINALIZE, first transaction and the request to the store: without an      *)
(* object under the key the command ends.                                    *)
InspectObject(d) ==
    /\ documents[d].state # "NONE" /\ inspected[d] = NoObject
    /\ \E o \in objects : o.key = CurrentVersion(d).object.key /\ inspected' = [inspected EXCEPT ![d] = o]
    /\ UNCHANGED <<documents, objects, replacedBy>>

(* Fault: the object inspected before is not compared. *)
FinalizableByState(d) == CurrentVersion(d).state = "DRAFT"
Finalizable(d) == inspected[d] = CurrentVersion(d).object /\ CurrentVersion(d).state = "DRAFT"

(* FINALIZE, second transaction.                                             *)
FinalizeDocument(d) ==
    /\ inspected[d] # NoObject
    /\ inspected' = [inspected EXCEPT ![d] = NoObject]
    /\ documents' = IF Finalizable(d)
                    THEN [documents EXCEPT ![d] = [state |-> "FINAL", versions |-> Moved(d, "DRAFT", "FINAL")]]
                    ELSE documents
    /\ UNCHANGED <<objects, replacedBy>>

SupersedeDocument(d, by) ==
    /\ d # by /\ documents[d].state = "FINAL" /\ documents[by].state = "FINAL"
    /\ documents' = [documents EXCEPT ![d] = [state |-> "SUPERSEDED", versions |-> Moved(d, "FINAL", "SUPERSEDED")]]
    /\ replacedBy' = replacedBy \cup {<<d, by>>}
    /\ UNCHANGED <<inspected, objects>>

VoidDocument(d) ==
    /\ documents[d].state = "DRAFT" /\ ~CurrentVersion(d).signed
    /\ documents' = [documents EXCEPT ![d] = [state |-> "VOID", versions |-> Moved(d, "DRAFT", "VOID")]]
    /\ UNCHANGED <<inspected, objects, replacedBy>>

(* A client uploads the bytes; the store keeps the first upload of a key.    *)
UploadObject(o) ==
    /\ \A p \in objects : p.key # o.key
    /\ objects' = objects \cup {o}
    /\ UNCHANGED <<documents, inspected, replacedBy>>

DocumentCommands ==
    \/ \E d \in Docs, o \in Declarations, signed \in BOOLEAN : CreateDocument(d, o, signed) \/ AddDocumentVersion(d, o, signed)
    \/ \E d \in Docs : InspectObject(d) \/ FinalizeDocument(d) \/ VoidDocument(d)
    \/ \E d, by \in Docs : SupersedeDocument(d, by)

DocumentsNext == DocumentCommands \/ \E o \in Declarations : UploadObject(o)
DocumentsSpec == DocumentsInit /\ [][DocumentsNext]_documentVars

-----------------------------------------------------------------------------
(* Properties.                                                               *)

DocumentsTypeOK ==
    /\ \A d \in Docs : documents[d].state \in {"NONE", "DRAFT", "FINAL", "SUPERSEDED", "VOID"}
    /\ VersionsInUse \subseteq Docs \X (1..MaxDocVersions)
    /\ inspected \in [Docs -> Declarations \cup {NoObject}] /\ objects \subseteq Declarations

(* What may be cited as evidence is in the store as declared, however        *)
(* versions, uploads and inspections interleave, and the state of a          *)
(* document is that of its current version (commercial-documents.ts          *)
(* DOCUMENT.FINALIZE with the inspection of contract-routes.ts).             *)
FinalDocumentsAreStored ==
    /\ DocumentsTypeOK
    /\ \A d \in Docs : documents[d].state = "NONE" \/ documents[d].state = CurrentVersion(d).state
    /\ \A e \in VersionsInUse : LET v == documents[e[1]].versions[e[2]] IN v.state = "FINAL" => v.object \in objects
=============================================================================
