------------------------------ MODULE Documents ------------------------------
(***************************************************************************)
(* The documents of deals and accounts: a row in the database and a file   *)
(* in the storage (a directory or a bucket), which no transaction spans.   *)
(* An upload stores the file, then commits the row; a deletion removes the *)
(* file, then commits the row's deletion; a request may be lost between.   *)
(* A deleted deal or account takes its rows along and leaves the files.    *)
(*                                                                         *)
(* deal_document_service and account_document_service are the same code;   *)
(* a Holder is a deal or an account.  The storage either does what it is   *)
(* asked or raises, and then the request is lost.                          *)
(***************************************************************************)
EXTENDS Naturals, FiniteSets

CONSTANTS
  Holder,       (* the deals and accounts there are at first               *)
  DocSession,   (* requests at the same time                               *)
  MaxDocuments, (* bound: uploads                                          *)
  MaxLost,      (* bound: requests lost between file and row               *)
  NoDocument    (* no row                                                  *)

Document == 1..MaxDocuments
Key == 1..MaxDocuments
DocumentRow == [holder : Holder, key : Key]

ASSUME DocumentsAssumption ==
  /\ MaxDocuments \in Nat /\ MaxLost \in Nat
  /\ NoDocument \notin DocumentRow

VARIABLES
  holders,    (* the deals and accounts there still are                    *)
  documents,  (* deal_documents and account_documents tables               *)
  files,      (* the keys in the storage                                   *)
  uploaded,   (* uploads begun                                             *)
  deleting,   (* ghost: the documents a deletion was begun of              *)
  docTxs,     (* the request each session is serving                       *)
  lost        (* requests lost so far                                      *)

docVars == <<holders, documents, files, uploaded, deleting, docTxs, lost>>

NoRequest == [phase |-> "idle"]

DocumentsTypeOK ==
  /\ holders \subseteq Holder
  /\ documents \in [Document -> DocumentRow \cup {NoDocument}]
  /\ files \subseteq Key
  /\ uploaded \in 0..MaxDocuments
  /\ deleting \subseteq Document
  /\ docTxs \in [DocSession -> {NoRequest}
       \cup [phase : {"stored"}, document : Document, row : DocumentRow]
       \cup [phase : {"removed"}, document : Document]]
  /\ lost \in 0..MaxLost

DocumentsInit ==
  /\ holders = Holder
  /\ documents = [d \in Document |-> NoDocument]
  /\ files = {}
  /\ uploaded = 0
  /\ deleting = {}
  /\ docTxs = [s \in DocSession |-> NoRequest]
  /\ lost = 0
-----------------------------------------------------------------------------
Present(d) == documents[d] # NoDocument
HasFile(d) == documents[d].key \in files

(* mutant of KeyFor: one file name per deal, as avatars have per user      *)
SharedKey(n) == 1

(* uuid4 in the file name: no two uploads have the same.                   *)
KeyFor(n) == n

(* upload_deal_document: the file is saved, the row waits for the commit.  *)
StoreFile(s, h) ==
  /\ docTxs[s] = NoRequest
  /\ h \in holders
  /\ uploaded < MaxDocuments
  /\ uploaded' = uploaded + 1
  /\ files' = files \cup {KeyFor(uploaded')}
  /\ docTxs' = [docTxs EXCEPT ![s] =
       [phase |-> "stored", document |-> uploaded',
        row |-> [holder |-> h, key |-> KeyFor(uploaded')]]]
  /\ UNCHANGED <<holders, documents, deleting, lost>>

(* The foreign key refuses the row of a holder that is gone.               *)
CommitUpload(s) ==
  /\ docTxs[s].phase = "stored"
  /\ docTxs[s].row.holder \in holders
  /\ documents' = [documents EXCEPT ![docTxs[s].document] = docTxs[s].row]
  /\ docTxs' = [docTxs EXCEPT ![s] = NoRequest]
  /\ UNCHANGED <<holders, files, uploaded, deleting, lost>>

(* mutant of Removable: a file that is gone already raises                 *)
RemovableOnce(d) == HasFile(d)

(* FileUploadService.delete and delete_object succeed on a missing file.   *)
Removable(d) == TRUE

(* delete_deal_document: the row is read, its file removed.                *)
RemoveFile(s, d) ==
  /\ docTxs[s] = NoRequest
  /\ Present(d) /\ Removable(d)
  /\ files' = files \ {documents[d].key}
  /\ deleting' = deleting \cup {d}
  /\ docTxs' = [docTxs EXCEPT ![s] = [phase |-> "removed", document |-> d]]
  /\ UNCHANGED <<holders, documents, uploaded, lost>>

CommitDeletion(s) ==
  /\ docTxs[s].phase = "removed"
  /\ documents' = [documents EXCEPT ![docTxs[s].document] = NoDocument]
  /\ docTxs' = [docTxs EXCEPT ![s] = NoRequest]
  /\ UNCHANGED <<holders, files, uploaded, deleting, lost>>

(* A refused row, a lost connection, a stopped worker.                     *)
LoseRequest(s) ==
  /\ docTxs[s] # NoRequest
  /\ \/ lost < MaxLost /\ lost' = lost + 1
     \/ /\ docTxs[s].phase = "stored" /\ docTxs[s].row.holder \notin holders
        /\ UNCHANGED lost
  /\ docTxs' = [docTxs EXCEPT ![s] = NoRequest]
  /\ UNCHANGED <<holders, documents, files, uploaded, deleting>>

(* delete_deal and delete_account: ON DELETE CASCADE of the rows.          *)
DeleteHolder(h) ==
  /\ h \in holders
  /\ holders' = holders \ {h}
  /\ documents' = [d \in Document |->
       IF Present(d) /\ documents[d].holder = h THEN NoDocument ELSE documents[d]]
  /\ UNCHANGED <<files, uploaded, deleting, docTxs, lost>>

(* Every request ends, with a commit or without.                           *)
RequestEnds(s) == CommitUpload(s) \/ CommitDeletion(s) \/ LoseRequest(s)

DocumentsNext ==
  \/ \E s \in DocSession :
       \/ \E h \in Holder : StoreFile(s, h)
       \/ \E d \in Document : RemoveFile(s, d)
       \/ RequestEnds(s)
  \/ \E h \in Holder : DeleteHolder(h)

DocumentsSpec == DocumentsInit /\ [][DocumentsNext]_docVars

(* A user who still sees a document whose file is gone deletes it again.   *)
RetryDeletion(s, d) == Present(d) /\ ~HasFile(d) /\ RemoveFile(s, d)

(* list_deal_documents, list_account_documents, and both for a viewer of   *)
(* all: list_documents.                                                    *)
DocumentsOf(H) == {d \in Document : Present(d) /\ documents[d].holder \in H}
-----------------------------------------------------------------------------
(* Properties                                                              *)

(* A listed document can be opened unless somebody began to delete it:     *)
(* uploads, deletions of other documents and of whole deals, and requests  *)
(* lost half-way never take its file.                                      *)
ListedDocumentsOpen ==
  \A d \in DocumentsOf(holders) : HasFile(d) \/ d \in deleting

(* A deletion lost between the file and the row leaves a row that cannot   *)
(* be opened; repeated, it goes through and the row is gone.               *)
HalfDeletedGo ==
  \A d \in Document : Present(d) /\ ~HasFile(d) ~> ~Present(d)
=============================================================================
