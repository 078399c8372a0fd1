--------------------------- MODULE RecoveryProofs ---------------------------
(***************************************************************************)
(* Theorems about the components whose work can be lost half-way, by a     *)
(* request or a process that ends: Documents, Imports and Roles, for every *)
(* set of users, sessions, workers and files and every bound on losses.    *)
(***************************************************************************)
EXTENDS Documents, Imports, Roles, FiniteSetTheorems, WellFoundedInduction, TLAPS

-----------------------------------------------------------------------------
(* Documents.  That a listed document opens rests on the file name being   *)
(* new at every upload.  The invariant says so of rows and of uploads on   *)
(* their way to a row: each has a key of its own, which only a deletion of *)
(* that document takes out of the storage.                                 *)

(* A row, or a row to be, has the key made for it and has been begun.      *)
RowsKeyed ==
  \A d \in Document : Present(d) => documents[d].key = d /\ d <= uploaded

FileStored(s) == docTxs[s].phase = "stored"

(* An upload on its way has its file, no row, and its document to itself.  *)
UploadsApart ==
  \A s \in DocSession : FileStored(s) =>
    LET d == docTxs[s].document
    IN  /\ docTxs[s].row.key = d /\ d <= uploaded
        /\ ~Present(d) /\ d \in files /\ d \notin deleting
        /\ \A o \in DocSession \ {s} : FileStored(o) => docTxs[o].document # d

(* What nobody began to delete is in the storage.                          *)
FilesThere == \A d \in Document : Present(d) => d \in files \/ d \in deleting

(* Nothing is deleted before it was uploaded.                              *)
DeletionsLater == \A d \in deleting : d <= uploaded

DocumentsInv ==
  DocumentsTypeOK /\ RowsKeyed /\ UploadsApart /\ FilesThere /\ DeletionsLater

-----------------------------------------------------------------------------
(* At the start there is no document and no request.                       *)
LEMMA DocumentsStart == DocumentsInit => DocumentsInv
  BY DocumentsAssumption
     DEF DocumentsInit, DocumentsInv, DocumentsTypeOK, RowsKeyed, UploadsApart, FilesThere,
         DeletionsLater, Present, FileStored, NoRequest, Document

(* The document and the row of a request on its way.                       *)
LEMMA ActiveDocTx ==
  ASSUME DocumentsTypeOK, NEW s \in DocSession
  PROVE  /\ FileStored(s) => docTxs[s].document \in Document /\ docTxs[s].row \in DocumentRow
         /\ docTxs[s].phase = "removed" => docTxs[s].document \in Document
  BY DEF DocumentsTypeOK, FileStored, NoRequest

(* A file is stored under a key no row has, and before its row.            *)
LEMMA StoreStep ==
  ASSUME DocumentsInv, NEW s \in DocSession, NEW h \in Holder, StoreFile(s, h)
  PROVE  DocumentsInv'
  <1> DEFINE n == uploaded + 1
             tx == [phase |-> "stored", document |-> n,
                    row |-> [holder |-> h, key |-> n]]
  <1>1. /\ uploaded' = n /\ n \in Document /\ n \in Nat
        /\ files' = files \cup {n}
        /\ docTxs' = [docTxs EXCEPT ![s] = tx]
        /\ UNCHANGED <<holders, documents, deleting, lost>>
    BY DocumentsAssumption
       DEF StoreFile, KeyFor, Document, DocumentsInv, DocumentsTypeOK
  <1>2. [holder |-> h, key |-> n] \in DocumentRow
    BY <1>1 DEF DocumentRow, Document, Key
  <1>3. \A o \in DocSession : docTxs'[o] = IF o = s THEN tx ELSE docTxs[o]
    BY <1>1 DEF DocumentsInv, DocumentsTypeOK
  <1>4. DocumentsTypeOK'
    BY <1>1, <1>2, DocumentsAssumption
       DEF DocumentsInv, DocumentsTypeOK, Document, Key
  <1>5. uploaded \in Nat /\ n > uploaded /\ \A d \in Document : d \in Nat
    BY DEF DocumentsInv, DocumentsTypeOK, Document
  <1>6. RowsKeyed' /\ FilesThere' /\ DeletionsLater'
    BY <1>1, <1>5
       DEF DocumentsInv, DocumentsTypeOK, RowsKeyed, FilesThere, DeletionsLater, Present
  <1>7. UploadsApart'
    <2> SUFFICES ASSUME NEW o \in DocSession, docTxs'[o].phase = "stored"
                 PROVE  LET d == docTxs'[o].document
                        IN  /\ docTxs'[o].row.key = d /\ d <= uploaded'
                            /\ documents'[d] = NoDocument /\ d \in files'
                            /\ d \notin deleting'
                            /\ \A p \in DocSession \ {o} :
                                 docTxs'[p].phase = "stored" => docTxs'[p].document # d
      BY DEF UploadsApart, FileStored, Present
    <2>1. ~Present(n) /\ n \notin deleting
      BY <1>1, <1>5 DEF DocumentsInv, RowsKeyed, DeletionsLater
    <2>2. \A p \in DocSession : FileStored(p) => docTxs[p].document # n
      BY <1>5, ActiveDocTx DEF DocumentsInv, UploadsApart
    <2>3. CASE o = s
      BY <1>1, <1>3, <1>5, <2>1, <2>2, <2>3 DEF FileStored, Present
    <2>4. CASE o # s
      <3>1. FileStored(o) /\ docTxs'[o] = docTxs[o]
        BY <1>3, <2>4 DEF FileStored
      <3>2. docTxs[o].document \in Nat
        BY <1>5, <3>1, ActiveDocTx DEF DocumentsInv
      <3> QED
        BY <1>1, <1>3, <1>5, <2>2, <2>4, <3>1, <3>2
           DEF DocumentsInv, UploadsApart, FileStored, Present
    <2> QED
      BY <2>3, <2>4
  <1> QED
    BY <1>4, <1>6, <1>7 DEF DocumentsInv

(* The other steps add no upload: a request ends, or begins a deletion.    *)
LEMMA UploadsLeft ==
  ASSUME DocumentsInv, UNCHANGED uploaded,
         deleting' \subseteq deleting \cup {d \in Document : Present(d)},
         \A s \in DocSession : docTxs'[s].phase = "stored" =>
           /\ docTxs'[s] = docTxs[s]
           /\ docTxs[s].document \in files'
           /\ documents'[docTxs[s].document] = NoDocument
  PROVE  UploadsApart'
  BY DEF DocumentsInv, UploadsApart, FileStored, Present

(* Every step keeps listed documents and their files together.             *)
LEMMA DocumentsStep == DocumentsInv /\ [DocumentsNext]_docVars => DocumentsInv'
  <1> SUFFICES ASSUME DocumentsInv, [DocumentsNext]_docVars PROVE DocumentsInv'
    OBVIOUS
  <1>0. DocumentsTypeOK
    BY DEF DocumentsInv
  <1>1. CASE UNCHANGED docVars
    BY <1>1 DEF docVars, DocumentsInv, DocumentsTypeOK, RowsKeyed, UploadsApart,
                FilesThere, DeletionsLater, Present, FileStored
  <1>2. ASSUME NEW s \in DocSession, NEW h \in Holder, StoreFile(s, h)
        PROVE  DocumentsInv'
    BY <1>2, StoreStep
  <1>3. ASSUME NEW s \in DocSession, CommitUpload(s) PROVE DocumentsInv'
    <2> DEFINE d == docTxs[s].document
    <2>1. FileStored(s) /\ d \in Document /\ docTxs[s].row \in DocumentRow
      BY <1>0, <1>3, ActiveDocTx DEF CommitUpload, FileStored
    <2>2. /\ documents' = [documents EXCEPT ![d] = docTxs[s].row]
          /\ docTxs' = [docTxs EXCEPT ![s] = NoRequest]
          /\ UNCHANGED <<holders, files, uploaded, deleting, lost>>
      BY <1>3 DEF CommitUpload
    <2>3. docTxs[s].row.key = d /\ d <= uploaded /\ d \in files
      BY <2>1 DEF DocumentsInv, UploadsApart
    <2>4. DocumentsTypeOK'
      BY <1>0, <2>1, <2>2 DEF DocumentsTypeOK
    <2>5. \A e \in Document : documents'[e] = IF e = d THEN docTxs[s].row ELSE documents[e]
      BY <1>0, <2>1, <2>2 DEF DocumentsTypeOK
    <2>6. RowsKeyed' /\ FilesThere' /\ DeletionsLater'
      BY <2>2, <2>3, <2>5
         DEF DocumentsInv, RowsKeyed, FilesThere, DeletionsLater, Present
    <2>7. UploadsApart'
      <3>1. ASSUME NEW o \in DocSession, docTxs'[o].phase = "stored"
            PROVE  /\ docTxs'[o] = docTxs[o]
                   /\ docTxs[o].document \in files'
                   /\ documents'[docTxs[o].document] = NoDocument
        <4>1. o # s /\ docTxs'[o] = docTxs[o] /\ FileStored(o)
          BY <1>0, <2>2, <3>1 DEF DocumentsTypeOK, NoRequest, FileStored
        <4>2. docTxs[o].document \in Document
          BY <1>0, <4>1, ActiveDocTx
        <4> QED
          BY <2>1, <2>2, <2>5, <4>1, <4>2 DEF DocumentsInv, UploadsApart, Present
      <3> QED
        BY <2>2, <3>1, UploadsLeft
    <2> QED
      BY <2>4, <2>6, <2>7 DEF DocumentsInv
  <1>4. ASSUME NEW s \in DocSession, NEW d \in Document, RemoveFile(s, d)
        PROVE  DocumentsInv'
    <2> DEFINE tx == [phase |-> "removed", document |-> d]
    <2>1. /\ Present(d)
          /\ files' = files \ {documents[d].key}
          /\ deleting' = deleting \cup {d}
          /\ docTxs' = [docTxs EXCEPT ![s] = tx]
          /\ UNCHANGED <<holders, documents, uploaded, lost>>
      BY <1>4 DEF RemoveFile
    <2>2. documents[d].key = d /\ d <= uploaded
      BY <2>1 DEF DocumentsInv, RowsKeyed
    <2>3. DocumentsTypeOK'
      BY <1>0, <2>1 DEF DocumentsTypeOK
    <2>4. RowsKeyed' /\ FilesThere' /\ DeletionsLater'
      BY <2>1, <2>2 DEF DocumentsInv, RowsKeyed, FilesThere, DeletionsLater, Present
    <2>5. UploadsApart'
      <3>1. ASSUME NEW o \in DocSession, docTxs'[o].phase = "stored"
            PROVE  /\ docTxs'[o] = docTxs[o]
                   /\ docTxs[o].document \in files'
                   /\ documents'[docTxs[o].document] = NoDocument
        <4>1. o # s /\ docTxs'[o] = docTxs[o] /\ FileStored(o)
          BY <1>0, <2>1, <3>1 DEF DocumentsTypeOK, FileStored
        <4> QED
          BY <2>1, <2>2, <4>1 DEF DocumentsInv, UploadsApart, Present
      <3> QED
        BY <2>1, <3>1, UploadsLeft
    <2> QED
      BY <2>3, <2>4, <2>5 DEF DocumentsInv
  <1>5. ASSUME NEW s \in DocSession, CommitDeletion(s) \/ LoseRequest(s)
        PROVE  DocumentsInv'
    <2>1. /\ docTxs' = [docTxs EXCEPT ![s] = NoRequest]
          /\ lost' \in 0..MaxLost
          /\ UNCHANGED <<holders, files, uploaded, deleting>>
      BY <1>0, <1>5, DocumentsAssumption DEF CommitDeletion, LoseRequest, DocumentsTypeOK
    <2>2. /\ documents' \in [Document -> DocumentRow \cup {NoDocument}]
          /\ \A e \in Document : documents'[e] = documents[e] \/ documents'[e] = NoDocument
      BY <1>0, <1>5, ActiveDocTx DEF CommitDeletion, LoseRequest, DocumentsTypeOK
    <2>3. DocumentsTypeOK'
      BY <1>0, <2>1, <2>2 DEF DocumentsTypeOK
    <2>4. RowsKeyed' /\ FilesThere' /\ DeletionsLater'
      BY <2>1, <2>2 DEF DocumentsInv, RowsKeyed, FilesThere, DeletionsLater, Present
    <2>5. UploadsApart'
      <3>1. ASSUME NEW o \in DocSession, docTxs'[o].phase = "stored"
            PROVE  /\ docTxs'[o] = docTxs[o]
                   /\ docTxs[o].document \in files'
                   /\ documents'[docTxs[o].document] = NoDocument
        <4>1. docTxs'[o] = docTxs[o] /\ FileStored(o)
          BY <1>0, <2>1, <3>1 DEF DocumentsTypeOK, NoRequest, FileStored
        <4>2. docTxs[o].document \in Document
          BY <1>0, <4>1, ActiveDocTx
        <4> QED
          BY <2>1, <2>2, <4>1, <4>2 DEF DocumentsInv, UploadsApart, Present
      <3> QED
        BY <2>1, <3>1, UploadsLeft
    <2> QED
      BY <2>3, <2>4, <2>5 DEF DocumentsInv
  <1>6. ASSUME NEW h \in Holder, DeleteHolder(h) PROVE DocumentsInv'
    <2>1. /\ holders' = holders \ {h}
          /\ UNCHANGED <<files, uploaded, deleting, docTxs, lost>>
          /\ documents' = [d \in Document |->
               IF Present(d) /\ documents[d].holder = h THEN NoDocument ELSE documents[d]]
      BY <1>6 DEF DeleteHolder
    <2>2. \A e \in Document : documents'[e] = documents[e] \/ documents'[e] = NoDocument
      BY <2>1
    <2>3. DocumentsTypeOK'
      BY <1>0, <2>1 DEF DocumentsTypeOK
    <2>4. RowsKeyed' /\ FilesThere' /\ DeletionsLater'
      BY <2>1, <2>2 DEF DocumentsInv, RowsKeyed, FilesThere, DeletionsLater, Present
    <2>5. UploadsApart'
      <3>1. ASSUME NEW o \in DocSession, docTxs'[o].phase = "stored"
            PROVE  /\ docTxs'[o] = docTxs[o]
                   /\ docTxs[o].document \in files'
                   /\ documents'[docTxs[o].document] = NoDocument
        <4>1. docTxs'[o] = docTxs[o] /\ FileStored(o)
          BY <2>1, <3>1 DEF FileStored
        <4>2. docTxs[o].document \in Document
          BY <1>0, <4>1, ActiveDocTx
        <4> QED
          BY <2>1, <2>2, <4>1, <4>2 DEF DocumentsInv, UploadsApart, Present
      <3> QED
        BY <2>1, <3>1, UploadsLeft
    <2> QED
      BY <2>3, <2>4, <2>5 DEF DocumentsInv
  <1> QED
    BY <1>1, <1>2, <1>3, <1>4, <1>5, <1>6 DEF DocumentsNext, RequestEnds

(* A listed document can be opened unless somebody began to delete it,     *)
(* whichever uploads and deletions overlap and wherever requests are lost. *)
THEOREM ListedDocumentsAlwaysOpen == DocumentsSpec => []ListedDocumentsOpen
  <1>1. DocumentsInv => ListedDocumentsOpen
    BY DEF DocumentsInv, RowsKeyed, FilesThere, ListedDocumentsOpen, DocumentsOf, HasFile,
           DocumentsTypeOK, Present
  <1> QED
    BY <1>1, DocumentsStart, DocumentsStep, PTL DEF DocumentsSpec

-----------------------------------------------------------------------------
(* Imports.  What makes NoRowLost inductive is that nothing an import      *)
(* believes to be in the database ever leaves it: the addresses it found   *)
(* there, and those of the rows it inserted.                               *)

Past(u) == 1..(u.next - 1)

(* An upload u whose kind has the addresses `taken` in the database.       *)
Accounted(u, taken) ==
  /\ u.known \cup u.seen \subseteq taken
  /\ u.next \in Nat \ {0} /\ u.created \in Nat
  /\ u.errors \subseteq Past(u)
  /\ u.created + Cardinality(u.errors) = u.next - 1
  /\ \A j \in Past(u) : u.file[j].valid => u.file[j].email \in taken

(* The addresses an INSERT of kind k meets when the database holds `rows`. *)
Taken(rows, k) == IF k = "leads" THEN rows[k] \cup Additional ELSE rows[k]

AllAccounted(ups, rows) ==
  \A i \in Import :
    ups[i].phase # "none" => Accounted(ups[i], Taken(rows, ups[i].kind))

ImportsInv == ImportsTypeOK /\ AllAccounted(uploads, stored)

-----------------------------------------------------------------------------
(* An upload that was begun has the fields of a request.                   *)
LEMMA ActiveUpload ==
  ASSUME ImportsTypeOK, NEW i \in Import, uploads[i].phase # "none"
  PROVE  uploads[i] \in Running
  BY DEF ImportsTypeOK, NoUpload

(* Reporting the next row adds one to the number of rows reported.         *)
LEMMA OneMore ==
  ASSUME NEW n \in Nat \ {0}, NEW E \in SUBSET (1..(n - 1))
  PROVE  Cardinality(E) \in Nat /\ Cardinality(E \cup {n}) = Cardinality(E) + 1
  <1>1. IsFiniteSet(1..(n - 1))
    BY FS_Interval
  <1>2. IsFiniteSet(E)
    BY <1>1, FS_Subset
  <1>3. n \notin E
    OBVIOUS
  <1> QED
    BY <1>2, <1>3, FS_AddElement, FS_CardinalityType

(* What is taken stays taken, so an upload that waits stays accounted for. *)
LEMMA AccountedGrows ==
  ASSUME NEW u, NEW taken, NEW more, taken \subseteq more, Accounted(u, taken)
  PROVE  Accounted(u, more)
  BY DEF Accounted

(* Addresses are only ever added.                                          *)
LEMMA StoredGrows ==
  ASSUME ImportsTypeOK, NEW k \in Kinds, NEW E \in SUBSET Email,
         stored' = [stored EXCEPT ![k] = @ \cup E]
  PROVE  /\ stored' \in [Kinds -> SUBSET Email]
         /\ \A j \in Kinds : stored[j] \subseteq stored'[j]
         /\ E \subseteq stored'[k]
  BY DEF ImportsTypeOK

(* An upload that starts has got past no row, and what it knows to exist   *)
(* is in the database.                                                     *)
LEMMA StartAccounted ==
  ASSUME ImportsTypeOK, NEW k \in Kinds, NEW f \in Files
  PROVE  /\ Started(k, f) \in Running
         /\ Accounted(Started(k, f), Taken(stored, k))
  <1>1. EmailsIn(f) \cap stored[k] \subseteq Email
    BY DEF ImportsTypeOK
  <1>2. Started(k, f) \in Running
    BY <1>1 DEF Started, Running
  <1>3. Cardinality({}) = 0
    BY FS_EmptySet
  <1>4. EmailsIn(f) \cap stored[k] \subseteq Taken(stored, k)
    BY DEF Taken
  <1> QED
    BY <1>2, <1>3, <1>4 DEF Started, Accounted, Past

(* A row is done: reported, or else created.                               *)
LEMMA RowAccounted ==
  ASSUME NEW u \in Running, NEW v \in Running, NEW taken,
         Accounted(u, taken), u.next \in DOMAIN u.file,
         v.file = u.file, v.next = u.next + 1,
         v.known \cup v.seen \subseteq taken,
         u.file[u.next].valid => u.file[u.next].email \in taken,
         \/ v.errors = u.errors \cup {u.next} /\ v.created = u.created
         \/ v.errors = u.errors /\ v.created = u.created + 1
  PROVE  Accounted(v, taken)
  <1> DEFINE n == u.next
  <1>1. /\ n \in Nat \ {0} /\ u.created \in Nat
        /\ u.errors \subseteq 1..(n - 1)
        /\ u.created + Cardinality(u.errors) = n - 1
    BY DEF Accounted, Past
  <1>2. /\ Cardinality(u.errors) \in Nat
        /\ Cardinality(u.errors \cup {n}) = Cardinality(u.errors) + 1
    <2>1. n \in Nat \ {0} /\ u.errors \in SUBSET (1..(n - 1))
      BY <1>1
    <2> HIDE DEF n
    <2> QED
      BY <2>1, OneMore
  <1>3. v.created + Cardinality(v.errors) = v.next - 1 /\ v.created \in Nat
    <2>1. CASE v.errors = u.errors \cup {n} /\ v.created = u.created
      BY <1>1, <1>2, <2>1
    <2>2. CASE v.errors = u.errors /\ v.created = u.created + 1
      BY <1>1, <1>2, <2>2
    <2> QED
      BY <2>1, <2>2
  <1>4. Past(v) = 1..n /\ Past(v) = Past(u) \cup {n}
    BY <1>1 DEF Past
  <1>5. v.errors \subseteq Past(v) /\ v.next \in Nat \ {0}
    BY <1>1, <1>4
  <1>6. \A j \in Past(v) : v.file[j].valid => v.file[j].email \in taken
    <2>1. \A j \in Past(u) : u.file[j].valid => u.file[j].email \in taken
      BY DEF Accounted
    <2> QED
      BY <1>4, <2>1
  <1> QED
    BY <1>3, <1>5, <1>6 DEF Accounted

(* One upload moves on, the others wait.                                   *)
LEMMA OneUpload ==
  ASSUME ImportsInv, NEW i \in Import, NEW v \in Running,
         uploads' = [uploads EXCEPT ![i] = v],
         stored' \in [Kinds -> SUBSET Email],
         \A k \in Kinds : stored[k] \subseteq stored'[k],
         crashes' \in 0..MaxCrashes,
         Accounted(v, Taken(stored', v.kind))
  PROVE  ImportsInv'
  <1>1. ImportsTypeOK'
    BY DEF ImportsInv, ImportsTypeOK
  <1>2. ASSUME NEW o \in Import, uploads'[o].phase # "none"
        PROVE  Accounted(uploads'[o], Taken(stored', uploads'[o].kind))
    <2>1. CASE o = i
      BY <2>1 DEF ImportsInv, ImportsTypeOK
    <2>2. CASE o # i
      <3>1. uploads'[o] = uploads[o]
        BY <2>2 DEF ImportsInv, ImportsTypeOK
      <3>2. uploads[o].kind \in Kinds
        BY <1>2, <3>1, ActiveUpload DEF ImportsInv, Running
      <3>3. Taken(stored, uploads[o].kind) \subseteq Taken(stored', uploads[o].kind)
        BY <3>2 DEF Taken
      <3>4. Accounted(uploads[o], Taken(stored, uploads[o].kind))
        BY <1>2, <3>1 DEF ImportsInv, AllAccounted
      <3> QED
        BY <3>1, <3>3, <3>4, AccountedGrows
    <2> QED
      BY <2>1, <2>2
  <1> QED
    BY <1>1, <1>2 DEF ImportsInv, AllAccounted

(* The row to do is in the file, and has an address if it is valid.        *)
LEMMA RowTyped ==
  ASSUME FileAssumption, ImportsTypeOK, NEW i \in Import, HasRow(i)
  PROVE  /\ uploads[i] \in Running
         /\ uploads[i].next \in Nat \ {0} => uploads[i].next \in DOMAIN uploads[i].file
         /\ uploads[i].next \in Nat \ {0} /\ RowOf(i).valid => RowOf(i).email \in Email
  <1>1. uploads[i] \in Running
    BY ActiveUpload DEF HasRow
  <1> DEFINE f == uploads[i].file
             n == uploads[i].next
  <1>2. n \in Nat /\ f \in Seq(Row) /\ n <= Len(f)
        /\ \A j \in DOMAIN f : f[j].valid => f[j].email # None
    BY <1>1 DEF HasRow, Running, FileAssumption
  <1>3. ASSUME n # 0
        PROVE  n \in DOMAIN f /\ f[n] \in Row
    <2> HIDE DEF n, f
    <2> QED
      BY <1>2, <1>3
  <1>4. ASSUME n # 0, f[n].valid
        PROVE  f[n].email \in Email
    BY <1>2, <1>3, <1>4 DEF Row
  <1> QED
    BY <1>1, <1>2, <1>3, <1>4 DEF RowOf

-----------------------------------------------------------------------------
(* The actions                                                             *)

(* A first or repeated upload starts over with nothing counted.            *)
LEMMA UploadStep ==
  ASSUME ImportsInv, NEW i \in Import, NEW k \in Kinds, NEW f \in Files,
         Upload(i, k, f) \/ UploadAgain(i)
  PROVE  ImportsInv'
  <1>1. PICK l \in Kinds, g \in Files : uploads' = [uploads EXCEPT ![i] = Started(l, g)]
    <2>1. CASE Upload(i, k, f)
      BY <2>1 DEF Upload
    <2>2. CASE UploadAgain(i)
      <3>1. uploads[i] \in Running
        BY <2>2, ActiveUpload DEF UploadAgain, ImportsInv
      <3> QED
        BY <2>2, <3>1 DEF UploadAgain, ImportsInv, ImportsTypeOK, Running
    <2> QED
      BY <2>1, <2>2
  <1>2. stored' = stored /\ crashes' = crashes
    BY DEF Upload, UploadAgain
  <1>3. Started(l, g) \in Running /\ Accounted(Started(l, g), Taken(stored, l))
    BY StartAccounted DEF ImportsInv
  <1>4. Started(l, g).kind = l
    BY DEF Started
  <1> QED
    BY <1>1, <1>2, <1>3, <1>4, OneUpload DEF ImportsInv, ImportsTypeOK

(* A row is reported only when it is not valid or its address is taken.    *)
LEMMA ReportStep ==
  ASSUME FileAssumption, ImportsInv, NEW i \in Import, ReportRow(i) \/ RejectRow(i)
  PROVE  ImportsInv'
  <1> DEFINE u == uploads[i]
             v == uploads'[i]
             taken == Taken(stored, u.kind)
  <1>1. /\ HasRow(i) /\ u \in Running /\ stored' = stored /\ crashes' = crashes
        /\ ImportsTypeOK /\ u.next \in DOMAIN u.file
    <2>1. /\ HasRow(i) /\ ImportsTypeOK /\ stored' = stored /\ crashes' = crashes
      BY DEF ReportRow, RejectRow, Report, Proceeds, ImportsInv
    <2>2. u.next \in Nat \ {0}
      BY <2>1 DEF ImportsInv, AllAccounted, Accounted, HasRow
    <2> QED
      BY <2>1, <2>2, RowTyped
  <1>2. PICK x \in BOOLEAN :
          v = [u EXCEPT !.next = @ + 1, !.errors = @ \cup {u.next}, !.expired = x]
    BY <1>1 DEF ReportRow, RejectRow, Report, ImportsTypeOK, Running
  <1>3. /\ v \in Running /\ uploads' = [uploads EXCEPT ![i] = v]
        /\ v.file = u.file /\ v.next = u.next + 1 /\ v.known \cup v.seen = u.known \cup u.seen
        /\ v.errors = u.errors \cup {u.next} /\ v.created = u.created /\ v.kind = u.kind
    BY <1>1, <1>2 DEF ReportRow, RejectRow, Report, ImportsTypeOK, Running
  <1>4. Accounted(u, taken)
    BY <1>1 DEF ImportsInv, AllAccounted, HasRow
  <1>5. u.file[u.next].valid => u.file[u.next].email \in taken
    BY <1>4 DEF ReportRow, RejectRow, Duplicate, RowOf, Rejected, Taken, Accounted
  <1>6. Accounted(v, taken)
    <2>1. v.known \cup v.seen \subseteq taken
      BY <1>3, <1>4 DEF Accounted
    <2> HIDE DEF u, v, taken
    <2> QED
      BY <1>1, <1>3, <1>4, <1>5, <2>1, RowAccounted
  <1> QED
    BY <1>1, <1>3, <1>6, OneUpload DEF ImportsTypeOK

(* A row is counted as created only with its address in the database.      *)
LEMMA InsertStep ==
  ASSUME FileAssumption, ImportsInv, NEW i \in Import, InsertRow(i)
  PROVE  ImportsInv'
  <1> DEFINE u == uploads[i]
             v == uploads'[i]
             e == RowOf(i).email
             taken == Taken(stored', u.kind)
  <1>1. /\ HasRow(i) /\ u \in Running /\ crashes' = crashes
        /\ ImportsTypeOK /\ u.next \in DOMAIN u.file /\ e \in Email /\ u.kind \in Kinds
    <2>1. HasRow(i) /\ ImportsTypeOK /\ crashes' = crashes /\ RowOf(i).valid
      BY DEF InsertRow, Proceeds, ImportsInv
    <2>2. u.next \in Nat \ {0}
      BY <2>1 DEF ImportsInv, AllAccounted, Accounted, HasRow
    <2>3. u \in Running /\ u.next \in DOMAIN u.file /\ e \in Email
      BY <2>1, <2>2, RowTyped
    <2> QED
      BY <2>1, <2>3 DEF Running
  <1>2. v = [u EXCEPT !.next = @ + 1, !.seen = @ \cup {e}, !.created = @ + 1]
    BY <1>1 DEF InsertRow, ImportsTypeOK
  <1>3. /\ v \in Running /\ uploads' = [uploads EXCEPT ![i] = v]
        /\ v.file = u.file /\ v.next = u.next + 1 /\ v.known = u.known /\ v.seen = u.seen \cup {e}
        /\ v.errors = u.errors /\ v.created = u.created + 1 /\ v.kind = u.kind
    BY <1>1, <1>2 DEF InsertRow, ImportsTypeOK, Running
  <1>4. stored' = [stored EXCEPT ![u.kind] = @ \cup {e}]
    BY DEF InsertRow, CommittedBy
  <1>5. /\ stored' \in [Kinds -> SUBSET Email]
        /\ \A j \in Kinds : stored[j] \subseteq stored'[j]
        /\ {e} \subseteq stored'[u.kind]
    <2>1. {e} \in SUBSET Email
      BY <1>1
    <2> HIDE DEF u, e
    <2> QED
      BY <1>1, <1>4, <2>1, StoredGrows
  <1>6. e \in taken /\ Taken(stored, u.kind) \subseteq taken
    BY <1>1, <1>5 DEF Taken
  <1>7. Accounted(u, taken)
    <2>1. Accounted(u, Taken(stored, u.kind))
      BY <1>1 DEF ImportsInv, AllAccounted, HasRow
    <2> QED
      BY <1>6, <2>1, AccountedGrows
  <1>8. Accounted(v, taken)
    <2>1. v.known \cup v.seen \subseteq taken
      BY <1>3, <1>6, <1>7 DEF Accounted
    <2>2. u.file[u.next].email \in taken
      BY <1>6 DEF RowOf
    <2> HIDE DEF u, v, e, taken
    <2> QED
      BY <1>1, <1>3, <1>7, <2>1, <2>2, RowAccounted
  <1> QED
    BY <1>1, <1>3, <1>5, <1>8, OneUpload DEF ImportsTypeOK

(* The end of a request, of whatever kind, changes the phase alone.        *)
LEMMA EndStep ==
  ASSUME ImportsInv, NEW i \in Import, Abort(i) \/ Answer(i) \/ Crash(i)
  PROVE  ImportsInv'
  <1> DEFINE u == uploads[i]
             v == uploads'[i]
  <1>1. /\ u \in Running /\ stored' = stored /\ crashes' \in 0..MaxCrashes
        /\ ImportsTypeOK /\ u.phase # "none"
    <2>1. /\ ImportsTypeOK /\ u.phase = "rows" /\ stored' = stored
          /\ \/ crashes' = crashes
             \/ crashes < MaxCrashes /\ crashes' = crashes + 1
      <3>1. CASE Abort(i)
        BY <3>1 DEF Abort, HasRow, ImportsInv
      <3>2. CASE Answer(i)
        BY <3>2 DEF Answer, ImportsInv
      <3>3. CASE Crash(i)
        BY <3>3 DEF Crash, ImportsInv
      <3> QED
        BY <3>1, <3>2, <3>3
    <2>2. crashes' \in 0..MaxCrashes
      BY <2>1, FileAssumption DEF ImportsTypeOK, FileAssumption
    <2> QED
      BY <2>1, <2>2, ActiveUpload
  <1>2. PICK p \in {"done", "failed"} : uploads' = [uploads EXCEPT ![i].phase = p]
    BY DEF Abort, Answer, Crash
  <1>3. v \in Running /\ v = [u EXCEPT !.phase = p] /\ uploads' = [uploads EXCEPT ![i] = v]
    BY <1>1, <1>2 DEF ImportsTypeOK, Running
  <1>4. /\ v.kind = u.kind /\ v.file = u.file /\ v.next = u.next /\ v.known = u.known
        /\ v.seen = u.seen /\ v.created = u.created /\ v.errors = u.errors
    BY <1>1, <1>3 DEF Running
  <1>5. Accounted(u, Taken(stored, u.kind))
    BY <1>1 DEF ImportsInv, AllAccounted
  <1>6. Accounted(v, Taken(stored, u.kind))
    BY <1>4, <1>5 DEF Accounted, Past
  <1> QED
    BY <1>1, <1>3, <1>4, <1>6, OneUpload DEF ImportsTypeOK

(* Creations by other users only add addresses.                            *)
LEMMA ElsewhereStep ==
  ASSUME ImportsInv, NEW k \in Kinds, NEW e \in Email, CreateElsewhere(k, e)
  PROVE  ImportsInv'
  <1>1. /\ stored' \in [Kinds -> SUBSET Email]
        /\ \A j \in Kinds : stored[j] \subseteq stored'[j]
    <2>1. {e} \in SUBSET Email /\ ImportsTypeOK /\ stored' = [stored EXCEPT ![k] = @ \cup {e}]
      BY DEF CreateElsewhere, ImportsInv
    <2> QED
      BY <2>1, StoredGrows
  <1>2. ImportsTypeOK' /\ uploads' = uploads
    BY <1>1 DEF CreateElsewhere, ImportsInv, ImportsTypeOK
  <1>3. ASSUME NEW o \in Import, uploads[o].phase # "none"
        PROVE  Accounted(uploads[o], Taken(stored', uploads[o].kind))
    <2>1. uploads[o].kind \in Kinds
      BY <1>3, ActiveUpload DEF ImportsInv, Running
    <2>2. Taken(stored, uploads[o].kind) \subseteq Taken(stored', uploads[o].kind)
      BY <1>1, <2>1 DEF Taken
    <2> QED
      BY <1>3, <2>2, AccountedGrows DEF ImportsInv, AllAccounted
  <1> QED
    BY <1>2, <1>3 DEF ImportsInv, AllAccounted

(* Every step keeps the uploads accounted for.                             *)
LEMMA ImportsStep == FileAssumption /\ ImportsInv /\ [ImportsNext]_importVars => ImportsInv'
  <1> SUFFICES ASSUME FileAssumption, ImportsInv, [ImportsNext]_importVars
               PROVE  ImportsInv'
    OBVIOUS
  <1>1. CASE UNCHANGED importVars
    BY <1>1 DEF importVars, ImportsInv, ImportsTypeOK, AllAccounted
  <1>2. ASSUME NEW i \in Import, NEW k \in Kinds, NEW f \in Files, Upload(i, k, f)
        PROVE  ImportsInv'
    BY <1>2, UploadStep
  <1>3. ASSUME NEW i \in Import, UploadAgain(i)
        PROVE  ImportsInv'
    <2>1. uploads[i].kind \in Kinds /\ uploads[i].file \in Files
      BY <1>3, ActiveUpload DEF UploadAgain, ImportsInv, Running
    <2> QED
      BY <1>3, <2>1, UploadStep
  <1>4. ASSUME NEW i \in Import, Step(i) \/ Crash(i)
        PROVE  ImportsInv'
    BY <1>4, ReportStep, InsertStep, EndStep DEF Step
  <1>5. ASSUME NEW k \in Kinds, NEW e \in Email, CreateElsewhere(k, e)
        PROVE  ImportsInv'
    BY <1>5, ElsewhereStep
  <1> QED
    BY <1>1, <1>2, <1>3, <1>4, <1>5 DEF ImportsNext

LEMMA ImportsStart == ImportsInit => ImportsInv
  BY FileAssumption DEF ImportsInit, ImportsInv, ImportsTypeOK, AllAccounted, NoUpload

(* However an import ends, every valid row it got past is in the database, *)
(* and each row was either counted as created or reported.                 *)
THEOREM NoRowEverLost == ImportsSpec => []NoRowLost
  <1>1. ImportsInv => NoRowLost
    <2> SUFFICES ASSUME ImportsInv, NEW i \in Import, uploads[i].phase # "none"
                 PROVE  LET u == uploads[i]
                            past == 1..(u.next - 1)
                        IN  /\ \A j \in past : u.file[j].valid =>
                                 u.file[j].email \in Rejected(u.kind)
                            /\ u.created + Cardinality(u.errors) = Cardinality(past)
                            /\ u.errors \subseteq past
      BY DEF NoRowLost
    <2>1. Accounted(uploads[i], Taken(stored, uploads[i].kind))
      BY DEF ImportsInv, AllAccounted
    <2>2. Cardinality(1..(uploads[i].next - 1)) = uploads[i].next - 1
      <3>1. uploads[i].next - 1 \in Nat
        BY <2>1 DEF Accounted
      <3> QED
        BY <3>1, FS_Interval
    <2> QED
      BY <2>1, <2>2 DEF Accounted, Past, Taken, Rejected
  <1> QED
    BY <1>1, ImportsStart, ImportsStep, FileAssumption, PTL DEF ImportsSpec

-----------------------------------------------------------------------------
(* Roles.  The theorems rest on what resolve_permission_dependencies       *)
(* returns: the smallest closed set with the codes in it.  Its loop is a   *)
(* recursive function on the number of rounds; what a round keeps is shown *)
(* by induction, stated about sets of numbers.                             *)

(* Induction and iteration.                                                *)

(* A set of numbers that has 0, and n + 1 whenever it has n, has them all: *)
(* otherwise take the smallest interval 0..n it lacks the end of.          *)
LEMMA NumbersFrom ==
  ASSUME NEW S, 0 \in S, \A n \in Nat : n \in S => n + 1 \in S
  PROVE  Nat \subseteq S
  <1> SUFFICES ASSUME NEW n \in Nat, n \notin S PROVE FALSE
    OBVIOUS
  <1> DEFINE family == {0..m : m \in {k \in 0..n : k \notin S}}
  <1>1. family \subseteq FiniteSubsetsOf(0..n) /\ family # {}
    <2>1. \A m \in 0..n : IsFiniteSet(0..m) /\ 0..m \in SUBSET (0..n)
      BY FS_Interval
    <2> QED
      BY <2>1 DEF FiniteSubsetsOf
  <1>2. PICK A \in family :
          \A B \in family : ~(<<B, A>> \in StrictSubsetOrdering(0..n))
    <2>1. IsFiniteSet(0..n)
      BY FS_Interval
    <2>2. IsWellFoundedOn(StrictSubsetOrdering(0..n), FiniteSubsetsOf(0..n))
      BY <2>1, FS_StrictSubsetOrderingWellFounded
    <2> HIDE DEF family
    <2> QED
      BY <1>1, <2>2, WFMin
  <1>3. PICK m \in 0..n : m \notin S /\ A = 0..m
    BY <1>2
  <1>4. m # 0 /\ m - 1 \in 0..n /\ m - 1 \notin S
    <2>1. m # 0
      BY <1>3
    <2>2. m - 1 \in Nat /\ m = (m - 1) + 1
      BY <2>1
    <2> QED
      BY <1>3, <2>1, <2>2
  <1>5. 0..(m - 1) \in family
    BY <1>4
  <1>6. <<0..(m - 1), A>> \in StrictSubsetOrdering(0..n)
    <2>1. m \in A /\ m \notin 0..(m - 1) /\ 0..(m - 1) \subseteq A /\ A \subseteq 0..n
      BY <1>3, <1>4
    <2> QED
      BY <2>1 DEF StrictSubsetOrdering
  <1> QED
    BY <1>2, <1>5, <1>6

IsRun(X, x, step, n, g) ==
  /\ g \in [0..n -> X]
  /\ g[0] = x
  /\ \A k \in Nat : k + 1 <= n => g[k + 1] = step[g[k]]

(* A step can be taken any number of times ...                             *)
LEMMA RunsExist ==
  ASSUME NEW X, NEW x \in X, NEW step \in [X -> X]
  PROVE  \A n \in Nat : \E g : IsRun(X, x, step, n, g)
  <1> DEFINE S == {n \in Nat : \E g : IsRun(X, x, step, n, g)}
  <1>1. 0 \in S
    <2>1. IsRun(X, x, step, 0, [k \in 0..0 |-> x])
      BY DEF IsRun
    <2> QED
      BY <2>1
  <1>2. ASSUME NEW n \in Nat, n \in S
        PROVE  n + 1 \in S
    <2>1. PICK g : IsRun(X, x, step, n, g)
      BY <1>2
    <2> DEFINE h == [k \in 0..(n + 1) |-> IF k <= n THEN g[k] ELSE step[g[n]]]
    <2>2. g[n] \in X /\ \A k \in 0..n : g[k] \in X
      BY <2>1 DEF IsRun
    <2>3. h \in [0..(n + 1) -> X]
      BY <2>2
    <2>4. h[0] = x
      BY <2>1 DEF IsRun
    <2>5. ASSUME NEW k \in Nat, k + 1 <= n + 1
          PROVE  h[k + 1] = step[h[k]]
      <3>1. CASE k + 1 <= n
        BY <2>1, <3>1 DEF IsRun
      <3>2. CASE k = n
        BY <3>2
      <3> QED
        BY <2>5, <3>1, <3>2
    <2>6. IsRun(X, x, step, n + 1, h)
      <3> HIDE DEF h
      <3> QED
        BY <2>3, <2>4, <2>5 DEF IsRun
    <2> QED
      BY <2>6
  <1>3. Nat \subseteq S
    <2> HIDE DEF S
    <2> QED
      BY <1>1, <1>2, NumbersFrom
  <1> QED
    BY <1>3

(* ... and two runs agree as far as both go.                               *)
LEMMA RunsAgree ==
  ASSUME NEW X, NEW x \in X, NEW step \in [X -> X],
         NEW m \in Nat, NEW n \in Nat, m <= n,
         NEW g, IsRun(X, x, step, m, g), NEW h, IsRun(X, x, step, n, h)
  PROVE  \A k \in 0..m : g[k] = h[k]
  <1> DEFINE S == {k \in Nat : k <= m => g[k] = h[k]}
  <1>1. 0 \in S
    BY DEF IsRun
  <1>2. ASSUME NEW k \in Nat, k \in S
        PROVE  k + 1 \in S
    <2>1. CASE k + 1 <= m
      <3>1. k <= m /\ k + 1 <= n
        BY <2>1
      <3>2. g[k + 1] = step[g[k]] /\ h[k + 1] = step[h[k]]
        BY <2>1, <3>1 DEF IsRun
      <3> QED
        BY <1>2, <3>1, <3>2
    <2> QED
      BY <2>1
  <1>3. Nat \subseteq S
    <2> HIDE DEF S
    <2> QED
      BY <1>1, <1>2, NumbersFrom
  <1> QED
    BY <1>3

LEMMA Iterates ==
  ASSUME NEW X, NEW x \in X, NEW step \in [X -> X]
  PROVE  \E f \in [Nat -> X] : f[0] = x /\ \A n \in Nat : f[n + 1] = step[f[n]]
  <1> DEFINE run(n) == CHOOSE g : IsRun(X, x, step, n, g)
             f == [n \in Nat |-> run(n)[n]]
  <1>1. \A n \in Nat : IsRun(X, x, step, n, run(n))
    BY RunsExist
  <1> HIDE DEF run
  <1>2. f \in [Nat -> X]
    <2>1. \A n \in Nat : run(n)[n] \in X
      BY <1>1 DEF IsRun
    <2> QED
      BY <2>1
  <1>3. f[0] = x
    BY <1>1 DEF IsRun
  <1>4. ASSUME NEW n \in Nat
        PROVE  f[n + 1] = step[f[n]]
    <2>1. IsRun(X, x, step, n, run(n)) /\ IsRun(X, x, step, n + 1, run(n + 1))
      BY <1>1
    <2>2. run(n)[n] = run(n + 1)[n]
      <3> DEFINE m == n + 1
      <3>1. m \in Nat /\ n <= m /\ n \in 0..n
        OBVIOUS
      <3> QED
        BY <2>1, <3>1, RunsAgree
    <2>3. run(n + 1)[n + 1] = step[run(n + 1)[n]]
      BY <2>1 DEF IsRun
    <2> QED
      BY <2>2, <2>3
  <1> QED
    BY <1>2, <1>3, <1>4

-----------------------------------------------------------------------------
(* What resolve_permission_dependencies returns.                           *)

RoundOK == [resolved : SUBSET Code, frontier : SUBSET Code]

LEMMA NextRoundOK == \A last \in RoundOK : NextRound(last) \in RoundOK
  <1> TAKE last \in RoundOK
  <1>1. Frontier(last.resolved, last.frontier) \in SUBSET Code
    BY RolesAssumption DEF Frontier, RoundOK
  <1> QED
    BY <1>1 DEF NextRound, RoundOK

LEMMA RoundsFollow ==
  ASSUME NEW codes \in SUBSET Code
  PROVE  /\ Rounds(codes) \in [Nat -> RoundOK]
         /\ Rounds(codes)[0] = [resolved |-> codes, frontier |-> codes]
         /\ \A n \in Nat : Rounds(codes)[n + 1] = NextRound(Rounds(codes)[n])
  <1> DEFINE R == [resolved |-> codes, frontier |-> codes]
             step == [last \in RoundOK |-> NextRound(last)]
  <1>1. R \in RoundOK /\ step \in [RoundOK -> RoundOK]
    BY NextRoundOK DEF RoundOK
  <1>2. PICK f \in [Nat -> RoundOK] : f[0] = R /\ \A n \in Nat : f[n + 1] = step[f[n]]
    <2> HIDE DEF R, step
    <2> QED
      BY <1>1, Iterates
  <1>3. f = [n \in Nat |-> IF n = 0 THEN R ELSE NextRound(f[n - 1])]
    <2>1. \A n \in Nat : f[n] = IF n = 0 THEN R ELSE NextRound(f[n - 1])
      <3> TAKE n \in Nat
      <3>1. CASE n = 0
        BY <1>2, <3>1
      <3>2. CASE n # 0
        <4>1. n - 1 \in Nat /\ n = (n - 1) + 1
          BY <3>2
        <4>2. f[(n - 1) + 1] = NextRound(f[n - 1])
          BY <1>2, <4>1
        <4> QED
          BY <3>2, <4>1, <4>2
      <3> QED
        BY <3>1, <3>2
    <2> HIDE DEF R
    <2> QED
      BY <2>1
  <1>4. Rounds(codes) = [n \in Nat |-> IF n = 0 THEN R ELSE NextRound(Rounds(codes)[n - 1])]
    BY <1>3 DEF Rounds
  <1>5. Rounds(codes)[0] = R
    BY <1>4
  <1>6. ASSUME NEW n \in Nat
        PROVE  Rounds(codes)[n + 1] = NextRound(Rounds(codes)[n])
    <2>1. n + 1 \in Nat /\ n + 1 # 0 /\ (n + 1) - 1 = n
      OBVIOUS
    <2> HIDE DEF R
    <2> QED
      BY <1>4, <2>1
  <1>7. Rounds(codes) \in [Nat -> RoundOK]
    <2> DEFINE S == {n \in Nat : Rounds(codes)[n] \in RoundOK}
    <2>1. 0 \in S
      BY <1>1, <1>5
    <2>2. \A n \in Nat : n \in S => n + 1 \in S
      BY <1>6, NextRoundOK
    <2>3. Nat \subseteq S
      <3> HIDE DEF S
      <3> QED
        BY <2>1, <2>2, NumbersFrom
    <2> HIDE DEF R
    <2> QED
      BY <1>4, <2>3
  <1> QED
    BY <1>5, <1>6, <1>7

(* After n rounds from `codes`: only the codes of the last round may lack  *)
(* what they require, and unless there are none, each round found a code.  *)
RoundKept(codes, n, last) ==
  /\ codes \subseteq last.resolved /\ last.frontier \subseteq last.resolved
  /\ \A c \in (last.resolved \ last.frontier) \cap DOMAIN Requires :
       Requires[c] \in last.resolved
  /\ last.frontier = {} \/ Cardinality(last.resolved) > n

LEMMA NextRoundKept ==
  ASSUME NEW codes \in SUBSET Code, NEW n \in Nat, NEW last \in RoundOK,
         RoundKept(codes, n, last)
  PROVE  RoundKept(codes, n + 1, NextRound(last))
  <1> DEFINE more == Frontier(last.resolved, last.frontier)
             next == NextRound(last)
  <1>0. /\ last.resolved \in SUBSET Code /\ last.frontier \in SUBSET Code
        /\ more \in SUBSET Code /\ more \cap last.resolved = {}
        /\ \A c \in last.frontier \cap DOMAIN Requires :
             Requires[c] \in more \/ Requires[c] \in last.resolved
        /\ more # {} => last.frontier # {}
    BY RolesAssumption DEF Frontier, RoundOK
  <1>1. next.resolved = last.resolved \cup more /\ next.frontier = more
    BY DEF NextRound
  <1> HIDE DEF more, next
  <1>2. codes \subseteq next.resolved /\ next.frontier \subseteq next.resolved
    BY <1>1 DEF RoundKept
  <1>3. \A c \in (next.resolved \ next.frontier) \cap DOMAIN Requires :
          Requires[c] \in next.resolved
    BY <1>0, <1>1 DEF RoundKept
  <1>4. ASSUME more # {}
        PROVE  Cardinality(next.resolved) > n + 1
    <2>1. PICK c \in more : c \notin last.resolved
      BY <1>0, <1>4
    <2>2. IsFiniteSet(last.resolved) /\ IsFiniteSet(next.resolved)
      BY <1>0, <1>1, FS_Subset, RolesAssumption
    <2>3. /\ Cardinality(last.resolved) \in Nat /\ Cardinality(next.resolved) \in Nat
          /\ Cardinality(last.resolved \cup {c}) = Cardinality(last.resolved) + 1
      BY <2>1, <2>2, FS_CardinalityType, FS_AddElement
    <2>4. Cardinality(last.resolved \cup {c}) <= Cardinality(next.resolved)
      BY <1>1, <2>1, <2>2, FS_Subset
    <2>5. Cardinality(last.resolved) > n
      BY <1>0, <1>4 DEF RoundKept
    <2> QED
      BY <2>3, <2>4, <2>5
  <1> QED
    BY <1>1, <1>2, <1>3, <1>4 DEF RoundKept, next

LEMMA RoundsKept ==
  ASSUME NEW codes \in SUBSET Code
  PROVE  \A n \in Nat : RoundKept(codes, n, Rounds(codes)[n])
  <1> DEFINE S == {n \in Nat : RoundKept(codes, n, Rounds(codes)[n])}
  <1>1. 0 \in S
    <2>1. PICK last : last = Rounds(codes)[0]
      OBVIOUS
    <2>3. last = [resolved |-> codes, frontier |-> codes]
      BY <2>1, RoundsFollow
    <2>2. codes # {} => Cardinality(codes) > 0
      <3>1. IsFiniteSet(codes)
        BY FS_Subset, RolesAssumption
      <3> QED
        BY <3>1, FS_CardinalityType, FS_EmptySet
    <2>4. RoundKept(codes, 0, last)
      BY <2>2, <2>3 DEF RoundKept
    <2> QED
      BY <2>1, <2>4
  <1>2. ASSUME NEW n \in Nat, n \in S
        PROVE  n + 1 \in S
    <2>1. Rounds(codes)[n] \in RoundOK /\ Rounds(codes)[n + 1] = NextRound(Rounds(codes)[n])
      BY RoundsFollow
    <2>2. RoundKept(codes, n + 1, NextRound(Rounds(codes)[n]))
      BY <1>2, <2>1, NextRoundKept
    <2> QED
      BY <2>1, <2>2
  <1>3. Nat \subseteq S
    <2> HIDE DEF S
    <2> QED
      BY <1>1, <1>2, NumbersFrom
  <1> QED
    BY <1>3

(* The result has the codes and what each of them requires: with as many   *)
(* rounds as there are codes, the last one found nothing.                  *)
LEMMA ResolveCloses ==
  ASSUME NEW codes \in SUBSET Code
  PROVE  /\ Resolve(codes) \in SUBSET Code
         /\ codes \subseteq Resolve(codes)
         /\ Closed(Resolve(codes))
  <1> DEFINE n == Cardinality(Code)
  <1>1. n \in Nat
    BY FS_CardinalityType, RolesAssumption
  <1>2. PICK last : last = Rounds(codes)[n]
    OBVIOUS
  <1>3. Resolve(codes) = last.resolved
    BY <1>2 DEF Resolve, Resolved
  <1>4. last \in RoundOK /\ RoundKept(codes, n, last)
    BY <1>1, <1>2, RoundsFollow, RoundsKept
  <1>5. last.resolved \in SUBSET Code /\ Cardinality(last.resolved) <= n
        /\ Cardinality(last.resolved) \in Nat
    <2>1. last.resolved \in SUBSET Code
      BY <1>4 DEF RoundOK
    <2> QED
      BY <2>1, FS_Subset, FS_CardinalityType, RolesAssumption
  <1>6. last.frontier = {}
    BY <1>1, <1>4, <1>5 DEF RoundKept
  <1> QED
    BY <1>3, <1>4, <1>5, <1>6 DEF RoundKept, Closed

(* And nothing more.                                                       *)
LEMMA ResolveIsLeast ==
  ASSUME NEW codes \in SUBSET Code, NEW Y \in SUBSET Code, codes \subseteq Y, Closed(Y)
  PROVE  Resolve(codes) \subseteq Y
  <1> DEFINE S == {n \in Nat : Rounds(codes)[n].resolved \subseteq Y
                               /\ Rounds(codes)[n].frontier \subseteq Y}
  <1>1. 0 \in S
    <2>1. PICK last : last = Rounds(codes)[0]
      OBVIOUS
    <2>2. last = [resolved |-> codes, frontier |-> codes]
      BY <2>1, RoundsFollow
    <2>3. last.resolved \subseteq Y /\ last.frontier \subseteq Y
      BY <2>2
    <2> QED
      BY <2>1, <2>3
  <1>2. ASSUME NEW n \in Nat, n \in S
        PROVE  n + 1 \in S
    <2>1. PICK last : last = Rounds(codes)[n]
      OBVIOUS
    <2>2. Frontier(last.resolved, last.frontier) \subseteq Y
      BY <1>2, <2>1 DEF Frontier, Closed
    <2>3. Rounds(codes)[n + 1] = NextRound(last)
      BY <2>1, RoundsFollow
    <2> QED
      BY <1>2, <2>1, <2>2, <2>3 DEF NextRound
  <1>3. Nat \subseteq S
    <2> HIDE DEF S
    <2> QED
      BY <1>1, <1>2, NumbersFrom
  <1>4. PICK n : n = Cardinality(Code)
    OBVIOUS
  <1>5. n \in S
    BY <1>3, <1>4, FS_CardinalityType, RolesAssumption
  <1>6. Resolve(codes) = Rounds(codes)[n].resolved
    BY <1>4 DEF Resolve, Resolved
  <1> QED
    BY <1>5, <1>6

LEMMA LoadedOK ==
  ASSUME RolesTypeOK, NEW codes \in SUBSET Code
  PROVE  /\ LoadPermissions(codes) \in SUBSET Code
         /\ catalog = Code => Closed(LoadPermissions(codes))
  <1>1. codes \cap catalog \in SUBSET Code
    OBVIOUS
  <1>2. PICK R : R = Resolve(codes \cap catalog)
    OBVIOUS
  <1>3. R \in SUBSET Code /\ Closed(R)
    BY <1>1, <1>2, ResolveCloses
  <1>4. catalog = Code => R \cap catalog = R
    BY <1>3
  <1> QED
    BY <1>2, <1>3, <1>4 DEF LoadPermissions

-----------------------------------------------------------------------------
(* The tables.                                                             *)

(* Who serves has seeded the whole catalog, which nothing takes codes out  *)
(* of; what a PATCH is about to write is closed; no row goes away.         *)
ServedAll == \A w \in Worker : workers[w] = Up => catalog = Code

PatchesClosed ==
  \A a \in Admin : patches[a] # NoPatch =>
    Closed(patches[a].codes) /\ RoleExists(patches[a].role)

RolesStay ==
  \A w \in Worker : workers[w].phase = "seeding" =>
    \A r \in Role : workers[w].roles[r] # NoRole => RoleExists(r)

RolesInv == RolesTypeOK /\ ServedAll /\ PatchesClosed /\ RolesStay

LEMMA RolesStart == RolesInit => RolesInv
  <1> SUFFICES ASSUME RolesInit PROVE RolesInv
    OBVIOUS
  <1>1. roles \in RoleTable /\ catalog \in SUBSET Code
    <2>1. CASE roles = [r \in Role |-> NoRole]
      BY <2>1 DEF RolesInit, RoleTable
    <2>2. ASSUME NEW n \in Name, NEW codes \in SUBSET catalog,
                 roles = [r \in Role |-> IF r # 1 THEN NoRole
                            ELSE [name |-> n, codes |-> codes, deleted |-> FALSE]]
          PROVE  roles \in RoleTable
      <3> DEFINE row == [name |-> n, codes |-> codes, deleted |-> FALSE]
      <3>1. row \in RoleRow
        BY DEF RolesInit, RoleRow
      <3> HIDE DEF row
      <3> QED
        BY <2>2, <3>1 DEF RoleTable, row
    <2> QED
      BY <2>1, <2>2 DEF RolesInit
  <1>2. RolesTypeOK
    BY <1>1, RolesAssumption DEF RolesInit, RolesTypeOK, Down, NoPatch
  <1> QED
    BY <1>2 DEF RolesInit, RolesInv, ServedAll, PatchesClosed, RolesStay, Down, Up, NoPatch

LEMMA Phases ==
  ASSUME RolesTypeOK
  PROVE  /\ \A w \in Worker : workers[w].phase = "seeding" =>
              /\ workers[w].catalog \in SUBSET Code /\ workers[w].roles \in RoleTable
              /\ workers[w] # Up /\ workers[w] # Down
         /\ \A a \in Admin :
              /\ patches[a].phase = "loaded" <=> patches[a] # NoPatch
              /\ patches[a].phase = "loaded" =>
                   /\ patches[a].role \in Role /\ patches[a].row \in RoleRow
                   /\ patches[a].name \in Name /\ patches[a].codes \in SUBSET Code
  <1>1. ASSUME NEW w \in Worker, workers[w].phase = "seeding"
        PROVE  /\ workers[w].catalog \in SUBSET Code /\ workers[w].roles \in RoleTable
               /\ workers[w] # Up /\ workers[w] # Down
    BY <1>1 DEF RolesTypeOK, Up, Down
  <1>2. ASSUME NEW a \in Admin
        PROVE  /\ patches[a].phase = "loaded" <=> patches[a] # NoPatch
               /\ patches[a].phase = "loaded" =>
                    /\ patches[a].role \in Role /\ patches[a].row \in RoleRow
                    /\ patches[a].name \in Name /\ patches[a].codes \in SUBSET Code
    BY <1>2 DEF RolesTypeOK, NoPatch
  <1> QED
    BY <1>1, <1>2

(* What start-up gives a role it read: a closed set with its codes.        *)
LEMMA SeededCloses ==
  ASSUME NEW read, NEW row \in RoleRow
  PROVE  /\ row.codes \cup Granted(read, row) \in SUBSET Code
         /\ Seeded(read, row) \in SUBSET Code
         /\ row.codes \subseteq Seeded(read, row)
         /\ Closed(Seeded(read, row))
  <1>1. PICK C : C = row.codes \cup Granted(read, row)
    OBVIOUS
  <1>2. C \in SUBSET Code /\ row.codes \subseteq C
    BY <1>1, RolesAssumption DEF Granted, NewCodes, RoleRow
  <1>3. Seeded(read, row) = Resolve(C)
    BY <1>1 DEF Seeded
  <1> QED
    BY <1>1, <1>2, <1>3, ResolveCloses

(* A new starter role.                                                     *)
LEMMA StarterRowOK ==
  \A n \in StarterName : StarterRow(n) \in RoleRow /\ Closed(StarterRow(n).codes)
  <1> TAKE n \in StarterName
  <1>1. StarterCodes[n] \in SUBSET Code
    BY RolesAssumption
  <1>2. Resolve(StarterCodes[n]) \in SUBSET Code /\ Closed(Resolve(StarterCodes[n]))
    BY <1>1, ResolveCloses
  <1> QED
    BY <1>2 DEF StarterRow, RoleRow, Name

(* Each role after a start: new, out of sight of the start, or given what  *)
(* it lacked when it was read.                                             *)
LEMMA SeedCommitRows ==
  ASSUME RolesInv, NEW w \in Worker, SeedCommit(w), NEW r \in Role
  PROVE  /\ roles'[r] \in RoleRow \cup {NoRole}
         /\ \/ /\ ~RoleExists(r)
               /\ roles'[r] \in RoleRow /\ Closed(roles'[r].codes)
            \/ workers[w].roles[r] = NoRole /\ roles'[r] = roles[r]
            \/ LET row == workers[w].roles[r]
               IN  /\ row \in RoleRow /\ RoleExists(r)
                   /\ roles'[r] \in RoleRow
                   /\ roles'[r].codes =
                        roles[r].codes \cup (Seeded(workers[w], row) \ row.codes)
  <1> DEFINE read == workers[w]
             missing == MissingStarters(read)
             ids == CHOOSE ids \in NewIds(missing) : TRUE
             row == read.roles[r]
  <1>1. /\ RolesTypeOK /\ read.phase = "seeding" /\ read.roles \in RoleTable
        /\ roles[r] \in RoleRow \cup {NoRole} /\ row \in RoleRow \cup {NoRole}
    BY Phases DEF SeedCommit, RolesInv, RolesTypeOK, RoleTable
  <1>2. ids \in [missing -> Unused] /\ missing \subseteq StarterName
    <2>1. ids \in NewIds(missing)
      BY DEF SeedCommit
    <2> QED
      BY <2>1 DEF NewIds, MissingStarters
  <1>3. roles'[r] = IF \E n \in missing : ids[n] = r
                    THEN StarterRow(CHOOSE n \in missing : ids[n] = r)
                    ELSE IF row = NoRole THEN roles[r]
                    ELSE [roles[r] EXCEPT !.codes = @ \cup (Seeded(read, row) \ row.codes)]
    BY DEF SeedCommit
  <1> HIDE DEF ids, missing
  <1>4. CASE \E n \in missing : ids[n] = r
    <2>1. PICK n \in missing : n = (CHOOSE m \in missing : ids[m] = r) /\ ids[n] = r
      BY <1>4
    <2>2. roles'[r] = StarterRow(n) /\ n \in StarterName /\ r \in Unused
      BY <1>2, <1>3, <1>4, <2>1
    <2> QED
      BY <2>2, StarterRowOK DEF Unused
  <1>5. CASE ~(\E n \in missing : ids[n] = r) /\ row = NoRole
    BY <1>1, <1>3, <1>5
  <1>6. CASE ~(\E n \in missing : ids[n] = r) /\ row # NoRole
    <2>1. row \in RoleRow /\ RoleExists(r) /\ roles[r] \in RoleRow
      BY <1>1, <1>6 DEF RolesInv, RolesStay, RoleExists
    <2>2. PICK more : more = Seeded(read, row) \ row.codes
      OBVIOUS
    <2>3. more \in SUBSET Code
      BY <2>1, <2>2, SeededCloses
    <2>4. roles'[r] = [roles[r] EXCEPT !.codes = @ \cup more]
      BY <1>3, <1>6, <2>2
    <2>5. roles'[r] \in RoleRow /\ roles'[r].codes = roles[r].codes \cup more
      BY <2>1, <2>3, <2>4 DEF RoleRow
    <2> QED
      BY <2>1, <2>2, <2>5
  <1> QED
    BY <1>4, <1>5, <1>6

LEMMA RolesStep == RolesInv /\ [RolesNext]_roleVars => RolesInv'
  <1> SUFFICES ASSUME RolesInv, [RolesNext]_roleVars PROVE RolesInv'
    OBVIOUS
  <1>0. /\ RolesTypeOK /\ ServedAll /\ PatchesClosed /\ RolesStay
        /\ roles \in [Role -> RoleRow \cup {NoRole}]
        /\ NoRole \notin RoleRow
    BY RolesAssumption DEF RolesInv, RolesTypeOK, RoleTable
  <1> USE <1>0
  <1>1. ASSUME NEW w \in Worker, SeedRead(w)
        PROVE  RolesInv'
    <2> DEFINE tx == [phase |-> "seeding", catalog |-> catalog, roles |-> roles]
    <2>1. /\ workers' = [workers EXCEPT ![w] = tx]
          /\ UNCHANGED <<catalog, roles, patches, roleEdits, stops>>
      BY <1>1 DEF SeedRead
    <2>2. tx \in [phase : {"seeding"}, catalog : SUBSET Code, roles : RoleTable]
          /\ tx # Up /\ tx.roles = roles
      BY DEF RolesTypeOK, Up
    <2> HIDE DEF tx
    <2>3. RolesTypeOK'
      BY <2>1, <2>2 DEF RolesTypeOK
    <2>4. ServedAll' /\ PatchesClosed'
      BY <2>1, <2>2 DEF RolesTypeOK, ServedAll, PatchesClosed, RoleExists
    <2>5. RolesStay'
      BY <2>1, <2>2 DEF RolesTypeOK, RolesStay, RoleExists
    <2> QED
      BY <2>3, <2>4, <2>5 DEF RolesInv
  <1>2. ASSUME NEW w \in Worker, SeedCommit(w)
        PROVE  RolesInv'
    <2>1. /\ workers' = [workers EXCEPT ![w] = Up] /\ catalog' = catalog \cup Code
          /\ roles' = [r \in Role |-> roles'[r]]
          /\ UNCHANGED <<patches, roleEdits, stops>>
      BY <1>2 DEF SeedCommit
    <2>2. \A r \in Role : /\ roles'[r] \in RoleRow \cup {NoRole}
                          /\ RoleExists(r) => roles'[r] # NoRole
      BY <1>2, SeedCommitRows DEF RoleExists
    <2>3. catalog' = Code
      BY <2>1 DEF RolesTypeOK
    <2>4. RolesTypeOK'
      <3>1. roles' \in RoleTable
        BY <2>1, <2>2 DEF RoleTable
      <3> QED
        BY <2>1, <2>3, <3>1 DEF RolesTypeOK
    <2>5. ServedAll' /\ PatchesClosed'
      BY <2>1, <2>2, <2>3, Phases DEF ServedAll, PatchesClosed, RoleExists
    <2>6. RolesStay'
      BY <2>1, <2>2 DEF RolesTypeOK, RolesStay, RoleExists, Up
    <2> QED
      BY <2>4, <2>5, <2>6 DEF RolesInv
  <1>3. ASSUME NEW w \in Worker, SeedFail(w) \/ Stop(w)
        PROVE  RolesInv'
    <2>1. /\ workers' = [workers EXCEPT ![w] = Down]
          /\ stops' \in 0..MaxStops
          /\ UNCHANGED <<catalog, roles, patches, roleEdits>>
      BY <1>3, RolesAssumption DEF SeedFail, Stop, RolesTypeOK
    <2>2. RolesTypeOK'
      BY <2>1 DEF RolesTypeOK
    <2>3. ServedAll' /\ PatchesClosed' /\ RolesStay'
      BY <2>1 DEF RolesTypeOK, ServedAll, PatchesClosed, RolesStay, RoleExists, Down, Up
    <2> QED
      BY <2>2, <2>3 DEF RolesInv
  <1>4. ASSUME Served
        PROVE  catalog = Code /\ roleEdits' \in 0..MaxRoleEdits
    BY <1>4, RolesAssumption DEF Served, ServedAll, RolesTypeOK
  <1>5. ASSUME NEW n \in Name, NEW codes \in SUBSET Code, CreateRole(n, codes)
        PROVE  RolesInv'
    <2> DEFINE row == [name |-> n, codes |-> LoadPermissions(codes), deleted |-> FALSE]
    <2>1. row \in RoleRow
      BY LoadedOK DEF RoleRow
    <2>2. PICK r \in Unused : roles' = [roles EXCEPT ![r] = row]
      BY <1>5 DEF CreateRole
    <2>3. r \in Role
      BY DEF Unused
    <2>4. UNCHANGED <<catalog, workers, patches, stops>> /\ roleEdits' \in 0..MaxRoleEdits
      BY <1>4, <1>5 DEF CreateRole
    <2> HIDE DEF row
    <2>5. RolesTypeOK'
      BY <2>1, <2>2, <2>3, <2>4 DEF RolesTypeOK, RoleTable
    <2>6. \A o \in Role : RoleExists(o) => RoleExists(o)'
      BY <2>1, <2>2, <2>3 DEF RoleExists
    <2> QED
      BY <2>4, <2>5, <2>6, Phases DEF RolesInv, ServedAll, PatchesClosed, RolesStay
  <1>6. ASSUME NEW a \in Admin, NEW r \in Role, NEW n \in Name, NEW codes \in SUBSET Code,
               LoadRole(a, r, n, codes)
        PROVE  RolesInv'
    <2> DEFINE p == [phase |-> "loaded", role |-> r, row |-> roles[r], name |-> n,
                     codes |-> LoadPermissions(codes)]
    <2>1. /\ p.codes \in SUBSET Code /\ Closed(p.codes) /\ p.role = r
          /\ RoleExists(r) /\ roles[r] \in RoleRow
      BY <1>4, <1>6, LoadedOK DEF LoadRole, RoleExists
    <2>2. p \in [phase : {"loaded"}, role : Role, row : RoleRow, name : Name,
                 codes : SUBSET Code]
      BY <2>1
    <2>3. patches' = [patches EXCEPT ![a] = p]
          /\ UNCHANGED <<catalog, roles, workers, stops>> /\ roleEdits' \in 0..MaxRoleEdits
      BY <1>4, <1>6 DEF LoadRole
    <2> HIDE DEF p
    <2>4. RolesTypeOK'
      BY <2>2, <2>3 DEF RolesTypeOK
    <2>5. PatchesClosed'
      BY <2>1, <2>3 DEF RolesTypeOK, PatchesClosed, RoleExists
    <2> QED
      BY <2>3, <2>4, <2>5 DEF RolesInv, ServedAll, RolesStay, RoleExists
  <1>7. ASSUME NEW a \in Admin, CommitRole(a)
        PROVE  RolesInv'
    <2>1. PICK p : p = patches[a]
      OBVIOUS
    <2>2. /\ p.phase = "loaded" /\ p.role \in Role /\ p.row \in RoleRow /\ p.name \in Name
          /\ p.codes \in SUBSET Code /\ RoleExists(p.role) /\ roles[p.role] \in RoleRow
      BY <1>7, <2>1, Phases DEF CommitRole, PatchesClosed, RoleExists
    <2>3. /\ roles' = [o \in Role |-> roles'[o]]
          /\ \A o \in Role \ {p.role} : roles'[o] = roles[o]
          /\ roles'[p.role] \in RoleRow
          /\ UNCHANGED <<catalog, workers, roleEdits, stops>>
          /\ patches' = [patches EXCEPT ![a] = NoPatch]
      BY <1>7, <2>1, <2>2 DEF CommitRole, RoleRow
    <2>4. roles' \in RoleTable /\ \A o \in Role : RoleExists(o) => RoleExists(o)'
      BY <2>2, <2>3 DEF RoleTable, RoleExists
    <2>5. RolesTypeOK'
      BY <2>3, <2>4 DEF RolesTypeOK
    <2> QED
      BY <2>2, <2>3, <2>4, <2>5, Phases
         DEF RolesTypeOK, RolesInv, ServedAll, PatchesClosed, RolesStay
  <1>8. ASSUME NEW a \in Admin, RollbackRole(a)
        PROVE  RolesInv'
    BY <1>8 DEF RollbackRole, RolesInv, RolesTypeOK, ServedAll, PatchesClosed, RolesStay,
                RoleExists
  <1>9. ASSUME NEW r \in Role, DeleteRole(r)
        PROVE  RolesInv'
    <2>1. roles[r] \in RoleRow
      BY <1>9 DEF DeleteRole, RoleExists
    <2>2. PICK row : row = [roles[r] EXCEPT !.deleted = TRUE]
      OBVIOUS
    <2>3. row \in RoleRow
      BY <2>1, <2>2 DEF RoleRow
    <2>4. roles' = [roles EXCEPT ![r] = row]
      BY <1>9, <2>2 DEF DeleteRole
    <2>5. UNCHANGED <<catalog, workers, patches, stops>> /\ roleEdits' \in 0..MaxRoleEdits
      BY <1>4, <1>9 DEF DeleteRole
    <2>6. RolesTypeOK'
      BY <2>3, <2>4, <2>5 DEF RolesTypeOK, RoleTable
    <2>7. \A o \in Role : RoleExists(o) => RoleExists(o)'
      BY <2>3, <2>4 DEF RoleExists
    <2> QED
      BY <2>5, <2>6, <2>7, Phases DEF RolesInv, ServedAll, PatchesClosed, RolesStay
  <1>10. CASE UNCHANGED roleVars
    BY <1>10 DEF roleVars, RolesInv, RolesTypeOK, ServedAll, PatchesClosed, RolesStay,
                 RoleExists
  <1> QED
    BY <1>1, <1>2, <1>3, <1>5, <1>6, <1>7, <1>8, <1>9, <1>10 DEF RolesNext

-----------------------------------------------------------------------------
(* What a commit does to the permissions of roles.                         *)

(* A role written by a start that nothing overlapped.                      *)
LEMMA QuietSeedCloses ==
  ASSUME RolesInv, NEW w \in Worker, SeedCommit(w), workers[w].roles = roles,
         NEW r \in Role, roles'[r] # NoRole
  PROVE  Closed(roles'[r].codes)
  <1> DEFINE row == workers[w].roles[r]
  <1>1. CASE row \in RoleRow /\ roles'[r].codes =
                      roles[r].codes \cup (Seeded(workers[w], row) \ row.codes)
    <2>1. PICK C : C = Seeded(workers[w], row)
      OBVIOUS
    <2>2. row.codes \subseteq C /\ Closed(C)
      BY <1>1, <2>1, SeededCloses
    <2>3. roles'[r].codes = C
      BY <1>1, <2>1, <2>2
    <2> QED
      BY <2>2, <2>3
  <1> QED
    BY <1>1, SeedCommitRows

(* And one by an edit that nothing overlapped.                             *)
LEMMA QuietEditCloses ==
  ASSUME RolesInv, NEW a \in Admin, CommitRole(a), roles[patches[a].role] = patches[a].row
  PROVE  Closed(roles'[patches[a].role].codes)
  <1>1. PICK p : p = patches[a]
    OBVIOUS
  <1>2. /\ p.phase = "loaded" /\ p.role \in Role /\ p.row \in RoleRow
        /\ p.codes \in SUBSET Code /\ Closed(p.codes)
    BY <1>1, Phases DEF CommitRole, RolesInv, PatchesClosed
  <1>3. roles \in [Role -> RoleRow \cup {NoRole}] /\ roles[p.role] = p.row
    BY <1>1 DEF RolesInv, RolesTypeOK, RoleTable
  <1>4. roles'[p.role].codes = (p.row.codes \ (p.row.codes \ p.codes))
                                 \cup (p.codes \ p.row.codes)
    BY <1>1, <1>2, <1>3 DEF CommitRole, RoleRow
  <1>5. roles'[p.role].codes = p.codes
    BY <1>4
  <1> QED
    BY <1>1, <1>2, <1>5

(* Only its commit brings a start to serve, and only a commit of a PATCH   *)
(* ends it with a change of the roles.                                     *)
LEMMA WhoCommits ==
  ASSUME RolesInv, RolesNext
  PROVE  /\ \A w \in Worker : Seeds(w) => SeedCommit(w)
         /\ \A a \in Admin : Edits(a) => CommitRole(a)
  <1>0. RolesTypeOK
    BY DEF RolesInv
  <1>1. ASSUME NEW v \in Worker, SeedRead(v) \/ SeedCommit(v) \/ SeedFail(v) \/ Stop(v)
        PROVE  /\ \A w \in Worker : Seeds(w) => SeedCommit(w)
               /\ \A a \in Admin : Edits(a) => CommitRole(a)
    <2>1. patches' = patches
      BY <1>1 DEF SeedRead, SeedCommit, SeedFail, Stop
    <2>2. ASSUME NEW w \in Worker, Seeds(w)
          PROVE  SeedCommit(w)
      <3>1. workers[w] # Up /\ workers'[w] = Up
        BY <1>0, <2>2, Phases DEF Seeds
      <3>2. w = v
        BY <1>0, <1>1, <3>1 DEF RolesTypeOK, SeedRead, SeedCommit, SeedFail, Stop
      <3>3. workers'[v] # Down /\ workers'[v].phase # "seeding"
        BY <3>1, <3>2 DEF Up, Down
      <3> QED
        BY <1>0, <1>1, <3>2, <3>3 DEF RolesTypeOK, SeedRead, SeedFail, Stop
    <2> QED
      BY <2>1, <2>2 DEF Edits
  <1>2. CASE workers' = workers /\ patches' = patches
    BY <1>0, <1>2, Phases DEF Seeds, Edits
  <1>3. ASSUME NEW b \in Admin, NEW r \in Role, NEW n \in Name, NEW codes \in SUBSET Code,
               LoadRole(b, r, n, codes)
        PROVE  /\ \A w \in Worker : Seeds(w) => SeedCommit(w)
               /\ \A a \in Admin : Edits(a) => CommitRole(a)
    <2>1. workers' = workers /\ roles' = roles
      BY <1>3 DEF LoadRole
    <2> QED
      BY <1>0, <2>1, Phases DEF Seeds, Edits
  <1>4. ASSUME NEW b \in Admin, CommitRole(b) \/ RollbackRole(b)
        PROVE  /\ \A w \in Worker : Seeds(w) => SeedCommit(w)
               /\ \A a \in Admin : Edits(a) => CommitRole(a)
    <2>1. workers' = workers /\ patches' = [patches EXCEPT ![b] = NoPatch]
      BY <1>4 DEF CommitRole, RollbackRole
    <2>2. ASSUME NEW a \in Admin, Edits(a)
          PROVE  CommitRole(a)
      <3>1. a = b
        BY <1>0, <2>1, <2>2 DEF RolesTypeOK, Edits
      <3> QED
        BY <1>4, <2>2, <3>1 DEF RollbackRole, Edits
    <2> QED
      BY <1>0, <2>1, <2>2, Phases DEF Seeds
  <1> QED
    BY <1>1, <1>2, <1>3, <1>4 DEF RolesNext, CreateRole, DeleteRole

(* Every start and every edit that nothing overlapped leaves the roles it  *)
(* wrote closed, whatever chains or cycles the dependencies have.          *)
THEOREM QuietCommitsAlwaysClose == RolesSpec => QuietCommitsClose
  <1>1. RolesInv /\ [RolesNext]_roleVars =>
          [/\ \A w \in Worker : Seeds(w) /\ workers[w].roles = roles =>
                \A r \in Role : roles'[r] # NoRole => Closed(roles'[r].codes)
           /\ \A a \in Admin : Edits(a) /\ roles[patches[a].role] = patches[a].row =>
                Closed(roles'[patches[a].role].codes)]_roleVars
    BY WhoCommits, QuietSeedCloses, QuietEditCloses
  <1> QED
    BY <1>1, RolesStart, RolesStep, PTL DEF RolesSpec, QuietCommitsClose

(* No restart gives a role back a code that an admin took from it, unless  *)
(* another code of the role requires it.                                   *)
THEOREM RemovalsAlwaysKept == RolesSpec => RemovalsKept
  <1>1. ASSUME RolesInv, NEW w \in Worker, SeedCommit(w), NEW r \in Role, RoleExists(r),
               NEW c \in (roles'[r].codes \ roles[r].codes) \cap catalog
        PROVE  c \in Resolve((workers[w].roles[r].codes \cup roles'[r].codes) \ {c})
    <2>1. PICK read, row : read = workers[w] /\ row = read.roles[r]
      OBVIOUS
    <2>2. PICK C : C = row.codes \cup Granted(read, row)
      OBVIOUS
    <2>3. /\ row \in RoleRow /\ roles'[r] \in RoleRow
          /\ roles'[r].codes = roles[r].codes \cup (Resolve(C) \ row.codes)
      BY <1>1, <2>1, <2>2, SeedCommitRows DEF Seeded
    <2>4. PICK Y : Y = (row.codes \cup roles'[r].codes) \ {c}
      OBVIOUS
    <2>5. C \in SUBSET Code /\ C \subseteq Resolve(C) /\ Y \in SUBSET Code
      BY <2>1, <2>2, <2>3, <2>4, SeededCloses, ResolveCloses DEF RoleRow
    <2>6. c \in Resolve(C) /\ c \notin row.codes
      BY <2>3
    <2>7. c \notin Granted(read, row)
      BY <1>1, <2>1 DEF SeedCommit, SeedConflicts, Granted
    <2>8. C \subseteq Y
      BY <2>2, <2>3, <2>4, <2>5, <2>6, <2>7
    <2>9. Resolve(Y) \in SUBSET Code /\ C \subseteq Resolve(Y) /\ Closed(Resolve(Y))
      BY <2>5, <2>8, ResolveCloses
    <2>10. Resolve(C) \subseteq Resolve(Y)
      BY <2>5, <2>9, ResolveIsLeast
    <2> QED
      BY <2>1, <2>4, <2>6, <2>10
  <1>2. RolesInv /\ [RolesNext]_roleVars =>
          [\A w \in Worker : Seeds(w) =>
             \A r \in Role : RoleExists(r) =>
               \A c \in (roles'[r].codes \ roles[r].codes) \cap catalog :
                 c \in Resolve((workers[w].roles[r].codes \cup roles'[r].codes) \ {c})]_roleVars
    BY <1>1, WhoCommits
  <1> QED
    BY <1>2, RolesStart, RolesStep, PTL DEF RolesSpec, RemovalsKept
=============================================================================
