------------------------------- MODULE Imports -------------------------------
(***************************************************************************)
(* Bulk import of leads and of contacts: one request walks the rows of an  *)
(* uploaded file, commits each row it can insert and reports the others.   *)
(* Other imports and single creations go on between two rows.              *)
(*                                                                         *)
(* A rejected INSERT rolls the session back, which expires the requester   *)
(* object too.  The next read of requester.id then raises MissingGreenlet, *)
(* which neither loop catches: the request ends with an error and the rows *)
(* left are not imported.  An import of leads reads it for the body of     *)
(* every row, one of contacts only for the audit row of an inserted one.   *)
(*                                                                         *)
(* Addresses are compared in lower case and are members of Email.  A row   *)
(* is one step: its INSERT and COMMIT meet another session only in the     *)
(* unique index.  Nothing is deleted while imports run here.               *)
(***************************************************************************)
EXTENDS Naturals, Sequences, FiniteSets

CONSTANTS
  Import,      (* users uploading a file, again until it is done           *)
  Email,       (* addresses                                                *)
  Files,       (* the files there are: sequences of rows                   *)
  Additional,  (* the additional contact addresses of existing leads       *)
  MaxCrashes,  (* bound: requests that lose their connection or worker     *)
  None         (* a row without an address, no file                        *)

Kinds == {"leads", "contacts"}

(* valid: LeadUpsert or ContactCreate accepts the row.                     *)
Row == [email : Email \cup {None}, valid : BOOLEAN]

ASSUME FileAssumption ==
  /\ \A f \in Files : f \in Seq(Row) /\ \A i \in DOMAIN f : f[i].valid => f[i].email # None
  /\ Additional \subseteq Email /\ None \notin Email /\ MaxCrashes \in Nat

VARIABLES
  stored,    (* the addresses of the leads and of the contacts there are   *)
  uploads,   (* the import each user is making                             *)
  crashes    (* requests lost so far                                       *)

importVars == <<stored, uploads, crashes>>

(* next: the row to do; known: existing_emails, read once; seen: the rows  *)
(* created, by address; errors: the rows reported; expired: a rollback has *)
(* expired the requester.                                                  *)
Running ==
  [phase : {"rows", "done", "failed"}, kind : Kinds, file : Files,
   next : Nat, known : SUBSET Email, seen : SUBSET Email, created : Nat,
   errors : SUBSET Nat, expired : BOOLEAN]

NoUpload == [phase |-> "none"]

ImportsTypeOK ==
  /\ stored \in [Kinds -> SUBSET Email]
  /\ uploads \in [Import -> Running \cup {NoUpload}]
  /\ crashes \in 0..MaxCrashes

ImportsInit ==
  /\ stored = [k \in Kinds |-> {}]
  /\ uploads = [i \in Import |-> NoUpload]
  /\ crashes = 0
-----------------------------------------------------------------------------
(* The addresses the unique index of the INSERT rejects: for a lead, the   *)
(* mirror row meets the additional addresses of other leads too.           *)
Rejected(k) == IF k = "leads" THEN stored[k] \cup Additional ELSE stored[k]

EmailsIn(f) == {f[j].email : j \in DOMAIN f} \ {None}

(* mutant of Started: which addresses exist already is not asked           *)
StartedBlind(k, f) ==
  [phase |-> "rows", kind |-> k, file |-> f, next |-> 1, known |-> {},
   seen |-> {}, created |-> 0, errors |-> {}, expired |-> FALSE]

(* The start of import_leads and import_contacts: the rows are parsed, and *)
(* one SELECT says which addresses exist already.                          *)
Started(k, f) ==
  [phase |-> "rows", kind |-> k, file |-> f, next |-> 1,
   known |-> EmailsIn(f) \cap stored[k], seen |-> {}, created |-> 0,
   errors |-> {}, expired |-> FALSE]

Upload(i, k, f) ==
  /\ uploads[i] = NoUpload
  /\ uploads' = [uploads EXCEPT ![i] = Started(k, f)]
  /\ UNCHANGED <<stored, crashes>>

(* The user uploads the same file again after an error.                    *)
UploadAgain(i) ==
  /\ uploads[i].phase = "failed"
  /\ uploads' = [uploads EXCEPT ![i] = Started(@.kind, @.file)]
  /\ UNCHANGED <<stored, crashes>>

HasRow(i) == uploads[i].phase = "rows" /\ uploads[i].next <= Len(uploads[i].file)
RowOf(i) == uploads[i].file[uploads[i].next]

(* The row is found in the database or earlier in the file.                *)
Duplicate(i) == RowOf(i).email \in uploads[i].known \cup uploads[i].seen

(* Where the loop reads requester.id.                                      *)
ReadsRequester(i) ==
  /\ HasRow(i) /\ ~Duplicate(i)
  /\ \/ uploads[i].kind = "leads"
     \/ RowOf(i).valid /\ RowOf(i).email \notin Rejected("contacts")

Proceeds(i) == HasRow(i) /\ ~(ReadsRequester(i) /\ uploads[i].expired)

Report(i, expired) ==
  /\ uploads' = [uploads EXCEPT ![i].next = @ + 1,
                                ![i].errors = @ \cup {uploads[i].next},
                                ![i].expired = @ \/ expired]
  /\ UNCHANGED <<stored, crashes>>

(* A duplicate, or a row its schema refuses.                               *)
ReportRow(i) ==
  /\ Proceeds(i)
  /\ Duplicate(i) \/ ~RowOf(i).valid
  /\ Report(i, FALSE)

(* create_lead and create_contact roll back and raise the duplicate error. *)
RejectRow(i) ==
  /\ Proceeds(i) /\ ~Duplicate(i) /\ RowOf(i).valid
  /\ RowOf(i).email \in Rejected(uploads[i].kind)
  /\ Report(i, TRUE)

(* mutant of CommittedBy: rows are committed at the end of the file        *)
CommittedAtEnd(u, e) ==
  IF u.next = Len(u.file) THEN u.seen \cup {e} ELSE {}

(* Each row is committed at once.                                          *)
CommittedBy(u, e) == {e}

InsertRow(i) ==
  LET u == uploads[i]
      e == RowOf(i).email
  IN  /\ Proceeds(i) /\ ~Duplicate(i) /\ RowOf(i).valid
      /\ e \notin Rejected(u.kind)
      /\ stored' = [stored EXCEPT ![u.kind] = @ \cup CommittedBy(u, e)]
      /\ uploads' = [uploads EXCEPT ![i].next = @ + 1,
                                    ![i].seen = @ \cup {e},
                                    ![i].created = @ + 1]
      /\ UNCHANGED crashes

(* MissingGreenlet                                                         *)
Abort(i) ==
  /\ HasRow(i)
  /\ ReadsRequester(i) /\ uploads[i].expired
  /\ uploads' = [uploads EXCEPT ![i].phase = "failed"]
  /\ UNCHANGED <<stored, crashes>>

Answer(i) ==
  /\ uploads[i].phase = "rows" /\ ~HasRow(i)
  /\ uploads' = [uploads EXCEPT ![i].phase = "done"]
  /\ UNCHANGED <<stored, crashes>>

(* The connection or the worker goes between two rows.                     *)
Crash(i) ==
  /\ uploads[i].phase = "rows"
  /\ crashes < MaxCrashes
  /\ crashes' = crashes + 1
  /\ uploads' = [uploads EXCEPT ![i].phase = "failed"]
  /\ UNCHANGED stored

(* POST /leads and POST /contacts of other users                           *)
CreateElsewhere(k, e) ==
  /\ e \notin Rejected(k)
  /\ stored' = [stored EXCEPT ![k] = @ \cup {e}]
  /\ UNCHANGED <<uploads, crashes>>
-----------------------------------------------------------------------------
Step(i) == ReportRow(i) \/ RejectRow(i) \/ InsertRow(i) \/ Abort(i) \/ Answer(i)

ImportsNext ==
  \/ \E i \in Import :
       \/ \E k \in Kinds, f \in Files : Upload(i, k, f)
       \/ UploadAgain(i) \/ Step(i) \/ Crash(i)
  \/ \E k \in Kinds, e \in Email : CreateElsewhere(k, e)

ImportsSpec == ImportsInit /\ [][ImportsNext]_importVars

(* A request that walks rows goes on, and its user tries again.            *)
ImportsFairness ==
  \A i \in Import : WF_importVars(Step(i)) /\ WF_importVars(UploadAgain(i))
-----------------------------------------------------------------------------
(* Properties                                                              *)

(* However an import ends (answer, error, lost worker), every good row it  *)
(* got past is in the database, and each of those rows was either counted  *)
(* as created or reported: the rollback of one row loses no other.         *)
NoRowLost ==
  \A i \in Import : uploads[i].phase # "none" =>
    LET u == uploads[i]
        past == 1..(u.next - 1)
    IN  /\ \A j \in past : u.file[j].valid =>
             u.file[j].email \in Rejected(u.kind)
        /\ u.created + Cardinality(u.errors) = Cardinality(past)
        /\ u.errors \subseteq past

(* Uploading the same file again after a failure gets it done, where no    *)
(* row meets an additional address of an existing lead.                    *)
RetriesFinish ==
  \A i \in Import : uploads[i].phase = "rows" ~> uploads[i].phase = "done"

(* "Per-row errors ... are collected instead of failing the whole batch on *)
(* one bad row."  (No worker is lost in the run that checks this.)         *)
NoBatchFails == \A i \in Import : uploads[i].phase # "failed"
=============================================================================
