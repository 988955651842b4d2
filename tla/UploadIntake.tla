---------------------------- MODULE UploadIntake ----------------------------
(***************************************************************************)
(* How content enters the system: UploadsService.uploadFile, the reuse of  *)
(* a file blob that exists already, and linkBlob for fetched URLs.  All    *)
(* requests here carry the same content (one SHA-256 in one tenant): the   *)
(* interesting races are between them.  The unique constraints on          *)
(* (tenant, sha256) and (space, blob), and the order of object-store and   *)
(* database calls, are what the handlers rely on.                          *)
(*                                                                         *)
(* Each await of a handler is a step of its own.  A handler may stop at    *)
(* any step (an error, a crash): what it did stays.                        *)
(***************************************************************************)
EXTENDS SourceDocuments

CONSTANTS
    UpSpaces,      \* spaces the content is uploaded to
    UploadIds,     \* upload requests; the id is also its quarantine key
    UrlSpaces      \* spaces with a URL document whose fetch returns the content

(* The names of rows that are not there, and of the archive, are no keys.  *)
ASSUME IntakeNames ==
    /\ {"none", "archive"} \cap UploadIds = {}
    /\ "none" \notin UpSpaces /\ UrlSpaces \subseteq UpSpaces

VARIABLES
    blob,        \* file_blobs.storage_uri of the content: "none", a quarantine key, "archive"
    objects,     \* objects in the store that hold the content
    docs,        \* docs[s]: the source document of the space that references the blob
    validations, \* validation jobs created and not yet run: space and quarantine key
    ingestions,  \* spaces whose document has an ingestion job
    upload,      \* uploadFile requests
    link         \* the URL document of a space and its linkBlob call

upVars == <<blob, objects, docs, validations, ingestions, upload, link>>

NoDoc == [status |-> "none", key |-> "none"]

(* seen is the storage_uri of the blob row the request works with. *)
NewUpload == [pc |-> "new", space |-> "none", small |-> FALSE, seen |-> "none"]

UploadInit ==
    /\ blob = "none"
    /\ objects = {}
    /\ docs = [s \in UpSpaces |-> NoDoc]
    /\ validations = {}
    /\ ingestions = {}
    /\ upload = [u \in UploadIds |-> NewUpload]
    /\ link = [s \in UrlSpaces |-> [pc |-> "fetched", status |-> "uploaded"]]

At(u, pc) == upload[u].pc = pc
Goto(u, pc) == upload' = [upload EXCEPT ![u].pc = pc]
Space(u) == upload[u].space
HasDoc(s) == docs[s].status # "none"

(* updateStatus of the document in the request's space: on to pc, or error.*)
Moved(u, status, pc) ==
    LET ok == CanMove(docs[Space(u)].status, status)
    IN  /\ docs' = IF ok THEN [docs EXCEPT ![Space(u)].status = status] ELSE docs
        /\ Goto(u, IF ok THEN pc ELSE "error")

-----------------------------------------------------------------------------
(* uploadFile *)

(* findByTenantAndSha256 decides between a new and a known content.  Files *)
(* of at most 5 MB (small) are validated within the request.               *)
UploadFile(u, s, small) ==
    /\ At(u, "new")
    /\ upload' = [upload EXCEPT ![u] = [@ EXCEPT !.space = s, !.small = small, !.seen = blob,
                                         !.pc = IF blob = "none" THEN "store" ELSE "existing"]]
    /\ UNCHANGED <<blob, objects, docs, validations, ingestions, link>>

UploadToQuarantine(u) ==
    /\ At(u, "store")
    /\ objects' = objects \cup {u}
    /\ Goto(u, "create")
    /\ UNCHANGED <<blob, docs, validations, ingestions, link>>

(* FileBlobRepository.create; the loser of the race takes its object back. *)
CreateBlob(u) ==
    /\ At(u, "create")
    /\ blob' = IF blob = "none" THEN u ELSE blob
    /\ upload' = [upload EXCEPT ![u].pc = IF blob = "none" THEN "source" ELSE "drop", ![u].seen = u]
    /\ UNCHANGED <<objects, docs, validations, ingestions, link>>

KeepObject(u) ==           \* mutant: the loser's object is not deleted
    /\ At(u, "drop")
    /\ upload' = [upload EXCEPT ![u].seen = blob, ![u].pc = "existing"]
    /\ UNCHANGED <<blob, objects, docs, validations, ingestions, link>>

DropQuarantine(u) ==
    /\ At(u, "drop")
    /\ objects' = objects \ {u}
    /\ upload' = [upload EXCEPT ![u].seen = blob, ![u].pc = "existing"]
    /\ UNCHANGED <<blob, docs, validations, ingestions, link>>

(* createSourceDocumentWithDedup, for the winner. *)
CreateSource(u) ==
    /\ At(u, "source")
    /\ \/ /\ ~HasDoc(Space(u))
          /\ docs' = [docs EXCEPT ![Space(u)] = [status |-> "uploaded", key |-> u]]
          /\ Goto(u, "mark")
       \/ HasDoc(Space(u)) /\ Goto(u, "undo") /\ UNCHANGED docs
    /\ UNCHANGED <<blob, objects, validations, ingestions, link>>

(* The document was there already: the quarantine object is deleted.       *)
UndoQuarantine(u) ==
    /\ At(u, "undo")
    /\ objects' = objects \ {u}
    /\ Goto(u, "duplicate")
    /\ UNCHANGED <<blob, docs, validations, ingestions, link>>

(* updateStatus(validating); a small file is validated here and now.       *)
MarkValidating(u) ==
    /\ At(u, "mark")
    /\ Moved(u, "validating", IF upload[u].small THEN "validate" ELSE "vjob")
    /\ UNCHANGED <<blob, objects, validations, ingestions, link>>

(* runSecurityValidation: the verdict depends on filename and MIME type.   *)
ValidateSmall(u, pass) ==
    /\ At(u, "validate")
    /\ \/ pass /\ Goto(u, "copy") /\ UNCHANGED docs
       \/ ~pass /\ Moved(u, "security_rejected", "rejected")
    /\ UNCHANGED <<blob, objects, validations, ingestions, link>>

(* promoteToArchive: copy, then delete.  Without the object, it throws.    *)
CopyToArchive(u) ==
    /\ At(u, "copy")
    /\ objects' = IF u \in objects THEN objects \cup {"archive"} ELSE objects
    /\ Goto(u, IF u \in objects THEN "delete" ELSE "error")
    /\ UNCHANGED <<blob, docs, validations, ingestions, link>>

DeleteQuarantine(u) ==
    /\ At(u, "delete")
    /\ objects' = objects \ {u}
    /\ Goto(u, "uri")
    /\ UNCHANGED <<blob, docs, validations, ingestions, link>>

UpdateStorageUri(u) ==
    /\ At(u, "uri")
    /\ blob' = "archive"
    /\ Goto(u, "archive")
    /\ UNCHANGED <<objects, docs, validations, ingestions, link>>

ArchiveDocument(u) ==
    /\ At(u, "archive")
    /\ Moved(u, "archived", "ingest")
    /\ UNCHANGED <<blob, objects, validations, ingestions, link>>

(* createIngestionJob with the key ingestion:<document>:initial.           *)
ForgetJob(u) ==            \* mutant: answers without a job
    /\ At(u, "ingest")
    /\ Goto(u, "created")
    /\ UNCHANGED <<blob, objects, docs, validations, ingestions, link>>

CreateIngestionJob(u) ==
    /\ At(u, "ingest")
    /\ ingestions' = ingestions \cup {Space(u)}
    /\ Goto(u, "created")
    /\ UNCHANGED <<blob, objects, docs, validations, link>>

-----------------------------------------------------------------------------
(* createSourceForExistingBlob and requeueExistingBlobDocument *)

(* findBySpaceAndBlob: a rejected document is reset, any other is returned.*)
FindSource(u) ==
    /\ At(u, "existing")
    /\ LET d == docs[Space(u)] IN
       \/ d.status = "none" /\ Goto(u, "insert") /\ UNCHANGED docs
       \/ d.status = "security_rejected" /\ Goto(u, "reset") /\ UNCHANGED docs
       \/ /\ d.status \notin {"none", "security_rejected"}
          /\ Goto(u, "duplicate") /\ UNCHANGED docs
    /\ UNCHANGED <<blob, objects, validations, ingestions, link>>

ResetRejected(u) ==
    /\ At(u, "reset")
    /\ Moved(u, "uploaded", "requeue")
    /\ UNCHANGED <<blob, objects, validations, ingestions, link>>

(* The new document starts as the blob row read earlier says.              *)
InsertSource(u) ==
    /\ At(u, "insert")
    /\ \/ /\ ~HasDoc(Space(u))
          /\ docs' = [docs EXCEPT ![Space(u)] =
                [status |-> IF upload[u].seen = "archive" THEN "archived" ELSE "uploaded",
                 key |-> upload[u].seen]]
          /\ Goto(u, "requeue")
       \/ HasDoc(Space(u)) /\ Goto(u, "duplicate") /\ UNCHANGED docs
    /\ UNCHANGED <<blob, objects, validations, ingestions, link>>

Requeue(u) ==
    /\ At(u, "requeue")
    /\ \/ upload[u].seen = "archive" /\ Goto(u, "ingest") /\ UNCHANGED docs
       \/ upload[u].seen # "archive" /\ Moved(u, "validating", "vjob")
    /\ UNCHANGED <<blob, objects, validations, ingestions, link>>

CreateValidationJob(u) ==
    /\ At(u, "vjob")
    /\ validations' = validations \cup {[space |-> Space(u), key |-> upload[u].seen]}
    /\ Goto(u, "created")
    /\ UNCHANGED <<blob, objects, docs, ingestions, link>>

(* An error or a crash ends the request; the client sees a failure.        *)
UploadAborts(u) ==
    /\ upload[u].pc \notin {"new", "created", "duplicate", "rejected", "error"}
    /\ Goto(u, "error")
    /\ UNCHANGED <<blob, objects, docs, validations, ingestions, link>>

-----------------------------------------------------------------------------
(* The validation job of a document (ValidationJobs has its steps): validate*)
(* the object its payload names, then completeValidation.  Without the     *)
(* object every attempt fails and the document stays as it is.             *)
RunValidation(j, pass) ==
    /\ j \in validations
    /\ LET found == j.key \in objects
           verdict == IF pass THEN "archived" ELSE "security_rejected"
           moves == found /\ CanMove(docs[j.space].status, verdict)
       IN  /\ objects' = IF found /\ pass THEN (objects \ {j.key}) \cup {"archive"} ELSE objects
           /\ blob' = IF found /\ pass THEN "archive" ELSE blob
           /\ docs' = IF moves THEN [docs EXCEPT ![j.space].status = verdict] ELSE docs
           /\ ingestions' = IF moves /\ pass THEN ingestions \cup {j.space} ELSE ingestions
    /\ validations' = validations \ {j}
    /\ UNCHANGED <<upload, link>>

-----------------------------------------------------------------------------
(* linkBlob, when a URL has been fetched.  The fetcher stored its snapshot *)
(* in the archive (under a key of its own, which is not distinguished from *)
(* that of an archived upload); the row is created unless the content is   *)
(* known.                                                                  *)
LinkGoto(s, pc) == link' = [link EXCEPT ![s].pc = pc]

LinkCreateBlob(s) ==
    /\ link[s].pc = "fetched"
    /\ blob' = IF blob = "none" THEN "archive" ELSE blob
    /\ objects' = objects \cup {"archive"}
    /\ LinkGoto(s, "find")
    /\ UNCHANGED <<docs, validations, ingestions, upload>>

(* Another document of the space has the content: this one is marked a     *)
(* duplicate, and archived if the content is.                              *)
LinkFind(s) ==
    /\ link[s].pc = "find"
    /\ link' = [link EXCEPT ![s].pc = IF HasDoc(s) THEN "duplicate" ELSE "write",
                            ![s].status = IF HasDoc(s) /\ blob = "archive" THEN "archived" ELSE @]
    /\ UNCHANGED <<blob, objects, docs, validations, ingestions, upload>>

(* SourceDocumentRepository.linkBlob; the unique constraint may refuse.    *)
LinkWrite(s) ==
    /\ link[s].pc = "write"
    /\ docs' = IF HasDoc(s) THEN docs
               ELSE [docs EXCEPT ![s] = [status |-> "uploaded", key |-> "none"]]
    /\ LinkGoto(s, IF HasDoc(s) THEN "error" ELSE "advance")
    /\ UNCHANGED <<blob, objects, validations, ingestions, upload>>

LinkArchive(s) ==
    /\ link[s].pc = "advance"
    /\ docs' = [docs EXCEPT ![s].status = "archived"]
    /\ LinkGoto(s, "ingest")
    /\ UNCHANGED <<blob, objects, validations, ingestions, upload>>

LinkIngest(s) ==
    /\ link[s].pc = "ingest"
    /\ ingestions' = ingestions \cup {s}
    /\ LinkGoto(s, "linked")
    /\ UNCHANGED <<blob, objects, docs, validations, upload>>

(* Errors of linkBlob are logged. *)
LinkAborts(s) ==
    /\ link[s].pc \in {"find", "write", "advance", "ingest"}
    /\ LinkGoto(s, "error")
    /\ UNCHANGED <<blob, objects, docs, validations, ingestions, upload>>

UploadStep(u) ==
    \/ \E s \in UpSpaces, small \in BOOLEAN : UploadFile(u, s, small)
    \/ UploadToQuarantine(u) \/ CreateBlob(u) \/ DropQuarantine(u)
    \/ CreateSource(u) \/ UndoQuarantine(u) \/ MarkValidating(u)
    \/ \E pass \in BOOLEAN : ValidateSmall(u, pass)
    \/ CopyToArchive(u) \/ DeleteQuarantine(u) \/ UpdateStorageUri(u)
    \/ ArchiveDocument(u) \/ CreateIngestionJob(u)
    \/ FindSource(u) \/ ResetRejected(u) \/ InsertSource(u) \/ Requeue(u) \/ CreateValidationJob(u)

LinkStep(s) ==
    LinkCreateBlob(s) \/ LinkFind(s) \/ LinkWrite(s) \/ LinkArchive(s) \/ LinkIngest(s)

UploadNext ==
    \/ \E u \in UploadIds : UploadStep(u) \/ UploadAborts(u)
    \/ \E j \in validations, pass \in BOOLEAN : RunValidation(j, pass)
    \/ \E s \in UrlSpaces : LinkStep(s) \/ LinkAborts(s)

UploadSpec == UploadInit /\ [][UploadNext]_upVars

-----------------------------------------------------------------------------
(* Safety *)

Answered == {"created", "duplicate", "rejected"}
InFlight(s) == \/ \E u \in UploadIds : Space(u) = s /\ upload[u].pc \notin Answered
               \/ s \in UrlSpaces /\ link[s].pc \notin {"linked", "duplicate"}

(* A request that was answered leaves nothing behind in quarantine: its    *)
(* object is the one file_blobs names, or it is gone.  Two of the three    *)
(* deletions in uploadFile are there for the losers of a race.             *)
NoQuarantineLeak ==
    \A u \in UploadIds : upload[u].pc \in Answered /\ u \in objects => blob = u

(* A document of an upload is archived only when its content is in the     *)
(* archive, although the document of a known blob takes its first status   *)
(* from a row read earlier, and several documents share the object.        *)
ArchivedMeansStored ==
    \A s \in UpSpaces : docs[s].status = "archived" /\ docs[s].key # "none" => "archive" \in objects

(* An archived document has its ingestion job once the requests for its    *)
(* space were answered, whichever of them archived it.                     *)
ArchivedIsIngested ==
    \A s \in UpSpaces : docs[s].status = "archived" /\ ~InFlight(s) => s \in ingestions

(* What is uploaded is neither lost nor forgotten: no object stays in       *)
(* quarantine that nobody will look at, the content of an archived document *)
(* is in the archive, and the document has its ingestion job unless the     *)
(* request that was to create it was aborted.                               *)
IntakeKeepsContent == NoQuarantineLeak /\ ArchivedMeansStored /\ ArchivedIsIngested

=============================================================================
