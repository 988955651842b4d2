-------------------------- MODULE SourceDocuments --------------------------
(***************************************************************************)
(* The status machine of source_documents.  Constant operators only.       *)
(***************************************************************************)

(* SourceDocumentStateMachine: LEGAL_TRANSITIONS. *)
LEGAL_TRANSITIONS ==
    [uploaded          |-> {"validating"},
     validating        |-> {"archived", "security_rejected"},
     archived          |-> {"parsing"},
     parsing           |-> {"parsed", "parse_failed"},
     parsed            |-> {"graphify_pending"},
     parse_failed      |-> {"uploaded"},
     security_rejected |-> {"uploaded"},
     graphify_pending  |-> {"graphify_running"},
     graphify_running  |-> {"wiki_proposed", "graphify_failed"},
     graphify_failed   |-> {"graphify_pending"},
     wiki_proposed     |-> {"published", "sync_failed"},
     sync_failed       |-> {"wiki_proposed"},
     published         |-> {"indexed"},
     indexed           |-> {"index_failed"},
     index_failed      |-> {"indexed"}]

(* SourceDocumentRepository.updateStatus reads the status, asserts that    *)
(* the transition is legal (staying is), and updates the row if the status *)
(* is still the one read.  A lost race is an error like an illegal move,   *)
(* so one step that may also fail stands for it.                           *)
AnyMove(from, to) == TRUE          \* mutant: the transition is not asserted
CanMove(from, to) == from = to \/ to \in LEGAL_TRANSITIONS[from]
=============================================================================
