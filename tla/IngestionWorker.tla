--------------------------- MODULE IngestionWorker ---------------------------
(***************************************************************************)
(* The ingestion worker: it downloads the archived file of a job, parses   *)
(* it, or each member of a ZIP, uploads the parsed Markdown and a preview, *)
(* and reports (apps/ingestion-worker handlers; run_once of the shared     *)
(* protocol).  The API's side of the protocol is WorkerProtocol's; here it *)
(* is what a worker can tell of it: a report counts while the worker owns  *)
(* the job, and the scan of dead workers can take the job away.            *)
(*                                                                         *)
(* A document is good or bad: bad stands for an unsafe name, an unknown    *)
(* type, content that does not parse, or takes longer than the timeout.    *)
(***************************************************************************)
EXTENDS Naturals, Sequences

CONSTANTS
    IngestWorkers,
    MaxDocuments,       \* bound: members of a ZIP
    IngestAttempts,     \* max_attempts of the job
    MaxIngestFaults     \* bound: calls that fail and scans that take the job

VARIABLES
    file,       \* is it a ZIP, and what are its documents
    task,       \* the job: status, owner, attempts, and the result's documents
    hand,       \* what each worker does
    stored,     \* the artefacts in the archive bucket
    late,       \* ghost: documents a worker stored after it lost the job
    ingestFaults

ingestVars == <<file, task, hand, stored, late, ingestFaults>>

NoOne   == "none"
AtRest  == [step |-> "idle", docs |-> <<>>, retryable |-> TRUE]
Places  == {"parsed", "preview"}

IngestInit ==
    /\ file \in [zip : BOOLEAN, kinds : UNION {[1..n -> {"good", "bad"}] : n \in 1..MaxDocuments}]
    /\ ~file.zip => Len(file.kinds) = 1
    /\ task = [status |-> "pending", owner |-> NoOne, attempts |-> 0, docs |-> <<>>]
    /\ hand = [w \in IngestWorkers |-> AtRest]
    /\ stored = {}
    /\ late = [w \in IngestWorkers |-> 0]
    /\ ingestFaults = 0

At(w, step) == hand[w].step = step
To(w, step) == hand' = [hand EXCEPT ![w].step = step]
Owns(w) == task.status = "running" /\ task.owner = w
Fault == ingestFaults < MaxIngestFaults /\ ingestFaults' = ingestFaults + 1
Current(w) == Len(hand[w].docs) + 1

\* mutant: the answer to a report is not looked at
AnyAnswer(w) == TRUE

\* report_progress raises unless the API takes the report.
Accepted(w) == Owns(w)

Raises(w, retryable) ==
    hand' = [hand EXCEPT ![w].step = "failing", ![w].retryable = retryable]

\* handle wraps what a ZIP raises, reports included, as a parse error.
ReportRaises(w) == Raises(w, ~file.zip)

\* What a member of a ZIP raises makes it a failed document; a file on its
\* own passes it on.
DocumentRaises(w, retryable) ==
    IF file.zip THEN hand' = [hand EXCEPT ![w].step = "next", ![w].docs = Append(@, "parse_failed")]
    ELSE Raises(w, retryable)

-----------------------------------------------------------------------------
Claim(w) ==
    /\ At(w, "idle") /\ task.status = "pending"
    /\ task' = [task EXCEPT !.status = "running", !.owner = w]
    /\ hand' = [hand EXCEPT ![w] = [AtRest EXCEPT !.step = "download"]]
    /\ late' = [late EXCEPT ![w] = 0]
    /\ UNCHANGED <<file, stored, ingestFaults>>

DownloadError(w) == Raises(w, TRUE)

Download(w) ==
    /\ At(w, "download")
    /\ \/ To(w, "report") /\ UNCHANGED ingestFaults
       \/ Fault /\ DownloadError(w)
    /\ UNCHANGED <<file, task, stored, late>>

\* progress before a document is parsed: not within the member's own try.
ReportParsing(w) ==
    /\ At(w, "report")
    /\ \/ Accepted(w) /\ To(w, "parse") /\ UNCHANGED ingestFaults
       \/ ~Accepted(w) /\ ReportRaises(w) /\ UNCHANGED ingestFaults
       \/ Fault /\ ReportRaises(w)
    /\ UNCHANGED <<file, task, stored, late>>

Parse(w) ==
    /\ At(w, "parse")
    /\ IF file.kinds[Current(w)] = "good" THEN To(w, "output") ELSE DocumentRaises(w, FALSE)
    /\ UNCHANGED <<file, task, stored, late, ingestFaults>>

\* progress before the upload: within it.
ReportOutput(w) ==
    /\ At(w, "output")
    /\ \/ Accepted(w) /\ To(w, "parsed") /\ UNCHANGED ingestFaults
       \/ ~Accepted(w) /\ DocumentRaises(w, TRUE) /\ UNCHANGED ingestFaults
       \/ Fault /\ DocumentRaises(w, TRUE)
    /\ UNCHANGED <<file, task, stored, late>>

Listed(w) == hand' = [hand EXCEPT ![w].step = "next", ![w].docs = Append(@, "parsed")]

\* mutant: what could not be stored is listed all the same
ListsAnyway(w) == Listed(w)

UploadError(w) == DocumentRaises(w, TRUE)

\* The Markdown first, then the preview; keys are made of the content's hash.
Upload(w, place) ==
    /\ At(w, place)
    /\ \/ /\ stored' = stored \cup {<<Current(w), place>>}
          /\ IF place = "parsed" THEN To(w, "preview") ELSE Listed(w)
          /\ late' = IF place = "parsed" /\ ~Owns(w) THEN [late EXCEPT ![w] = @ + 1] ELSE late
          /\ UNCHANGED ingestFaults
       \/ Fault /\ UploadError(w) /\ UNCHANGED <<stored, late>>
    /\ UNCHANGED <<file, task>>

HasParsed(w) == \E i \in DOMAIN hand[w].docs : hand[w].docs[i] = "parsed"

NextDocument(w) ==
    /\ At(w, "next")
    /\ IF Current(w) <= Len(file.kinds) THEN To(w, "report")
       ELSE IF HasParsed(w) THEN To(w, "done") ELSE Raises(w, FALSE)
    /\ UNCHANGED <<file, task, stored, late, ingestFaults>>

ReportDone(w) ==
    /\ At(w, "done")
    /\ \/ Accepted(w) /\ To(w, "complete") /\ UNCHANGED ingestFaults
       \/ ~Accepted(w) /\ ReportRaises(w) /\ UNCHANGED ingestFaults
       \/ Fault /\ ReportRaises(w)
    /\ UNCHANGED <<file, task, stored, late>>

\* A completion that is refused or lost leaves the worker free.
CompleteJob(w) ==
    /\ At(w, "complete") /\ hand' = [hand EXCEPT ![w] = AtRest]
    /\ \/ /\ Owns(w) /\ task' = [task EXCEPT !.status = "succeeded", !.docs = hand[w].docs]
          /\ UNCHANGED ingestFaults
       \/ ~Owns(w) /\ UNCHANGED <<task, ingestFaults>>
       \/ Fault /\ UNCHANGED task
    /\ UNCHANGED <<file, stored, late>>

AttemptFails(retryable) ==
    task' = [task EXCEPT !.attempts = @ + 1, !.owner = NoOne,
                !.status = IF retryable /\ task.attempts + 1 < IngestAttempts THEN "pending" ELSE "failed"]

FailJob(w) ==
    /\ At(w, "failing") /\ hand' = [hand EXCEPT ![w] = AtRest]
    /\ \/ Owns(w) /\ AttemptFails(hand[w].retryable) /\ UNCHANGED ingestFaults
       \/ ~Owns(w) /\ UNCHANGED <<task, ingestFaults>>
       \/ Fault /\ UNCHANGED task
    /\ UNCHANGED <<file, stored, late>>

\* The scan takes the job of a worker whose heartbeats it missed.
DeadWorkerScan ==
    /\ task.status = "running" /\ Fault /\ AttemptFails(TRUE)
    /\ UNCHANGED <<file, hand, stored, late>>

RunOnce(w) ==
    \/ Claim(w) \/ Download(w) \/ ReportParsing(w) \/ Parse(w) \/ ReportOutput(w)
    \/ \E place \in Places : Upload(w, place)
    \/ NextDocument(w) \/ ReportDone(w) \/ CompleteJob(w) \/ FailJob(w)

IngestNext == DeadWorkerScan \/ \E w \in IngestWorkers : RunOnce(w)

IngestSpec == IngestInit /\ [][IngestNext]_ingestVars

-----------------------------------------------------------------------------
(* Properties                                                              *)

\* The result of a job that succeeded tells the truth, whichever attempt of
\* whichever worker it came from: a document listed as parsed has both its
\* artefacts, and every document of the file is listed.
ListedIsStored ==
    task.status = "succeeded" =>
        /\ Len(task.docs) = Len(file.kinds)
        /\ \A i \in DOMAIN task.docs : task.docs[i] = "parsed" =>
               \A place \in Places : <<i, place>> \in stored

\* A worker that lost the job learns it from its reports: it stores the
\* document at hand and no other.
LoserStoresOneMore == \A w \in IngestWorkers : late[w] <= 1

\* A good file on its own fails for good only when its attempts are used up.
GoodFileIsRetried ==
    ~file.zip /\ file.kinds[1] = "good" /\ task.status = "failed" => task.attempts = IngestAttempts

=============================================================================
