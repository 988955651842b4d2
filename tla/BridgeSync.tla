----------------------------- MODULE BridgeSync -----------------------------
(***************************************************************************)
(* One wiki page and its copy in Docmost.                                  *)
(*                                                                         *)
(*  - A save in Docmost sends a webhook; BridgeEventService.receiveEvent   *)
(*    stores it once per event_id and queues a BullMQ job of that id.      *)
(*  - The page-sync processor (three slots) exports the page, merges it    *)
(*    and appends a version; reconcileOnStartup recovers events.           *)
(*  - A graphify run appends a version of its own; the docmost-push        *)
(*    processor (one slot) imports it into Docmost under an expected hash. *)
(*                                                                         *)
(* A text is a number, fresh for each block somebody writes; a version has *)
(* one text per block.  A hash of a text is the text.  Headings are not    *)
(* renamed here, so that mergeBlocks matches every block by its id: the    *)
(* other ways of matching are the subject of BlockMerge.  main.ts passes   *)
(* no permissionChecker, so checkSpaceEditPermission always allows.        *)
(***************************************************************************)
EXTENDS Naturals, Sequences, FiniteSets, FiniteSetsExt

CONSTANTS
  Blocks,          \* H2 blocks of the page
  Syncers,         \* slots of the page-sync worker, 3 in the code
  MaxSaves,        \* bound: saves and deletions in Docmost
  MaxRuns,         \* bound: graphify runs that write the page
  MaxBridgeErrors, \* bound: failing calls, crashes and failed enqueues
  MaxPublishes     \* bound: publish and unpublish requests

VARIABLES
  docmost,   \* the page in Docmost: its texts, and how often it changed
  wiki,      \* the wiki_pages row
  versions,  \* wiki_page_versions with page_block_metadata, in order of commit
  repo,      \* the texts of the file in the wiki repository
  event,     \* bridge_events, in the order they were sent
  inbox,     \* ids of the events received, in the order of received_at
  syncer,    \* the local variables of each page-sync slot
  push,      \* the docmost-push job: queued runs and the local variables
  proposed,  \* wiki_update_proposals
  typed,     \* history: texts written by a person
  bridgeErrors, published

bridgeVars == <<docmost, wiki, versions, repo, event, inbox, syncer, push,
                proposed, typed, bridgeErrors, published>>

\* Texts are numbered as they are written; the page starts with text 0.
Texts == Nat
FreshText == Cardinality(typed)
             + Cardinality({v \in DOMAIN versions : versions[v].source = "graphify"})
Gone == [b \in Blocks |-> 0]

NoSync == [pc |-> "idle", ev |-> 0, older |-> {}, base |-> 0, status |-> "draft",
           text |-> Gone, rev |-> 0]
NoPush == [pc |-> "idle", run |-> 0, todo |-> {}, v |-> 0, asked |-> FALSE,
           text |-> Gone, seen |-> Gone, conflicts |-> FALSE, failed |-> FALSE]

\* The page was generated by run 0 and pushed, or is not yet in Docmost.
BridgeInit ==
  /\ \E mapped \in BOOLEAN :
       /\ docmost = [there |-> mapped, text |-> Gone, rev |-> 0]
       /\ wiki = [status |-> "published", current |-> 1, sync |-> "synced",
                  mapped |-> mapped]
  /\ versions = <<[no |-> 1, status |-> "published", text |-> Gone, run |-> 0,
                   source |-> "graphify", human |-> {}, rev |-> 0]>>
  /\ repo = Gone
  /\ event = <<>>
  /\ inbox = <<>>
  /\ syncer = [w \in Syncers |-> NoSync]
  /\ push = [queue |-> {}, at |-> NoPush]
  /\ proposed = {}
  /\ typed = {}
  /\ bridgeErrors = 0
  /\ published = 0

BridgeError == /\ bridgeErrors < MaxBridgeErrors
               /\ bridgeErrors' = bridgeErrors + 1

-----------------------------------------------------------------------------
(* Docmost (external) and the webhook. *)

\* A person saves a block; Docmost sends page.saved.
Save(b) ==
  /\ docmost.there
  /\ Len(event) < MaxSaves
  /\ docmost' = [docmost EXCEPT !.text[b] = FreshText, !.rev = @ + 1]
  /\ typed' = typed \cup {FreshText}
  /\ event' = Append(event, [type |-> "saved", status |-> "sent", job |-> "none",
                             tries |-> 0])
  /\ UNCHANGED <<wiki, versions, repo, inbox, syncer, push, proposed,
                 bridgeErrors, published>>

DeletePage ==
  /\ docmost.there
  /\ Len(event) < MaxSaves
  /\ docmost' = [docmost EXCEPT !.there = FALSE, !.rev = @ + 1]
  /\ event' = Append(event, [type |-> "deleted", status |-> "sent",
                             job |-> "none", tries |-> 0])
  /\ UNCHANGED <<wiki, versions, repo, inbox, syncer, push, proposed, typed,
                 bridgeErrors, published>>

\* enqueueBridgeJob: BullMQ ignores an add whose jobId it still holds.
Enqueued(e) == [event[e] EXCEPT !.job = IF @ = "none" THEN "waiting" ELSE @]

\* receiveEvent, first delivery: the row is stored; a failure to enqueue is
\* logged and answered with success.
ReceiveEvent(e) ==
  /\ event[e].status = "sent"
  /\ inbox' = Append(inbox, e)
  /\ \/ /\ event' = [event EXCEPT ![e] = [Enqueued(e) EXCEPT !.status = "received"]]
        /\ UNCHANGED bridgeErrors
     \/ /\ BridgeError
        /\ event' = [event EXCEPT ![e].status = "received"]
  /\ UNCHANGED <<docmost, wiki, versions, repo, syncer, push, proposed, typed,
                 published>>

\* receiveEvent, a repeated delivery: the unique index refuses the row, and
\* an event that is not processed is queued again.
ReceiveDuplicate(e) ==
  /\ event[e].status \notin {"sent", "processed"}
  /\ event[e].job = "none"
  /\ event' = [event EXCEPT ![e] = Enqueued(e)]
  /\ UNCHANGED <<docmost, wiki, versions, repo, inbox, syncer, push, proposed,
                 typed, bridgeErrors, published>>

-----------------------------------------------------------------------------
(* Versions written by others. *)

\* The highest version number of the page.
LastNo == Max({versions[v].no : v \in DOMAIN versions})

RunAppends ==  \* mutant: the next number after the current version's
  /\ \E r \in 1..MaxRuns :
       /\ r = 1 + Max({versions[v].run : v \in DOMAIN versions})
       /\ versions' = Append(versions,
             [no |-> versions[wiki.current].no + 1, status |-> "published",
              run |-> r, text |-> [b \in Blocks |-> FreshText],
              source |-> "graphify", human |-> {}, rev |-> 0])
       /\ push' = [push EXCEPT !.queue = @ \cup {r}]
  /\ wiki' = [wiki EXCEPT !.status = "published", !.current = Len(versions) + 1]
  /\ UNCHANGED <<docmost, repo, event, inbox, syncer, proposed, typed,
                 bridgeErrors, published>>

\* WikiFromGraphService.upsertPage, and the push job of the run.  The new
\* version has no page_block_metadata.
RunCompletes ==
  /\ \E r \in 1..MaxRuns :
       /\ r = 1 + Max({versions[v].run : v \in DOMAIN versions})
       /\ versions' = Append(versions,
             [no |-> LastNo + 1, status |-> "published", run |-> r,
              text |-> [b \in Blocks |-> FreshText], source |-> "graphify",
              human |-> {}, rev |-> 0])
       /\ push' = [push EXCEPT !.queue = @ \cup {r}]
  /\ wiki' = [wiki EXCEPT !.status = "published", !.current = Len(versions) + 1]
  /\ UNCHANGED <<docmost, repo, event, inbox, syncer, proposed, typed,
                 bridgeErrors, published>>

\* WikiService.publish and unpublish of version v.
SetPublished(v) ==
  /\ published < MaxPublishes
  /\ published' = published + 1
  /\ LET status == IF versions[v].status = "draft" THEN "published" ELSE "draft"
     IN /\ versions' = [versions EXCEPT ![v].status = status]
        /\ wiki' = [wiki EXCEPT !.status = status, !.current = v]
  /\ UNCHANGED <<docmost, repo, event, inbox, syncer, push, proposed, typed,
                 bridgeErrors>>

-----------------------------------------------------------------------------
(* The page-sync processor, one action per awaited statement. *)

SyncAt(w, pc) == syncer[w].pc = pc

\* loadBridgeEventStatus: an event that has been settled ends the job.  A
\* failed one counts as settled, so the attempts BullMQ still has do nothing.
TakeEvent(w, e) ==
  /\ SyncAt(w, "idle")
  /\ event[e].job = "waiting"
  /\ IF event[e].status \in {"processed", "failed"}
     THEN /\ event' = [event EXCEPT ![e].job = "done"]
          /\ UNCHANGED syncer
     ELSE /\ event' = [event EXCEPT ![e].job = "active"]
          /\ syncer' = [syncer EXCEPT ![w] = [NoSync EXCEPT !.pc = "coalesce",
                                                            !.ev = e]]
  /\ UNCHANGED <<docmost, wiki, versions, repo, inbox, push, proposed, typed,
                 bridgeErrors, published>>

\* The received events of the page that coalesceStalePageEvents finds older
\* than the latest.
Older ==
  LET received == {k \in DOMAIN inbox : event[inbox[k]].status = "received"}
  IN {inbox[k] : k \in {j \in received : \E l \in received : j < l}}

CoalesceReads(w) ==
  /\ SyncAt(w, "coalesce")
  /\ syncer' = [syncer EXCEPT ![w].pc = "supersede", ![w].older = Older]
  /\ UNCHANGED <<docmost, wiki, versions, repo, event, inbox, push, proposed,
                 typed, bridgeErrors, published>>

\* The older events are marked without looking at their status again; when
\* this job's event is one of them it ends, else it is marked processing.
CoalesceWrites(w) ==
  /\ SyncAt(w, "supersede")
  /\ LET e == syncer[w].ev
         mine == e \in syncer[w].older
     IN /\ event' = [k \in DOMAIN event |->
             IF k = e
             THEN [event[k] EXCEPT !.status = IF mine THEN "processed" ELSE "processing",
                                   !.job = IF mine THEN "done" ELSE @]
             ELSE IF k \in syncer[w].older
             THEN [event[k] EXCEPT !.status = "processed"]
             ELSE event[k]]
        /\ syncer' = [syncer EXCEPT ![w] =
             IF mine THEN NoSync
             ELSE [@ EXCEPT !.pc = "page", !.older = {}]]
  /\ UNCHANGED <<docmost, wiki, versions, repo, inbox, push, proposed, typed,
                 bridgeErrors, published>>

\* The job of slot w ends with its event in the given status.
SyncEnds(w, status) ==
  /\ event' = [event EXCEPT ![syncer[w].ev].status = status,
                            ![syncer[w].ev].job = "done"]
  /\ syncer' = [syncer EXCEPT ![w] = NoSync]

\* findPageByDocmostPageId: an unknown page ends the job; else the row is
\* kept, current_version_id and status included.
SyncReadsPage(w) ==
  /\ SyncAt(w, "page")
  /\ event[syncer[w].ev].type = "saved"
  /\ \/ ~ wiki.mapped /\ SyncEnds(w, "processed")
     \/ /\ wiki.mapped
        /\ syncer' = [syncer EXCEPT ![w].pc = "export", ![w].base = wiki.current,
                                    ![w].status = wiki.status]
        /\ UNCHANGED event
  /\ UNCHANGED <<docmost, wiki, versions, repo, inbox, push, proposed, typed,
                 bridgeErrors, published>>

ExportPage(w) ==
  /\ SyncAt(w, "export")
  /\ docmost.there
  /\ syncer' = [syncer EXCEPT ![w].pc = "commit", ![w].text = docmost.text,
                              ![w].rev = docmost.rev]
  /\ UNCHANGED <<docmost, wiki, versions, repo, event, inbox, push, proposed,
                 typed, bridgeErrors, published>>

ThrowUnmarked(w) ==  \* mutant: without markBridgeEventFailed
  /\ LET e == syncer[w].ev
     IN event' = [event EXCEPT ![e] =
          [event[e] EXCEPT !.tries = event[e].tries + 1,
                           !.job = IF event[e].tries < 2 THEN "waiting" ELSE "done"]]
  /\ wiki' = [wiki EXCEPT !.sync = "sync_pending"]
  /\ syncer' = [syncer EXCEPT ![w] = NoSync]

\* The catch block: the event fails and the page is sync_pending; BullMQ
\* queues the job again while it has attempts left (3).
SyncThrows(w) ==
  /\ LET e == syncer[w].ev
     IN event' = [event EXCEPT ![e] =
          [event[e] EXCEPT !.status = "failed", !.tries = event[e].tries + 1,
                           !.job = IF event[e].tries < 2 THEN "waiting" ELSE "done"]]
  /\ wiki' = [wiki EXCEPT !.sync = "sync_pending"]
  /\ syncer' = [syncer EXCEPT ![w] = NoSync]

\* The blocks mergeBlocks attributes to a person: those it had no metadata
\* for, those whose text differs from the metadata's hash, and those that
\* already were a person's.  As no code writes metadata for a generated
\* version, that is every block.
MergedHuman == Blocks

\* A version number is taken when another job appended one meanwhile, or when
\* the current version is not the newest.
NumberTaken(no) == \E v \in DOMAIN versions : versions[v].no = no

\* commitToWikiRepo writes the file, then one transaction appends the version
\* with the status read before, its metadata and the event's end.
CommitVersion(w) ==
  /\ SyncAt(w, "commit")
  /\ repo' = syncer[w].text
  /\ LET base == versions[syncer[w].base]
     IN \/ /\ NumberTaken(base.no + 1)
           /\ SyncThrows(w)
           /\ UNCHANGED versions
        \/ /\ ~ NumberTaken(base.no + 1)
           /\ versions' = Append(versions,
                 [no |-> base.no + 1, status |-> syncer[w].status,
                  text |-> syncer[w].text, run |-> base.run,
                  source |-> "docmost", human |-> MergedHuman,
                  rev |-> syncer[w].rev])
           /\ wiki' = [wiki EXCEPT !.current = Len(versions) + 1,
                                   !.sync = "reindex_pending"]
           /\ event' = [event EXCEPT ![syncer[w].ev].status = "processed"]
           /\ syncer' = [syncer EXCEPT ![w].pc = "reindex"]
  /\ UNCHANGED <<docmost, inbox, push, proposed, typed, bridgeErrors, published>>

\* reindexQueue.add: when it fails the page stays reindex_pending.
SyncReindexes(w) ==
  /\ SyncAt(w, "reindex")
  /\ \/ wiki' = [wiki EXCEPT !.sync = "synced"] /\ UNCHANGED bridgeErrors
     \/ BridgeError /\ UNCHANGED wiki
  /\ event' = [event EXCEPT ![syncer[w].ev].job = "done"]
  /\ syncer' = [syncer EXCEPT ![w] = NoSync]
  /\ UNCHANGED <<docmost, versions, repo, inbox, push, proposed, typed, published>>

\* processPageDeleted: the page is archived; the event fails, without a
\* retry, when the index cannot be told.
SyncDeletes(w) ==
  /\ SyncAt(w, "page")
  /\ event[syncer[w].ev].type = "deleted"
  /\ wiki' = IF wiki.mapped THEN [wiki EXCEPT !.status = "archived"] ELSE wiki
  /\ \/ SyncEnds(w, "processed") /\ UNCHANGED bridgeErrors
     \/ wiki.mapped /\ BridgeError /\ SyncEnds(w, "failed")
  /\ UNCHANGED <<docmost, versions, repo, inbox, push, proposed, typed, published>>

\* The export fails: Docmost is away, or has no such page any more.
ExportFails(w) ==
  /\ SyncAt(w, "export")
  /\ \/ BridgeError
     \/ ~ docmost.there /\ UNCHANGED bridgeErrors
  /\ SyncThrows(w)
  /\ UNCHANGED <<docmost, versions, repo, inbox, push, proposed, typed, published>>

\* The process dies and starts again: BullMQ hands its jobs out again, and
\* reconcileOnStartup returns events that were processing for five minutes to
\* received and queues what is received.
Restart(old) ==
  /\ BridgeError
  /\ old \subseteq {e \in DOMAIN event : event[e].status = "processing"}
  /\ LET status(e) == IF e \in old THEN "received" ELSE event[e].status
         job(e) == CASE event[e].job = "active" -> "waiting"
                     [] event[e].job = "none" /\ status(e) = "received" -> "waiting"
                     [] OTHER -> event[e].job
     IN event' = [e \in DOMAIN event |->
                    [event[e] EXCEPT !.status = status(e), !.job = job(e)]]
  /\ syncer' = [w \in Syncers |-> NoSync]
  /\ push' = [queue |-> push.queue \cup ({push.at.run} \ {0}), at |-> NoPush]
  /\ UNCHANGED <<docmost, wiki, versions, repo, inbox, proposed, typed, published>>

-----------------------------------------------------------------------------
(* The docmost-push processor. *)

PushAt(pc) == push.at.pc = pc
PushGoes(at) == push' = [push EXCEPT !.at = at]

\* The newest version below number n, 0 if there is none.
Previous(v) ==
  LET below == {u \in DOMAIN versions : versions[u].no < versions[v].no}
  IN IF below = {} THEN 0
     ELSE CHOOSE u \in below : \A x \in below : versions[x].no <= versions[u].no

\* loadGraphifyRunPages: every version that carries the run's id, to be
\* pushed newest first.  A version page-sync made from the run's version
\* carries it too.
PushTakes(r) ==
  /\ PushAt("idle")
  /\ r \in push.queue
  /\ push' = [queue |-> push.queue \ {r},
              at |-> [NoPush EXCEPT !.pc = "build", !.run = r,
                        !.todo = {v \in DOMAIN versions : versions[v].run = r}]]
  /\ UNCHANGED <<docmost, wiki, versions, repo, event, inbox, syncer, proposed,
                 typed, bridgeErrors, published>>

IsNext(v) == v \in push.at.todo
             /\ \A u \in push.at.todo : versions[u].no <= versions[v].no

\* buildPushMarkdown: a block that the metadata gives to a person keeps the
\* text of hold, and a different generated text becomes a proposal.
BuiltText(v, human, hold) ==
  [b \in Blocks |-> IF b \in human THEN hold[b] ELSE v.text[b]]
Conflicts(v, human, hold) ==
  {[block |-> b, human |-> hold[b], graphify |-> v.text[b]] :
     b \in {c \in human : hold[c] # v.text[c]}}

\* persistConflictProposals and markPageConflictRequired.
Propose(conflicts) ==
  /\ proposed' = proposed \cup conflicts
  /\ wiki' = IF conflicts = {} THEN wiki
             ELSE [wiki EXCEPT !.sync = "conflict_required"]

PushNext(failed) == [push.at EXCEPT !.pc = "build", !.failed = @ \/ failed,
                                    !.conflicts = FALSE]

\* The first half of pushPage; a page that did not change is left alone.
PushBuilds(v) ==
  /\ PushAt("build")
  /\ IsNext(v)
  /\ LET gen == versions[v]
         prev == Previous(v)
         hold == IF prev = 0 THEN gen.text ELSE versions[prev].text
         text == BuiltText(gen, gen.human, hold)
         conflicts == Conflicts(gen, gen.human, hold)
         same == wiki.mapped /\ prev # 0 /\ text = hold
     IN /\ Propose(conflicts)
        /\ PushGoes([push.at EXCEPT !.pc = IF same THEN "build" ELSE "import",
                       !.todo = @ \ {v}, !.v = v, !.asked = FALSE, !.text = text,
                       !.seen = hold, !.conflicts = ~ same /\ conflicts # {}])
  /\ UNCHANGED <<docmost, versions, repo, event, inbox, syncer, typed,
                 bridgeErrors, published>>

NeverRefused == FALSE  \* mutant: no expected hash is sent

\* Docmost (external) refuses an import whose expected hash is not that of
\* its text.  The first expected hash is that of a stored version: it may
\* also differ from Docmost's although the texts agree, the markers being
\* part of one and not of the other.
Refused == ~ docmost.there \/ docmost.text # push.at.seen

PushAccepted ==
  /\ PushAt("import")
  /\ IF wiki.mapped THEN ~ Refused ELSE ~ docmost.there
  /\ docmost' = [there |-> TRUE, text |-> push.at.text, rev |-> docmost.rev + 1]
  /\ wiki' = [wiki EXCEPT !.mapped = TRUE,
                          !.sync = IF push.at.conflicts THEN @ ELSE "synced"]
  /\ PushGoes(PushNext(FALSE))
  /\ UNCHANGED <<versions, repo, event, inbox, syncer, proposed, typed,
                 bridgeErrors, published>>

\* The page is created, but its id cannot be written back.
WriteBackFails ==
  /\ PushAt("import")
  /\ ~ wiki.mapped
  /\ ~ docmost.there
  /\ BridgeError
  /\ docmost' = [there |-> TRUE, text |-> push.at.text, rev |-> docmost.rev + 1]
  /\ wiki' = [wiki EXCEPT !.sync = "sync_pending"]
  /\ PushGoes(PushNext(TRUE))
  /\ UNCHANGED <<versions, repo, event, inbox, syncer, proposed, typed, published>>

\* A first refusal leads to retryAfterOptimisticConflict ...
PushRefused ==
  /\ PushAt("import")
  /\ wiki.mapped
  /\ docmost.there
  /\ ~ push.at.asked
  /\ PushGoes([push.at EXCEPT !.pc = "merge"])
  /\ UNCHANGED <<docmost, wiki, versions, repo, event, inbox, syncer, proposed,
                 typed, bridgeErrors, published>>

\* ... which exports the page, gives to a person every block whose metadata
\* is missing or whose text differs, and imports over what it has exported.
PushMerges ==
  /\ PushAt("merge")
  /\ docmost.there
  /\ LET gen == versions[push.at.v]
         conflicts == Conflicts(gen, MergedHuman, docmost.text)
     IN /\ Propose(conflicts)
        /\ PushGoes([push.at EXCEPT !.pc = "import", !.asked = TRUE,
                       !.seen = docmost.text,
                       !.text = BuiltText(gen, MergedHuman, docmost.text),
                       !.conflicts = @ \/ conflicts # {}])
  /\ UNCHANGED <<docmost, versions, repo, event, inbox, syncer, typed,
                 bridgeErrors, published>>

\* Any other failure, a second refusal among them: the page is sync_pending
\* and the next version is tried.
PushFails ==
  /\ push.at.pc \in {"import", "merge"}
  /\ \/ BridgeError
     \/ /\ UNCHANGED bridgeErrors
        /\ \/ ~ docmost.there /\ wiki.mapped
           \/ docmost.there /\ ~ wiki.mapped
           \/ PushAt("import") /\ push.at.asked /\ Refused
  /\ wiki' = [wiki EXCEPT !.sync = "sync_pending"]
  /\ PushGoes(PushNext(TRUE))
  /\ UNCHANGED <<docmost, versions, repo, event, inbox, syncer, proposed, typed,
                 published>>

PushEnds ==
  /\ PushAt("build")
  /\ push.at.todo = {}
  /\ PushGoes(NoPush)
  /\ UNCHANGED <<docmost, wiki, versions, repo, event, inbox, syncer, proposed,
                 typed, bridgeErrors, published>>

-----------------------------------------------------------------------------
SyncStep(w) ==
  \/ \E e \in DOMAIN event : TakeEvent(w, e)
  \/ CoalesceReads(w) \/ CoalesceWrites(w) \/ SyncReadsPage(w) \/ ExportPage(w)
  \/ CommitVersion(w) \/ SyncReindexes(w) \/ SyncDeletes(w) \/ ExportFails(w)

PushStep ==
  \/ \E r \in push.queue : PushTakes(r)
  \/ \E v \in push.at.todo : PushBuilds(v)
  \/ PushAccepted \/ WriteBackFails \/ PushRefused \/ PushMerges
  \/ PushFails \/ PushEnds

EventArrives == \E e \in DOMAIN event : ReceiveEvent(e)

BridgeNext ==
  \/ \E b \in Blocks : Save(b)
  \/ DeletePage
  \/ EventArrives
  \/ \E e \in DOMAIN event : ReceiveDuplicate(e)
  \/ RunCompletes
  \/ \E v \in DOMAIN versions : SetPublished(v)
  \/ \E w \in Syncers : SyncStep(w)
  \/ PushStep
  \/ \E old \in SUBSET DOMAIN event : Restart(old)

BridgeSpec == BridgeInit /\ [][BridgeNext]_bridgeVars

\* BullMQ hands out waiting jobs, a slot that has one works on, and Docmost
\* delivers what it sent.
BridgeFair ==
  /\ \A w \in Syncers : WF_bridgeVars(SyncStep(w))
  /\ WF_bridgeVars(PushStep)
  /\ WF_bridgeVars(EventArrives)

BridgeLive == BridgeSpec /\ BridgeFair
-----------------------------------------------------------------------------
(* Properties. *)

BridgeTypeOK ==
  /\ docmost \in [there : BOOLEAN, text : [Blocks -> Texts], rev : Nat]
  /\ wiki.status \in {"draft", "published", "archived"}
  /\ wiki.sync \in {"synced", "sync_pending", "reindex_pending", "conflict_required"}
  /\ wiki.current \in DOMAIN versions
  /\ \A v \in DOMAIN versions : versions[v].text \in [Blocks -> Texts]
  /\ \A u, v \in DOMAIN versions : versions[u].no = versions[v].no => u = v
  /\ \A e \in DOMAIN event :
       event[e] \in [type : {"saved", "deleted"},
                     status : {"sent", "received", "processing", "processed", "failed"},
                     job : {"none", "waiting", "active", "done"}, tries : 0..3]
  /\ \A w \in Syncers : ~ SyncAt(w, "idle") => syncer[w].ev \in DOMAIN event

\* Two jobs that sync the page at once never put an older export over a newer
\* one: among the versions page-sync wrote, a higher number has a later export.
NewestExportWins ==
  \A u, v \in DOMAIN versions :
    (/\ versions[u].source = "docmost" /\ versions[v].source = "docmost"
     /\ versions[u].no < versions[v].no) => versions[u].rev <= versions[v].rev

\* What a person typed into a page that is there is not destroyed by a push:
\* while the webhook, the export and the push race, the text that an import
\* replaces is kept in a version or in a proposal.
KeptText(t) == \/ \E v \in DOMAIN versions : t \in {versions[v].text[b] : b \in Blocks}
               \/ \E p \in proposed : p.human = t
Overwritten(b) == docmost.there /\ docmost'.text[b] # docmost.text[b] /\ typed' = typed
NothingTypedIsLostStep ==
  \A b \in Blocks :
    LET t == docmost.text[b]
    IN (Overwritten(b) /\ t \in typed) => KeptText(t)

\* What people type survives the synchronisation with Docmost: the newest
\* export decides the page, and a text that a push replaces is kept.
SyncKeepsHumanText ==
  /\ [](BridgeTypeOK /\ NewestExportWins)
  /\ [][NothingTypedIsLostStep]_bridgeVars

\* An event whose job is queued is settled, also when the worker restarts.
Waits(e) == e \in DOMAIN event /\ event[e].job = "waiting"
Settled(e) == /\ e \in DOMAIN event
              /\ event[e].status \in {"processed", "failed"}
              /\ event[e].job = "done"
QueuedEventIsSettled == \A e \in 1..MaxSaves : Waits(e) ~> Settled(e)

=============================================================================
