----------------------------- MODULE WikiIndex -----------------------------
(***************************************************************************)
(* Publishing wiki pages and building the search index of one space.       *)
(*                                                                         *)
(*  - WikiService (apps/api/src/wiki/wiki.service.ts) publishes,           *)
(*    unpublishes and rolls back versions; WikiFromGraphService appends    *)
(*    the version a graphify run generated.                                *)
(*  - Five callers create an indexing job: the row is inserted, then a     *)
(*    BullMQ message with its id is queued (queued).                       *)
(*  - IndexerWorker.process (apps/indexer-worker) builds a snapshot: one   *)
(*    action per database step, so that builds of two replicas, publishing *)
(*    and crashes interleave.  AbstractBullMQWorker.handleBullMQJob, the   *)
(*    frame around it, keeps the job row.                                  *)
(*                                                                         *)
(* A version is its number within its page: texts are not modelled.  A     *)
(* chunk row stands for all chunks of one page version; a snapshot holds   *)
(* at most one version of each page, 0 if none.                            *)
(***************************************************************************)
EXTENDS Naturals, Sequences, FiniteSets

CONSTANTS
  Pages,          \* wiki pages of the space
  Indexers,       \* replicas of the indexer worker
  MaxVersions,    \* bound: versions of a page
  MaxEdits,       \* bound: publish and unpublish requests
  MaxIndexJobs,   \* bound: indexing jobs created
  MaxIndexFaults, \* bound: failing steps, crashes and lock expiries
  max_attempts    \* the column's default, 3 in the code

ASSUME IndexLimits == Pages # {} /\ MaxVersions \in Nat \ {0}

VARIABLES
  page,      \* wiki_pages: status and current_version_id
  version,   \* wiki_page_versions: the status of each version, in order
  edits,     \* requests that read their version and have yet to write
  edited,    \* number of publish and unpublish requests so far
  indexJob,  \* jobs rows of the queue 'indexer', in creation order
  snapshot,  \* index_snapshots and the chunk rows that carry their id
  active,    \* spaces.active_index_snapshot_id, 0 for null
  indexer,   \* the local variables of each replica
  orphans,   \* history: snapshots whose builder crashed
  overtaken, \* history: snapshots failed as stale under a live builder
  indexFaults

wikiVars == <<page, version, edits, edited>>
indexVars == <<page, version, edits, edited, indexJob, snapshot, active, indexer,
               orphans, overtaken, indexFaults>>

\* What process tells apart in a payload: whether indexerPayloadSchema
\* accepts its trigger, its scope ('incremental' is planned as 'full') and
\* whether it names a graphify run.  The trigger 'unpublish' is not one of
\* the schema's.
Payloads == [valid : BOOLEAN, scope : {"full", "single_page"}, run : BOOLEAN]
Rebuild == [valid |-> TRUE, scope |-> "full", run |-> FALSE]
SinglePage == [valid |-> TRUE, scope |-> "single_page", run |-> FALSE]
AfterRun == [valid |-> TRUE, scope |-> "full", run |-> TRUE]
AfterUnpublish == [valid |-> FALSE, scope |-> "full", run |-> FALSE]

NoWork == [pc |-> "idle", job |-> 0, snap |-> 0, read |-> [p \in Pages |-> 0],
           prev |-> 0, run |-> FALSE, retryable |-> TRUE, committed |-> FALSE]

WikiIndexInit ==
  /\ \E drafts \in SUBSET Pages :
       /\ version = [p \in Pages |->
                       <<IF p \in drafts THEN "draft" ELSE "published">>]
       /\ page = [p \in Pages |->
                    [status |-> IF p \in drafts THEN "draft" ELSE "published",
                     current |-> 1]]
  /\ edits = {}
  /\ edited = 0
  /\ indexJob = <<>>
  /\ snapshot = <<>>
  /\ active = 0
  /\ indexer = [i \in Indexers |-> NoWork]
  /\ orphans = {}
  /\ overtaken = {}
  /\ indexFaults = 0

-----------------------------------------------------------------------------
(* Creating an indexing job. *)

\* JobRepository.create followed by queue.add.  When the second of the two
\* throws (Redis away) the row exists and no message does.
CreateIndexJob(payload, p, delivered) ==
  /\ Len(indexJob) < MaxIndexJobs
  /\ indexJob' = Append(indexJob,
        [payload |-> payload, page |-> p, status |-> "pending", attempts |-> 0,
         queued |-> delivered, lock |-> FALSE])

Building == {s \in DOMAIN snapshot : snapshot[s].status = "building"}

EnqueueFails == /\ indexFaults < MaxIndexFaults
                /\ indexFaults' = indexFaults + 1

\* WikiService.reindexPage: refused while any snapshot is being built.
ReindexPage(p) ==
  /\ Building = {}
  /\ CreateIndexJob(SinglePage, p, TRUE)
  /\ UNCHANGED <<wikiVars, snapshot, active, indexer, orphans, overtaken,
                 indexFaults>>

\* AdminIndexService.rebuildIndex, with the same refusal.
RebuildIndex ==
  /\ Building = {}
  /\ CreateIndexJob(Rebuild, CHOOSE p \in Pages : TRUE, TRUE)
  /\ UNCHANGED <<wikiVars, snapshot, active, indexer, orphans, overtaken,
                 indexFaults>>

\* GovernanceService.createGovernanceReindexJob and
\* FeedbackService.triggerReindexIfNeeded: no check for a running build.
GovernanceReindex ==
  /\ CreateIndexJob(Rebuild, CHOOSE p \in Pages : TRUE, TRUE)
  /\ UNCHANGED <<wikiVars, snapshot, active, indexer, orphans, overtaken,
                 indexFaults>>

FeedbackReindex(p) ==
  /\ CreateIndexJob(SinglePage, p, TRUE)
  /\ UNCHANGED <<wikiVars, snapshot, active, indexer, orphans, overtaken,
                 indexFaults>>

-----------------------------------------------------------------------------
(* Pages and versions. *)

\* PublishStateMachine.canPublish and canUnpublish.
CanPublish(status) == status = "draft"
CanUnpublish(status) == status = "published"

SetVersionOnly(p, v, status) ==  \* mutant: the page keeps its status
  /\ version' = [version EXCEPT ![p][v] = status]
  /\ page' = [page EXCEPT ![p].current = v]

\* updateVersionStatus and updatePageCurrentVersion in one transaction.
SetCurrent(p, v, status) ==
  /\ version' = [version EXCEPT ![p][v] = status]
  /\ page' = [page EXCEPT ![p] = [status |-> status, current |-> v]]

\* publish and unpublish read the version and check it ...
EditReads(op, p, v) ==
  /\ edited < MaxEdits
  /\ edited' = edited + 1
  /\ v \in DOMAIN version[p]
  /\ CASE op = "publish" -> CanPublish(version[p][v])
       [] op = "unpublish" -> CanUnpublish(version[p][v])
  /\ edits' = edits \cup {[op |-> op, page |-> p, version |-> v]}
  /\ UNCHANGED <<page, version, indexJob, snapshot, active, indexer, orphans,
                 overtaken, indexFaults>>

\* ... and write it later, whatever has happened to it since.
PublishWrites(e) ==
  /\ e.op = "publish"
  /\ SetCurrent(e.page, e.version, "published")
  /\ edits' = edits \ {e}
  /\ UNCHANGED <<edited, indexJob, snapshot, active, indexer, orphans, overtaken,
                 indexFaults>>

\* unpublish then asks for an incremental reindex; a failure to do so is
\* logged and forgotten.
UnpublishWrites(e) ==
  /\ e.op = "unpublish"
  /\ SetCurrent(e.page, e.version, "draft")
  /\ edits' = edits \ {e}
  /\ \/ /\ CreateIndexJob(AfterUnpublish, e.page, TRUE)
        /\ UNCHANGED indexFaults
     \/ EnqueueFails /\ UNCHANGED indexJob
  /\ UNCHANGED <<edited, snapshot, active, indexer, orphans, overtaken>>

RollbackSkips(p) ==  \* mutant: the page points past the new version
  /\ Len(version[p]) < MaxVersions
  /\ version' = [version EXCEPT ![p] = Append(@, "published")]
  /\ page' = [page EXCEPT ![p] = [status |-> "published",
                                   current |-> Len(version[p]) + 2]]
  /\ UNCHANGED <<edits, edited, indexJob, snapshot, active, indexer, orphans,
                 overtaken, indexFaults>>

\* rollback: a new published version with the old text.
Rollback(p) ==
  /\ Len(version[p]) < MaxVersions
  /\ version' = [version EXCEPT ![p] = Append(@, "published")]
  /\ page' = [page EXCEPT ![p] = [status |-> "published",
                                   current |-> Len(version[p]) + 1]]
  /\ UNCHANGED <<edits, edited, indexJob, snapshot, active, indexer, orphans,
                 overtaken, indexFaults>>

\* handleGraphifyCompletion: WikiFromGraphService.upsertPage appends a
\* published version to a generated page, then the index job of the run is
\* created.
GraphifyCompletes(p) ==
  /\ Len(version[p]) < MaxVersions
  /\ version' = [version EXCEPT ![p] = Append(@, "published")]
  /\ page' = [page EXCEPT ![p] = [status |-> "published",
                                   current |-> Len(version[p]) + 1]]
  /\ CreateIndexJob(AfterRun, p, TRUE)
  /\ UNCHANGED <<edits, edited, snapshot, active, indexer, orphans, overtaken,
                 indexFaults>>

-----------------------------------------------------------------------------
(* The indexer. *)

IndexerAt(i, pc) == indexer[i].pc = pc
MyJob(i) == indexJob[indexer[i].job]

\* handleBullMQJob: take the Redis lock and move the row to running.
TakeIndexJob(i, j) ==
  /\ IndexerAt(i, "idle")
  /\ j \in DOMAIN indexJob
  /\ indexJob[j].queued
  /\ indexJob[j].status = "pending"
  /\ ~ indexJob[j].lock
  /\ indexJob' = [indexJob EXCEPT ![j].status = "running", ![j].queued = FALSE,
                                  ![j].lock = TRUE]
  /\ indexer' = [indexer EXCEPT ![i] = [NoWork EXCEPT !.pc = "check", !.job = j]]
  /\ UNCHANGED <<wikiVars, snapshot, active, orphans, overtaken, indexFaults>>

ThrowOnly(i, retryable) ==  \* mutant: without markSnapshotFailed
  /\ indexer' = [indexer EXCEPT ![i].pc = "throw", ![i].retryable = retryable]
  /\ UNCHANGED snapshot

\* The catch block of process: the failed build's snapshot is marked, without
\* looking at its status, unless its activation had committed.
Throw(i, retryable) ==
  /\ indexer' = [indexer EXCEPT ![i].pc = "throw", ![i].retryable = retryable]
  /\ snapshot' = IF indexer[i].snap # 0 /\ ~ indexer[i].committed
                 THEN [snapshot EXCEPT ![indexer[i].snap].status = "failed"]
                 ELSE snapshot

\* SnapshotManager.checkBuildingExists: a fresh build makes this one fail, a
\* build older than STALE_BUILDING_SNAPSHOT_MS is marked failed.
CheckBuilding(i) ==
  /\ IndexerAt(i, "check")
  /\ \/ /\ ~ MyJob(i).payload.valid
        /\ Throw(i, TRUE)
        /\ UNCHANGED overtaken
     \/ /\ MyJob(i).payload.valid
        /\ \E s \in Building : ~ snapshot[s].stale
        /\ Throw(i, FALSE)
        /\ UNCHANGED overtaken
     \/ /\ MyJob(i).payload.valid
        /\ \A s \in Building : snapshot[s].stale
        /\ snapshot' = [s \in DOMAIN snapshot |->
                          IF s \in Building
                          THEN [snapshot[s] EXCEPT !.status = "failed"]
                          ELSE snapshot[s]]
        /\ overtaken' = overtaken \cup (Building \ orphans)
        /\ indexer' = [indexer EXCEPT ![i].pc = "load"]
  /\ UNCHANGED <<wikiVars, indexJob, active, orphans, indexFaults>>

\* loadPublishedPages joins the page with its current version;
\* resolveTargetPage wants the page of a single-page job among them.
PublishedVersion(p) ==
  IF version[p][page[p].current] = "published" THEN page[p].current ELSE 0

\* The run a new snapshot shows in the graph explorer: the job's own, else
\* the active snapshot's, else that of the latest snapshot that was ever live.
ShowsRun(i) ==
  \/ MyJob(i).payload.run
  \/ active # 0 /\ snapshot[active].run
  \/ \E s \in DOMAIN snapshot :
       snapshot[s].run /\ snapshot[s].status \in {"activated", "superseded"}

\* The reads before the snapshot is created: loadPublishedPages,
\* loadActiveSnapshot, loadSnapshotChunks and loadLatestGraphifyRunId.
LoadInputs(i) ==
  /\ IndexerAt(i, "load")
  /\ LET target == MyJob(i).page
         missing == /\ MyJob(i).payload.scope = "single_page"
                    /\ PublishedVersion(target) = 0
     IN \/ missing /\ Throw(i, TRUE)
        \/ /\ ~ missing
           /\ indexer' = [indexer EXCEPT ![i].pc = "create",
                            ![i].read = [p \in Pages |-> PublishedVersion(p)],
                            ![i].prev = active, ![i].run = ShowsRun(i)]
           /\ UNCHANGED snapshot
  /\ UNCHANGED <<wikiVars, indexJob, active, orphans, overtaken, indexFaults>>

\* planRebuiltSnapshot takes the pages read; planSinglePageSnapshot copies
\* every other page's chunks from the previous snapshot (copyPreviousChunk).
Plan(i) ==
  IF MyJob(i).payload.scope = "full" THEN indexer[i].read
  ELSE [p \in Pages |->
          IF p = MyJob(i).page THEN indexer[i].read[p]
          ELSE IF indexer[i].prev = 0 THEN 0
          ELSE snapshot[indexer[i].prev].chunks[p]]

\* History: no other replica is at work on the space, nor was since the reads.
WorksAlone(i) == /\ indexer[i].prev = active
                 /\ \A k \in Indexers \ {i} : IndexerAt(k, "idle")

CreateUnchecked(i) ==  \* mutant: without the unique index
  /\ IndexerAt(i, "create")
  /\ snapshot' = Append(snapshot,
        [status |-> "building", stale |-> FALSE, run |-> indexer[i].run,
         chunks |-> Plan(i), rows |-> "none", alone |-> WorksAlone(i)])
  /\ indexer' = [indexer EXCEPT ![i].pc = "insert", ![i].snap = Len(snapshot) + 1]
  /\ UNCHANGED <<wikiVars, indexJob, active, orphans, overtaken, indexFaults>>

\* createSnapshot, under the unique index of one building row per space.
CreateSnapshot(i) ==
  /\ IndexerAt(i, "create")
  /\ \/ Building # {} /\ Throw(i, TRUE)
     \/ /\ Building = {}
        /\ snapshot' = Append(snapshot,
              [status |-> "building", stale |-> FALSE, run |-> indexer[i].run,
               chunks |-> Plan(i), rows |-> "none", alone |-> WorksAlone(i)])
        /\ indexer' = [indexer EXCEPT ![i].pc = "insert",
                                      ![i].snap = Len(snapshot) + 1]
  /\ UNCHANGED <<wikiVars, indexJob, active, orphans, overtaken, indexFaults>>

\* insertChunks, embedAndInsert and markChunksIndexed, in this order.
RowsBecome(i, from, rows, to) ==
  /\ IndexerAt(i, from)
  /\ snapshot' = [snapshot EXCEPT ![indexer[i].snap].rows = rows]
  /\ indexer' = [indexer EXCEPT ![i].pc = to]
  /\ UNCHANGED <<wikiVars, indexJob, active, orphans, overtaken, indexFaults>>

EmbedThenActivate(i) ==  \* mutant: without markChunksIndexed
  RowsBecome(i, "embed", "embedded", "activate")

InsertChunks(i) == RowsBecome(i, "insert", "pending", "embed")
EmbedAndInsert(i) == RowsBecome(i, "embed", "embedded", "mark")
MarkIndexed(i) == RowsBecome(i, "mark", "indexed", "activate")

\* The rows after SnapshotManager.activateSnapshot of s: its status is set
\* without looking at it, every other activated row is superseded.
Activated(s) ==
  [t \in DOMAIN snapshot |->
     IF t = s THEN [snapshot[t] EXCEPT !.status = "activated"]
     ELSE IF snapshot[t].status = "activated"
     THEN [snapshot[t] EXCEPT !.status = "superseded"]
     ELSE snapshot[t]]

ActivateSnapshot(i) ==
  /\ IndexerAt(i, "activate")
  /\ snapshot' = Activated(indexer[i].snap)
  /\ active' = indexer[i].snap
  /\ indexer' = [indexer EXCEPT ![i].pc = "complete", ![i].committed = TRUE]
  /\ UNCHANGED <<wikiVars, indexJob, orphans, overtaken, indexFaults>>

\* A database error, or an embedding provider that gave up.
StepFails(i) ==
  /\ indexer[i].pc \notin {"idle", "throw"}
  /\ indexFaults < MaxIndexFaults
  /\ indexFaults' = indexFaults + 1
  /\ Throw(i, TRUE)
  /\ UNCHANGED <<wikiVars, indexJob, active, orphans, overtaken>>

\* The end of handleBullMQJob: with the lock gone neither the success nor the
\* failure is written, and the row stays running.
EndJob(i, status, attempts) ==
  /\ indexJob' = IF MyJob(i).lock
                 THEN [indexJob EXCEPT ![indexer[i].job].status = status,
                                       ![indexer[i].job].attempts = attempts,
                                       ![indexer[i].job].lock = FALSE]
                 ELSE indexJob
  /\ indexer' = [indexer EXCEPT ![i] = NoWork]
  /\ UNCHANGED <<wikiVars, snapshot, active, orphans, overtaken, indexFaults>>

CompleteIndexJob(i) ==
  /\ IndexerAt(i, "complete")
  /\ EndJob(i, "succeeded", MyJob(i).attempts)

\* handleFailure: a retryable failure with attempts left goes back to pending,
\* but nothing queues its message again.
HandleFailure(i) ==
  /\ IndexerAt(i, "throw")
  /\ LET attempts == MyJob(i).attempts + 1
         again == indexer[i].retryable /\ attempts < max_attempts
     IN EndJob(i, IF again THEN "pending" ELSE "failed", attempts)

-----------------------------------------------------------------------------
(* Faults and time. *)

\* The process dies: its job stays running, its snapshot stays building.
IndexerCrashes(i) ==
  /\ ~ IndexerAt(i, "idle")
  /\ indexFaults < MaxIndexFaults
  /\ indexFaults' = indexFaults + 1
  /\ orphans' = orphans \cup ({indexer[i].snap} \ {0})
  /\ indexer' = [indexer EXCEPT ![i] = NoWork]
  /\ UNCHANGED <<wikiVars, indexJob, snapshot, active, overtaken>>

\* The lock's 600 seconds pass: process never renews it.
IndexLockExpires(j) ==
  /\ j \in DOMAIN indexJob
  /\ indexJob[j].lock
  /\ indexFaults < MaxIndexFaults
  /\ indexFaults' = indexFaults + 1
  /\ indexJob' = [indexJob EXCEPT ![j].lock = FALSE]
  /\ UNCHANGED <<wikiVars, snapshot, active, indexer, orphans, overtaken>>

\* Two hours pass.
BuildGrowsStale(s) ==
  /\ s \in Building
  /\ ~ snapshot[s].stale
  /\ snapshot' = [snapshot EXCEPT ![s].stale = TRUE]
  /\ UNCHANGED <<wikiVars, indexJob, active, indexer, orphans, overtaken,
                 indexFaults>>

-----------------------------------------------------------------------------
IndexerStep(i) ==
  \/ \E j \in DOMAIN indexJob : TakeIndexJob(i, j)
  \/ CheckBuilding(i) \/ LoadInputs(i) \/ CreateSnapshot(i)
  \/ InsertChunks(i) \/ EmbedAndInsert(i) \/ MarkIndexed(i)
  \/ ActivateSnapshot(i) \/ CompleteIndexJob(i) \/ HandleFailure(i)

WikiIndexNext ==
  \/ \E p \in Pages : ReindexPage(p) \/ FeedbackReindex(p) \/ Rollback(p)
                      \/ GraphifyCompletes(p)
  \/ \E op \in {"publish", "unpublish"}, p \in Pages, v \in 1..MaxVersions :
       EditReads(op, p, v)
  \/ \E e \in edits : PublishWrites(e) \/ UnpublishWrites(e)
  \/ RebuildIndex \/ GovernanceReindex
  \/ \E i \in Indexers : IndexerStep(i) \/ StepFails(i) \/ IndexerCrashes(i)
  \/ \E j \in DOMAIN indexJob : IndexLockExpires(j)
  \/ \E s \in DOMAIN snapshot : BuildGrowsStale(s)

WikiIndexSpec == WikiIndexInit /\ [][WikiIndexNext]_indexVars

-----------------------------------------------------------------------------
(* Properties. *)

WikiIndexTypeOK ==
  /\ page \in [Pages -> [status : {"draft", "published"}, current : 1..MaxVersions]]
  /\ \A p \in Pages : /\ version[p] \in Seq({"draft", "published"})
                      /\ page[p].current \in DOMAIN version[p]
  /\ \A j \in DOMAIN indexJob :
       indexJob[j] \in [payload : Payloads, page : Pages,
                        attempts : Nat, queued : BOOLEAN,
                        status : {"pending", "running", "succeeded", "failed"},
                        lock : BOOLEAN]
  /\ \A s \in DOMAIN snapshot :
       snapshot[s] \in [status : {"building", "activated", "superseded", "failed"},
                        stale : BOOLEAN, run : BOOLEAN,
                        rows : {"none", "pending", "embedded", "indexed"},
                        alone : BOOLEAN,
                        chunks : [Pages -> 0..MaxVersions]]
  /\ active \in 0..Len(snapshot)
  /\ \A i \in Indexers : /\ indexer[i].job \in 0..Len(indexJob)
                         /\ indexer[i].snap \in 0..Len(snapshot)

\* The page and its current version agree on being published, whatever the
\* order in which publish, unpublish, rollback and generation write them.
PageMatchesVersion ==
  \A p \in Pages : page[p].status = version[p][page[p].current]

\* What chat and search read is whole: the space points at the one activated
\* snapshot, and every chunk of it has its embedding and is marked indexed,
\* even when a build taken for stale finishes after all.
ActiveIsWhole ==
  /\ {s \in DOMAIN snapshot : snapshot[s].status = "activated"} = {active} \ {0}
  /\ active # 0 => snapshot[active].rows = "indexed"

\* A snapshot left in building, which makes every reindex and rebuild request
\* answer 409, is being built or its builder crashed: no failing step leaves
\* one behind.
NoBuildLeftBehind ==
  \A s \in Building : s \in orphans \/ \E i \in Indexers : indexer[i].snap = s

\* A rebuild without a run of its own does not make the graph disappear: once
\* a snapshot with a run has been live, the active one has a run.  Two builds
\* at once are the exception: the second may have read the spaces before.
GraphStaysVisible ==
  (\E s \in DOMAIN snapshot :
      snapshot[s].run /\ snapshot[s].status \in {"activated", "superseded"})
  => \/ snapshot[active].run
     \/ active \in overtaken
     \/ ~ snapshot[active].alone

IndexSafe ==
  /\ WikiIndexTypeOK /\ PageMatchesVersion /\ ActiveIsWhole
  /\ NoBuildLeftBehind /\ GraphStaysVisible

\* The index never goes back to an older snapshot, except by a build that
\* outlived the two hours after which it counts as dead.
IndexNeverGoesBackStep ==
  active' < active => active' \in overtaken

\* The wiki shows what is published and searches what is whole: a page and its
\* current version agree, the active snapshot has all its chunks, a build that
\* ended leaves none building, a rebuild keeps the graph of the last run in
\* view, and a newer index is never replaced by an older one.
IndexIsWhole == []IndexSafe /\ [][IndexNeverGoesBackStep]_indexVars

=============================================================================
