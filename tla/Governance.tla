----------------------------- MODULE Governance -----------------------------
(***************************************************************************)
(* The administrator's side of the wiki: review of graph edges, merging of *)
(* pages, detection of contradictions, users' feedback and the proposals   *)
(* that protect human text (governance.service.ts, conflict-detection.ts,  *)
(* feedback.service.ts, proposal.service.ts).  Every request reads first   *)
(* and writes later; `req` keeps what it read.                             *)
(***************************************************************************)
EXTENDS Naturals, FiniteSets

CONSTANTS GovPages, GovEdges, Officers, Feedbacks, Proposals, NoPage,
          PageSize,      \* items of a page of listFeedback
          MaxInstant,    \* bound: the last instant of a creation time
          MaxQueueErrors \* bound: Redis or database errors when a job is queued

\* Feedback items are numbers here, as their ids are ordered; 0 is no item.
\* normalizeLimit makes a page of at least one item.
ASSUME FeedbackNumbered ==
    /\ Feedbacks \subseteq Nat \ {0} /\ IsFiniteSet(Feedbacks)
    /\ PageSize \in Nat \ {0} /\ MaxInstant \in Nat

VARIABLES
    govPage,    \* wiki_pages: status, sync_status and the page it redirects to
    edge,       \* graph_edges: relation and confidence label
    conflict,   \* feedback_items of type conflict: how many per pair of edges
    feedback,   \* feedback_items of users: status, creation time
    proposal,   \* wiki_update_proposals: status, and the page
    gov,        \* requests between their reads and their writes
    reindex,    \* jobs for the indexer whose row is there and that no queue has
    decided,    \* actions answered with success, per feedback item
    walk,       \* an administrator who pages through listFeedback
    queueErrors

govVars == <<govPage, edge, conflict, feedback, proposal, gov, reindex, decided, walk, queueErrors>>

\* CONTRADICTION_MAP, of which two pairs stand for the five
Contradiction == [causes |-> "prevents", prevents |-> "causes", requires |-> "excludes", excludes |-> "requires"]

NotSeen == [f \in Feedbacks |-> 0]

Idle == [op |-> "idle"]

\* All edges run from one node to another one: a group of the detector.
GovInit ==
    /\ govPage = [p \in GovPages |-> [status |-> "published", sync |-> "synced", to |-> NoPage]]
    /\ edge \in [GovEdges -> [relation : {"causes", "prevents"}, label : {"EXTRACTED", "AMBIGUOUS"}]]
    /\ conflict = [f \in SUBSET GovEdges |-> 0]
    /\ feedback = [f \in Feedbacks |-> [status |-> "none", at |-> 0]]
    /\ proposal = [q \in Proposals |-> [status |-> "none", page |-> NoPage]]
    /\ gov = [o \in Officers |-> Idle]
    /\ reindex = 0
    /\ decided = [f \in Feedbacks |-> 0]
    /\ walk = [open |-> FALSE, seen |-> NotSeen, due |-> {}, after |-> 0]
    /\ queueErrors = 0

Free(o) == gov[o].op = "idle"
Works(o, op) == gov[o].op = op
Ends(o) == gov' = [gov EXCEPT ![o] = Idle]

\* createGovernanceReindexJob, triggerReindexIfNeeded: the job's row, then the
\* queue.  An error of either ends the request after its main write.
QueueReindex ==
    \/ UNCHANGED <<reindex, queueErrors>>
    \/ /\ queueErrors < MaxQueueErrors /\ queueErrors' = queueErrors + 1
       /\ reindex' \in {reindex, reindex + 1}

(***************************************************************************)
(* Edges.                                                                  *)
(***************************************************************************)
\* buildConfirmedEdgeValues, or the rejection
ReviewedLabel(action) == IF action = "reject" THEN {"REJECTED"} ELSE {"EXTRACTED", "INFERRED"}

\* findEdge cannot fail here, and nothing read is used by the write: one step.
ReviewEdge(o, e, action) ==
    /\ Free(o)
    /\ \E l \in ReviewedLabel(action) : edge[e].label # l /\ edge' = [edge EXCEPT ![e].label = l]
    /\ QueueReindex
    /\ UNCHANGED <<govPage, conflict, feedback, proposal, gov, decided, walk>>

\* areContradictoryRelations on the rows that are neither rejected nor at zero
Contradicting ==
    {{y[1], y[2]} : y \in {x \in GovEdges \X GovEdges :
        /\ x[1] # x[2]
        /\ edge[x[1]].label # "REJECTED" /\ edge[x[2]].label # "REJECTED"
        /\ Contradiction[edge[x[1]].relation] = edge[x[2]].relation}}

\* listAllConflictFingerprints: resolved conflicts are known as well
Known == {f \in DOMAIN conflict : conflict[f] > 0}

\* detectAndPersistConflicts: the fingerprints, then the rows ...
DetectReads(o) ==
    /\ Free(o) /\ Contradicting \ Known # {}
    /\ gov' = [gov EXCEPT ![o] = [op |-> "detect", found |-> Contradicting \ Known]]
    /\ UNCHANGED <<govPage, edge, conflict, feedback, proposal, reindex, decided, walk, queueErrors>>

\* ... and an INSERT for each new one
DetectInserts(o) ==
    /\ Works(o, "detect")
    /\ conflict' = [f \in DOMAIN conflict |-> IF f \in gov[o].found THEN conflict[f] + 1 ELSE conflict[f]]
    /\ Ends(o)
    /\ UNCHANGED <<govPage, edge, feedback, proposal, reindex, decided, walk, queueErrors>>

(***************************************************************************)
(* Merging.                                                                *)
(***************************************************************************)
\* mergePages reads both pages; their status is not looked at.
MergeReads(o, from, to) ==
    /\ Free(o) /\ from # to
    /\ gov' = [gov EXCEPT ![o] = [op |-> "merge", from |-> from, to |-> to]]
    /\ UNCHANGED <<govPage, edge, conflict, feedback, proposal, reindex, decided, walk, queueErrors>>

\* the transaction, the audit record and the reindex job
MergeWrites(o) ==
    /\ Works(o, "merge")
    /\ govPage' = [govPage EXCEPT ![gov[o].from] = [status |-> "merged", sync |-> "redirect", to |-> gov[o].to]]
    /\ Ends(o) /\ QueueReindex
    /\ UNCHANGED <<edge, conflict, feedback, proposal, decided, walk>>

(***************************************************************************)
(* Feedback.                                                               *)
(***************************************************************************)
\* created_at is the clock of the instance that serves the request, read before
\* the row is written: any order, and the same time twice.
CreateFeedback(f) ==
    /\ feedback[f].status = "none"
    /\ \E t \in 1..MaxInstant : feedback' = [feedback EXCEPT ![f] = [status |-> "open", at |-> t]]
    /\ UNCHANGED <<govPage, edge, conflict, proposal, gov, reindex, decided, walk, queueErrors>>

\* findFeedback: an item that is not open is a conflict (409) at once
ResolveReads(o, f) ==
    /\ Free(o) /\ feedback[f].status = "open"
    /\ gov' = [gov EXCEPT ![o] = [op |-> "resolve", item |-> f]]
    /\ UNCHANGED <<govPage, edge, conflict, feedback, proposal, reindex, decided, walk, queueErrors>>

\* mutant: UPDATE without status = 'open'
ResolveAnyway(f) == TRUE

StillOpen(f) == feedback[f].status = "open"

\* The guarded UPDATE; the page is indexed again if it changed since.
ResolveWrites(o) ==
    /\ Works(o, "resolve") /\ Ends(o)
    /\ IF StillOpen(gov[o].item)
       THEN /\ feedback' = [feedback EXCEPT ![gov[o].item].status = "resolved"]
            /\ decided' = [decided EXCEPT ![gov[o].item] = @ + 1]
            /\ QueueReindex
       ELSE UNCHANGED <<feedback, decided, reindex, queueErrors>>
    /\ UNCHANGED <<govPage, edge, conflict, proposal, walk>>

\* The order of listFeedback: created_at and id, both descending.
Precedes(f, g) == feedback[f].at > feedback[g].at \/ (feedback[f].at = feedback[g].at /\ f > g)

Created == {f \in Feedbacks : feedback[f].status # "none"}

WalkBegins ==
    /\ ~walk.open /\ Created # {}
    /\ walk' = [open |-> TRUE, seen |-> NotSeen, due |-> Created, after |-> 0]
    /\ UNCHANGED <<govPage, edge, conflict, feedback, proposal, gov, reindex, decided, queueErrors>>

\* mutant: the cursor compares created_at only
BeyondByTime(f) == walk.after = 0 \/ feedback[walk.after].at > feedback[f].at

\* the condition that buildListFilters makes of the cursor
Beyond(f) == walk.after = 0 \/ Precedes(walk.after, f)

Rest == {f \in Created : Beyond(f)}
Rank(f) == Cardinality({g \in Rest : Precedes(g, f)})
Items == {f \in Rest : Rank(f) < PageSize}

\* One page: what follows the cursor, at most PageSize items; the walk is over
\* when nothing is left.
WalkReads ==
    /\ walk.open
    /\ \/ Rest = {} /\ walk' = [walk EXCEPT !.open = FALSE]
       \/ \E last \in Items :
            /\ \A g \in Items : g = last \/ Precedes(g, last)
            /\ walk' = [walk EXCEPT !.after = last, !.open = Cardinality(Rest) > PageSize,
                          !.seen = [f \in Feedbacks |-> IF f \in Items THEN @[f] + 1 ELSE @[f]]]
    /\ UNCHANGED <<govPage, edge, conflict, feedback, proposal, gov, reindex, decided, queueErrors>>

(***************************************************************************)
(* Proposals.                                                              *)
(***************************************************************************)
\* A run wants to change human text: the bridge writes the proposal and marks
\* the page, in one transaction (BridgeSync).
ProposalArrives(q, p) ==
    /\ proposal[q].status = "none" /\ govPage[p].status = "published"
    /\ proposal' = [proposal EXCEPT ![q] = [status |-> "pending", page |-> p]]
    /\ govPage' = [govPage EXCEPT ![p].sync = "conflict"]
    /\ UNCHANGED <<edge, conflict, feedback, gov, reindex, decided, walk, queueErrors>>

ProposalReads(o, q, action) ==
    /\ Free(o) /\ proposal[q].status = "pending"
    /\ gov' = [gov EXCEPT ![o] = [op |-> "proposal", item |-> q, action |-> action]]
    /\ UNCHANGED <<govPage, edge, conflict, feedback, proposal, reindex, decided, walk, queueErrors>>

\* The UPDATE has no condition on the status: the later decision stands.
ProposalWrites(o) ==
    /\ Works(o, "proposal")
    /\ proposal' = [proposal EXCEPT ![gov[o].item].status = IF gov[o].action = "accept" THEN "accepted" ELSE "rejected"]
    /\ gov' = [gov EXCEPT ![o] = IF gov[o].action = "accept" THEN Idle ELSE [op |-> "pending?", item |-> gov[o].item]]
    /\ UNCHANGED <<govPage, edge, conflict, feedback, reindex, decided, walk, queueErrors>>

NoPending(p) == \A q \in Proposals : proposal[q].page = p => proposal[q].status # "pending"

\* markPageSyncedWhenNoPending: the query ...
PendingReads(o) ==
    /\ Works(o, "pending?")
    /\ gov' = [gov EXCEPT ![o] = IF NoPending(proposal[gov[o].item].page)
                                 THEN [op |-> "synced", page |-> proposal[gov[o].item].page] ELSE Idle]
    /\ UNCHANGED <<govPage, edge, conflict, feedback, proposal, reindex, decided, walk, queueErrors>>

\* ... and the update of the page
PageSynced(o) ==
    /\ Works(o, "synced")
    /\ govPage' = [govPage EXCEPT ![gov[o].page].sync = "synced"]
    /\ Ends(o)
    /\ UNCHANGED <<edge, conflict, feedback, proposal, reindex, decided, walk, queueErrors>>

\* The three desks share the officers and the queue, and nothing else.
GraphDesk ==
    \E o \in Officers :
        \/ \E e \in GovEdges, a \in {"confirm", "reject"} : ReviewEdge(o, e, a)
        \/ DetectReads(o) \/ DetectInserts(o)

WikiDesk ==
    \/ \E o \in Officers :
        \/ \E p, r \in GovPages : MergeReads(o, p, r)
        \/ MergeWrites(o)
        \/ \E q \in Proposals, a \in {"accept", "reject"} : ProposalReads(o, q, a)
        \/ ProposalWrites(o) \/ PendingReads(o) \/ PageSynced(o)
    \/ \E q \in Proposals, p \in GovPages : ProposalArrives(q, p)

FeedbackDesk ==
    \/ \E o \in Officers : ResolveWrites(o) \/ \E f \in Feedbacks : ResolveReads(o, f)
    \/ \E f \in Feedbacks : CreateFeedback(f)
    \/ WalkBegins \/ WalkReads

GovNext == GraphDesk \/ WikiDesk \/ FeedbackDesk

GovSpec == GovInit /\ [][GovNext]_govVars

(***************************************************************************)
(* Properties.                                                             *)
(***************************************************************************)
\* Of two administrators who resolve the same feedback item at once, exactly
\* one succeeds: the item is resolved, audited and indexed once.
ResolvedOnce == \A f \in Feedbacks : decided[f] = IF feedback[f].status = "resolved" THEN 1 ELSE 0

\* Paging through the feedback shows every item that was there at the start
\* exactly once, although items are created and resolved meanwhile and may
\* carry the same creation time.
WalkShowsAll ==
    /\ \A f \in Feedbacks : walk.seen[f] <= 1
    /\ ~walk.open => \A f \in walk.due : walk.seen[f] = 1

FeedbackIsSettledOnce == ResolvedOnce /\ WalkShowsAll

=============================================================================
