---------------------------- MODULE UploadCenter ----------------------------
(***************************************************************************)
(* The upload center of the web application (pages/uploads/UploadCenter,   *)
(* FileUploadZone, UploadDetail and hooks/useUploadPolling): the list of a *)
(* space's uploads, the drawer of one of them, uploads and reprocessing,   *)
(* each a request answered later and in any order.  A callback belongs to  *)
(* the rendering it was made in: it keeps that rendering's space.  Every   *)
(* rendering restarts the polling and so drops the poll on its way.  The   *)
(* filters, the pages and the order of the list are left out: a change of  *)
(* them loads the list again, as a change of the space does.               *)
(***************************************************************************)
EXTENDS Naturals, FiniteSets

CONSTANTS
    Spaces,      \* the spaces the reader may upload to
    Docs,        \* the documents there can be
    SpaceOf,     \* a function: the space of each document
    MaxClicks,   \* bound: what the reader does
    MaxFaults    \* bound: requests that fail

VARIABLES
    docs,    \* the documents of the server and their status
    view,    \* uploadSpaceId, uploads, isLoading, requestSeqRef
    drawer,  \* selectedUploadId, its status, selectionSeqRef, isReprocessing
    calls,   \* requests on their way: asked, or answered by the server
    clicks, faults

centerVars == <<docs, view, drawer, calls, clicks, faults>>

None == "none"
Absent == "absent"

\* mutant: a failed document is still followed
FollowsFailed(status) == status \notin {Absent, "parsed"}

\* isUploadProcessing: the statuses that are not terminal
IsProcessing(status) == status \notin {Absent, "parsed", "parse_failed"}

Listed == {d \in Docs : view.list[d] # Absent}
Nothing == [d \in Docs |-> Absent]

Clicks == clicks < MaxClicks /\ clicks' = clicks + 1
Load(s, seq, background) ==
    [kind |-> "load", space |-> s, seq |-> seq, about |-> None, quiet |-> background,
     pc |-> "asked", answer |-> Nothing]
Asked(kind, s, seq, d) ==
    [kind |-> kind, space |-> s, seq |-> seq, about |-> d, quiet |-> TRUE,
     pc |-> "asked", answer |-> IF kind = "poll" THEN view.list ELSE Nothing]

\* The requests after a rendering: the poll on its way is cancelled.
Rendered(cs) == {c \in cs : c.kind # "poll"}

\* mergeStatuses: into the list, and into the drawer if it shows the document
Merged(status) == [d \in Docs |-> IF view.list[d] # Absent /\ status[d] # Absent
                                  THEN status[d] ELSE view.list[d]]

CenterInit ==
    /\ docs \in [Docs -> {Absent, "parse_failed"}]
    /\ \E s \in Spaces :
         /\ view = [space |-> s, list |-> Nothing, loading |-> TRUE,
                    seq |-> 1, shown |-> s]
         /\ calls = {[kind |-> "load", space |-> s, seq |-> 1, about |-> None, quiet |-> FALSE,
                      pc |-> "asked", answer |-> Nothing]}
    /\ drawer = [seq |-> 0, selected |-> None, status |-> None, reprocessing |-> FALSE]
    /\ clicks = 0 /\ faults = 0

-----------------------------------------------------------------------------
(* The server                                                              *)

DocEnds(d) ==
    /\ docs[d] = "parsing"
    /\ docs' \in {[docs EXCEPT ![d] = s] : s \in {"parsed", "parse_failed"}}
    /\ UNCHANGED <<view, drawer, calls, clicks, faults>>

\* A request is answered from what the server knows at that moment.
ServerReads(c) ==
    /\ c.pc = "asked" /\ c.kind \in {"load", "status", "poll"}
    /\ calls' = (calls \ {c}) \cup
         {[c EXCEPT !.pc = "answered",
                    !.answer = [d \in Docs |->
                        IF c.kind = "load" THEN IF SpaceOf[d] = c.space THEN docs[d] ELSE Absent
                        ELSE IF (c.kind = "poll" /\ IsProcessing(c.answer[d])) \/ d = c.about
                        THEN docs[d] ELSE Absent]]}
    /\ UNCHANGED <<docs, view, drawer, clicks, faults>>

\* A new document, or one with the same content that was there before.
ServerStores(c) ==
    /\ c.pc = "asked" /\ c.kind = "upload"
    /\ \E d \in Docs :
         /\ SpaceOf[d] = c.space
         /\ docs' = [docs EXCEPT ![d] = IF @ = Absent THEN "parsing" ELSE @]
         /\ calls' = (calls \ {c}) \cup
              {[c EXCEPT !.pc = "answered", !.about = d, !.answer = [Nothing EXCEPT ![d] = docs'[d]]]}
    /\ UNCHANGED <<view, drawer, clicks, faults>>

ServerReprocesses(c) ==
    /\ c.pc = "asked" /\ c.kind = "reprocess" /\ docs[c.about] = "parse_failed"
    /\ docs' = [docs EXCEPT ![c.about] = "parsing"]
    /\ calls' = (calls \ {c}) \cup {[c EXCEPT !.pc = "answered"]}
    /\ UNCHANGED <<view, drawer, clicks, faults>>

-----------------------------------------------------------------------------
(* The reader                                                              *)

\* The effects of a new uploadSpaceId: a load, and nothing selected.
ChooseSpace(s) ==
    /\ s # view.space /\ Clicks
    /\ view' = [view EXCEPT !.space = s, !.loading = TRUE, !.seq = @ + 1]
    /\ drawer' = [drawer EXCEPT !.seq = @ + 1, !.selected = None, !.status = None]
    /\ calls' = Rendered(calls) \cup {Load(s, view.seq + 1, FALSE)}
    /\ UNCHANGED <<docs, faults>>

Refresh ==
    /\ Clicks
    /\ view' = [view EXCEPT !.loading = TRUE, !.seq = @ + 1]
    /\ calls' = Rendered(calls) \cup {Load(view.space, view.seq + 1, FALSE)}
    /\ UNCHANGED <<docs, drawer, faults>>

DropFile ==
    /\ Clicks
    /\ calls' = Rendered(calls) \cup {Asked("upload", view.space, clicks', None)}
    /\ UNCHANGED <<docs, view, drawer, faults>>

SelectUpload(d) ==
    /\ ~view.loading /\ d \in Listed /\ Clicks
    /\ drawer' = [drawer EXCEPT !.seq = @ + 1, !.selected = d, !.status = None]
    /\ calls' = Rendered(calls) \cup {Asked("status", view.space, drawer.seq + 1, d)}
    /\ UNCHANGED <<docs, view, faults>>

CloseDetail ==
    /\ drawer.selected # None /\ Clicks
    /\ drawer' = [drawer EXCEPT !.seq = @ + 1, !.selected = None, !.status = None]
    /\ calls' = Rendered(calls)
    /\ UNCHANGED <<docs, view, faults>>

ReprocessUpload ==
    /\ drawer.selected \in Listed /\ ~drawer.reprocessing /\ Clicks
    /\ view.list[drawer.selected] = "parse_failed"
    /\ drawer' = [drawer EXCEPT !.reprocessing = TRUE]
    /\ calls' = Rendered(calls) \cup {Asked("reprocess", view.space, clicks', drawer.selected)}
    /\ UNCHANGED <<docs, view, faults>>

\* pollStatuses: what the list shows as processing
Poll ==
    /\ \E d \in Docs : IsProcessing(view.list[d])
    /\ \A c \in calls : c.kind # "poll"
    /\ calls' = calls \cup {Asked("poll", view.space, 0, None)}
    /\ UNCHANGED <<docs, view, drawer, clicks, faults>>

-----------------------------------------------------------------------------
(* The answers                                                             *)

IsNewestLoad(c) == c.seq = view.seq

LoadAnswered(c) ==
    /\ c.kind = "load" /\ c.pc = "answered"
    /\ IF IsNewestLoad(c)
       THEN /\ view' = [view EXCEPT !.list = c.answer, !.shown = c.space,
                                    !.loading = @ /\ c.quiet]
            /\ calls' = Rendered(calls \ {c})
       ELSE view' = view /\ calls' = calls \ {c}
    /\ UNCHANGED <<docs, drawer, clicks, faults>>

\* mutant: only the number of the selection is looked at
SeqIsEnough(c) == c.seq = drawer.seq

IsSelected(c) == c.seq = drawer.seq /\ drawer.selected = c.about

StatusAnswered(c) ==
    /\ c.kind = "status" /\ c.pc = "answered"
    /\ IF IsSelected(c)
       THEN drawer' = [drawer EXCEPT !.status = c.about] /\ calls' = Rendered(calls \ {c})
       ELSE drawer' = drawer /\ calls' = calls \ {c}
    /\ UNCHANGED <<docs, view, clicks, faults>>

PollAnswered(c) ==
    /\ c.kind = "poll" /\ c.pc = "answered"
    /\ view' = [view EXCEPT !.list = Merged(c.answer)]
    /\ drawer' = [drawer EXCEPT !.status =
                    IF drawer.selected # None /\ c.answer[drawer.selected] # Absent
                    THEN drawer.selected ELSE @]
    /\ calls' = Rendered(calls \ {c})
    /\ UNCHANGED <<docs, clicks, faults>>

\* addOptimisticUpload, of the rendering the file was dropped in
UploadAnswered(c) ==
    /\ c.kind = "upload" /\ c.pc = "answered"
    /\ view' = [view EXCEPT !.list[c.about] = c.answer[c.about], !.seq = @ + 1]
    /\ calls' = Rendered(calls \ {c}) \cup {Load(c.space, view.seq + 1, TRUE)}
    /\ UNCHANGED <<docs, drawer, clicks, faults>>

\* onReprocessed, of the rendering of the click; the selection is today's
ReprocessAnswered(c) ==
    /\ c.kind = "reprocess" /\ c.pc = "answered"
    /\ view' = [view EXCEPT !.list = Merged([d \in Docs |-> IF d = c.about THEN "parsing" ELSE Absent]),
                            !.seq = @ + 1]
    /\ drawer' = [drawer EXCEPT !.reprocessing = FALSE,
                                !.status = IF drawer.selected = c.about THEN c.about ELSE @]
    /\ calls' = Rendered(calls \ {c})
                  \cup {Load(c.space, view.seq + 1, TRUE), Asked("status", c.space, drawer.seq, c.about)}
    /\ UNCHANGED <<docs, clicks, faults>>

\* The catch and finally clauses.
RequestFails(c) ==
    /\ \/ faults < MaxFaults /\ faults' = faults + 1
       \/ /\ c.kind = "reprocess" /\ c.pc = "asked" /\ docs[c.about] # "parse_failed"
          /\ faults' = faults
    /\ view' = IF c.kind = "load" /\ IsNewestLoad(c)
               THEN [view EXCEPT !.loading = @ /\ c.quiet] ELSE view
    /\ drawer' = IF c.kind = "reprocess" THEN [drawer EXCEPT !.reprocessing = FALSE] ELSE drawer
    /\ calls' = Rendered(calls \ {c})
    /\ UNCHANGED <<docs, clicks>>

Served(c) == ServerReads(c) \/ ServerStores(c) \/ ServerReprocesses(c)
IsAnswered(c) == LoadAnswered(c) \/ StatusAnswered(c) \/ PollAnswered(c)
                   \/ UploadAnswered(c) \/ ReprocessAnswered(c)

SomeServed == \E c \in calls : Served(c)
SomeAnswered == \E c \in calls : IsAnswered(c) \/ RequestFails(c)

CenterNext ==
    \/ \E s \in Spaces : ChooseSpace(s)
    \/ \E d \in Docs : DocEnds(d) \/ SelectUpload(d)
    \/ Refresh \/ DropFile \/ CloseDetail \/ ReprocessUpload \/ Poll
    \/ SomeServed \/ SomeAnswered

\* The documents end, the page polls, and requests are answered or fail.
CenterFairness ==
    /\ \A d \in Docs : WF_centerVars(DocEnds(d))
    /\ WF_centerVars(Poll)
    /\ WF_centerVars(SomeServed)
    /\ WF_centerVars(SomeAnswered)

CenterSpec == CenterInit /\ [][CenterNext]_centerVars
CenterLive == CenterSpec /\ CenterFairness

-----------------------------------------------------------------------------
\* The status in the drawer is the one of the upload it shows, also when the
\* answer to a reprocess comes after another upload was selected.
DrawerShowsSelected == drawer.status \in {None, drawer.selected}

\* A document shown as being processed is not shown so for ever: it is polled
\* until its end is seen, whatever answers come late or fail.
ShownProcessing(d) == IsProcessing(view.list[d])
ProcessingShowsItsEnd ==
    \A d \in Docs : ShownProcessing(d) ~> ~ShownProcessing(d)

==============================================================================
