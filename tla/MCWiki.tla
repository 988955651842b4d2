------------------------------- MODULE MCWiki -------------------------------
(***************************************************************************)
(* The wiki: its pages, versions and search index, the two ways between it *)
(* and Docmost, the merge of an export with the stored blocks, the desks   *)
(* of governance, and the pages of the web application.  Each component is *)
(* checked by itself: `part` is chosen at the start.  The components with  *)
(* theorems are extended and have their own variables; the others share v1 *)
(* to v10.                                                                 *)
(* The index and the bridge appear twice: with edits but no faults, and with *)
(* faults but no edits.                                                    *)
(***************************************************************************)
EXTENDS WikiIndex, Governance, BridgeSync, TLC

CONSTANTS
    Headings, Editors, MaxExported, MaxStored, MaxSyncs,
    OpenConversations, MaxSends, MaxOpens, MaxDeletes, MaxChatFaults,
    Spaces, MaxNodes, MaxEdges, MaxClicks, Docs, MaxCenterClicks, MaxFaults

VARIABLES
    part,  \* the component that is checked
    v1, v2, v3, v4, v5, v6, v7, v8, v9, v10

-----------------------------------------------------------------------------
(* Two headings share a normalised key, none shares a block id.            *)
SlugOf == [h \in Headings |-> h]
KeyOf  == [h \in Headings |-> IF h = "z" THEN "z" ELSE "xy"]
BodyLengths == {<<20, 0>>, <<20, 1>>}

(* The reader's graph: three nodes of one space in a line, one of another.  *)
GraphNodes  == {"n1", "n2", "n3", "n4"}
SpaceOfNode == [n \in GraphNodes |-> IF n = "n4" THEN "s2" ELSE "s1"]
GraphLinks  == {{"n1", "n2"}, {"n2", "n3"}}

CenterSpaces == {"s1"}
SpaceOfDoc   == [d \in Docs |-> "s1"]

-----------------------------------------------------------------------------

Merge == INSTANCE BlockMerge WITH
    stored <- v1, exported <- v2, syncs <- v3, Slug <- SlugOf, Key <- KeyOf,
    Bodies <- BodyLengths
Web == INSTANCE WebChat WITH
    exists <- v1, view <- v2, stream <- v3, opens <- v4, removal <- v5, sends <- v6,
    deletes <- v7, chatFaults <- v8, wanted <- v9, crossed <- v10,
    Conversations <- OpenConversations
Explorer == INSTANCE GraphExplorer WITH
    page <- v1, graph <- v2, ui <- v3, drawer <- v4, calls <- v5, clicks <- v6,
    Nodes <- GraphNodes, SpaceOf <- SpaceOfNode, Links <- GraphLinks
Center == INSTANCE UploadCenter WITH
    docs <- v1, view <- v2, drawer <- v3, calls <- v4, clicks <- v5, faults <- v6,
    Spaces <- CenterSpaces, SpaceOf <- SpaceOfDoc, MaxClicks <- MaxCenterClicks

(* The variables that a component does not use.                            *)
Off == "off"
IndexParts == {"index", "faultyindex"}
BridgeParts == {"bridge", "faultybridge"}
Desks == {"graphdesk", "wikidesk", "feedbackdesk"}

Parts ==
    \/ part \in IndexParts \union BridgeParts \union Desks
       /\ v1 = Off /\ v2 = Off /\ v3 = Off /\ v4 = Off /\ v5 = Off /\ v6 = Off /\ v7 = Off
       /\ v8 = Off /\ v9 = Off /\ v10 = Off
    \/ part = "merge" /\ Merge!MergeInit
       /\ v4 = Off /\ v5 = Off /\ v6 = Off /\ v7 = Off /\ v8 = Off /\ v9 = Off /\ v10 = Off
    \/ part = "webchat" /\ Web!WebChatInit
    \/ part = "explorer" /\ Explorer!ExplorerInit
       /\ v7 = Off /\ v8 = Off /\ v9 = Off /\ v10 = Off
    \/ part = "center" /\ Center!CenterInit
       /\ v7 = Off /\ v8 = Off /\ v9 = Off /\ v10 = Off

(* Elsewhere the index rests, with every page published, the desks are     *)
(* closed, and the bridge keeps its page, which is in Docmost.             *)
Init == /\ WikiIndexInit /\ GovInit /\ BridgeInit /\ Parts
        /\ part \notin BridgeParts => wiki.mapped
        /\ part # "graphdesk" => \A e \in GovEdges : edge[e] = [relation |-> "causes", label |-> "EXTRACTED"]
        /\ part \notin IndexParts => \A p \in Pages : page[p].status = "published"

DeskNext ==
    \/ part = "graphdesk" /\ GraphDesk
    \/ part = "wikidesk" /\ WikiDesk
    \/ part = "feedbackdesk" /\ FeedbackDesk

OtherNext ==
    \/ /\ part = "merge" /\ Merge!MergeNext
       /\ UNCHANGED <<v4, v5, v6, v7, v8, v9, v10>>
    \/ part = "webchat" /\ Web!WebChatNext
    \/ /\ part = "explorer" /\ Explorer!ExplorerNext
       /\ UNCHANGED <<v7, v8, v9, v10>>
    \/ /\ part = "center" /\ Center!CenterNext
       /\ UNCHANGED <<v7, v8, v9, v10>>

others == <<v1, v2, v3, v4, v5, v6, v7, v8, v9, v10>>

Next ==
    /\ UNCHANGED part
    /\ \/ part = "index" /\ WikiIndexNext /\ indexFaults' = 0 /\ UNCHANGED <<others, govVars, bridgeVars>>
       \/ part = "faultyindex" /\ WikiIndexNext /\ edited' = 0 /\ UNCHANGED <<others, govVars, bridgeVars>>
       \/ part = "bridge" /\ BridgeNext /\ bridgeErrors' = 0 /\ UNCHANGED <<indexVars, others, govVars>>
       \/ part = "faultybridge" /\ BridgeNext /\ published' = 0 /\ UNCHANGED <<indexVars, others, govVars>>
       \/ DeskNext /\ UNCHANGED <<indexVars, others, bridgeVars>>
       \/ OtherNext /\ UNCHANGED <<indexVars, govVars, bridgeVars>>

vars == <<part, indexVars, govVars, bridgeVars, others>>

Spec == Init /\ [][Next]_vars

(* Indexers, page-sync slots, officers and uploads
   are one set of values. *)
Symmetric == Permutations(Indexers)

-----------------------------------------------------------------------------
(* The properties, stated with their reasons in the components' modules.   *)

\* A block of a page keeps its identity through merges: it has one entry, an
\* editor and a place that appending others leaves alone, and the text of a
\* retained human block stays.
MergeKeepsEntries ==
    /\ [](part = "merge" => Merge!MergeTypeOK)
    /\ [][part = "merge" => Merge!AppendingKeepsEntriesStep /\ Merge!RetainedTextStaysStep]_vars

\* Late answers do not show: the chat page shows one conversation, the one
\* asked for last, and its bubbles settle; the graph drawn is of one space and
\* has no loose edges, its spinners turn only while a request is under way;
\* the drawer shows the upload that is selected.
LateAnswersDoNotShow ==
    /\ part = "webchat" => Web!OneConversationShown /\ Web!BubblesSettle /\ Web!ShowsWhatWasAsked
    /\ part = "explorer" => Explorer!ShowsOneSpace /\ Explorer!EdgesHaveEnds /\ Explorer!NoSpinnerIsStuck
    /\ part = "center" => Center!DrawerShowsSelected

=============================================================================
