---------------------------- MODULE GraphExplorer ----------------------------
(***************************************************************************)
(* The graph explorer page of the web application                          *)
(* (pages/graph/SpaceGraphExplorerPage.tsx): a reader searches, expands    *)
(* nodes, opens communities, selects a node and moves on to another space, *)
(* while the answers of the earlier requests still come, in any order.     *)
(* The page stays mounted when only the space of the route changes.  Every *)
(* space has one community, named like the space, and the reader may view  *)
(* every space; the choice of hops and the texts of errors are left out.   *)
(***************************************************************************)
EXTENDS Naturals, FiniteSets

CONSTANTS
    Spaces,    \* the spaces of the reader
    Nodes,     \* the nodes of their graphs
    SpaceOf,   \* a function: the space of each node
    Links,     \* the edges, sets of two nodes
    MaxNodes,  \* MAX_GRAPH_NODES, 500 in the code
    MaxEdges,  \* MAX_GRAPH_EDGES, 1000 in the code
    MaxClicks  \* bound: what the reader does

VARIABLES
    page,    \* the space, spaceSeqRef and searchSeqRef
    graph,   \* graphState: nodesById, edgesById, expandedNodeIds, truncated
    ui,      \* the results, the communities, the spinners, the selection
    drawer,  \* the detail of the selected node and the run of its effect
    calls,   \* the requests that have not been answered
    clicks

explorerVars == <<page, graph, ui, drawer, calls, clicks>>

None == "none"
NodesIn(s) == {n \in Nodes : SpaceOf[n] = s}
LinksIn(s) == {e \in Links : e \subseteq NodesIn(s)}
NoGraph == [nodes |-> {}, edges |-> {}, expanded |-> {}, truncated |-> FALSE]

-----------------------------------------------------------------------------
(* graphReducer                                                            *)

\* Nodes of the space, up to the cap; those on display are only refreshed.
MergedNodes(space, nodes) ==
    LET new  == {n \in nodes : SpaceOf[n] = space} \ graph.nodes
        room == MaxNodes - Cardinality(graph.nodes)
    IN {graph.nodes \cup kept : kept \in
           {k \in SUBSET new : Cardinality(k) = IF Cardinality(new) <= room
                                                 THEN Cardinality(new) ELSE room}}

\* mutant: an edge needs one end on display only
OneEndIsEnough(nodes, edges) == {e \in edges : e \cap nodes # {}}

\* Edges whose two ends are on display, the oldest first up to the cap.
Joinable(nodes, edges) == {e \in edges : e \subseteq nodes}

MergedEdges(nodes, edges) ==
    LET new  == Joinable(nodes, edges) \ graph.edges
        room == MaxEdges - Cardinality(graph.edges)
    IN {graph.edges \cup kept : kept \in
           {k \in SUBSET new : Cardinality(k) = IF Cardinality(new) <= room
                                                 THEN Cardinality(new) ELSE room}}

Merge(space, nodes, edges, expanded) ==
    \E ns \in MergedNodes(space, nodes) : \E es \in MergedEdges(ns, edges) :
        graph' = [nodes |-> ns, edges |-> es,
                  expanded |-> graph.expanded \cup expanded,
                  truncated |-> graph.truncated
                                \/ ~({n \in nodes : SpaceOf[n] = space} \subseteq ns)]

-----------------------------------------------------------------------------
(* The drawer's effect                                                     *)

Shown(g, u) == IF u.selected \in g.nodes THEN u.selected ELSE None

\* It runs again when the selected node or the space has changed.
Drawn ==
    LET now == Shown(graph', ui') IN
    IF now = Shown(graph, ui) /\ page'.space = page.space
    THEN drawer' = drawer
    ELSE drawer' = [run |-> drawer.run + 1, detail |-> None, loading |-> now # None]

Asks(call) == calls' = calls \cup call \cup
    IF drawer'.run # drawer.run /\ drawer'.loading
    THEN {[kind |-> "detail", space |-> page'.space, seq |-> drawer'.run,
           about |-> Shown(graph', ui')]}
    ELSE {}

Answered(call) == calls' = (calls \ {call}) \cup
    IF drawer'.run # drawer.run /\ drawer'.loading
    THEN {[kind |-> "detail", space |-> page'.space, seq |-> drawer'.run,
           about |-> Shown(graph', ui')]}
    ELSE {}

-----------------------------------------------------------------------------
(* What the reader does                                                    *)

Clicks == clicks < MaxClicks /\ clicks' = clicks + 1
Asked(kind, seq, about) == [kind |-> kind, space |-> page.space, seq |-> seq, about |-> about]

Fresh(s) == [results |-> {}, communities |-> {}, searching |-> FALSE, expanding |-> FALSE,
             listing |-> TRUE, loading |-> None, active |-> None, selected |-> None]

ExplorerInit ==
    /\ \E s \in Spaces :
         /\ page = [space |-> s, seq |-> 1, search |-> 1]
         /\ calls = {[kind |-> "communities", space |-> s, seq |-> 1, about |-> None]}
         /\ ui = Fresh(s)
    /\ graph = NoGraph
    /\ drawer = [run |-> 1, detail |-> None, loading |-> FALSE]
    /\ clicks = 0

\* mutant: the spinner of an expansion is not put out
SpinnerStays(s) == [Fresh(s) EXCEPT !.communities = ui.communities, !.expanding = ui.expanding]

\* The communities of the space left stay until those of the new one come.
Reset(s) == [Fresh(s) EXCEPT !.communities = ui.communities]

OpenSpace(s) ==
    /\ s # page.space /\ Clicks
    /\ page' = [space |-> s, seq |-> page.seq + 1, search |-> page.search + 1]
    /\ graph' = NoGraph
    /\ ui' = Reset(s)
    /\ Drawn
    /\ Asks({[kind |-> "communities", space |-> s, seq |-> page'.seq, about |-> None]})

HandleSearch ==
    /\ Clicks
    /\ page' = [page EXCEPT !.search = @ + 1]
    /\ graph' = graph
    /\ \E empty \in BOOLEAN :
         /\ ui' = [ui EXCEPT !.results = {}, !.searching = ~empty]
         /\ Drawn
         /\ Asks(IF empty THEN {} ELSE {Asked("search", page.seq, page'.search)})

Select(n) ==
    /\ n \in graph.nodes \cup ui.results /\ Clicks
    /\ ui' = [ui EXCEPT !.selected = n]
    /\ UNCHANGED <<page, graph>>
    /\ Drawn /\ Asks({})

CloseSelection ==
    /\ ui.selected # None /\ Clicks
    /\ ui' = [ui EXCEPT !.selected = None]
    /\ UNCHANGED <<page, graph>>
    /\ Drawn /\ Asks({})

\* A node that was expanded is asked again by force; a loading button is dead.
ExpandNode ==
    /\ Shown(graph, ui) # None /\ ~ui.expanding /\ Clicks
    /\ ui' = [ui EXCEPT !.expanding = TRUE]
    /\ UNCHANGED <<page, graph>>
    /\ Drawn /\ Asks({Asked("neighbors", page.seq, ui.selected)})

SelectCommunity(c) ==
    /\ c \in ui.communities /\ ui.loading = None /\ Clicks
    /\ UNCHANGED <<page, graph>>
    /\ ui' = IF c = ui.active THEN [ui EXCEPT !.active = None] ELSE [ui EXCEPT !.loading = c]
    /\ Drawn
    /\ Asks(IF c = ui.active THEN {} ELSE {Asked("community", page.seq, c)})

\* The button above the graph: only the reducer's state is cleared.
ClearGraph ==
    /\ graph.nodes # {} /\ Clicks
    /\ graph' = NoGraph
    /\ UNCHANGED <<page, ui>>
    /\ Drawn /\ Asks({})

-----------------------------------------------------------------------------
(* The answers                                                             *)

\* mutant: an answer is used whatever the page shows by now
AnyAnswer(c) == TRUE

IsCurrent(c) == c.seq = page.seq

\* An answer to another space's request is dropped, its finally block too.
Dropped(c) ==
    /\ c.kind \notin {"search", "detail"} /\ ~IsCurrent(c)
    /\ UNCHANGED <<page, graph, ui>>
    /\ Drawn /\ Answered(c)

CommunitiesAnswered(c) ==
    /\ c.kind = "communities" /\ IsCurrent(c)
    /\ \E ok \in BOOLEAN :
         ui' = [ui EXCEPT !.communities = IF ok /\ NodesIn(c.space) # {} THEN {c.space} ELSE {},
                          !.listing = FALSE]
    /\ UNCHANGED <<page, graph>>
    /\ Drawn /\ Answered(c)

NeighborsAnswered(c) ==
    /\ c.kind = "neighbors" /\ IsCurrent(c)
    /\ ui' = [ui EXCEPT !.expanding = FALSE]
    /\ page' = page
    /\ \/ \E ns \in SUBSET NodesIn(c.space) : Merge(c.space, ns, LinksIn(c.space), {c.about})
       \/ graph' = graph
    /\ Drawn /\ Answered(c)

\* The server knows no nodes of a community in a space that is not its own.
CommunityAnswered(c) ==
    /\ c.kind = "community" /\ IsCurrent(c)
    /\ page' = page
    /\ \/ /\ LET space == c.space IN
               Merge(space, NodesIn(space) \cap NodesIn(c.about), LinksIn(c.about), {})
          /\ ui' = [ui EXCEPT !.active = c.about, !.loading = None]
       \/ /\ graph' = graph
          /\ ui' = [ui EXCEPT !.loading = None]
    /\ Drawn /\ Answered(c)

IsLastSearch(c) == c.about = page.search /\ c.seq = page.seq

SearchAnswered(c) ==
    /\ c.kind = "search"
    /\ page' = page
    /\ \/ /\ IsLastSearch(c)
          /\ \E ns \in SUBSET NodesIn(c.space) :
               /\ ui' = [ui EXCEPT !.results = ns, !.searching = FALSE]
               /\ Merge(c.space, ns, {}, {})
       \/ /\ IsLastSearch(c)
          /\ ui' = [ui EXCEPT !.searching = FALSE] /\ graph' = graph
       \/ ~IsLastSearch(c) /\ UNCHANGED <<ui, graph>>
    /\ Drawn /\ Answered(c)

\* `active` of the effect's closure
IsActive(c) == c.seq = drawer.run

DetailAnswered(c) ==
    /\ c.kind = "detail"
    /\ drawer' \in IF IsActive(c)
                   THEN {[drawer EXCEPT !.detail = d, !.loading = FALSE] : d \in {c.about, None}}
                   ELSE {drawer}
    /\ calls' = calls \ {c}
    /\ UNCHANGED <<page, graph, ui>>

IsAnswered(c) ==
    /\ clicks' = clicks
    /\ \/ Dropped(c) \/ CommunitiesAnswered(c) \/ NeighborsAnswered(c)
       \/ CommunityAnswered(c) \/ SearchAnswered(c) \/ DetailAnswered(c)

ExplorerNext ==
    \/ \E s \in Spaces : OpenSpace(s) \/ SelectCommunity(s)
    \/ \E n \in Nodes : Select(n)
    \/ HandleSearch \/ CloseSelection \/ ExpandNode \/ ClearGraph
    \/ \E c \in calls : IsAnswered(c)

ExplorerSpec == ExplorerInit /\ [][ExplorerNext]_explorerVars

-----------------------------------------------------------------------------
\* What the page draws is of the space it shows, and the detail in the drawer
\* is of the node that is selected: spaceSeqRef, the filters of the reducer and
\* the clean-up of the drawer's effect.
ShowsOneSpace ==
    /\ graph.nodes \cup ui.results \subseteq NodesIn(page.space)
    /\ drawer.detail \in {None, Shown(graph, ui)}

\* The canvas can draw every edge: both its ends are on display, however the
\* answers were cut and whatever was cleared while they were on their way.
EdgesHaveEnds == \A e \in graph.edges : e \subseteq graph.nodes

\* A spinner that turns belongs to a request whose answer will stop it, also
\* after the reader has moved to another space and back.
NoSpinnerIsStuck ==
    /\ ui.searching => \E c \in calls : c.kind = "search" /\ IsLastSearch(c)
    /\ ui.expanding => \E c \in calls : c.kind = "neighbors" /\ c.seq = page.seq
    /\ ui.loading # None => \E c \in calls : c.kind = "community" /\ c.seq = page.seq
    /\ ui.listing => \E c \in calls : c.kind = "communities" /\ c.seq = page.seq
    /\ drawer.loading => \E c \in calls : c.kind = "detail" /\ c.seq = drawer.run
==============================================================================
