---------------------------- MODULE GraphQueries ----------------------------
(***************************************************************************)
(* What the knowledge graph answers (graph.service.ts, and the SQL of      *)
(* packages/graph-core/src/query-service.ts), as operators over a request  *)
(* q: the graph rows, the caller, and the arguments of the call.  The two  *)
(* recursive queries are functions of the number of hops.  An edge is a    *)
(* pair of nodes, of one run, and is followed in both directions.          *)
(***************************************************************************)
EXTENDS Naturals, FiniteSets, SequencesExt

CONSTANTS GraphNodes   \* 1..n, so that ORDER BY id is an order

\* The import writes nodes and edges of one run, and a run belongs to a space.
SpaceOfRun == [current |-> "s1", former |-> "s1", foreign |-> "s2"]
GraphSpaces == {"s1", "s2"}

NodeSpace(q, n) == SpaceOfRun[q.run[n]]
Strength(q, e) == IF e \in q.weak THEN 1 ELSE 2

(***************************************************************************)
(* Scope.                                                                  *)
(***************************************************************************)
\* resolveReadableSpaceIds: all spaces for an owner or admin, else those that
\* the groups in the access token may view
ReadableSpaces(q) == IF q.admin THEN GraphSpaces ELSE q.granted

\* mutant: the active runs of all spaces, and no condition on the space
RunsOnly(q) == [spaces |-> GraphSpaces, runs |-> {"current", "former"}]

\* resolveActiveGraphifyRunIds, activeGraphScope: the readable spaces that have
\* an active run, and these runs, as two sets.  s2 has none.
ActiveScope(q) ==
    LET with == ReadableSpaces(q) \cap {"s1"}
    IN  [spaces |-> with, runs |-> IF with = {} THEN {} ELSE {"current"}]

Visible(q) == {n \in GraphNodes : NodeSpace(q, n) \in ActiveScope(q).spaces /\ q.run[n] \in ActiveScope(q).runs}

\* An edge is of its nodes' run, so its own conditions follow from theirs.
VisibleEdges(q) == {e \in q.edges : e[1] \in Visible(q) /\ e[2] \in Visible(q)}

\* mutant: an edge is followed from its source only
Forward(q, n) == {<<e, e[2]>> : e \in {e \in VisibleEdges(q) : e[1] = n}}

\* the join of graph_edges and next_node
Onward(q, n) ==
    {<<e, e[2]>> : e \in {e \in VisibleEdges(q) : e[1] = n}} \union {<<e, e[1]>> : e \in {e \in VisibleEdges(q) : e[2] = n}}

(***************************************************************************)
(* The recursive queries.                                                  *)
(***************************************************************************)
StartPath(n) == [nodes |-> <<n>>, edges |-> <<>>]
LastNode(p) == p.nodes[Len(p.nodes)]

DepthLimit(q) == q.hops

\* with recursive paths: all simple paths of at most DepthLimit edges
SimplePaths(q) ==
    LET Longer(ps) == UNION {{[nodes |-> Append(p.nodes, x[2]), edges |-> Append(p.edges, x[1])] :
                                 x \in {x \in Onward(q, LastNode(p)) : x[2] \notin ToSet(p.nodes)}} : p \in ps}
        W[d \in 0..DepthLimit(q)] ==
            IF d = 0 THEN {StartPath(q.source) : n \in Visible(q) \cap {q.source}} ELSE Longer(W[d - 1])
    IN  UNION {W[d] : d \in 0..DepthLimit(q)}

\* confidence times ln(1 + evidence), multiplied along the path
Confidence(q, p) == FoldLeft(LAMBDA c, e : c * Strength(q, e), 1, p.edges)

\* mutant: confidence before length
StrongestFirst(q, p, r) ==
    Confidence(q, p) > Confidence(q, r) \/ (Confidence(q, p) = Confidence(q, r) /\ Len(p.edges) < Len(r.edges))

\* order by depth asc, total_confidence desc
Better(q, p, r) ==
    Len(p.edges) < Len(r.edges) \/ (Len(p.edges) = Len(r.edges) /\ Confidence(q, p) > Confidence(q, r))

\* findPath: the best q.limit of them (50 in the code), best first; rows that
\* are equally good come in any order.
FindPath(q) ==
    LET found == {p \in SimplePaths(q) : LastNode(p) = q.target /\ Len(p.edges) > 0}
        all == SetToSortSeq(found, LAMBDA p, r : Better(q, p, r))
    IN  SubSeq(all, 1, IF Len(all) < q.limit THEN Len(all) ELSE q.limit)

\* The first q.limit elements of a set of numbers or pairs, in the order of lt
FirstOf(S, limit, lt(_, _)) == {x \in S : Cardinality({y \in S : lt(y, x)}) < limit}
ByPair(a, b) == a[1] < b[1] \/ (a[1] = b[1] /\ a[2] < b[2])

\* getNeighbors: the nodes and edges of the paths, the centre first, and then
\* by id up to the limit (200 in the code)
Neighbours(q) ==
    LET paths == SimplePaths(q) IN
    [nodes |-> FirstOf(UNION {ToSet(p.nodes) : p \in paths}, q.limit,
                       LAMBDA a, b : b # q.source /\ (a = q.source \/ a < b)),
     edges |-> FirstOf(UNION {ToSet(p.edges) : p \in paths}, q.limit, ByPair)]

(***************************************************************************)
(* buildNeighborItems: a breadth-first search over the rows that came.     *)
(***************************************************************************)
Touches(e, a, b) == e = <<a, b>> \/ e = <<b, a>>

Reached(q, N, E) ==
    LET R[d \in 0..Cardinality(GraphNodes)] ==
            IF d = 0 THEN {q.source}
            ELSE R[d - 1] \union {b \in N : \E a \in R[d - 1], e \in E : Touches(e, a, b)}
    IN  R

NeighbourItems(q) ==
    LET got == Neighbours(q)
        R == Reached(q, got.nodes, got.edges)
        Hop(n) == CHOOSE d \in DOMAIN R : n \in R[d] /\ \A c \in DOMAIN R : n \in R[c] => d <= c
    IN  {[node |-> n, hop |-> Hop(n)] : n \in {n \in got.nodes \ {q.source} : \E d \in DOMAIN R : n \in R[d]}}

(***************************************************************************)
(* Communities.                                                            *)
(***************************************************************************)
Members(q) == {n \in Visible(q) : n \in q.community}

\* mutant: the edges of all members, whether or not they were cut off
EdgesOfAll(q, nodes) == {e \in VisibleEdges(q) : e[1] \in Members(q) /\ e[2] \in Members(q)}

\* community_edges
EdgesAmong(q, nodes) == {e \in VisibleEdges(q) : e[1] \in nodes /\ e[2] \in nodes}

\* getCommunityNodes
CommunityNodes(q) ==
    LET nodes == FirstOf(Members(q), q.limit, LAMBDA a, b : a < b)
    IN  [nodes |-> nodes, edges |-> EdgesAmong(q, nodes), truncated |-> Cardinality(Members(q)) > q.limit]

\* Graphs of which the last node may be of another run, and calls on them.
GraphRequests ==
    LET last == Cardinality(GraphNodes)
        pairs == {e \in GraphNodes \X GraphNodes : e[1] < e[2]}
    IN  {q \in [run : {[n \in GraphNodes |-> IF n = last THEN r ELSE "current"] : r \in DOMAIN SpaceOfRun},
                edges : SUBSET pairs, weak : SUBSET pairs, source : {2}, target : {3}, hops : {1, 3}, limit : {2, 20},
                admin : BOOLEAN, granted : {{"s1"}, {"s2"}}, community : {GraphNodes \ {1}}] :
            /\ q.weak \subseteq q.edges /\ (q.admin => q.granted = {"s2"})
            /\ \A e \in q.edges : q.run[e[1]] = q.run[e[2]]}

(***************************************************************************)
(* Properties of the answers.                                              *)
(***************************************************************************)
\* The answers show nothing but nodes of the active run of a readable space,
\* although space and run are two independent conditions in the SQL.
AnswersStayInScope(q) ==
    LET paths == FindPath(q)
        shown == Neighbours(q).nodes \union CommunityNodes(q).nodes \union UNION {ToSet(paths[i].nodes) : i \in DOMAIN paths}
    IN  \A n \in shown : q.run[n] = "current" /\ (q.admin \/ NodeSpace(q, n) \in q.granted)

\* The distance of two nodes in the visible graph, from its definition: the
\* number of hops after which the ball around one contains the other.
Within(q, d) == Reached(q, Visible(q), VisibleEdges(q))[d]

\* The hop shown for a neighbour is its distance, and nobody within the hops
\* asked for is missing, when the answer did not meet the limit.
HopIsDistance(q) ==
    q.limit = 20 /\ q.source \in Visible(q) =>
        NeighbourItems(q) = {[node |-> n, hop |-> d] : <<n, d>> \in
            {x \in GraphNodes \X (1..q.hops) : x[1] \in Within(q, x[2]) \ Within(q, x[2] - 1)}}

\* The first path shown is a shortest one, also when the limit cuts the rest.
ShortestPathFirst(q) ==
    LET near == {d \in 1..q.hops : q.target \in Within(q, d)}
        paths == FindPath(q)
    IN  q.source \in Visible(q) /\ near # {} =>
            Len(paths) > 0 /\ \A d \in near : Len(paths[1].edges) <= d

\* A community that is cut at the limit is still a graph: its edges connect
\* nodes that are shown.
CommunityIsClosed(q) == \A e \in CommunityNodes(q).edges : {e[1], e[2]} \subseteq CommunityNodes(q).nodes
=============================================================================
