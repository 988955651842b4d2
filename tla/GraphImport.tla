----------------------------- MODULE GraphImport -----------------------------
(***************************************************************************)
(* What graph-core makes of the graph.json of a run: the validator, the    *)
(* communities, and the operation that is to be stored (import-service).   *)
(* Then the graph of the run becomes rows, and its communities become      *)
(* wiki pages: internal-jobs importGraphData and                           *)
(* wiki-from-graph.service generateForRun.  Both run inside the answer to  *)
(* the worker's last report, so the handlers of two runs of one space can  *)
(* overlap.  Storing the rows is one transaction and each page another.    *)
(*                                                                         *)
(* A graph g is [order, edges, field, bad]: the node ids in the order of   *)
(* the file, the edges as sets of their ends, the community each node      *)
(* names for itself, and the nodes without a label.  Ids are numbers and   *)
(* sort as numbers; labels, scores, sizes and references are left out.     *)
(***************************************************************************)
EXTENDS Naturals, FiniteSets, Sequences, SequencesExt

CONSTANTS
    Passes,         \* passes of the propagation, 20 in the code
    Outputs,        \* the outputs a run can deliver
    ImportRuns,     \* bound: runs of the space
    MaxPageFails    \* bound: transactions that fail, import or page

VARIABLES
    stage,      \* what the handler of a run does
    imported,   \* its rows: nodes and communities
    todo,       \* its communities without a page yet
    wikiPage,   \* wiki_pages: community key -> current version, or NoPage
    newest,     \* ghost: the run that was imported last, and whether alone
    failures

importVars == <<stage, imported, todo, wikiPage, newest, failures>>

NoField == 0        \* a node that names no community; names are > 100
NoCount == 0        \* previousNodeCount is undefined
NoGraph == [nodes |-> {}, communities |-> {}]

\* validateGraphOutput: one bad node, or none at all, fails the output; an
\* edge to a node that is not there is dropped.
NodesOf(g) == ToSet(g.order)
IsValid(g) == g.order # <<>> /\ g.bad = {}
ValidEdges(g) == {e \in g.edges : e \subseteq NodesOf(g)}

-----------------------------------------------------------------------------
(* detectCommunities                                                       *)

Adjacent(g, n) == {m \in NodesOf(g) \ {n} : {m, n} \in ValidEdges(g)}

SortedIds(g) == SetToSortSeq(NodesOf(g), <)

Winner(voters, label) ==
    LET Tally(v) == Cardinality({m \in voters : label[m] = v})
        labels   == {label[m] : m \in voters} IN
    CHOOSE v \in labels : \A u \in labels :
        Tally(v) > Tally(u) \/ (Tally(v) = Tally(u) /\ v <= u)

\* mutant: every label of the graph is counted, not those of the neighbours
OverAllNodes(neighbours, label) == Winner(DOMAIN label, label)

\* The label most neighbours carry; of several the smallest.
BestLabel(neighbours, label) == Winner(neighbours, label)

\* One pass, each node seeing the labels that were set before it.
Pass(g, label) ==
    LET Visit(l, n) == IF Adjacent(g, n) = {} THEN l
                       ELSE [l EXCEPT ![n] = BestLabel(Adjacent(g, n), l)] IN
    FoldLeft(Visit, label, SortedIds(g))

Labels(g) ==
    LET after[k \in 0..Passes] ==
            IF k = 0 THEN [n \in NodesOf(g) |-> n] ELSE Pass(g, after[k-1])
    IN  after[Passes]

\* The largest group is community-1; of equal ones that of the smallest id.
ComesBefore(c, d) ==
    \/ Cardinality(c) > Cardinality(d)
    \/ Cardinality(c) = Cardinality(d) /\ \E x \in c : \A y \in d : x < y

Ordinal(groups, c) == 1 + Cardinality({d \in groups \ {c} : ComesBefore(d, c)})

Groups(g) ==
    LET label == Labels(g) IN
    {{m \in NodesOf(g) : label[m] = label[n]} : n \in NodesOf(g)}

\* mutant: of members with equally many neighbours the first of the file
FirstInFile(g, c) ==
    LET Degree(n) == Cardinality(Adjacent(g, n))
        most == {n \in c : \A m \in c : Degree(n) >= Degree(m)} IN
    g.order[CHOOSE i \in DOMAIN g.order :
                g.order[i] \in most /\ \A j \in 1..(i-1) : g.order[j] \notin most]

\* A group is titled after the member with the most neighbours.
Representative(g, c) ==
    CHOOSE n \in c : \A m \in c :
        \/ Cardinality(Adjacent(g, n)) > Cardinality(Adjacent(g, m))
        \/ Cardinality(Adjacent(g, n)) = Cardinality(Adjacent(g, m)) /\ n <= m

DetectByPropagation(g) ==
    LET groups == Groups(g) IN
    {[key |-> Ordinal(groups, c), members |-> c, title |-> Representative(g, c)] : c \in groups}

\* An output whose nodes name their communities keeps those.
DetectFromNodeField(g) ==
    {[key |-> k, members |-> {n \in NodesOf(g) : g.field[n] = k}, title |-> k]
        : k \in {g.field[n] : n \in NodesOf(g)} \ {NoField}}

DetectCommunities(g) ==
    IF \E n \in NodesOf(g) : g.field[n] # NoField
    THEN DetectFromNodeField(g) ELSE DetectByPropagation(g)

(* prepareImport                                                           *)

Shrank(g, previous) == previous # NoCount /\ 5 * Len(g.order) < previous

PrepareImport(g, previous) ==
    IF Shrank(g, previous) THEN NoGraph
    ELSE [nodes |-> NodesOf(g), communities |-> DetectCommunities(g)]

-----------------------------------------------------------------------------
(* Properties of a graph g                                                 *)

\* The same graph written in another order gives the same communities under
\* the same keys and titles: propagation visits the nodes one by one, and a
\* page is found again by the key of its community.
OrderDoesNotMatter(g) ==
    LET found == DetectCommunities(g) IN
    \A o \in {Reverse(g.order), Tail(g.order) \o <<Head(g.order)>>} :
        DetectCommunities([g EXCEPT !.order = o]) = found

\* Propagation stays within what is connected, although every node starts
\* with a label of its own: no community joins nodes that no chain of edges
\* connects, each node has one, and no two share a key.
Linked(g, n, m) ==
    LET reach[k \in 0..Len(g.order)] ==
            IF k = 0 THEN {n}
            ELSE LET near == reach[k-1] IN near \cup UNION {Adjacent(g, x) : x \in near}
    IN  m \in reach[Len(g.order)]

CommunitiesDivide(g) ==
    LET found == DetectByPropagation(g) IN
    /\ UNION {c.members : c \in found} = NodesOf(g)
    /\ \A c \in found : \A n, m \in c.members : Linked(g, n, m)
    /\ \A c, d \in found : c # d => c.key # d.key /\ c.members \cap d.members = {}

-----------------------------------------------------------------------------
(* importGraphData and generateForRun                                      *)

NoPage == [run |-> "none", members |-> {}, version |-> 0]

ImportInit ==
    /\ stage = [r \in ImportRuns |-> "running"]
    /\ imported = [r \in ImportRuns |-> NoGraph]
    /\ todo = [r \in ImportRuns |-> {}]
    /\ wikiPage = [k \in {} |-> NoPage]
    /\ newest = [run |-> "none", before |-> "none", alone |-> TRUE]
    /\ failures = 0

Fails == failures < MaxPageFails /\ failures' = failures + 1

\* importRun is called without the count of the run before: the guard against
\* a graph that shrank by more than 80 % is never met.
ImportGraphData(r) ==
    /\ stage[r] = "running" /\ stage' = [stage EXCEPT ![r] = "writing"]
    /\ \/ /\ \E g \in Outputs :
               imported' = [imported EXCEPT ![r] =
                   IF IsValid(g) THEN PrepareImport(g, NoCount) ELSE NoGraph]
          /\ UNCHANGED failures
       \/ Fails /\ UNCHANGED imported
    /\ todo' = [todo EXCEPT ![r] = imported'[r].communities]
    /\ newest' = [run |-> r, before |-> newest.run,
                  alone |-> \A s \in ImportRuns \ {r} : stage[s] # "writing"]
    /\ UNCHANGED wikiPage

PageOf(k) == IF k \in DOMAIN wikiPage THEN wikiPage[k] ELSE NoPage
Published(k, page) == [j \in DOMAIN wikiPage \cup {k} |-> IF j = k THEN page ELSE wikiPage[j]]

\* mutant: a page that exists keeps its current version
KeepsCurrent(k, page) == IF k \in DOMAIN wikiPage THEN wikiPage ELSE Published(k, page)

\* A new version, and the page repointed to it.
UpsertPage(k, page) == Published(k, page)

GenerateCommunityPage(r, c) ==
    /\ c \in todo[r] /\ todo' = [todo EXCEPT ![r] = @ \ {c}]
    /\ wikiPage' = UpsertPage(c.key, [run |-> r, members |-> c.members,
                                      version |-> PageOf(c.key).version + 1])
    /\ UNCHANGED <<stage, imported, newest, failures>>

\* The transaction of a page fails, because two handlers took the same
\* version number or for another reason, and the page is skipped.
SkipCommunity(r, c) ==
    /\ c \in todo[r] /\ todo' = [todo EXCEPT ![r] = @ \ {c}]
    /\ Fails
    /\ UNCHANGED <<stage, imported, wikiPage, newest>>

GenerateForRunEnds(r) ==
    /\ stage[r] = "writing" /\ todo[r] = {}
    /\ stage' = [stage EXCEPT ![r] = "done"]
    /\ UNCHANGED <<imported, todo, wikiPage, newest, failures>>

HandlerOf(r) ==
    \/ ImportGraphData(r) \/ GenerateForRunEnds(r)
    \/ \E c \in todo[r] : GenerateCommunityPage(r, c) \/ SkipCommunity(r, c)

ImportNext == \E r \in ImportRuns : HandlerOf(r)

ImportSpec == ImportInit /\ [][ImportNext]_importVars

-----------------------------------------------------------------------------
(* Properties of the import                                                *)

\* Once the pages of the newest run are written and no other run wrote at the
\* same time, every community it found is what its page tells, whatever the
\* runs before had left under that key; only the failed pages lag behind.
PagesFollowTheRun ==
    newest.alone /\ newest.run # "none" /\ stage[newest.run] = "done" =>
        LET found == imported[newest.run].communities IN
        Cardinality({c \in found : PageOf(c.key).members # c.members}) <= failures

=============================================================================
