------------------------------ MODULE Retrieval ------------------------------
(***************************************************************************)
(* From a question to the chunks in the prompt: the cutting of pages into  *)
(* chunks (chunker.ts), the searches, their fusion (retrieval-engine.ts,   *)
(* rrf-fusion.ts) and the reranking (chat-retrieval.service.ts), as        *)
(* operators over a request.  Chunks are numbers; a search is the sequence *)
(* of the chunks it found, best first, over the spaces whose hits are      *)
(* fused together; one that failed found nothing.                          *)
(***************************************************************************)
EXTENDS Naturals, FiniteSets, SequencesExt

CONSTANTS TopK,   \* RETRIEVAL_TOP_K
          K       \* DEFAULT_RRF_K: 60 for lists of up to 200 hits, less here for shorter ones

Chunks == 1..4

(***************************************************************************)
(* splitContentByTokenWindow: a window is a pair of offsets, [from, to).   *)
(***************************************************************************)
CharsPerToken == 4
Lesser(a, b) == IF a < b THEN a ELSE b

\* normalizeChunkOptions
Overlap(w) == Lesser(w.overlap, w.max - 1)

\* mutant: the loop goes on when the end is reached
NoBreak(w, start) ==
    LET end == Lesser(w.length, start + w.max * CharsPerToken)
        back == Overlap(w) * CharsPerToken
    IN  IF end > back + start + 1 THEN end - back ELSE start + 1

\* where the window after the one at start begins; the length when none does
NextStart(w, start) ==
    LET end == Lesser(w.length, start + w.max * CharsPerToken)
        back == Overlap(w) * CharsPerToken
    IN  IF end = w.length THEN w.length ELSE IF end > back + start + 1 THEN end - back ELSE start + 1

Windows(w) ==
    LET S[n \in 0..w.length] == IF n = 0 THEN 0 ELSE NextStart(w, S[n - 1])
        starts == {S[n] : n \in 0..w.length} \ {w.length}
    IN  {<<s, Lesser(w.length, s + w.max * CharsPerToken)>> : s \in starts}

(***************************************************************************)
(* Fusion: of the hits of all spaces with one embedding model (retrieve),  *)
(* or of all hits, when there are graph candidates (rrfFuseThreeSource).   *)
(* Scores are exact: 1 / (K + rank), times 10 * Whole, without remainder.  *)
(***************************************************************************)
Whole == (K + 1) * (K + 2) * (K + 3) * (K + 4)
RankIn(found, c) == CHOOSE i \in DOMAIN found : found[i] = c
Contribution(found, c) == IF c \in ToSet(found) THEN Whole \div (K + RankIn(found, c)) ELSE 0
Found(f) == ToSet(f.vector) \union ToSet(f.bm25)

\* mutant: no penalty
FullScore(f, risky, c) == 10 * (Contribution(f.vector, c) + Contribution(f.bm25, c))

\* addRankedResults, with DEFAULT_INJECTION_PENALTY = 0.3
FusedScore(f, risky, c) ==
    (IF c \in risky THEN 3 ELSE 10) * (Contribution(f.vector, c) + Contribution(f.bm25, c))

\* sort by score; equal ones stay in the order in which they were found
Ranked(hits, found) ==
    SetToSortSeq(hits, LAMBDA x, y : x.score > y.score
                          \/ (x.score = y.score /\ RankIn(found, x.chunk) < RankIn(found, y.chunk)))

Scores(f, risky) == {[chunk |-> c, score |-> FusedScore(f, risky, c)] : c \in Found(f)}

\* mutant: results that are all risky are not dropped
FuseAll(f, risky) == Ranked(Scores(f, risky), f.vector \o f.bm25)

\* rrfFuse, before its slice
Fuse(f, risky) ==
    IF Found(f) \subseteq risky THEN <<>> ELSE Ranked(Scores(f, risky), f.vector \o f.bm25)

Best(results) == SubSeq(results, 1, Lesser(Len(results), TopK))

\* retrieveContext
Retrieve(q) ==
    LET all == FlattenSeq([i \in DOMAIN q.fusions |-> Best(Fuse(q.fusions[i], q.risky))])
    IN  Best(Ranked(ToSet(all), [i \in DOMAIN all |-> all[i].chunk]))

(***************************************************************************)
(* The graph's part of the prompt: truncateGraphContextForBudget.          *)
(***************************************************************************)
\* mutant: the first candidate that does not fit ends the selection
StopsAtMisfit(tokens, budget) ==
    LET Used[n \in 0..Len(tokens)] == IF n = 0 THEN 0 ELSE Used[n - 1] + tokens[n]
    IN  {n \in DOMAIN tokens : Used[n] <= budget}

Selected(tokens, budget) ==
    LET Used[n \in 0..Len(tokens)] ==
            IF n = 0 THEN 0 ELSE IF Used[n - 1] + tokens[n] > budget THEN Used[n - 1] ELSE Used[n - 1] + tokens[n]
    IN  {n \in DOMAIN tokens : Used[n - 1] + tokens[n] <= budget}

(***************************************************************************)
(* Reranking.  The answer of the model service is a sequence of indices,   *)
(* from 0, and scores, which may be incomplete, repeated or out of range.  *)
(***************************************************************************)
Usable(r) == {a \in ToSet(r.answer) : a.index < Len(r.results)}

\* the last score for an index counts
ScoreOf(r, i) ==
    LET mine == {n \in DOMAIN r.answer : r.answer[n].index = i - 1}
    IN  r.answer[CHOOSE n \in mine : \A m \in mine : m <= n].score

Scored(r) == {i \in DOMAIN r.results : \E a \in Usable(r) : a.index = i - 1}

\* mutant: results without a score are left out
OnlyScored(r) == Scored(r)

Reordered(r) == DOMAIN r.results

\* rerankRetrievedResults, reorderByRerankScores: no usable score is an error,
\* and an error, a timeout or a missing configuration keeps the order.
Rerank(r) ==
    IF Usable(r) = {} THEN r.results
    ELSE LET before(i, j) ==
                 \/ i \in Scored(r) /\ j \in Scored(r) /\ ScoreOf(r, i) > ScoreOf(r, j)
                 \/ i \in Scored(r) /\ j \notin Scored(r)
                 \/ /\ (i \in Scored(r) /\ j \in Scored(r) /\ ScoreOf(r, i) = ScoreOf(r, j))
                       \/ (i \notin Scored(r) /\ j \notin Scored(r))
                    /\ i < j
             order == SetToSortSeq(Reordered(r), before)
         IN  [n \in DOMAIN order |-> r.results[order[n]]]

(***************************************************************************)
(* Graph candidates, in hybrid mode: the nodes that the search found, the  *)
(* members of the communities of the best of them, and these communities.  *)
(* A match is 0, 1 or 2 halves; g.found is ordered by it.                  *)
(***************************************************************************)
CONSTANTS Expanded,       \* DEFAULT_NEIGHBOR_EXPANSION_TOP_K
          MaxCandidates   \* DEFAULT_MAX_CANDIDATES

MemberCount(g, c) == Cardinality({n \in DOMAIN g.community : g.community[n] = c})

\* mutant: the match of the last node found counts
LastMatch(g, c) == g.found[CHOOSE i \in DOMAIN g.found : g.community[g.found[i].node] = c /\
                              \A j \in DOMAIN g.found : g.community[g.found[j].node] = c => j <= i].match

\* searchScoreByCommunityId, communityScoreById
CommunityMatch(g, c) == Max({g.found[i].match : i \in {i \in DOMAIN g.found : g.community[g.found[i].node] = c}})

\* retrieveLocalCandidateContexts; its one-hop paths add only nodes found
Contexts(g) ==
    LET communities == {g.community[g.found[i].node] : i \in 1..Lesser(Expanded, Len(g.found))} \ {"none"}
    IN  g.found \o SetToSeq({[node |-> n, match |-> CommunityMatch(g, g.community[n])] :
                                 n \in {n \in DOMAIN g.community : g.community[n] \in communities}})

\* mutant: the context that came first stays
FirstStays(g) ==
    FoldLeft(LAMBDA best, x : [best EXCEPT ![x.node] = IF @ = 0 THEN x.match + 1 ELSE @],
             [n \in DOMAIN g.community |-> 0], Contexts(g))

\* dedupeCandidateContexts: 1 + the match with which a node stays, 0 if it is
\* no candidate
Deduped(g) ==
    FoldLeft(LAMBDA best, x : [best EXCEPT ![x.node] = IF x.match + 1 > @ THEN x.match + 1 ELSE @],
             [n \in DOMAIN g.community |-> 0], Contexts(g))

\* 20 * ln(1 + evidence), rounded
Evidence(n) == <<14, 22, 28, 32>>[n]

\* scoreLightRAG, in hundredths
CandidateScore(g, match, evidence, c) ==
    LET largest == Max({1} \union {MemberCount(g, d) : d \in {"a", "b"}})
    IN  20 * match + 30 + Evidence(evidence) + (IF c = "none" THEN 0 ELSE (10 * MemberCount(g, c)) \div largest)

\* retrieveFullGraphContext: the best candidates, nodes and communities; the
\* code cuts between equal scores by their ids, here such candidates all stay.
Candidates(g) ==
    LET nodes == {n \in DOMAIN g.community : Deduped(g)[n] > 0}
        hit == {g.community[g.found[i].node] : i \in DOMAIN g.found} \ {"none"}
        all == {[id |-> ToString(n), of |-> g.community[n], score |-> CandidateScore(g, Deduped(g)[n] - 1, 1, g.community[n])] : n \in nodes}
               \union {[id |-> c, of |-> c, score |-> CandidateScore(g, CommunityMatch(g, c), MemberCount(g, c), c)] : c \in hit}
    IN  {x \in all : Cardinality({y \in all : y.score > x.score}) < MaxCandidates}

(***************************************************************************)
(* Inputs.                                                                 *)
(***************************************************************************)
Searches(C) == UNION {{s \in [1..n -> C] : \A i, j \in 1..n : i # j => s[i] # s[j]} : n \in 0..Cardinality(C)}

\* what is fused together, chunks being numbered as the vector search found them
Fusions(n) == [vector : {[i \in 1..m |-> i] : m \in 0..n}, bm25 : Searches(1..n)]

\* one fusion of up to four chunks, or one of three and another of one
RetrievalRequests ==
    [fusions : {<<f>> : f \in Fusions(4)}
               \union {<<f, [vector |-> v, bm25 |-> b]>> : f \in Fusions(3), v \in Searches({4}), b \in Searches({4})},
     risky : SUBSET Chunks]
RerankRequests == [results : {<<1, 2, 3>>, <<2, 1>>}, risky : {{}, {2}},
                   answer : UNION {[1..n -> [index : 0..3, score : 0..2]] : n \in 0..3}]
ChunkRequests == [length : 1..40, max : 1..4, overlap : 0..5]
GraphHits == {g \in [community : [1..4 -> {"a", "b", "none"}],
                      found : UNION {[1..n -> [node : 1..4, match : 0..2]] : n \in 0..2}] :
                 /\ \A i, j \in DOMAIN g.found : i < j => g.found[i].node # g.found[j].node
                 /\ \A i, j \in DOMAIN g.found : i < j => g.found[i].match >= g.found[j].match}
BudgetRequests == [tokens : UNION {[1..n -> 1..4] : n \in 0..4}, budget : 0..8]

(***************************************************************************)
(* Properties.                                                             *)
(***************************************************************************)
\* A page is cut without a gap, no chunk repeats another one, and every chunk
\* but the last is a token or more ahead: the loop ends after few chunks.
WindowsCover(w) ==
    /\ \A p \in 0..(w.length - 1) : \E x \in Windows(w) : x[1] <= p /\ p < x[2]
    /\ \A x, y \in Windows(w) : x # y => ~(x[1] <= y[1] /\ y[2] <= x[2])
    /\ \A x, y \in Windows(w) : x[1] < y[1] => y[1] - x[1] >= CharsPerToken

\* A risky chunk is never retrieved without a safe one beside it, whichever
\* searches failed and models differ, except where as many risky chunks as are
\* kept stood before each safe one.
NeverOnlyRisky(q) ==
    LET kept == Retrieve(q)
        risks == {i \in DOMAIN kept : kept[i].chunk \in q.risky}
    IN  /\ \A i \in risks : \E f \in ToSet(q.fusions) : kept[i].chunk \in Found(f) /\ ~(Found(f) \subseteq q.risky)
        /\ kept # <<>> /\ risks = DOMAIN kept => Len(kept) = TopK

\* The ranks at which one search alone outweighs two for a risky chunk, with
\* the penalty: up to 41 for the K of the code, 2 for K = 1.
NearTop(found, c) == c \in ToSet(found) /\ 5 * (K + 1) > 3 * (K + RankIn(found, c))

\* A safe chunk that either search found near the top is kept, and before every
\* risky one, whatever the ranks of the risky chunks.
SafeComesFirst(q) ==
    LET kept == Retrieve(q) IN
    \A j \in DOMAIN kept : kept[j].chunk \in q.risky =>
        \A f \in ToSet(q.fusions) : \A c \in Found(f) \ q.risky :
            NearTop(f.vector, c) \/ NearTop(f.bm25, c) => \E i \in 1..j : kept[i].chunk = c

\* A node reached in several ways keeps its best match.
BestMatchStays(g) ==
    \A n \in DOMAIN g.community :
        Deduped(g)[n] = Max({0} \union {Contexts(g)[i].match + 1 : i \in {i \in DOMAIN Contexts(g) : Contexts(g)[i].node = n}})

\* The summary of a community of several nodes has a better score than each of
\* them: it is never cut while one of its nodes is shown.
CommunityBeforeNodes(g) ==
    \A x \in Candidates(g) : x.of # "none" /\ MemberCount(g, x.of) > 1 /\ x.of \in {g.community[g.found[i].node] : i \in DOMAIN g.found} =>
        \E y \in Candidates(g) : y.id = x.of /\ (x.id # y.id => y.score > x.score)

\* What fits is used: a candidate that was left out would not fit in the end.
BudgetIsUsed(b) ==
    LET used == FoldSet(LAMBDA n, sum : sum + b.tokens[n], 0, Selected(b.tokens, b.budget))
    IN  /\ used <= b.budget
        /\ \A n \in DOMAIN b.tokens \ Selected(b.tokens, b.budget) : used + b.tokens[n] > b.budget

\* Whatever the reranking service answers, the prompt keeps the chunks that
\* were retrieved: it can only change their order.
RerankKeepsAll(r) == Len(Rerank(r)) = Len(r.results) /\ ToSet(Rerank(r)) = ToSet(r.results)

=============================================================================
