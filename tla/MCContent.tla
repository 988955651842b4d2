----------------------------- MODULE MCContent ------------------------------
(***************************************************************************)
(* The way of content into the system, from the upload to the graph and    *)
(* its pages.  Each component is checked by itself: `part` is chosen at    *)
(* the start.  GraphifyRuns and UploadIntake, about which there are         *)
(* theorems, are extended and have their own variables; the others share   *)
(* v1 to v8.                                                               *)
(***************************************************************************)
EXTENDS GraphifyRuns, UploadIntake, FiniteSets, TLC

CONSTANTS
    GraphifyWorkers, RunJobs, RetryBudget, MaxStarts, MaxMishaps,
    Passes, ImportRuns, MaxPageFails,
    IngestWorkers, MaxDocuments, IngestAttempts, MaxIngestFaults,
    Hosts, Addresses, Forbidden, MaxRedirects, MaxChunks, TotalTimeout, MaxChanges, FetchAttempts,
    MaxNesting, MaxEntries, MaxTotal, MaxRatio, MaxWalk,
    GraphNodes

VARIABLES
    part,  \* the component that is checked
    v1, v2, v3, v4, v5, v6, v7, v8,
    asked  \* the input of a component that is a function: {} or {input}

-----------------------------------------------------------------------------
(* Inputs of the functions, small graphs and small wikis.                  *)

GraphIds == 1..4
Pairs == {e \in SUBSET GraphIds : Cardinality(e) = 2}
NoCommunity == [n \in GraphIds |-> 0]

\* A graph as graphify writes it: the nodes in the order of the file, the
\* edges, the community field (0: none) and the nodes listed twice.
File(order, edges, field, bad) == [order |-> order, edges |-> edges, field |-> field, bad |-> bad]

CommunityRequests ==
    {File(o, es, NoCommunity, {}) : o \in {<<2, 1>>, <<3, 1, 2>>, <<4, 2, 3, 1>>, <<2, 4, 1, 3>>},
                                    es \in SUBSET Pairs}
    \cup {File(o, {}, f, {}) : o \in {<<2, 1>>, <<3, 1, 2>>}, f \in [GraphIds -> {101, 102, 0}]}

Outputs ==
    {File(<<3, 1, 2>>, {{1, 2}}, NoCommunity, {}), File(<<3, 1, 2>>, {{2, 3}}, NoCommunity, {}),
     File(<<1, 2>>, {{1, 2}, {2, 3}}, NoCommunity, {}),
     File(<<4, 3, 1, 2>>, {{1, 2}, {3, 4}}, NoCommunity, {}),
     File(<<4, 3, 1, 2>>, {{2, 3}, {3, 4}}, NoCommunity, {}),
     File(<<2, 1>>, {}, [NoCommunity EXCEPT ![1] = 101], {}),
     File(<<2, 1>>, {}, NoCommunity, {2}), File(<<>>, {}, NoCommunity, {})}

\* The files of a run and the pages there are: slugs of two roots, the second
\* of which has the key of a numbered one, and a block that a human may own.
Slug(r, n, g) == [root |-> r, no |-> n, gf |-> g]
Slugs == {Slug("a", 1, FALSE), Slug("a", 2, FALSE), Slug("b", 1, FALSE)}
KeyOfSlug(s) == IF s.root = "b" THEN <<"a", 1>> ELSE <<s.root, s.no>>
Text(text) == [b \in {"h"} |-> text]
Nothing == [b \in {} |-> "none"]
WikiFiles == {[slug |-> s, blocks |-> t] : s \in Slugs, t \in {Text("t1"), Text("t2"), Nothing}}

WikiPages ==
    {[id |-> <<k, IF k = "community" THEN KeyOfSlug(i) ELSE i>>, kind |-> k, slug |-> s,
      raw |-> c.raw, text |-> c.text, human |-> c.human, version |-> 1] :
        <<k, i>> \in {<<"community", Slug("a", 1, FALSE)>>, <<"generated_article", Slug("a", 1, FALSE)>>,
                      <<"generated_article", Slug("a", 2, FALSE)>>},
        s \in {Slug("a", 1, FALSE), Slug("a", 1, TRUE)},
        c \in {[raw |-> Text("t1"), text |-> Text("t1"), human |-> Nothing],
               [raw |-> Text("t1"), text |-> Text("mine"),
                human |-> [b \in {"h"} |-> [text |-> "mine", hash |-> "mine"]]],
               [raw |-> Text("t2"), text |-> Text("t2"),
                human |-> [b \in {"h"} |-> [text |-> "none", hash |-> "t1"]]]}}

FileRequests ==
    {[files |-> fs, pages |-> ps, communities |-> cs, gods |-> {}] :
        fs \in {<<f>> : f \in WikiFiles} \cup {<<f, g>> : f \in WikiFiles, g \in WikiFiles},
        ps \in {{}} \cup {{p} : p \in WikiPages},
        cs \in {{}, {Slug("a", 1, FALSE), Slug("b", 1, FALSE)}}}
    \cup {[files |-> [i \in 1..3 |-> [slug |-> ss[i], blocks |-> Text("t1")]],
           pages |-> {}, communities |-> {}, gods |-> {}] : ss \in [1..3 -> Slugs]}

-----------------------------------------------------------------------------

Worker == INSTANCE GraphifyWorker WITH
    jobRow <- v1, lease <- v2, worker <- v3, agent <- v4, disk <- v5, bucket <- v6,
    starts <- v7, mishaps <- v8
Import == INSTANCE GraphImport WITH
    stage <- v1, imported <- v2, todo <- v3, wikiPage <- v4, newest <- v5,
    failures <- v6
Ingest == INSTANCE IngestionWorker WITH
    file <- v1, task <- v2, hand <- v3, stored <- v4, late <- v5, ingestFaults <- v6
Fetch == INSTANCE UrlFetch WITH
    dns <- v1, changes <- v2, fetch <- v3, dialled <- v4, checked <- v5,
    snapshots <- v6, attempts <- v7, clock <- v8
Checks == INSTANCE UploadChecks WITH
    upload <- v1, archives <- v2, walked <- v3
Query == INSTANCE GraphQueries
Files == INSTANCE WikiNormalization WITH KeyOf <- KeyOfSlug

Requests ==
    [communities |-> CommunityRequests,
     queries |-> Query!GraphRequests,
     files |-> FileRequests]

(* The variables that a component does not use.                            *)
Off == "off"
slots == <<v1, v2, v3, v4, v5, v6, v7, v8>>
AllOff ==
    /\ v1 = Off /\ v2 = Off /\ v3 = Off /\ v4 = Off /\ v5 = Off /\ v6 = Off /\ v7 = Off /\ v8 = Off

Init ==
    /\ asked = {} /\ RunInit /\ UploadInit
    /\ \/ part \in {"intake", "graph"} /\ AllOff
       \/ part = "worker" /\ Worker!GraphifyInit
       \/ part = "import" /\ Import!ImportInit /\ v7 = Off /\ v8 = Off
       \/ part = "ingest" /\ Ingest!IngestInit /\ v7 = Off /\ v8 = Off
       \/ part = "fetch" /\ Fetch!FetchInit
       \/ part = "checks" /\ Checks!CheckInit
          /\ v4 = Off /\ v5 = Off /\ v6 = Off /\ v7 = Off /\ v8 = Off
       \/ part \in DOMAIN Requests /\ AllOff

Next ==
    \/ /\ part = "intake" /\ UploadNext
       /\ UNCHANGED <<part, asked, slots, runVars>>
    \/ /\ part = "graph" /\ RunNext
       /\ UNCHANGED <<part, asked, slots, upVars>>
    \/ /\ part = "worker" /\ Worker!GraphifyNext
       /\ UNCHANGED <<part, asked, runVars, upVars>>
    \/ /\ part = "import" /\ Import!ImportNext
       /\ UNCHANGED <<part, asked, v7, v8, runVars, upVars>>
    \/ /\ part = "ingest" /\ Ingest!IngestNext
       /\ UNCHANGED <<part, asked, v7, v8, runVars, upVars>>
    \/ /\ part = "fetch" /\ Fetch!FetchNext
       /\ UNCHANGED <<part, asked, runVars, upVars>>
    \/ /\ part = "checks" /\ Checks!CheckNext
       /\ UNCHANGED <<part, asked, v4, v5, v6, v7, v8, runVars, upVars>>
    \/ /\ part \in DOMAIN Requests /\ asked = {} /\ \E r \in Requests[part] : asked' = {r}
       /\ UNCHANGED <<part, slots, runVars, upVars>>

vars == <<part, asked, slots, runVars, upVars>>

Spec == Init /\ [][Next]_vars

(* The handlers and the workers of the components are one set of values. *)
Symmetric == Permutations(Runs) \cup Permutations(Handlers)

-----------------------------------------------------------------------------
(* The properties, stated with their reasons in the components' modules.   *)

Asked(p) == IF part = p THEN asked ELSE {}

\* Only what was checked comes in: a connection goes to an address that was
\* checked at its own hop, hops and bytes are bounded in every attempt, an
\* accepted archive was walked to its end, and the worker parses what was
\* accepted as the type it was checked as.
OnlyCheckedContentEnters ==
    /\ part = "fetch" => Fetch!DialsWhatWasChecked /\ Fetch!FetchIsBounded
    /\ part = "checks" => Checks!AcceptedIsSound /\ Checks!AcceptedReachesItsParser

\* The ingestion worker reports what it stored: a document listed as parsed
\* has its artefacts, a worker that lost its job stores one document more at
\* most, and a good file is given up only after all attempts.
IngestionKeepsItsWord ==
    part = "ingest" => /\ Ingest!ListedIsStored
                       /\ Ingest!LoserStoresOneMore
                       /\ Ingest!GoodFileIsRetried

\* Attempts of the graphify worker do not meet: the output uploaded is of this
\* attempt, no agent writes it while it is validated or outlives its run, a
\* job that succeeded has its whole output in the store, and an idle worker
\* leaves no directory and no lease behind.
AttemptsStayApart ==
    part = "worker" => /\ Worker!OutputIsFresh
                       /\ Worker!NoAgentOutlivesItsRun
                       /\ Worker!SucceededIsWhole
                       /\ Worker!IdleLeavesNothing

\* The pages made of a run tell what it found, in whatever order its files list
\* it: the communities divide the nodes along the edges and do not depend on
\* the order, no two pages get one slug, a human's text stays, and a page is
\* archived only when the run no longer has it.
GeneratedPagesAreRight ==
    /\ part = "import" => Import!PagesFollowTheRun
    /\ \A r \in Asked("communities") : Import!OrderDoesNotMatter(r) /\ Import!CommunitiesDivide(r)
    /\ \A r \in Asked("files") :
          Files!SlugsStayApart(r) /\ Files!HumanTextStays(r) /\ Files!ArchivedIsAbsent(r)

\* The graph answers with nodes of the active run and of readable spaces only,
\* the hop it shows is the distance, its first path is a shortest one, and a
\* community that is cut has no loose edges.
GraphAnswersAreRight ==
    \A r \in Asked("queries") :
        /\ Query!AnswersStayInScope(r) /\ Query!HopIsDistance(r)
        /\ Query!ShortestPathFirst(r) /\ Query!CommunityIsClosed(r)

=============================================================================
