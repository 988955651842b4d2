--------------------------- MODULE PipelineProofs ---------------------------
(***************************************************************************)
(* Theorems about UploadIntake, GraphifyRuns and WikiIndex, the stations on *)
(* the way from a document to an answer, for every number of uploads,       *)
(* spaces, documents, runs, pages, replicas and jobs, and every step at     *)
(* which a handler stops: what is uploaded is kept, the graph of a run is   *)
(* imported once, what the hand-off and a cancellation decided stays, and   *)
(* the index that is searched is whole.                                     *)
(***************************************************************************)
EXTENDS GraphifyRuns, WikiIndex, UploadIntake, SequenceTheorems, TLAPS

-----------------------------------------------------------------------------
(* Types *)

AfterHandoff == {"graphify_pending", "graphify_running", "graphify_failed", "wiki_proposed"}
DocStatuses == BeforeHandoff \union AfterHandoff
RunStatuses == {"none", "pending", "succeeded", "failed", "cancelled", "docmost_syncing", "docmost_sync_failed"}
JobStatuses == {"none", "pending", "running", "succeeded", "failed", "cancelled"}
Ops == {"idle", "complete", "fail", "handoff", "reprocess", "create", "cancel", "graphify"}
Pcs == {"idle", "read", "move", "tx", "docs", "reset", "job", "commit", "complete", "import", "load", "advance"}
Parsing == {"validating", "archived", "parsing", "parsed", "parse_failed"}
Outcomes == {"wiki_proposed", "graphify_failed"}
MaybeRun == Runs \union {NoRun}

Doc == [status : DocStatuses, run : MaybeRun]
RunRow == [status : RunStatuses, job : MaybeRun]
Hand == [op : Ops, pc : Pcs, d : SUBSET GDocs, path : Seq(Parsing \union Outcomes), r : MaybeRun,
         seen : JobStatuses]

RunTypeOK ==
    /\ sdoc \in [GDocs -> Doc]
    /\ run \in [Runs -> RunRow]
    /\ gjob \in [Runs -> JobStatuses]
    /\ batchJob \in MaybeRun
    /\ hand \in [Handlers -> Hand]
    /\ imported \in [Runs -> Nat]

LEMMA IdleHand == Idle \in Hand
<1>1. <<>> \in Seq(Parsing \union Outcomes)  BY EmptySeq
<1> QED  BY <1>1 DEF Idle, Hand, Ops, Pcs, MaybeRun, JobStatuses

-----------------------------------------------------------------------------
(* The inductive invariant *)

(* What a handler in flight holds fits what it does: an ingestion handler   *)
(* moves its document within the states of parsing, a graphify handler to   *)
(* one of the two outcomes, and both a graphify and a cancel handler are    *)
(* about a run that exists.                                                 *)
HandFits(h) ==
    /\ hand[h].op \in {"complete", "fail"} => hand[h].path \in Seq(Parsing)
    /\ hand[h].op = "graphify" /\ hand[h].pc # "complete"
           => hand[h].path \in {<<"wiki_proposed">>, <<"graphify_failed">>}
    /\ hand[h].op = "cancel" => hand[h].r \in Runs /\ ~ Fresh(hand[h].r)

(* A job is that of a run that exists, and the job of a run as well. *)
RunsHaveJobs ==
    /\ \A r \in Runs : Fresh(r) => gjob[r] = "none"
    /\ \A r \in Runs : ~ Fresh(r) => run[r].job \in Runs /\ ~ Fresh(run[r].job)
    /\ batchJob \in Runs => ~ Fresh(batchJob)

(* The import of a run is to come in at most one handler, and was not done. *)
ToImport(h) == hand[h].op = "graphify" /\ hand[h].pc \in {"complete", "import"}
Over(r) == gjob[r] \in {"succeeded", "cancelled"}

OneImport ==
    /\ \A h \in Handlers : ToImport(h) => /\ hand[h].r \in Runs /\ Over(hand[h].r)
                                          /\ imported[hand[h].r] = 0
    /\ \A g, h \in Handlers : ToImport(g) /\ ToImport(h) /\ hand[g].r = hand[h].r => g = h
    /\ \A r \in Runs : imported[r] \in {0, 1} /\ (imported[r] = 1 => Over(r))

RunInv == RunTypeOK /\ (\A h \in Handlers : HandFits(h)) /\ RunsHaveJobs /\ OneImport

LEMMA RunInitInv == RunInit => RunInv
<1> SUFFICES ASSUME RunInit PROVE RunInv  OBVIOUS
<1>1. RunTypeOK
  BY IdleHand DEF RunInit, RunTypeOK, Doc, RunRow, DocStatuses, BeforeHandoff, RunStatuses,
                  JobStatuses, MaybeRun
<1>2. \A h \in Handlers : hand[h].op = "idle"  BY DEF RunInit, Idle
<1>3. \A h \in Handlers : HandFits(h)  BY <1>2 DEF HandFits
<1>4. RunsHaveJobs  BY RunIds DEF RunInit, RunsHaveJobs, Fresh
<1>5. OneImport  BY <1>2 DEF RunInit, OneImport, ToImport
<1> QED  BY <1>1, <1>3, <1>4, <1>5 DEF RunInv

(* One handler is changed. *)
OneHand(h) == /\ hand' = [g \in Handlers |-> hand'[g]]
              /\ \A g \in Handlers : g # h => hand'[g] = hand[g]

LEMMA HandType ==
    ASSUME RunTypeOK, NEW h \in Handlers, OneHand(h), hand'[h] \in Hand
    PROVE  hand' \in [Handlers -> Hand]
<1>1. \A g \in Handlers : hand'[g] \in Hand  BY DEF OneHand, RunTypeOK
<1> QED  BY <1>1 DEF OneHand

(* A step of one handler that changes neither runs nor jobs nor imports. *)
LEMMA HandlerInv ==
    ASSUME RunInv, NEW h \in Handlers, OneHand(h), hand'[h] \in Hand, HandFits(h)',
           sdoc' \in [GDocs -> Doc], UNCHANGED <<run, gjob, batchJob, imported>>,
           ToImport(h)' => ToImport(h) /\ hand'[h].r = hand[h].r
    PROVE  RunInv'
<1>1. RunTypeOK'  BY HandType DEF RunInv, RunTypeOK
<1>2. ASSUME NEW g \in Handlers, g # h  PROVE HandFits(g)'
  BY <1>2 DEF RunInv, OneHand, HandFits, Fresh
<1>3. RunsHaveJobs'  BY DEF RunInv, RunsHaveJobs, Fresh
<1>4. \A g \in Handlers : ToImport(g)' => ToImport(g) /\ hand'[g].r = hand[g].r
  BY DEF OneHand, ToImport
<1>5. OneImport'
  <2>1. \A r \in Runs : Over(r)' <=> Over(r)  BY DEF Over
  <2> QED  BY <1>4, <2>1 DEF RunInv, OneImport
<1> QED  BY <1>1, <1>2, <1>3, <1>5 DEF RunInv

(* A handler that ends, or is stopped. *)
LEMMA DoneIs ==
    ASSUME RunTypeOK, NEW h \in Handlers, Done(h)
    PROVE  OneHand(h) /\ hand'[h] = Idle /\ hand'[h] \in Hand /\ HandFits(h)' /\ ~ ToImport(h)'
<1>1. OneHand(h) /\ hand'[h] = Idle  BY DEF Done, RunTypeOK, OneHand
<1>2. hand'[h].op = "idle"  BY <1>1 DEF Idle
<1> QED  BY <1>1, <1>2, IdleHand DEF HandFits, ToImport

LEMMA DoneInv ==
    ASSUME RunInv, NEW h \in Handlers, Done(h), sdoc' \in [GDocs -> Doc],
           UNCHANGED <<run, gjob, batchJob, imported>>
    PROVE  RunInv'
BY DoneIs, HandlerInv DEF RunInv

-----------------------------------------------------------------------------
(* Documents *)

(* A status changes to one that the state machine knows. *)
LEMMA StatusType ==
    ASSUME RunTypeOK, NEW d \in GDocs, NEW s \in DocStatuses, sdoc' = [sdoc EXCEPT ![d].status = s]
    PROVE  /\ sdoc' \in [GDocs -> Doc] /\ sdoc'[d].status = s
           /\ \A e \in GDocs : e # d => sdoc'[e] = sdoc[e]
<1>1. sdoc[d] \in Doc  BY DEF RunTypeOK
<1>2. sdoc'[d] = [sdoc[d] EXCEPT !.status = s] /\ \A e \in GDocs : e # d => sdoc'[e] = sdoc[e]
  BY DEF RunTypeOK
<1>3. sdoc' \in [GDocs -> Doc]  BY DEF RunTypeOK, Doc
<1> QED  BY <1>1, <1>2, <1>3 DEF Doc

(* No legal transition leads back behind the hand-off. *)
LEMMA NoWayBack ==
    ASSUME NEW s \in AfterHandoff, NEW t \in BeforeHandoff
    PROVE  ~ CanMove(s, t)
<1>1. LEGAL_TRANSITIONS[s] \cap BeforeHandoff = {}
  BY DEF AfterHandoff, BeforeHandoff, LEGAL_TRANSITIONS
<1>2. s # t  BY DEF AfterHandoff, BeforeHandoff
<1> QED  BY <1>1, <1>2 DEF CanMove

-----------------------------------------------------------------------------
(* The handlers of an ingestion job, of the hand-off and of reprocess *)

(* Requests and scans start a handler. *)
LEMMA StartInv ==
    ASSUME RunInv, NEW h \in Handlers, NEW rec \in Hand, Start(h, rec),
           rec.op \in {"complete", "fail"} => rec.path \in Seq(Parsing),
           rec.op # "graphify",
           rec.op = "cancel" => rec.r \in Runs /\ ~ Fresh(rec.r),
           UNCHANGED <<sdoc, run, gjob, batchJob, imported>>
    PROVE  RunInv'
<1>1. OneHand(h) /\ hand'[h] = rec  BY DEF Start, RunInv, RunTypeOK, OneHand
<1>2. HandFits(h)' /\ ~ ToImport(h)'  BY <1>1 DEF HandFits, ToImport, Fresh
<1> QED  BY <1>1, <1>2, HandlerInv DEF RunInv, RunTypeOK

LEMMA RequestsInv ==
    ASSUME RunInv, NEW h \in Handlers,
           \/ \E d \in GDocs : ReprocessRead(h, d) \/ \E ok \in BOOLEAN : IngestionEnds(h, d, ok)
           \/ CreateCheck(h) \/ \E r \in Runs : RetryCheck(h, r) \/ CancelRunRead(h, r)
    PROVE  RunInv'
<1>0. /\ Idle = [op |-> "idle", pc |-> "idle", d |-> {}, path |-> <<>>, r |-> NoRun, seen |-> "none"]
      /\ <<>> \in Seq(Parsing) /\ <<>> \in Seq(Parsing \union Outcomes)
  BY EmptySeq DEF Idle
<1>1. ASSUME NEW d \in GDocs, ReprocessRead(h, d)  PROVE RunInv'
  <2> DEFINE rec == [Idle EXCEPT !.op = "reprocess", !.pc = "reset", !.d = {d}]
  <2>1. rec \in Hand /\ rec.op = "reprocess"
    BY <1>0 DEF Hand, Ops, Pcs, MaybeRun, JobStatuses
  <2>2. Start(h, rec) /\ UNCHANGED <<sdoc, run, gjob, batchJob, imported>>
    BY <1>1 DEF ReprocessRead
  <2> HIDE DEF rec
  <2> QED  BY <2>1, <2>2, StartInv
<1>2. ASSUME NEW d \in GDocs, NEW ok \in BOOLEAN, IngestionEnds(h, d, ok)  PROVE RunInv'
  <2> DEFINE rec == [Idle EXCEPT !.op = IF ok THEN "complete" ELSE "fail", !.pc = "read", !.d = {d}]
  <2>1. rec \in Hand /\ rec.op \in {"complete", "fail"} /\ rec.path = <<>>
    BY <1>0 DEF Hand, Ops, Pcs, MaybeRun, JobStatuses
  <2>2. Start(h, rec) /\ UNCHANGED <<sdoc, run, gjob, batchJob, imported>>
    BY <1>2 DEF IngestionEnds
  <2> HIDE DEF rec
  <2> QED  BY <1>0, <2>1, <2>2, StartInv
<1>3. ASSUME CreateCheck(h)  PROVE RunInv'
  <2> DEFINE rec == [Idle EXCEPT !.op = "create", !.pc = "tx"]
  <2>1. rec \in Hand /\ rec.op = "create"
    BY <1>0 DEF Hand, Ops, Pcs, MaybeRun, JobStatuses
  <2>2. Start(h, rec) /\ UNCHANGED <<sdoc, run, gjob, batchJob, imported>>
    BY <1>3 DEF CreateCheck
  <2> HIDE DEF rec
  <2> QED  BY <2>1, <2>2, StartInv
<1>4. ASSUME NEW r \in Runs, CancelRunRead(h, r)  PROVE RunInv'
  <2> DEFINE rec == [Idle EXCEPT !.op = "cancel", !.pc = "job", !.r = r]
  <2>1. rec \in Hand /\ rec.op = "cancel" /\ rec.r = r
    BY <1>0 DEF Hand, Ops, Pcs, MaybeRun, JobStatuses
  <2>2. Start(h, rec) /\ UNCHANGED <<sdoc, run, gjob, batchJob, imported>> /\ ~ Fresh(r)
    BY <1>4 DEF CancelRunRead, Active, Fresh
  <2> HIDE DEF rec
  <2> QED  BY <2>1, <2>2, StartInv
<1> QED  BY <1>1, <1>2, <1>3, <1>4 DEF RetryCheck

(* A handler that goes on. *)
LEMMA GoesOnInv ==
    ASSUME RunInv, NEW h \in Handlers, OneHand(h), hand'[h] \in Hand,
           hand'[h].op \notin {"graphify", "cancel"},
           hand'[h].op \in {"complete", "fail"} => hand'[h].path \in Seq(Parsing),
           sdoc' \in [GDocs -> Doc], UNCHANGED <<run, gjob, batchJob, imported>>
    PROVE  RunInv'
<1>1. HandFits(h)' /\ ~ ToImport(h)'  BY DEF HandFits, ToImport
<1> QED  BY <1>1, HandlerInv

LEMMA MarkInv ==
    ASSUME RunInv, NEW h \in Handlers, MarkRead(h) \/ MarkMove(h) \/ MarkEnds(h)
    PROVE  RunInv'
<1>0. /\ RunTypeOK /\ HandFits(h) /\ hand[h] \in Hand
      /\ UNCHANGED <<run, gjob, batchJob, imported>>
  BY DEF RunInv, RunTypeOK, MarkRead, MarkMove, MarkEnds
<1>1. Seq(Parsing) \subseteq Seq(Parsing \union Outcomes)
  <2>1. Parsing \subseteq Parsing \union Outcomes  OBVIOUS
  <2> QED  BY <2>1
<1>2. CASE MarkRead(h)
  <2>1. PICK d \in hand[h].d :
            hand' = [hand EXCEPT ![h].pc = "move",
                                 ![h].path = IF sdoc[d].status \in {"parsed", "parse_failed"} THEN <<>>
                                             ELSE Append(AdvancePath(sdoc[d].status),
                                                         IF hand[h].op = "complete" THEN "parsed" ELSE "parse_failed")]
    BY <1>2 DEF MarkRead
  <2> DEFINE target == IF hand[h].op = "complete" THEN "parsed" ELSE "parse_failed"
             path == IF sdoc[d].status \in {"parsed", "parse_failed"} THEN <<>>
                     ELSE Append(AdvancePath(sdoc[d].status), target)
  <2>2. path \in Seq(Parsing)
    <3>1. /\ <<>> \in Seq(Parsing) /\ <<"parsing">> \in Seq(Parsing)
          /\ <<"validating", "archived", "parsing">> \in Seq(Parsing)
      BY DEF Parsing
    <3>2. AdvancePath(sdoc[d].status) \in Seq(Parsing)  BY <3>1 DEF AdvancePath
    <3>3. target \in Parsing  BY DEF Parsing
    <3> HIDE DEF target
    <3> QED  BY <3>1, <3>2, <3>3, AppendProperties
  <2> HIDE DEF path
  <2>3. hand' = [hand EXCEPT ![h].pc = "move", ![h].path = path]  BY <2>1 DEF path
  <2>4. OneHand(h) /\ hand'[h] = [hand[h] EXCEPT !.pc = "move", !.path = path]
    BY <1>0, <2>3 DEF OneHand, RunTypeOK
  <2>5. path \in Seq(Parsing \union Outcomes)  BY <1>1, <2>2
  <2>6. hand'[h] \in Hand /\ hand'[h].op = hand[h].op /\ hand'[h].path = path
    BY <1>0, <2>4, <2>5 DEF Hand, Pcs
  <2>7. sdoc' \in [GDocs -> Doc] /\ hand[h].op \in {"complete", "fail"}
    BY <1>0, <1>2 DEF MarkRead, RunTypeOK
  <2> QED  BY <1>0, <2>2, <2>4, <2>6, <2>7, GoesOnInv
<1>3. CASE MarkMove(h)
  <2>1. /\ hand[h].op \in {"complete", "fail"} /\ hand[h].path # <<>>
        /\ hand[h].path \in Seq(Parsing)
    BY <1>0, <1>3 DEF MarkMove, HandFits
  <2>2. Head(hand[h].path) \in Parsing /\ Tail(hand[h].path) \in Seq(Parsing)
    BY <2>1, HeadTailProperties
  <2>3. PICK d \in hand[h].d :
            \/ /\ sdoc' = [sdoc EXCEPT ![d].status = Head(hand[h].path)]
               /\ hand' = [hand EXCEPT ![h].path = Tail(@)]
            \/ UNCHANGED sdoc /\ Done(h)
    BY <1>3 DEF MarkMove
  <2>4. CASE UNCHANGED sdoc /\ Done(h)
    BY <1>0, <2>4, DoneInv DEF RunTypeOK
  <2>5. CASE /\ sdoc' = [sdoc EXCEPT ![d].status = Head(hand[h].path)]
             /\ hand' = [hand EXCEPT ![h].path = Tail(@)]
    <3>1. d \in GDocs /\ Head(hand[h].path) \in DocStatuses
      BY <1>0, <2>2 DEF Hand, Parsing, DocStatuses, BeforeHandoff
    <3>2. sdoc' \in [GDocs -> Doc]  BY <1>0, <2>5, <3>1, StatusType
    <3> DEFINE path == Tail(hand[h].path)
    <3>3. OneHand(h) /\ hand'[h] = [hand[h] EXCEPT !.path = path]
      BY <1>0, <2>5 DEF OneHand, RunTypeOK
    <3>4. path \in Seq(Parsing \union Outcomes) /\ path \in Seq(Parsing)  BY <1>1, <2>2
    <3> HIDE DEF path
    <3>5. hand'[h] \in Hand /\ hand'[h].op = hand[h].op /\ hand'[h].path = path
      BY <1>0, <3>3, <3>4 DEF Hand
    <3> QED  BY <1>0, <2>1, <3>2, <3>3, <3>4, <3>5, GoesOnInv
  <2> QED  BY <2>3, <2>4, <2>5
<1>4. CASE MarkEnds(h)
  <2>1. CASE hand[h].op = "complete"
    <3>1. hand' = [hand EXCEPT ![h].op = "handoff", ![h].pc = "read"] /\ UNCHANGED sdoc
      BY <1>4, <2>1 DEF MarkEnds
    <3>2. OneHand(h) /\ hand'[h] = [hand[h] EXCEPT !.op = "handoff", !.pc = "read"]
      BY <1>0, <3>1 DEF OneHand, RunTypeOK
    <3>3. hand'[h] \in Hand /\ hand'[h].op = "handoff"
      BY <1>0, <3>2 DEF Hand, Ops, Pcs
    <3> QED  BY <1>0, <3>1, <3>2, <3>3, GoesOnInv DEF RunTypeOK
  <2>2. CASE hand[h].op # "complete"
    BY <1>0, <1>4, <2>2, DoneInv DEF MarkEnds, RunTypeOK
  <2> QED  BY <2>1, <2>2
<1> QED  BY <1>2, <1>3, <1>4

LEMMA HandoffInv ==
    ASSUME RunInv, NEW h \in Handlers,
           \/ HandoffRead(h) \/ HandoffEnds(h) \/ \E d \in GDocs : HandoffDoc(h, d)
    PROVE  RunInv'
<1>0. /\ RunTypeOK /\ hand[h] \in Hand /\ hand[h].op = "handoff"
      /\ UNCHANGED <<run, gjob, batchJob, imported>>
  BY DEF RunInv, RunTypeOK, HandoffRead, HandoffEnds, HandoffDoc, HandAt
<1>1. CASE Done(h) /\ UNCHANGED sdoc
  BY <1>0, <1>1, DoneInv DEF RunTypeOK
<1>2. CASE HandoffEnds(h)  BY <1>1, <1>2 DEF HandoffEnds
<1>3. CASE HandoffRead(h)
  <2>1. PICK D \in SUBSET GDocs :
            hand' = [hand EXCEPT ![h].pc = "tx", ![h].d = D] \/ Done(h)
    <3>1. PICK d \in hand[h].d :
              \/ hand' = [hand EXCEPT ![h].pc = "tx", ![h].d = {e \in Immediate : sdoc[e].status = "parsed"}]
              \/ Done(h)
      BY <1>3 DEF HandoffRead
    <3>2. {e \in Immediate : sdoc[e].status = "parsed"} \subseteq GDocs  BY RunIds
    <3> QED  BY <3>1, <3>2
  <2>2. UNCHANGED sdoc  BY <1>3 DEF HandoffRead
  <2>3. CASE hand' = [hand EXCEPT ![h].pc = "tx", ![h].d = D]
    <3>1. OneHand(h) /\ hand'[h] = [hand[h] EXCEPT !.pc = "tx", !.d = D]
      BY <1>0, <2>3 DEF OneHand, RunTypeOK
    <3>2. hand'[h] \in Hand /\ hand'[h].op = "handoff"
      BY <1>0, <3>1 DEF Hand, Pcs
    <3> QED  BY <1>0, <2>2, <3>1, <3>2, GoesOnInv DEF RunTypeOK
  <2> QED  BY <1>1, <2>1, <2>2, <2>3
<1>4. ASSUME NEW d \in GDocs, HandoffDoc(h, d)  PROVE RunInv'
  <2>1. CASE UNCHANGED sdoc /\ Done(h)  BY <1>1, <2>1
  <2>2. CASE /\ sdoc' = [sdoc EXCEPT ![d] = [status |-> "graphify_pending", run |-> hand[h].r]]
             /\ hand' = [hand EXCEPT ![h].d = @ \ {d}]
    <3>1. [status |-> "graphify_pending", run |-> hand[h].r] \in Doc
      BY <1>0 DEF Doc, Hand, DocStatuses, AfterHandoff
    <3>2. sdoc' \in [GDocs -> Doc]  BY <1>0, <2>2, <3>1 DEF RunTypeOK
    <3>3. OneHand(h) /\ hand'[h] = [hand[h] EXCEPT !.d = hand[h].d \ {d}]
      BY <1>0, <2>2 DEF OneHand, RunTypeOK
    <3>4. hand'[h] \in Hand /\ hand'[h].op = "handoff"  BY <1>0, <3>3 DEF Hand
    <3> QED  BY <1>0, <3>2, <3>3, <3>4, GoesOnInv
  <2> QED  BY <1>4, <2>1, <2>2 DEF HandoffDoc
<1> QED  BY <1>2, <1>3, <1>4

LEMMA ReprocessInv ==
    ASSUME RunInv, NEW h \in Handlers, ReprocessReset(h) \/ ReprocessJob(h)
    PROVE  RunInv'
<1>0. /\ RunTypeOK /\ hand[h] \in Hand /\ hand[h].op = "reprocess"
      /\ UNCHANGED <<run, gjob, batchJob, imported>>
  BY DEF RunInv, RunTypeOK, ReprocessReset, ReprocessJob, HandAt
<1>1. CASE Done(h) /\ UNCHANGED sdoc
  BY <1>0, <1>1, DoneInv DEF RunTypeOK
<1>2. CASE ReprocessJob(h)  BY <1>1, <1>2 DEF ReprocessJob
<1>3. CASE ReprocessReset(h)
  <2>1. PICK d \in hand[h].d :
            \/ /\ sdoc' = [sdoc EXCEPT ![d].status = "uploaded"]
               /\ hand' = [hand EXCEPT ![h].pc = "job"]
            \/ UNCHANGED sdoc /\ Done(h)
    BY <1>3 DEF ReprocessReset
  <2>2. CASE /\ sdoc' = [sdoc EXCEPT ![d].status = "uploaded"]
             /\ hand' = [hand EXCEPT ![h].pc = "job"]
    <3>1. d \in GDocs /\ "uploaded" \in DocStatuses  BY <1>0 DEF Hand, DocStatuses, BeforeHandoff
    <3>2. sdoc' \in [GDocs -> Doc]  BY <1>0, <2>2, <3>1, StatusType
    <3>3. OneHand(h) /\ hand'[h] = [hand[h] EXCEPT !.pc = "job"]
      BY <1>0, <2>2 DEF OneHand, RunTypeOK
    <3>4. hand'[h] \in Hand /\ hand'[h].op = "reprocess"  BY <1>0, <3>3 DEF Hand, Pcs
    <3> QED  BY <1>0, <3>2, <3>3, <3>4, GoesOnInv
  <2> QED  BY <1>1, <2>1, <2>2
<1> QED  BY <1>2, <1>3

-----------------------------------------------------------------------------
(* Runs and jobs *)

(* Runs are created and never deleted: what is said of existing runs stays. *)
Keep == /\ \A r \in Runs : ~ Fresh(r) => ~ Fresh(r)'
        /\ \A r \in Runs : Over(r) => Over(r)'
        /\ imported' = imported

LEMMA KeepOthers ==
    ASSUME RunInv, Keep, NEW h \in Handlers, OneHand(h), HandFits(h)', ~ ToImport(h)'
    PROVE  (\A g \in Handlers : HandFits(g)') /\ OneImport'
<1>1. \A g \in Handlers : HandFits(g)'
  BY DEF RunInv, OneHand, HandFits, Keep
<1>2. \A g \in Handlers : ToImport(g)' => ToImport(g) /\ hand'[g].r = hand[g].r
  BY DEF OneHand, ToImport
<1>3. OneImport'  BY <1>2 DEF RunInv, OneImport, Keep
<1> QED  BY <1>1, <1>3

LEMMA KeepAll ==
    ASSUME RunInv, Keep, UNCHANGED hand
    PROVE  (\A g \in Handlers : HandFits(g)') /\ OneImport'
<1>1. \A g \in Handlers : HandFits(g)'  BY DEF RunInv, HandFits, Keep
<1>2. OneImport'  BY DEF RunInv, OneImport, ToImport, Keep
<1> QED  BY <1>1, <1>2

(* The row of a run is written, and perhaps that of its job. *)
LEMMA HandoffTxInv ==
    ASSUME RunInv, NEW h \in Handlers, NEW r \in Runs, HandoffTx(h, r)
    PROVE  RunInv'
<1> DEFINE job == IF batchJob = NoRun THEN r ELSE batchJob
<1>0. RunTypeOK /\ hand[h] \in Hand /\ RunsHaveJobs  BY DEF RunInv, RunTypeOK
<1>1. /\ hand[h].op = "handoff" /\ Fresh(r)
      /\ run' = [run EXCEPT ![r] = [status |-> "pending", job |-> job]]
      /\ gjob' = IF batchJob = NoRun THEN [gjob EXCEPT ![r] = "pending"] ELSE gjob
      /\ batchJob' = job
      /\ hand' = [hand EXCEPT ![h].pc = "docs", ![h].r = r]
      /\ UNCHANGED <<sdoc, imported>>
  BY DEF HandoffTx, HandAt
<1>2. job \in Runs /\ (job = r \/ ~ Fresh(job))
  BY <1>0 DEF RunTypeOK, MaybeRun, RunsHaveJobs
<1> HIDE DEF job
<1>3. /\ run' \in [Runs -> RunRow]
      /\ run'[r].status = "pending" /\ run'[r].job = job
      /\ \A q \in Runs : q # r => run'[q] = run[q]
  <2>1. [status |-> "pending", job |-> job] \in RunRow  BY <1>2 DEF RunRow, RunStatuses, MaybeRun
  <2> QED  BY <1>0, <1>1, <2>1 DEF RunTypeOK
<1>4. OneHand(h) /\ hand'[h] = [hand[h] EXCEPT !.pc = "docs", !.r = r]
  BY <1>0, <1>1 DEF OneHand, RunTypeOK
<1>5. hand'[h] \in Hand /\ hand'[h].op = "handoff"
  <2>1. r \in MaybeRun  BY DEF MaybeRun
  <2>2. hand'[h] \in Hand  BY <1>0, <1>4, <2>1 DEF Hand, Pcs
  <2>3. hand'[h].op = "handoff"  BY <1>0, <1>1, <1>4 DEF Hand
  <2> QED  BY <2>2, <2>3
<1>6. gjob' \in [Runs -> JobStatuses] /\ \A q \in Runs : q # r => gjob'[q] = gjob[q]
  BY <1>0, <1>1 DEF RunTypeOK, JobStatuses
<1>7. RunTypeOK'
  BY <1>0, <1>1, <1>2, <1>3, <1>4, <1>5, <1>6, HandType DEF RunTypeOK, MaybeRun
<1>8. ~ Fresh(r)' /\ \A q \in Runs : q # r => (Fresh(q)' <=> Fresh(q))
  BY <1>3 DEF Fresh
<1>9. RunsHaveJobs'
  <2>1. \A q \in Runs : Fresh(q)' => gjob'[q] = "none"  BY <1>0, <1>6, <1>8 DEF RunsHaveJobs
  <2>2. \A q \in Runs : run'[q].status # "none" => run'[q].job \in Runs /\ run'[run'[q].job].status # "none"
    BY <1>0, <1>2, <1>3, <1>8 DEF RunsHaveJobs, Fresh
  <2>3. batchJob' \in Runs => run'[batchJob'].status # "none"  BY <1>1, <1>2, <1>8 DEF Fresh
  <2> QED  BY <2>1, <2>2, <2>3 DEF RunsHaveJobs, Fresh
<1>10. Keep
  <2>1. gjob[r] = "none"  BY <1>0, <1>1 DEF RunsHaveJobs
  <2>2. \A q \in Runs : Over(q) => Over(q)'  BY <1>6, <2>1 DEF Over
  <2> QED  BY <1>1, <1>8, <2>2 DEF Keep
<1>11. HandFits(h)' /\ ~ ToImport(h)'  BY <1>5 DEF HandFits, ToImport
<1> QED  BY <1>4, <1>7, <1>9, <1>10, <1>11, KeepOthers DEF RunInv

LEMMA CreateRunInv ==
    ASSUME RunInv, NEW h \in Handlers, NEW r \in Runs, CreateRunRecord(h, r)
    PROVE  RunInv'
<1>0. RunTypeOK /\ RunsHaveJobs  BY DEF RunInv
<1>1. /\ Fresh(r) /\ Done(h) /\ UNCHANGED <<sdoc, batchJob, imported>>
      /\ run' = [run EXCEPT ![r] = [status |-> "pending", job |-> r]]
      /\ gjob' = [gjob EXCEPT ![r] = "pending"]
  BY DEF CreateRunRecord
<1>2. /\ run' \in [Runs -> RunRow] /\ run'[r].status = "pending" /\ run'[r].job = r
      /\ \A q \in Runs : q # r => run'[q] = run[q] /\ gjob'[q] = gjob[q]
      /\ gjob' \in [Runs -> JobStatuses]
  <2>1. [status |-> "pending", job |-> r] \in RunRow  BY DEF RunRow, RunStatuses, MaybeRun
  <2> QED  BY <1>0, <1>1, <2>1 DEF RunTypeOK, JobStatuses
<1>3. OneHand(h) /\ hand'[h] \in Hand /\ HandFits(h)' /\ ~ ToImport(h)'
  BY <1>0, <1>1, DoneIs
<1>4. RunTypeOK'  BY <1>0, <1>1, <1>2, <1>3, HandType DEF RunTypeOK
<1>5. ~ Fresh(r)' /\ \A q \in Runs : q # r => (Fresh(q)' <=> Fresh(q))
  BY <1>2 DEF Fresh
<1>6. RunsHaveJobs'
  <2>1. \A q \in Runs : Fresh(q)' => gjob'[q] = "none"  BY <1>0, <1>2, <1>5 DEF RunsHaveJobs
  <2>2. \A q \in Runs : run'[q].status # "none" => run'[q].job \in Runs /\ run'[run'[q].job].status # "none"
    BY <1>0, <1>2, <1>5 DEF RunsHaveJobs, Fresh
  <2>3. batchJob' \in Runs => run'[batchJob'].status # "none"
    BY <1>0, <1>1, <1>5 DEF RunsHaveJobs, Fresh
  <2> QED  BY <2>1, <2>2, <2>3 DEF RunsHaveJobs, Fresh
<1>7. Keep
  <2>1. gjob[r] = "none"  BY <1>0, <1>1 DEF RunsHaveJobs
  <2>2. \A q \in Runs : Over(q) => Over(q)'  BY <1>2, <2>1 DEF Over
  <2> QED  BY <1>1, <1>5, <2>2 DEF Keep
<1> QED  BY <1>3, <1>4, <1>6, <1>7, KeepOthers DEF RunInv

(* Rows of runs and jobs that exist change their status. *)
LEMMA StatusesInv ==
    ASSUME RunInv, UNCHANGED batchJob,
           run' \in [Runs -> RunRow], gjob' \in [Runs -> JobStatuses],
           \A r \in Runs : run'[r].job = run[r].job /\ (Fresh(r)' <=> Fresh(r)),
           \A r \in Runs : Fresh(r) => gjob'[r] = gjob[r]
    PROVE  RunsHaveJobs'
<1>1. \A r \in Runs : Fresh(r)' => gjob'[r] = "none"  BY DEF RunInv, RunsHaveJobs
<1>2. \A r \in Runs : run'[r].status # "none" => run'[r].job \in Runs /\ run'[run'[r].job].status # "none"
  BY DEF RunInv, RunsHaveJobs, Fresh
<1>3. batchJob' \in Runs => run'[batchJob'].status # "none"  BY DEF RunInv, RunsHaveJobs, Fresh
<1> QED  BY <1>1, <1>2, <1>3 DEF RunsHaveJobs, Fresh

LEMMA CancelInv ==
    ASSUME RunInv, NEW h \in Handlers, CancelFindJob(h) \/ CancelRunCommit(h)
    PROVE  RunInv'
<1> DEFINE r == hand[h].r
<1>0. /\ RunTypeOK /\ hand[h] \in Hand /\ hand[h].op = "cancel" /\ r \in Runs /\ ~ Fresh(r)
      /\ run[r].job \in Runs /\ ~ Fresh(run[r].job)
  <2>1. hand[h].op = "cancel"  BY DEF CancelFindJob, CancelRunCommit, HandAt
  <2>2. HandFits(h) /\ RunTypeOK /\ RunsHaveJobs  BY DEF RunInv
  <2>3. r \in Runs /\ ~ Fresh(r)  BY <2>1, <2>2 DEF HandFits
  <2> QED  BY <2>1, <2>2, <2>3 DEF RunTypeOK, RunsHaveJobs
<1>1. CASE CancelFindJob(h)
  <2>1. /\ hand' = [hand EXCEPT ![h].pc = "commit", ![h].seen = gjob[run[r].job]]
        /\ UNCHANGED <<sdoc, run, gjob, batchJob, imported>>
    BY <1>1 DEF CancelFindJob
  <2>2. OneHand(h) /\ hand'[h] = [hand[h] EXCEPT !.pc = "commit", !.seen = gjob[run[r].job]]
    BY <1>0, <2>1 DEF OneHand, RunTypeOK
  <2>3. gjob[run[r].job] \in JobStatuses  BY <1>0 DEF RunTypeOK
  <2>4. hand'[h] \in Hand /\ hand'[h].op = "cancel" /\ hand'[h].r = r
    BY <1>0, <2>2, <2>3 DEF Hand, Pcs
  <2>5. HandFits(h)' /\ ~ ToImport(h)'
    <3>1. hand'[h].r \in Runs /\ run'[hand'[h].r].status # "none"  BY <1>0, <2>1, <2>4 DEF Fresh
    <3> QED  BY <2>4, <3>1 DEF HandFits, ToImport, Fresh
  <2> QED  BY <1>0, <2>1, <2>2, <2>4, <2>5, HandlerInv DEF RunTypeOK
<1>2. CASE CancelRunCommit(h)
  <2> DEFINE j == run[r].job
  <2>1. /\ run' = [run EXCEPT ![r].status = "cancelled"]
        /\ gjob' = gjob \/ gjob' = [gjob EXCEPT ![j] = "cancelled"]
        /\ Done(h) /\ UNCHANGED <<sdoc, batchJob, imported>>
    BY <1>2 DEF CancelRunCommit
  <2> HIDE DEF r, j
  <2>2. r \in Runs /\ j \in Runs /\ ~ Fresh(r) /\ ~ Fresh(j)  BY <1>0 DEF j
  <2>3. /\ run' \in [Runs -> RunRow] /\ run'[r].status = "cancelled" /\ run'[r].job = run[r].job
        /\ \A q \in Runs : q # r => run'[q] = run[q]
    <3>1. run[r] \in RunRow  BY <1>0, <2>2 DEF RunTypeOK
    <3>2. run'[r] = [run[r] EXCEPT !.status = "cancelled"]  BY <1>0, <2>1, <2>2 DEF RunTypeOK
    <3> QED  BY <1>0, <2>1, <2>2, <3>1, <3>2 DEF RunTypeOK, RunRow, RunStatuses
  <2>4. /\ gjob' \in [Runs -> JobStatuses] /\ gjob'[j] \in {gjob[j], "cancelled"}
        /\ \A q \in Runs : q # j => gjob'[q] = gjob[q]
    BY <1>0, <2>1, <2>2 DEF RunTypeOK, JobStatuses
  <2>5. OneHand(h) /\ hand'[h] \in Hand /\ HandFits(h)' /\ ~ ToImport(h)'
    BY <1>0, <2>1, DoneIs
  <2>6. RunTypeOK'
    <3>1. hand' \in [Handlers -> Hand]  BY <1>0, <2>5, HandType
    <3>2. batchJob' \in MaybeRun /\ imported' \in [Runs -> Nat] /\ sdoc' \in [GDocs -> Doc]
      BY <1>0, <2>1 DEF RunTypeOK
    <3> QED  BY <2>3, <2>4, <3>1, <3>2 DEF RunTypeOK
  <2>7. \A q \in Runs : run'[q].job = run[q].job /\ (Fresh(q)' <=> Fresh(q))
    BY <2>2, <2>3 DEF Fresh
  <2>8. RunsHaveJobs'
    <3>1. \A q \in Runs : Fresh(q) => gjob'[q] = gjob[q]  BY <2>2, <2>4
    <3> QED  BY <2>1, <2>3, <2>4, <2>7, <3>1, StatusesInv
  <2>9. Keep  BY <2>1, <2>4, <2>7 DEF Keep, Over
  <2> QED  BY <2>5, <2>6, <2>8, <2>9, KeepOthers DEF RunInv
<1> QED  BY <1>1, <1>2

(* A job is claimed, retried, or fails: none of them is over. *)
LEMMA JobInv ==
    ASSUME RunInv, NEW r \in Runs,
           JobClaimed(r) \/ JobRetried(r) \/ JobFailed(r) \/ JobFailedByScan(r)
    PROVE  RunInv'
<1>0. RunTypeOK /\ RunsHaveJobs  BY DEF RunInv
<1>1. /\ gjob[r] \in {"pending", "running"}
      /\ \E s \in {"pending", "running", "failed"} : gjob' = [gjob EXCEPT ![r] = s]
      /\ \/ run' = run
         \/ run' = [run EXCEPT ![r].status = IF @ \in Active THEN "failed" ELSE @]
      /\ UNCHANGED <<sdoc, batchJob, hand, imported>>
  BY DEF JobClaimed, JobRetried, JobFailed, JobFailedByScan
<1>2. gjob' \in [Runs -> JobStatuses] /\ \A q \in Runs : q # r => gjob'[q] = gjob[q]
  BY <1>0, <1>1 DEF RunTypeOK, JobStatuses
<1>3. /\ run' \in [Runs -> RunRow]
      /\ \A q \in Runs : run'[q].job = run[q].job /\ (Fresh(q)' <=> Fresh(q))
  <2>1. CASE run' = run  BY <1>0, <2>1 DEF RunTypeOK, Fresh
  <2>2. CASE run' = [run EXCEPT ![r].status = IF @ \in Active THEN "failed" ELSE @]
    <3>1. run[r] \in RunRow  BY <1>0 DEF RunTypeOK
    <3>2. /\ run'[r] = [run[r] EXCEPT !.status = IF @ \in Active THEN "failed" ELSE @]
          /\ \A q \in Runs : q # r => run'[q] = run[q]
      BY <1>0, <2>2 DEF RunTypeOK
    <3>3. run'[r] \in RunRow /\ run'[r].job = run[r].job
          /\ (run'[r].status = "none" <=> run[r].status = "none")
      BY <3>1, <3>2 DEF RunRow, RunStatuses, Active
    <3>4. run' \in [Runs -> RunRow]
      <4>1. \A q \in Runs : run'[q] \in RunRow  BY <1>0, <3>2, <3>3 DEF RunTypeOK
      <4>2. run' = [q \in Runs |-> run'[q]]  BY <1>0, <2>2 DEF RunTypeOK
      <4> QED  BY <4>1, <4>2
    <3> QED  BY <3>2, <3>3, <3>4 DEF Fresh
  <2> QED  BY <1>1, <2>1, <2>2
<1>4. RunTypeOK'  BY <1>0, <1>1, <1>2, <1>3 DEF RunTypeOK
<1>5. ~ Fresh(r)  BY <1>0, <1>1 DEF RunsHaveJobs
<1>6. RunsHaveJobs'  BY <1>1, <1>2, <1>3, <1>5, StatusesInv
<1>7. Keep  BY <1>1, <1>2, <1>3 DEF Keep, Over
<1> QED  BY <1>1, <1>4, <1>6, <1>7, KeepAll DEF RunInv

(* The status of a run that exists is written. *)
LEMMA RunStatusIs ==
    ASSUME RunTypeOK, NEW q, NEW s \in RunStatuses \ {"none"}, q \in Runs => ~ Fresh(q),
           run' = [run EXCEPT ![q].status = s]
    PROVE  /\ run' \in [Runs -> RunRow]
           /\ \A x \in Runs : run'[x].job = run[x].job /\ (Fresh(x)' <=> Fresh(x))
<1>1. \A x \in Runs : run'[x] = IF x = q THEN [run[x] EXCEPT !.status = s] ELSE run[x]
  BY DEF RunTypeOK
<1>2. \A x \in Runs : run'[x] \in RunRow /\ run'[x].job = run[x].job
  BY <1>1 DEF RunTypeOK, RunRow
<1>3. ASSUME NEW x \in Runs  PROVE Fresh(x)' <=> Fresh(x)
  <2>1. run[x] \in RunRow  BY DEF RunTypeOK
  <2>2. x = q => run'[x].status = s  BY <1>1, <2>1 DEF RunRow
  <2>3. x # q => run'[x].status = run[x].status  BY <1>1
  <2> QED  BY <2>2, <2>3 DEF Fresh
<1>4. run' = [x \in Runs |-> run'[x]]  BY DEF RunTypeOK
<1> QED  BY <1>2, <1>3, <1>4

(* The completion of a job is reported once: the handler it starts is the  *)
(* only one that will import the graph of the run.                         *)
LEMMA JobSucceedsInv ==
    ASSUME RunInv, NEW h \in Handlers, NEW r \in Runs, JobSucceeds(h, r)
    PROVE  RunInv'
<1> DEFINE rec == [Idle EXCEPT !.op = "graphify", !.pc = "complete", !.r = r]
<1>0. RunTypeOK /\ RunsHaveJobs /\ OneImport  BY DEF RunInv
<1>1. rec \in Hand /\ rec.op = "graphify" /\ rec.pc = "complete" /\ rec.r = r
  <2>1. <<>> \in Seq(Parsing \union Outcomes)  BY EmptySeq
  <2>2. Idle = [op |-> "idle", pc |-> "idle", d |-> {}, path |-> <<>>, r |-> NoRun, seen |-> "none"]
    BY DEF Idle
  <2> QED  BY <2>1, <2>2 DEF Hand, Ops, Pcs, MaybeRun, JobStatuses
<1>2. /\ gjob[r] = "running" /\ gjob' = [gjob EXCEPT ![r] = "succeeded"]
      /\ Start(h, rec) /\ UNCHANGED <<sdoc, run, batchJob, imported>>
  BY DEF JobSucceeds
<1> HIDE DEF rec
<1>3. OneHand(h) /\ hand'[h] = rec
  BY <1>0, <1>2 DEF Start, RunTypeOK, OneHand
<1>4. /\ gjob' \in [Runs -> JobStatuses] /\ gjob'[r] = "succeeded"
      /\ \A q \in Runs : q # r => gjob'[q] = gjob[q]
  BY <1>0, <1>2 DEF RunTypeOK, JobStatuses
<1>5. RunTypeOK'
  <2>1. hand' \in [Handlers -> Hand]  BY <1>0, <1>1, <1>3, HandType
  <2> QED  BY <1>0, <1>2, <1>4, <2>1 DEF RunTypeOK
<1>6. RunsHaveJobs'  BY <1>0, <1>2, <1>4 DEF RunsHaveJobs, Fresh
<1>7. ASSUME NEW g \in Handlers  PROVE HandFits(g)'
  <2>1. CASE g = h  BY <1>1, <1>3, <2>1 DEF HandFits
  <2>2. CASE g # h  BY <1>2, <1>3, <2>2 DEF RunInv, OneHand, HandFits, Fresh
  <2> QED  BY <2>1, <2>2
<1>8. OneImport'
  <2>1. imported[r] = 0 /\ ~ Over(r)  BY <1>0, <1>2 DEF OneImport, Over
  <2>2. \A g \in Handlers : g # h /\ ToImport(g)' => ToImport(g) /\ hand'[g].r = hand[g].r
    BY <1>3 DEF OneHand, ToImport
  <2>3. \A g \in Handlers : g # h /\ ToImport(g)' => hand'[g].r # r  BY <1>0, <2>1, <2>2 DEF OneImport
  <2>4. \A q \in Runs : Over(q) => Over(q)'  BY <1>4 DEF Over
  <2>5. Over(r)' /\ hand'[h].r = r /\ imported' = imported  BY <1>1, <1>2, <1>3, <1>4 DEF Over
  <2>6. ASSUME NEW g \in Handlers, ToImport(g)'
        PROVE  hand'[g].r \in Runs /\ gjob'[hand'[g].r] \in {"succeeded", "cancelled"}
                                   /\ imported'[hand'[g].r] = 0
    <3>1. CASE g # h
      BY <1>0, <2>2, <2>4, <2>5, <2>6, <3>1 DEF OneImport, Over
    <3>2. CASE g = h
      BY <2>1, <2>5, <3>2 DEF Over
    <3> QED  BY <3>1, <3>2
  <2>7. \A f, g \in Handlers : ToImport(f)' /\ ToImport(g)' /\ hand'[f].r = hand'[g].r => f = g
    BY <1>0, <2>2, <2>3, <2>5 DEF OneImport
  <2>8. \A q \in Runs : imported'[q] \in {0, 1} /\ (imported'[q] = 1 => Over(q)')
    BY <1>0, <2>4, <2>5 DEF OneImport
  <2> QED  BY <2>6, <2>7, <2>8 DEF OneImport, Over
<1> QED  BY <1>5, <1>6, <1>7, <1>8 DEF RunInv

(* A handler that only loses the right to import, or keeps it. *)
LEMMA GraphifyInv ==
    ASSUME RunInv, NEW h \in Handlers, OneHand(h), hand'[h] \in Hand, HandFits(h)',
           ToImport(h)' => ToImport(h) /\ hand'[h].r = hand[h].r,
           run' \in [Runs -> RunRow],
           \A x \in Runs : run'[x].job = run[x].job /\ (Fresh(x)' <=> Fresh(x)),
           UNCHANGED <<sdoc, gjob, batchJob, imported>>
    PROVE  RunInv'
<1>1. RunTypeOK'
  <2>1. hand' \in [Handlers -> Hand]  BY HandType DEF RunInv
  <2> QED  BY <2>1 DEF RunInv, RunTypeOK
<1>2. ASSUME NEW g \in Handlers, g # h  PROVE HandFits(g)'
  BY <1>2 DEF RunInv, OneHand, HandFits
<1>3. RunsHaveJobs'
  <2>1. \A x \in Runs : Fresh(x) => gjob'[x] = gjob[x]  OBVIOUS
  <2> QED  BY <1>1, <2>1, StatusesInv DEF RunTypeOK
<1>4. \A g \in Handlers : ToImport(g)' => ToImport(g) /\ hand'[g].r = hand[g].r
  BY DEF OneHand, ToImport
<1>5. OneImport'
  <2>1. \A x \in Runs : Over(x)' <=> Over(x)  BY DEF Over
  <2> QED  BY <1>4, <2>1 DEF RunInv, OneImport
<1> QED  BY <1>1, <1>2, <1>3, <1>5 DEF RunInv

(* The handler of a completed graphify job. *)
LEMMA RunCompletionInv ==
    ASSUME RunInv, NEW h \in Handlers, RunCompletion(h)
    PROVE  RunInv'
<1>0. /\ RunTypeOK /\ hand[h] \in Hand /\ hand[h].op = "graphify" /\ ToImport(h)
      /\ UNCHANGED <<sdoc, gjob, batchJob, imported>>
  BY DEF RunInv, RunTypeOK, RunCompletion, HandAt, ToImport
<1>1. PICK pc \in {"import", "load"}, out \in Outcomes :
          hand' = [hand EXCEPT ![h].pc = pc, ![h].path = <<out>>]
  BY DEF RunCompletion, Outcomes
<1>2. OneHand(h) /\ hand'[h] = [hand[h] EXCEPT !.pc = pc, !.path = <<out>>]
  BY <1>0, <1>1 DEF OneHand, RunTypeOK
<1>3. <<out>> \in Seq(Parsing \union Outcomes) /\ pc \in Pcs /\ pc # "complete"
  BY DEF Pcs
<1>4. /\ hand'[h] \in Hand /\ hand'[h].op = "graphify" /\ hand'[h].r = hand[h].r
      /\ hand'[h].path = <<out>>
  BY <1>0, <1>2, <1>3 DEF Hand
<1>5. HandFits(h)'  BY <1>4 DEF HandFits, Outcomes
<1>6. /\ run' \in [Runs -> RunRow]
      /\ \A x \in Runs : run'[x].job = run[x].job /\ (Fresh(x)' <=> Fresh(x))
  <2>1. CASE run' = run  BY <1>0, <2>1 DEF RunTypeOK, Fresh
  <2>2. CASE ~ Fresh(hand[h].r) /\ run' = [run EXCEPT ![hand[h].r].status = "succeeded"]
    <3>1. "succeeded" \in RunStatuses \ {"none"}  BY DEF RunStatuses
    <3> QED  BY <1>0, <2>2, <3>1, RunStatusIs
  <2> QED  BY <2>1, <2>2 DEF RunCompletion, Active, Fresh
<1> QED  BY <1>0, <1>2, <1>4, <1>5, <1>6, GraphifyInv

LEMMA ImportInv ==
    ASSUME RunInv, NEW h \in Handlers, NEW ok \in BOOLEAN, ImportGraphData(h, ok)
    PROVE  RunInv'
<1>0. /\ RunTypeOK /\ RunsHaveJobs /\ OneImport /\ hand[h] \in Hand /\ HandFits(h)
      /\ hand[h].op = "graphify" /\ hand[h].pc = "import" /\ ToImport(h)
      /\ UNCHANGED <<sdoc, run, gjob, batchJob>>
  BY DEF RunInv, RunTypeOK, ImportGraphData, HandAt, ToImport
<1>1. PICK r \in Runs : r = hand[h].r /\ Over(r) /\ imported[r] = 0
  BY <1>0 DEF OneImport
<1>2. /\ imported' = [imported EXCEPT ![r] = IF ok THEN @ + 1 ELSE @]
      /\ hand' = [hand EXCEPT ![h].pc = "load"]
  BY <1>1 DEF ImportGraphData
<1>3. OneHand(h) /\ hand'[h] = [hand[h] EXCEPT !.pc = "load"]
  BY <1>0, <1>2 DEF OneHand, RunTypeOK
<1>4. /\ hand'[h] \in Hand /\ hand'[h].op = "graphify" /\ hand'[h].pc = "load"
      /\ hand'[h].path = hand[h].path
  BY <1>0, <1>3 DEF Hand, Pcs
<1>5. HandFits(h)' /\ ~ ToImport(h)'  BY <1>0, <1>4 DEF HandFits, ToImport
<1>6. /\ imported' \in [Runs -> Nat] /\ imported'[r] \in {0, 1}
      /\ \A q \in Runs : q # r => imported'[q] = imported[q]
  BY <1>0, <1>1, <1>2 DEF RunTypeOK
<1>7. RunTypeOK'
  <2>1. hand' \in [Handlers -> Hand]  BY <1>0, <1>3, <1>4, HandType
  <2> QED  BY <1>0, <1>6, <2>1 DEF RunTypeOK
<1>8. RunsHaveJobs'  BY <1>0 DEF RunsHaveJobs, Fresh
<1>9. ASSUME NEW g \in Handlers, g # h  PROVE HandFits(g)'
  BY <1>0, <1>3, <1>9 DEF RunInv, OneHand, HandFits, Fresh
<1>10. OneImport'
  <2>1. \A g \in Handlers : ToImport(g)' => g # h /\ ToImport(g) /\ hand'[g].r = hand[g].r
    BY <1>3, <1>5 DEF OneHand, ToImport
  <2>2. \A g \in Handlers : ToImport(g)' => hand'[g].r \in Runs /\ hand'[g].r # r
    BY <1>0, <1>1, <2>1 DEF OneImport
  <2>3. \A q \in Runs : Over(q)' <=> Over(q)  BY <1>0 DEF Over
  <2>4. \A q \in Runs : imported'[q] \in {0, 1} /\ (imported'[q] = 1 => Over(q)')
    BY <1>0, <1>1, <1>6, <2>3 DEF OneImport
  <2>5. \A g \in Handlers : ToImport(g)' => gjob'[hand'[g].r] \in {"succeeded", "cancelled"}
                                            /\ imported'[hand'[g].r] = 0
    BY <1>0, <1>6, <2>1, <2>2 DEF OneImport, Over
  <2>6. \A f, g \in Handlers : ToImport(f)' /\ ToImport(g)' /\ hand'[f].r = hand'[g].r => f = g
    BY <1>0, <2>1 DEF OneImport
  <2> QED  BY <2>2, <2>4, <2>5, <2>6 DEF OneImport, Over
<1> QED  BY <1>5, <1>7, <1>8, <1>9, <1>10 DEF RunInv

LEMMA AdvanceInv ==
    ASSUME RunInv, NEW h \in Handlers,
           LoadRunDocuments(h) \/ \E d \in GDocs : AdvanceDocument(h, d)
    PROVE  RunInv'
<1>0. /\ RunTypeOK /\ hand[h] \in Hand /\ HandFits(h) /\ hand[h].op = "graphify"
      /\ hand[h].pc \in {"load", "advance"}
      /\ hand[h].path \in {<<"wiki_proposed">>, <<"graphify_failed">>}
      /\ UNCHANGED <<run, gjob, batchJob, imported>>
  BY DEF RunInv, RunTypeOK, LoadRunDocuments, AdvanceDocument, HandAt, HandFits
<1>1. ASSUME sdoc' \in [GDocs -> Doc], NEW D \in SUBSET GDocs,
             hand' = [hand EXCEPT ![h].pc = "advance", ![h].d = D]
      PROVE  RunInv'
  <2>1. OneHand(h) /\ hand'[h] = [hand[h] EXCEPT !.pc = "advance", !.d = D]
    BY <1>0, <1>1 DEF OneHand, RunTypeOK
  <2>2. /\ hand'[h] \in Hand /\ hand'[h].op = "graphify" /\ hand'[h].pc = "advance"
        /\ hand'[h].path = hand[h].path
    BY <1>0, <2>1 DEF Hand, Pcs
  <2>3. HandFits(h)' /\ ~ ToImport(h)'  BY <1>0, <2>2 DEF HandFits, ToImport
  <2> QED  BY <1>0, <1>1, <2>1, <2>2, <2>3, HandlerInv
<1>2. CASE LoadRunDocuments(h)
  <2>1. PICK D \in SUBSET GDocs : hand' = [hand EXCEPT ![h].pc = "advance", ![h].d = D]
    BY <1>2 DEF LoadRunDocuments
  <2>2. sdoc' \in [GDocs -> Doc]  BY <1>0, <1>2 DEF LoadRunDocuments, RunTypeOK
  <2> QED  BY <1>1, <2>1, <2>2
<1>3. ASSUME NEW d \in GDocs, AdvanceDocument(h, d)  PROVE RunInv'
  <2>1. /\ Head(hand[h].path) \in Outcomes /\ hand[h].d \subseteq GDocs /\ hand[h].pc = "advance"
    BY <1>0, <1>3 DEF Hand, Outcomes, AdvanceDocument, HandAt
  <2>2. sdoc' \in [GDocs -> Doc]
    <3>1. CASE sdoc' = sdoc  BY <1>0, <3>1 DEF RunTypeOK
    <3>2. ASSUME NEW s \in DocStatuses, sdoc' = [sdoc EXCEPT ![d].status = s]
          PROVE  sdoc' \in [GDocs -> Doc]
      BY <1>0, <3>2, StatusType
    <3>3. "graphify_running" \in DocStatuses /\ Head(hand[h].path) \in DocStatuses
      BY <2>1 DEF DocStatuses, AfterHandoff, Outcomes
    <3> QED  BY <1>3, <3>1, <3>2, <3>3 DEF AdvanceDocument
  <2>3. UNCHANGED hand \/ hand' = [hand EXCEPT ![h].d = @ \ {d}]
    BY <1>3 DEF AdvanceDocument
  <2>4. CASE UNCHANGED hand
    <3>1. OneHand(h) /\ hand'[h] = hand[h]  BY <1>0, <2>4 DEF OneHand, RunTypeOK
    <3>2. HandFits(h)' /\ (ToImport(h)' => ToImport(h))
      BY <1>0, <3>1 DEF HandFits, ToImport
    <3> QED  BY <1>0, <2>2, <3>1, <3>2, HandlerInv
  <2>5. CASE hand' = [hand EXCEPT ![h].d = @ \ {d}]
    <3>1. OneHand(h) /\ hand'[h] = [hand[h] EXCEPT !.d = hand[h].d \ {d}]
      BY <1>0, <2>5 DEF OneHand, RunTypeOK
    <3>2. /\ hand'[h] \in Hand /\ hand'[h].op = "graphify" /\ hand'[h].pc = "advance"
          /\ hand'[h].path = hand[h].path
      BY <1>0, <2>1, <3>1 DEF Hand
    <3>3. HandFits(h)' /\ ~ ToImport(h)'  BY <1>0, <3>2 DEF HandFits, ToImport
    <3> QED  BY <1>0, <2>2, <3>1, <3>2, <3>3, HandlerInv
  <2> QED  BY <2>3, <2>4, <2>5
<1> QED  BY <1>2, <1>3

LEMMA PipelineEndsInv ==
    ASSUME RunInv, NEW h \in Handlers,
           NEW o \in {"unmapped", "docmost_syncing", "docmost_sync_failed"}, PipelineEnds(h, o)
    PROVE  RunInv'
<1>0. RunTypeOK /\ Done(h) /\ UNCHANGED <<sdoc, gjob, batchJob, imported>>
  BY DEF RunInv, PipelineEnds
<1>1. OneHand(h) /\ hand'[h] \in Hand /\ HandFits(h)' /\ ~ ToImport(h)'
  BY <1>0, DoneIs
<1>2. /\ run' \in [Runs -> RunRow]
      /\ \A x \in Runs : run'[x].job = run[x].job /\ (Fresh(x)' <=> Fresh(x))
  <2>1. CASE run' = run  BY <1>0, <2>1 DEF RunTypeOK, Fresh
  <2>2. CASE /\ o # "unmapped" /\ ~ Fresh(hand[h].r)
             /\ run' = [run EXCEPT ![hand[h].r].status = o]
    <3>1. o \in RunStatuses \ {"none"}  BY <2>2 DEF RunStatuses
    <3> QED  BY <1>0, <2>2, <3>1, RunStatusIs
  <2> QED  BY <2>1, <2>2 DEF PipelineEnds, Fresh
<1> QED  BY <1>0, <1>1, <1>2, GraphifyInv

-----------------------------------------------------------------------------
(* Every step preserves the invariant *)

LEMMA RunStepInv == RunInv /\ [RunNext]_runVars => RunInv'
<1> SUFFICES ASSUME RunInv, [RunNext]_runVars PROVE RunInv'  OBVIOUS
<1>1. CASE UNCHANGED runVars
  <2>1. Keep /\ RunTypeOK'  BY <1>1 DEF runVars, Keep, Fresh, Over, RunInv, RunTypeOK
  <2>2. RunsHaveJobs'  BY <1>1 DEF runVars, RunInv, RunsHaveJobs, Fresh
  <2> QED  BY <1>1, <2>1, <2>2, KeepAll DEF runVars, RunInv
<1>2. ASSUME NEW h \in Handlers, RunRequest(h)  PROVE RunInv'
  BY <1>2, RequestsInv, JobSucceedsInv DEF RunRequest
<1>3. ASSUME NEW h \in Handlers, RunHandlerStep(h)  PROVE RunInv'
  <2>1. CASE MarkRead(h) \/ MarkMove(h) \/ MarkEnds(h)  BY <2>1, MarkInv
  <2>2. CASE HandoffRead(h) \/ HandoffEnds(h) \/ \E d \in GDocs : HandoffDoc(h, d)
    BY <2>2, HandoffInv
  <2>3. CASE \E r \in Runs : HandoffTx(h, r)  BY <2>3, HandoffTxInv
  <2>4. CASE LoadRunDocuments(h) \/ \E d \in GDocs : AdvanceDocument(h, d)
    BY <2>4, AdvanceInv
  <2>5. CASE ReprocessReset(h) \/ ReprocessJob(h)  BY <2>5, ReprocessInv
  <2>6. CASE \E r \in Runs : CreateRunRecord(h, r)  BY <2>6, CreateRunInv
  <2>7. CASE CancelFindJob(h) \/ CancelRunCommit(h)  BY <2>7, CancelInv
  <2>8. CASE RunCompletion(h)  BY <2>8, RunCompletionInv
  <2>9. CASE \E ok \in BOOLEAN : ImportGraphData(h, ok)  BY <2>9, ImportInv
  <2>10. CASE \E o \in {"unmapped", "docmost_syncing", "docmost_sync_failed"} : PipelineEnds(h, o)
    BY <2>10, PipelineEndsInv
  <2> QED
    BY <1>3, <2>1, <2>2, <2>3, <2>4, <2>5, <2>6, <2>7, <2>8, <2>9, <2>10 DEF RunHandlerStep
<1>4. ASSUME NEW h \in Handlers, HandlerAborts(h)  PROVE RunInv'
  BY <1>4, DoneInv DEF HandlerAborts, RunInv, RunTypeOK
<1>5. ASSUME NEW r \in Runs,
             JobClaimed(r) \/ JobRetried(r) \/ JobFailed(r) \/ JobFailedByScan(r)
      PROVE  RunInv'
  BY <1>5, JobInv
<1> QED  BY <1>1, <1>2, <1>3, <1>4, <1>5 DEF RunNext

(* Whatever the interleaving of handlers, and wherever one stops, what is  *)
(* in flight fits the rows of runs and jobs (InternalJobsService,          *)
(* GraphifyService).                                                       *)
THEOREM RunsInvariant == RunSpec => []RunInv
<1> QED  BY RunInitInv, RunStepInv, PTL DEF RunSpec

(* The graph of a run is imported at most once, after its job was done     *)
(* (handleRunCompletion and importGraphData run once per completed job).   *)
THEOREM ImportsOnce == RunSpec => []ImportedOnce
<1>1. RunInv => ImportedOnce  BY DEF RunInv, OneImport, ImportedOnce, Over
<1> QED  BY <1>1, RunsInvariant, PTL

-----------------------------------------------------------------------------
(* Decisions stay *)

(* A status that does not lead back: the move is refused, or stays behind. *)
LEMMA NoFallBack ==
    ASSUME RunTypeOK, NEW d \in GDocs, NEW s \in DocStatuses, CanMove(sdoc[d].status, s),
           sdoc' = [sdoc EXCEPT ![d].status = s]
    PROVE  HandoffIsKeptStep
<1>1. sdoc'[d].status = s /\ \A e \in GDocs : e # d => sdoc'[e] = sdoc[e]  BY StatusType
<1>2. sdoc[d].status \notin BeforeHandoff => s \notin BeforeHandoff
  <2>1. sdoc[d].status \in DocStatuses  BY DEF RunTypeOK, Doc
  <2> QED  BY <2>1, NoWayBack DEF DocStatuses
<1> QED  BY <1>1, <1>2 DEF HandoffIsKeptStep

LEMMA HandoffKept == RunInv /\ [RunNext]_runVars => HandoffIsKeptStep
<1> SUFFICES ASSUME RunInv, [RunNext]_runVars PROVE HandoffIsKeptStep  OBVIOUS
<1>0. RunTypeOK /\ \A h \in Handlers : HandFits(h) /\ hand[h] \in Hand  BY DEF RunInv, RunTypeOK
<1>1. CASE sdoc' = sdoc  BY <1>1 DEF HandoffIsKeptStep
<1>2. ASSUME NEW h \in Handlers, MarkMove(h)  PROVE HandoffIsKeptStep
  <2>1. Head(hand[h].path) \in DocStatuses /\ hand[h].d \subseteq GDocs
    <3>1. hand[h].path \in Seq(Parsing) /\ hand[h].path # <<>>  BY <1>0, <1>2 DEF MarkMove, HandFits
    <3>2. Head(hand[h].path) \in Parsing  BY <3>1, HeadTailProperties
    <3> QED  BY <1>0, <3>2 DEF Hand, Parsing, DocStatuses, BeforeHandoff
  <2>2. PICK d \in hand[h].d :
            \/ CanMove(sdoc[d].status, Head(hand[h].path))
                 /\ sdoc' = [sdoc EXCEPT ![d].status = Head(hand[h].path)]
            \/ sdoc' = sdoc
    BY <1>2 DEF MarkMove
  <2> QED  BY <1>0, <1>1, <2>1, <2>2, NoFallBack
<1>3. ASSUME NEW h \in Handlers, ReprocessReset(h)  PROVE HandoffIsKeptStep
  <2>1. "uploaded" \in DocStatuses /\ hand[h].d \subseteq GDocs
    BY <1>0 DEF Hand, DocStatuses, BeforeHandoff
  <2>2. PICK d \in hand[h].d :
            \/ CanMove(sdoc[d].status, "uploaded") /\ sdoc' = [sdoc EXCEPT ![d].status = "uploaded"]
            \/ sdoc' = sdoc
    BY <1>3 DEF ReprocessReset
  <2> QED  BY <1>0, <1>1, <2>1, <2>2, NoFallBack
<1>4. ASSUME NEW h \in Handlers, NEW d \in GDocs, HandoffDoc(h, d)  PROVE HandoffIsKeptStep
  <2>1. CASE sdoc' = [sdoc EXCEPT ![d] = [status |-> "graphify_pending", run |-> hand[h].r]]
    <3>1. sdoc'[d].status = "graphify_pending" /\ \A e \in GDocs : e # d => sdoc'[e] = sdoc[e]
      BY <1>0, <2>1 DEF RunTypeOK
    <3> QED  BY <3>1 DEF HandoffIsKeptStep, BeforeHandoff
  <2> QED  BY <1>1, <1>4, <2>1 DEF HandoffDoc
<1>5. ASSUME NEW h \in Handlers, NEW d \in GDocs, AdvanceDocument(h, d)  PROVE HandoffIsKeptStep
  <2>1. hand[h].path \in {<<"wiki_proposed">>, <<"graphify_failed">>}
    BY <1>0, <1>5 DEF AdvanceDocument, HandAt, HandFits
  <2>2. Head(hand[h].path) \in AfterHandoff  BY <2>1 DEF AfterHandoff
  <2>3. \A s \in AfterHandoff : sdoc' = [sdoc EXCEPT ![d].status = s] => HandoffIsKeptStep
    <3> SUFFICES ASSUME NEW s \in AfterHandoff, sdoc' = [sdoc EXCEPT ![d].status = s]
                 PROVE  HandoffIsKeptStep
      OBVIOUS
    <3>1. s \in DocStatuses /\ s \notin BeforeHandoff
      BY DEF DocStatuses, AfterHandoff, BeforeHandoff
    <3>2. sdoc'[d].status = s /\ \A e \in GDocs : e # d => sdoc'[e] = sdoc[e]
      BY <1>0, <3>1, StatusType
    <3> QED  BY <3>1, <3>2 DEF HandoffIsKeptStep
  <2>4. "graphify_running" \in AfterHandoff  BY DEF AfterHandoff
  <2> QED  BY <1>1, <1>5, <2>2, <2>3, <2>4 DEF AdvanceDocument
<1>6. CASE RunNext
  <2>1. ASSUME NEW h \in Handlers, RunRequest(h)  PROVE sdoc' = sdoc
    BY <2>1 DEF RunRequest, ReprocessRead, IngestionEnds, CreateCheck, RetryCheck, CancelRunRead, JobSucceeds
  <2>2. ASSUME NEW h \in Handlers, HandlerAborts(h)  PROVE sdoc' = sdoc
    BY <2>2 DEF HandlerAborts
  <2>3. ASSUME NEW r \in Runs,
               JobClaimed(r) \/ JobRetried(r) \/ JobFailed(r) \/ JobFailedByScan(r)
        PROVE  sdoc' = sdoc
    BY <2>3 DEF JobClaimed, JobRetried, JobFailed, JobFailedByScan
  <2>4. ASSUME NEW h \in Handlers, RunHandlerStep(h)  PROVE HandoffIsKeptStep
    <3>1. \/ MarkMove(h) \/ ReprocessReset(h)
          \/ \E d \in GDocs : HandoffDoc(h, d) \/ AdvanceDocument(h, d)
          \/ sdoc' = sdoc
      BY <2>4 DEF RunHandlerStep, MarkRead, MarkEnds, HandoffRead, HandoffTx, HandoffEnds,
                  ReprocessJob, CreateRunRecord, CancelFindJob, CancelRunCommit, RunCompletion,
                  ImportGraphData, LoadRunDocuments, PipelineEnds
    <3> QED  BY <1>1, <1>2, <1>3, <1>4, <1>5, <3>1
  <2> QED  BY <1>1, <1>6, <2>1, <2>2, <2>3, <2>4 DEF RunNext
<1> QED  BY <1>1, <1>6 DEF runVars

(* Only pending and succeeded runs, and new ones, are written. *)
LEMMA CancelledStays == RunInv /\ [RunNext]_runVars => CancelledRunStaysStep
<1> SUFFICES ASSUME RunInv, [RunNext]_runVars PROVE CancelledRunStaysStep  OBVIOUS
<1>0. RunTypeOK  BY DEF RunInv
<1>1. CASE run' = run  BY <1>1 DEF CancelledRunStaysStep
<1>2. ASSUME NEW q, NEW s, run' = [run EXCEPT ![q].status = s],
             s = "cancelled" \/ run[q].status # "cancelled" \/ s = run[q].status
      PROVE  CancelledRunStaysStep
  <2> SUFFICES ASSUME NEW r \in Runs, run[r].status = "cancelled"
               PROVE  run'[r].status = "cancelled"
    BY DEF CancelledRunStaysStep
  <2>1. CASE q = r
    <3>1. run[r] \in RunRow /\ run'[r] = [run[r] EXCEPT !.status = s]
      BY <1>0, <1>2, <2>1 DEF RunTypeOK
    <3>2. s = "cancelled"  BY <1>2, <2>1
    <3> QED  BY <3>1, <3>2 DEF RunRow
  <2>2. CASE q # r  BY <1>0, <1>2, <2>2 DEF RunTypeOK
  <2> QED  BY <2>1, <2>2
<1>3. ASSUME NEW r \in Runs, Fresh(r), NEW row, run' = [run EXCEPT ![r] = row]
      PROVE  CancelledRunStaysStep
  BY <1>0, <1>3 DEF RunTypeOK, CancelledRunStaysStep, Fresh
<1>4. CASE RunNext
  <2>1. ASSUME NEW h \in Handlers, RunRequest(h)  PROVE run' = run
    BY <2>1 DEF RunRequest, ReprocessRead, IngestionEnds, CreateCheck, RetryCheck, CancelRunRead, JobSucceeds
  <2>2. ASSUME NEW h \in Handlers, HandlerAborts(h)  PROVE run' = run
    BY <2>2 DEF HandlerAborts
  <2>3. ASSUME NEW r \in Runs, JobClaimed(r) \/ JobRetried(r) \/ JobFailedByScan(r)
        PROVE  run' = run
    BY <2>3 DEF JobClaimed, JobRetried, JobFailedByScan
  <2>4. ASSUME NEW r \in Runs, JobFailed(r)  PROVE CancelledRunStaysStep
    <3> DEFINE s == IF run[r].status \in Active THEN "failed" ELSE run[r].status
    <3>1. run' = [run EXCEPT ![r].status = s]  BY <1>0, <2>4 DEF JobFailed, RunTypeOK
    <3>2. run[r].status # "cancelled" \/ s = run[r].status  BY DEF Active
    <3> HIDE DEF s
    <3> QED  BY <1>2, <3>1, <3>2
  <2>5. ASSUME NEW h \in Handlers, RunHandlerStep(h)  PROVE CancelledRunStaysStep
    <3>1. CASE CancelRunCommit(h)  BY <1>2, <3>1 DEF CancelRunCommit
    <3>2. CASE RunCompletion(h)  BY <1>1, <1>2, <3>2 DEF RunCompletion, Active
    <3>3. CASE \E o \in {"unmapped", "docmost_syncing", "docmost_sync_failed"} : PipelineEnds(h, o)
      BY <1>1, <1>2, <3>3 DEF PipelineEnds
    <3>4. CASE \E r \in Runs : HandoffTx(h, r) \/ CreateRunRecord(h, r)
      BY <1>3, <3>4 DEF HandoffTx, CreateRunRecord
    <3>5. \/ CancelRunCommit(h) \/ RunCompletion(h)
          \/ \E o \in {"unmapped", "docmost_syncing", "docmost_sync_failed"} : PipelineEnds(h, o)
          \/ \E r \in Runs : HandoffTx(h, r) \/ CreateRunRecord(h, r)
          \/ run' = run
      BY <2>5 DEF RunHandlerStep, MarkRead, MarkMove, MarkEnds, HandoffRead, HandoffEnds,
                  HandoffDoc, AdvanceDocument, ReprocessReset, ReprocessJob, CancelFindJob,
                  ImportGraphData, LoadRunDocuments
    <3> QED  BY <1>1, <3>1, <3>2, <3>3, <3>4, <3>5
  <2> QED  BY <1>1, <1>4, <2>1, <2>2, <2>3, <2>4, <2>5 DEF RunNext
<1> QED  BY <1>1, <1>4 DEF runVars

(* A document that was handed to graphify never falls back behind the      *)
(* hand-off (updateStatus refuses the late report), and a cancelled run    *)
(* stays cancelled, whichever handler writes next.                         *)
THEOREM DecisionsAreKept == RunSpec => DecisionsStay
<1>1. RunSpec => HandoffIsKept
  BY RunsInvariant, HandoffKept, PTL DEF RunSpec, HandoffIsKept
<1>2. RunSpec => CancelledRunStays
  BY RunsInvariant, CancelledStays, PTL DEF RunSpec, CancelledRunStays
<1> QED  BY <1>1, <1>2, PTL DEF DecisionsStay

-----------------------------------------------------------------------------
(* WikiIndex: pages and versions *)

PageStatuses == {"draft", "published"}

\* A request that waits to write names a version that exists.
WikiInv ==
    /\ page \in [Pages -> [status : PageStatuses, current : 1 .. MaxVersions]]
    /\ version \in [Pages -> Seq(PageStatuses)]
    /\ \A p \in Pages : page[p].current \in DOMAIN version[p] /\ Len(version[p]) <= MaxVersions
    /\ PageMatchesVersion
    /\ \A e \in edits : e.page \in Pages /\ e.version \in DOMAIN version[e.page]

-----------------------------------------------------------------------------
(* WikiIndex: jobs *)

JobRow == [payload : Payloads, page : Pages, attempts : Nat, queued : BOOLEAN,
           status : {"pending", "running", "succeeded", "failed"}, lock : BOOLEAN]

Waiting == {"idle", "check", "throw"}
Writing == {"insert", "embed", "mark", "activate"}
IndexerRec ==
    [pc : Waiting \cup Writing \cup {"load", "create", "complete"}, job : Nat, snap : Nat,
     read : [Pages -> 0 .. MaxVersions], prev : Nat, run : BOOLEAN, retryable : BOOLEAN,
     committed : BOOLEAN]

JobsInv == /\ indexJob \in Seq(JobRow)
           /\ indexer \in [Indexers -> IndexerRec]
           /\ \A i \in Indexers : /\ indexer[i].job \in 0 .. Len(indexJob)
                                  /\ ~IndexerAt(i, "idle") => indexer[i].job # 0

-----------------------------------------------------------------------------
(* WikiIndex: snapshots and their builders *)

SnapRow == [status : {"building", "activated", "superseded", "failed"}, stale : BOOLEAN,
            run : BOOLEAN, rows : {"none", "pending", "embedded", "indexed"},
            alone : BOOLEAN, chunks : [Pages -> 0 .. MaxVersions]]

Live     == {s \in DOMAIN snapshot : snapshot[s].status \in {"activated", "superseded"}}
RunShown == \E s \in Live : snapshot[s].run
RowsAt   == [pc \in Writing |-> CASE pc = "insert" -> "none" [] pc = "embed" -> "pending"
                                  [] pc = "mark" -> "embedded" [] OTHER -> "indexed"]

\* A builder before its snapshot: what it read is live, and shows the run
\* unless the index moved on.
Reader(i) ==
    /\ indexer[i].pc \in {"idle", "check", "load", "create"} =>
          indexer[i].snap = 0 /\ ~indexer[i].committed
    /\ indexer[i].prev \in Live \cup {0}
    /\ IndexerAt(i, "create") /\ indexer[i].prev = active /\ RunShown => indexer[i].run

\* A builder with its snapshot: the rows are as far as it is, and nobody but
\* a build that takes it for dead ends it.
Builder(i) ==
    LET s == indexer[i].snap IN
    /\ IndexerAt(i, "complete") => s # 0 /\ indexer[i].committed
    /\ indexer[i].pc \in Writing =>
          /\ s # 0 /\ ~indexer[i].committed /\ snapshot[s].rows = RowsAt[indexer[i].pc]
          /\ s \notin overtaken => snapshot[s].status = "building"
    /\ s # 0 =>
          /\ s \in DOMAIN snapshot /\ s \notin orphans
          /\ indexer[i].committed => s \in Live
          /\ ~indexer[i].committed =>
                 snapshot[s].status \in IF IndexerAt(i, "throw") THEN {"failed"}
                                                                 ELSE {"building", "failed"}

\* A builder that began alone is alone until it is overtaken, and shows the
\* run.
Alone(i) ==
    indexer[i].pc \in Writing /\ indexer[i].snap \notin overtaken /\ snapshot[indexer[i].snap].alone =>
        /\ RunShown => snapshot[indexer[i].snap].run
        /\ \A k \in Indexers \ {i} : indexer[k].pc \in Waiting

OwnSnapshots == \A i, k \in Indexers : indexer[i].snap = indexer[k].snap /\ i # k => indexer[i].snap = 0

SnapsTyped == /\ snapshot \in Seq(SnapRow)
              /\ active \in 0 .. Len(snapshot)
              /\ orphans \subseteq DOMAIN snapshot
              /\ Live # {} => active # 0
              /\ \A s \in Building : s = Len(snapshot)

SnapInv == /\ SnapsTyped
           /\ indexer \in [Indexers -> IndexerRec]
           /\ \A i \in Indexers : Reader(i) /\ Builder(i) /\ Alone(i)
           /\ OwnSnapshots
           /\ ActiveIsWhole /\ NoBuildLeftBehind /\ GraphStaysVisible

IndexInv == WikiInv /\ JobsInv /\ SnapInv

LEMMA SeqFromFunction ==
    ASSUME NEW S, NEW n \in Nat, NEW f \in [1 .. n -> S]
    PROVE  f \in Seq(S) /\ Len(f) = n /\ DOMAIN f = 1 .. n
OBVIOUS

LEMMA NoWorkTyped ==
    /\ NoWork \in IndexerRec /\ NoWork.pc = "idle" /\ NoWork.job = 0 /\ NoWork.snap = 0
    /\ NoWork.prev = 0 /\ NoWork.committed = FALSE
<1>1. [p \in Pages |-> 0] \in [Pages -> 0 .. MaxVersions]  BY IndexLimits
<1> QED  BY <1>1 DEF NoWork, IndexerRec, Waiting

(* What a typed state says of one snapshot and one replica.                 *)
LEMMA SnapFacts ==
    ASSUME SnapInv
    PROVE  /\ DOMAIN snapshot = 1 .. Len(snapshot) /\ Len(snapshot) \in Nat
           /\ \A s \in DOMAIN snapshot : snapshot[s] \in SnapRow
           /\ \A i \in Indexers : indexer[i] \in IndexerRec
           /\ \A s \in Live : s \in DOMAIN snapshot /\ s # 0
           /\ active \in Nat
           /\ active # 0 => active \in Live /\ snapshot[active].rows = "indexed"
<1>1. DOMAIN snapshot = 1 .. Len(snapshot) /\ Len(snapshot) \in Nat
  BY LenProperties DEF SnapInv, SnapsTyped
<1>2. \A s \in DOMAIN snapshot : snapshot[s] \in SnapRow
  BY <1>1, ElementOfSeq DEF SnapInv, SnapsTyped
<1>3. active # 0 => active \in {s \in DOMAIN snapshot : snapshot[s].status = "activated"}
  BY DEF SnapInv, ActiveIsWhole
<1>4. active # 0 => active \in Live /\ snapshot[active].rows = "indexed"
  BY <1>3 DEF SnapInv, ActiveIsWhole, Live
<1>5. \A s \in Live : s \in DOMAIN snapshot /\ s # 0  BY <1>1 DEF Live
<1>6. active \in Nat
  <2>1. active \in 0 .. Len(snapshot)  BY DEF SnapInv, SnapsTyped
  <2> QED  BY <2>1
<1> QED  BY <1>1, <1>2, <1>4, <1>5, <1>6 DEF SnapInv

(* A step of one replica that neither begins nor activates a snapshot: it   *)
(* may write the rows of its own, or fail it, or fail builds it takes for   *)
(* dead.                                                                    *)
SnapGoes(i, s) ==
    /\ snapshot'[s].run = snapshot[s].run /\ snapshot'[s].alone = snapshot[s].alone
    /\ snapshot'[s].rows # snapshot[s].rows => s = indexer[i].snap /\ s \notin Live
    /\ snapshot'[s].status # snapshot[s].status =>
          /\ snapshot[s].status = "building" /\ snapshot'[s].status = "failed"
          /\ s = indexer[i].snap \/ s \in orphans \cup overtaken'

LEMMA LiveKept ==
    ASSUME SnapInv, NEW i \in Indexers, DOMAIN snapshot' = DOMAIN snapshot,
           \A s \in DOMAIN snapshot : SnapGoes(i, s)
    PROVE  /\ Live' = Live /\ (RunShown' <=> RunShown) /\ Building' \subseteq Building
           /\ \A s \in DOMAIN snapshot :
                 snapshot'[s].status = "activated" <=> snapshot[s].status = "activated"
<1>1. \A s \in DOMAIN snapshot :
         /\ s \in Live' <=> s \in Live
         /\ s \in Building' => s \in Building
         /\ snapshot'[s].status = "activated" <=> snapshot[s].status = "activated"
  BY DEF SnapGoes, Live, Building
<1>2. Live' = Live /\ Building' \subseteq Building  BY <1>1 DEF Live, Building
<1>3. RunShown' <=> RunShown  BY <1>2 DEF RunShown, SnapGoes, Live
<1> QED  BY <1>1, <1>2, <1>3

LEMMA OrdinaryStep ==
    ASSUME SnapInv, NEW i \in Indexers, NEW r \in IndexerRec, indexer' = [indexer EXCEPT ![i] = r],
           snapshot' \in Seq(SnapRow), Len(snapshot') = Len(snapshot), active' = active,
           \A s \in DOMAIN snapshot : SnapGoes(i, s),
           overtaken \subseteq overtaken', orphans \subseteq orphans',
           orphans' \subseteq orphans \cup ({indexer[i].snap} \ {0}),
           r.snap # 0 => orphans' = orphans,
           r.pc \in Writing => indexer[i].pc \in Writing,
           \/ r.snap = indexer[i].snap
           \/ r.snap = 0 /\ (indexer[i].snap \in {0} \cup orphans'
                               \/ snapshot[indexer[i].snap].status # "building"),
           \/ r.pc \in Waiting \/ indexer[i].pc \notin Waiting
           \/ \A k \in Indexers : indexer[k].pc \in Writing => indexer[k].snap \in overtaken',
           Reader(i)', Builder(i)'
    PROVE  SnapInv'
<1> DEFINE n == indexer[i].snap
<1>1. DOMAIN snapshot = 1 .. Len(snapshot) /\ DOMAIN snapshot' = DOMAIN snapshot
  BY LenProperties, SnapFacts DEF SnapInv, SnapsTyped
<1>2. /\ Live' = Live /\ (RunShown' <=> RunShown) /\ Building' \subseteq Building
      /\ \A s \in DOMAIN snapshot :
            snapshot'[s].status = "activated" <=> snapshot[s].status = "activated"
  BY <1>1, LiveKept
<1>3. /\ indexer' \in [Indexers -> IndexerRec] /\ indexer'[i] = r
      /\ \A k \in Indexers \ {i} : indexer'[k] = indexer[k]
  BY DEF SnapInv
<1>4. \A k \in Indexers \ {i} : Reader(k)'
  BY <1>2, <1>3 DEF SnapInv, Reader, IndexerAt
<1>5. \A k \in Indexers \ {i} : indexer[k].snap # 0 => indexer[k].snap # n
  BY DEF SnapInv, OwnSnapshots
<1>6. ASSUME NEW k \in Indexers \ {i} PROVE Builder(k)'
  <2> DEFINE s == indexer[k].snap
  <2>1. Builder(k) /\ indexer'[k] = indexer[k]  BY <1>3 DEF SnapInv
  <2>2. s # 0 => s \in DOMAIN snapshot /\ s \notin orphans /\ s # n
    BY <1>5, <2>1 DEF Builder
  <2>3. s # 0 => /\ snapshot'[s].rows = snapshot[s].rows
                 /\ snapshot'[s].status # snapshot[s].status =>
                      /\ snapshot[s].status = "building" /\ snapshot'[s].status = "failed"
                      /\ s \in overtaken'
    BY <2>2 DEF SnapGoes
  <2>4. s # 0 => s \notin orphans'  BY <2>2
  <2>5. s # 0 /\ indexer[k].committed => s \in Live'  BY <1>2, <2>1 DEF Builder
  <2>6. s # 0 /\ ~indexer[k].committed =>
            snapshot'[s].status \in IF IndexerAt(k, "throw") THEN {"failed"} ELSE {"building", "failed"}
    BY <2>1, <2>3 DEF Builder
  <2>7. indexer[k].pc \in Writing =>
            /\ s # 0 /\ ~indexer[k].committed /\ snapshot'[s].rows = RowsAt[indexer[k].pc]
            /\ s \notin overtaken' => snapshot'[s].status = "building"
    BY <2>1, <2>3 DEF Builder
  <2>8. IndexerAt(k, "complete") => s # 0 /\ indexer[k].committed  BY <2>1 DEF Builder
  <2> QED  BY <1>1, <2>1, <2>2, <2>4, <2>5, <2>6, <2>7, <2>8 DEF Builder, IndexerAt, RowsAt
<1>7. ASSUME NEW k \in Indexers PROVE Alone(k)'
  <2> DEFINE s == indexer[k].snap
  <2> SUFFICES ASSUME indexer'[k].pc \in Writing, indexer'[k].snap \notin overtaken',
                      snapshot'[indexer'[k].snap].alone
      PROVE /\ RunShown' => snapshot'[indexer'[k].snap].run
            /\ \A m \in Indexers \ {k} : indexer'[m].pc \in Waiting
    BY DEF Alone, Writing, Waiting
  <2>1. indexer[k].pc \in Writing /\ indexer'[k].snap = s
    <3>1. CASE k # i  BY <1>3, <3>1
    <3>2. CASE k = i
      <4>1. r.pc \in Writing  BY <1>3, <3>2
      <4>2. r.snap # 0  BY <1>3, <3>2, <4>1 DEF Builder
      <4> QED  BY <1>3, <3>2, <4>1, <4>2
    <3> QED  BY <3>1, <3>2
  <2>2. s \in DOMAIN snapshot  BY <2>1 DEF SnapInv, Builder
  <2>3. snapshot[s].alone /\ snapshot'[s].run = snapshot[s].run  BY <2>1, <2>2 DEF SnapGoes
  <2>4. /\ RunShown => snapshot[s].run
        /\ \A m \in Indexers \ {k} : indexer[m].pc \in Waiting
    BY <2>1, <2>3 DEF SnapInv, Alone
  <2>5. k # i => r.pc \in Waiting  BY <2>1, <2>4
  <2> QED  BY <1>2, <1>3, <2>1, <2>3, <2>4, <2>5
<1>8. OwnSnapshots'  BY <1>3, <1>5 DEF SnapInv, OwnSnapshots
<1>9. SnapsTyped'  BY <1>1, <1>2, SnapFacts DEF SnapInv, SnapsTyped, Builder
<1>10. ActiveIsWhole'
  <2>1. {s \in DOMAIN snapshot : snapshot[s].status = "activated"} = {active} \ {0}
    BY DEF SnapInv, ActiveIsWhole
  <2>2. {s \in DOMAIN snapshot' : snapshot'[s].status = "activated"} = {active} \ {0}
    BY <1>1, <1>2, <2>1
  <2>3. active # 0 => snapshot'[active].rows = "indexed"  BY SnapFacts DEF SnapGoes
  <2> QED  BY <2>2, <2>3 DEF ActiveIsWhole
<1>11. ASSUME NEW s \in Building'
       PROVE s \in orphans' \/ \E k \in Indexers : indexer'[k].snap = s
  <2>1. s \in Building /\ s # 0 /\ snapshot[s].status = "building"
    BY <1>1, <1>2, SnapFacts DEF Building
  <2>2. s \in orphans \/ \E k \in Indexers : indexer[k].snap = s
    BY <2>1 DEF SnapInv, NoBuildLeftBehind
  <2>3. CASE s = n
    <3>1. s \in orphans' \/ r.snap = s  BY <2>1, <2>3
    <3> QED  BY <1>3, <3>1
  <2>4. CASE s # n  BY <1>3, <2>2, <2>4
  <2> QED  BY <2>3, <2>4
<1>12. GraphStaysVisible'
  <2>1. RunShown => active # 0  BY DEF RunShown, SnapInv, SnapsTyped
  <2>2. RunShown => active \in DOMAIN snapshot  BY <2>1, SnapFacts
  <2>3. RunShown => snapshot[active].run \/ active \in overtaken \/ ~snapshot[active].alone
    BY DEF RunShown, Live, SnapInv, GraphStaysVisible
  <2>4. RunShown' => snapshot'[active].run \/ active \in overtaken' \/ ~snapshot'[active].alone
    BY <1>2, <2>2, <2>3 DEF SnapGoes
  <2> QED  BY <2>4 DEF RunShown, Live, GraphStaysVisible
<1>13. \A k \in Indexers : Reader(k)' /\ Builder(k)'  BY <1>4, <1>6
<1>14. NoBuildLeftBehind'  BY <1>11 DEF NoBuildLeftBehind
<1> QED  BY <1>3, <1>7, <1>8, <1>9, <1>10, <1>12, <1>13, <1>14 DEF SnapInv

(* The snapshot row of a sequence is replaced.                              *)
LEMMA RowReplaced ==
    ASSUME SnapInv, NEW n \in DOMAIN snapshot, NEW x \in SnapRow, snapshot' = [snapshot EXCEPT ![n] = x]
    PROVE  /\ snapshot' \in Seq(SnapRow) /\ Len(snapshot') = Len(snapshot)
           /\ snapshot'[n] = x /\ \A s \in DOMAIN snapshot \ {n} : snapshot'[s] = snapshot[s]
BY SnapFacts, ExceptSeq DEF SnapInv, SnapsTyped

(* A replica moves on and writes no snapshot.                               *)
LEMMA QuietStep ==
    ASSUME SnapInv, NEW i \in Indexers, NEW r \in IndexerRec, indexer' = [indexer EXCEPT ![i] = r],
           UNCHANGED <<snapshot, active, overtaken>>, orphans \subseteq orphans',
           orphans' \subseteq orphans \cup ({indexer[i].snap} \ {0}),
           r.snap # 0 => orphans' = orphans,
           r.pc \in Writing => indexer[i].pc \in Writing,
           \/ r.snap = indexer[i].snap
           \/ r.snap = 0 /\ (indexer[i].snap \in {0} \cup orphans'
                               \/ snapshot[indexer[i].snap].status # "building"),
           r.pc \in Waiting \/ indexer[i].pc \notin Waiting,
           Reader(i)', Builder(i)'
    PROVE  SnapInv'
<1>1. \A s \in DOMAIN snapshot : SnapGoes(i, s)  BY DEF SnapGoes
<1>2. snapshot' \in Seq(SnapRow) /\ Len(snapshot') = Len(snapshot)  BY DEF SnapInv, SnapsTyped
<1> QED  BY <1>1, <1>2, OrdinaryStep

(* The failing step of a build.                                             *)
LEMMA ThrowKeeps ==
    ASSUME SnapInv, NEW i \in Indexers, indexer[i].pc \notin {"idle", "throw"},
           NEW retryable \in BOOLEAN, Throw(i, retryable), UNCHANGED <<active, orphans, overtaken>>
    PROVE  /\ SnapInv' /\ indexer' \in [Indexers -> IndexerRec] /\ indexer'[i].job = indexer[i].job
           /\ \A k \in Indexers \ {i} : indexer'[k] = indexer[k]
<1> DEFINE n == indexer[i].snap
           r == [indexer[i] EXCEPT !.pc = "throw", !.retryable = retryable]
           x == [snapshot[n] EXCEPT !.status = "failed"]
<1>0. indexer[i] \in IndexerRec /\ Reader(i) /\ Builder(i)  BY DEF SnapInv
<1>1. r \in IndexerRec  BY <1>0 DEF IndexerRec, Waiting
<1>2. /\ r.pc = "throw" /\ r.job = indexer[i].job /\ r.snap = n /\ r.prev = indexer[i].prev
      /\ r.committed = indexer[i].committed
  BY <1>0 DEF IndexerRec
<1>3. indexer' = [indexer EXCEPT ![i] = r]  BY DEF Throw
<1> HIDE DEF r
<1>4. /\ indexer' \in [Indexers -> IndexerRec] /\ indexer'[i] = r
      /\ \A k \in Indexers \ {i} : indexer'[k] = indexer[k]
  BY <1>1, <1>3 DEF SnapInv
<1>5. CASE n # 0 /\ ~indexer[i].committed
  <2>1. n \in DOMAIN snapshot /\ snapshot[n].status \in {"building", "failed"}
    BY <1>0, <1>5 DEF Builder
  <2>2. snapshot[n] \in SnapRow  BY <2>1, SnapFacts
  <2>3. x \in SnapRow  BY <2>2 DEF SnapRow
  <2>4. x.status = "failed" /\ x.run = snapshot[n].run /\ x.alone = snapshot[n].alone
        /\ x.rows = snapshot[n].rows
    BY <2>2 DEF SnapRow
  <2>5. snapshot' = [snapshot EXCEPT ![n] = x]  BY <1>5 DEF Throw
  <2> HIDE DEF x
  <2>6. /\ snapshot' \in Seq(SnapRow) /\ Len(snapshot') = Len(snapshot)
        /\ snapshot'[n] = x /\ \A s \in DOMAIN snapshot \ {n} : snapshot'[s] = snapshot[s]
    BY <2>1, <2>3, <2>5, RowReplaced
  <2>7. DOMAIN snapshot' = DOMAIN snapshot  BY <2>5
  <2>8. \A s \in DOMAIN snapshot : SnapGoes(i, s)
    <3> SUFFICES ASSUME NEW s \in DOMAIN snapshot PROVE SnapGoes(i, s)  OBVIOUS
    <3>1. CASE s = n  BY <2>1, <2>4, <2>6, <3>1 DEF SnapGoes
    <3>2. CASE s # n  BY <2>6, <3>2 DEF SnapGoes
    <3> QED  BY <3>1, <3>2
  <2>9. Live' = Live  BY <2>7, <2>8, LiveKept
  <2>10. Reader(i)'  BY <1>0, <1>2, <1>4, <2>9 DEF Reader, IndexerAt
  <2>11. Builder(i)'
    BY <1>0, <1>2, <1>4, <1>5, <2>1, <2>4, <2>6, <2>7 DEF Builder, IndexerAt, Writing
  <2>12. SnapInv'
    BY <1>1, <1>2, <1>3, <2>6, <2>8, <2>10, <2>11, OrdinaryStep DEF Waiting, Writing
  <2> QED  BY <1>2, <1>4, <2>12
<1>6. CASE ~(n # 0 /\ ~indexer[i].committed)
  <2>1. UNCHANGED snapshot  BY <1>6 DEF Throw
  <2>2. Live' = Live  BY <2>1 DEF Live
  <2>3. Reader(i)'  BY <1>0, <1>2, <1>4, <2>2 DEF Reader, IndexerAt
  <2>4. Builder(i)'  BY <1>0, <1>2, <1>4, <1>6, <2>1, <2>2 DEF Builder, IndexerAt, Writing
  <2>5. SnapInv'  BY <1>1, <1>2, <1>3, <2>1, <2>3, <2>4, QuietStep DEF Waiting, Writing
  <2> QED  BY <1>2, <1>4, <2>5
<1> QED  BY <1>5, <1>6

(* The rows of a build are written.                                         *)
LEMMA RowsKeep ==
    ASSUME SnapInv, NEW i \in Indexers, NEW from \in Writing, NEW to \in Writing,
           NEW rows \in {"pending", "embedded", "indexed"}, rows = RowsAt[to],
           RowsBecome(i, from, rows, to)
    PROVE  /\ SnapInv' /\ indexer' \in [Indexers -> IndexerRec] /\ indexer'[i].job = indexer[i].job
           /\ \A k \in Indexers \ {i} : indexer'[k] = indexer[k]
<1> DEFINE n == indexer[i].snap
           r == [indexer[i] EXCEPT !.pc = to]
           x == [snapshot[n] EXCEPT !.rows = rows]
<1>0. indexer[i] \in IndexerRec /\ Reader(i) /\ Builder(i) /\ indexer[i].pc = from
  BY DEF SnapInv, RowsBecome, IndexerAt
<1>1. r \in IndexerRec  BY <1>0 DEF IndexerRec
<1>2. /\ r.pc = to /\ r.job = indexer[i].job /\ r.snap = n /\ r.prev = indexer[i].prev
      /\ r.committed = indexer[i].committed
  BY <1>0 DEF IndexerRec
<1>3. indexer' = [indexer EXCEPT ![i] = r] /\ UNCHANGED <<active, orphans, overtaken>>
  BY DEF RowsBecome
<1> HIDE DEF r
<1>4. /\ indexer' \in [Indexers -> IndexerRec] /\ indexer'[i] = r
      /\ \A k \in Indexers \ {i} : indexer'[k] = indexer[k]
  BY <1>1, <1>3 DEF SnapInv
<1>5. /\ n # 0 /\ n \in DOMAIN snapshot /\ snapshot[n].status \in {"building", "failed"}
      /\ ~indexer[i].committed
  BY <1>0 DEF Builder, IndexerAt, Writing
<1>6. snapshot[n] \in SnapRow  BY <1>5, SnapFacts
<1>7. x \in SnapRow  BY <1>6 DEF SnapRow
<1>8. x.status = snapshot[n].status /\ x.run = snapshot[n].run /\ x.alone = snapshot[n].alone
      /\ x.rows = rows
  BY <1>6 DEF SnapRow
<1>9. snapshot' = [snapshot EXCEPT ![n] = x]  BY DEF RowsBecome
<1> HIDE DEF x
<1>10. /\ snapshot' \in Seq(SnapRow) /\ Len(snapshot') = Len(snapshot)
       /\ snapshot'[n] = x /\ \A s \in DOMAIN snapshot \ {n} : snapshot'[s] = snapshot[s]
  BY <1>5, <1>7, <1>9, RowReplaced
<1>11. DOMAIN snapshot' = DOMAIN snapshot  BY <1>9
<1>12. \A s \in DOMAIN snapshot : SnapGoes(i, s)
  <2> SUFFICES ASSUME NEW s \in DOMAIN snapshot PROVE SnapGoes(i, s)  OBVIOUS
  <2>1. CASE s = n  BY <1>5, <1>8, <1>10, <2>1 DEF SnapGoes, Live
  <2>2. CASE s # n  BY <1>10, <2>2 DEF SnapGoes
  <2> QED  BY <2>1, <2>2
<1>13. Live' = Live  BY <1>11, <1>12, LiveKept
<1>14. Reader(i)'  BY <1>0, <1>2, <1>4, <1>13 DEF Reader, IndexerAt, Writing
<1>15. RowsAt' = RowsAt  BY DEF RowsAt, Writing
<1>16. Builder(i)'
  BY <1>0, <1>2, <1>3, <1>4, <1>5, <1>8, <1>10, <1>11, <1>15 DEF Builder, IndexerAt, Writing
<1>17. SnapInv'
  BY <1>0, <1>1, <1>2, <1>3, <1>10, <1>12, <1>14, <1>16, OrdinaryStep DEF Waiting, Writing
<1> QED  BY <1>2, <1>4, <1>17

(* A replica takes a job, dies, or ends its work: it holds nothing.         *)
LEMMA Released ==
    ASSUME SnapInv, NEW i \in Indexers, NEW r \in IndexerRec, indexer' = [indexer EXCEPT ![i] = r],
           r.pc \in Waiting, r.snap = 0, r.prev = 0, r.committed = FALSE,
           UNCHANGED <<snapshot, active, overtaken>>,
           \/ orphans' = orphans /\ indexer[i].pc \in {"idle", "complete", "throw"}
           \/ orphans' = orphans \cup ({indexer[i].snap} \ {0})
    PROVE  SnapInv'
<1>1. Reader(i) /\ Builder(i)  BY DEF SnapInv
<1>2. indexer'[i] = r  BY DEF SnapInv
<1>3. Reader(i)'  BY <1>2 DEF Reader, IndexerAt, Waiting
<1>4. Builder(i)'  BY <1>2 DEF Builder, IndexerAt, Waiting, Writing
<1>5. \/ indexer[i].snap \in {0} \cup orphans'
      \/ snapshot[indexer[i].snap].status # "building"
  BY <1>1 DEF Reader, Builder, IndexerAt, Live
<1> QED  BY <1>2, <1>3, <1>4, <1>5, QuietStep DEF Waiting, Writing

LEMMA LoadPasses ==
    ASSUME SnapInv, NEW i \in Indexers, CheckBuilding(i), \A s \in Building : snapshot[s].stale,
           snapshot' = [s \in DOMAIN snapshot |->
                          IF s \in Building THEN [snapshot[s] EXCEPT !.status = "failed"]
                          ELSE snapshot[s]],
           overtaken' = overtaken \cup (Building \ orphans),
           indexer' = [indexer EXCEPT ![i].pc = "load"]
    PROVE  /\ SnapInv' /\ indexer' \in [Indexers -> IndexerRec] /\ indexer'[i].job = indexer[i].job
           /\ \A k \in Indexers \ {i} : indexer'[k] = indexer[k]
<1> DEFINE r == [indexer[i] EXCEPT !.pc = "load"]
           failed(s) == [snapshot[s] EXCEPT !.status = "failed"]
<1>0. /\ indexer[i] \in IndexerRec /\ Reader(i) /\ Builder(i) /\ indexer[i].pc = "check"
      /\ UNCHANGED <<active, orphans>>
  BY DEF SnapInv, CheckBuilding, IndexerAt
<1>1. r \in IndexerRec  BY <1>0 DEF IndexerRec
<1>2. /\ r.pc = "load" /\ r.job = indexer[i].job /\ r.snap = indexer[i].snap
      /\ r.prev = indexer[i].prev /\ r.committed = indexer[i].committed
  BY <1>0 DEF IndexerRec
<1>3. indexer' = [indexer EXCEPT ![i] = r]  OBVIOUS
<1> HIDE DEF r
<1>4. /\ indexer' \in [Indexers -> IndexerRec] /\ indexer'[i] = r
      /\ \A k \in Indexers \ {i} : indexer'[k] = indexer[k]
  BY <1>1, <1>3 DEF SnapInv
<1>5. \A s \in DOMAIN snapshot :
          /\ failed(s) \in SnapRow /\ failed(s).status = "failed"
          /\ failed(s).run = snapshot[s].run /\ failed(s).alone = snapshot[s].alone
          /\ failed(s).rows = snapshot[s].rows
  BY SnapFacts DEF SnapRow
<1>6. DOMAIN snapshot' = DOMAIN snapshot
      /\ \A s \in DOMAIN snapshot :
            snapshot'[s] = IF s \in Building THEN failed(s) ELSE snapshot[s]
  OBVIOUS
<1> HIDE DEF failed
<1>7. \A s \in DOMAIN snapshot : snapshot'[s] \in SnapRow  BY <1>5, <1>6, SnapFacts
<1>8. snapshot' \in [1 .. Len(snapshot) -> SnapRow]  BY <1>7, SnapFacts
<1>9. snapshot' \in Seq(SnapRow) /\ Len(snapshot') = Len(snapshot)
  BY <1>8, SnapFacts, SeqFromFunction
<1>10. ASSUME NEW s \in DOMAIN snapshot PROVE SnapGoes(i, s)
  <2>1. CASE s \in Building  BY <1>5, <1>6, <2>1 DEF SnapGoes, Building
  <2>2. CASE s \notin Building  BY <1>6, <2>2 DEF SnapGoes
  <2> QED  BY <2>1, <2>2
<1>11. Live' = Live  BY <1>6, <1>10, LiveKept
<1>12. Reader(i)'  BY <1>0, <1>2, <1>4, <1>11 DEF Reader, IndexerAt
<1>13. Builder(i)'  BY <1>0, <1>2, <1>4 DEF Builder, Reader, IndexerAt, Writing
<1>14. ASSUME NEW k \in Indexers, indexer[k].pc \in Writing PROVE indexer[k].snap \in overtaken'
  <2>1. Builder(k)  BY DEF SnapInv
  <2> QED  BY <1>14, <2>1 DEF Builder, Building
<1>15. SnapInv'
  BY <1>0, <1>1, <1>2, <1>3, <1>9, <1>10, <1>12, <1>13, <1>14, OrdinaryStep DEF Writing
<1> QED  BY <1>2, <1>4, <1>15

(* The version read of a page is one of its versions, or none.              *)
LEMMA PublishedRead ==
    ASSUME WikiInv
    PROVE  [p \in Pages |-> PublishedVersion(p)] \in [Pages -> 0 .. MaxVersions]
<1>1. \A p \in Pages : page[p].current \in 1 .. MaxVersions  BY DEF WikiInv
<1> QED  BY <1>1, IndexLimits DEF PublishedVersion

(* The inputs of a build are read.                                          *)
LEMMA InputsLoaded ==
    ASSUME SnapInv, NEW i \in Indexers, IndexerAt(i, "load"), NEW r \in IndexerRec,
           r.pc = "create", r.job = indexer[i].job, r.snap = indexer[i].snap,
           r.prev = active, RunShown => r.run, r.committed = indexer[i].committed,
           UNCHANGED <<snapshot, active, orphans, overtaken>>,
           indexer' = [indexer EXCEPT ![i] = r]
    PROVE  /\ SnapInv' /\ indexer' \in [Indexers -> IndexerRec] /\ indexer'[i].job = indexer[i].job
           /\ \A k \in Indexers \ {i} : indexer'[k] = indexer[k]
<1>1. Reader(i) /\ Builder(i) /\ indexer[i].pc = "load"  BY DEF SnapInv, IndexerAt
<1>2. active # 0 => active \in Live  BY SnapFacts
<1>3. /\ indexer' \in [Indexers -> IndexerRec] /\ indexer'[i] = r
      /\ \A k \in Indexers \ {i} : indexer'[k] = indexer[k]
  BY DEF SnapInv
<1>4. Live' = Live /\ (RunShown' <=> RunShown)  BY DEF Live, RunShown
<1>5. Reader(i)'  BY <1>1, <1>2, <1>3, <1>4 DEF Reader, IndexerAt
<1>6. Builder(i)'  BY <1>1, <1>3 DEF Builder, Reader, IndexerAt, Writing
<1>7. SnapInv'  BY <1>1, <1>5, <1>6, QuietStep DEF Waiting, Writing
<1> QED  BY <1>3, <1>7

(* The chunks of a snapshot that is begun are versions of the pages.        *)
LEMMA PlanTyped ==
    ASSUME SnapInv, NEW i \in Indexers PROVE Plan(i) \in [Pages -> 0 .. MaxVersions]
<1>1. indexer[i].read \in [Pages -> 0 .. MaxVersions]  BY SnapFacts DEF IndexerRec
<1>2. indexer[i].prev # 0 =>
          snapshot[indexer[i].prev].chunks \in [Pages -> 0 .. MaxVersions]
  <2>1. indexer[i].prev # 0 => snapshot[indexer[i].prev] \in SnapRow
    BY SnapFacts DEF SnapInv, Reader
  <2> QED  BY <2>1 DEF SnapRow
<1>3. 0 \in 0 .. MaxVersions  BY IndexLimits
<1> QED  BY <1>1, <1>2, <1>3 DEF Plan

LEMMA SnapshotBegun ==
    ASSUME SnapInv, NEW i \in Indexers, IndexerAt(i, "create"), Building = {},
           NEW chunks \in [Pages -> 0 .. MaxVersions], NEW alone \in BOOLEAN, alone => WorksAlone(i),
           snapshot' = Append(snapshot,
              [status |-> "building", stale |-> FALSE, run |-> indexer[i].run,
               chunks |-> chunks, rows |-> "none", alone |-> alone]),
           indexer' = [indexer EXCEPT ![i].pc = "insert", ![i].snap = Len(snapshot) + 1],
           UNCHANGED <<active, orphans, overtaken>>
    PROVE  /\ SnapInv' /\ indexer' \in [Indexers -> IndexerRec] /\ indexer'[i].job = indexer[i].job
           /\ \A k \in Indexers \ {i} : indexer'[k] = indexer[k]
<1> DEFINE n == Len(snapshot) + 1
           r == [indexer[i] EXCEPT !.pc = "insert", !.snap = n]
           x == [status |-> "building", stale |-> FALSE, run |-> indexer[i].run,
                 chunks |-> chunks, rows |-> "none", alone |-> alone]
<1>0. /\ indexer[i] \in IndexerRec /\ Reader(i) /\ Builder(i) /\ indexer[i].pc = "create"
      /\ indexer[i].snap = 0
  BY DEF SnapInv, IndexerAt, Reader
<1>1. n \in Nat \ {0}  BY SnapFacts
<1>2. r \in IndexerRec  BY <1>0, <1>1 DEF IndexerRec, Writing
<1>3. /\ r.pc = "insert" /\ r.job = indexer[i].job /\ r.snap = n
      /\ r.prev = indexer[i].prev /\ r.run = indexer[i].run /\ r.committed = indexer[i].committed
  BY <1>0 DEF IndexerRec
<1>4. indexer' = [indexer EXCEPT ![i] = r]  OBVIOUS
<1> HIDE DEF r
<1>5. /\ indexer' \in [Indexers -> IndexerRec] /\ indexer'[i] = r
      /\ \A k \in Indexers \ {i} : indexer'[k] = indexer[k]
  BY <1>2, <1>4 DEF SnapInv
<1>6. x \in SnapRow  BY <1>0 DEF SnapRow, IndexerRec
<1>7. x.status = "building" /\ x.rows = "none" /\ x.run = indexer[i].run /\ x.alone = alone
  OBVIOUS
<1>8. snapshot' = Append(snapshot, x)  OBVIOUS
<1> HIDE DEF x
<1>9. /\ snapshot' \in Seq(SnapRow) /\ Len(snapshot') = n /\ snapshot'[n] = x
      /\ \A s \in DOMAIN snapshot : snapshot'[s] = snapshot[s]
      /\ DOMAIN snapshot' = DOMAIN snapshot \cup {n} /\ n \notin DOMAIN snapshot
  <2>1. snapshot \in Seq(SnapRow)  BY DEF SnapInv, SnapsTyped
  <2>2. /\ snapshot' \in Seq(SnapRow) /\ Len(snapshot') = n /\ snapshot'[n] = x
        /\ \A s \in 1 .. Len(snapshot) : snapshot'[s] = snapshot[s]
    BY <1>6, <1>8, <2>1, AppendProperties
  <2>3. DOMAIN snapshot' = 1 .. n  BY <2>2, LenProperties
  <2> QED  BY <2>2, <2>3, SnapFacts
<1>10. Live' = Live /\ (RunShown' <=> RunShown) /\ Building' = {n}
  <2>1. Live' = Live  BY <1>7, <1>9 DEF Live
  <2>2. RunShown' <=> RunShown  BY <1>9, <2>1 DEF RunShown, Live
  <2>3. Building' = {n}  BY <1>7, <1>9 DEF Building
  <2> QED  BY <2>1, <2>2, <2>3
<1>11. \A k \in Indexers : indexer[k].snap # n /\ indexer[k].snap \in {0} \cup DOMAIN snapshot
  BY <1>1, <1>9 DEF SnapInv, Builder
<1>12. \A k \in Indexers : Reader(k)'
  BY <1>0, <1>3, <1>5, <1>10 DEF SnapInv, Reader, IndexerAt
<1>13. ASSUME NEW k \in Indexers \ {i} PROVE Builder(k)'
  BY <1>5, <1>9, <1>10, <1>11 DEF SnapInv, Builder, IndexerAt, RowsAt, Writing
<1>14. Builder(i)'
  <2>1. n \notin orphans  BY <1>9 DEF SnapInv, SnapsTyped
  <2>2. ~indexer[i].committed  BY <1>0 DEF Reader
  <2>3. RowsAt'["insert"] = "none"  BY DEF RowsAt, Writing
  <2> QED  BY <1>1, <1>3, <1>5, <1>7, <1>9, <2>1, <2>2, <2>3 DEF Builder, IndexerAt
<1>15. ASSUME NEW k \in Indexers \ {i}
       PROVE ~(indexer[k].pc \in Writing /\ indexer[k].snap \notin overtaken)
  BY DEF SnapInv, Builder, Building
<1>16. \A k \in Indexers \ {i} : Alone(k)'  BY <1>5, <1>15 DEF Alone, Writing
<1>17. Alone(i)'
  <2> SUFFICES ASSUME alone PROVE /\ RunShown => indexer[i].run
                                  /\ \A k \in Indexers \ {i} : indexer'[k].pc \in Waiting
    BY <1>3, <1>5, <1>7, <1>9, <1>10 DEF Alone, Waiting
  <2>1. indexer[i].prev = active /\ \A k \in Indexers \ {i} : indexer[k].pc = "idle"
    BY DEF WorksAlone, IndexerAt
  <2>2. RunShown => indexer[i].run  BY <1>0, <2>1 DEF Reader, IndexerAt
  <2> QED  BY <1>5, <2>1, <2>2 DEF Waiting
<1>18. OwnSnapshots'  BY <1>3, <1>5, <1>11 DEF SnapInv, OwnSnapshots
<1>19. SnapsTyped'
  <2>1. active \in 0 .. Len(snapshot) /\ orphans \subseteq DOMAIN snapshot /\ (Live # {} => active # 0)
    BY DEF SnapInv, SnapsTyped
  <2> QED  BY <1>9, <1>10, <2>1, SnapFacts DEF SnapsTyped
<1>20. ActiveIsWhole'
  <2>1. {s \in DOMAIN snapshot : snapshot[s].status = "activated"} = {active} \ {0}
    BY DEF SnapInv, ActiveIsWhole
  <2>2. {s \in DOMAIN snapshot' : snapshot'[s].status = "activated"} = {active} \ {0}
    BY <1>7, <1>9, <2>1
  <2>3. active # 0 => snapshot'[active].rows = "indexed"  BY <1>9, SnapFacts
  <2> QED  BY <2>2, <2>3 DEF ActiveIsWhole
<1>21. NoBuildLeftBehind'  BY <1>3, <1>5, <1>10 DEF NoBuildLeftBehind
<1>22. GraphStaysVisible'
  <2>1. RunShown => active # 0  BY DEF RunShown, SnapInv, SnapsTyped
  <2>2. RunShown => active \in DOMAIN snapshot  BY <2>1, SnapFacts
  <2>3. RunShown => snapshot[active].run \/ active \in overtaken \/ ~snapshot[active].alone
    BY DEF RunShown, Live, SnapInv, GraphStaysVisible
  <2>4. RunShown' => snapshot'[active].run \/ active \in overtaken' \/ ~snapshot'[active].alone
    BY <1>9, <1>10, <2>2, <2>3
  <2> QED  BY <2>4 DEF RunShown, Live, GraphStaysVisible
<1>23. SnapInv'
  BY <1>5, <1>12, <1>13, <1>14, <1>16, <1>17, <1>18, <1>19, <1>20, <1>21, <1>22 DEF SnapInv
<1> QED  BY <1>3, <1>5, <1>23

(* The rows after the activation of n: it is the one activated, the others  *)
(* that were live stay live.                                                *)
LEMMA ActivatedRows ==
    ASSUME SnapInv, NEW n \in DOMAIN snapshot, snapshot' = Activated(n)
    PROVE  /\ snapshot' \in Seq(SnapRow) /\ Len(snapshot') = Len(snapshot)
           /\ DOMAIN snapshot' = DOMAIN snapshot
           /\ \A s \in DOMAIN snapshot :
                 /\ snapshot'[s].run = snapshot[s].run /\ snapshot'[s].alone = snapshot[s].alone
                 /\ snapshot'[s].rows = snapshot[s].rows
                 /\ snapshot'[s].status = IF s = n THEN "activated"
                                          ELSE IF snapshot[s].status = "activated" THEN "superseded"
                                          ELSE snapshot[s].status
<1> DEFINE set(s, status) == [snapshot[s] EXCEPT !.status = status]
<1>1. \A s \in DOMAIN snapshot : \A status \in {"activated", "superseded"} :
          /\ set(s, status) \in SnapRow /\ set(s, status).status = status
          /\ set(s, status).run = snapshot[s].run /\ set(s, status).alone = snapshot[s].alone
          /\ set(s, status).rows = snapshot[s].rows
  BY SnapFacts DEF SnapRow
<1>2. DOMAIN snapshot' = DOMAIN snapshot
      /\ \A s \in DOMAIN snapshot :
            snapshot'[s] = IF s = n THEN set(s, "activated")
                           ELSE IF snapshot[s].status = "activated" THEN set(s, "superseded")
                           ELSE snapshot[s]
  BY DEF Activated
<1>3. snapshot' = [s \in DOMAIN snapshot |-> snapshot'[s]]  BY DEF Activated
<1> HIDE DEF set
<1>4. \A s \in DOMAIN snapshot : snapshot'[s] \in SnapRow  BY <1>1, <1>2, SnapFacts
<1>5. snapshot' \in [1 .. Len(snapshot) -> SnapRow]  BY <1>3, <1>4, SnapFacts
<1>6. snapshot' \in Seq(SnapRow) /\ Len(snapshot') = Len(snapshot)
  BY <1>5, SnapFacts, SeqFromFunction
<1>7. ASSUME NEW s \in DOMAIN snapshot
      PROVE  /\ snapshot'[s].run = snapshot[s].run /\ snapshot'[s].alone = snapshot[s].alone
             /\ snapshot'[s].rows = snapshot[s].rows
             /\ snapshot'[s].status = IF s = n THEN "activated"
                                      ELSE IF snapshot[s].status = "activated" THEN "superseded"
                                      ELSE snapshot[s].status
  <2>1. CASE s = n  BY <1>1, <1>2, <2>1
  <2>2. CASE s # n /\ snapshot[s].status = "activated"  BY <1>1, <1>2, <2>2
  <2>3. CASE s # n /\ snapshot[s].status # "activated"  BY <1>2, <2>3
  <2> QED  BY <2>1, <2>2, <2>3
<1> QED  BY <1>2, <1>6, <1>7

(* What the builder knows before it activates: nobody overtook it, or it    *)
(* counts as overtaken.                                                     *)
LEMMA ActivateKeeps ==
    ASSUME SnapInv, NEW i \in Indexers, ActivateSnapshot(i)
    PROVE  /\ SnapInv' /\ indexer' \in [Indexers -> IndexerRec] /\ indexer'[i].job = indexer[i].job
           /\ \A k \in Indexers \ {i} : indexer'[k] = indexer[k]
           /\ active' < active => active' \in overtaken
<1> DEFINE n == indexer[i].snap
           r == [indexer[i] EXCEPT !.pc = "complete", !.committed = TRUE]
<1>0. /\ indexer[i] \in IndexerRec /\ Reader(i) /\ Builder(i) /\ indexer[i].pc = "activate"
      /\ snapshot' = Activated(n) /\ active' = n /\ UNCHANGED <<orphans, overtaken>>
  BY DEF SnapInv, ActivateSnapshot, IndexerAt
<1>1. r \in IndexerRec  BY <1>0 DEF IndexerRec
<1>2. /\ r.pc = "complete" /\ r.job = indexer[i].job /\ r.snap = n
      /\ r.prev = indexer[i].prev /\ r.committed = TRUE
  BY <1>0 DEF IndexerRec
<1>3. indexer' = [indexer EXCEPT ![i] = r]  BY DEF ActivateSnapshot
<1> HIDE DEF r
<1>4. /\ indexer' \in [Indexers -> IndexerRec] /\ indexer'[i] = r
      /\ \A k \in Indexers \ {i} : indexer'[k] = indexer[k]
  BY <1>1, <1>3 DEF SnapInv
<1>5. /\ n # 0 /\ n \in DOMAIN snapshot /\ n \notin Live /\ n \notin orphans
      /\ snapshot[n].rows = "indexed" /\ (n \notin overtaken => n \in Building)
  <2>1. /\ n # 0 /\ n \in DOMAIN snapshot /\ n \notin orphans /\ ~indexer[i].committed
        /\ snapshot[n].rows = RowsAt["activate"]
        /\ n \notin overtaken => snapshot[n].status = "building"
        /\ snapshot[n].status \in {"building", "failed"}
    BY <1>0 DEF Builder, IndexerAt, Writing
  <2>2. RowsAt["activate"] = "indexed"  BY DEF RowsAt, Writing
  <2> QED  BY <2>1, <2>2 DEF Live, Building
<1>6. /\ snapshot' \in Seq(SnapRow) /\ Len(snapshot') = Len(snapshot)
      /\ DOMAIN snapshot' = DOMAIN snapshot
      /\ \A s \in DOMAIN snapshot :
            /\ snapshot'[s].run = snapshot[s].run /\ snapshot'[s].alone = snapshot[s].alone
            /\ snapshot'[s].rows = snapshot[s].rows
            /\ snapshot'[s].status = IF s = n THEN "activated"
                                     ELSE IF snapshot[s].status = "activated" THEN "superseded"
                                     ELSE snapshot[s].status
  BY <1>0, <1>5, ActivatedRows
<1>7. Live' = Live \cup {n} /\ Building' \subseteq Building \ {n}
  BY <1>5, <1>6 DEF Live, Building
<1>8. RunShown' <=> RunShown \/ snapshot[n].run
  BY <1>5, <1>6, <1>7 DEF RunShown, Live
<1>9. \A k \in Indexers \ {i} : indexer[k].snap # n  BY <1>5 DEF SnapInv, OwnSnapshots
<1>10. ASSUME NEW k \in Indexers PROVE Reader(k)'
  <2>1. CASE k = i  BY <1>0, <1>2, <1>4, <1>7, <2>1 DEF Reader, IndexerAt
  <2>2. CASE k # i
    <3>1. Reader(k) /\ indexer'[k] = indexer[k]  BY <1>4, <2>2 DEF SnapInv
    <3>2. indexer[k].prev # n  BY <1>5, <3>1 DEF Reader
    <3> QED  BY <1>0, <1>7, <3>1, <3>2 DEF Reader, IndexerAt
  <2> QED  BY <2>1, <2>2
<1>11. ASSUME NEW k \in Indexers \ {i} PROVE Builder(k)'
  <2> DEFINE s == indexer[k].snap
  <2>1. Builder(k) /\ indexer'[k] = indexer[k] /\ s # n  BY <1>4, <1>9 DEF SnapInv
  <2>2. s \in DOMAIN snapshot => /\ snapshot'[s].rows = snapshot[s].rows
                                 /\ snapshot[s].status # "activated" =>
                                       snapshot'[s].status = snapshot[s].status
    BY <1>6, <2>1
  <2>3. RowsAt' = RowsAt  BY DEF RowsAt, Writing
  <2>4. s # 0 => s \in DOMAIN snapshot  BY <2>1 DEF Builder
  <2>5. indexer[k].pc \in Writing =>
            /\ s # 0 /\ ~indexer[k].committed /\ snapshot'[s].rows = RowsAt[indexer[k].pc]
            /\ s \notin overtaken => snapshot'[s].status = "building"
    BY <2>1, <2>2, <2>4 DEF Builder
  <2>6. s # 0 =>
          /\ s \in DOMAIN snapshot' /\ s \notin orphans
          /\ indexer[k].committed => s \in Live'
          /\ ~indexer[k].committed =>
                 snapshot'[s].status \in IF IndexerAt(k, "throw") THEN {"failed"}
                                                                  ELSE {"building", "failed"}
    BY <1>6, <1>7, <2>1, <2>2, <2>4 DEF Builder
  <2>7. IndexerAt(k, "complete") => s # 0 /\ indexer[k].committed  BY <2>1 DEF Builder
  <2> QED  BY <1>0, <2>1, <2>3, <2>5, <2>6, <2>7 DEF Builder, IndexerAt
<1>12. Builder(i)'
  BY <1>0, <1>2, <1>4, <1>5, <1>6, <1>7 DEF Builder, IndexerAt, Writing
<1>13. ASSUME NEW k \in Indexers PROVE Alone(k)'
  <2>1. CASE k = i  BY <1>2, <1>4, <2>1 DEF Alone, Writing
  <2>2. CASE k # i
    <3>1. Alone(k) /\ Builder(k) /\ indexer'[k] = indexer[k]  BY <1>4, <2>2 DEF SnapInv
    <3>2. indexer[i].pc \notin Waiting  BY <1>0 DEF Waiting
    <3>3. indexer[k].pc \in Writing /\ indexer[k].snap \notin overtaken =>
             ~snapshot[indexer[k].snap].alone
      BY <2>2, <3>1, <3>2 DEF Alone
    <3>4. indexer[k].pc \in Writing => indexer[k].snap \in DOMAIN snapshot  BY <3>1 DEF Builder
    <3> QED  BY <1>0, <1>6, <3>1, <3>3, <3>4 DEF Alone, Writing
  <2> QED  BY <2>1, <2>2
<1>14. OwnSnapshots'  BY <1>2, <1>4, <1>9 DEF SnapInv, OwnSnapshots
<1>15. SnapsTyped'
  BY <1>0, <1>5, <1>6, <1>7, SnapFacts DEF SnapInv, SnapsTyped
<1>16. ActiveIsWhole'
  <2>1. {s \in DOMAIN snapshot' : snapshot'[s].status = "activated"} = {n}  BY <1>5, <1>6
  <2> QED  BY <1>0, <1>5, <1>6, <2>1 DEF ActiveIsWhole
<1>17. NoBuildLeftBehind'
  <2> SUFFICES ASSUME NEW s \in Building'
      PROVE s \in orphans' \/ \E k \in Indexers : indexer'[k].snap = s
    BY DEF NoBuildLeftBehind
  <2>1. s \in Building /\ s # n  BY <1>7
  <2>2. s \in orphans \/ \E k \in Indexers \ {i} : indexer[k].snap = s
    BY <2>1 DEF SnapInv, NoBuildLeftBehind
  <2> QED  BY <1>0, <1>4, <2>2
<1>18. GraphStaysVisible'
  <2>1. RunShown' => snapshot[n].run \/ n \in overtaken \/ ~snapshot[n].alone
    BY <1>0, <1>8 DEF SnapInv, Alone, Writing
  <2>2. RunShown' => snapshot'[n].run \/ n \in overtaken' \/ ~snapshot'[n].alone
    BY <1>0, <1>5, <1>6, <2>1
  <2> QED  BY <1>0, <2>2 DEF RunShown, Live, GraphStaysVisible
<1>19. SnapInv'
  BY <1>4, <1>10, <1>11, <1>12, <1>13, <1>14, <1>15, <1>16, <1>17, <1>18 DEF SnapInv
<1>20. active' < active => active' \in overtaken
  <2> SUFFICES ASSUME n \notin overtaken PROVE ~(n < active)  BY <1>0
  <2>1. n = Len(snapshot)  BY <1>5 DEF SnapInv, SnapsTyped
  <2>2. active \in 0 .. Len(snapshot)  BY DEF SnapInv, SnapsTyped
  <2> QED  BY <2>1, <2>2, SnapFacts
<1> QED  BY <1>2, <1>4, <1>19, <1>20

(* Two hours pass for a build.                                              *)
LEMMA StaleKeeps == ASSUME SnapInv, NEW n \in DOMAIN snapshot, BuildGrowsStale(n) PROVE SnapInv'
<1> DEFINE x == [snapshot[n] EXCEPT !.stale = TRUE]
<1>1. snapshot[n] \in SnapRow  BY SnapFacts
<1>2. x \in SnapRow  BY <1>1 DEF SnapRow
<1>3. x.status = snapshot[n].status /\ x.run = snapshot[n].run /\ x.alone = snapshot[n].alone
      /\ x.rows = snapshot[n].rows
  BY <1>1 DEF SnapRow
<1>4. snapshot' = [snapshot EXCEPT ![n] = x] /\ UNCHANGED <<active, indexer, orphans, overtaken>>
  BY DEF BuildGrowsStale
<1> HIDE DEF x
<1>5. /\ snapshot' \in Seq(SnapRow) /\ Len(snapshot') = Len(snapshot)
      /\ snapshot'[n] = x /\ \A s \in DOMAIN snapshot \ {n} : snapshot'[s] = snapshot[s]
  BY <1>2, <1>4, RowReplaced
<1>6. /\ DOMAIN snapshot' = DOMAIN snapshot
      /\ \A s \in DOMAIN snapshot :
            /\ snapshot'[s].status = snapshot[s].status /\ snapshot'[s].run = snapshot[s].run
            /\ snapshot'[s].alone = snapshot[s].alone /\ snapshot'[s].rows = snapshot[s].rows
  BY <1>3, <1>4, <1>5
<1>7. Live' = Live /\ Building' = Building  BY <1>6 DEF Live, Building
<1>8. RunShown' <=> RunShown  BY <1>6, <1>7 DEF RunShown, Live
<1>9. \A i \in Indexers : Reader(i)'  BY <1>4, <1>7, <1>8 DEF SnapInv, Reader, IndexerAt
<1>10. ASSUME NEW i \in Indexers PROVE Builder(i)'
  <2>1. Builder(i)  BY DEF SnapInv
  <2>2. RowsAt' = RowsAt  BY DEF RowsAt, Writing
  <2> QED  BY <1>4, <1>6, <1>7, <2>1, <2>2 DEF Builder, IndexerAt
<1>11. ASSUME NEW i \in Indexers PROVE Alone(i)'
  <2>1. Builder(i) /\ Alone(i)  BY DEF SnapInv
  <2>2. indexer[i].pc \in Writing => indexer[i].snap \in DOMAIN snapshot  BY <2>1 DEF Builder
  <2> QED  BY <1>4, <1>6, <1>8, <2>1, <2>2 DEF Alone, Writing, Waiting
<1>12. OwnSnapshots'  BY <1>4 DEF SnapInv, OwnSnapshots
<1>13. SnapsTyped'  BY <1>4, <1>5, <1>6, <1>7 DEF SnapInv, SnapsTyped
<1>14. ActiveIsWhole'
  <2>1. {s \in DOMAIN snapshot : snapshot[s].status = "activated"} = {active} \ {0}
    BY DEF SnapInv, ActiveIsWhole
  <2>2. {s \in DOMAIN snapshot' : snapshot'[s].status = "activated"} = {active} \ {0}
    BY <1>6, <2>1
  <2> QED  BY <1>4, <1>6, <2>2, SnapFacts DEF ActiveIsWhole
<1>15. NoBuildLeftBehind'  BY <1>4, <1>7 DEF SnapInv, NoBuildLeftBehind
<1>16. GraphStaysVisible'
  <2>1. RunShown => active # 0  BY DEF RunShown, SnapInv, SnapsTyped
  <2>2. RunShown => active \in DOMAIN snapshot  BY <2>1, SnapFacts
  <2>3. RunShown => snapshot[active].run \/ active \in overtaken \/ ~snapshot[active].alone
    BY DEF RunShown, Live, SnapInv, GraphStaysVisible
  <2>4. RunShown' => snapshot'[active].run \/ active \in overtaken' \/ ~snapshot'[active].alone
    BY <1>4, <1>6, <1>8, <2>2, <2>3
  <2> QED  BY <1>4, <2>4 DEF RunShown, Live, GraphStaysVisible
<1> QED  BY <1>4, <1>9, <1>10, <1>11, <1>12, <1>13, <1>14, <1>15, <1>16 DEF SnapInv

-----------------------------------------------------------------------------
(* WikiIndex: the steps on pages and jobs *)

LEMMA SnapUntouched ==
    SnapInv /\ UNCHANGED <<snapshot, active, indexer, orphans, overtaken>> => SnapInv'
BY DEF SnapInv, SnapsTyped, Reader, Builder, Alone, OwnSnapshots, ActiveIsWhole, NoBuildLeftBehind,
       GraphStaysVisible, Live, RunShown, RowsAt, Building, IndexerAt

LEMMA WikiUntouched == WikiInv /\ UNCHANGED wikiVars => WikiInv'
BY DEF WikiInv, wikiVars, PageMatchesVersion

(* The versions of one page grow by a published one, which is shown.        *)
LEMMA VersionAdded ==
    ASSUME WikiInv, NEW p \in Pages, Len(version[p]) < MaxVersions,
           version' = [version EXCEPT ![p] = Append(@, "published")],
           page' = [page EXCEPT ![p] = [status |-> "published", current |-> Len(version[p]) + 1]],
           edits' = edits
    PROVE  WikiInv'
<1> DEFINE n == Len(version[p]) + 1
<1>1. version[p] \in Seq(PageStatuses)  BY DEF WikiInv
<1>2. /\ Append(version[p], "published") \in Seq(PageStatuses)
      /\ Len(Append(version[p], "published")) = n
      /\ Append(version[p], "published")[n] = "published"
  BY <1>1, AppendProperties DEF PageStatuses
<1>3. DOMAIN Append(version[p], "published") = 1 .. n /\ DOMAIN version[p] = 1 .. Len(version[p])
      /\ Len(version[p]) \in Nat
  BY <1>1, <1>2, LenProperties
<1>4. /\ version' \in [Pages -> Seq(PageStatuses)] /\ version'[p] = Append(version[p], "published")
      /\ \A o \in Pages \ {p} : version'[o] = version[o]
  BY <1>2 DEF WikiInv
<1>5. n \in 1 .. MaxVersions  BY <1>3, IndexLimits
<1>6. [status |-> "published", current |-> n] \in [status : PageStatuses, current : 1 .. MaxVersions]
  BY <1>5 DEF PageStatuses
<1>7. /\ page' \in [Pages -> [status : PageStatuses, current : 1 .. MaxVersions]]
      /\ page'[p].status = "published" /\ page'[p].current = n
      /\ \A o \in Pages \ {p} : page'[o] = page[o]
  BY <1>6 DEF WikiInv
<1>8. ASSUME NEW o \in Pages
      PROVE  /\ page'[o].current \in DOMAIN version'[o] /\ Len(version'[o]) <= MaxVersions
             /\ page'[o].status = version'[o][page'[o].current]
             /\ DOMAIN version[o] \subseteq DOMAIN version'[o]
  <2>1. CASE o = p  BY <1>2, <1>3, <1>4, <1>5, <1>7, <2>1
  <2>2. CASE o # p  BY <1>4, <1>7, <2>2 DEF WikiInv, PageMatchesVersion
  <2> QED  BY <2>1, <2>2
<1>9. \A e \in edits' : e.page \in Pages /\ e.version \in DOMAIN version'[e.page]
  BY <1>8 DEF WikiInv
<1> QED  BY <1>4, <1>7, <1>8, <1>9 DEF WikiInv, PageMatchesVersion

(* A version and its page get their status in one transaction.              *)
LEMMA CurrentSet ==
    ASSUME WikiInv, NEW e \in edits, NEW status \in PageStatuses,
           SetCurrent(e.page, e.version, status), edits' = edits \ {e}
    PROVE  WikiInv'
<1> DEFINE p == e.page
           v == e.version
<1>1. p \in Pages /\ v \in DOMAIN version[p] /\ version[p] \in Seq(PageStatuses)
      /\ Len(version[p]) <= MaxVersions
  BY DEF WikiInv
<1>2. DOMAIN version[p] = 1 .. Len(version[p]) /\ Len(version[p]) \in Nat
  BY <1>1, LenProperties
<1> DEFINE new == [version[p] EXCEPT ![v] = status]
<1>3. new \in Seq(PageStatuses) /\ Len(new) = Len(version[p]) /\ new[v] = status
  BY <1>1, <1>2, ExceptSeq
<1>4. DOMAIN new = DOMAIN version[p]  OBVIOUS
<1>5. version' = [version EXCEPT ![p] = new]  BY DEF SetCurrent
<1> HIDE DEF new
<1>6. /\ version' \in [Pages -> Seq(PageStatuses)] /\ version'[p] = new
      /\ \A o \in Pages \ {p} : version'[o] = version[o]
  BY <1>1, <1>3, <1>5 DEF WikiInv
<1>7. v \in 1 .. MaxVersions  BY <1>1, <1>2, IndexLimits
<1>8. [status |-> status, current |-> v] \in [status : PageStatuses, current : 1 .. MaxVersions]
  BY <1>7
<1>9. /\ page' \in [Pages -> [status : PageStatuses, current : 1 .. MaxVersions]]
      /\ page'[p].status = status /\ page'[p].current = v
      /\ \A o \in Pages \ {p} : page'[o] = page[o]
  BY <1>1, <1>8 DEF WikiInv, SetCurrent
<1>10. ASSUME NEW o \in Pages
       PROVE  /\ page'[o].current \in DOMAIN version'[o] /\ Len(version'[o]) <= MaxVersions
              /\ page'[o].status = version'[o][page'[o].current]
              /\ DOMAIN version[o] = DOMAIN version'[o]
  <2>1. CASE o = p  BY <1>1, <1>3, <1>4, <1>6, <1>9, <2>1
  <2>2. CASE o # p  BY <1>6, <1>9, <2>2 DEF WikiInv, PageMatchesVersion
  <2> QED  BY <2>1, <2>2
<1>11. \A f \in edits' : f.page \in Pages /\ f.version \in DOMAIN version'[f.page]
  BY <1>10 DEF WikiInv
<1> QED  BY <1>6, <1>9, <1>10, <1>11 DEF WikiInv, PageMatchesVersion

LEMMA EditRead ==
    ASSUME WikiInv, NEW op \in {"publish", "unpublish"}, NEW p \in Pages, NEW v, EditReads(op, p, v)
    PROVE  WikiInv'
<1>1. /\ UNCHANGED <<page, version>> /\ v \in DOMAIN version[p]
      /\ edits' = edits \cup {[op |-> op, page |-> p, version |-> v]}
  BY DEF EditReads
<1>2. \A e \in edits' : e.page \in Pages /\ e.version \in DOMAIN version[e.page]
  BY <1>1 DEF WikiInv
<1> QED  BY <1>1, <1>2 DEF WikiInv, PageMatchesVersion

LEMMA JobsUntouched == JobsInv /\ UNCHANGED <<indexJob, indexer>> => JobsInv'
BY DEF JobsInv, IndexerAt

(* The payloads of the five callers.                                        *)
LEMMA PayloadsTyped == {Rebuild, SinglePage, AfterRun, AfterUnpublish} \subseteq Payloads
BY DEF Rebuild, SinglePage, AfterRun, AfterUnpublish, Payloads

LEMMA JobCreated ==
    ASSUME JobsInv, NEW payload \in Payloads, NEW p \in Pages, NEW delivered \in BOOLEAN,
           CreateIndexJob(payload, p, delivered), UNCHANGED indexer
    PROVE  JobsInv'
<1> DEFINE row == [payload |-> payload, page |-> p, status |-> "pending", attempts |-> 0,
                   queued |-> delivered, lock |-> FALSE]
<1>1. row \in JobRow  BY DEF JobRow
<1>2. indexJob' = Append(indexJob, row)  BY DEF CreateIndexJob
<1> HIDE DEF row
<1>3. indexJob' \in Seq(JobRow) /\ Len(indexJob') = Len(indexJob) + 1 /\ Len(indexJob) \in Nat
  BY <1>1, <1>2, AppendProperties, LenProperties DEF JobsInv
<1> QED  BY <1>3 DEF JobsInv, IndexerAt

(* A step changes one row of the table of jobs, or none, and one replica.   *)
LEMMA JobsKept ==
    ASSUME JobsInv, NEW i \in Indexers, indexJob' \in Seq(JobRow), Len(indexJob') = Len(indexJob),
           indexer' \in [Indexers -> IndexerRec],
           \A k \in Indexers \ {i} : indexer'[k] = indexer[k],
           \/ indexer'[i].job = indexer[i].job /\ indexer[i].pc # "idle"
           \/ indexer'[i].job = 0 /\ indexer'[i].pc = "idle"
           \/ indexer'[i].job \in DOMAIN indexJob
    PROVE  JobsInv'
<1>1. DOMAIN indexJob = 1 .. Len(indexJob) /\ Len(indexJob) \in Nat
  BY LenProperties DEF JobsInv
<1>2. ASSUME NEW k \in Indexers
      PROVE  indexer'[k].job \in 0 .. Len(indexJob) /\ (indexer'[k].pc # "idle" => indexer'[k].job # 0)
  <2>1. CASE k = i  BY <1>1, <2>1 DEF JobsInv, IndexerAt
  <2>2. CASE k # i  BY <2>2 DEF JobsInv, IndexerAt
  <2> QED  BY <2>1, <2>2
<1> QED  BY <1>2 DEF JobsInv, IndexerAt

(* A row of the table of jobs is a row whatever is written to it.           *)
LEMMA JobWritten ==
    ASSUME JobsInv, NEW j \in DOMAIN indexJob, NEW x \in JobRow, indexJob' = [indexJob EXCEPT ![j] = x]
    PROVE  indexJob' \in Seq(JobRow) /\ Len(indexJob') = Len(indexJob)
BY LenProperties, ExceptSeq DEF JobsInv

LEMMA JobTyped == ASSUME JobsInv, NEW j \in DOMAIN indexJob PROVE indexJob[j] \in JobRow
BY LenProperties, ElementOfSeq DEF JobsInv

LEMMA MyJobTyped ==
    ASSUME JobsInv, NEW i \in Indexers, ~IndexerAt(i, "idle")
    PROVE  indexer[i].job \in DOMAIN indexJob /\ MyJob(i) \in JobRow
<1>1. indexer[i].job \in DOMAIN indexJob  BY LenProperties DEF JobsInv
<1> QED  BY <1>1, JobTyped DEF MyJob

(* A job is taken.                                                          *)
LEMMA JobTaken ==
    ASSUME JobsInv, SnapInv, NEW i \in Indexers, NEW j, TakeIndexJob(i, j)
    PROVE  JobsInv' /\ SnapInv'
<1> DEFINE r == [NoWork EXCEPT !.pc = "check", !.job = j]
           x == [indexJob[j] EXCEPT !.status = "running", !.queued = FALSE, !.lock = TRUE]
<1>1. /\ j \in DOMAIN indexJob /\ IndexerAt(i, "idle")
      /\ UNCHANGED <<snapshot, active, orphans, overtaken>>
  BY DEF TakeIndexJob
<1>2. indexJob[j] \in JobRow /\ j \in Nat  BY <1>1, JobTyped, LenProperties DEF JobsInv
<1>3. x \in JobRow  BY <1>2 DEF JobRow
<1>4. r \in IndexerRec  BY <1>2, NoWorkTyped DEF IndexerRec, Waiting
<1>5. r.pc = "check" /\ r.job = j /\ r.snap = 0 /\ r.prev = 0 /\ r.committed = FALSE
  BY NoWorkTyped DEF IndexerRec
<1>6. indexJob' = [indexJob EXCEPT ![j] = x] /\ indexer' = [indexer EXCEPT ![i] = r]
  BY DEF TakeIndexJob
<1> HIDE DEF r, x
<1>7. /\ indexer' \in [Indexers -> IndexerRec] /\ indexer'[i] = r
      /\ \A k \in Indexers \ {i} : indexer'[k] = indexer[k]
  BY <1>4, <1>6 DEF SnapInv
<1>8. JobsInv'  BY <1>1, <1>3, <1>5, <1>6, <1>7, JobWritten, JobsKept
<1>9. SnapInv'  BY <1>1, <1>4, <1>5, <1>6, Released DEF Waiting, IndexerAt
<1> QED  BY <1>8, <1>9

(* The end of a job.                                                        *)
LEMMA JobEnds ==
    ASSUME JobsInv, SnapInv, NEW i \in Indexers, indexer[i].pc \in {"complete", "throw"},
           NEW status \in {"pending", "succeeded", "failed"}, NEW attempts \in Nat,
           EndJob(i, status, attempts)
    PROVE  JobsInv' /\ SnapInv'
<1> DEFINE j == indexer[i].job
           x == [indexJob[j] EXCEPT !.status = status, !.attempts = attempts, !.lock = FALSE]
<1>1. j \in DOMAIN indexJob /\ indexJob[j] \in JobRow  BY MyJobTyped DEF IndexerAt, MyJob
<1>2. x \in JobRow  BY <1>1 DEF JobRow
<1>3. indexJob' = [indexJob EXCEPT ![j] = x] \/ indexJob' = indexJob  BY DEF EndJob
<1>4. indexer' = [indexer EXCEPT ![i] = NoWork] /\ UNCHANGED <<snapshot, active, orphans, overtaken>>
  BY DEF EndJob
<1> HIDE DEF x
<1>5. indexJob' \in Seq(JobRow) /\ Len(indexJob') = Len(indexJob)
  BY <1>1, <1>2, <1>3, JobWritten DEF JobsInv
<1>6. /\ indexer' \in [Indexers -> IndexerRec] /\ indexer'[i] = NoWork
      /\ \A k \in Indexers \ {i} : indexer'[k] = indexer[k]
  BY <1>4, NoWorkTyped DEF SnapInv
<1>7. JobsInv'  BY <1>5, <1>6, NoWorkTyped, JobsKept
<1>8. SnapInv'  BY <1>4, NoWorkTyped, Released DEF Waiting
<1> QED  BY <1>7, <1>8

(* The lock of a job runs out.                                              *)
LEMMA LockExpired ==
    ASSUME JobsInv, NEW j \in DOMAIN indexJob, IndexLockExpires(j) PROVE JobsInv'
<1> DEFINE x == [indexJob[j] EXCEPT !.lock = FALSE]
<1>1. indexJob[j] \in JobRow  BY JobTyped
<1>2. x \in JobRow  BY <1>1 DEF JobRow
<1>3. indexJob' = [indexJob EXCEPT ![j] = x] /\ UNCHANGED indexer  BY DEF IndexLockExpires
<1> HIDE DEF x
<1>4. indexJob' \in Seq(JobRow) /\ Len(indexJob') = Len(indexJob)  BY <1>2, <1>3, JobWritten
<1> QED  BY <1>3, <1>4 DEF JobsInv, IndexerAt

(* A replica dies.                                                          *)
LEMMA Crashed ==
    ASSUME JobsInv, SnapInv, NEW i \in Indexers, IndexerCrashes(i) PROVE JobsInv' /\ SnapInv'
<1>1. /\ indexer' = [indexer EXCEPT ![i] = NoWork] /\ UNCHANGED <<snapshot, active, overtaken>>
      /\ orphans' = orphans \cup ({indexer[i].snap} \ {0}) /\ UNCHANGED indexJob
  BY DEF IndexerCrashes
<1>2. /\ indexer' \in [Indexers -> IndexerRec] /\ indexer'[i] = NoWork
      /\ \A k \in Indexers \ {i} : indexer'[k] = indexer[k]
  BY <1>1, NoWorkTyped DEF SnapInv
<1>3. indexJob' \in Seq(JobRow) /\ Len(indexJob') = Len(indexJob)  BY <1>1 DEF JobsInv
<1>4. JobsInv'  BY <1>2, <1>3, NoWorkTyped, JobsKept
<1>5. SnapInv'  BY <1>1, NoWorkTyped, Released DEF Waiting
<1> QED  BY <1>4, <1>5

-----------------------------------------------------------------------------
(* WikiIndex: every step *)

LEMMA IndexInvInit == WikiIndexInit => IndexInv
<1> SUFFICES ASSUME WikiIndexInit PROVE IndexInv  OBVIOUS
<1>1. PICK drafts \in SUBSET Pages :
        /\ version = [p \in Pages |-> <<IF p \in drafts THEN "draft" ELSE "published">>]
        /\ page = [p \in Pages |->
                     [status |-> IF p \in drafts THEN "draft" ELSE "published", current |-> 1]]
  BY DEF WikiIndexInit
<1>2. \A x \in PageStatuses : <<x>> \in Seq(PageStatuses) /\ Len(<<x>>) = 1 /\ DOMAIN <<x>> = {1}
                              /\ <<x>>[1] = x
  OBVIOUS
<1>3. \A p \in Pages : (IF p \in drafts THEN "draft" ELSE "published") \in PageStatuses
  BY DEF PageStatuses
<1>4. 1 \in 1 .. MaxVersions  BY IndexLimits
<1>5. \A p \in Pages :
         /\ page[p].current = 1 /\ page[p].status \in PageStatuses
         /\ version[p] = <<page[p].status>>
  BY <1>1, <1>3
<1>6. version \in [Pages -> Seq(PageStatuses)]  BY <1>1, <1>2, <1>3
<1>7. page \in [Pages -> [status : PageStatuses, current : 1 .. MaxVersions]]
  BY <1>1, <1>3, <1>4
<1>8. WikiInv
  <2>1. ASSUME NEW p \in Pages
        PROVE  /\ page[p].current \in DOMAIN version[p] /\ Len(version[p]) <= MaxVersions
               /\ page[p].status = version[p][page[p].current]
    <3> DEFINE x == page[p].status
    <3>1. x \in PageStatuses /\ version[p] = <<x>> /\ page[p].current = 1  BY <1>5
    <3> HIDE DEF x
    <3>2. Len(version[p]) = 1 /\ DOMAIN version[p] = {1} /\ version[p][1] = x  BY <1>2, <3>1
    <3>3. page[p].status = x  BY DEF x
    <3>4. 1 <= MaxVersions  BY IndexLimits
    <3> QED  BY <3>1, <3>2, <3>3, <3>4
  <2>2. edits = {}  BY DEF WikiIndexInit
  <2> QED  BY <1>6, <1>7, <2>1, <2>2 DEF WikiInv, PageMatchesVersion
<1>9. indexer \in [Indexers -> IndexerRec] /\ \A i \in Indexers : indexer[i] = NoWork
  BY NoWorkTyped DEF WikiIndexInit
<1>10. indexJob \in Seq(JobRow) /\ Len(indexJob) = 0  BY EmptySeq DEF WikiIndexInit
<1>11. JobsInv  BY <1>9, <1>10, NoWorkTyped DEF JobsInv, IndexerAt
<1>12. /\ snapshot \in Seq(SnapRow) /\ Len(snapshot) = 0 /\ DOMAIN snapshot = {}
       /\ active = 0 /\ orphans = {}
  BY EmptySeq DEF WikiIndexInit
<1>13. Live = {} /\ Building = {} /\ ~RunShown  BY <1>12 DEF Live, Building, RunShown
<1>14. \A i \in Indexers : Reader(i) /\ Builder(i) /\ Alone(i)
  BY <1>9, NoWorkTyped DEF Reader, Builder, Alone, IndexerAt, Writing
<1>15. OwnSnapshots  BY <1>9, NoWorkTyped DEF OwnSnapshots
<1>16. SnapsTyped  BY <1>12, <1>13 DEF SnapsTyped
<1>17. ActiveIsWhole /\ NoBuildLeftBehind  BY <1>12, <1>13 DEF ActiveIsWhole, NoBuildLeftBehind
<1>18. GraphStaysVisible  BY <1>12 DEF GraphStaysVisible
<1> QED  BY <1>8, <1>9, <1>11, <1>14, <1>15, <1>16, <1>17, <1>18 DEF IndexInv, SnapInv

(* A replica's own step: pages and versions stay, the rows of jobs change   *)
(* only where a job begins or ends.                                         *)
LEMMA ReplicaKeeps ==
    ASSUME IndexInv, NEW i \in Indexers, IndexerStep(i) \/ StepFails(i) \/ IndexerCrashes(i)
    PROVE  IndexInv' /\ IndexNeverGoesBackStep
<1> USE DEF IndexInv
<1>0. ASSUME active' = active PROVE IndexNeverGoesBackStep
  <2>1. active \in 0 .. Len(snapshot)  BY DEF SnapInv, SnapsTyped
  <2> QED  BY <1>0, <2>1 DEF IndexNeverGoesBackStep
<1>1. ASSUME NEW j, TakeIndexJob(i, j) PROVE IndexInv' /\ IndexNeverGoesBackStep
  <2>1. UNCHANGED wikiVars /\ active' = active  BY <1>1 DEF TakeIndexJob
  <2> QED  BY <1>0, <1>1, <2>1, JobTaken, WikiUntouched
<1>2. ASSUME SnapInv', indexer' \in [Indexers -> IndexerRec], indexer'[i].job = indexer[i].job,
             \A k \in Indexers \ {i} : indexer'[k] = indexer[k], ~IndexerAt(i, "idle"),
             UNCHANGED <<wikiVars, indexJob>>
      PROVE  IndexInv'
  <2>1. indexJob' \in Seq(JobRow) /\ Len(indexJob') = Len(indexJob)  BY <1>2 DEF JobsInv
  <2>2. JobsInv'  BY <1>2, <2>1, JobsKept DEF IndexerAt
  <2> QED  BY <1>2, <2>2, WikiUntouched
<1>3. ASSUME NEW retryable \in BOOLEAN, Throw(i, retryable), indexer[i].pc \notin {"idle", "throw"},
             UNCHANGED <<wikiVars, indexJob, active, orphans, overtaken>>
      PROVE  IndexInv' /\ IndexNeverGoesBackStep
  <2>1. IndexInv'  BY <1>2, <1>3, ThrowKeeps DEF IndexerAt
  <2> QED  BY <1>0, <1>3, <2>1
<1>4. CASE CheckBuilding(i)
  <2>1. IndexerAt(i, "check") /\ UNCHANGED <<wikiVars, indexJob, active, orphans>>
    BY <1>4 DEF CheckBuilding
  <2>2. CASE \E retryable \in BOOLEAN : Throw(i, retryable) /\ UNCHANGED overtaken
    BY <1>3, <2>1, <2>2 DEF IndexerAt
  <2>3. CASE /\ \A s \in Building : snapshot[s].stale
             /\ snapshot' = [s \in DOMAIN snapshot |->
                              IF s \in Building THEN [snapshot[s] EXCEPT !.status = "failed"]
                              ELSE snapshot[s]]
             /\ overtaken' = overtaken \cup (Building \ orphans)
             /\ indexer' = [indexer EXCEPT ![i].pc = "load"]
    <3>1. IndexInv'  BY <1>2, <1>4, <2>1, <2>3, LoadPasses DEF IndexerAt
    <3> QED  BY <1>0, <2>1, <3>1
  <2> QED  BY <1>4, <2>2, <2>3 DEF CheckBuilding
<1>5. CASE LoadInputs(i)
  <2>1. IndexerAt(i, "load") /\ UNCHANGED <<wikiVars, indexJob, active, orphans, overtaken>>
    BY <1>5 DEF LoadInputs
  <2>2. CASE Throw(i, TRUE)  BY <1>3, <2>1, <2>2 DEF IndexerAt
  <2>3. CASE /\ indexer' = [indexer EXCEPT ![i].pc = "create",
                              ![i].read = [p \in Pages |-> PublishedVersion(p)],
                              ![i].prev = active, ![i].run = ShowsRun(i)]
             /\ UNCHANGED snapshot
    <3> DEFINE read == [p \in Pages |-> PublishedVersion(p)]
               shows == ShowsRun(i)
               r == [indexer[i] EXCEPT !.pc = "create", !.read = read, !.prev = active, !.run = shows]
    <3>1. shows \in BOOLEAN /\ (RunShown => shows)  BY DEF ShowsRun, RunShown, Live
    <3>2. indexer' = [indexer EXCEPT ![i] = r]  BY <2>3
    <3>3. read \in [Pages -> 0 .. MaxVersions]  BY PublishedRead
    <3>4. indexer[i] \in IndexerRec /\ active \in Nat  BY SnapFacts
    <3> HIDE DEF read, shows
    <3>5. /\ r \in IndexerRec /\ r.pc = "create" /\ r.job = indexer[i].job
          /\ r.snap = indexer[i].snap /\ r.prev = active /\ r.run = shows
          /\ r.committed = indexer[i].committed
      BY <3>1, <3>3, <3>4 DEF IndexerRec
    <3> HIDE DEF r
    <3>6. /\ SnapInv' /\ indexer' \in [Indexers -> IndexerRec] /\ indexer'[i].job = indexer[i].job
          /\ \A k \in Indexers \ {i} : indexer'[k] = indexer[k]
      BY <2>1, <2>3, <3>1, <3>2, <3>5, InputsLoaded
    <3>7. IndexInv'  BY <1>2, <2>1, <3>6 DEF IndexerAt
    <3> QED  BY <1>0, <2>1, <3>7
  <2> QED  BY <1>5, <2>2, <2>3 DEF LoadInputs
<1>6. CASE CreateSnapshot(i)
  <2>1. IndexerAt(i, "create") /\ UNCHANGED <<wikiVars, indexJob, active, orphans, overtaken>>
    BY <1>6 DEF CreateSnapshot
  <2>2. CASE Throw(i, TRUE)  BY <1>3, <2>1, <2>2 DEF IndexerAt
  <2>3. CASE /\ Building = {}
             /\ snapshot' = Append(snapshot,
                   [status |-> "building", stale |-> FALSE, run |-> indexer[i].run,
                    chunks |-> Plan(i), rows |-> "none", alone |-> WorksAlone(i)])
             /\ indexer' = [indexer EXCEPT ![i].pc = "insert", ![i].snap = Len(snapshot) + 1]
    <3>1. Plan(i) \in [Pages -> 0 .. MaxVersions]  BY PlanTyped
    <3>2. WorksAlone(i) \in BOOLEAN  BY DEF WorksAlone
    <3>3. IndexInv'  BY <1>2, <2>1, <2>3, <3>1, <3>2, SnapshotBegun DEF IndexerAt
    <3> QED  BY <1>0, <2>1, <3>3
  <2> QED  BY <1>6, <2>2, <2>3 DEF CreateSnapshot
<1>7. ASSUME NEW from \in Writing, NEW to \in Writing, NEW rows \in {"pending", "embedded", "indexed"},
             rows = RowsAt[to], RowsBecome(i, from, rows, to)
      PROVE  IndexInv' /\ IndexNeverGoesBackStep
  <2>1. ~IndexerAt(i, "idle") /\ UNCHANGED <<wikiVars, indexJob, active>>
    BY <1>7 DEF RowsBecome, IndexerAt, Writing
  <2>2. IndexInv'  BY <1>2, <1>7, <2>1, RowsKeep
  <2> QED  BY <1>0, <2>1, <2>2
<1>8. RowsAt["embed"] = "pending" /\ RowsAt["mark"] = "embedded" /\ RowsAt["activate"] = "indexed"
  BY DEF RowsAt, Writing
<1>9. CASE InsertChunks(i) \/ EmbedAndInsert(i) \/ MarkIndexed(i)
  <2>1. {"insert", "embed", "mark", "activate"} = Writing  BY DEF Writing
  <2>2. CASE InsertChunks(i)  BY <1>7, <1>8, <2>1, <2>2 DEF InsertChunks
  <2>3. CASE EmbedAndInsert(i)  BY <1>7, <1>8, <2>1, <2>3 DEF EmbedAndInsert
  <2>4. CASE MarkIndexed(i)  BY <1>7, <1>8, <2>1, <2>4 DEF MarkIndexed
  <2> QED  BY <1>9, <2>2, <2>3, <2>4
<1>10. CASE ActivateSnapshot(i)
  <2>1. ~IndexerAt(i, "idle") /\ UNCHANGED <<wikiVars, indexJob, overtaken>>
    BY <1>10 DEF ActivateSnapshot, IndexerAt
  <2>2. IndexInv'  BY <1>2, <1>10, <2>1, ActivateKeeps
  <2>3. IndexNeverGoesBackStep  BY <1>10, <2>1, ActivateKeeps DEF IndexNeverGoesBackStep
  <2> QED  BY <2>2, <2>3
<1>11. CASE CompleteIndexJob(i) \/ HandleFailure(i)
  <2>1. indexer[i].pc \in {"complete", "throw"}
    BY <1>11 DEF CompleteIndexJob, HandleFailure, IndexerAt
  <2>2. MyJob(i).attempts \in Nat  BY <2>1, MyJobTyped DEF IndexerAt, JobRow
  <2>3. \E status \in {"pending", "succeeded", "failed"}, attempts \in Nat :
            EndJob(i, status, attempts)
    <3>1. CASE CompleteIndexJob(i)  BY <2>2, <3>1 DEF CompleteIndexJob
    <3>2. CASE HandleFailure(i)
      <4>1. MyJob(i).attempts + 1 \in Nat  BY <2>2
      <4>2. EndJob(i, "pending", MyJob(i).attempts + 1) \/ EndJob(i, "failed", MyJob(i).attempts + 1)
        BY <3>2 DEF HandleFailure
      <4> QED  BY <4>1, <4>2
    <3> QED  BY <1>11, <3>1, <3>2
  <2>4. UNCHANGED <<wikiVars, active>>  BY <2>3 DEF EndJob
  <2>5. IndexInv'  BY <2>1, <2>3, <2>4, JobEnds, WikiUntouched
  <2> QED  BY <1>0, <2>4, <2>5
<1>12. CASE StepFails(i)  BY <1>3, <1>12 DEF StepFails
<1>13. CASE IndexerCrashes(i)
  <2>1. UNCHANGED <<wikiVars, active>>  BY <1>13 DEF IndexerCrashes
  <2>2. IndexInv'  BY <1>13, <2>1, Crashed, WikiUntouched
  <2> QED  BY <1>0, <2>1, <2>2
<1> QED  BY <1>1, <1>4, <1>5, <1>6, <1>9, <1>10, <1>11, <1>12, <1>13 DEF IndexerStep

(* A step of the callers or of time leaves the snapshots alone.             *)
LEMMA CallersKeep ==
    ASSUME IndexInv,
           \/ \E p \in Pages : ReindexPage(p) \/ FeedbackReindex(p) \/ Rollback(p) \/ GraphifyCompletes(p)
           \/ \E op \in {"publish", "unpublish"}, p \in Pages, v \in 1 .. MaxVersions :
                EditReads(op, p, v)
           \/ \E e \in edits : PublishWrites(e) \/ UnpublishWrites(e)
           \/ RebuildIndex \/ GovernanceReindex
           \/ \E j \in DOMAIN indexJob : IndexLockExpires(j)
    PROVE  IndexInv' /\ active' = active
<1> USE DEF IndexInv
<1>0. (CHOOSE p \in Pages : TRUE) \in Pages  BY IndexLimits
<1>1. ASSUME UNCHANGED <<snapshot, active, indexer, orphans, overtaken>>, WikiInv', JobsInv'
      PROVE  IndexInv' /\ active' = active
  BY <1>1, SnapUntouched
<1>2. ASSUME NEW p \in Pages, ReindexPage(p) \/ FeedbackReindex(p) PROVE IndexInv' /\ active' = active
  <2>1. /\ CreateIndexJob(SinglePage, p, TRUE)
        /\ UNCHANGED <<wikiVars, snapshot, active, indexer, orphans, overtaken>>
    BY <1>2 DEF ReindexPage, FeedbackReindex
  <2>2. JobsInv'  BY <2>1, PayloadsTyped, JobCreated
  <2>3. WikiInv'  BY <2>1, WikiUntouched
  <2> QED  BY <1>1, <2>1, <2>2, <2>3
<1>3. ASSUME RebuildIndex \/ GovernanceReindex PROVE IndexInv' /\ active' = active
  <2>1. /\ CreateIndexJob(Rebuild, CHOOSE p \in Pages : TRUE, TRUE)
        /\ UNCHANGED <<wikiVars, snapshot, active, indexer, orphans, overtaken>>
    BY <1>3 DEF RebuildIndex, GovernanceReindex
  <2>2. JobsInv'  BY <1>0, <2>1, PayloadsTyped, JobCreated
  <2>3. WikiInv'  BY <2>1, WikiUntouched
  <2> QED  BY <1>1, <2>1, <2>2, <2>3
<1>4. ASSUME NEW p \in Pages, Rollback(p) PROVE IndexInv' /\ active' = active
  <2>1. WikiInv'  BY <1>4, VersionAdded DEF Rollback
  <2>2. UNCHANGED <<indexJob, snapshot, active, indexer, orphans, overtaken>>  BY <1>4 DEF Rollback
  <2> QED  BY <1>1, <2>1, <2>2, JobsUntouched
<1>5. ASSUME NEW p \in Pages, GraphifyCompletes(p) PROVE IndexInv' /\ active' = active
  <2>1. WikiInv'  BY <1>5, VersionAdded DEF GraphifyCompletes
  <2>2. CreateIndexJob(AfterRun, p, TRUE) /\ UNCHANGED <<snapshot, active, indexer, orphans, overtaken>>
    BY <1>5 DEF GraphifyCompletes
  <2>3. JobsInv'  BY <2>2, PayloadsTyped, JobCreated
  <2> QED  BY <1>1, <2>1, <2>2, <2>3
<1>6. ASSUME NEW op \in {"publish", "unpublish"}, NEW p \in Pages, NEW v, EditReads(op, p, v)
      PROVE  IndexInv' /\ active' = active
  <2>1. UNCHANGED <<indexJob, snapshot, active, indexer, orphans, overtaken>>  BY <1>6 DEF EditReads
  <2> QED  BY <1>1, <1>6, <2>1, EditRead, JobsUntouched
<1>7. ASSUME NEW e \in edits, PublishWrites(e) PROVE IndexInv' /\ active' = active
  <2>1. WikiInv'  BY <1>7, CurrentSet DEF PublishWrites, PageStatuses
  <2>2. UNCHANGED <<indexJob, snapshot, active, indexer, orphans, overtaken>>
    BY <1>7 DEF PublishWrites
  <2> QED  BY <1>1, <2>1, <2>2, JobsUntouched
<1>8. ASSUME NEW e \in edits, UnpublishWrites(e) PROVE IndexInv' /\ active' = active
  <2>1. WikiInv'  BY <1>8, CurrentSet DEF UnpublishWrites, PageStatuses
  <2>2. /\ CreateIndexJob(AfterUnpublish, e.page, TRUE) \/ UNCHANGED indexJob
        /\ UNCHANGED <<snapshot, active, indexer, orphans, overtaken>>
    BY <1>8 DEF UnpublishWrites
  <2>3. e.page \in Pages  BY DEF WikiInv
  <2>4. JobsInv'  BY <2>2, <2>3, PayloadsTyped, JobCreated, JobsUntouched
  <2> QED  BY <1>1, <2>1, <2>2, <2>4
<1>9. ASSUME NEW j \in DOMAIN indexJob, IndexLockExpires(j) PROVE IndexInv' /\ active' = active
  <2>1. UNCHANGED <<wikiVars, snapshot, active, indexer, orphans, overtaken>>
    BY <1>9 DEF IndexLockExpires
  <2> QED  BY <1>1, <1>9, <2>1, LockExpired, WikiUntouched
<1> QED  BY <1>2, <1>3, <1>4, <1>5, <1>6, <1>7, <1>8, <1>9

LEMMA IndexInvStep == IndexInv /\ [WikiIndexNext]_indexVars => IndexInv' /\ IndexNeverGoesBackStep
<1> SUFFICES ASSUME IndexInv, [WikiIndexNext]_indexVars PROVE IndexInv' /\ IndexNeverGoesBackStep
  OBVIOUS
<1>1. ASSUME active' = active PROVE IndexNeverGoesBackStep
  <2>1. active \in 0 .. Len(snapshot)  BY DEF IndexInv, SnapInv, SnapsTyped
  <2> QED  BY <1>1, <2>1 DEF IndexNeverGoesBackStep
<1>2. CASE \E i \in Indexers : IndexerStep(i) \/ StepFails(i) \/ IndexerCrashes(i)
  BY <1>2, ReplicaKeeps
<1>3. CASE \E s \in DOMAIN snapshot : BuildGrowsStale(s)
  <2>1. SnapInv'  BY <1>3, StaleKeeps DEF IndexInv
  <2>2. UNCHANGED <<wikiVars, indexJob, indexer, active>>  BY <1>3 DEF BuildGrowsStale
  <2> QED  BY <1>1, <2>1, <2>2, WikiUntouched, JobsUntouched DEF IndexInv
<1>4. CASE UNCHANGED indexVars
  <2>1. UNCHANGED <<snapshot, active, indexer, orphans, overtaken>> /\ UNCHANGED wikiVars
        /\ UNCHANGED indexJob
    BY <1>4 DEF indexVars, wikiVars
  <2> QED  BY <1>1, <2>1, SnapUntouched, WikiUntouched, JobsUntouched DEF IndexInv
<1>5. CASE \/ \E p \in Pages : ReindexPage(p) \/ FeedbackReindex(p) \/ Rollback(p) \/ GraphifyCompletes(p)
           \/ \E op \in {"publish", "unpublish"}, p \in Pages, v \in 1 .. MaxVersions :
                EditReads(op, p, v)
           \/ \E e \in edits : PublishWrites(e) \/ UnpublishWrites(e)
           \/ RebuildIndex \/ GovernanceReindex
           \/ \E j \in DOMAIN indexJob : IndexLockExpires(j)
  BY <1>1, <1>5, CallersKeep
<1> QED  BY <1>2, <1>3, <1>4, <1>5 DEF WikiIndexNext

(* Pages, jobs, snapshots and replicas of the indexer fit together whatever *)
(* fails and however builds overlap (WikiService, IndexerWorker.process).   *)
THEOREM IndexInvariant == WikiIndexSpec => []IndexInv
<1>1. WikiIndexInit => IndexInv  BY IndexInvInit
<1>2. IndexInv /\ [WikiIndexNext]_indexVars => IndexInv'  BY IndexInvStep
<1> QED  BY <1>1, <1>2, PTL DEF WikiIndexSpec

(* A page and its version agree, the space points at the one activated      *)
(* snapshot and all its chunks are indexed, no failing step leaves a build  *)
(* behind, the graph of the last run stays in view, and the pointer moves   *)
(* forward unless a build outlived the two hours (SnapshotManager).         *)
THEOREM IndexWhole == WikiIndexSpec => IndexIsWhole
<1>1. IndexInv => IndexSafe
  <2> SUFFICES ASSUME IndexInv PROVE IndexSafe  OBVIOUS
  <2>1. \A j \in DOMAIN indexJob : indexJob[j] \in JobRow  BY JobTyped DEF IndexInv
  <2>2. \A i \in Indexers : indexer[i].snap \in 0 .. Len(snapshot)
    BY SnapFacts DEF IndexInv, SnapInv, Builder
  <2>3. \A s \in DOMAIN snapshot : snapshot[s] \in SnapRow  BY SnapFacts DEF IndexInv
  <2>4. WikiIndexTypeOK
    BY <2>1, <2>2, <2>3
    DEF IndexInv, WikiInv, JobsInv, SnapInv, SnapsTyped, WikiIndexTypeOK, PageStatuses, JobRow, SnapRow
  <2> QED  BY <2>4 DEF IndexInv, WikiInv, SnapInv, IndexSafe
<1>2. IndexInv /\ [WikiIndexNext]_indexVars => IndexNeverGoesBackStep  BY IndexInvStep
<1>3. WikiIndexSpec => [][IndexNeverGoesBackStep]_indexVars
  BY <1>2, IndexInvariant, PTL DEF WikiIndexSpec
<1> QED  BY <1>1, <1>3, IndexInvariant, PTL DEF IndexIsWhole

-----------------------------------------------------------------------------
(* UploadIntake *)

UploadPcs == {"new", "store", "create", "drop", "source", "undo", "mark", "validate", "copy", "delete",
              "uri", "archive", "ingest", "existing", "insert", "reset", "requeue", "vjob",
              "created", "duplicate", "rejected", "error"}
LinkPcs == {"fetched", "find", "write", "advance", "ingest", "linked", "duplicate", "error"}
Keys == UploadIds \union {"none", "archive"}
IntakeStatuses == {"none", "uploaded", "validating", "security_rejected", "archived"}

Request == [pc : UploadPcs, space : UpSpaces \union {"none"}, small : BOOLEAN, seen : Keys]
Link == [pc : LinkPcs, status : {"uploaded", "archived"}]

IntakeTypeOK ==
    /\ blob \in Keys
    /\ objects \subseteq UploadIds \union {"archive"}
    /\ docs \in [UpSpaces -> [status : IntakeStatuses, key : Keys]]
    /\ validations \subseteq [space : UpSpaces, key : UploadIds]
    /\ ingestions \subseteq UpSpaces
    /\ upload \in [UploadIds -> Request]
    /\ \A u \in UploadIds : ~ At(u, "new") => Space(u) \in UpSpaces
    /\ link \in [UrlSpaces -> Link]

(* The blob row has named the object k, and still does or its archive copy. *)
HasBeen(k) == k # "none" /\ blob \in {k, "archive"}

OwnRow == {"source", "undo", "mark", "validate", "copy", "delete", "uri", "archive"}
KnowsRow == OwnRow \union {"ingest", "existing", "insert", "reset", "requeue", "vjob"}

(* A request in flight works with what the blob row was and, in the end,    *)
(* with the archive; what it stored in quarantine is named by the row, or   *)
(* it is about to be deleted, or nobody was answered.                       *)
UploadFits(u) ==
    /\ upload[u].pc \in KnowsRow => HasBeen(upload[u].seen)
    /\ upload[u].pc \in OwnRow => upload[u].seen = u
    /\ At(u, "drop") => blob # "none"
    /\ At(u, "vjob") => upload[u].seen # "archive"
    /\ upload[u].pc \in {"delete", "uri", "archive"} => "archive" \in objects
    /\ At(u, "uri") => u \notin objects
    /\ u \in objects => upload[u].pc \in {"create", "drop", "error"} \/ blob = u

(* The archive holds what the blob row, a validation job or a document says.*)
StoreFits ==
    /\ blob = "archive" => "archive" \in objects
    /\ \A j \in validations : HasBeen(j.key)
    /\ \A s \in UrlSpaces : link[s].pc # "fetched" => "archive" \in objects

AnswersFor(u, s) ==
    /\ Space(u) = s
    /\ \/ upload[u].pc \in {"ingest", "error"}
       \/ At(u, "requeue") /\ upload[u].seen = "archive"

SpaceFits(s) ==
    docs[s].status = "archived" =>
        /\ "archive" \in objects
        /\ \/ s \in ingestions
           \/ \E u \in UploadIds : AnswersFor(u, s)
           \/ s \in UrlSpaces /\ link[s].pc \in {"ingest", "error"}

IntakeInv ==
    /\ IntakeTypeOK
    /\ \A u \in UploadIds : UploadFits(u)
    /\ StoreFits
    /\ \A s \in UpSpaces : SpaceFits(s)

-----------------------------------------------------------------------------
(* How a step changes the intake *)

(* What no step takes back: the blob row leaves "none" once and then goes   *)
(* to the archive, the archive and the jobs stay.                           *)
IntakeGrows ==
    /\ blob' = blob \/ blob = "none" \/ blob' = "archive"
    /\ "archive" \in objects => "archive" \in objects'
    /\ ingestions \subseteq ingestions'

LEMMA NamesApart == \A u \in UploadIds : u # "none" /\ u # "archive"
BY IntakeNames

LEMMA HasBeenStays ==
    ASSUME IntakeGrows, NEW k, HasBeen(k)
    PROVE  HasBeen(k)'
BY DEF IntakeGrows, HasBeen

(* A request goes on to pc: nothing else of it changes, nor of the others.  *)
LEMMA GotoFacts ==
    ASSUME IntakeTypeOK, NEW u \in UploadIds, NEW pc \in UploadPcs, Goto(u, pc)
    PROVE  /\ upload' \in [UploadIds -> Request]
           /\ upload'[u].pc = pc
           /\ upload'[u].seen = upload[u].seen
           /\ upload'[u].space = upload[u].space
           /\ \A v \in UploadIds \ {u} : upload'[v] = upload[v]
BY DEF IntakeTypeOK, Goto, Request

LEMMA RequestFacts ==
    ASSUME IntakeTypeOK, NEW u \in UploadIds
    PROVE  /\ upload[u] \in Request
           /\ upload[u].pc \in UploadPcs
           /\ upload[u].seen \in Keys
           /\ ~ At(u, "new") => Space(u) \in UpSpaces
BY DEF IntakeTypeOK, Request

(* The same for the steps that read the blob row: what the request saw of   *)
(* it changes too.                                                          *)
GotoSeeing(u, pc, seen) == upload' = [upload EXCEPT ![u].pc = pc, ![u].seen = seen]

LEMMA SeeingFacts ==
    ASSUME IntakeTypeOK, NEW u \in UploadIds, NEW pc \in UploadPcs, NEW seen \in Keys,
           GotoSeeing(u, pc, seen)
    PROVE  /\ upload' \in [UploadIds -> Request]
           /\ upload'[u].pc = pc
           /\ upload'[u].seen = seen
           /\ upload'[u].space = upload[u].space
           /\ \A v \in UploadIds \ {u} : upload'[v] = upload[v]
<1> DEFINE x == [upload EXCEPT ![u].pc = pc]
<1>1. /\ x \in [UploadIds -> Request]
      /\ x[u].pc = pc /\ x[u].space = upload[u].space
      /\ \A v \in UploadIds \ {u} : x[v] = upload[v]
  BY DEF IntakeTypeOK, Request
<1>2. upload' = [x EXCEPT ![u].seen = seen]
  BY DEF GotoSeeing
<1> HIDE DEF x
<1> QED  BY <1>1, <1>2 DEF Request

Starts(u, s, small, seen, pc) ==
    upload' = [upload EXCEPT ![u] =
                  [@ EXCEPT !.space = s, !.small = small, !.seen = seen, !.pc = pc]]

LEMMA StartFacts ==
    ASSUME IntakeTypeOK, NEW u \in UploadIds, NEW s \in UpSpaces, NEW small \in BOOLEAN,
           NEW seen \in Keys, NEW pc \in UploadPcs, Starts(u, s, small, seen, pc)
    PROVE  /\ upload' \in [UploadIds -> Request]
           /\ upload'[u].pc = pc
           /\ upload'[u].seen = seen
           /\ upload'[u].space = s
           /\ \A v \in UploadIds \ {u} : upload'[v] = upload[v]
<1> DEFINE a == [upload[u] EXCEPT !.space = s]
           b == [a EXCEPT !.small = small]
           c == [b EXCEPT !.seen = seen]
           d == [c EXCEPT !.pc = pc]
<1>1. upload' = [upload EXCEPT ![u] = d]
  BY DEF Starts
<1>2. upload[u] \in Request
  BY DEF IntakeTypeOK
<1>3. a \in Request /\ a.space = s
  BY <1>2 DEF Request
<1> HIDE DEF a
<1>4. b \in Request /\ b.space = s
  BY <1>3 DEF Request
<1> HIDE DEF b
<1>5. c \in Request /\ c.space = s /\ c.seen = seen
  BY <1>4 DEF Request
<1> HIDE DEF c
<1>6. d \in Request /\ d.space = s /\ d.seen = seen /\ d.pc = pc
  BY <1>5 DEF Request
<1> HIDE DEF d
<1> QED  BY <1>1, <1>6 DEF IntakeTypeOK

(* A request that a step leaves alone still fits, when what it may have in  *)
(* quarantine was there before and is named by the row as it was.           *)
LEMMA UploadStays ==
    ASSUME IntakeGrows, NEW v \in UploadIds, UploadFits(v), upload'[v] = upload[v],
           v \in objects' => v \in objects /\ (blob = v => blob' = v)
    PROVE  UploadFits(v)'
<1>1. HasBeen(upload[v].seen) => blob' \in {upload[v].seen, "archive"}
  BY DEF HasBeen, IntakeGrows
<1>2. blob # "none" => blob' # "none"
  BY DEF IntakeGrows
<1> QED  BY <1>1, <1>2 DEF UploadFits, At, IntakeGrows, HasBeen

LEMMA SpaceStays ==
    ASSUME IntakeGrows, NEW s \in UpSpaces, SpaceFits(s),
           docs'[s].status = "archived" => docs[s].status = "archived",
           \A u \in UploadIds : AnswersFor(u, s) => AnswersFor(u, s)' \/ s \in ingestions',
           s \in UrlSpaces /\ link[s].pc \in {"ingest", "error"}
               => link'[s].pc \in {"ingest", "error"} \/ s \in ingestions'
    PROVE  SpaceFits(s)'
BY DEF IntakeGrows, SpaceFits

LEMMA StoreStays ==
    ASSUME IntakeGrows, StoreFits, blob' = blob, validations' \subseteq validations, link' = link
    PROVE  StoreFits'
<1>1. \A j \in validations' : HasBeen(j.key)'
  BY HasBeenStays DEF StoreFits, HasBeen
<1> QED  BY <1>1 DEF StoreFits, IntakeGrows

(* A step of one request: it is enough to look at that request, at what it  *)
(* did to the objects of the others and at the document of its space.       *)
LEMMA RequestStep ==
    ASSUME IntakeInv, IntakeTypeOK', IntakeGrows, NEW u \in UploadIds,
           \A v \in UploadIds \ {u} : upload'[v] = upload[v],
           UploadFits(u)', StoreFits', link' = link,
           \A v \in UploadIds \ {u} : v \in objects' => v \in objects /\ (blob = v => blob' = v),
           \A s \in UpSpaces : \/ docs'[s].status = "archived" => docs[s].status = "archived"
                               \/ AnswersFor(u, s)' /\ "archive" \in objects',
           \A s \in UpSpaces : AnswersFor(u, s) => AnswersFor(u, s)' \/ s \in ingestions'
    PROVE  IntakeInv'
<1>1. \A v \in UploadIds : UploadFits(v)'
  <2> SUFFICES ASSUME NEW v \in UploadIds, v # u PROVE UploadFits(v)'
    OBVIOUS
  <2> QED  BY UploadStays DEF IntakeInv
<1>2. \A s \in UpSpaces : SpaceFits(s)'
  <2> SUFFICES ASSUME NEW s \in UpSpaces PROVE SpaceFits(s)'
    OBVIOUS
  <2>1. CASE AnswersFor(u, s)' /\ "archive" \in objects'
    BY <2>1 DEF SpaceFits
  <2>2. CASE docs'[s].status = "archived" => docs[s].status = "archived"
    <3>1. \A v \in UploadIds \ {u} : AnswersFor(v, s) => AnswersFor(v, s)'
      BY DEF AnswersFor, Space, At
    <3>2. SpaceFits(s)
      BY DEF IntakeInv
    <3> QED  BY <2>2, <3>1, <3>2, SpaceStays
  <2> QED  BY <2>1, <2>2
<1> QED  BY <1>1, <1>2 DEF IntakeInv

(* A step that only takes a request on to pc. *)
LEMMA JustGoes ==
    ASSUME IntakeInv, NEW u \in UploadIds, NEW pc \in UploadPcs, Goto(u, pc), ~ At(u, "new"),
           UNCHANGED <<blob, objects, docs, validations, ingestions, link>>,
           UploadFits(u)', \A s \in UpSpaces : AnswersFor(u, s) => AnswersFor(u, s)'
    PROVE  IntakeInv'
<1> USE DEF IntakeInv
<1>1. IntakeTypeOK'
  BY GotoFacts, RequestFacts DEF IntakeTypeOK, At, Space
<1>2. IntakeGrows
  BY DEF IntakeGrows
<1>3. StoreFits'
  BY <1>2, StoreStays
<1> QED  BY <1>1, <1>2, <1>3, GotoFacts, RequestStep

-----------------------------------------------------------------------------
(* uploadFile keeps the invariant *)

LEMMA UploadFileKeeps ==
    ASSUME IntakeInv, NEW u \in UploadIds, NEW s \in UpSpaces, NEW small \in BOOLEAN,
           UploadFile(u, s, small)
    PROVE  IntakeInv'
<1> USE DEF IntakeInv
<1>a. PICK pc \in {"store", "existing"} :
          (pc = IF blob = "none" THEN "store" ELSE "existing") /\ Starts(u, s, small, blob, pc)
  BY DEF UploadFile, Starts
<1>b. pc \in UploadPcs /\ blob \in Keys
  BY DEF UploadPcs, IntakeTypeOK
<1>c. /\ upload' \in [UploadIds -> Request]
      /\ upload'[u].pc = pc
      /\ upload'[u].seen = blob
      /\ upload'[u].space = s
      /\ \A v \in UploadIds \ {u} : upload'[v] = upload[v]
  BY <1>a, <1>b, StartFacts
<1>1. IntakeTypeOK'
  BY <1>c DEF UploadFile, IntakeTypeOK, At, Space
<1>2. IntakeGrows
  BY DEF IntakeGrows, UploadFile
<1>3. StoreFits'
  BY <1>2, StoreStays DEF UploadFile
<1>4. UploadFits(u)'
  BY <1>a, <1>c, NamesApart DEF UploadFits, UploadFile, At, HasBeen, OwnRow, KnowsRow
<1>5. \A t \in UpSpaces : ~ AnswersFor(u, t)
  BY DEF AnswersFor, UploadFile, At
<1> QED  BY <1>1, <1>c, <1>2, <1>3, <1>4, <1>5, RequestStep DEF UploadFile

LEMMA UploadToQuarantineKeeps ==
    ASSUME IntakeInv, NEW u \in UploadIds, UploadToQuarantine(u)
    PROVE  IntakeInv'
<1> USE DEF IntakeInv
<1>1. "create" \in UploadPcs /\ Goto(u, "create")
  BY DEF UploadPcs, UploadToQuarantine
<1>2. IntakeTypeOK'
  BY <1>1, GotoFacts, RequestFacts DEF UploadToQuarantine, IntakeTypeOK, At, Space
<1>3. IntakeGrows
  BY DEF IntakeGrows, UploadToQuarantine
<1>4. StoreFits'
  BY <1>3, StoreStays DEF UploadToQuarantine
<1>5. UploadFits(u)'
  BY <1>1, GotoFacts DEF UploadFits, At, OwnRow, KnowsRow
<1>6. \A t \in UpSpaces : ~ AnswersFor(u, t)
  BY DEF AnswersFor, UploadToQuarantine, At
<1> QED  BY <1>1, <1>2, <1>3, <1>4, <1>5, <1>6, GotoFacts, RequestStep DEF UploadToQuarantine

LEMMA CreateBlobKeeps ==
    ASSUME IntakeInv, NEW u \in UploadIds, CreateBlob(u)
    PROVE  IntakeInv'
<1> USE DEF IntakeInv
<1>a. PICK pc \in {"source", "drop"} :
          (pc = IF blob = "none" THEN "source" ELSE "drop") /\ GotoSeeing(u, pc, u)
  BY DEF CreateBlob, GotoSeeing
<1>b. pc \in UploadPcs /\ u \in Keys
  BY DEF UploadPcs, Keys
<1>c. /\ upload' \in [UploadIds -> Request]
      /\ upload'[u].pc = pc
      /\ upload'[u].seen = u
      /\ upload'[u].space = upload[u].space
      /\ \A v \in UploadIds \ {u} : upload'[v] = upload[v]
  BY <1>a, <1>b, SeeingFacts
<1>1. IntakeTypeOK'
  BY <1>c, <1>b DEF CreateBlob, IntakeTypeOK, At, Space
<1>2. IntakeGrows
  BY DEF IntakeGrows, CreateBlob
<1>3. StoreFits'
  <2>1. blob' = "archive" => blob = "archive"
    BY NamesApart DEF CreateBlob
  <2>2. \A j \in validations : HasBeen(j.key)'
    BY <1>2, HasBeenStays DEF StoreFits
  <2> QED  BY <2>1, <2>2 DEF StoreFits, CreateBlob
<1>4. UploadFits(u)'
  <2>1. CASE blob = "none"
    BY <1>a, <1>c, <2>1, NamesApart DEF UploadFits, CreateBlob, At, HasBeen
  <2>2. CASE blob # "none"
    BY <1>a, <1>c, <2>2 DEF UploadFits, CreateBlob, At, OwnRow, KnowsRow
  <2> QED  BY <2>1, <2>2
<1>5. \A t \in UpSpaces : ~ AnswersFor(u, t)
  BY DEF AnswersFor, CreateBlob, At
<1>6. \A v \in UploadIds : blob = v => blob' = v
  BY NamesApart DEF CreateBlob
<1> QED  BY <1>1, <1>c, <1>2, <1>3, <1>4, <1>5, <1>6, RequestStep DEF CreateBlob

LEMMA DropQuarantineKeeps ==
    ASSUME IntakeInv, NEW u \in UploadIds, DropQuarantine(u)
    PROVE  IntakeInv'
<1> USE DEF IntakeInv
<1>1. /\ IntakeTypeOK'
      /\ upload'[u].pc = "existing"
      /\ upload'[u].seen = blob
      /\ \A v \in UploadIds \ {u} : upload'[v] = upload[v]
  BY DEF DropQuarantine, IntakeTypeOK, Request, UploadPcs, At, Space
<1>2. IntakeGrows
  BY NamesApart DEF IntakeGrows, DropQuarantine
<1>3. StoreFits'
  BY <1>2, StoreStays DEF DropQuarantine
<1>4. UploadFits(u)'
  BY <1>1 DEF UploadFits, DropQuarantine, At, HasBeen, OwnRow, KnowsRow
<1>5. \A t \in UpSpaces : ~ AnswersFor(u, t)
  BY DEF AnswersFor, DropQuarantine, At
<1> QED  BY <1>1, <1>2, <1>3, <1>4, <1>5, RequestStep DEF DropQuarantine

(* The document of the space is inserted, by the winner. *)
LEMMA CreateSourceKeeps ==
    ASSUME IntakeInv, NEW u \in UploadIds, CreateSource(u)
    PROVE  IntakeInv'
<1> USE DEF IntakeInv
<1>1. ~ At(u, "new") /\ {"mark", "undo"} \subseteq UploadPcs
  BY DEF CreateSource, At, UploadPcs
<1>2. UploadFits(u) /\ Space(u) \in UpSpaces /\ \A t \in UpSpaces : ~ AnswersFor(u, t)
  BY <1>1, RequestFacts DEF CreateSource, At, AnswersFor
<1>3. CASE Goto(u, "undo") /\ UNCHANGED docs
  <2>1. UploadFits(u)'
    BY <1>1, <1>2, <1>3, GotoFacts DEF UploadFits, CreateSource, At, OwnRow, KnowsRow, HasBeen
  <2> QED  BY <1>1, <1>2, <1>3, <2>1, JustGoes DEF CreateSource
<1>4. CASE /\ docs' = [docs EXCEPT ![Space(u)] = [status |-> "uploaded", key |-> u]]
           /\ Goto(u, "mark")
  <2>1. IntakeTypeOK'
    BY <1>1, <1>2, <1>4, GotoFacts, RequestFacts
       DEF CreateSource, IntakeTypeOK, At, Space, Keys, IntakeStatuses
  <2>2. IntakeGrows
    BY DEF IntakeGrows, CreateSource
  <2>3. StoreFits'
    BY <2>2, StoreStays DEF CreateSource
  <2>4. UploadFits(u)'
    BY <1>1, <1>2, <1>4, GotoFacts DEF UploadFits, CreateSource, At, OwnRow, KnowsRow, HasBeen
  <2>5. \A t \in UpSpaces : docs'[t].status = "archived" => docs[t].status = "archived"
    BY <1>2, <1>4 DEF IntakeTypeOK
  <2> QED
    BY <1>1, <1>2, <1>4, <2>1, <2>2, <2>3, <2>4, <2>5, GotoFacts, RequestStep DEF CreateSource
<1> QED  BY <1>3, <1>4 DEF CreateSource

LEMMA UndoQuarantineKeeps ==
    ASSUME IntakeInv, NEW u \in UploadIds, UndoQuarantine(u)
    PROVE  IntakeInv'
<1> USE DEF IntakeInv
<1>1. "duplicate" \in UploadPcs /\ Goto(u, "duplicate") /\ ~ At(u, "new")
  BY DEF UploadPcs, UndoQuarantine, At
<1>2. IntakeTypeOK'
  BY <1>1, GotoFacts, RequestFacts DEF UndoQuarantine, IntakeTypeOK, At, Space
<1>3. IntakeGrows
  BY NamesApart DEF IntakeGrows, UndoQuarantine
<1>4. StoreFits'
  BY <1>3, StoreStays DEF UndoQuarantine
<1>5. UploadFits(u)'
  BY <1>1, GotoFacts DEF UploadFits, At, OwnRow, KnowsRow, UndoQuarantine
<1>6. \A t \in UpSpaces : ~ AnswersFor(u, t)
  BY DEF AnswersFor, UndoQuarantine, At
<1> QED  BY <1>1, <1>2, <1>3, <1>4, <1>5, <1>6, GotoFacts, RequestStep DEF UndoQuarantine

(* updateStatus moves the document of the request's space, or fails.        *)
LEMMA MovedFacts ==
    ASSUME IntakeTypeOK, NEW u \in UploadIds, Space(u) \in UpSpaces,
           NEW status \in IntakeStatuses, NEW pc \in UploadPcs, Moved(u, status, pc)
    PROVE  /\ Goto(u, pc) \/ Goto(u, "error")
           /\ docs' \in [UpSpaces -> [status : IntakeStatuses, key : Keys]]
           /\ \A t \in UpSpaces : \/ docs'[t].status = docs[t].status
                                  \/ t = Space(u) /\ docs'[t].status = status
<1>1. Goto(u, pc) \/ Goto(u, "error")
  BY DEF Moved
<1>2. docs' = docs \/ docs' = [docs EXCEPT ![Space(u)].status = status]
  BY DEF Moved
<1> QED  BY <1>1, <1>2 DEF IntakeTypeOK

LEMMA ErrorFits ==
    ASSUME IntakeTypeOK, NEW u \in UploadIds, Goto(u, "error")
    PROVE  UploadFits(u)'
<1>1. upload'[u].pc = "error"
  BY GotoFacts DEF UploadPcs
<1> QED  BY <1>1 DEF UploadFits, At, KnowsRow, OwnRow

(* A document that moves, but not to the archive. *)
LEMMA MovedKeeps ==
    ASSUME IntakeInv, NEW u \in UploadIds, ~ At(u, "new"),
           NEW status \in IntakeStatuses \ {"archived"}, NEW pc \in UploadPcs, Moved(u, status, pc),
           UNCHANGED <<blob, objects, validations, ingestions, link>>,
           Goto(u, pc) => UploadFits(u)', \A s \in UpSpaces : ~ AnswersFor(u, s)
    PROVE  IntakeInv'
<1> USE DEF IntakeInv
<1>0. "error" \in UploadPcs /\ Space(u) \in UpSpaces
  BY RequestFacts DEF UploadPcs
<1>1. PICK q \in UploadPcs : Goto(u, q)
  BY <1>0, MovedFacts
<1>2. UploadFits(u)'
  BY <1>0, MovedFacts, ErrorFits
<1>3. IntakeTypeOK'
  BY <1>0, <1>1, MovedFacts, GotoFacts DEF IntakeTypeOK, At, Space
<1>4. IntakeGrows
  BY DEF IntakeGrows
<1>5. StoreFits'
  BY <1>4, StoreStays
<1>6. \A s \in UpSpaces : docs'[s].status = "archived" => docs[s].status = "archived"
  BY <1>0, MovedFacts
<1> QED  BY <1>1, <1>2, <1>3, <1>4, <1>5, <1>6, GotoFacts, RequestStep

LEMMA MarkValidatingKeeps ==
    ASSUME IntakeInv, NEW u \in UploadIds, MarkValidating(u)
    PROVE  IntakeInv'
<1>1. PICK pc \in {"validate", "vjob"} : Moved(u, "validating", pc)
  BY DEF MarkValidating
<1>2. /\ UploadFits(u) /\ IntakeTypeOK /\ pc \in UploadPcs
      /\ "validating" \in IntakeStatuses \ {"archived"}
      /\ ~ At(u, "new") /\ \A s \in UpSpaces : ~ AnswersFor(u, s)
  BY DEF IntakeInv, UploadPcs, IntakeStatuses, MarkValidating, At, AnswersFor
<1>3. ASSUME Goto(u, pc) PROVE UploadFits(u)'
  BY <1>2, <1>3, GotoFacts, NamesApart DEF UploadFits, MarkValidating, At, HasBeen, OwnRow, KnowsRow
<1> QED  BY <1>1, <1>2, <1>3, MovedKeeps DEF MarkValidating

LEMMA ValidateSmallKeeps ==
    ASSUME IntakeInv, NEW u \in UploadIds, NEW pass \in BOOLEAN, ValidateSmall(u, pass)
    PROVE  IntakeInv'
<1>2. /\ UploadFits(u) /\ IntakeTypeOK /\ {"copy", "rejected"} \subseteq UploadPcs
      /\ "security_rejected" \in IntakeStatuses \ {"archived"}
      /\ ~ At(u, "new") /\ \A s \in UpSpaces : ~ AnswersFor(u, s)
  BY DEF IntakeInv, UploadPcs, IntakeStatuses, ValidateSmall, At, AnswersFor
<1>3. ASSUME NEW pc \in {"copy", "rejected"}, Goto(u, pc) PROVE UploadFits(u)'
  BY <1>2, <1>3, GotoFacts DEF UploadFits, ValidateSmall, At, HasBeen, OwnRow, KnowsRow
<1>4. CASE Goto(u, "copy") /\ UNCHANGED docs
  BY <1>2, <1>3, <1>4, JustGoes DEF ValidateSmall
<1>5. CASE Moved(u, "security_rejected", "rejected")
  BY <1>2, <1>3, <1>5, MovedKeeps DEF ValidateSmall
<1> QED  BY <1>4, <1>5 DEF ValidateSmall

LEMMA CopyToArchiveKeeps ==
    ASSUME IntakeInv, NEW u \in UploadIds, CopyToArchive(u)
    PROVE  IntakeInv'
<1> USE DEF IntakeInv
<1>1. PICK pc \in {"delete", "error"} : Goto(u, pc) /\ (pc = "delete" => "archive" \in objects')
  BY DEF CopyToArchive
<1>2. pc \in UploadPcs /\ ~ At(u, "new")
  BY DEF UploadPcs, CopyToArchive, At
<1>3. IntakeTypeOK'
  BY <1>1, <1>2, GotoFacts, RequestFacts DEF CopyToArchive, IntakeTypeOK, At, Space
<1>4. IntakeGrows
  BY DEF IntakeGrows, CopyToArchive
<1>5. StoreFits'
  BY <1>4, StoreStays DEF CopyToArchive
<1>6. \A v \in UploadIds : v \in objects' => v \in objects
  BY NamesApart DEF CopyToArchive
<1>7. UploadFits(u)'
  BY <1>1, <1>2, <1>6, GotoFacts DEF UploadFits, At, OwnRow, KnowsRow, CopyToArchive, HasBeen
<1>8. \A t \in UpSpaces : ~ AnswersFor(u, t)
  BY DEF AnswersFor, CopyToArchive, At
<1> QED
  BY <1>1, <1>2, <1>3, <1>4, <1>5, <1>6, <1>7, <1>8, GotoFacts, RequestStep DEF CopyToArchive

LEMMA DeleteQuarantineKeeps ==
    ASSUME IntakeInv, NEW u \in UploadIds, DeleteQuarantine(u)
    PROVE  IntakeInv'
<1> USE DEF IntakeInv
<1>1. "uri" \in UploadPcs /\ Goto(u, "uri") /\ ~ At(u, "new")
  BY DEF UploadPcs, DeleteQuarantine, At
<1>2. IntakeTypeOK'
  BY <1>1, GotoFacts, RequestFacts DEF DeleteQuarantine, IntakeTypeOK, At, Space
<1>3. IntakeGrows
  BY NamesApart DEF IntakeGrows, DeleteQuarantine
<1>4. StoreFits'
  BY <1>3, StoreStays DEF DeleteQuarantine
<1>5. UploadFits(u)'
  BY <1>1, <1>3, GotoFacts
     DEF UploadFits, At, OwnRow, KnowsRow, DeleteQuarantine, HasBeen, IntakeGrows
<1>6. \A t \in UpSpaces : ~ AnswersFor(u, t)
  BY DEF AnswersFor, DeleteQuarantine, At
<1> QED  BY <1>1, <1>2, <1>3, <1>4, <1>5, <1>6, GotoFacts, RequestStep DEF DeleteQuarantine

LEMMA UpdateStorageUriKeeps ==
    ASSUME IntakeInv, NEW u \in UploadIds, UpdateStorageUri(u)
    PROVE  IntakeInv'
<1> USE DEF IntakeInv
<1>1. "archive" \in UploadPcs /\ Goto(u, "archive") /\ ~ At(u, "new")
  BY DEF UploadPcs, UpdateStorageUri, At
<1>2. IntakeTypeOK'
  BY <1>1, GotoFacts, RequestFacts DEF UpdateStorageUri, IntakeTypeOK, At, Space, Keys
<1>3. IntakeGrows
  BY DEF IntakeGrows, UpdateStorageUri
<1>4. UploadFits(u) /\ "archive" \in objects /\ blob \in {u, "archive"} /\ u \notin objects
  BY DEF UploadFits, UpdateStorageUri, At, OwnRow, KnowsRow, HasBeen
<1>5. StoreFits'
  <2>1. \A j \in validations : HasBeen(j.key)'
    BY <1>3, HasBeenStays DEF StoreFits
  <2> QED  BY <1>4, <2>1 DEF StoreFits, UpdateStorageUri
<1>6. UploadFits(u)'
  BY <1>1, <1>4, GotoFacts DEF UploadFits, At, OwnRow, KnowsRow, UpdateStorageUri, HasBeen
<1>7. \A v \in UploadIds \ {u} : blob # v
  BY <1>4, NamesApart
<1>8. \A t \in UpSpaces : ~ AnswersFor(u, t)
  BY DEF AnswersFor, UpdateStorageUri, At
<1> QED
  BY <1>1, <1>2, <1>3, <1>5, <1>6, <1>7, <1>8, GotoFacts, RequestStep DEF UpdateStorageUri

LEMMA ArchiveDocumentKeeps ==
    ASSUME IntakeInv, NEW u \in UploadIds, ArchiveDocument(u)
    PROVE  IntakeInv'
<1> USE DEF IntakeInv
<1>0. /\ {"ingest", "error"} \subseteq UploadPcs /\ ~ At(u, "new") /\ "archived" \in IntakeStatuses
      /\ Space(u) \in UpSpaces /\ "archive" \in objects /\ UploadFits(u)
  BY RequestFacts DEF UploadPcs, ArchiveDocument, At, IntakeStatuses, UploadFits
<1>1. PICK pc \in {"ingest", "error"} : Goto(u, pc)
  BY DEF ArchiveDocument, Moved
<1>2. IntakeTypeOK'
  BY <1>0, <1>1, MovedFacts, GotoFacts DEF ArchiveDocument, IntakeTypeOK, At, Space
<1>3. IntakeGrows
  BY DEF IntakeGrows, ArchiveDocument
<1>4. StoreFits'
  BY <1>3, StoreStays DEF ArchiveDocument
<1>5. UploadFits(u)'
  BY <1>0, <1>1, GotoFacts DEF UploadFits, At, OwnRow, KnowsRow, ArchiveDocument, HasBeen
<1>6. AnswersFor(u, Space(u))' /\ Space(u)' = Space(u)
  BY <1>0, <1>1, GotoFacts DEF AnswersFor, Space
<1>7. \A s \in UpSpaces : \/ docs'[s].status = "archived" => docs[s].status = "archived"
                          \/ s = Space(u)
  BY <1>0, MovedFacts DEF ArchiveDocument
<1>8. \A s \in UpSpaces : ~ AnswersFor(u, s)
  BY DEF AnswersFor, ArchiveDocument, At
<1>9. ASSUME NEW s \in UpSpaces
      PROVE  \/ docs'[s].status = "archived" => docs[s].status = "archived"
             \/ AnswersFor(u, s)' /\ "archive" \in objects'
  BY <1>0, <1>6, <1>7 DEF AnswersFor, ArchiveDocument
<1> QED
  BY <1>0, <1>1, <1>2, <1>3, <1>4, <1>5, <1>8, <1>9, GotoFacts, RequestStep DEF ArchiveDocument

LEMMA CreateIngestionJobKeeps ==
    ASSUME IntakeInv, NEW u \in UploadIds, CreateIngestionJob(u)
    PROVE  IntakeInv'
<1> USE DEF IntakeInv
<1>1. "created" \in UploadPcs /\ Goto(u, "created") /\ ~ At(u, "new") /\ Space(u) \in UpSpaces
  BY RequestFacts DEF UploadPcs, CreateIngestionJob, At
<1>2. IntakeTypeOK'
  BY <1>1, GotoFacts, RequestFacts DEF CreateIngestionJob, IntakeTypeOK, At, Space
<1>3. IntakeGrows
  BY DEF IntakeGrows, CreateIngestionJob
<1>4. StoreFits'
  BY <1>3, StoreStays DEF CreateIngestionJob
<1>5. UploadFits(u)'
  BY <1>1, GotoFacts DEF UploadFits, At, OwnRow, KnowsRow, CreateIngestionJob
<1>6. \A s \in UpSpaces : AnswersFor(u, s) => s \in ingestions'
  BY DEF AnswersFor, CreateIngestionJob
<1> QED  BY <1>1, <1>2, <1>3, <1>4, <1>5, <1>6, GotoFacts, RequestStep DEF CreateIngestionJob

LEMMA FindSourceKeeps ==
    ASSUME IntakeInv, NEW u \in UploadIds, FindSource(u)
    PROVE  IntakeInv'
<1>1. PICK pc \in {"insert", "reset", "duplicate"} : Goto(u, pc) /\ UNCHANGED docs
  BY DEF FindSource
<1>2. /\ pc \in UploadPcs /\ ~ At(u, "new") /\ UploadFits(u) /\ IntakeTypeOK
      /\ \A s \in UpSpaces : ~ AnswersFor(u, s)
  BY DEF IntakeInv, UploadPcs, FindSource, At, AnswersFor
<1>3. UploadFits(u)'
  BY <1>1, <1>2, GotoFacts DEF UploadFits, At, OwnRow, KnowsRow, FindSource, HasBeen
<1> QED  BY <1>1, <1>2, <1>3, JustGoes DEF FindSource

LEMMA ResetRejectedKeeps ==
    ASSUME IntakeInv, NEW u \in UploadIds, ResetRejected(u)
    PROVE  IntakeInv'
<1>1. /\ UploadFits(u) /\ IntakeTypeOK /\ "requeue" \in UploadPcs
      /\ "uploaded" \in IntakeStatuses \ {"archived"}
      /\ ~ At(u, "new") /\ \A s \in UpSpaces : ~ AnswersFor(u, s)
  BY DEF IntakeInv, UploadPcs, IntakeStatuses, ResetRejected, At, AnswersFor
<1>2. ASSUME Goto(u, "requeue") PROVE UploadFits(u)'
  BY <1>1, <1>2, GotoFacts DEF UploadFits, ResetRejected, At, HasBeen, OwnRow, KnowsRow
<1> QED  BY <1>1, <1>2, MovedKeeps DEF ResetRejected

(* The new document says what the request saw of the blob row. *)
LEMMA InsertSourceKeeps ==
    ASSUME IntakeInv, NEW u \in UploadIds, InsertSource(u)
    PROVE  IntakeInv'
<1> USE DEF IntakeInv
<1>1. /\ {"requeue", "duplicate"} \subseteq UploadPcs /\ ~ At(u, "new")
      /\ Space(u) \in UpSpaces /\ UploadFits(u)
      /\ \A s \in UpSpaces : ~ AnswersFor(u, s)
  BY RequestFacts DEF UploadPcs, InsertSource, At, AnswersFor
<1>2. ASSUME NEW pc \in {"requeue", "duplicate"}, Goto(u, pc) PROVE UploadFits(u)'
  BY <1>1, <1>2, GotoFacts DEF UploadFits, At, OwnRow, KnowsRow, InsertSource, HasBeen
<1>3. CASE Goto(u, "duplicate") /\ UNCHANGED docs
  BY <1>1, <1>2, <1>3, JustGoes DEF InsertSource
<1>4. ASSUME NEW status, status = IF upload[u].seen = "archive" THEN "archived" ELSE "uploaded",
             docs' = [docs EXCEPT ![Space(u)] = [status |-> status, key |-> upload[u].seen]],
             Goto(u, "requeue")
      PROVE  IntakeInv'
  <2>1. status \in IntakeStatuses /\ upload[u].seen \in Keys
    BY <1>4, RequestFacts DEF IntakeStatuses
  <2>2. docs' \in [UpSpaces -> [status : IntakeStatuses, key : Keys]]
    BY <1>4, <2>1 DEF IntakeTypeOK
  <2>3. IntakeTypeOK'
    BY <1>1, <1>4, <2>2, GotoFacts, RequestFacts DEF InsertSource, IntakeTypeOK, At, Space
  <2>4. IntakeGrows
    BY DEF IntakeGrows, InsertSource
  <2>5. StoreFits'
    BY <2>4, StoreStays DEF InsertSource
  <2>6. upload[u].seen = "archive" => "archive" \in objects
    BY <1>1 DEF UploadFits, InsertSource, At, KnowsRow, HasBeen, StoreFits
  <2>7. ASSUME NEW s \in UpSpaces
        PROVE  \/ docs'[s].status = "archived" => docs[s].status = "archived"
               \/ AnswersFor(u, s)' /\ "archive" \in objects'
    <3>1. CASE s # Space(u)
      BY <1>4, <3>1 DEF IntakeTypeOK
    <3>2. CASE s = Space(u) /\ upload[u].seen # "archive"
      BY <1>1, <1>4, <3>2 DEF IntakeTypeOK
    <3>3. CASE s = Space(u) /\ upload[u].seen = "archive"
      BY <1>1, <1>4, <2>6, <3>3, GotoFacts DEF AnswersFor, Space, At, InsertSource
    <3> QED  BY <3>1, <3>2, <3>3
  <2> QED
    BY <1>1, <1>2, <1>4, <2>3, <2>4, <2>5, <2>7, GotoFacts, RequestStep DEF InsertSource
<1> QED  BY <1>3, <1>4 DEF InsertSource

LEMMA RequeueKeeps ==
    ASSUME IntakeInv, NEW u \in UploadIds, Requeue(u)
    PROVE  IntakeInv'
<1>1. /\ UploadFits(u) /\ IntakeTypeOK /\ {"ingest", "vjob"} \subseteq UploadPcs
      /\ "validating" \in IntakeStatuses \ {"archived"} /\ ~ At(u, "new")
  BY DEF IntakeInv, UploadPcs, IntakeStatuses, Requeue, At
<1>2. CASE upload[u].seen = "archive" /\ Goto(u, "ingest") /\ UNCHANGED docs
  <2>1. UploadFits(u)'
    BY <1>1, <1>2, GotoFacts DEF UploadFits, Requeue, At, HasBeen, OwnRow, KnowsRow
  <2>2. \A s \in UpSpaces : AnswersFor(u, s) => AnswersFor(u, s)'
    BY <1>1, <1>2, GotoFacts DEF AnswersFor, Space
  <2> QED  BY <1>1, <1>2, <2>1, <2>2, JustGoes DEF Requeue
<1>3. CASE upload[u].seen # "archive" /\ Moved(u, "validating", "vjob")
  <2>1. \A s \in UpSpaces : ~ AnswersFor(u, s)
    BY <1>3 DEF AnswersFor, Requeue, At
  <2>2. ASSUME Goto(u, "vjob") PROVE UploadFits(u)'
    BY <1>1, <1>3, <2>2, GotoFacts DEF UploadFits, Requeue, At, HasBeen, OwnRow, KnowsRow
  <2> QED  BY <1>1, <1>3, <2>1, <2>2, MovedKeeps DEF Requeue
<1> QED  BY <1>2, <1>3 DEF Requeue

LEMMA CreateValidationJobKeeps ==
    ASSUME IntakeInv, NEW u \in UploadIds, CreateValidationJob(u)
    PROVE  IntakeInv'
<1> USE DEF IntakeInv
<1>1. /\ "created" \in UploadPcs /\ Goto(u, "created") /\ ~ At(u, "new") /\ Space(u) \in UpSpaces
      /\ \A s \in UpSpaces : ~ AnswersFor(u, s)
  BY RequestFacts DEF UploadPcs, CreateValidationJob, At, AnswersFor
<1>2. HasBeen(upload[u].seen) /\ upload[u].seen \in UploadIds
  BY RequestFacts DEF UploadFits, At, KnowsRow, CreateValidationJob, HasBeen, Keys
<1>3. validations' \subseteq [space : UpSpaces, key : UploadIds]
  BY <1>1, <1>2 DEF CreateValidationJob, IntakeTypeOK
<1>4. IntakeTypeOK'
  BY <1>1, <1>3, GotoFacts, RequestFacts DEF CreateValidationJob, IntakeTypeOK, At, Space
<1>5. IntakeGrows
  BY DEF IntakeGrows, CreateValidationJob
<1>6. StoreFits'
  <2>1. \A j \in validations' : HasBeen(j.key)
    BY <1>2 DEF StoreFits, CreateValidationJob
  <2> QED  BY <2>1 DEF StoreFits, CreateValidationJob, HasBeen
<1>7. UploadFits(u)'
  BY <1>1, GotoFacts DEF UploadFits, At, OwnRow, KnowsRow, CreateValidationJob
<1> QED  BY <1>1, <1>4, <1>5, <1>6, <1>7, GotoFacts, RequestStep DEF CreateValidationJob

LEMMA UploadAbortsKeeps ==
    ASSUME IntakeInv, NEW u \in UploadIds, UploadAborts(u)
    PROVE  IntakeInv'
<1>1. Goto(u, "error") /\ ~ At(u, "new") /\ "error" \in UploadPcs /\ IntakeTypeOK
  BY DEF UploadAborts, At, UploadPcs, IntakeInv
<1>2. UploadFits(u)'
  BY <1>1, ErrorFits
<1>3. \A s \in UpSpaces : AnswersFor(u, s) => AnswersFor(u, s)'
  BY <1>1, GotoFacts DEF AnswersFor, Space
<1> QED  BY <1>1, <1>2, <1>3, JustGoes DEF UploadAborts

-----------------------------------------------------------------------------
(* Validation jobs and fetched URLs keep the invariant *)

(* A step of nobody's request. *)
LEMMA OtherStep ==
    ASSUME IntakeInv, IntakeTypeOK', IntakeGrows, upload' = upload, StoreFits',
           \A v \in UploadIds : v \in objects' => v \in objects /\ (blob = v => blob' = v),
           \A s \in UpSpaces : SpaceFits(s)'
    PROVE  IntakeInv'
<1>1. \A v \in UploadIds : UploadFits(v)'
  <2> SUFFICES ASSUME NEW v \in UploadIds PROVE UploadFits(v)'
    OBVIOUS
  <2> QED  BY UploadStays DEF IntakeInv
<1> QED  BY <1>1 DEF IntakeInv

LEMMA AnswersStay ==
    ASSUME upload' = upload, NEW s
    PROVE  \A u \in UploadIds : AnswersFor(u, s) => AnswersFor(u, s)'
BY DEF AnswersFor, Space, At

LEMMA RunValidationKeeps ==
    ASSUME IntakeInv, NEW j \in validations, NEW pass \in BOOLEAN, RunValidation(j, pass)
    PROVE  IntakeInv'
<1> USE DEF IntakeInv
<1>0. /\ j.space \in UpSpaces /\ j.key \in UploadIds /\ j.key # "archive" /\ HasBeen(j.key)
      /\ {"archived", "security_rejected"} \subseteq IntakeStatuses
      /\ \A v \in UploadIds : v # "archive"
  BY NamesApart DEF IntakeTypeOK, StoreFits, IntakeStatuses
<1>1. PICK verdict \in {"archived", "security_rejected"}, stored \in BOOLEAN, moves \in BOOLEAN :
         /\ stored <=> j.key \in objects /\ verdict = "archived"
         /\ moves /\ verdict = "archived" => stored
         /\ objects' = IF stored THEN (objects \ {j.key}) \cup {"archive"} ELSE objects
         /\ blob' = IF stored THEN "archive" ELSE blob
         /\ docs' = IF moves THEN [docs EXCEPT ![j.space].status = verdict] ELSE docs
         /\ ingestions' = IF moves /\ stored THEN ingestions \cup {j.space} ELSE ingestions
  <2>1. CASE pass
    BY <2>1 DEF RunValidation
  <2>2. CASE ~ pass
    BY <2>2 DEF RunValidation
  <2> QED  BY <2>1, <2>2
<1>2. docs' \in [UpSpaces -> [status : IntakeStatuses, key : Keys]]
  BY <1>0, <1>1 DEF IntakeTypeOK
<1>3. IntakeTypeOK'
  BY <1>0, <1>1, <1>2 DEF RunValidation, IntakeTypeOK, Keys, At, Space
<1>4. IntakeGrows
  BY <1>0, <1>1 DEF IntakeGrows
<1>5. StoreFits'
  <2>1. \A k \in validations' : HasBeen(k.key)'
    BY <1>4, HasBeenStays DEF StoreFits, RunValidation
  <2>2. blob' = "archive" => "archive" \in objects'
    BY <1>1, <1>4 DEF StoreFits, IntakeGrows
  <2> QED  BY <1>4, <2>1, <2>2 DEF StoreFits, RunValidation, IntakeGrows
<1>6. \A v \in UploadIds : v \in objects' => v \in objects /\ (blob = v => blob' = v)
  BY <1>0, <1>1 DEF HasBeen
<1>7. ASSUME NEW s \in UpSpaces
      PROVE  SpaceFits(s)'
  <2>1. CASE s = j.space /\ moves /\ verdict = "archived"
    BY <1>1, <2>1 DEF SpaceFits
  <2>2. CASE ~ (s = j.space /\ moves /\ verdict = "archived")
    <3>1. docs'[s].status = "archived" => docs[s].status = "archived"
      BY <1>0, <1>1, <2>2 DEF IntakeTypeOK
    <3> QED  BY <1>4, <3>1, SpaceStays, AnswersStay DEF RunValidation
  <2> QED  BY <2>1, <2>2
<1> QED  BY <1>3, <1>4, <1>5, <1>6, <1>7, OtherStep DEF RunValidation

(* A step of linkBlob takes the document of the space on to pc: the content *)
(* is in the archive, and a document that it archives has its job to come.  *)
LinksOn(s, pc) ==
    /\ pc \in LinkPcs \ {"fetched"}
    /\ link' \in [UrlSpaces -> Link]
    /\ link'[s].pc = pc
    /\ \A t \in UrlSpaces \ {s} : link'[t] = link[t]
    /\ upload' = upload /\ validations' = validations
    /\ "archive" \in objects'
    /\ objects' = objects \/ objects' = objects \union {"archive"}
    /\ blob' = blob \/ (blob = "none" /\ blob' = "archive")
    /\ ingestions' = ingestions \/ ingestions' = ingestions \union {s}
    /\ docs' \in [UpSpaces -> [status : IntakeStatuses, key : Keys]]
    /\ \A t \in UpSpaces : \/ docs'[t].status = "archived" => docs[t].status = "archived"
                           \/ t = s /\ pc = "ingest"
    /\ link[s].pc \in {"ingest", "error"} => pc \in {"ingest", "error"} \/ s \in ingestions'

LEMMA LinkStepKeeps ==
    ASSUME IntakeInv, NEW s \in UrlSpaces, NEW pc, LinksOn(s, pc)
    PROVE  IntakeInv'
<1> USE DEF IntakeInv, LinksOn
<1>0. s \in UpSpaces
  BY IntakeNames
<1>1. IntakeTypeOK'
  BY <1>0 DEF IntakeTypeOK, Keys, At, Space
<1>2. IntakeGrows
  BY DEF IntakeGrows
<1>3. StoreFits'
  <2>1. \A j \in validations' : HasBeen(j.key)'
    BY <1>2, HasBeenStays DEF StoreFits
  <2> QED  BY <2>1 DEF StoreFits
<1>4. \A v \in UploadIds : v \in objects' => v \in objects /\ (blob = v => blob' = v)
  BY NamesApart
<1>5. ASSUME NEW t \in UpSpaces
      PROVE  SpaceFits(t)'
  <2>1. CASE t = s /\ pc = "ingest"
    BY <2>1 DEF SpaceFits
  <2>2. CASE docs'[t].status = "archived" => docs[t].status = "archived"
    <3>1. t \in UrlSpaces /\ link[t].pc \in {"ingest", "error"}
             => link'[t].pc \in {"ingest", "error"} \/ t \in ingestions'
      OBVIOUS
    <3>2. \A u \in UploadIds : AnswersFor(u, t) => AnswersFor(u, t)'
      BY AnswersStay
    <3>3. SpaceFits(t)
      OBVIOUS
    <3> QED  BY <1>2, <2>2, <3>1, <3>2, <3>3, SpaceStays
  <2> QED  BY <2>1, <2>2
<1> QED  BY <1>1, <1>2, <1>3, <1>4, <1>5, OtherStep

LEMMA LinkFacts ==
    ASSUME IntakeTypeOK, NEW s \in UrlSpaces, NEW pc \in LinkPcs, LinkGoto(s, pc)
    PROVE  /\ link' \in [UrlSpaces -> Link]
           /\ link'[s].pc = pc
           /\ \A t \in UrlSpaces \ {s} : link'[t] = link[t]
BY DEF IntakeTypeOK, LinkGoto, Link

(* linkBlob, one case for each of its awaits. *)
LEMMA LinkKeeps ==
    ASSUME IntakeInv, NEW s \in UrlSpaces, LinkStep(s) \/ LinkAborts(s)
    PROVE  IntakeInv'
<1> USE DEF IntakeInv
<1>0. /\ {"find", "duplicate", "write", "error", "advance", "ingest", "linked"}
           \subseteq LinkPcs \ {"fetched"}
      /\ s \in UpSpaces
      /\ link[s].pc # "fetched" => "archive" \in objects
      /\ docs \in [UpSpaces -> [status : IntakeStatuses, key : Keys]]
      /\ {"uploaded", "archived"} \subseteq IntakeStatuses /\ "none" \in Keys
  BY IntakeNames DEF LinkPcs, StoreFits, IntakeTypeOK, IntakeStatuses, Keys
<1>1. CASE LinkCreateBlob(s)
  <2>1. LinkGoto(s, "find")
    BY <1>1 DEF LinkCreateBlob
  <2>4. LinksOn(s, "find")
    BY <1>0, <1>1, <2>1, LinkFacts DEF LinksOn, LinkCreateBlob
  <2> QED  BY <2>4, LinkStepKeeps
<1>2. CASE LinkFind(s)
  <2>1. PICK pc \in {"duplicate", "write"}, status \in {link[s].status, "archived"} :
           link' = [link EXCEPT ![s].pc = pc, ![s].status = status]
    BY <1>2 DEF LinkFind
  <2>2. /\ link' \in [UrlSpaces -> Link]
        /\ link'[s].pc = pc
        /\ \A t \in UrlSpaces \ {s} : link'[t] = link[t]
    <3> DEFINE x == [link EXCEPT ![s].pc = pc]
    <3>1. /\ x \in [UrlSpaces -> Link] /\ x[s].pc = pc /\ link[s].status \in {"uploaded", "archived"}
          /\ \A t \in UrlSpaces \ {s} : x[t] = link[t]
      BY <1>0 DEF IntakeTypeOK, Link
    <3>2. link' = [x EXCEPT ![s].status = status]
      BY <2>1
    <3> HIDE DEF x
    <3> QED  BY <3>1, <3>2 DEF Link
  <2>4. LinksOn(s, pc)
    BY <1>0, <1>2, <2>1, <2>2 DEF LinksOn, LinkFind
  <2> QED  BY <2>4, LinkStepKeeps
<1>3. CASE LinkWrite(s)
  <2>1. PICK pc \in {"error", "advance"} : LinkGoto(s, pc)
    BY <1>3 DEF LinkWrite
  <2>2. docs' = docs \/ docs' = [docs EXCEPT ![s] = [status |-> "uploaded", key |-> "none"]]
    BY <1>3 DEF LinkWrite
  <2>3. /\ docs' \in [UpSpaces -> [status : IntakeStatuses, key : Keys]]
        /\ \A t \in UpSpaces : docs'[t].status = "archived" => docs[t].status = "archived"
    BY <1>0, <2>2
  <2>4. LinksOn(s, pc)
    BY <1>0, <1>3, <2>1, <2>3, LinkFacts DEF LinksOn, LinkWrite
  <2> QED  BY <2>4, LinkStepKeeps
<1>4. CASE LinkArchive(s)
  <2>1. LinkGoto(s, "ingest") /\ docs' = [docs EXCEPT ![s].status = "archived"]
    BY <1>4 DEF LinkArchive
  <2>2. /\ docs' \in [UpSpaces -> [status : IntakeStatuses, key : Keys]]
        /\ \A t \in UpSpaces \ {s} : docs'[t] = docs[t]
    BY <1>0, <2>1
  <2>4. LinksOn(s, "ingest")
    BY <1>0, <1>4, <2>1, <2>2, LinkFacts DEF LinksOn, LinkArchive
  <2> QED  BY <2>4, LinkStepKeeps
<1>5. CASE LinkIngest(s)
  <2>1. LinkGoto(s, "linked")
    BY <1>5 DEF LinkIngest
  <2>4. LinksOn(s, "linked")
    BY <1>0, <1>5, <2>1, LinkFacts DEF LinksOn, LinkIngest
  <2> QED  BY <2>4, LinkStepKeeps
<1>6. CASE LinkAborts(s)
  <2>1. LinkGoto(s, "error")
    BY <1>6 DEF LinkAborts
  <2>4. LinksOn(s, "error")
    BY <1>0, <1>6, <2>1, LinkFacts DEF LinksOn, LinkAborts
  <2> QED  BY <2>4, LinkStepKeeps
<1> QED  BY <1>1, <1>2, <1>3, <1>4, <1>5, <1>6 DEF LinkStep

-----------------------------------------------------------------------------
(* Theorems about UploadIntake *)

(* The intake starts empty. *)
LEMMA IntakeStarts ==
    ASSUME UploadInit PROVE IntakeInv
<1> USE DEF UploadInit
<1>1. IntakeTypeOK
  BY DEF IntakeTypeOK, Keys, NoDoc, NewUpload, IntakeStatuses, Request, UploadPcs, Link, LinkPcs,
         At, Space
<1>2. \A u \in UploadIds : UploadFits(u)
  BY DEF UploadFits, At, NewUpload, OwnRow, KnowsRow
<1>3. StoreFits
  BY DEF StoreFits
<1>4. \A s \in UpSpaces : SpaceFits(s)
  BY DEF SpaceFits, NoDoc
<1> QED  BY <1>1, <1>2, <1>3, <1>4 DEF IntakeInv

LEMMA UploadKeeps ==
    ASSUME IntakeInv, NEW u \in UploadIds, UploadStep(u) \/ UploadAborts(u)
    PROVE  IntakeInv'
BY UploadFileKeeps, UploadToQuarantineKeeps, CreateBlobKeeps, DropQuarantineKeeps,
   CreateSourceKeeps, UndoQuarantineKeeps, MarkValidatingKeeps, ValidateSmallKeeps,
   CopyToArchiveKeeps, DeleteQuarantineKeeps, UpdateStorageUriKeeps, ArchiveDocumentKeeps,
   CreateIngestionJobKeeps, FindSourceKeeps, ResetRejectedKeeps, InsertSourceKeeps, RequeueKeeps,
   CreateValidationJobKeeps, UploadAbortsKeeps DEF UploadStep

LEMMA IntakeIdles ==
    ASSUME IntakeInv, UNCHANGED upVars PROVE IntakeInv'
BY DEF IntakeInv, upVars, IntakeTypeOK, At, Space, UploadFits, HasBeen, StoreFits, SpaceFits,
       AnswersFor

(* Requests, validation jobs, fetched URLs and the store fit together in    *)
(* every reachable state: what a request in flight knows of the blob row is *)
(* what it was or what it has become, a row or a job that names the archive *)
(* is right, and whoever archived a document has its job created or to come.*)
THEOREM IntakeInvariant == UploadSpec => []IntakeInv
<1>1. UploadInit => IntakeInv
  BY IntakeStarts
<1>2. IntakeInv /\ [UploadNext]_upVars => IntakeInv'
  <2> SUFFICES ASSUME IntakeInv, [UploadNext]_upVars PROVE IntakeInv'
    OBVIOUS
  <2>1. CASE UNCHANGED upVars
    BY <2>1, IntakeIdles
  <2>2. CASE UploadNext
    BY <2>2, UploadKeeps, RunValidationKeeps, LinkKeeps DEF UploadNext
  <2> QED  BY <2>1, <2>2
<1> QED  BY <1>1, <1>2, PTL DEF UploadSpec

LEMMA IntakeKeeps ==
    ASSUME IntakeInv PROVE IntakeKeepsContent
<1> USE DEF IntakeInv
<1>1. NoQuarantineLeak
  BY DEF NoQuarantineLeak, Answered, UploadFits
<1>2. ArchivedMeansStored
  BY DEF ArchivedMeansStored, SpaceFits
<1>3. ArchivedIsIngested
  BY DEF ArchivedIsIngested, SpaceFits, InFlight, AnswersFor, Answered, At
<1> QED  BY <1>1, <1>2, <1>3 DEF IntakeKeepsContent

(* A request that was answered leaves no object in quarantine that the blob *)
(* row does not name, an archived document has its content in the archive,  *)
(* and it has its ingestion job once the requests for its space are         *)
(* answered, for every number of spaces, uploads and URLs (uploadFile,      *)
(* createSourceForExistingBlob, completeValidation, linkBlob).              *)
THEOREM ContentIsKept == UploadSpec => []IntakeKeepsContent
BY IntakeInvariant, IntakeKeeps, PTL

=============================================================================
