---------------------------- MODULE ModelConfigs ----------------------------
(***************************************************************************)
(* The administrator's table of models (models/model-config.service.ts),   *)
(* the connectivity probe and its outbound-address check                   *)
(* (common/outbound-probe-safety.ts), and the health report that probes    *)
(* every enabled model (admin/admin-health.controller.ts).                 *)
(*                                                                         *)
(* Every statement of createModel and updateModel is a transaction of its  *)
(* own: the row is read, the name and the embedding limit are checked, and *)
(* only the fields that differ from the row READ are written.              *)
(***************************************************************************)
EXTENDS Naturals, FiniteSets

CONSTANTS
    ModelAdmins,    \* administrators editing concurrently
    ModelIds,       \* the ids the rows can get
    Names,          \* the pairs (provider, model_id)
    Addresses,      \* the addresses a host can resolve to
    Unsafe,         \* those of a private or local range
    Allowlisted,    \* those the operator's allowlist names
    MaxModelEdits   \* bound: administrators' requests

VARIABLES
    models,     \* model_configs: id -> row, or NoModel
    editing,    \* the request each administrator has in flight
    modelEdits, \* requests so far
    raced,      \* history: a row was written while another request was under way
    probe,      \* the probe of each model
    health      \* the health request

modelTable == <<models, editing, modelEdits, raced>>
modelVars  == <<models, editing, modelEdits, raced, probe, health>>

Kinds    == {"chat", "embedding"}
ModelRow == [name : Names, type : Kinds, enabled : BOOLEAN]
NoModel  == [name |-> "none", type |-> "none", enabled |-> FALSE]
NoEdit   == [pc |-> "idle", id |-> "none", new |-> FALSE, saw |-> NoModel, next |-> NoModel]
NoProbe  == [pc |-> "idle", by |-> "none", checked |-> {}, spoke |-> {}, reachable |-> FALSE]
NoHealth == [pc |-> "idle", listed |-> {}, status |-> "none"]

EnabledModels     == {m \in ModelIds : models[m].enabled}
EnabledEmbeddings == {m \in EnabledModels : models[m].type = "embedding"}

ModelInit ==
    /\ models = [m \in ModelIds |-> NoModel]
    /\ editing = [a \in ModelAdmins |-> NoEdit]
    /\ modelEdits = 0
    /\ raced = FALSE
    /\ probe = [m \in ModelIds |-> NoProbe]
    /\ health = NoHealth

-----------------------------------------------------------------------------
(* Administrators' requests.                                               *)

EditAt(a, pc) == editing[a].pc = pc
EditTo(a, pc) == editing' = [editing EXCEPT ![a].pc = pc]
EditEnds(a)   == editing' = [editing EXCEPT ![a] = NoEdit]

CreateAsked(a) ==
    /\ EditAt(a, "idle") /\ modelEdits < MaxModelEdits
    /\ modelEdits' = modelEdits + 1
    /\ \E m \in ModelIds, next \in ModelRow :
          /\ models[m] = NoModel /\ \A b \in ModelAdmins : editing[b].id # m
          /\ editing' = [editing EXCEPT ![a] =
                [pc |-> "name", id |-> m, new |-> TRUE, saw |-> NoModel, next |-> next]]
    /\ UNCHANGED <<models, raced>>

\* The values to reach are computed from the row read and the fields of the
\* request; a field the request leaves out keeps the value READ.
UpdateReads(a) ==
    /\ EditAt(a, "idle") /\ modelEdits < MaxModelEdits
    /\ modelEdits' = modelEdits + 1
    /\ \E m \in {i \in ModelIds : models[i] # NoModel}, next \in ModelRow :
          editing' = [editing EXCEPT ![a] =
                [pc |-> "name", id |-> m, new |-> FALSE, saw |-> models[m], next |-> next]]
    /\ UNCHANGED <<models, raced>>

NameTaken(m, name) == \E other \in ModelIds \ {m} : models[other].name = name

ChecksName(a) ==
    LET e == editing[a] IN
    /\ EditAt(a, "name")
    /\ IF e.next.name # e.saw.name /\ NameTaken(e.id, e.next.name)
       THEN EditEnds(a)
       ELSE EditTo(a, "limit")
    /\ UNCHANGED <<models, modelEdits, raced>>

\* mutant: the limit is checked only for a request that switches the model on
WhenSwitchedOn(e) ==
    /\ e.next.type = "embedding" /\ e.next.enabled /\ ~e.saw.enabled
    /\ EnabledEmbeddings \ {e.id} # {}

OverEmbeddingLimit(e) ==
    /\ e.next.type = "embedding" /\ e.next.enabled
    /\ EnabledEmbeddings \ {e.id} # {}

ChecksLimit(a) ==
    /\ EditAt(a, "limit")
    /\ IF OverEmbeddingLimit(editing[a]) THEN EditEnds(a) ELSE EditTo(a, "write")
    /\ UNCHANGED <<models, modelEdits, raced>>

Changed(e, row) ==
    [f \in DOMAIN row |-> IF e.next[f] # e.saw[f] THEN e.next[f] ELSE row[f]]

\* The unique index on the name refuses a second one.
Writes(a, row) ==
    /\ EditEnds(a)
    /\ IF NameTaken(editing[a].id, row.name)
       THEN UNCHANGED <<models, raced>>
       ELSE /\ models' = [models EXCEPT ![editing[a].id] = row]
            /\ raced' = (raced \/ \E b \in ModelAdmins \ {a} : ~EditAt(b, "idle"))
    /\ UNCHANGED modelEdits

InsertsModel(a) == EditAt(a, "write") /\ editing[a].new /\ Writes(a, editing[a].next)

\* A request that changes nothing writes nothing.
UpdatesModel(a) ==
    LET e == editing[a] IN
    /\ EditAt(a, "write") /\ ~e.new
    /\ IF e.next = e.saw THEN EditEnds(a) /\ UNCHANGED <<models, modelEdits, raced>>
                         ELSE Writes(a, Changed(e, models[e.id]))

-----------------------------------------------------------------------------
(* A probe of one model: the key, the base URL, the addresses of its host, *)
(* and one request through a connection bound to the addresses checked.    *)

ProbeEnds(m, ok) == probe' = [probe EXCEPT ![m].pc = "done", ![m].reachable = ok]
StartProbe(by)   == [NoProbe EXCEPT !.pc = "resolve", !.by = by]

TestConnectivity(m) ==
    /\ models[m] # NoModel /\ probe[m].pc \in {"idle", "done"} /\ m \notin health.listed
    /\ probe' = [probe EXCEPT ![m] = StartProbe("test")]
    /\ UNCHANGED <<modelTable, health>>

NotConfigured(m) ==
    /\ probe[m].pc = "resolve"
    /\ ProbeEnds(m, FALSE)
    /\ UNCHANGED <<modelTable, health>>

\* The ranges of isUnsafeIpAddress and the rules of the allowlist are given
\* as sets of addresses.
IsUnsafe(x) == x \in Unsafe
IsAllowlisted(answer) == answer \subseteq Allowlisted

Blocked(answer) == (\E x \in answer : IsUnsafe(x)) /\ ~IsAllowlisted(answer)

ResolvesTarget(m) ==
    /\ probe[m].pc = "resolve"
    /\ \E answer \in SUBSET Addresses :
          IF answer = {} \/ Blocked(answer)
          THEN ProbeEnds(m, FALSE)
          ELSE probe' = [probe EXCEPT ![m].pc = "connect", ![m].checked = answer]
    /\ UNCHANGED <<modelTable, health>>

\* mutant: the request resolves its host a second time
ResolvedAgain(p) == Addresses

DialledAddresses(p) == p.checked

ProbesEndpoint(m) ==
    /\ probe[m].pc = "connect"
    /\ \E address \in DialledAddresses(probe[m]), ok \in BOOLEAN :
          probe' = [probe EXCEPT ![m].pc = "done", ![m].spoke = {address}, ![m].reachable = ok]
    /\ UNCHANGED <<modelTable, health>>

ProbeTimesOut(m) ==
    /\ probe[m].pc = "connect"
    /\ ProbeEnds(m, FALSE)
    /\ UNCHANGED <<modelTable, health>>

-----------------------------------------------------------------------------
(* The health request: every enabled model is probed at once, under a      *)
(* deadline shorter than the probe's own.                                  *)

HealthAsked ==
    /\ health.pc = "idle"
    /\ \A m \in ModelIds : probe[m].pc \in {"idle", "done"}
    /\ health' = [health EXCEPT !.pc = "probing", !.listed = EnabledModels]
    /\ probe' = [m \in ModelIds |-> IF m \in EnabledModels THEN StartProbe("health") ELSE NoProbe]
    /\ UNCHANGED modelTable

Settled == {m \in health.listed : probe[m].pc = "done"}

\* mutant: the report is made of the probes that have ended
OfTheSettled == \A m \in Settled : probe[m].reachable

AllReachable == /\ Settled = health.listed
                /\ \A m \in health.listed : probe[m].reachable

OverallStatus(database, modelsWell) ==
    IF ~database THEN "unhealthy" ELSE IF modelsWell THEN "healthy" ELSE "degraded"

HealthAnswered ==
    /\ health.pc = "probing"
    /\ \E database \in BOOLEAN :
          health' = [health EXCEPT !.pc = "answered",
                                   !.status = OverallStatus(database, AllReachable)]
    /\ UNCHANGED <<modelTable, probe>>

HealthForgotten ==
    /\ health.pc = "answered"
    /\ health' = NoHealth
    /\ probe' = [m \in ModelIds |-> NoProbe]
    /\ UNCHANGED modelTable

-----------------------------------------------------------------------------
EditStep == \E a \in ModelAdmins :
    /\ CreateAsked(a) \/ UpdateReads(a) \/ ChecksName(a) \/ ChecksLimit(a)
        \/ InsertsModel(a) \/ UpdatesModel(a)
    /\ UNCHANGED <<probe, health>>
ProbeStep == \E m \in ModelIds :
    TestConnectivity(m) \/ NotConfigured(m) \/ ResolvesTarget(m) \/ ProbesEndpoint(m)
        \/ ProbeTimesOut(m)

ModelNext == EditStep \/ ProbeStep \/ HealthAsked \/ HealthAnswered \/ HealthForgotten

ModelSpec == ModelInit /\ [][ModelNext]_modelVars

-----------------------------------------------------------------------------
(* Properties                                                              *)

\* A second embedding model is enabled only when requests overlapped:
\* whatever one administrator does after another's request has ended - new
\* models, changes of type, switching on and off - leaves at most one.
SecondEmbeddingNeedsARace == Cardinality(EnabledEmbeddings) > 1 => raced

\* A probe speaks only to addresses its check accepted: one of a private
\* range only when everything the host resolved to is allowlisted, whatever
\* the name service answers later.
ProbeSpeaksToChecked ==
    \A m \in ModelIds : \A x \in probe[m].spoke :
        x \in Unsafe => x \in Allowlisted /\ probe[m].checked \subseteq Allowlisted

\* The report says healthy only when every model that was enabled when it
\* was asked answered within the deadline.
HealthyMeansAnswered ==
    health.status = "healthy" => \A m \in health.listed : probe[m].spoke # {} /\ probe[m].reachable

\* The three together: what the table of models and its report promise.
ModelsAreChecked == SecondEmbeddingNeedsARace /\ ProbeSpeaksToChecked /\ HealthyMeansAnswered

=============================================================================
