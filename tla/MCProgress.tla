----------------------------- MODULE MCProgress -----------------------------
(***************************************************************************)
(* What must happen in the end: permissions reach Docmost, events of the   *)
(* bridge are settled, the audit log is written, the browser leaves its    *)
(* spinners, and a call of a silent provider ends.                         *)
(* Each component is checked by itself: `part` is chosen at the start.     *)
(* AuditLog and ModelCalls, about which there are theorems, are extended   *)
(* and have their own variables; the others share v1 to v14.               *)
(***************************************************************************)
EXTENDS AuditLog, ModelCalls, FiniteSets

CONSTANTS
    PUsers, PGroups, Grants, MaxChanges, MaxBridgeFaults, SyncAttempts,
    Blocks, Syncers, MaxSaves, MaxRuns, MaxBridgeErrors, MaxPublishes,
    People, MaxSignIns, MaxWebFaults, MaxInFlight,
    Spaces, Docs, MaxClicks, MaxFaults

VARIABLES
    part,  \* the component that is checked
    v1, v2, v3, v4, v5, v6, v7, v8, v9, v10, v11, v12, v13, v14

-----------------------------------------------------------------------------
SpaceOfDoc == [d \in Docs |-> CHOOSE s \in Spaces : TRUE]

-----------------------------------------------------------------------------

Perm == INSTANCE SpacePermissions WITH
    members <- v1, grant <- v2, groupIds <- v3, userOn <- v4, spaceOn <- v5,
    version <- v6, provision <- v7, userSync <- v8, syncJobs <- v9, pusher <- v10,
    deletion <- v11, docmost <- v12, changes <- v13, bridgeFaults <- v14
Bridge == INSTANCE BridgeSync WITH
    docmost <- v1, wiki <- v2, versions <- v3, repo <- v4, event <- v5, inbox <- v6,
    syncer <- v7, push <- v8, proposed <- v9, typed <- v10, bridgeErrors <- v11,
    published <- v12
Sign == INSTANCE WebSession WITH
    cookie <- v1, page <- v2, call <- v3, signIns <- v4, webFaults <- v5,
    overtaken <- v6, late <- v7, left <- v8
Center == INSTANCE UploadCenter WITH
    docs <- v1, view <- v2, drawer <- v3, calls <- v4, clicks <- v5, faults <- v6,
    SpaceOf <- SpaceOfDoc

\* bound: requests of the page that are in flight at a time
FewRequests == Cardinality({c \in Sign!PageCalls : v3'[c].pc # "idle"}) <= MaxInFlight

(* The variables that a component does not use.                            *)
Off == "off"
slots == <<v1, v2, v3, v4, v5, v6, v7, v8, v9, v10, v11, v12, v13, v14>>
AllOff ==
    /\ v1 = Off /\ v2 = Off /\ v3 = Off /\ v4 = Off /\ v5 = Off /\ v6 = Off /\ v7 = Off
    /\ v8 = Off /\ v9 = Off /\ v10 = Off /\ v11 = Off /\ v12 = Off /\ v13 = Off /\ v14 = Off

Init ==
    /\ AuditInit /\ CallInit
    /\ \/ part = "permissions" /\ Perm!PermInit
       \/ part = "bridge" /\ Bridge!BridgeInit /\ v13 = Off /\ v14 = Off
       \/ part \in {"audit", "modelcalls"} /\ AllOff
       \/ part = "signin" /\ Sign!WebInit
          /\ v9 = Off /\ v10 = Off /\ v11 = Off /\ v12 = Off /\ v13 = Off /\ v14 = Off
       \/ part = "center" /\ Center!CenterInit
          /\ v7 = Off /\ v8 = Off /\ v9 = Off /\ v10 = Off /\ v11 = Off /\ v12 = Off /\ v13 = Off
          /\ v14 = Off

Next ==
    \/ /\ part = "permissions" /\ Perm!PermNext
       /\ UNCHANGED <<part, auditVars, callVars>>
    \/ /\ part = "bridge" /\ Bridge!BridgeNext
       /\ UNCHANGED <<part, v13, v14, auditVars, callVars>>
    \/ /\ part = "audit" /\ AuditNext
       /\ UNCHANGED <<part, slots, callVars>>
    \/ /\ part = "signin" /\ Sign!WebNext /\ FewRequests
       /\ UNCHANGED <<part, v9, v10, v11, v12, v13, v14, auditVars, callVars>>
    \/ /\ part = "modelcalls" /\ CallNext
       /\ UNCHANGED <<part, slots, auditVars>>
    \/ /\ part = "center" /\ Center!CenterNext
       /\ UNCHANGED <<part, v7, v8, v9, v10, v11, v12, v13, v14, auditVars, callVars>>

vars == <<part, slots, auditVars, callVars>>

(* What the code's scheduling gives: the timer of the reconciliation and its
   calls; BullMQ, the event loop and Docmost's delivery; the flush of the audit
   log; answers to the browser; the timers of a model call; polling. *)
Fairness ==
    /\ WF_(Perm!permVars)(part = "permissions" /\ Perm!ReconcileReads)
    /\ WF_(Perm!permVars)(part = "permissions" /\ Perm!ReconcileEnds)
    /\ \A w \in Syncers : WF_(Bridge!bridgeVars)(part = "bridge" /\ Bridge!SyncStep(w))
    /\ WF_(Bridge!bridgeVars)(part = "bridge" /\ Bridge!PushStep)
    /\ WF_(Bridge!bridgeVars)(part = "bridge" /\ Bridge!EventArrives)
    /\ WF_auditVars(part = "audit" /\ FlushBegins)
    /\ WF_auditVars(part = "audit" /\ InsertEnds)
    /\ WF_auditVars(part = "audit" /\ DrainEnds)
    /\ \A c \in {"boot", "bootMe"} : WF_(Sign!webVars)(part = "signin" /\ Sign!ServerAnswers(c))
    /\ WF_(Sign!webVars)(part = "signin" /\ Sign!BootRefreshed)
    /\ WF_(Sign!webVars)(part = "signin" /\ Sign!BootLearnsUser)
    /\ WF_callVars(part = "modelcalls" /\ TimerFires)
    /\ WF_callVars(part = "modelcalls" /\ WakesUp)
    /\ \A d \in Docs : WF_(Center!centerVars)(part = "center" /\ Center!DocEnds(d))
    /\ WF_(Center!centerVars)(part = "center" /\ Center!Poll)
    /\ WF_(Center!centerVars)(part = "center" /\ Center!SomeServed)
    /\ WF_(Center!centerVars)(part = "center" /\ Center!SomeAnswered)

Spec == Init /\ [][Next]_vars /\ Fairness

-----------------------------------------------------------------------------
(* The properties, stated with their reasons in the components' modules.   *)

\* Docmost catches up with the wiki: in the end it grants what the database
\* grants, where a group that is gone has neither members nor grants, and an
\* event that was queued is settled, also over a restart.
DocmostCatchesUp ==
    /\ [](part = "permissions" => Perm!PermTypeOK)
    /\ <>[](part = "permissions" => Perm!Converged)
    /\ \A e \in 1 .. MaxSaves :
          (part = "bridge" /\ Bridge!Waits(e)) ~> (part = "bridge" /\ Bridge!Settled(e))

\* Nobody waits for ever: a record that is queued before the shutdown ends is
\* stored or dropped and logged, and the shutdown ends, restoring the session
\* of the browser ends, a provider that says nothing does not hold a call, and
\* a document shown as processing is not shown so for ever.
WaitingEnds ==
    /\ ShutdownEnds /\ RecordsSettle
    /\ (part = "signin" /\ Sign!Restoring) ~> (part = "signin" /\ ~Sign!Restoring)
    /\ (part = "modelcalls" /\ NotHeard) ~> (part = "modelcalls" /\ HeardOrEnded)
    /\ \A d \in Docs :
          (part = "center" /\ Center!ShownProcessing(d))
              ~> (part = "center" /\ ~Center!ShownProcessing(d))

=============================================================================
