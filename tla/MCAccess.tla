------------------------------ MODULE MCAccess ------------------------------
(***************************************************************************)
(* Who may do what: sessions, on the server and in the browser, the        *)
(* middleware before a handler, API tokens and tools, the table of models, *)
(* and the decision of the RBAC guard.                                     *)
(* Each component is checked by itself: `part` is chosen at the start.     *)
(* The components whose theorems are in AccessProofs are extended and have *)
(* their own variables; the page of the browser takes v1 to v8.            *)
(* Sessions appear twice: many sessions without errors of the lockout      *)
(* counter, and errors with one session.                                   *)
(***************************************************************************)
EXTENDS RequestGate, ApiAccess, Sessions, ModelConfigs, TLC

CONSTANTS People, MaxSignIns, MaxWebFaults, MaxInFlight

VARIABLES
    part,  \* the component that is checked
    v1, v2, v3, v4, v5, v6, v7, v8,
    asked  \* the input of a component that is a function: {} or {input}

-----------------------------------------------------------------------------

Sign == INSTANCE WebSession WITH
    cookie <- v1, page <- v2, call <- v3, signIns <- v4, webFaults <- v5,
    overtaken <- v6, late <- v7, left <- v8

Requests ==
    [rbac |-> RbacRequests]

\* bound: requests of the page that are in flight at a time
FewRequests == Cardinality({c \in Sign!PageCalls : v3'[c].pc # "idle"}) <= MaxInFlight

(* The variables that a component does not use.                            *)
Off == "off"
slots == <<v1, v2, v3, v4, v5, v6, v7, v8>>
AllOff ==
    /\ v1 = Off /\ v2 = Off /\ v3 = Off /\ v4 = Off /\ v5 = Off /\ v6 = Off /\ v7 = Off /\ v8 = Off

Init ==
    /\ asked = {} /\ GateInit /\ AccessInit /\ SessInit /\ ModelInit
    /\ \/ part \in {"sessions", "lockout", "gate", "tokens", "models"} \cup DOMAIN Requests
          /\ AllOff
       \/ part = "signin" /\ Sign!WebInit

Next ==
    \/ /\ part = "sessions" /\ SessNext /\ counterErrors' = 0
       /\ UNCHANGED <<part, asked, slots, gateVars, accessVars, modelVars>>
    \/ /\ part = "lockout" /\ SessNext /\ created' <= 1
       /\ UNCHANGED <<part, asked, slots, gateVars, accessVars, modelVars>>
    \/ /\ part = "gate" /\ GateNext
       /\ UNCHANGED <<part, asked, slots, accessVars, sessVars, modelVars>>
    \/ /\ part = "tokens" /\ AccessNext
       /\ UNCHANGED <<part, asked, slots, gateVars, sessVars, modelVars>>
    \/ /\ part = "models" /\ ModelNext
       /\ UNCHANGED <<part, asked, slots, gateVars, accessVars, sessVars>>
    \/ /\ part = "signin" /\ Sign!WebNext /\ FewRequests
       /\ UNCHANGED <<part, asked, gateVars, accessVars, sessVars, modelVars>>
    \/ /\ part \in DOMAIN Requests /\ asked = {} /\ \E r \in Requests[part] : asked' = {r}
       /\ UNCHANGED <<part, slots, gateVars, accessVars, sessVars, modelVars>>

vars == <<part, asked, slots, gateVars, accessVars, sessVars, modelVars>>

Spec == Init /\ [][Next]_vars

(* Requests, calls and administrators are one set of values, and so are the
   passwords and the names of models; the ids of models and the accounts of
   the browser are a third. *)
Symmetric == Permutations(SessRequests) \cup Permutations(Names) \cup Permutations(ModelIds)

-----------------------------------------------------------------------------
(* The properties, stated with their reasons in the components' modules.   *)

Asked(p) == IF part = p THEN asked ELSE {}


=============================================================================
