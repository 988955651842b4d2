---------------------------- MODULE AccessProofs ----------------------------
(***************************************************************************)
(* Theorems about RequestGate, ApiAccess, Sessions and ModelConfigs, for   *)
(* every number of requests, keys, webhook calls, tokens, invocations,     *)
(* sessions and models and every limit: the idempotency key is a lock, the *)
(* sliding window and the MCP limiter keep their budgets, a webhook call   *)
(* passes once, a token is revoked once, a refresh token is rotated once,  *)
(* a guess of the password is counted, and the table of models and its     *)
(* report rest on what was checked.                                        *)
(***************************************************************************)
EXTENDS RequestGate, ApiAccess, Sessions, ModelConfigs, FiniteSetTheorems, SequenceTheorems, TLAPS

-----------------------------------------------------------------------------
(* RequestGate: types *)

CallStates == {"new", "guards", "read", "conflict", "replayed", "run", "ok", "failed", "done", "lost"}

GateTypeOK ==
    /\ clock \in Nat \ {0}
    /\ idem \in [IdemKeys -> {"none", "processing", "stored"}]
    /\ call \in [Calls -> [at : CallStates, key : IdemKeys, reserved : BOOLEAN]]
    /\ succeeded \in [IdemKeys -> Nat]
    /\ lapsed \in SUBSET IdemKeys
    /\ admitted \in [Dimensions -> Seq(Nat)]
    /\ hook \in [Webhooks -> Nat] /\ nonce \in [Webhooks -> Nat] /\ accepted \in [Webhooks -> Nat]

(* Admit appends the tick to some of the sorted sets. *)
LEMMA AdmitType ==
    ASSUME NEW ds, Admit(ds), clock \in Nat, admitted \in [Dimensions -> Seq(Nat)]
    PROVE  admitted' \in [Dimensions -> Seq(Nat)]
<1>1. \A d \in Dimensions : Append(admitted[d], clock) \in Seq(Nat)  BY AppendProperties
<1> QED  BY <1>1 DEF Admit

LEMMA GateTypeInit == GateInit => GateTypeOK
<1> SUFFICES ASSUME GateInit PROVE GateTypeOK  OBVIOUS
<1>1. NewCall \in [at : CallStates, key : IdemKeys, reserved : BOOLEAN]
  BY GateLimits DEF NewCall, CallStates
<1>2. <<>> \in Seq(Nat)  BY EmptySeq
<1> QED  BY <1>1, <1>2 DEF GateInit, GateTypeOK

LEMMA GateTypeStep == GateTypeOK /\ [GateNext]_gateVars => GateTypeOK'
<1> SUFFICES ASSUME GateTypeOK, [GateNext]_gateVars PROVE GateTypeOK'  OBVIOUS
<1> USE DEF GateTypeOK
<1>1. ASSUME NEW c \in Calls, NEW k \in IdemKeys, ArriveWithKey(c, k)  PROVE GateTypeOK'
  BY <1>1 DEF ArriveWithKey, CallStates, Reserve
<1>2. ASSUME NEW c \in Calls, NEW k \in IdemKeys, ArriveUnreserved(c, k)  PROVE GateTypeOK'
  BY <1>2 DEF ArriveUnreserved, CallStates
<1>3. ASSUME NEW c \in Calls, ReadExisting(c)  PROVE GateTypeOK'
  <2>1. /\ UNCHANGED <<clock, idem, succeeded, lapsed, admitted, hook, nonce, accepted, redisErrors>>
        /\ \E s \in CallStates : CallTo(c, s)
    BY <1>3 DEF ReadExisting, CallTo, CallStates
  <2>2. call' \in [Calls -> [at : CallStates, key : IdemKeys, reserved : BOOLEAN]]
    BY <2>1 DEF CallTo
  <2> QED  BY <2>1, <2>2
<1>4. ASSUME NEW c \in Calls, RateLimitPasses(c)  PROVE GateTypeOK'
  <2>1. admitted' \in [Dimensions -> Seq(Nat)]  BY <1>4, AdmitType DEF RateLimitPasses
  <2> QED  BY <1>4, <2>1 DEF RateLimitPasses, CallTo, CallStates
<1>5. ASSUME NEW c \in Calls, RateLimited(c)  PROVE GateTypeOK'
  BY <1>5 DEF RateLimited, CallTo, CallStates
<1>6. ASSUME NEW c \in Calls, HandlerRuns(c)  PROVE GateTypeOK'
  <2>1. succeeded' \in [IdemKeys -> Nat]
    <3>1. succeeded[call[c].key] + 1 \in Nat  OBVIOUS
    <3> QED  BY <1>6, <3>1 DEF HandlerRuns
  <2>2. \E s \in CallStates : CallTo(c, s)  BY <1>6 DEF HandlerRuns, CallStates
  <2>3. call' \in [Calls -> [at : CallStates, key : IdemKeys, reserved : BOOLEAN]]
    BY <2>2 DEF CallTo
  <2> QED  BY <1>6, <2>1, <2>3 DEF HandlerRuns
<1>7. ASSUME NEW c \in Calls, ResponseFinished(c)  PROVE GateTypeOK'
  BY <1>7 DEF ResponseFinished, CallTo, CallStates
<1>8. ASSUME NEW k \in IdemKeys, ReservationExpires(k)  PROVE GateTypeOK'
  BY <1>8 DEF ReservationExpires
<1>9. ASSUME NEW w \in Webhooks, SignHook(w)  PROVE GateTypeOK'
  BY <1>9, GateLimits DEF SignHook
<1>10. ASSUME NEW w \in Webhooks, HookArrives(w)  PROVE GateTypeOK'
  <2>1. PICK ds : Admit(ds)  BY <1>10 DEF HookArrives
  <2>2. admitted' \in [Dimensions -> Seq(Nat)]  BY <2>1, AdmitType
  <2>3. /\ nonce' = [nonce EXCEPT ![w] = clock + NonceTtl]
        /\ accepted' = [accepted EXCEPT ![w] = @ + 1]
        /\ UNCHANGED <<clock, idem, call, succeeded, lapsed, hook, redisErrors>>
    BY <1>10 DEF HookArrives
  <2>4. clock + NonceTtl \in Nat /\ accepted[w] + 1 \in Nat  BY GateLimits
  <2> QED  BY <2>2, <2>3, <2>4
<1>11. CASE ApiCrashes
  <2>1. \A c \in Calls : call'[c] \in [at : CallStates, key : IdemKeys, reserved : BOOLEAN]
    BY <1>11 DEF ApiCrashes, CallStates
  <2> QED  BY <1>11, <2>1 DEF ApiCrashes
<1>12. CASE Tick  BY <1>12 DEF Tick
<1>13. CASE UNCHANGED gateVars  BY <1>13 DEF gateVars
<1> QED
  BY <1>1, <1>2, <1>3, <1>4, <1>5, <1>6, <1>7, <1>8, <1>9, <1>10, <1>11, <1>12, <1>13
  DEF GateNext, CallStep

(* Idempotency keys, requests, entries and webhook calls have their types.  *)
THEOREM GateTypeCorrect == GateSpec => []GateTypeOK
<1> QED  BY GateTypeInit, GateTypeStep, PTL DEF GateSpec

-----------------------------------------------------------------------------
(* RequestGate: the idempotency key is a lock *)

(* Of a key that never ran out under its request, the request that holds   *)
(* it is the only one, and Redis still says "processing".                  *)
KeyIsHeld ==
    \A k \in IdemKeys \ lapsed : \A c \in Holding(k) :
        idem[k] = "processing" /\ \A e \in Holding(k) : e = c

(* What is stored under a key is the answer of a handler that succeeded.   *)
AnswersAreReal ==
    /\ \A k \in IdemKeys : idem[k] = "stored" => succeeded[k] > 0
    /\ \A c \in Calls : call[c].at \in {"ok", "replayed"} => succeeded[call[c].key] > 0
    /\ \A c \in Calls : call[c].at = "read" => ~ call[c].reserved

KeyInv == KeyIsHeld /\ AnswersAreReal

(* Only the requests, their keys and the successes count. *)
LEMMA KeyQuiet ==
    ASSUME KeyInv, UNCHANGED <<idem, call, succeeded, lapsed>>  PROVE KeyInv'
BY DEF KeyInv, KeyIsHeld, AnswersAreReal, Holding

(* A request that goes on without taking or giving back a key. *)
LEMMA KeyGoesOn ==
    ASSUME GateTypeOK, KeyInv, NEW c \in Calls, NEW s \in CallStates,
           call[c].at \in {"guards", "run", "read"}, CallTo(c, s),
           s \in {"guards"} => call[c].at = "read",
           s \in {"ok", "replayed"} => succeeded'[call[c].key] > 0,
           s # "read",
           \A k \in IdemKeys : succeeded[k] > 0 => succeeded'[k] > 0,
           UNCHANGED <<idem, lapsed>>
    PROVE  KeyInv'
<1>1. call' = [call EXCEPT ![c].at = s]  BY DEF CallTo
<1>2. /\ call'[c] = [call[c] EXCEPT !.at = s]
      /\ \A e \in Calls : e # c => call'[e] = call[e]
  BY <1>1 DEF GateTypeOK
<1>3. \A e \in Calls : call'[e].key = call[e].key /\ call'[e].reserved = call[e].reserved
  <2>1. call'[c].key = call[c].key /\ call'[c].reserved = call[c].reserved
    <3>1. call[c] \in [at : CallStates, key : IdemKeys, reserved : BOOLEAN]  BY DEF GateTypeOK
    <3> QED  BY <1>2, <3>1
  <2> QED  BY <1>2, <2>1
<1>4. call'[c].at = s
  <2>1. call[c] \in [at : CallStates, key : IdemKeys, reserved : BOOLEAN]  BY DEF GateTypeOK
  <2> QED  BY <1>2, <2>1
<1>5. \A k \in IdemKeys : Holding(k)' \subseteq Holding(k)
  BY <1>2, <1>3, <1>4 DEF Holding, KeyInv, AnswersAreReal
<1>6. KeyIsHeld'  BY <1>5 DEF KeyInv, KeyIsHeld
<1>7. AnswersAreReal'
  <2>1. \A k \in IdemKeys : idem'[k] = "stored" => succeeded'[k] > 0
    BY DEF KeyInv, AnswersAreReal
  <2>2. \A e \in Calls : call[e].key \in IdemKeys  BY DEF GateTypeOK
  <2>3. \A e \in Calls : call'[e].at \in {"ok", "replayed"} => succeeded'[call'[e].key] > 0
    <3> SUFFICES ASSUME NEW e \in Calls, call'[e].at \in {"ok", "replayed"}
                 PROVE  succeeded'[call[e].key] > 0
      BY <1>3
    <3>1. CASE e = c  BY <3>1, <1>4
    <3>2. CASE e # c  BY <3>2, <2>2, <1>2 DEF KeyInv, AnswersAreReal
    <3> QED  BY <3>1, <3>2
  <2>4. \A e \in Calls : call'[e].at = "read" => ~ call'[e].reserved
    BY <1>2, <1>3, <1>4 DEF KeyInv, AnswersAreReal
  <2> QED  BY <2>1, <2>3, <2>4 DEF AnswersAreReal
<1> QED  BY <1>6, <1>7 DEF KeyInv

LEMMA KeyInit == GateInit => KeyInv
BY DEF GateInit, NewCall, KeyInv, KeyIsHeld, AnswersAreReal, Holding

LEMMA ArriveWithKeyInv ==
    ASSUME GateTypeOK, KeyInv, NEW c \in Calls, NEW k \in IdemKeys, ArriveWithKey(c, k)
    PROVE  KeyInv'
<1>1. /\ call[c].at = "new" /\ UNCHANGED <<succeeded, lapsed>>
      /\ \A e \in Calls : e # c => call'[e] = call[e]
  BY DEF ArriveWithKey, CallAt, GateTypeOK
<1>2. CASE idem[k] = "none"
  <2>1. call'[c] = [at |-> "guards", key |-> k, reserved |-> TRUE] /\ idem' = [idem EXCEPT ![k] = "processing"]
    BY <1>2 DEF ArriveWithKey, Reserve, GateTypeOK
  <2>2. \A j \in IdemKeys : Holding(j)' = IF j = k THEN Holding(k) \union {c} ELSE Holding(j)
    BY <1>1, <2>1 DEF Holding
  <2>3. k \in lapsed \/ Holding(k) = {}  BY <1>2 DEF KeyInv, KeyIsHeld
  <2>4. idem'[k] = "processing" /\ \A j \in IdemKeys : j # k => idem'[j] = idem[j]
    BY <2>1 DEF GateTypeOK
  <2>5. KeyIsHeld'  BY <1>1, <2>2, <2>3, <2>4 DEF KeyInv, KeyIsHeld
  <2>6. AnswersAreReal'  BY <1>1, <2>1, <2>4 DEF KeyInv, AnswersAreReal
  <2> QED  BY <2>5, <2>6 DEF KeyInv
<1>3. CASE idem[k] # "none"
  <2>1. call'[c] = [at |-> "read", key |-> k, reserved |-> FALSE] /\ idem' = idem
    BY <1>3 DEF ArriveWithKey, Reserve, GateTypeOK
  <2>2. \A j \in IdemKeys : Holding(j)' \subseteq Holding(j)  BY <1>1, <2>1 DEF Holding
  <2>3. KeyIsHeld'  BY <1>1, <2>1, <2>2 DEF KeyInv, KeyIsHeld
  <2>4. AnswersAreReal'  BY <1>1, <2>1 DEF KeyInv, AnswersAreReal
  <2> QED  BY <2>3, <2>4 DEF KeyInv
<1> QED  BY <1>2, <1>3

(* The finish event gives the key back, stores the answer, or fails to. *)
LEMMA ResponseFinishedInv ==
    ASSUME GateTypeOK, KeyInv, NEW c \in Calls, ResponseFinished(c)
    PROVE  KeyInv'
<1>0. PICK k \in IdemKeys : k = call[c].key  BY DEF GateTypeOK
<1>1. /\ call[c].at \in {"ok", "failed"} /\ UNCHANGED <<succeeded, lapsed>>
      /\ call'[c] = [call[c] EXCEPT !.at = "done"]
      /\ \A e \in Calls : e # c => call'[e] = call[e]
      /\ \/ idem' = idem
         \/ call[c].reserved /\ idem' = [idem EXCEPT ![k] = "none"]
         \/ call[c].reserved /\ call[c].at = "ok" /\ idem' = [idem EXCEPT ![k] = "stored"]
  BY <1>0 DEF ResponseFinished, CallTo, CallAt, IsCacheable, GateTypeOK
<1>2. \A e \in Calls : call'[e].key = call[e].key /\ call'[e].reserved = call[e].reserved
  <2>1. call[c] \in [at : CallStates, key : IdemKeys, reserved : BOOLEAN]  BY DEF GateTypeOK
  <2>2. call'[c].key = call[c].key /\ call'[c].reserved = call[c].reserved  BY <1>1, <2>1
  <2> QED  BY <1>1, <2>2
<1>3. call'[c].at = "done"
  <2>1. call[c] \in [at : CallStates, key : IdemKeys, reserved : BOOLEAN]  BY DEF GateTypeOK
  <2> QED  BY <1>1, <2>1
<1>4. \A j \in IdemKeys : Holding(j)' \subseteq Holding(j) \ {c}
  BY <1>1, <1>2, <1>3 DEF Holding
<1>5. call[c].reserved => c \in Holding(k)  BY <1>0, <1>1 DEF Holding
<1>6. \A j \in IdemKeys : j # k => idem'[j] = idem[j]  BY <1>1 DEF GateTypeOK
<1>7. idem'[k] # idem[k] => call[c].reserved  BY <1>1
<1>8. idem'[k] = "stored" => idem[k] = "stored" \/ call[c].at = "ok"  BY <1>1 DEF GateTypeOK
<1>9. KeyIsHeld'
  <2> SUFFICES ASSUME NEW j \in IdemKeys \ lapsed', NEW e \in Holding(j)', NEW f \in Holding(j)'
               PROVE  idem'[j] = "processing" /\ f = e
    BY DEF KeyIsHeld
  <2>1. j \in IdemKeys \ lapsed /\ e \in Holding(j) /\ f \in Holding(j) /\ e # c
    BY <1>1, <1>4
  <2>2. idem[j] = "processing" /\ f = e  BY <2>1 DEF KeyInv, KeyIsHeld
  <2>3. j = k => ~ call[c].reserved  BY <2>1, <1>5 DEF KeyInv, KeyIsHeld
  <2> QED  BY <2>2, <2>3, <1>6, <1>7
<1>10. AnswersAreReal'
  <2>1. \A j \in IdemKeys : idem'[j] = "stored" => succeeded[j] > 0
    BY <1>0, <1>6, <1>8 DEF KeyInv, AnswersAreReal
  <2> QED  BY <2>1, <1>1, <1>2, <1>3 DEF KeyInv, AnswersAreReal
<1> QED  BY <1>9, <1>10 DEF KeyInv

LEMMA KeyStep == GateTypeOK /\ KeyInv /\ [GateNext]_gateVars => KeyInv'
<1> SUFFICES ASSUME GateTypeOK, KeyInv, [GateNext]_gateVars PROVE KeyInv'  OBVIOUS
<1>1. ASSUME NEW c \in Calls, NEW k \in IdemKeys, ArriveWithKey(c, k)  PROVE KeyInv'
  BY <1>1, ArriveWithKeyInv
<1>2. ASSUME NEW c \in Calls, NEW k \in IdemKeys, ArriveUnreserved(c, k)  PROVE KeyInv'
  <2>1. /\ call[c].at = "new" /\ UNCHANGED <<idem, succeeded, lapsed>>
        /\ call'[c] = [at |-> "guards", key |-> k, reserved |-> FALSE]
        /\ \A e \in Calls : e # c => call'[e] = call[e]
    BY <1>2 DEF ArriveUnreserved, CallAt, GateTypeOK
  <2>2. \A j \in IdemKeys : Holding(j)' \subseteq Holding(j)  BY <2>1 DEF Holding
  <2>3. KeyIsHeld'  BY <2>1, <2>2 DEF KeyInv, KeyIsHeld
  <2>4. AnswersAreReal'  BY <2>1 DEF KeyInv, AnswersAreReal
  <2> QED  BY <2>3, <2>4 DEF KeyInv
<1>3. ASSUME NEW c \in Calls, ReadExisting(c)  PROVE KeyInv'
  <2> DEFINE s == CASE idem[call[c].key] = "none" -> "guards"
                    [] idem[call[c].key] = "processing" -> "conflict"
                    [] OTHER -> "replayed"
  <2>1. /\ call[c].at = "read" /\ CallTo(c, s) /\ UNCHANGED <<idem, succeeded, lapsed>>
    BY <1>3 DEF ReadExisting, CallAt
  <2>2. call[c].key \in IdemKeys /\ idem[call[c].key] \in {"none", "processing", "stored"}
    BY DEF GateTypeOK
  <2>3. s \in {"guards", "conflict", "replayed"} /\ (s = "replayed" => idem[call[c].key] = "stored")
    BY <2>2
  <2> HIDE DEF s
  <2>4. s = "replayed" => succeeded[call[c].key] > 0  BY <2>2, <2>3 DEF KeyInv, AnswersAreReal
  <2> QED  BY <2>1, <2>3, <2>4, KeyGoesOn DEF CallStates
<1>4. ASSUME NEW c \in Calls, RateLimitPasses(c)  PROVE KeyInv'
  BY <1>4, KeyGoesOn DEF RateLimitPasses, CallAt, CallStates
<1>5. ASSUME NEW c \in Calls, RateLimited(c)  PROVE KeyInv'
  BY <1>5, KeyGoesOn DEF RateLimited, CallAt, CallStates
<1>6. ASSUME NEW c \in Calls, HandlerRuns(c)  PROVE KeyInv'
  <2>1. call[c].at = "run" /\ call[c].key \in IdemKeys /\ UNCHANGED <<idem, lapsed>>
    BY <1>6 DEF HandlerRuns, CallAt, GateTypeOK
  <2>2. CASE CallTo(c, "ok") /\ succeeded' = [succeeded EXCEPT ![call[c].key] = @ + 1]
    <3>1. succeeded'[call[c].key] > 0  BY <2>1, <2>2 DEF GateTypeOK
    <3>2. \A k \in IdemKeys : succeeded[k] > 0 => succeeded'[k] > 0
      BY <2>1, <2>2 DEF GateTypeOK
    <3> QED  BY <2>1, <2>2, <3>1, <3>2, KeyGoesOn DEF CallStates
  <2>3. CASE CallTo(c, "failed") /\ UNCHANGED succeeded
    BY <2>1, <2>3, KeyGoesOn DEF CallStates
  <2> QED  BY <1>6, <2>2, <2>3 DEF HandlerRuns
<1>7. ASSUME NEW c \in Calls, ResponseFinished(c)  PROVE KeyInv'
  BY <1>7, ResponseFinishedInv
<1>8. ASSUME NEW k \in IdemKeys, ReservationExpires(k)  PROVE KeyInv'
  <2>1. /\ idem' = [idem EXCEPT ![k] = "none"] /\ UNCHANGED <<call, succeeded>>
        /\ lapsed' = IF Holding(k) # {} THEN lapsed \union {k} ELSE lapsed
    BY <1>8 DEF ReservationExpires
  <2>2. \A j \in IdemKeys : Holding(j)' = Holding(j)  BY <2>1 DEF Holding
  <2>3. \A j \in IdemKeys : j # k => idem'[j] = idem[j]  BY <2>1 DEF GateTypeOK
  <2>4. idem'[k] = "none"  BY <2>1 DEF GateTypeOK
  <2>5. KeyIsHeld'  BY <2>1, <2>2, <2>3 DEF KeyInv, KeyIsHeld
  <2>6. AnswersAreReal'  BY <2>1, <2>3, <2>4 DEF KeyInv, AnswersAreReal
  <2> QED  BY <2>5, <2>6 DEF KeyInv
<1>9. CASE ApiCrashes
  <2>1. /\ UNCHANGED <<idem, succeeded, lapsed>>
        /\ \A c \in Calls : (call'[c] = call[c] /\ call[c].at = "new") \/ call'[c].at = "lost"
    BY <1>9 DEF ApiCrashes, CallAt, GateTypeOK
  <2>2. \A k \in IdemKeys : Holding(k)' = {}  BY <2>1 DEF Holding
  <2>3. KeyIsHeld'  BY <2>2 DEF KeyIsHeld
  <2>4. AnswersAreReal'  BY <2>1 DEF KeyInv, AnswersAreReal
  <2> QED  BY <2>3, <2>4 DEF KeyInv
<1>10. CASE (\E w \in Webhooks : SignHook(w) \/ HookArrives(w)) \/ Tick \/ UNCHANGED gateVars
  BY <1>10, KeyQuiet DEF SignHook, HookArrives, Tick, gateVars
<1> QED
  BY <1>1, <1>2, <1>3, <1>4, <1>5, <1>6, <1>7, <1>8, <1>9, <1>10 DEF GateNext, CallStep

(* SET NX makes an idempotency key a lock (idempotency.middleware.ts): at   *)
(* most one request works under a key whose reservation did not run out     *)
(* under it, and every answer that is replayed is that of a handler that    *)
(* succeeded.                                                               *)
THEOREM KeysAreLocks == GateSpec => []IdempotencyHolds
<1>1. KeyInv => IdempotencyHolds
  <2> SUFFICES ASSUME KeyInv PROVE IdempotencyHolds  OBVIOUS
  <2>1. ASSUME NEW k \in IdemKeys \ lapsed  PROVE Cardinality(Holding(k)) <= 1
    <3>1. CASE Holding(k) = {}
      <4>1. Cardinality({}) = 0  BY FS_EmptySet
      <4> QED  BY <3>1, <4>1
    <3>2. CASE Holding(k) # {}
      <4>1. PICK c : c \in Holding(k)  BY <3>2
      <4>2. Holding(k) = {c}  BY <4>1 DEF KeyInv, KeyIsHeld
      <4>3. Cardinality({c}) = 1  BY FS_Singleton
      <4> QED  BY <4>2, <4>3
    <3> QED  BY <3>1, <3>2
  <2>2. ReplayedMeansSucceeded  BY DEF KeyInv, AnswersAreReal, ReplayedMeansSucceeded, CallAt
  <2> QED  BY <2>1, <2>2 DEF IdempotencyHolds, OneCallHoldsTheKey
<1> QED  BY <1>1, KeyInit, KeyStep, GateTypeInit, GateTypeStep, PTL DEF GateSpec

-----------------------------------------------------------------------------
(* RequestGate: the sliding window *)

(* No entry is later than the clock, and the window that ends at any tick  *)
(* holds at most Limit entries.                                             *)
BudgetInv ==
    /\ \A d \in Dimensions : \A i \in DOMAIN admitted[d] : admitted[d][i] <= clock
    /\ \A d \in Dimensions : \A t \in Nat : InWindow(d, t) <= Limit

(* The entries of a window are some of the entries of the sorted set. *)
LEMMA EntriesFinite ==
    ASSUME GateTypeOK, NEW d \in Dimensions, NEW t
    PROVE  IsFiniteSet(Entries(d, t)) /\ Cardinality(Entries(d, t)) \in Nat
<1>1. admitted[d] \in Seq(Nat)  BY DEF GateTypeOK
<1>2. DOMAIN admitted[d] = 1 .. Len(admitted[d]) /\ Len(admitted[d]) \in Nat
  BY <1>1, LenProperties
<1>3. IsFiniteSet(1 .. Len(admitted[d]))  BY <1>2, FS_Interval
<1>4. Entries(d, t) \subseteq 1 .. Len(admitted[d])  BY <1>2 DEF Entries
<1> QED  BY <1>3, <1>4, FS_Subset, FS_CardinalityType

(* An entry that is added when the limit allows it keeps every window within *)
(* the limit: those that end before the clock do not see it, the others see  *)
(* what the limit saw, and it.                                               *)
LEMMA AdmitKeepsBudget ==
    ASSUME GateTypeOK, BudgetInv, NEW ds, \A d \in ds \cap Dimensions : Allowed(d), Admit(ds),
           clock' = clock
    PROVE  BudgetInv'
<1>1. ASSUME NEW d \in Dimensions, d \notin ds
      PROVE  /\ \A i \in DOMAIN admitted'[d] : admitted'[d][i] <= clock
             /\ \A t \in Nat : InWindow(d, t)' <= Limit
  <2>1. admitted'[d] = admitted[d]  BY <1>1 DEF Admit
  <2>2. \A t \in Nat : Entries(d, t)' = Entries(d, t)  BY <2>1 DEF Entries
  <2> QED  BY <2>1, <2>2 DEF BudgetInv, InWindow
<1>2. ASSUME NEW d \in Dimensions, d \in ds
      PROVE  /\ \A i \in DOMAIN admitted'[d] : admitted'[d][i] <= clock
             /\ \A t \in Nat : InWindow(d, t)' <= Limit
  <2> DEFINE s == admitted[d]
             r == Append(s, clock)
             n == Len(s)
  <2>1. s \in Seq(Nat) /\ clock \in Nat  BY DEF GateTypeOK
  <2>2. admitted'[d] = r  BY <1>2 DEF Admit
  <2>3. /\ r \in Seq(Nat) /\ Len(r) = n + 1
        /\ \A i \in 1 .. n : r[i] = s[i]
        /\ r[n + 1] = clock
    BY <2>1, AppendProperties
  <2>4. n \in Nat /\ DOMAIN s = 1 .. n /\ DOMAIN r = 1 .. n + 1  BY <2>1, <2>3, LenProperties
  <2>5. \A i \in DOMAIN s : s[i] \in Nat /\ s[i] <= clock
    BY <2>1, <2>4, ElementOfSeq DEF BudgetInv
  <2>6. Cardinality(Entries(d, clock)) < Limit  BY <1>2 DEF Allowed, InWindow
  <2> HIDE DEF r, s, n
  <2>7. \A i \in DOMAIN r : (i \in DOMAIN s /\ r[i] = s[i]) \/ (i = n + 1 /\ r[i] = clock)
    BY <2>3, <2>4
  <2>8. \A i \in DOMAIN r : r[i] <= clock  BY <2>1, <2>5, <2>7
  <2>9. ASSUME NEW t \in Nat  PROVE InWindow(d, t)' <= Limit
    <3>1. CASE t < clock
      <4>1. Entries(d, t)' \subseteq Entries(d, t)
        <5> SUFFICES ASSUME NEW i \in DOMAIN r, r[i] + Window > t, r[i] <= t
                     PROVE  i \in DOMAIN s /\ r[i] = s[i]
          BY <2>2 DEF Entries, s
        <5>1. r[i] # clock  BY <3>1, <2>1
        <5> QED  BY <5>1, <2>7
      <4>2. Cardinality(Entries(d, t)) <= Limit  BY DEF BudgetInv, InWindow
      <4>3. Cardinality(Entries(d, t)') <= Cardinality(Entries(d, t))
        BY <4>1, EntriesFinite, FS_Subset
      <4>4. Cardinality(Entries(d, t)') \in Nat
        BY <4>1, EntriesFinite, FS_Subset, FS_CardinalityType
      <4>5. Cardinality(Entries(d, t)) \in Nat  BY EntriesFinite
      <4> QED  BY <4>2, <4>3, <4>4, <4>5, GateLimits DEF InWindow
    <3>2. CASE ~ (t < clock)
      <4> DEFINE T == Entries(d, clock) \union {n + 1}
      <4>1. Entries(d, t)' \subseteq T
        <5> SUFFICES ASSUME NEW i \in DOMAIN r, r[i] + Window > t, r[i] <= t, i # n + 1
                     PROVE  i \in DOMAIN s /\ s[i] + Window > clock /\ s[i] <= clock
          BY <2>2 DEF Entries, s
        <5>1. i \in DOMAIN s /\ r[i] = s[i]  BY <2>7
        <5> QED  BY <5>1, <2>1, <2>5, <3>2, GateLimits
      <4>2. IsFiniteSet(Entries(d, clock)) /\ Cardinality(Entries(d, clock)) \in Nat
        BY EntriesFinite
      <4>3. IsFiniteSet(T) /\ (Cardinality(T) = Cardinality(Entries(d, clock))
                               \/ Cardinality(T) = Cardinality(Entries(d, clock)) + 1)
        BY <4>2, FS_AddElement
      <4> HIDE DEF T
      <4>4. Cardinality(Entries(d, t)') <= Cardinality(T)  BY <4>1, <4>3, FS_Subset
      <4>5. Cardinality(Entries(d, t)') \in Nat  BY <4>1, <4>3, FS_Subset, FS_CardinalityType
      <4>6. Cardinality(T) <= Limit  BY <2>6, <4>2, <4>3, GateLimits
      <4>7. Cardinality(T) \in Nat  BY <4>3, FS_CardinalityType
      <4> QED  BY <4>4, <4>5, <4>6, <4>7, GateLimits DEF InWindow
    <3> QED  BY <3>1, <3>2
  <2> QED  BY <2>2, <2>8, <2>9
<1> QED  BY <1>1, <1>2 DEF BudgetInv

LEMMA BudgetInit == GateInit => BudgetInv
<1> SUFFICES ASSUME GateInit PROVE BudgetInv  OBVIOUS
<1>1. \A d \in Dimensions : DOMAIN admitted[d] = {}  BY EmptySeq DEF GateInit
<1>2. \A d \in Dimensions : \A t \in Nat : Entries(d, t) = {}  BY <1>1 DEF Entries
<1>3. Cardinality({}) = 0  BY FS_EmptySet
<1>4. \A d \in Dimensions : \A t \in Nat : InWindow(d, t) = 0  BY <1>2, <1>3 DEF InWindow
<1>5. 0 <= Limit  BY GateLimits
<1> QED  BY <1>1, <1>4, <1>5 DEF BudgetInv

LEMMA BudgetStep == GateTypeOK /\ BudgetInv /\ [GateNext]_gateVars => BudgetInv'
<1> SUFFICES ASSUME GateTypeOK, BudgetInv, [GateNext]_gateVars PROVE BudgetInv'  OBVIOUS
<1>1. ASSUME UNCHANGED admitted, clock' \in Nat, clock' >= clock  PROVE BudgetInv'
  <2>1. \A d \in Dimensions : \A i \in DOMAIN admitted[d] : admitted[d][i] \in Nat
    BY ElementOfSeq, LenProperties DEF GateTypeOK
  <2>2. \A d \in Dimensions : \A i \in DOMAIN admitted[d] : admitted[d][i] <= clock'
    <3> SUFFICES ASSUME NEW d \in Dimensions, NEW i \in DOMAIN admitted[d]
                 PROVE  admitted[d][i] <= clock'
      OBVIOUS
    <3>1. admitted[d][i] <= clock /\ admitted[d][i] \in Nat /\ clock \in Nat
      BY <2>1 DEF BudgetInv, GateTypeOK
    <3> QED  BY <3>1, <1>1
  <2>3. \A d \in Dimensions : \A t \in Nat : InWindow(d, t)' = InWindow(d, t)
    BY <1>1 DEF InWindow, Entries
  <2> QED  BY <1>1, <2>2, <2>3 DEF BudgetInv
<1>2. ASSUME NEW c \in Calls, RateLimitPasses(c)  PROVE BudgetInv'
  <2>1. CASE Allowed("user") /\ Admit({"user"})
    <3>1. \A d \in {"user"} \cap Dimensions : Allowed(d)  BY <2>1
    <3>2. clock' = clock  BY <1>2 DEF RateLimitPasses
    <3> QED  BY <2>1, <3>1, <3>2, AdmitKeepsBudget
  <2>2. CASE UNCHANGED admitted
    BY <1>1, <1>2, <2>2 DEF RateLimitPasses, GateTypeOK
  <2> QED  BY <1>2, <2>1, <2>2 DEF RateLimitPasses
<1>3. ASSUME NEW w \in Webhooks, HookArrives(w)  PROVE BudgetInv'
  <2>1. clock' = clock  BY <1>3 DEF HookArrives
  <2>2. CASE ~Allowed("global")
    <3>1. Admit({})  BY <1>3, <2>2 DEF HookArrives
    <3> QED  BY <2>1, <3>1, AdmitKeepsBudget
  <2>3. CASE Allowed("global") /\ ~Allowed("ip")
    <3>1. Admit({"global"})  BY <1>3, <2>3 DEF HookArrives
    <3>2. \A d \in {"global"} \cap Dimensions : Allowed(d)  BY <2>3
    <3> QED  BY <2>1, <3>1, <3>2, AdmitKeepsBudget
  <2>4. CASE Allowed("global") /\ Allowed("ip") /\ ~Allowed("space")
    <3>1. Admit({"global", "ip"})  BY <1>3, <2>4 DEF HookArrives
    <3>2. \A d \in {"global", "ip"} \cap Dimensions : Allowed(d)  BY <2>4
    <3> QED  BY <2>1, <3>1, <3>2, AdmitKeepsBudget
  <2>5. CASE Allowed("global") /\ Allowed("ip") /\ Allowed("space")
    <3>1. Admit({"global", "ip", "space"})  BY <1>3, <2>5 DEF HookArrives
    <3>2. \A d \in {"global", "ip", "space"} \cap Dimensions : Allowed(d)  BY <2>5
    <3> QED  BY <2>1, <3>1, <3>2, AdmitKeepsBudget
  <2> QED  BY <2>2, <2>3, <2>4, <2>5
<1>4. CASE Tick  BY <1>1, <1>4 DEF Tick, GateTypeOK
<1>5. ASSUME UNCHANGED <<admitted, clock>>  PROVE BudgetInv'
  BY <1>1, <1>5 DEF GateTypeOK
<1>6. ASSUME NEW c \in Calls, CallStep(c), ~ RateLimitPasses(c)  PROVE BudgetInv'
  BY <1>5, <1>6 DEF CallStep, ArriveWithKey, ArriveUnreserved, ReadExisting, RateLimited,
                    HandlerRuns, ResponseFinished
<1>7. CASE (\E k \in IdemKeys : ReservationExpires(k)) \/ (\E w \in Webhooks : SignHook(w)) \/ ApiCrashes
  BY <1>5, <1>7 DEF ReservationExpires, SignHook, ApiCrashes
<1>8. CASE UNCHANGED gateVars  BY <1>5, <1>8 DEF gateVars
<1> QED  BY <1>2, <1>3, <1>4, <1>6, <1>7, <1>8 DEF GateNext

-----------------------------------------------------------------------------
(* RequestGate: the signed webhook *)

(* A call is signed at most MaxSkew ticks ahead of the clock; once it has   *)
(* passed, its nonce is kept for longer than its timestamp is fresh.        *)
HookInv ==
    \A w \in Webhooks :
        /\ hook[w] <= clock + MaxSkew
        /\ accepted[w] \in {0, 1}
        /\ accepted[w] = 1 => hook[w] # 0 /\ nonce[w] > hook[w] + SignatureWindow

LEMMA HookStep == GateTypeOK /\ HookInv /\ [GateNext]_gateVars => HookInv'
<1> SUFFICES ASSUME GateTypeOK, HookInv, [GateNext]_gateVars PROVE HookInv'  OBVIOUS
<1>0. /\ clock \in Nat /\ hook \in [Webhooks -> Nat] /\ nonce \in [Webhooks -> Nat]
      /\ accepted \in [Webhooks -> Nat]
  BY DEF GateTypeOK
<1>1. ASSUME NEW w \in Webhooks, SignHook(w)  PROVE HookInv'
  <2>1. PICK s \in 0 .. MaxSkew : hook' = [hook EXCEPT ![w] = clock + s]  BY <1>1 DEF SignHook
  <2>2. hook[w] = 0 /\ UNCHANGED <<clock, nonce, accepted>>  BY <1>1 DEF SignHook
  <2>3. accepted[w] = 0  BY <2>2 DEF HookInv
  <2>4. hook'[w] <= clock + MaxSkew  BY <1>0, <2>1, GateLimits
  <2> QED  BY <1>0, <2>1, <2>2, <2>3, <2>4 DEF HookInv
<1>2. ASSUME NEW w \in Webhooks, HookArrives(w)  PROVE HookInv'
  <2>1. /\ hook[w] # 0 /\ Fresh(w) /\ NonceIsNew(w)
        /\ nonce' = [nonce EXCEPT ![w] = clock + NonceTtl]
        /\ accepted' = [accepted EXCEPT ![w] = @ + 1]
        /\ UNCHANGED <<clock, hook>>
    BY <1>2 DEF HookArrives
  <2>2. accepted[w] # 1
    <3>1. clock <= hook[w] + SignatureWindow /\ nonce[w] <= clock  BY <2>1 DEF Fresh, NonceIsNew
    <3>2. hook[w] \in Nat /\ nonce[w] \in Nat  BY <1>0
    <3> QED  BY <1>0, <3>1, <3>2, GateLimits DEF HookInv
  <2>3. accepted'[w] = 1  BY <1>0, <2>1, <2>2 DEF HookInv
  <2>4. nonce'[w] > hook[w] + SignatureWindow
    <3>1. hook[w] <= clock + MaxSkew /\ hook[w] \in Nat  BY <1>0 DEF HookInv
    <3>2. nonce'[w] = clock + NonceTtl  BY <1>0, <2>1
    <3> QED  BY <1>0, <3>1, <3>2, GateLimits, NonceOutlives
  <2> QED  BY <1>0, <2>1, <2>3, <2>4 DEF HookInv
<1>3. CASE Tick
  <2>1. clock' = clock + 1 /\ UNCHANGED <<hook, nonce, accepted>>  BY <1>3 DEF Tick
  <2>2. \A w \in Webhooks : hook[w] \in Nat /\ hook[w] <= clock + MaxSkew  BY <1>0 DEF HookInv
  <2>3. \A w \in Webhooks : hook'[w] <= clock' + MaxSkew  BY <1>0, <2>1, <2>2, GateLimits
  <2> QED  BY <2>1, <2>3 DEF HookInv
<1>4. ASSUME UNCHANGED <<clock, hook, nonce, accepted>>  PROVE HookInv'
  BY <1>4 DEF HookInv
<1>5. ASSUME NEW c \in Calls, CallStep(c)  PROVE HookInv'
  BY <1>4, <1>5 DEF CallStep, ArriveWithKey, ArriveUnreserved, ReadExisting, RateLimited,
                    RateLimitPasses, HandlerRuns, ResponseFinished
<1>6. CASE (\E k \in IdemKeys : ReservationExpires(k)) \/ ApiCrashes
  BY <1>4, <1>6 DEF ReservationExpires, ApiCrashes
<1>7. CASE UNCHANGED gateVars  BY <1>4, <1>7 DEF gateVars
<1> QED  BY <1>1, <1>2, <1>3, <1>5, <1>6, <1>7 DEF GateNext

(* The sliding window admits at most Limit requests, wherever the window    *)
(* lies, and a signed webhook call passes the guards once, however often it *)
(* is delivered, because the nonce outlives the signature (rate-limit.  *)
(* guard.ts, bridge-auth.guard.ts).                                       *)
THEOREM GuardsKeepTheirWord == GateSpec => []GuardsHold
<1>1. GateInit => HookInv  BY GateLimits DEF GateInit, HookInv
<1>2. BudgetInv /\ HookInv => GuardsHold
  <2> SUFFICES ASSUME BudgetInv, HookInv PROVE GuardsHold  OBVIOUS
  <2>1. WindowBudget
    <3>1. \A t \in 1 .. MaxClock : t \in Nat  BY GateLimits
    <3> QED  BY <3>1 DEF WindowBudget, BudgetInv
  <2>2. HookAcceptedOnce  BY DEF HookAcceptedOnce, HookInv
  <2> QED  BY <2>1, <2>2 DEF GuardsHold
<1> QED
  BY <1>1, <1>2, BudgetInit, BudgetStep, HookStep, GateTypeInit, GateTypeStep, PTL DEF GateSpec

-----------------------------------------------------------------------------
(* ApiAccess *)

InvocationStates == {"new", "owner", "find", "add", "count", "forwarded", "unread", "ended"}
Audits == {"none", "mcp.tool.error", "mcp.tool.denied", "mcp.rate_limit.exceeded", "mcp.tool.invoked"}

AccessTypeOK ==
    /\ token \in [AccessTokens -> {"none", "live", "expired", "revoked"}]
    /\ revocations \in [AccessTokens -> Nat]
    /\ admin \in [Admins -> [op : {"idle", "revoke", "create"}, on : AccessTokens]]
    /\ invoke \in [Invocations -> [at : InvocationStates, by : AccessTokens, policy : {"open"}]]
    /\ entries \in [AccessTokens -> SUBSET Invocations]
    /\ audited \in [Invocations -> Audits]

LEMMA AccessTypeInit == AccessInit => AccessTypeOK
<1> SUFFICES ASSUME AccessInit PROVE AccessTypeOK  OBVIOUS
<1>1. (CHOOSE t \in AccessTokens : TRUE) \in AccessTokens  BY AccessLimits
<1> QED
  BY <1>1 DEF AccessInit, AccessTypeOK, NoAdmin, NewInvocation, InvocationStates, Audits

(* What InvTo and InvEnds write. *)
LEMMA InvMoves ==
    ASSUME AccessTypeOK, NEW i \in Invocations, NEW s \in InvocationStates, InvTo(i, s)
    PROVE  /\ invoke'[i].at = s /\ invoke'[i].by = invoke[i].by
           /\ \A j \in Invocations : j # i => invoke'[j] = invoke[j]
           /\ invoke' \in [Invocations -> [at : InvocationStates, by : AccessTokens, policy : {"open"}]]
<1>1. invoke[i] \in [at : InvocationStates, by : AccessTokens, policy : {"open"}]  BY DEF AccessTypeOK
<1>2. invoke' = [invoke EXCEPT ![i] = [invoke[i] EXCEPT !.at = s]]  BY DEF InvTo
<1>3. [invoke[i] EXCEPT !.at = s] \in [at : InvocationStates, by : AccessTokens, policy : {"open"}]
  BY <1>1
<1>4. invoke'[i] = [invoke[i] EXCEPT !.at = s]  BY <1>2 DEF AccessTypeOK
<1>5. \A j \in Invocations : j # i => invoke'[j] = invoke[j]  BY <1>2 DEF AccessTypeOK
<1>6. invoke' \in [Invocations -> [at : InvocationStates, by : AccessTokens, policy : {"open"}]]
  BY <1>2, <1>3 DEF AccessTypeOK
<1> QED  BY <1>1, <1>4, <1>5, <1>6

LEMMA AccessTypeStep == AccessTypeOK /\ [AccessNext]_accessVars => AccessTypeOK'
<1> SUFFICES ASSUME AccessTypeOK, [AccessNext]_accessVars PROVE AccessTypeOK'  OBVIOUS
<1>0. NoAdmin \in [op : {"idle", "revoke", "create"}, on : AccessTokens]
  BY AccessLimits DEF NoAdmin
<1> USE DEF AccessTypeOK
<1>1. ASSUME NEW i \in Invocations, InvocationStep(i)  PROVE AccessTypeOK'
  <2> USE DEF InvTo, InvEnds, InvocationStates, Audits
  <2>1. ASSUME NEW t \in AccessTokens, ReadToken(i, t)  PROVE AccessTypeOK'
    <3>1. invoke' \in [Invocations -> [at : InvocationStates, by : AccessTokens, policy : {"open"}]]
      BY <2>1 DEF ReadToken, NewInvocation
    <3> QED  BY <2>1, <3>1 DEF ReadToken
  <2>2. ASSUME NEW t \in AccessTokens, EntryLeaves(t, i)  PROVE AccessTypeOK'
    BY <2>2 DEF EntryLeaves
  <2>3. CASE ReadOwner(i)  BY <2>3 DEF ReadOwner
  <2>4. CASE FindTool(i)
    <3>1. \/ \E x \in {"mcp.tool.error", "mcp.tool.denied"} : InvEnds(i, x)
          \/ InvTo(i, "add") /\ UNCHANGED audited
      BY <2>4 DEF FindTool
    <3>2. UNCHANGED <<token, revocations, admin, entries>>  BY <2>4 DEF FindTool
    <3>3. \E s \in InvocationStates : InvTo(i, s)  BY <3>1
    <3>4. invoke' \in [Invocations -> [at : InvocationStates, by : AccessTokens, policy : {"open"}]]
      BY <3>3, InvMoves
    <3>5. audited' \in [Invocations -> Audits]  BY <3>1
    <3> QED  BY <3>2, <3>4, <3>5
  <2>5. CASE LimiterAdds(i)
    <3>1. entries' \in [AccessTokens -> SUBSET Invocations]  BY <2>5 DEF LimiterAdds
    <3>2. InvTo(i, "count") /\ UNCHANGED <<token, revocations, admin, audited>>
      BY <2>5 DEF LimiterAdds
    <3>3. invoke' \in [Invocations -> [at : InvocationStates, by : AccessTokens, policy : {"open"}]]
      BY <3>2, InvMoves
    <3> QED  BY <3>1, <3>2, <3>3
  <2>6. CASE LimiterCounts(i) \/ ServerAnswers(i)
    <3>1. \/ \E x \in Audits : InvEnds(i, x)
          \/ \E s \in {"forwarded", "unread"} : InvTo(i, s) /\ UNCHANGED audited
      BY <2>6 DEF LimiterCounts, ServerAnswers
    <3>2. UNCHANGED <<token, revocations, admin, entries>>
      BY <2>6 DEF LimiterCounts, ServerAnswers
    <3>3. \E s \in InvocationStates : InvTo(i, s)  BY <3>1
    <3>4. invoke' \in [Invocations -> [at : InvocationStates, by : AccessTokens, policy : {"open"}]]
      BY <3>3, InvMoves
    <3>5. audited' \in [Invocations -> Audits]  BY <3>1
    <3> QED  BY <3>2, <3>4, <3>5
  <2> QED  BY <1>1, <2>1, <2>2, <2>3, <2>4, <2>5, <2>6 DEF InvocationStep
<1>2. ASSUME NEW a \in Admins, AdminStep(a)  PROVE AccessTypeOK'
  <2>1. ASSUME NEW t \in AccessTokens, RevokeFinds(a, t)  PROVE AccessTypeOK'
    BY <2>1 DEF RevokeFinds
  <2>2. CASE RevokeWrites(a)
    <3>1. /\ admin' = [admin EXCEPT ![a] = NoAdmin]
          /\ UNCHANGED <<invoke, entries, audited>>
          /\ \/ UNCHANGED <<token, revocations>>
             \/ /\ token' = [token EXCEPT ![admin[a].on] = "revoked"]
                /\ revocations' = [revocations EXCEPT ![admin[a].on] = @ + 1]
      BY <2>2 DEF RevokeWrites
    <3>2. admin' \in [Admins -> [op : {"idle", "revoke", "create"}, on : AccessTokens]]
      BY <1>0, <3>1
    <3>3. admin[a].on \in AccessTokens /\ revocations[admin[a].on] + 1 \in Nat  OBVIOUS
    <3> QED  BY <3>1, <3>2, <3>3
  <2>3. CASE CreateToolFinds(a)  BY <2>3 DEF CreateToolFinds
  <2>4. CASE CreateToolInserts(a)
    <3>1. /\ admin' = [admin EXCEPT ![a] = NoAdmin]
          /\ UNCHANGED <<token, revocations, invoke, entries, audited>>
      BY <2>4 DEF CreateToolInserts
    <3>2. admin' \in [Admins -> [op : {"idle", "revoke", "create"}, on : AccessTokens]]
      BY <1>0, <3>1
    <3> QED  BY <3>1, <3>2
  <2> QED  BY <1>2, <2>1, <2>2, <2>3, <2>4 DEF AdminStep
<1>3. ASSUME NEW t \in AccessTokens, CreateToken(t) \/ TokenExpires(t)  PROVE AccessTypeOK'
  BY <1>3 DEF CreateToken, TokenExpires
<1>4. CASE \/ \E s \in {"active", "disabled"} : SetOwner(s)
           \/ \E p \in {"open", "closed"} : UpdatePolicy(p)
           \/ DeleteTool \/ UNCHANGED accessVars
  BY <1>4 DEF SetOwner, UpdatePolicy, DeleteTool, accessVars
<1> QED  BY <1>1, <1>2, <1>3, <1>4 DEF AccessNext

(* An entry of the limiter belongs to an invocation of the token, whose     *)
(* ZADD is done; only an invocation that ended has an audit record.          *)
WithEntry == {"count", "forwarded", "unread", "ended"}

EntriesAreTheirs ==
    \A t \in AccessTokens : \A i \in entries[t] : invoke[i].by = t /\ invoke[i].at \in WithEntry

AuditedAtEnd == \A i \in Invocations : audited[i] = "none" \/ invoke[i].at = "ended"

AccessInv == EntriesAreTheirs /\ AuditedAtEnd /\ McpBudget /\ RevokedOnce

Through(t) == {i \in entries[t] : Forwarded(i)}

LEMMA ThroughFinite ==
    ASSUME AccessTypeOK, NEW t \in AccessTokens
    PROVE  /\ IsFiniteSet(entries[t]) /\ IsFiniteSet(Through(t))
           /\ Cardinality(entries[t]) \in Nat /\ Cardinality(Through(t)) \in Nat
           /\ Cardinality(Through(t)) <= Cardinality(entries[t])
BY AccessLimits, FS_Subset, FS_CardinalityType DEF AccessTypeOK, Through

(* A smaller set of a token's invocations is within the limit. *)
LEMMA FewerAreThrough ==
    ASSUME NEW S, IsFiniteSet(S), Cardinality(S) <= McpLimit, NEW T \in SUBSET S
    PROVE  Cardinality(T) <= McpLimit
<1>1. IsFiniteSet(T) /\ Cardinality(T) <= Cardinality(S)  BY FS_Subset
<1>2. Cardinality(T) \in Nat /\ Cardinality(S) \in Nat  BY <1>1, FS_CardinalityType
<1> QED  BY <1>1, <1>2, AccessLimits

(* A step of one invocation: what it must respect to keep the invariant.    *)
LEMMA OneInvocation ==
    ASSUME AccessTypeOK, AccessInv, NEW i \in Invocations,
           \A j \in Invocations : j # i => invoke'[j] = invoke[j] /\ audited'[j] = audited[j],
           \A t \in AccessTokens : entries'[t] \subseteq entries[t] \union {i},
           \A t \in AccessTokens : i \in entries'[t] => invoke'[i].by = t /\ invoke'[i].at \in WithEntry,
           audited'[i] = "none" \/ invoke'[i].at = "ended",
           \/ ~ Forwarded(i)'
           \/ Forwarded(i) /\ \A t \in AccessTokens : entries'[t] \subseteq entries[t]
           \/ /\ ~ OverLimit(Cardinality(entries[invoke[i].by])) /\ invoke[i].by = invoke'[i].by
              /\ \A t \in AccessTokens : entries'[t] \subseteq entries[t],
           UNCHANGED <<token, revocations>>
    PROVE  AccessInv'
<1>1. EntriesAreTheirs'
  <2> SUFFICES ASSUME NEW t \in AccessTokens, NEW j \in entries'[t]
               PROVE  invoke'[j].by = t /\ invoke'[j].at \in WithEntry
    BY DEF EntriesAreTheirs
  <2>1. j # i => j \in entries[t] /\ j \in Invocations  BY DEF AccessTypeOK
  <2> QED  BY <2>1 DEF AccessInv, EntriesAreTheirs
<1>2. AuditedAtEnd'  BY DEF AccessInv, AuditedAtEnd
<1>3. RevokedOnce'  BY DEF AccessInv, RevokedOnce
<1>4. ASSUME NEW t \in AccessTokens  PROVE Cardinality(Through(t)') <= McpLimit
  <2>1. Cardinality(Through(t)) <= McpLimit  BY DEF AccessInv, McpBudget, Through
  <2>2. \A j \in Invocations : j # i => (Forwarded(j)' <=> Forwarded(j))  BY DEF Forwarded
  <2>3. entries[t] \subseteq Invocations  BY DEF AccessTypeOK
  <2>4. CASE Through(t)' \subseteq Through(t)
    BY <2>1, <2>4, ThroughFinite, FewerAreThrough
  <2>5. CASE ~ (Through(t)' \subseteq Through(t))
    <3>1. i \in entries'[t] /\ Forwarded(i)' /\ ~ (Forwarded(i) /\ i \in entries[t])
      BY <2>2, <2>3, <2>5 DEF Through
    <3>2. ~ OverLimit(Cardinality(entries[t])) /\ entries'[t] \subseteq entries[t]
      BY <3>1
    <3>3. Through(t)' \subseteq entries[t]  BY <3>2 DEF Through
    <3>4. Cardinality(entries[t]) <= McpLimit
      BY <3>2, ThroughFinite, AccessLimits DEF OverLimit
    <3> QED  BY <3>3, <3>4, ThroughFinite, FewerAreThrough
  <2> QED  BY <2>4, <2>5
<1>5. McpBudget'  BY <1>4 DEF McpBudget, Through
<1> QED  BY <1>1, <1>2, <1>3, <1>5 DEF AccessInv

LEMMA InvocationInv ==
    ASSUME AccessTypeOK, AccessInv, NEW i \in Invocations, InvocationStep(i)
    PROVE  AccessInv'
<1>0. /\ invoke[i] \in [at : InvocationStates, by : AccessTokens, policy : {"open"}]
      /\ \A t \in AccessTokens : entries[t] \subseteq Invocations
      /\ audited[i] = "none" \/ invoke[i].at = "ended"
      /\ \A t \in AccessTokens : i \in entries[t] => invoke[i].by = t /\ invoke[i].at \in WithEntry
  BY DEF AccessTypeOK, AccessInv, AuditedAtEnd, EntriesAreTheirs
<1>1. ASSUME NEW t \in AccessTokens, ReadToken(i, t)  PROVE AccessInv'
  <2>1. /\ invoke[i].at = "new" /\ invoke'[i].at \in {"owner", "ended"}
        /\ \A j \in Invocations : j # i => invoke'[j] = invoke[j]
        /\ UNCHANGED <<token, revocations, entries, audited>>
    BY <1>1 DEF ReadToken, InvAt, AccessTypeOK
  <2>2. \A u \in AccessTokens : i \notin entries[u]  BY <1>0, <2>1 DEF WithEntry
  <2>3. ~ Forwarded(i)'  BY <1>0, <2>1 DEF Forwarded
  <2> QED  BY <1>0, <2>1, <2>2, <2>3, OneInvocation
<1>2. ASSUME NEW t \in AccessTokens, EntryLeaves(t, i)  PROVE AccessInv'
  <2>1. /\ UNCHANGED <<token, revocations, invoke, audited>>
        /\ \A u \in AccessTokens : entries'[u] \subseteq entries[u]
    BY <1>2 DEF EntryLeaves, AccessTypeOK
  <2>2. Forwarded(i)' <=> Forwarded(i)  BY <2>1 DEF Forwarded
  <2> QED  BY <1>0, <2>1, <2>2, OneInvocation
<1>3. ASSUME ReadOwner(i) \/ FindTool(i)  PROVE AccessInv'
  <2>1. PICK s \in {"ended", "find", "add"} : InvTo(i, s) /\ (s # "ended" => UNCHANGED audited)
    BY <1>3 DEF ReadOwner, FindTool, InvEnds
  <2>2. /\ invoke[i].at \in {"owner", "find"} /\ UNCHANGED <<token, revocations, entries>>
        /\ audited'[i] # "mcp.tool.invoked"
        /\ \A j \in Invocations : j # i => audited'[j] = audited[j]
    BY <1>0, <1>3 DEF ReadOwner, FindTool, InvEnds, InvAt, AccessTypeOK
  <2>3. /\ invoke'[i].at = s /\ \A j \in Invocations : j # i => invoke'[j] = invoke[j]
    BY <2>1, InvMoves DEF InvocationStates
  <2>4. \A t \in AccessTokens : i \notin entries[t]  BY <1>0, <2>2 DEF WithEntry
  <2>5. ~ Forwarded(i)'  BY <2>2, <2>3 DEF Forwarded
  <2> QED  BY <1>0, <2>1, <2>2, <2>3, <2>4, <2>5, OneInvocation
<1>4. CASE LimiterAdds(i)
  <2>1. /\ invoke[i].at = "add" /\ InvTo(i, "count") /\ UNCHANGED <<token, revocations, audited>>
        /\ entries' = [entries EXCEPT ![invoke[i].by] = @ \union {i}]
    BY <1>4 DEF LimiterAdds, InvAt
  <2>2. /\ invoke'[i].at = "count" /\ invoke'[i].by = invoke[i].by
        /\ \A j \in Invocations : j # i => invoke'[j] = invoke[j]
    BY <2>1, InvMoves DEF InvocationStates
  <2>3. \A t \in AccessTokens : /\ entries'[t] \subseteq entries[t] \union {i}
                                /\ t # invoke[i].by => entries'[t] = entries[t]
    BY <2>1 DEF AccessTypeOK
  <2>4. \A t \in AccessTokens : i \notin entries[t]  BY <1>0, <2>1 DEF WithEntry
  <2>5. ~ Forwarded(i)' /\ audited'[i] = "none"  BY <1>0, <2>1, <2>2 DEF Forwarded
  <2>6. \A t \in AccessTokens : i \in entries'[t] => invoke'[i].by = t /\ invoke'[i].at \in WithEntry
    BY <2>2, <2>3, <2>4 DEF WithEntry
  <2> QED  BY <2>1, <2>2, <2>3, <2>5, <2>6, OneInvocation
<1>5. CASE LimiterCounts(i)
  <2>1. PICK s \in {"ended", "forwarded"} :
            /\ InvTo(i, s) /\ (s # "ended" => UNCHANGED audited)
            /\ s = "forwarded" => ~ OverLimit(Cardinality(entries[invoke[i].by]))
    BY <1>5 DEF LimiterCounts, InvEnds
  <2>2. /\ UNCHANGED <<token, revocations, entries>> /\ invoke[i].at = "count"
        /\ audited'[i] # "mcp.tool.invoked"
        /\ \A j \in Invocations : j # i => audited'[j] = audited[j]
    BY <1>0, <1>5 DEF LimiterCounts, InvEnds, InvAt, AccessTypeOK
  <2>3. /\ invoke'[i].at = s /\ invoke'[i].by = invoke[i].by
        /\ \A j \in Invocations : j # i => invoke'[j] = invoke[j]
    BY <2>1, InvMoves DEF InvocationStates
  <2>4. s = "ended" => ~ Forwarded(i)'  BY <2>2, <2>3 DEF Forwarded
  <2>5. \A t \in AccessTokens : i \in entries'[t] => invoke'[i].by = t /\ invoke'[i].at \in WithEntry
    BY <1>0, <2>2, <2>3 DEF WithEntry
  <2>6. audited'[i] = "none" \/ invoke'[i].at = "ended"  BY <1>0, <2>1, <2>2, <2>3
  <2> QED  BY <2>1, <2>2, <2>3, <2>4, <2>5, <2>6, OneInvocation
<1>6. CASE ServerAnswers(i)
  <2>1. PICK s \in {"ended", "unread"} : InvTo(i, s) /\ (s # "ended" => UNCHANGED audited)
    BY <1>6 DEF ServerAnswers, InvEnds
  <2>2. /\ UNCHANGED <<token, revocations, entries>> /\ invoke[i].at = "forwarded"
        /\ \A j \in Invocations : j # i => audited'[j] = audited[j]
    BY <1>6 DEF ServerAnswers, InvEnds, InvAt, AccessTypeOK
  <2>3. /\ invoke'[i].at = s /\ invoke'[i].by = invoke[i].by
        /\ \A j \in Invocations : j # i => invoke'[j] = invoke[j]
    BY <2>1, InvMoves DEF InvocationStates
  <2>4. Forwarded(i)  BY <2>2 DEF Forwarded
  <2>5. \A t \in AccessTokens : i \in entries'[t] => invoke'[i].by = t /\ invoke'[i].at \in WithEntry
    BY <1>0, <2>2, <2>3 DEF WithEntry
  <2>6. audited'[i] = "none" \/ invoke'[i].at = "ended"  BY <1>0, <2>1, <2>2, <2>3
  <2> QED  BY <2>2, <2>3, <2>4, <2>5, <2>6, OneInvocation
<1> QED  BY <1>1, <1>2, <1>3, <1>4, <1>5, <1>6 DEF InvocationStep

LEMMA AccessStep == AccessTypeOK /\ AccessInv /\ [AccessNext]_accessVars => AccessInv'
<1> SUFFICES ASSUME AccessTypeOK, AccessInv, [AccessNext]_accessVars PROVE AccessInv'  OBVIOUS
<1>1. ASSUME UNCHANGED <<invoke, entries, audited>>
      PROVE  EntriesAreTheirs' /\ AuditedAtEnd' /\ McpBudget'
  BY <1>1 DEF AccessInv, EntriesAreTheirs, AuditedAtEnd, McpBudget, Forwarded
<1>2. ASSUME UNCHANGED <<invoke, entries, audited, token, revocations>>  PROVE AccessInv'
  BY <1>1, <1>2 DEF AccessInv, RevokedOnce
<1>3. ASSUME NEW i \in Invocations, InvocationStep(i)  PROVE AccessInv'
  BY <1>3, InvocationInv
<1>4. ASSUME NEW a \in Admins, RevokeWrites(a)  PROVE AccessInv'
  <2> DEFINE t == admin[a].on
  <2>1. t \in AccessTokens /\ UNCHANGED <<invoke, entries, audited>>
    BY <1>4 DEF RevokeWrites, AccessTypeOK
  <2>2. CASE StillUnrevoked(t)
    <3>1. /\ token' = [token EXCEPT ![t] = "revoked"]
          /\ revocations' = [revocations EXCEPT ![t] = @ + 1]
      BY <1>4, <2>2 DEF RevokeWrites
    <3>2. revocations[t] = 0  BY <2>1, <2>2 DEF StillUnrevoked, AccessInv, RevokedOnce
    <3> HIDE DEF t
    <3>3. RevokedOnce'  BY <2>1, <3>1, <3>2 DEF AccessInv, RevokedOnce, AccessTypeOK
    <3> QED  BY <1>1, <2>1, <3>3 DEF AccessInv
  <2>3. CASE ~ StillUnrevoked(t)
    BY <1>2, <1>4, <2>1, <2>3 DEF RevokeWrites
  <2> QED  BY <2>2, <2>3
<1>5. ASSUME NEW a \in Admins, AdminStep(a), ~ RevokeWrites(a)  PROVE AccessInv'
  BY <1>2, <1>5 DEF AdminStep, RevokeFinds, CreateToolFinds, CreateToolInserts
<1>6. ASSUME NEW t \in AccessTokens, CreateToken(t) \/ TokenExpires(t)  PROVE AccessInv'
  <2>1. RevokedOnce'  BY <1>6 DEF CreateToken, TokenExpires, AccessInv, RevokedOnce, AccessTypeOK
  <2>2. UNCHANGED <<invoke, entries, audited>>  BY <1>6 DEF CreateToken, TokenExpires
  <2> QED  BY <1>1, <2>1, <2>2 DEF AccessInv
<1>7. CASE \/ \E s \in {"active", "disabled"} : SetOwner(s)
           \/ \E p \in {"open", "closed"} : UpdatePolicy(p)
           \/ DeleteTool \/ UNCHANGED accessVars
  BY <1>2, <1>7 DEF SetOwner, UpdatePolicy, DeleteTool, accessVars
<1> QED  BY <1>3, <1>4, <1>5, <1>6, <1>7 DEF AccessNext

(* The MCP limiter keeps its budget although ZADD and ZCARD are separate    *)
(* commands, for any number of tokens and invocations, and a token that any *)
(* number of admins revoke at the same time is revoked, and recorded, once. *)
THEOREM TokensAreSafe == AccessSpec => []TokensHold
<1>1. AccessInit => AccessInv
  <2> SUFFICES ASSUME AccessInit PROVE AccessInv  OBVIOUS
  <2>1. EntriesAreTheirs /\ AuditedAtEnd /\ RevokedOnce
    BY DEF AccessInit, EntriesAreTheirs, AuditedAtEnd, RevokedOnce
  <2>2. \A t \in AccessTokens : {i \in entries[t] : Forwarded(i)} = {}  BY DEF AccessInit
  <2>3. Cardinality({}) = 0 /\ 0 <= McpLimit  BY FS_EmptySet, AccessLimits
  <2> QED  BY <2>1, <2>2, <2>3 DEF AccessInv, McpBudget
<1>2. AccessInv => TokensHold  BY DEF AccessInv, TokensHold
<1> QED  BY <1>1, <1>2, AccessStep, AccessTypeInit, AccessTypeStep, PTL DEF AccessSpec

-----------------------------------------------------------------------------
(* Sessions *)

LoginPcs   == {"verify", "count", "reset", "insert"}
RefreshPcs == {"revoke", "user", "insert", "count active", "select", "trim", "trimmed"}
StatusPcs  == {"active", "disabled", "revoke all", "revoking"}
AuthReq ==
    [op : {"free", "login", "refresh", "revoke", "password", "status"},
     pc : LoginPcs \cup RefreshPcs \cup StatusPcs \cup {"free", "write"},
     s : 0 .. MaxSessions, pw : Passwords \cup {"none"}, over : Nat,
     rows : SUBSET SessionIds, del : SUBSET SessionIds, add : SUBSET SessionIds,
     wasActive : BOOLEAN]

(* The sessions: ids are given in order, and the session another one was    *)
(* rotated from is revoked for good and has one successor.                  *)
TableOK ==
    /\ sess \in [SessionIds -> [state : {"none", "live", "revoked"}, from : 0 .. MaxSessions]]
    /\ created \in 0 .. MaxSessions
    /\ \A x \in SessionIds :
          /\ x > created => sess[x].state = "none"
          /\ sess[x].state = "none" => sess[x].from = NoSession
          /\ sess[x].from # NoSession => sess[sess[x].from].state = "revoked"
    /\ RotatedOnce

(* A request: what it holds belongs to its place, an open transaction has   *)
(* revoked the session it rotates, and what it adds nobody else can see.    *)
ReqOK(r) ==
    /\ r.op = "free" => r = FreeReq
    /\ r.op = "refresh" => r.pc \in RefreshPcs
    /\ r.op # "refresh" \/ r.pc = "revoke" => r.del = {} /\ r.add = {}
    /\ r.op = "refresh" /\ r.pc # "revoke" =>
          r.s \in r.del /\ \A t \in SessionIds : sess[t].from # r.s
    /\ r.op = "refresh" /\ r.pc \in {"user", "insert"} => r.add = {}
    /\ r.op \in {"refresh", "revoke"} => r.s \in SessionIds /\ sess[r.s].state # "none"
    /\ r.pc = "revoking" => \A x \in r.rows : sess[x].state # "none"
    /\ \A x \in r.del : sess[x].state # "none"
    /\ \A x \in r.add : x <= created /\ sess[x].state = "none"
    /\ \A x, y \in r.add : x = y

(* Two transactions neither revoke the same session nor add the same one.   *)
Disjoint(r, o) == r.del \cap o.del = {} /\ r.add \cap o.add = {}

(* A request in flight while the account is active knows it, and those that *)
(* are past the check of the status have seen it active.                    *)
ActiveOK(r) ==
    /\ r.op # "free" /\ userStatus = "active" => r.wasActive
    /\ r.op = "login" /\ r.pc \in {"reset", "insert"} => r.wasActive
    /\ r.op = "refresh" /\ r.pc \in RefreshPcs \ {"revoke", "user"} => r.wasActive

(* The guesses: those counted, those about to be, and those still to come.  *)
IsVerifying(r) == r.op = "login" /\ r.pc = "verify"
IsCounting(r)  == r.op = "login" /\ r.pc = "count"
Verifying == {q \in SessRequests : IsVerifying(areq[q])}
Counting  == {q \in SessRequests : IsCounting(areq[q])}
Allowance == LOGIN_LOCKOUT_THRESHOLD - 1 + Cardinality(SessRequests) + counterErrors

GuessesCounted ==
    /\ failures \in Nat /\ guesses \in Nat /\ counterErrors \in Nat
    /\ guesses <= failures + Cardinality(Counting) + counterErrors
    /\ failures + Cardinality(Counting) + Cardinality(Verifying) <= Allowance
    /\ guesses + Cardinality(Verifying) <= Allowance

SessInv ==
    /\ TableOK
    /\ areq \in [SessRequests -> AuthReq]
    /\ \A q \in SessRequests : ReqOK(areq[q]) /\ ActiveOK(areq[q])
    /\ \A p, q \in SessRequests : p # q => Disjoint(areq[p], areq[q])
    /\ GuessesCounted

(* A step that changes one request keeps the invariant when the sessions    *)
(* and the guesses stay right and the request's new record is.              *)
LEMMA OneRequest ==
    ASSUME SessInv, NEW q \in SessRequests, NEW r \in AuthReq, areq' = [areq EXCEPT ![q] = r],
           UNCHANGED userStatus, TableOK', GuessesCounted', ReqOK(r)', ActiveOK(r),
           \A p \in SessRequests \ {q} : ReqOK(areq[p]) => ReqOK(areq[p])',
           \A p \in SessRequests \ {q} : Disjoint(r, areq[p])
    PROVE  SessInv'
<1>1. areq'[q] = r /\ \A p \in SessRequests \ {q} : areq'[p] = areq[p]  BY DEF SessInv
<1>2. areq' \in [SessRequests -> AuthReq]  BY DEF SessInv
<1>3. \A p \in SessRequests : ReqOK(areq[p])'
  <2>1. ASSUME NEW p \in SessRequests, p # q  PROVE ReqOK(areq[p])'  BY <2>1 DEF SessInv
  <2>2. ReqOK(areq[q])'
    <3>1. ReqOK(r)'  OBVIOUS
    <3> QED  BY <1>1, <3>1 DEF ReqOK
  <2> QED  BY <2>1, <2>2
<1>4. \A p \in SessRequests : ActiveOK(areq[p])'
  <2>1. ASSUME NEW p \in SessRequests, p # q  PROVE ActiveOK(areq[p])'
    BY <1>1, <2>1 DEF SessInv, ActiveOK
  <2>2. ActiveOK(areq[q])'  BY <1>1 DEF ActiveOK
  <2> QED  BY <2>1, <2>2
<1>5. \A p, o \in SessRequests : p # o => Disjoint(areq[p], areq[o])'
  BY <1>1 DEF SessInv, Disjoint
<1> QED  BY <1>2, <1>3, <1>4, <1>5 DEF SessInv

(* What a request that goes on, ends or begins writes.                      *)
LEMMA RequestGoes ==
    ASSUME SessInv, NEW q \in SessRequests,
           NEW pc \in LoginPcs \cup RefreshPcs \cup StatusPcs \cup {"free", "write"}, ReqGoto(q, pc)
    PROVE  \E r \in AuthReq :
              /\ areq' = [areq EXCEPT ![q] = r] /\ r.pc = pc
              /\ r.op = areq[q].op /\ r.s = areq[q].s /\ r.pw = areq[q].pw /\ r.over = areq[q].over
              /\ r.rows = areq[q].rows /\ r.del = areq[q].del /\ r.add = areq[q].add
              /\ r.wasActive = areq[q].wasActive
<1> DEFINE e == [areq[q] EXCEPT !.pc = pc]
<1>1. areq[q] \in AuthReq  BY DEF SessInv
<1>2. /\ e \in AuthReq /\ e.pc = pc
      /\ e.op = areq[q].op /\ e.s = areq[q].s /\ e.pw = areq[q].pw /\ e.over = areq[q].over
      /\ e.rows = areq[q].rows /\ e.del = areq[q].del /\ e.add = areq[q].add
      /\ e.wasActive = areq[q].wasActive
  BY <1>1 DEF AuthReq
<1>3. areq' = [areq EXCEPT ![q] = e]  BY DEF ReqGoto
<1> HIDE DEF e
<1> QED  BY <1>2, <1>3

LEMMA FreeIsRequest == FreeReq \in AuthReq /\ FreeReq.op = "free" /\ FreeReq.pc = "free"
                       /\ FreeReq.del = {} /\ FreeReq.add = {} /\ FreeReq.rows = {}
BY SessionLimits DEF FreeReq, AuthReq, NoSession

LEMMA FreeIsRight ==
    ReqOK(FreeReq)' /\ ActiveOK(FreeReq) /\ ~ IsVerifying(FreeReq) /\ ~ IsCounting(FreeReq)
BY DEF FreeReq, ReqOK, ActiveOK, IsVerifying, IsCounting

LEMMA RequestBegins ==
    ASSUME SessInv, NEW q \in SessRequests, NEW rec \in AuthReq, ReqBegins(q, rec)
    PROVE  /\ areq[q] = FreeReq
           /\ \E r \in AuthReq :
              /\ areq' = [areq EXCEPT ![q] = r]
              /\ r.op = rec.op /\ r.pc = rec.pc /\ r.s = rec.s /\ r.pw = rec.pw
              /\ r.rows = rec.rows /\ r.del = rec.del /\ r.add = rec.add
              /\ userStatus = "active" <=> r.wasActive
<1> DEFINE e == [rec EXCEPT !.wasActive = userStatus = "active"]
<1>1. /\ e \in AuthReq /\ e.op = rec.op /\ e.pc = rec.pc /\ e.s = rec.s /\ e.pw = rec.pw
      /\ e.rows = rec.rows /\ e.del = rec.del /\ e.add = rec.add
      /\ (userStatus = "active" <=> e.wasActive)
  BY DEF AuthReq
<1>2. areq' = [areq EXCEPT ![q] = e] /\ areq[q] = FreeReq  BY DEF ReqBegins
<1> HIDE DEF e
<1> QED  BY <1>1, <1>2

(* Revoking sessions that exist disturbs no request.                        *)
LEMMA RevokedKeeps ==
    ASSUME SessInv, NEW rows \in SUBSET SessionIds, sess' = Revoked(rows), created' = created,
           \A x \in rows : sess[x].state # "none"
    PROVE  TableOK' /\ \A r \in AuthReq : ReqOK(r) => ReqOK(r)'
<1>1. \A x \in SessionIds : /\ sess'[x].from = sess[x].from
                            /\ sess'[x].state = IF x \in rows THEN "revoked" ELSE sess[x].state
  BY DEF SessInv, TableOK, Revoked
<1>2. sess' \in [SessionIds -> [state : {"none", "live", "revoked"}, from : 0 .. MaxSessions]]
  BY DEF SessInv, TableOK, Revoked
<1>3. \A x \in SessionIds : sess[x].from \in SessionIds \cup {0}
  BY SessionLimits DEF SessInv, TableOK, SessionIds
<1>4. TableOK'
  BY <1>1, <1>2, <1>3 DEF SessInv, TableOK, RotatedOnce, NoSession
<1>5. ASSUME NEW r \in AuthReq, ReqOK(r)  PROVE ReqOK(r)'
  <2>1. r.rows \subseteq SessionIds /\ r.del \subseteq SessionIds /\ r.add \subseteq SessionIds
    BY DEF AuthReq
  <2> QED  BY <1>1, <1>5, <2>1 DEF ReqOK
<1> QED  BY <1>4, <1>5

LEMMA SameSessionsKeep ==
    ASSUME SessInv, UNCHANGED <<sess, created>>
    PROVE  TableOK' /\ \A r \in AuthReq : ReqOK(r) => ReqOK(r)'
BY DEF SessInv, TableOK, ReqOK, RotatedOnce

(* The guesses of a step that is none of the login's.                       *)
LEMMA GuessSets ==
    ASSUME SessInv, NEW q \in SessRequests, NEW r \in AuthReq, areq' = [areq EXCEPT ![q] = r]
    PROVE  /\ Verifying' = IF IsVerifying(r) THEN Verifying \cup {q} ELSE Verifying \ {q}
           /\ Counting' = IF IsCounting(r) THEN Counting \cup {q} ELSE Counting \ {q}
           /\ IsFiniteSet(Verifying) /\ IsFiniteSet(Counting)
           /\ Cardinality(Verifying) \in Nat /\ Cardinality(Counting) \in Nat
           /\ Cardinality(SessRequests) \in Nat
<1>1. areq'[q] = r /\ \A p \in SessRequests \ {q} : areq'[p] = areq[p]  BY DEF SessInv
<1>2. Verifying' = IF IsVerifying(r) THEN Verifying \cup {q} ELSE Verifying \ {q}
  BY <1>1 DEF Verifying, IsVerifying
<1>3. Counting' = IF IsCounting(r) THEN Counting \cup {q} ELSE Counting \ {q}
  BY <1>1 DEF Counting, IsCounting
<1>4. IsFiniteSet(Verifying) /\ IsFiniteSet(Counting)
  BY FS_Subset, SessionLimits DEF Verifying, Counting
<1> QED  BY <1>2, <1>3, <1>4, FS_CardinalityType, SessionLimits

LEMMA QuietGuesses ==
    ASSUME SessInv, NEW q \in SessRequests, NEW r \in AuthReq, areq' = [areq EXCEPT ![q] = r],
           ~ IsVerifying(r), ~ IsCounting(r), ~ IsCounting(areq[q]),
           UNCHANGED <<failures, guesses, counterErrors>>
    PROVE  GuessesCounted'
<1>1. Verifying' = Verifying \ {q} /\ Counting' = Counting \ {q}  BY GuessSets
<1>2. Counting' = Counting  BY <1>1 DEF Counting
<1>3. Cardinality(Verifying \ {q}) \in Nat /\ Cardinality(Verifying \ {q}) <= Cardinality(Verifying)
  <2>1. IsFiniteSet(Verifying) /\ Cardinality(Verifying) \in Nat  BY GuessSets
  <2>2. Verifying \ {q} \in SUBSET Verifying  OBVIOUS
  <2> QED  BY <2>1, <2>2, FS_Subset, FS_CardinalityType
<1>4. Cardinality(Verifying') = Cardinality(Verifying \ {q})  BY <1>1
<1>5. Cardinality(Counting') = Cardinality(Counting)  BY <1>2
<1>6. /\ Cardinality(Verifying) \in Nat /\ Cardinality(Counting) \in Nat
      /\ Cardinality(SessRequests) \in Nat
  BY GuessSets
<1> HIDE DEF Verifying, Counting
<1> QED  BY <1>3, <1>4, <1>5, <1>6, SessionLimits DEF SessInv, GuessesCounted, Allowance

(* A new request that begins is one more.                                   *)
LEMMA PlaceLeft ==
    ASSUME SessInv, NEW q \in SessRequests, NEW r \in AuthReq, areq' = [areq EXCEPT ![q] = r],
           q \notin Verifying, q \notin Counting
    PROVE  /\ Cardinality(Verifying \cup {q}) = Cardinality(Verifying) + 1
           /\ Cardinality(Counting) + Cardinality(Verifying) + 1 <= Cardinality(SessRequests)
<1> DEFINE W == Verifying \cup {q}
<1>1. /\ IsFiniteSet(Verifying) /\ IsFiniteSet(Counting)
      /\ Cardinality(Verifying) \in Nat /\ Cardinality(Counting) \in Nat
      /\ Cardinality(SessRequests) \in Nat
  BY GuessSets
<1>2. IsFiniteSet(W) /\ Cardinality(W) = Cardinality(Verifying) + 1  BY <1>1, FS_AddElement
<1>3. Counting \cap W = {} /\ Counting \cup W \in SUBSET SessRequests
  BY DEF Counting, Verifying, IsCounting, IsVerifying
<1> HIDE DEF W
<1>4. Cardinality(Counting \cup W) = Cardinality(Counting) + Cardinality(W)
  <2>1. Cardinality(Counting \cap W) = 0  BY <1>3, FS_EmptySet
  <2>2. Cardinality(Counting \cup W) = Cardinality(Counting) + Cardinality(W) - Cardinality(Counting \cap W)
    BY <1>1, <1>2, FS_Union
  <2>3. Cardinality(W) \in Nat  BY <1>1, <1>2
  <2> HIDE DEF Counting, Verifying
  <2> QED  BY <1>1, <2>1, <2>2, <2>3
<1>5. Cardinality(Counting \cup W) <= Cardinality(SessRequests)  BY <1>3, FS_Subset, SessionLimits
<1>6. Cardinality(W) = Cardinality(Verifying) + 1  BY <1>2
<1> QED  BY <1>1, <1>4, <1>5, <1>6 DEF W

(* A step of one request that keeps what the others rely on.                *)
LEMMA OneRequestKeeps ==
    ASSUME SessInv, NEW q \in SessRequests, NEW r \in AuthReq, areq' = [areq EXCEPT ![q] = r],
           UNCHANGED <<userStatus, sess, created>>, GuessesCounted', ReqOK(r)', ActiveOK(r),
           \A p \in SessRequests \ {q} : Disjoint(r, areq[p])
    PROVE  SessInv'
<1>1. \A p \in SessRequests \ {q} : areq'[p] = areq[p]  BY DEF SessInv
<1>2. \A p \in SessRequests \ {q} : ReqOK(areq[p]) => ReqOK(areq[p])'  BY <1>1 DEF ReqOK
<1> QED  BY <1>2, SameSessionsKeep, OneRequest

(* A step of one request that counts no guess.                             *)
LEMMA QuietRequest ==
    ASSUME SessInv, NEW q \in SessRequests, NEW r \in AuthReq, areq' = [areq EXCEPT ![q] = r],
           UNCHANGED <<userStatus, failures, guesses, counterErrors>>,
           ~ IsVerifying(r), ~ IsCounting(r), ~ IsCounting(areq[q]),
           TableOK', \A o \in AuthReq : ReqOK(o) => ReqOK(o)',
           ReqOK(r)', ActiveOK(r), \A p \in SessRequests \ {q} : Disjoint(r, areq[p])
    PROVE  SessInv'
<1>1. GuessesCounted'  BY QuietGuesses
<1>2. \A p \in SessRequests \ {q} : areq'[p] = areq[p] /\ areq[p] \in AuthReq  BY DEF SessInv
<1>3. \A p \in SessRequests \ {q} : ReqOK(areq[p]) => ReqOK(areq[p])'
  <2> SUFFICES ASSUME NEW p \in SessRequests \ {q}, ReqOK(areq[p])  PROVE ReqOK(areq[p])'
    OBVIOUS
  <2>1. PICK o \in AuthReq : o = areq[p]  BY <1>2
  <2>2. ReqOK(o)'  BY <2>1
  <2> QED  BY <1>2, <2>1, <2>2 DEF ReqOK
<1> QED  BY <1>1, <1>3, OneRequest

(* A request that ends leaves everything else in order.                     *)
LEMMA RequestEnds ==
    ASSUME SessInv, NEW q \in SessRequests, ReqEnds(q), ~ IsCounting(areq[q]),
           UNCHANGED <<userStatus, failures, guesses, counterErrors>>,
           TableOK', \A r \in AuthReq : ReqOK(r) => ReqOK(r)'
    PROVE  SessInv'
<1>1. areq' = [areq EXCEPT ![q] = FreeReq]  BY DEF ReqEnds
<1>2. PICK r \in AuthReq : r = FreeReq  BY FreeIsRequest
<1>3. areq' = [areq EXCEPT ![q] = r]  BY <1>1, <1>2
<1>4. ~ IsVerifying(r) /\ ~ IsCounting(r)  BY <1>2, FreeIsRight
<1>5. ReqOK(r)' /\ ActiveOK(r)  BY <1>2 DEF ReqOK, ActiveOK, FreeReq
<1>6. \A p \in SessRequests \ {q} : Disjoint(r, areq[p])  BY <1>2, FreeIsRequest DEF Disjoint
<1> QED  BY <1>3, <1>4, <1>5, <1>6, QuietRequest

(* Who begins holds nothing.                                                *)
LEMMA BeginsInv ==
    ASSUME SessInv, NEW q \in SessRequests, NEW rec \in AuthReq, ReqBegins(q, rec),
           UNCHANGED <<sess, created, userStatus, failures, guesses, counterErrors>>,
           rec.del = {}, rec.add = {}, rec.op # "login", rec.op # "free", rec.pc # "revoking",
           rec.op = "refresh" => rec.pc = "revoke",
           rec.op \in {"refresh", "revoke"} => rec.s \in SessionIds /\ sess[rec.s].state # "none"
    PROVE  SessInv'
<1>1. PICK r \in AuthReq :
              /\ areq' = [areq EXCEPT ![q] = r]
              /\ r.op = rec.op /\ r.pc = rec.pc /\ r.s = rec.s
              /\ r.del = {} /\ r.add = {}
              /\ userStatus = "active" <=> r.wasActive
  BY RequestBegins
<1>2. ~ IsVerifying(r) /\ ~ IsCounting(r) /\ ~ IsCounting(areq[q])
  BY <1>1, RequestBegins, FreeIsRight DEF IsVerifying, IsCounting
<1>3. ReqOK(r)' /\ ActiveOK(r)  BY <1>1 DEF ReqOK, ActiveOK, RefreshPcs
<1>4. \A p \in SessRequests \ {q} : Disjoint(r, areq[p])  BY <1>1 DEF Disjoint
<1> QED  BY <1>1, <1>2, <1>3, <1>4, SameSessionsKeep, QuietRequest

LEMMA RequestInv == ASSUME SessInv, NEW q \in SessRequests, SessRequest(q) PROVE SessInv'
<1>1. ASSUME NEW pw \in Passwords, LoginStart(q, pw) \/ LoginStartBlind(q, pw)  PROVE SessInv'
  <2> DEFINE rec == [FreeReq EXCEPT !.op = "login", !.pc = "verify", !.pw = pw]
  <2>1. rec \in AuthReq /\ rec.op = "login" /\ rec.pc = "verify" /\ rec.del = {} /\ rec.add = {}
    <3>1. SessionIds \subseteq 0 .. MaxSessions  BY SessionLimits DEF SessionIds
    <3> QED  BY <3>1, FreeIsRequest DEF AuthReq, LoginPcs, RefreshPcs, StatusPcs
  <2>2. /\ ReqBegins(q, rec) /\ UNCHANGED <<sess, created, userStatus, failures, guesses>>
        /\ \/ failures < LOGIN_LOCKOUT_THRESHOLD /\ UNCHANGED counterErrors
           \/ counterErrors' = counterErrors + 1
    BY <1>1 DEF LoginStart, LoginStartBlind
  <2> HIDE DEF rec
  <2>3. PICK r \in AuthReq :
              /\ areq' = [areq EXCEPT ![q] = r]
              /\ r.op = "login" /\ r.pc = "verify" /\ r.del = {} /\ r.add = {}
              /\ userStatus = "active" <=> r.wasActive
    BY <2>1, <2>2, RequestBegins
  <2>4. areq[q].op = "free" /\ q \notin Verifying /\ q \notin Counting
    BY <2>1, <2>2, RequestBegins, FreeIsRequest DEF Verifying, Counting, IsVerifying, IsCounting
  <2>5. Verifying' = Verifying \cup {q} /\ Counting' = Counting
    <3>1. IsVerifying(r) /\ ~ IsCounting(r)  BY <2>3 DEF IsVerifying, IsCounting
    <3>2. Verifying' = Verifying \cup {q} /\ Counting' = Counting \ {q}  BY <2>3, <3>1, GuessSets
    <3> QED  BY <2>4, <3>2
  <2>6. /\ Cardinality(Verifying \cup {q}) = Cardinality(Verifying) + 1
        /\ Cardinality(Counting) + Cardinality(Verifying) + 1 <= Cardinality(SessRequests)
    BY <2>3, <2>4, PlaceLeft
  <2>7. GuessesCounted'
    <3>1. Cardinality(Verifying') = Cardinality(Verifying) + 1 /\ Cardinality(Counting') = Cardinality(Counting)
      BY <2>5, <2>6
    <3>2. /\ Cardinality(Verifying) \in Nat /\ Cardinality(Counting) \in Nat
          /\ Cardinality(SessRequests) \in Nat
      BY <2>3, GuessSets
    <3> HIDE DEF Verifying, Counting
    <3> QED  BY <2>2, <2>6, <3>1, <3>2, SessionLimits DEF SessInv, GuessesCounted, Allowance
  <2>8. ReqOK(r)' /\ ActiveOK(r)  BY <2>3 DEF ReqOK, ActiveOK
  <2>9. \A p \in SessRequests \ {q} : Disjoint(r, areq[p])  BY <2>3 DEF Disjoint
  <2> QED  BY <2>2, <2>3, <2>7, <2>8, <2>9, OneRequestKeeps
<1>2. ASSUME NEW s \in SessionIds, RefreshRead(q, s)  PROVE SessInv'
  <2> DEFINE rec == [FreeReq EXCEPT !.op = "refresh", !.pc = "revoke", !.s = s]
  <2>1. /\ rec \in AuthReq /\ rec.op = "refresh" /\ rec.pc = "revoke" /\ rec.s = s
        /\ rec.del = {} /\ rec.add = {}
    <3>1. SessionIds \subseteq 0 .. MaxSessions  BY SessionLimits DEF SessionIds
    <3> QED  BY <3>1, FreeIsRequest DEF AuthReq, LoginPcs, RefreshPcs, StatusPcs
  <2>2. /\ ReqBegins(q, rec) /\ sess[s].state # "none"
        /\ UNCHANGED <<sess, created, userStatus, failures, guesses, counterErrors>>
    BY <1>2 DEF RefreshRead
  <2> HIDE DEF rec
  <2> QED  BY <2>1, <2>2, BeginsInv
<1>3. ASSUME NEW s \in SessionIds, RevokeRead(q, s)  PROVE SessInv'
  <2> DEFINE rec == [FreeReq EXCEPT !.op = "revoke", !.pc = "write", !.s = s]
  <2>1. /\ rec \in AuthReq /\ rec.op = "revoke" /\ rec.pc = "write" /\ rec.s = s
        /\ rec.del = {} /\ rec.add = {}
    <3>1. SessionIds \subseteq 0 .. MaxSessions  BY SessionLimits DEF SessionIds
    <3> QED  BY <3>1, FreeIsRequest DEF AuthReq, LoginPcs, RefreshPcs, StatusPcs
  <2>2. /\ ReqBegins(q, rec) /\ sess[s].state # "none"
        /\ UNCHANGED <<sess, created, userStatus, failures, guesses, counterErrors>>
    BY <1>3 DEF RevokeRead
  <2> HIDE DEF rec
  <2> QED  BY <2>1, <2>2, BeginsInv
<1>4. ASSUME NEW pw \in Passwords, NEW new \in Passwords, ChangePasswordRead(q, pw, new)  PROVE SessInv'
  <2> DEFINE rec == [FreeReq EXCEPT !.op = "password", !.pc = "write", !.pw = new]
  <2>1. rec \in AuthReq /\ rec.op = "password" /\ rec.pc = "write" /\ rec.del = {} /\ rec.add = {}
    <3>1. SessionIds \subseteq 0 .. MaxSessions  BY SessionLimits DEF SessionIds
    <3> QED  BY <3>1, FreeIsRequest DEF AuthReq, LoginPcs, RefreshPcs, StatusPcs
  <2>2. /\ ReqBegins(q, rec)
        /\ UNCHANGED <<sess, created, userStatus, failures, guesses, counterErrors>>
    BY <1>4 DEF ChangePasswordRead
  <2> HIDE DEF rec
  <2> QED  BY <2>1, <2>2, BeginsInv
<1>5. ASSUME NEW to \in {"active", "disabled"}, UpdateStatusRead(q, to)  PROVE SessInv'
  <2> DEFINE rec == [FreeReq EXCEPT !.op = "status", !.pc = to]
  <2>1. rec \in AuthReq /\ rec.op = "status" /\ rec.pc = to /\ rec.del = {} /\ rec.add = {}
    <3>1. SessionIds \subseteq 0 .. MaxSessions  BY SessionLimits DEF SessionIds
    <3> QED  BY <3>1, FreeIsRequest DEF AuthReq, LoginPcs, RefreshPcs, StatusPcs
  <2>2. /\ ReqBegins(q, rec)
        /\ UNCHANGED <<sess, created, userStatus, failures, guesses, counterErrors>>
    BY <1>5 DEF UpdateStatusRead
  <2> HIDE DEF rec
  <2> QED  BY <2>1, <2>2, BeginsInv
<1> QED  BY <1>1, <1>2, <1>3, <1>4, <1>5 DEF SessRequest

(* A request that goes on with what it holds.                               *)
LEMMA GoesInv ==
    ASSUME SessInv, NEW q \in SessRequests, NEW r \in AuthReq, areq' = [areq EXCEPT ![q] = r],
           UNCHANGED <<sess, created, userStatus, failures, guesses, counterErrors>>,
           r.op = areq[q].op, r.s = areq[q].s, r.del = areq[q].del, r.add = areq[q].add,
           r.wasActive = areq[q].wasActive, r.pc \notin {"verify", "count"},
           ~ IsCounting(areq[q]), r.op # "free",
           r.op = "refresh" => r.pc \in RefreshPcs \ {"revoke", "user"} /\ areq[q].pc # "revoke",
           r.op = "refresh" /\ r.pc = "insert" => r.add = {},
           r.pc = "revoking" => \A x \in r.rows : sess[x].state # "none",
           ActiveOK(r)
    PROVE  SessInv'
<1>1. ReqOK(areq[q]) /\ \A p \in SessRequests \ {q} : Disjoint(areq[q], areq[p])  BY DEF SessInv
<1>2. ReqOK(r)'  BY <1>1 DEF ReqOK, RefreshPcs
<1>3. ~ IsVerifying(r) /\ ~ IsCounting(r)  BY DEF IsVerifying, IsCounting
<1>4. \A p \in SessRequests \ {q} : Disjoint(r, areq[p])  BY <1>1 DEF Disjoint
<1> QED  BY <1>2, <1>3, <1>4, SameSessionsKeep, QuietRequest

LEMMA TrimStep ==
    ASSUME SessInv, NEW q \in SessRequests, CountActive(q) \/ SelectOldest(q)
    PROVE  SessInv'
<1>0. /\ areq[q] \in AuthReq /\ ReqOK(areq[q]) /\ ActiveOK(areq[q])
      /\ areq[q].pc \in {"count active", "select"} /\ areq[q].op # "free"
      /\ UNCHANGED <<sess, created, userStatus, failures, guesses, counterErrors>>
  <2>1. areq[q].pc \in {"count active", "select"}  BY DEF CountActive, SelectOldest
  <2> QED  BY <2>1, FreeIsRequest DEF SessInv, ReqOK, CountActive, SelectOldest
<1>1. PICK r \in AuthReq : /\ areq' = [areq EXCEPT ![q] = r] /\ r.pc \in {"trimmed", "select", "trim"}
                           /\ r.op = areq[q].op /\ r.s = areq[q].s
                           /\ r.del = areq[q].del /\ r.add = areq[q].add
                           /\ r.wasActive = areq[q].wasActive
  <2>1. CASE CountActive(q)
    <3> DEFINE n == Cardinality(Sees(q))
               over == IF n > MAX_ACTIVE_SESSIONS_PER_USER THEN n - MAX_ACTIVE_SESSIONS_PER_USER ELSE 0
               e == [areq[q] EXCEPT !.over = over, !.pc = IF over = 0 THEN "trimmed" ELSE "select"]
    <3>1. over \in Nat
      <4>1. Sees(q) \in SUBSET SessionIds  BY <1>0 DEF Sees, Live, AuthReq
      <4>2. IsFiniteSet(SessionIds)  BY SessionLimits, FS_Interval DEF SessionIds
      <4>3. n \in Nat  BY <4>1, <4>2, FS_Subset, FS_CardinalityType
      <4> HIDE DEF n
      <4> QED  BY <4>3, SessionLimits
    <3> HIDE DEF over
    <3>2. /\ e \in AuthReq /\ e.pc \in {"trimmed", "select"} /\ e.op = areq[q].op /\ e.s = areq[q].s
          /\ e.del = areq[q].del /\ e.add = areq[q].add /\ e.wasActive = areq[q].wasActive
      BY <1>0, <3>1 DEF AuthReq, RefreshPcs
    <3>3. areq' = [areq EXCEPT ![q] = e]  BY <2>1 DEF CountActive, over
    <3> HIDE DEF e
    <3> QED  BY <3>2, <3>3
  <2>2. CASE SelectOldest(q)
    <3> DEFINE e == [areq[q] EXCEPT !.rows = Oldest(Sees(q), areq[q].over), !.pc = "trim"]
    <3>1. Oldest(Sees(q), areq[q].over) \in SUBSET SessionIds  BY <1>0 DEF Oldest, Sees, Live, AuthReq
    <3>2. /\ e \in AuthReq /\ e.pc = "trim" /\ e.op = areq[q].op /\ e.s = areq[q].s
          /\ e.del = areq[q].del /\ e.add = areq[q].add /\ e.wasActive = areq[q].wasActive
      BY <1>0, <3>1 DEF AuthReq, RefreshPcs
    <3>3. areq' = [areq EXCEPT ![q] = e]  BY <2>2 DEF SelectOldest
    <3> HIDE DEF e
    <3> QED  BY <3>2, <3>3
  <2> QED  BY <2>1, <2>2
<1>2. ActiveOK(r)  BY <1>0, <1>1 DEF ActiveOK, RefreshPcs
<1>3. ~ IsCounting(areq[q])  BY <1>0 DEF IsCounting
<1> QED  BY <1>0, <1>1, <1>2, <1>3, GoesInv DEF RefreshPcs

LEMMA TrimInv == ASSUME SessInv, NEW q \in SessRequests, TrimOldest(q) PROVE SessInv'
<1> DEFINE rows == areq[q].rows \cap Sees(q)
<1>0. /\ areq[q] \in AuthReq /\ ReqOK(areq[q]) /\ ActiveOK(areq[q]) /\ TableOK
      /\ areq[q].pc = "trim" /\ rows \in SUBSET SessionIds /\ ~ IsCounting(areq[q])
      /\ UNCHANGED <<created, userStatus, failures, guesses, counterErrors>>
      /\ areq[q].rows \cap Live \cap LockedByOthers(q) = {}
  BY DEF SessInv, TrimOldest, AuthReq, IsCounting
<1>1. CASE areq[q].op = "login" /\ sess' = Revoked(rows) /\ ReqGoto(q, "trimmed")
  <2>1. \A x \in rows : sess[x].state # "none"
    BY <1>0, <1>1 DEF ReqOK, Sees, Live
  <2>2. TableOK' /\ \A o \in AuthReq : ReqOK(o) => ReqOK(o)'  BY <1>0, <1>1, <2>1, RevokedKeeps
  <2>3. PICK r \in AuthReq :
              /\ areq' = [areq EXCEPT ![q] = r] /\ r.pc = "trimmed"
              /\ r.op = areq[q].op /\ r.del = areq[q].del /\ r.add = areq[q].add
              /\ r.wasActive = areq[q].wasActive
    <3>1. ReqGoto(q, "trimmed")  BY <1>1
    <3>2. "trimmed" \in LoginPcs \cup RefreshPcs \cup StatusPcs \cup {"free", "write"}
      BY DEF RefreshPcs
    <3> QED  BY <3>1, <3>2, RequestGoes
  <2>4. r.del = {} /\ r.add = {}  BY <1>0, <1>1, <2>3 DEF ReqOK
  <2>5. ReqOK(r)' /\ ActiveOK(r)  BY <1>0, <1>1, <2>3, <2>4 DEF ReqOK, ActiveOK
  <2>6. \A p \in SessRequests \ {q} : Disjoint(r, areq[p])  BY <2>4 DEF Disjoint
  <2>7. ~ IsVerifying(r) /\ ~ IsCounting(r)  BY <2>3 DEF IsVerifying, IsCounting
  <2> QED  BY <1>0, <2>2, <2>3, <2>5, <2>6, <2>7, QuietRequest
<1>2. CASE /\ areq[q].op = "refresh"
           /\ areq' = [areq EXCEPT ![q].pc = "trimmed", ![q].add = @ \ rows,
                                   ![q].del = @ \cup (rows \ areq[q].add)]
           /\ UNCHANGED sess
  <2> DEFINE e == [areq[q] EXCEPT !.pc = "trimmed", !.add = @ \ rows,
                                  !.del = @ \cup (rows \ areq[q].add)]
  <2>1. /\ e \in AuthReq /\ e.pc = "trimmed" /\ e.op = "refresh" /\ e.s = areq[q].s
        /\ e.add = areq[q].add \ rows /\ e.del = areq[q].del \cup (rows \ areq[q].add)
        /\ e.wasActive = areq[q].wasActive /\ e.rows = areq[q].rows
    BY <1>0, <1>2 DEF AuthReq, RefreshPcs
  <2>2. areq' = [areq EXCEPT ![q] = e]  BY <1>2
  <2> HIDE DEF e
  <2>3. PICK r \in AuthReq : r = e  BY <2>1
  <2>4. \A x \in rows \ areq[q].add : x \in Live /\ sess[x].state # "none"  BY DEF Sees, Live
  <2> HIDE DEF rows
  <2>5. ReqOK(r)'  BY <1>0, <1>2, <2>1, <2>3, <2>4 DEF ReqOK, RefreshPcs
  <2>6. ActiveOK(r)  BY <1>0, <1>2, <2>1, <2>3 DEF ActiveOK, RefreshPcs
  <2>7. ASSUME NEW p \in SessRequests \ {q}  PROVE Disjoint(r, areq[p])
    <3>1. \A x \in areq[p].del : x \in LockedByOthers(q)  BY DEF LockedByOthers
    <3>2. \A x \in rows : x \in areq[q].rows  BY DEF rows
    <3>3. Disjoint(areq[q], areq[p])  BY DEF SessInv
    <3> QED  BY <1>0, <2>1, <2>3, <2>4, <3>1, <3>2, <3>3 DEF Disjoint
  <2>8. ~ IsVerifying(r) /\ ~ IsCounting(r)  BY <2>1, <2>3 DEF IsVerifying, IsCounting
  <2>9. areq' = [areq EXCEPT ![q] = r]  BY <2>2, <2>3
  <2> QED  BY <1>0, <1>2, <2>5, <2>6, <2>7, <2>8, <2>9, SameSessionsKeep, QuietRequest
<1> QED  BY <1>1, <1>2 DEF TrimOldest

LEMMA LoginInv ==
    ASSUME SessInv, NEW q \in SessRequests,
           LoginVerify(q) \/ LoginFails(q) \/ LoginResets(q) \/ LoginDone(q)
    PROVE  SessInv'
<1>0. /\ areq[q] \in AuthReq /\ ReqOK(areq[q]) /\ ActiveOK(areq[q])
      /\ areq[q].op = "login" /\ areq[q].del = {} /\ areq[q].add = {}
      /\ UNCHANGED <<sess, created, userStatus>>
  <2>1. areq[q].op = "login"  BY DEF LoginVerify, LoginFails, LoginResets, LoginDone, ReqAt
  <2> QED  BY <2>1 DEF SessInv, ReqOK, LoginVerify, LoginFails, LoginResets, LoginDone
<1>1. /\ Cardinality(Verifying) \in Nat /\ Cardinality(Counting) \in Nat
      /\ Cardinality(SessRequests) \in Nat /\ IsFiniteSet(Verifying) /\ IsFiniteSet(Counting)
  <2>1. Verifying \in SUBSET SessRequests /\ Counting \in SUBSET SessRequests
    BY DEF Verifying, Counting
  <2> QED  BY <2>1, SessionLimits, FS_Subset, FS_CardinalityType
<1>2. ASSUME ReqAt(q, "login", "verify"), areq[q].pw # password, guesses' = guesses + 1,
             ReqGoto(q, "count"), UNCHANGED <<failures, counterErrors>>
      PROVE  SessInv'
  <2>1. PICK r \in AuthReq :
              /\ areq' = [areq EXCEPT ![q] = r] /\ r.pc = "count"
              /\ r.op = areq[q].op /\ r.del = areq[q].del /\ r.add = areq[q].add
              /\ r.wasActive = areq[q].wasActive
    <3>1. "count" \in LoginPcs \cup RefreshPcs \cup StatusPcs \cup {"free", "write"}
      BY DEF LoginPcs
    <3> QED  BY <1>2, <3>1, RequestGoes
  <2>2. q \in Verifying /\ q \notin Counting
    BY <1>2 DEF Verifying, Counting, IsVerifying, IsCounting, ReqAt
  <2>3. Verifying' = Verifying \ {q} /\ Counting' = Counting \cup {q}
    <3>1. ~ IsVerifying(r) /\ IsCounting(r)  BY <1>0, <2>1 DEF IsVerifying, IsCounting
    <3> QED  BY <2>1, <3>1, GuessSets
  <2>4. /\ Cardinality(Verifying') = Cardinality(Verifying) - 1
        /\ Cardinality(Counting') = Cardinality(Counting) + 1
    BY <1>1, <2>2, <2>3, FS_AddElement, FS_RemoveElement
  <2>5. GuessesCounted'
    <3> HIDE DEF Verifying, Counting
    <3> QED  BY <1>1, <1>2, <2>4, SessionLimits DEF SessInv, GuessesCounted, Allowance
  <2>6. ReqOK(r)' /\ ActiveOK(r)  BY <1>0, <2>1 DEF ReqOK, ActiveOK
  <2>7. \A p \in SessRequests \ {q} : Disjoint(r, areq[p])  BY <1>0, <2>1 DEF Disjoint
  <2> QED  BY <1>0, <2>1, <2>5, <2>6, <2>7, OneRequestKeeps
<1>3. ASSUME ReqAt(q, "login", "verify"), userStatus = "active", ReqGoto(q, "reset"),
             UNCHANGED <<failures, guesses, counterErrors>>
      PROVE  SessInv'
  <2>1. PICK r \in AuthReq :
              /\ areq' = [areq EXCEPT ![q] = r] /\ r.pc = "reset"
              /\ r.op = areq[q].op /\ r.s = areq[q].s /\ r.del = areq[q].del /\ r.add = areq[q].add
              /\ r.wasActive = areq[q].wasActive
    <3>1. "reset" \in LoginPcs \cup RefreshPcs \cup StatusPcs \cup {"free", "write"}
      BY DEF LoginPcs
    <3> QED  BY <1>3, <3>1, RequestGoes
  <2>2. ~ IsCounting(areq[q])  BY <1>3 DEF IsCounting, ReqAt
  <2>3. ActiveOK(r)  BY <1>0, <1>3, <2>1 DEF ActiveOK
  <2> QED  BY <1>0, <1>3, <2>1, <2>2, <2>3, GoesInv
<1>4. ASSUME ReqEnds(q), ~ IsCounting(areq[q]), UNCHANGED <<failures, guesses, counterErrors>>
      PROVE  SessInv'
  BY <1>0, <1>4, SameSessionsKeep, RequestEnds
<1>5. CASE LoginFails(q)
  <2>1. PICK r \in AuthReq : r = FreeReq  BY FreeIsRequest
  <2>2. /\ areq' = [areq EXCEPT ![q] = r] /\ q \in Counting /\ q \notin Verifying
        /\ UNCHANGED guesses
        /\ \/ failures' = failures + 1 /\ UNCHANGED counterErrors
           \/ counterErrors' = counterErrors + 1 /\ UNCHANGED failures
    BY <1>5, <2>1 DEF LoginFails, ReqAt, ReqEnds, Counting, Verifying, IsVerifying, IsCounting
  <2>3. Verifying' = Verifying /\ Counting' = Counting \ {q}
    <3>1. ~ IsVerifying(r) /\ ~ IsCounting(r)  BY <2>1, FreeIsRight
    <3>2. Verifying' = Verifying \ {q} /\ Counting' = Counting \ {q}  BY <2>2, <3>1, GuessSets
    <3> QED  BY <2>2, <3>2
  <2>4. /\ Cardinality(Verifying') = Cardinality(Verifying)
        /\ Cardinality(Counting') = Cardinality(Counting) - 1
    BY <1>1, <2>2, <2>3, FS_RemoveElement
  <2>5. GuessesCounted'
    <3> HIDE DEF Verifying, Counting
    <3> QED  BY <1>1, <2>2, <2>4, SessionLimits DEF SessInv, GuessesCounted, Allowance
  <2>6. ReqOK(r)' /\ ActiveOK(r)  BY <2>1 DEF ReqOK, ActiveOK, FreeReq
  <2>7. \A p \in SessRequests \ {q} : Disjoint(r, areq[p])  BY <2>1, FreeIsRequest DEF Disjoint
  <2> QED  BY <1>0, <2>2, <2>5, <2>6, <2>7, OneRequestKeeps
<1>6. CASE LoginResets(q)
  <2>1. PICK r \in AuthReq :
              /\ areq' = [areq EXCEPT ![q] = r] /\ r.pc = "insert"
              /\ r.op = areq[q].op /\ r.del = areq[q].del /\ r.add = areq[q].add
              /\ r.wasActive = areq[q].wasActive
    <3>1. "insert" \in LoginPcs \cup RefreshPcs \cup StatusPcs \cup {"free", "write"}
      BY DEF LoginPcs
    <3> QED  BY <1>6, <3>1, RequestGoes DEF LoginResets
  <2>2. /\ q \notin Verifying /\ q \notin Counting /\ areq[q].pc = "reset"
        /\ failures' = 0 /\ guesses' = 0 /\ UNCHANGED counterErrors
    BY <1>6 DEF LoginResets, ReqAt, Counting, Verifying, IsVerifying, IsCounting
  <2>3. Verifying' = Verifying /\ Counting' = Counting
    <3>1. ~ IsVerifying(r) /\ ~ IsCounting(r)  BY <2>1 DEF IsVerifying, IsCounting
    <3>2. Verifying' = Verifying \ {q} /\ Counting' = Counting \ {q}  BY <2>1, <3>1, GuessSets
    <3> QED  BY <2>2, <3>2
  <2>4. /\ Cardinality(Verifying') = Cardinality(Verifying)
        /\ Cardinality(Counting') = Cardinality(Counting)
    BY <2>3
  <2>5. GuessesCounted'
    <3> HIDE DEF Verifying, Counting
    <3> QED  BY <1>1, <2>2, <2>4, SessionLimits DEF SessInv, GuessesCounted, Allowance
  <2>6. ReqOK(r)' /\ ActiveOK(r)  BY <1>0, <2>1, <2>2 DEF ReqOK, ActiveOK
  <2>7. \A p \in SessRequests \ {q} : Disjoint(r, areq[p])  BY <1>0, <2>1 DEF Disjoint
  <2> QED  BY <1>0, <2>1, <2>5, <2>6, <2>7, OneRequestKeeps
<1>7. CASE LoginVerify(q)
  <2>1. ~ IsCounting(areq[q])  BY <1>7 DEF LoginVerify, ReqAt, IsCounting
  <2> QED  BY <1>2, <1>3, <1>4, <1>7, <2>1 DEF LoginVerify
<1>8. CASE LoginDone(q)
  <2>1. ~ IsCounting(areq[q])  BY <1>8 DEF LoginDone, ReqAt, IsCounting
  <2> QED  BY <1>4, <1>8, <2>1 DEF LoginDone
<1> QED  BY <1>5, <1>6, <1>7, <1>8

(* The row a login inserts is seen at once.                                 *)
LEMMA LoginInsertsInv == ASSUME SessInv, NEW q \in SessRequests, LoginInserts(q) PROVE SessInv'
<1>0. /\ areq[q] \in AuthReq /\ ReqOK(areq[q]) /\ TableOK
      /\ areq[q].op = "login" /\ areq[q].pc = "insert" /\ areq[q].wasActive
      /\ areq[q].del = {} /\ areq[q].add = {}
      /\ created \in Nat /\ created + 1 \in SessionIds /\ created' = created + 1
      /\ created + 1 \in 0 .. MaxSessions
      /\ UNCHANGED <<userStatus, failures, guesses, counterErrors>>
  <2>1. /\ areq[q] \in AuthReq /\ ReqOK(areq[q]) /\ ActiveOK(areq[q]) /\ TableOK
        /\ areq[q].op = "login" /\ areq[q].pc = "insert"
        /\ created < MaxSessions /\ created' = created + 1
        /\ UNCHANGED <<userStatus, failures, guesses, counterErrors>>
    BY DEF LoginInserts, ReqAt, SessInv
  <2>2. created \in Nat /\ created + 1 \in SessionIds /\ created + 1 \in 0 .. MaxSessions
    BY <2>1, SessionLimits DEF TableOK, SessionIds
  <2>3. areq[q].wasActive /\ areq[q].del = {} /\ areq[q].add = {}
    BY <2>1 DEF ReqOK, ActiveOK
  <2> QED  BY <2>1, <2>2, <2>3
<1>1. /\ \A x \in SessionIds : x # created + 1 => sess'[x] = sess[x]
      /\ sess'[created + 1].state = "live" /\ sess'[created + 1].from = sess[created + 1].from
      /\ sess' \in [SessionIds -> [state : {"none", "live", "revoked"}, from : 0 .. MaxSessions]]
      /\ sess[created + 1].state = "none" /\ sess[created + 1].from = NoSession
  <2> DEFINE row == [sess[created + 1] EXCEPT !.state = "live"]
  <2>1. /\ row \in [state : {"none", "live", "revoked"}, from : 0 .. MaxSessions]
        /\ row.state = "live" /\ row.from = sess[created + 1].from
    BY <1>0 DEF TableOK
  <2>2. sess' = [sess EXCEPT ![created + 1] = row]  BY DEF LoginInserts
  <2>3. sess[created + 1].state = "none" /\ sess[created + 1].from = NoSession
    BY <1>0 DEF TableOK
  <2> HIDE DEF row
  <2> QED  BY <1>0, <2>1, <2>2, <2>3 DEF TableOK
<1>2. TableOK'
  <2>1. \A x \in SessionIds : sess[x].from # NoSession => sess[x].from \in SessionIds
    BY <1>0, SessionLimits DEF TableOK, SessionIds, NoSession
  <2>2. \A x \in SessionIds : sess'[x].from = sess[x].from  BY <1>1
  <2>3. \A x \in SessionIds : sess[x].state = "revoked" => sess'[x].state = "revoked"  BY <1>1
  <2>4. \A x \in SessionIds : x > created + 1 => x > created /\ x # created + 1
    BY <1>0 DEF SessionIds
  <2> QED  BY <1>0, <1>1, <2>1, <2>2, <2>3, <2>4 DEF TableOK, RotatedOnce
<1>3. \A o \in AuthReq : ReqOK(o) => ReqOK(o)'
  <2> SUFFICES ASSUME NEW o \in AuthReq, ReqOK(o)  PROVE ReqOK(o)'  OBVIOUS
  <2>1. o.rows \subseteq SessionIds /\ o.del \subseteq SessionIds /\ o.add \subseteq SessionIds
    BY DEF AuthReq
  <2>2. \A x \in SessionIds : sess'[x].from = sess[x].from  BY <1>1
  <2>3. \A x \in SessionIds : sess[x].state # "none" => sess'[x].state # "none"  BY <1>1
  <2>4. \A x \in SessionIds : x <= created /\ sess[x].state = "none" =>
                                 x <= created + 1 /\ sess'[x].state = "none"
    BY <1>0, <1>1 DEF SessionIds
  <2> QED  BY <1>0, <2>1, <2>2, <2>3, <2>4 DEF ReqOK
<1>4. PICK r \in AuthReq : /\ areq' = [areq EXCEPT ![q] = r] /\ r.op = "login"
                           /\ r.pc = "count active" /\ r.del = {} /\ r.add = {} /\ r.wasActive
  <2> DEFINE e == [areq[q] EXCEPT !.pc = "count active", !.s = created + 1]
  <2>1. /\ e \in AuthReq /\ e.op = "login" /\ e.pc = "count active"
        /\ e.del = {} /\ e.add = {} /\ e.wasActive
    BY <1>0 DEF AuthReq, RefreshPcs
  <2>2. areq' = [areq EXCEPT ![q] = e]  BY DEF LoginInserts
  <2> HIDE DEF e
  <2> QED  BY <2>1, <2>2
<1>5. ReqOK(r)' /\ ActiveOK(r)  BY <1>4 DEF ReqOK, ActiveOK
<1>6. \A p \in SessRequests \ {q} : Disjoint(r, areq[p])  BY <1>4 DEF Disjoint
<1>7. ~ IsVerifying(r) /\ ~ IsCounting(r) /\ ~ IsCounting(areq[q])
  BY <1>0, <1>4 DEF IsVerifying, IsCounting
<1> QED  BY <1>0, <1>2, <1>3, <1>4, <1>5, <1>6, <1>7, QuietRequest

(* The UPDATE that decides a race of refreshes: the session is live and no  *)
(* open transaction has revoked it.                                         *)
LEMMA RefreshRevokesInv == ASSUME SessInv, NEW q \in SessRequests, RefreshRevokes(q) PROVE SessInv'
<1>0. /\ areq[q] \in AuthReq /\ ReqOK(areq[q]) /\ ActiveOK(areq[q]) /\ TableOK
      /\ areq[q].op = "refresh" /\ areq[q].pc = "revoke" /\ ~ IsCounting(areq[q])
      /\ areq[q].s \notin LockedByOthers(q)
      /\ UNCHANGED <<sess, created, userStatus, failures, guesses, counterErrors>>
  BY DEF RefreshRevokes, ReqAt, SessInv, IsCounting
<1>1. CASE areq[q].s \in Live /\ areq' = [areq EXCEPT ![q].pc = "user", ![q].del = {areq[q].s}]
  <2> DEFINE e == [areq[q] EXCEPT !.pc = "user", !.del = {areq[q].s}]
  <2>1. areq[q].s \in SessionIds /\ sess[areq[q].s].state = "live"  BY <1>1 DEF Live
  <2>2. /\ e \in AuthReq /\ e.pc = "user" /\ e.op = "refresh" /\ e.s = areq[q].s
        /\ e.del = {areq[q].s} /\ e.add = areq[q].add /\ e.wasActive = areq[q].wasActive
        /\ e.rows = areq[q].rows
    BY <1>0, <2>1 DEF AuthReq, RefreshPcs
  <2>3. areq' = [areq EXCEPT ![q] = e]  BY <1>1
  <2> HIDE DEF e
  <2>4. PICK r \in AuthReq : r = e  BY <2>2
  <2>5. r.add = {}  BY <1>0, <2>2, <2>4 DEF ReqOK
  <2>6. \A t \in SessionIds : sess[t].from # areq[q].s
    BY <1>0, <2>1, SessionLimits DEF TableOK, SessionIds, NoSession
  <2>7. ReqOK(r)'  BY <1>0, <2>1, <2>2, <2>4, <2>5, <2>6 DEF ReqOK, RefreshPcs
  <2>8. ActiveOK(r)  BY <1>0, <2>2, <2>4 DEF ActiveOK
  <2>9. \A p \in SessRequests \ {q} : Disjoint(r, areq[p])
    BY <1>0, <2>2, <2>4, <2>5 DEF Disjoint, LockedByOthers
  <2>10. ~ IsVerifying(r) /\ ~ IsCounting(r)  BY <2>2, <2>4 DEF IsVerifying, IsCounting
  <2>11. areq' = [areq EXCEPT ![q] = r]  BY <2>3, <2>4
  <2> QED  BY <1>0, <2>7, <2>8, <2>9, <2>10, <2>11, SameSessionsKeep, QuietRequest
<1>2. CASE ReqEnds(q)  BY <1>0, <1>2, SameSessionsKeep, RequestEnds
<1> QED  BY <1>1, <1>2 DEF RefreshRevokes

LEMMA RefreshChecksUserInv ==
    ASSUME SessInv, NEW q \in SessRequests, RefreshChecksUser(q) PROVE SessInv'
<1>0. /\ areq[q] \in AuthReq /\ ReqOK(areq[q]) /\ ActiveOK(areq[q])
      /\ areq[q].op = "refresh" /\ areq[q].pc = "user" /\ ~ IsCounting(areq[q])
      /\ UNCHANGED <<sess, created, userStatus, failures, guesses, counterErrors>>
  BY DEF RefreshChecksUser, ReqAt, SessInv, IsCounting
<1>1. CASE userStatus = "active" /\ ReqGoto(q, "insert")
  <2>1. PICK r \in AuthReq :
              /\ areq' = [areq EXCEPT ![q] = r] /\ r.pc = "insert"
              /\ r.op = areq[q].op /\ r.s = areq[q].s /\ r.del = areq[q].del /\ r.add = areq[q].add
              /\ r.wasActive = areq[q].wasActive
    <3>1. "insert" \in LoginPcs \cup RefreshPcs \cup StatusPcs \cup {"free", "write"}
      BY DEF LoginPcs
    <3> QED  BY <1>1, <3>1, RequestGoes
  <2>2. ActiveOK(r)  BY <1>0, <1>1, <2>1 DEF ActiveOK
  <2>3. r.add = {}  BY <1>0, <2>1 DEF ReqOK
  <2> QED  BY <1>0, <2>1, <2>2, <2>3, GoesInv DEF RefreshPcs
<1>2. CASE ReqEnds(q)  BY <1>0, <1>2, SameSessionsKeep, RequestEnds
<1> QED  BY <1>1, <1>2 DEF RefreshChecksUser

(* What a refresh inserts only its transaction sees.                        *)
LEMMA RefreshInsertsInv == ASSUME SessInv, NEW q \in SessRequests, RefreshInserts(q) PROVE SessInv'
<1>0. /\ areq[q] \in AuthReq /\ ReqOK(areq[q]) /\ ActiveOK(areq[q]) /\ TableOK
      /\ areq[q].op = "refresh" /\ areq[q].pc = "insert" /\ ~ IsCounting(areq[q])
      /\ created < MaxSessions /\ created' = created + 1
      /\ UNCHANGED <<sess, userStatus, failures, guesses, counterErrors>>
  BY DEF RefreshInserts, ReqAt, SessInv, IsCounting
<1>1. /\ created \in Nat /\ created + 1 \in SessionIds /\ created + 1 \in 0 .. MaxSessions
      /\ sess[created + 1].state = "none"
  BY <1>0, SessionLimits DEF TableOK, SessionIds
<1>2. TableOK'
  <2>1. \A x \in SessionIds : x > created + 1 => x > created  BY <1>1 DEF SessionIds
  <2> QED  BY <1>0, <1>1, <2>1 DEF TableOK, RotatedOnce
<1>3. \A o \in AuthReq : ReqOK(o) => ReqOK(o)'
  <2> SUFFICES ASSUME NEW o \in AuthReq, ReqOK(o)  PROVE ReqOK(o)'  OBVIOUS
  <2>1. \A x \in o.add : x \in SessionIds  BY DEF AuthReq
  <2>2. \A x \in SessionIds : x <= created => x <= created + 1  BY <1>1 DEF SessionIds
  <2> QED  BY <1>0, <2>1, <2>2 DEF ReqOK
<1>4. PICK r \in AuthReq : /\ areq' = [areq EXCEPT ![q] = r] /\ r.op = "refresh"
                           /\ r.pc = "count active" /\ r.s = areq[q].s
                           /\ r.del = areq[q].del /\ r.add = {created + 1}
                           /\ r.wasActive = areq[q].wasActive
  <2> DEFINE e == [areq[q] EXCEPT !.pc = "count active", !.add = {created + 1}]
  <2>1. /\ e \in AuthReq /\ e.op = "refresh" /\ e.pc = "count active" /\ e.s = areq[q].s
        /\ e.del = areq[q].del /\ e.add = {created + 1} /\ e.wasActive = areq[q].wasActive
    BY <1>0, <1>1 DEF AuthReq, RefreshPcs
  <2>2. areq' = [areq EXCEPT ![q] = e]  BY DEF RefreshInserts
  <2> HIDE DEF e
  <2> QED  BY <2>1, <2>2
<1>5. ReqOK(r)'
  <2>1. created + 1 <= created'  BY <1>0, <1>1
  <2> QED  BY <1>0, <1>1, <1>4, <2>1 DEF ReqOK, RefreshPcs
<1>6. ActiveOK(r)  BY <1>0, <1>4 DEF ActiveOK, RefreshPcs
<1>7. ASSUME NEW p \in SessRequests \ {q}  PROVE Disjoint(r, areq[p])
  <2>1. Disjoint(areq[q], areq[p]) /\ \A x \in areq[p].add : x <= created  BY DEF SessInv, ReqOK
  <2>2. created + 1 \notin areq[p].add  BY <1>1, <2>1
  <2> QED  BY <1>4, <2>1, <2>2 DEF Disjoint
<1>8. ~ IsVerifying(r) /\ ~ IsCounting(r)  BY <1>4 DEF IsVerifying, IsCounting
<1> QED  BY <1>0, <1>2, <1>3, <1>4, <1>5, <1>6, <1>7, <1>8, QuietRequest

(* The commit: what was added goes live as the successor of the session the *)
(* transaction revoked, and no other transaction works on either.           *)
LEMMA RefreshCommitsInv == ASSUME SessInv, NEW q \in SessRequests, RefreshCommits(q) PROVE SessInv'
<1> DEFINE old == areq[q].s
           del == areq[q].del
           add == areq[q].add
<1>0. /\ areq[q] \in AuthReq /\ ReqOK(areq[q]) /\ TableOK /\ ReqEnds(q)
      /\ areq[q].op = "refresh" /\ areq[q].pc = "trimmed" /\ ~ IsCounting(areq[q])
      /\ UNCHANGED <<created, userStatus, failures, guesses, counterErrors>>
  BY DEF RefreshCommits, ReqAt, SessInv, IsCounting
<1>1. /\ old \in SessionIds /\ old \in del /\ old # NoSession /\ old \in 0 .. MaxSessions
      /\ \A t \in SessionIds : sess[t].from # old
      /\ del \in SUBSET SessionIds /\ add \in SUBSET SessionIds
      /\ \A x \in del : sess[x].state # "none"
      /\ \A x \in add : sess[x].state = "none" /\ x <= created
      /\ \A x, y \in add : x = y
  BY <1>0, SessionLimits DEF ReqOK, AuthReq, SessionIds, NoSession
<1> HIDE DEF old, del, add
<1>2. \A x \in SessionIds :
         sess'[x] = IF x \in add THEN [state |-> "live", from |-> old]
                    ELSE IF x \in del THEN [sess[x] EXCEPT !.state = "revoked"] ELSE sess[x]
  BY DEF RefreshCommits, Revoked, old, del, add
<1>3. \A x \in SessionIds : /\ sess[x] \in [state : {"none", "live", "revoked"}, from : 0 .. MaxSessions]
                            /\ sess[x].from # NoSession => sess[x].from \in SessionIds
  BY <1>0, SessionLimits DEF TableOK, SessionIds, NoSession
<1>4. \A x \in SessionIds :
         /\ sess'[x].from = IF x \in add THEN old ELSE sess[x].from
         /\ sess'[x].state = IF x \in add THEN "live" ELSE IF x \in del THEN "revoked" ELSE sess[x].state
         /\ sess'[x] \in [state : {"none", "live", "revoked"}, from : 0 .. MaxSessions]
  <2> SUFFICES ASSUME NEW x \in SessionIds
               PROVE  /\ sess'[x].from = IF x \in add THEN old ELSE sess[x].from
                      /\ sess'[x].state = IF x \in add THEN "live"
                                          ELSE IF x \in del THEN "revoked" ELSE sess[x].state
                      /\ sess'[x] \in [state : {"none", "live", "revoked"}, from : 0 .. MaxSessions]
    OBVIOUS
  <2>1. CASE x \in add
    <3>1. sess'[x] = [state |-> "live", from |-> old]  BY <1>2, <2>1
    <3> QED  BY <1>1, <2>1, <3>1
  <2>2. CASE x \notin add /\ x \in del
    <3>1. sess'[x] = [sess[x] EXCEPT !.state = "revoked"]  BY <1>2, <2>2
    <3> QED  BY <1>3, <2>2, <3>1
  <2>3. CASE x \notin add /\ x \notin del
    <3>1. sess'[x] = sess[x]  BY <1>2, <2>3
    <3> QED  BY <1>3, <2>3, <3>1
  <2> QED  BY <2>1, <2>2, <2>3
<1>5. sess' \in [SessionIds -> [state : {"none", "live", "revoked"}, from : 0 .. MaxSessions]]
  <2>1. sess' = [x \in SessionIds |-> sess'[x]]  BY DEF RefreshCommits
  <2> QED  BY <1>4, <2>1
<1>6. \A x \in SessionIds : sess[x].state = "revoked" => sess'[x].state = "revoked"
  BY <1>1, <1>4
<1>7. TableOK'
  <2>1. old \notin add /\ sess'[old].state = "revoked"  BY <1>1, <1>4
  <2>2. ASSUME NEW x \in SessionIds
        PROVE  /\ x > created => sess'[x].state = "none"
               /\ sess'[x].state = "none" => sess'[x].from = NoSession
               /\ sess'[x].from # NoSession => sess'[sess'[x].from].state = "revoked"
    <3>1. created \in Nat /\ x \in Nat  BY <1>0 DEF TableOK, SessionIds
    <3>2. x > created => x \notin add /\ x \notin del  BY <1>0, <1>1, <3>1 DEF TableOK
    <3> QED  BY <1>0, <1>1, <1>3, <1>4, <1>6, <2>1, <3>2 DEF TableOK
  <2>3. RotatedOnce'
    BY <1>0, <1>1, <1>3, <1>4 DEF TableOK, RotatedOnce
  <2> QED  BY <1>0, <1>5, <2>2, <2>3 DEF TableOK
<1>8. \A p \in SessRequests \ {q} : ReqOK(areq[p]) => ReqOK(areq[p])'
  <2> SUFFICES ASSUME NEW p \in SessRequests \ {q}, ReqOK(areq[p])  PROVE ReqOK(areq[p])'  OBVIOUS
  <2>1. areq'[p] = areq[p] /\ areq[p] \in AuthReq /\ Disjoint(areq[q], areq[p])
    BY <1>0 DEF ReqEnds, SessInv
  <2>2. PICK o \in AuthReq : o = areq[p]  BY <2>1
  <2>3. o.rows \subseteq SessionIds /\ o.del \subseteq SessionIds /\ o.add \subseteq SessionIds
    BY DEF AuthReq
  <2>4. o.add \cap add = {} /\ o.del \cap del = {}  BY <2>1, <2>2 DEF Disjoint, add, del
  <2>5. \A x \in SessionIds : sess[x].state # "none" => sess'[x].state # "none"  BY <1>4
  <2>6. \A x \in o.add : sess'[x].state = "none"  BY <1>1, <1>4, <2>2, <2>3, <2>4 DEF ReqOK
  <2>7. o.op = "refresh" /\ o.pc # "revoke" => \A t \in SessionIds : sess'[t].from # o.s
    <3>1. ReqOK(o)  BY <2>2
    <3>2. o.op = "refresh" /\ o.pc # "revoke" =>
             o.s \in o.del /\ \A t \in SessionIds : sess[t].from # o.s
      BY <3>1 DEF ReqOK
    <3>3. o.op = "refresh" /\ o.pc # "revoke" => o.s # old  BY <1>1, <2>4, <3>2
    <3> QED  BY <1>4, <3>2, <3>3
  <2>8. ReqOK(o)'  BY <1>0, <2>2, <2>3, <2>5, <2>6, <2>7 DEF ReqOK
  <2> QED  BY <2>1, <2>2, <2>8 DEF ReqOK
<1>9. PICK r \in AuthReq : r = FreeReq  BY FreeIsRequest
<1>10. areq' = [areq EXCEPT ![q] = r]  BY <1>0, <1>9 DEF ReqEnds
<1>11. ~ IsVerifying(r) /\ ~ IsCounting(r)  BY <1>9, FreeIsRight
<1>12. ReqOK(r)' /\ ActiveOK(r)  BY <1>9 DEF ReqOK, ActiveOK, FreeReq
<1>13. \A p \in SessRequests \ {q} : Disjoint(r, areq[p])  BY <1>9, FreeIsRequest DEF Disjoint
<1>14. GuessesCounted'  BY <1>0, <1>10, <1>11, QuietGuesses
<1> QED  BY <1>0, <1>7, <1>8, <1>10, <1>12, <1>13, <1>14, OneRequest

(* The other requests that end, and those that wait for a row.              *)
LEMMA OtherEndsInv ==
    ASSUME SessInv, NEW q \in SessRequests,
           \/ RequestAborts(q) \/ RevokeById(q) \/ ChangePasswordWrite(q) \/ RevokeAllEnds(q)
    PROVE  SessInv'
<1>0. areq[q] \in AuthReq /\ ReqOK(areq[q])  BY DEF SessInv
<1>1. CASE RequestAborts(q)
  <2>1. /\ ReqEnds(q) /\ ~ IsCounting(areq[q])
        /\ UNCHANGED <<sess, created, userStatus, failures, guesses, counterErrors>>
    BY <1>1 DEF RequestAborts, IsCounting
  <2> QED  BY <2>1, SameSessionsKeep, RequestEnds
<1>2. CASE RevokeById(q)
  <2> DEFINE rows == {areq[q].s}
  <2>1. /\ ReqEnds(q) /\ ~ IsCounting(areq[q]) /\ areq[q].op = "revoke" /\ sess' = Revoked(rows)
        /\ UNCHANGED <<created, userStatus, failures, guesses, counterErrors>>
    BY <1>2 DEF RevokeById, ReqAt, IsCounting
  <2>2. rows \in SUBSET SessionIds /\ \A x \in rows : sess[x].state # "none"
    BY <1>0, <2>1 DEF ReqOK
  <2> HIDE DEF rows
  <2> QED  BY <2>1, <2>2, RevokedKeeps, RequestEnds
<1>3. CASE ChangePasswordWrite(q)
  <2>1. /\ ReqEnds(q) /\ ~ IsCounting(areq[q])
        /\ UNCHANGED <<sess, created, userStatus, failures, guesses, counterErrors>>
    BY <1>3 DEF ChangePasswordWrite, ReqAt, IsCounting
  <2> QED  BY <2>1, SameSessionsKeep, RequestEnds
<1>4. CASE RevokeAllEnds(q)
  <2>1. /\ ReqEnds(q) /\ ~ IsCounting(areq[q]) /\ areq[q].pc = "revoking"
        /\ sess' = Revoked(areq[q].rows)
        /\ UNCHANGED <<created, userStatus, failures, guesses, counterErrors>>
    BY <1>4 DEF RevokeAllEnds, IsCounting
  <2>2. areq[q].rows \in SUBSET SessionIds /\ \A x \in areq[q].rows : sess[x].state # "none"
    BY <1>0, <2>1 DEF ReqOK, AuthReq
  <2> QED  BY <2>1, <2>2, RevokedKeeps, RequestEnds
<1> QED  BY <1>1, <1>2, <1>3, <1>4

LEMMA RevokeAllStartInv ==
    ASSUME SessInv, NEW q \in SessRequests, RevokeAllStart(q) PROVE SessInv'
<1>0. /\ areq[q] \in AuthReq /\ ReqOK(areq[q]) /\ ActiveOK(areq[q])
      /\ areq[q].op = "status" /\ areq[q].pc = "revoke all" /\ ~ IsCounting(areq[q])
      /\ UNCHANGED <<sess, created, userStatus, failures, guesses, counterErrors>>
  BY DEF RevokeAllStart, ReqAt, SessInv, IsCounting
<1> DEFINE e == [areq[q] EXCEPT !.pc = "revoking", !.rows = Live]
<1>1. /\ e \in AuthReq /\ e.pc = "revoking" /\ e.op = areq[q].op /\ e.s = areq[q].s
      /\ e.del = areq[q].del /\ e.add = areq[q].add /\ e.wasActive = areq[q].wasActive
      /\ e.rows = Live
  BY <1>0 DEF AuthReq, StatusPcs, Live
<1>2. areq' = [areq EXCEPT ![q] = e]  BY DEF RevokeAllStart
<1>3. \A x \in Live : sess[x].state # "none"  BY DEF Live
<1>4. ActiveOK(e)  BY <1>0, <1>1 DEF ActiveOK
<1> HIDE DEF e
<1> QED  BY <1>0, <1>1, <1>2, <1>3, <1>4, GoesInv

(* Steps that change the status of the account, or no request at all.       *)
LEMMA SameHoldings ==
    ASSUME SessInv, TableOK', \A r \in AuthReq : ReqOK(r) => ReqOK(r)', areq' = areq,
           userStatus' = userStatus \/ userStatus' # "active", GuessesCounted'
    PROVE  SessInv'
<1>1. \A q \in SessRequests : ReqOK(areq[q])'
  <2> SUFFICES ASSUME NEW q \in SessRequests  PROVE ReqOK(areq[q])'  OBVIOUS
  <2>1. PICK o \in AuthReq : o = areq[q]  BY DEF SessInv
  <2>2. ReqOK(o)  BY <2>1 DEF SessInv
  <2>3. ReqOK(o)'  BY <2>2
  <2> QED  BY <2>1, <2>3 DEF ReqOK
<1>2. \A q \in SessRequests : ActiveOK(areq[q])'  BY DEF SessInv, ActiveOK
<1>3. \A p, q \in SessRequests : p # q => Disjoint(areq[p], areq[q])'  BY DEF SessInv, Disjoint
<1> QED  BY <1>1, <1>2, <1>3 DEF SessInv

LEMMA SameGuesses ==
    ASSUME SessInv, UNCHANGED <<areq, failures, guesses, counterErrors>>
    PROVE  GuessesCounted'
BY DEF SessInv, GuessesCounted, Verifying, Counting, Allowance

LEMMA AccountInv ==
    ASSUME SessInv, \/ LockoutExpires \/ DeleteUser \/ UNCHANGED sessVars
                    \/ \E s \in SessionIds : SessionExpires(s)
    PROVE  SessInv'
<1>1. CASE LockoutExpires
  <2>1. /\ UNCHANGED <<sess, created, userStatus, areq, counterErrors>>
        /\ failures' = 0 /\ guesses' = 0
        /\ \A q \in SessRequests : areq[q].op # "login"
    BY <1>1 DEF LockoutExpires
  <2>2. Verifying' = {} /\ Counting' = {}
    BY <2>1 DEF Verifying, Counting, IsVerifying, IsCounting
  <2>3. Cardinality(Verifying') = 0 /\ Cardinality(Counting') = 0  BY <2>2, FS_EmptySet
  <2>4. Cardinality(SessRequests) \in Nat  BY SessionLimits, FS_CardinalityType
  <2>5. GuessesCounted'
    <3> HIDE DEF Verifying, Counting
    <3> QED  BY <2>1, <2>3, <2>4, SessionLimits DEF SessInv, GuessesCounted, Allowance
  <2> QED  BY <2>1, <2>5, SameSessionsKeep, SameHoldings
<1>2. CASE DeleteUser
  <2>1. /\ sess' = Revoked(Live) /\ userStatus' = "deleted"
        /\ UNCHANGED <<created, areq, failures, guesses, counterErrors>>
    BY <1>2 DEF DeleteUser
  <2>2. Live \in SUBSET SessionIds /\ \A x \in Live : sess[x].state # "none"  BY DEF Live
  <2>3. TableOK' /\ \A r \in AuthReq : ReqOK(r) => ReqOK(r)'  BY <2>1, <2>2, RevokedKeeps
  <2> QED  BY <2>1, <2>3, SameGuesses, SameHoldings
<1>3. ASSUME NEW s \in SessionIds, SessionExpires(s)  PROVE SessInv'
  <2> DEFINE rows == {s}
  <2>1. /\ sess' = Revoked(rows)
        /\ UNCHANGED <<created, userStatus, areq, failures, guesses, counterErrors>>
    BY <1>3 DEF SessionExpires
  <2>2. rows \in SUBSET SessionIds /\ \A x \in rows : sess[x].state # "none"
    BY <1>3 DEF SessionExpires
  <2> HIDE DEF rows
  <2>3. TableOK' /\ \A r \in AuthReq : ReqOK(r) => ReqOK(r)'  BY <2>1, <2>2, RevokedKeeps
  <2> QED  BY <2>1, <2>3, SameGuesses, SameHoldings
<1>4. CASE UNCHANGED sessVars
  <2>1. UNCHANGED <<sess, created, userStatus, areq, failures, guesses, counterErrors>>
    BY <1>4 DEF sessVars
  <2> QED  BY <2>1, SameSessionsKeep, SameGuesses, SameHoldings
<1> QED  BY <1>1, <1>2, <1>3, <1>4

(* The write that makes the account active is seen by all in flight.        *)
LEMMA UpdateStatusInv == ASSUME SessInv, NEW q \in SessRequests, UpdateStatusWrite(q) PROVE SessInv'
<1>0. /\ areq[q] \in AuthReq /\ ReqOK(areq[q]) /\ ActiveOK(areq[q])
      /\ areq[q].op = "status" /\ areq[q].pc \in {"active", "disabled"} /\ ~ IsCounting(areq[q])
      /\ areq[q].del = {} /\ areq[q].add = {}
      /\ UNCHANGED <<sess, created, failures, guesses, counterErrors>>
  BY DEF UpdateStatusWrite, SessInv, IsCounting, ReqOK
<1>t. TableOK' /\ \A o \in AuthReq : ReqOK(o) => ReqOK(o)'  BY <1>0, SameSessionsKeep
<1>1. CASE areq[q].pc = "disabled"
  <2> DEFINE e == [areq[q] EXCEPT !.pc = "revoke all"]
  <2>1. /\ e \in AuthReq /\ e.pc = "revoke all" /\ e.op = "status" /\ e.del = {} /\ e.add = {}
    BY <1>0 DEF AuthReq, StatusPcs
  <2>2. areq' = [areq EXCEPT ![q] = e] /\ userStatus' = "disabled"
    BY <1>1 DEF UpdateStatusWrite
  <2> HIDE DEF e
  <2>3. PICK r \in AuthReq : r = e  BY <2>1
  <2>4. areq' = [areq EXCEPT ![q] = r]  BY <2>2, <2>3
  <2>5. /\ areq'[q] = r /\ \A p \in SessRequests \ {q} : areq'[p] = areq[p]
        /\ areq' \in [SessRequests -> AuthReq]
    BY <2>4 DEF SessInv
  <2>6. GuessesCounted'
    <3>1. ~ IsVerifying(r) /\ ~ IsCounting(r)  BY <2>1, <2>3 DEF IsVerifying, IsCounting
    <3> QED  BY <1>0, <2>4, <3>1, QuietGuesses
  <2>7. \A p \in SessRequests : ReqOK(areq[p])' /\ ActiveOK(areq[p])'
    <3>1. \A p \in SessRequests : areq'[p].op = areq[p].op
      BY <1>0, <2>1, <2>3, <2>5
    <3>2. ASSUME NEW p \in SessRequests \ {q}  PROVE ReqOK(areq[p])' /\ ActiveOK(areq[p])'
      BY <1>0, <2>2, <2>5 DEF SessInv, ReqOK, ActiveOK
    <3>3. ReqOK(areq[q])' /\ ActiveOK(areq[q])'
      BY <2>1, <2>2, <2>3, <2>5 DEF ReqOK, ActiveOK
    <3> QED  BY <3>2, <3>3
  <2>8. \A p, o \in SessRequests : p # o => Disjoint(areq[p], areq[o])'
    BY <2>1, <2>3, <2>5 DEF SessInv, Disjoint
  <2> QED  BY <1>t, <2>5, <2>6, <2>7, <2>8 DEF SessInv
<1>2. CASE areq[q].pc = "active"
  <2>1. \A p \in SessRequests \ {q} :
            /\ areq'[p] \in AuthReq /\ areq'[p].op = areq[p].op /\ areq'[p].pc = areq[p].pc
            /\ areq'[p].s = areq[p].s /\ areq'[p].rows = areq[p].rows
            /\ areq'[p].del = areq[p].del /\ areq'[p].add = areq[p].add
            /\ areq[p].op = "free" => areq'[p] = areq[p]
            /\ areq[p].op # "free" => areq'[p].wasActive
    <3> SUFFICES ASSUME NEW p \in SessRequests \ {q}
                 PROVE  /\ areq'[p] \in AuthReq /\ areq'[p].op = areq[p].op /\ areq'[p].pc = areq[p].pc
                        /\ areq'[p].s = areq[p].s /\ areq'[p].rows = areq[p].rows
                        /\ areq'[p].del = areq[p].del /\ areq'[p].add = areq[p].add
                        /\ areq[p].op = "free" => areq'[p] = areq[p]
                        /\ areq[p].op # "free" => areq'[p].wasActive
      OBVIOUS
    <3>1. areq'[p] = IF areq[p] = FreeReq THEN areq[p] ELSE [areq[p] EXCEPT !.wasActive = TRUE]
      BY <1>2 DEF UpdateStatusWrite, Reenabled
    <3>2. areq[p] \in AuthReq /\ (areq[p].op = "free" <=> areq[p] = FreeReq)
      BY FreeIsRequest DEF SessInv, ReqOK
    <3>3. CASE areq[p] = FreeReq  BY <3>1, <3>2, <3>3
    <3>4. CASE areq[p] # FreeReq
      <4>1. areq'[p] = [areq[p] EXCEPT !.wasActive = TRUE]  BY <3>1, <3>4
      <4> QED  BY <3>2, <3>4, <4>1 DEF AuthReq
    <3> QED  BY <3>3, <3>4
  <2>2. areq'[q] = FreeReq /\ userStatus' = "active"  BY <1>2 DEF UpdateStatusWrite, Reenabled
  <2>3. areq' \in [SessRequests -> AuthReq]
    <3>1. areq' = [p \in SessRequests |-> areq'[p]]  BY <1>2 DEF UpdateStatusWrite, Reenabled
    <3> QED  BY <2>1, <2>2, <3>1, FreeIsRequest
  <2>4. GuessesCounted'
    <3>1. Verifying' = Verifying /\ Counting' = Counting
      BY <1>0, <2>1, <2>2, FreeIsRequest DEF Verifying, Counting, IsVerifying, IsCounting
    <3> QED  BY <1>0, <3>1 DEF SessInv, GuessesCounted, Allowance
  <2>5. ASSUME NEW p \in SessRequests \ {q}  PROVE ReqOK(areq[p])' /\ ActiveOK(areq[p])'
    <3>1. ReqOK(areq[p])  BY DEF SessInv
    <3>2. ReqOK(areq[p])'  BY <1>0, <2>1, <3>1 DEF ReqOK
    <3>3. ActiveOK(areq[p])'  BY <2>1 DEF ActiveOK, RefreshPcs
    <3> QED  BY <3>2, <3>3
  <2>6. ReqOK(areq[q])' /\ ActiveOK(areq[q])'
    BY <2>2 DEF ReqOK, ActiveOK, FreeReq
  <2>7. \A p, o \in SessRequests : p # o => Disjoint(areq[p], areq[o])'
    BY <2>1, <2>2, FreeIsRequest DEF SessInv, Disjoint
  <2> QED  BY <1>t, <2>3, <2>4, <2>5, <2>6, <2>7 DEF SessInv
<1> QED  BY <1>0, <1>1, <1>2

LEMMA SessInvInit == SessInit => SessInv
<1> SUFFICES ASSUME SessInit PROVE SessInv  OBVIOUS
<1>1. TableOK  BY SessionLimits DEF SessInit, TableOK, RotatedOnce, NoSession, SessionIds
<1>2. areq \in [SessRequests -> AuthReq]  BY FreeIsRequest DEF SessInit
<1>3. \A q \in SessRequests : areq[q] = FreeReq  BY DEF SessInit
<1>4. ReqOK(FreeReq) /\ ActiveOK(FreeReq)  BY DEF ReqOK, ActiveOK, FreeReq
<1>5. \A p, q \in SessRequests : Disjoint(areq[p], areq[q])  BY <1>3, FreeIsRequest DEF Disjoint
<1>6. GuessesCounted
  <2>1. Verifying = {} /\ Counting = {}  BY <1>3, FreeIsRight DEF Verifying, Counting
  <2>2. Cardinality(Verifying) = 0 /\ Cardinality(Counting) = 0  BY <2>1, FS_EmptySet
  <2>3. Cardinality(SessRequests) \in Nat  BY SessionLimits, FS_CardinalityType
  <2> HIDE DEF Verifying, Counting
  <2> QED  BY <2>2, <2>3, SessionLimits DEF SessInit, GuessesCounted, Allowance
<1> QED  BY <1>1, <1>2, <1>3, <1>4, <1>5, <1>6 DEF SessInv

LEMMA SessInvStep == SessInv /\ [SessNext]_sessVars => SessInv'
<1> SUFFICES ASSUME SessInv, [SessNext]_sessVars PROVE SessInv'  OBVIOUS
<1>1. ASSUME NEW q \in SessRequests, SessRequest(q) \/ SessStep(q) \/ RequestAborts(q)  PROVE SessInv'
  BY <1>1, RequestInv, LoginInv, LoginInsertsInv, TrimStep, TrimInv, RefreshRevokesInv,
     RefreshChecksUserInv, RefreshInsertsInv, RefreshCommitsInv, OtherEndsInv, RevokeAllStartInv,
     UpdateStatusInv DEF SessStep
<1> QED  BY <1>1, AccountInv DEF SessNext

(* Only two statements make a session live, and both come after a check of  *)
(* the status in the same request.                                          *)
LEMMA IssuedStep == SessInv /\ [SessNext]_sessVars => IssuedWhileActiveStep
<1> SUFFICES ASSUME SessInv, [SessNext]_sessVars PROVE IssuedWhileActiveStep  OBVIOUS
<1>f. IsFiniteSet(Live) /\ Cardinality(Live) \in Nat
  <2>1. Live \in SUBSET SessionIds /\ IsFiniteSet(SessionIds)
    BY SessionLimits, FS_Interval DEF Live, SessionIds
  <2> QED  BY <2>1, FS_Subset, FS_CardinalityType
<1>1. ASSUME Live' \subseteq Live  PROVE IssuedWhileActiveStep
  <2>1. IsFiniteSet(Live') /\ Cardinality(Live') <= Cardinality(Live)  BY <1>f, <1>1, FS_Subset
  <2>2. Cardinality(Live') \in Nat  BY <2>1, FS_CardinalityType
  <2>3. ~ (Cardinality(Live') > Cardinality(Live))  BY <1>f, <2>1, <2>2
  <2> QED  BY <2>3 DEF IssuedWhileActiveStep
<1>2. ASSUME UNCHANGED sess  PROVE IssuedWhileActiveStep
  <2>1. Live' \subseteq Live  BY <1>2 DEF Live
  <2> QED  BY <1>1, <2>1
<1>3. ASSUME NEW rows, sess' = Revoked(rows)  PROVE IssuedWhileActiveStep
  <2>1. \A x \in SessionIds : sess'[x].state = "live" => sess[x].state = "live"
    BY <1>3 DEF Revoked, SessInv, TableOK
  <2>2. Live' \subseteq Live  BY <2>1 DEF Live
  <2> QED  BY <1>1, <2>2
<1>4. ASSUME NEW q \in SessRequests, LoginInserts(q) \/ RefreshCommits(q)  PROVE IssuedWhileActiveStep
  <2>1. areq[q].wasActive
    <3>1. ActiveOK(areq[q])  BY DEF SessInv
    <3> QED  BY <1>4, <3>1 DEF ActiveOK, LoginInserts, RefreshCommits, ReqAt, RefreshPcs
  <2>2. \A p \in SessRequests : p # q => areq'[p] = areq[p]
    BY <1>4 DEF LoginInserts, RefreshCommits, ReqEnds, SessInv
  <2> QED  BY <2>1, <2>2 DEF IssuedWhileActiveStep
<1>5. ASSUME NEW q \in SessRequests, SessRequest(q)  PROVE IssuedWhileActiveStep
  <2>1. UNCHANGED sess
    BY <1>5 DEF SessRequest, LoginStart, LoginStartBlind, RefreshRead, RevokeRead,
                ChangePasswordRead, UpdateStatusRead
  <2> QED  BY <1>2, <2>1
<1>6. ASSUME NEW q \in SessRequests,
             \/ LoginVerify(q) \/ LoginFails(q) \/ LoginResets(q) \/ LoginDone(q)
             \/ CountActive(q) \/ SelectOldest(q) \/ RefreshRevokes(q) \/ RefreshChecksUser(q)
             \/ RefreshInserts(q) \/ ChangePasswordWrite(q) \/ UpdateStatusWrite(q)
             \/ RevokeAllStart(q) \/ RequestAborts(q)
      PROVE  IssuedWhileActiveStep
  <2>1. UNCHANGED sess
    BY <1>6 DEF LoginVerify, LoginFails, LoginResets, LoginDone, CountActive, SelectOldest,
                RefreshRevokes, RefreshChecksUser, RefreshInserts, ChangePasswordWrite,
                UpdateStatusWrite, RevokeAllStart, RequestAborts
  <2> QED  BY <1>2, <2>1
<1>7. ASSUME NEW q \in SessRequests, TrimOldest(q) \/ RevokeById(q) \/ RevokeAllEnds(q)
      PROVE  IssuedWhileActiveStep
  <2>1. UNCHANGED sess \/ \E rows : sess' = Revoked(rows)
    BY <1>7 DEF TrimOldest, RevokeById, RevokeAllEnds
  <2> QED  BY <1>2, <1>3, <2>1
<1>8. ASSUME \/ LockoutExpires \/ DeleteUser \/ UNCHANGED sessVars
             \/ \E s \in SessionIds : SessionExpires(s)
      PROVE  IssuedWhileActiveStep
  <2>1. UNCHANGED sess \/ \E rows : sess' = Revoked(rows)
    BY <1>8 DEF LockoutExpires, DeleteUser, SessionExpires, sessVars
  <2> QED  BY <1>2, <1>3, <2>1
<1>9. ASSUME NEW q \in SessRequests, SessStep(q) \/ RequestAborts(q)  PROVE IssuedWhileActiveStep
  BY <1>4, <1>6, <1>7, <1>9 DEF SessStep
<1> QED  BY <1>5, <1>8, <1>9 DEF SessNext

(* The table of sessions, what every open request holds and knows, and the *)
(* account of the guesses are right in every reachable state               *)
(* (auth/session.service.ts, auth/auth.service.ts).                        *)
THEOREM SessionInvariant == SessSpec => []SessInv
<1> QED  BY SessInvInit, SessInvStep, PTL DEF SessSpec

(* However many requests present a token, guess a password or race the     *)
(* disabling of the account: a refresh token has one successor, the number *)
(* of guesses stays within the threshold and the requests that passed the  *)
(* check together, and a session is issued only to an account that was     *)
(* active during the request.                                              *)
THEOREM SessionsSafe == SessSpec => SessionsAreSafe
<1>1. SessInv => RotatedOnce /\ GuessBudget
  <2> SUFFICES ASSUME SessInv PROVE RotatedOnce /\ GuessBudget  OBVIOUS
  <2>1. RotatedOnce  BY DEF SessInv, TableOK
  <2>2. Cardinality(Verifying) \in Nat /\ Cardinality(SessRequests) \in Nat
    <3>1. Verifying \in SUBSET SessRequests  BY DEF Verifying
    <3> QED  BY <3>1, SessionLimits, FS_Subset, FS_CardinalityType
  <2>3. GuessBudget
    <3> HIDE DEF Verifying
    <3> QED  BY <2>2, SessionLimits DEF SessInv, GuessesCounted, Allowance, GuessBudget
  <2> QED  BY <2>1, <2>3
<1> QED  BY <1>1, SessInvInit, SessInvStep, IssuedStep, PTL DEF SessSpec, SessionsAreSafe

-----------------------------------------------------------------------------
(* ModelConfigs: the table and the requests in flight *)

ModelCell == ModelRow \cup {NoModel}
EditRec   == [pc : {"idle", "name", "limit", "write"}, id : ModelIds \cup {"none"},
              new : BOOLEAN, saw : ModelCell, next : ModelCell]

IsEmbedding(row) == row.enabled /\ row.type = "embedding"

\* A request in flight names a row and the values to reach; an update has
\* read a row that exists.
EditOK(a) == ~EditAt(a, "idle") =>
    /\ editing[a].id \in ModelIds /\ editing[a].next \in ModelRow
    /\ ~editing[a].new => editing[a].saw \in ModelRow /\ models[editing[a].id] \in ModelRow

\* No other request wrote since this one read, and its check of the limit
\* still tells the truth.
EditCurrent(a) == ~EditAt(a, "idle") =>
    /\ ~editing[a].new => models[editing[a].id] = editing[a].saw
    /\ EditAt(a, "write") /\ IsEmbedding(editing[a].next)
            => EnabledEmbeddings \subseteq {editing[a].id}

TableTyped == /\ models \in [ModelIds -> ModelCell]
              /\ editing \in [ModelAdmins -> EditRec]
              /\ raced \in BOOLEAN
              /\ \A a \in ModelAdmins : EditOK(a)

OneEmbedding == ~raced => \A m, n \in EnabledEmbeddings : m = n

TableInv == /\ TableTyped
            /\ OneEmbedding
            /\ ~raced => \A a \in ModelAdmins : EditCurrent(a)

(* NoEdit is a record of its type, and idle. *)
LEMMA NoEditTyped == NoEdit \in EditRec /\ NoEdit.pc = "idle"
BY DEF NoEdit, EditRec, ModelCell

LEMMA TableInit == ModelInit => TableInv
<1> SUFFICES ASSUME ModelInit PROVE TableInv  OBVIOUS
<1>1. \A a \in ModelAdmins : editing[a] = NoEdit /\ EditAt(a, "idle")
  BY NoEditTyped DEF ModelInit, EditAt
<1>2. TableTyped  BY <1>1, NoEditTyped DEF ModelInit, TableTyped, EditOK, ModelCell
<1>3. EnabledEmbeddings = {}
  BY DEF ModelInit, EnabledEmbeddings, EnabledModels, NoModel
<1> QED  BY <1>1, <1>2, <1>3 DEF TableInv, OneEmbedding, EditCurrent

(* A request begins: the row it names is read and nothing is written. *)
LEMMA EditBegins ==
    ASSUME TableInv, NEW a \in ModelAdmins, NEW e, e \in EditRec, e.pc = "name",
           e.id \in ModelIds, e.next \in ModelRow,
           ~e.new => e.saw \in ModelRow /\ e.saw = models[e.id],
           editing' = [editing EXCEPT ![a] = e], UNCHANGED <<models, raced>>
    PROVE  TableInv'
<1>1. editing' \in [ModelAdmins -> EditRec]  BY DEF TableInv, TableTyped
<1>2. editing'[a] = e /\ \A b \in ModelAdmins \ {a} : editing'[b] = editing[b]
  BY DEF TableInv, TableTyped
<1>3. EnabledEmbeddings' = EnabledEmbeddings  BY DEF EnabledEmbeddings, EnabledModels
<1>4. ASSUME NEW b \in ModelAdmins PROVE EditOK(b)'
  <2>1. CASE b = a  BY <1>2, <2>1 DEF EditOK, EditAt
  <2>2. CASE b # a  BY <1>2, <2>2 DEF EditOK, EditAt, TableInv, TableTyped
  <2> QED  BY <2>1, <2>2
<1>5. ASSUME ~raced, NEW b \in ModelAdmins PROVE EditCurrent(b)'
  <2>1. CASE b = a  BY <1>2, <2>1 DEF EditCurrent, EditAt
  <2>2. CASE b # a  BY <1>2, <1>3, <1>5, <2>2 DEF EditCurrent, EditAt, TableInv
  <2> QED  BY <2>1, <2>2
<1>6. TableTyped'  BY <1>1, <1>4 DEF TableInv, TableTyped
<1>7. OneEmbedding'  BY <1>3 DEF TableInv, OneEmbedding
<1> QED  BY <1>5, <1>6, <1>7 DEF TableInv

(* A request ends without writing. *)
LEMMA EditStops ==
    ASSUME TableInv, NEW a \in ModelAdmins, EditEnds(a), UNCHANGED <<models, raced>>
    PROVE  TableInv'
<1>1. editing' \in [ModelAdmins -> EditRec]  BY NoEditTyped DEF TableInv, TableTyped, EditEnds
<1>2. editing'[a].pc = "idle" /\ \A b \in ModelAdmins \ {a} : editing'[b] = editing[b]
  BY NoEditTyped DEF TableInv, TableTyped, EditEnds
<1>3. EnabledEmbeddings' = EnabledEmbeddings  BY DEF EnabledEmbeddings, EnabledModels
<1>4. \A b \in ModelAdmins : EditOK(b)'
  BY <1>2 DEF EditOK, EditAt, TableInv, TableTyped
<1>5. ~raced => \A b \in ModelAdmins : EditCurrent(b)'
  BY <1>2, <1>3 DEF EditCurrent, EditAt, TableInv
<1>6. TableTyped'  BY <1>1, <1>4 DEF TableInv, TableTyped
<1>7. OneEmbedding'  BY <1>3 DEF TableInv, OneEmbedding
<1> QED  BY <1>5, <1>6, <1>7 DEF TableInv

(* A request moves on; before "write" the limit was found to hold. *)
LEMMA EditMoves ==
    ASSUME TableInv, NEW a \in ModelAdmins, NEW pc \in {"limit", "write"}, ~EditAt(a, "idle"),
           pc = "write" => ~OverEmbeddingLimit(editing[a]),
           EditTo(a, pc), UNCHANGED <<models, raced>>
    PROVE  TableInv'
<1> DEFINE e == editing[a]
<1>1. editing' \in [ModelAdmins -> EditRec]  BY DEF TableInv, TableTyped, EditTo, EditRec
<1>2. /\ editing'[a].pc = pc /\ editing'[a].id = e.id /\ editing'[a].new = e.new
      /\ editing'[a].saw = e.saw /\ editing'[a].next = e.next
      /\ \A b \in ModelAdmins \ {a} : editing'[b] = editing[b]
  BY DEF TableInv, TableTyped, EditTo, EditRec
<1>3. EnabledEmbeddings' = EnabledEmbeddings  BY DEF EnabledEmbeddings, EnabledModels
<1>4. ASSUME NEW b \in ModelAdmins PROVE EditOK(b)'
  <2>1. CASE b = a  BY <1>2, <2>1 DEF EditOK, EditAt, TableInv, TableTyped
  <2>2. CASE b # a  BY <1>2, <2>2 DEF EditOK, EditAt, TableInv, TableTyped
  <2> QED  BY <2>1, <2>2
<1>5. ASSUME ~raced, NEW b \in ModelAdmins PROVE EditCurrent(b)'
  <2>1. CASE b = a
    <3>1. ~e.new => models[e.id] = e.saw  BY <1>5 DEF EditCurrent, TableInv
    <3>2. pc = "write" /\ IsEmbedding(e.next) => EnabledEmbeddings \subseteq {e.id}
      BY DEF OverEmbeddingLimit, IsEmbedding
    <3> QED  BY <1>2, <1>3, <2>1, <3>1, <3>2 DEF EditCurrent, EditAt
  <2>2. CASE b # a  BY <1>2, <1>3, <1>5, <2>2 DEF EditCurrent, EditAt, TableInv
  <2> QED  BY <2>1, <2>2
<1>6. TableTyped'  BY <1>1, <1>4 DEF TableInv, TableTyped
<1>7. OneEmbedding'  BY <1>3 DEF TableInv, OneEmbedding
<1> QED  BY <1>5, <1>6, <1>7 DEF TableInv

(* A request writes: when no other is in flight, the row it leaves is an   *)
(* enabled embedding only if the values asked for say so.                  *)
LEMMA EditWrites ==
    ASSUME TableInv, NEW a \in ModelAdmins, EditAt(a, "write"), NEW row \in ModelRow,
           ~raced => (IsEmbedding(row) <=> IsEmbedding(editing[a].next)), Writes(a, row)
    PROVE  TableInv'
<1> DEFINE m == editing[a].id
<1>1. CASE NameTaken(m, row.name)  BY <1>1, EditStops DEF Writes
<1>2. CASE ~NameTaken(m, row.name)
  <2>1. /\ models' = [models EXCEPT ![m] = row] /\ EditEnds(a)
        /\ raced' = (raced \/ \E b \in ModelAdmins \ {a} : ~EditAt(b, "idle"))
    BY <1>2 DEF Writes
  <2>2. m \in ModelIds  BY DEF TableInv, TableTyped, EditOK, EditAt
  <2>3. /\ models' \in [ModelIds -> ModelCell] /\ models'[m] = row
        /\ \A n \in ModelIds \ {m} : models'[n] = models[n]
    BY <2>1, <2>2 DEF TableInv, TableTyped, ModelCell
  <2>4. /\ editing' \in [ModelAdmins -> EditRec] /\ editing'[a].pc = "idle"
        /\ \A b \in ModelAdmins \ {a} : editing'[b] = editing[b]
    BY <2>1, NoEditTyped DEF TableInv, TableTyped, EditEnds
  <2>5. ASSUME NEW b \in ModelAdmins PROVE EditOK(b)'
    <3>1. CASE b = a  BY <2>4, <3>1 DEF EditOK, EditAt
    <3>2. CASE b # a
      <4>1. EditOK(b)  BY DEF TableInv, TableTyped
      <4> QED  BY <2>3, <2>4, <3>2, <4>1 DEF EditOK, EditAt
    <3> QED  BY <3>1, <3>2
  <2>6. raced' \in BOOLEAN  BY <2>1 DEF TableInv, TableTyped
  <2>7. TableTyped'  BY <2>3, <2>4, <2>5, <2>6 DEF TableTyped
  <2>8. ASSUME ~raced' PROVE /\ \A b \in ModelAdmins : EditAt(b, "idle")'
                             /\ \A n, o \in EnabledEmbeddings' : n = o
    <3>1. ~raced /\ \A b \in ModelAdmins \ {a} : EditAt(b, "idle")  BY <2>1, <2>8
    <3>2. \A b \in ModelAdmins : EditAt(b, "idle")'  BY <2>4, <3>1 DEF EditAt
    <3>3. EnabledEmbeddings' \ {m} = EnabledEmbeddings \ {m}
      BY <2>3 DEF EnabledEmbeddings, EnabledModels
    <3>4. CASE IsEmbedding(row)
      <4>1. EnabledEmbeddings \subseteq {m}
        BY <3>1, <3>4 DEF TableInv, EditCurrent, EditAt
      <4> QED  BY <3>2, <3>3, <4>1
    <3>5. CASE ~IsEmbedding(row)
      <4>1. m \notin EnabledEmbeddings'
        BY <2>3, <3>5 DEF EnabledEmbeddings, EnabledModels, IsEmbedding
      <4> QED  BY <3>1, <3>2, <3>3, <4>1 DEF TableInv, OneEmbedding
    <3> QED  BY <3>4, <3>5
  <2> QED  BY <2>7, <2>8 DEF TableInv, OneEmbedding, EditCurrent
<1> QED  BY <1>1, <1>2

(* A row nobody touched since it was read is left as the request asks. *)
LEMMA ChangedRow ==
    ASSUME NEW e \in EditRec, NEW row \in ModelRow, e.next \in ModelRow, e.saw \in ModelRow
    PROVE  /\ Changed(e, row) \in ModelRow
           /\ e.saw = row => (IsEmbedding(Changed(e, row)) <=> IsEmbedding(e.next))
<1> DEFINE changed == Changed(e, row)
<1>1. DOMAIN row = {"name", "type", "enabled"}  BY DEF ModelRow
<1>2. /\ DOMAIN changed = {"name", "type", "enabled"}
      /\ changed.name = IF e.next.name # e.saw.name THEN e.next.name ELSE row.name
      /\ changed.type = IF e.next.type # e.saw.type THEN e.next.type ELSE row.type
      /\ changed.enabled = IF e.next.enabled # e.saw.enabled THEN e.next.enabled ELSE row.enabled
  BY <1>1 DEF Changed
<1>3. changed.name \in Names /\ changed.type \in Kinds /\ changed.enabled \in BOOLEAN
  BY <1>2 DEF ModelRow
<1>4. changed = [f \in {"name", "type", "enabled"} |-> changed[f]]  BY <1>1 DEF Changed
<1>5. changed = [name |-> changed.name, type |-> changed.type, enabled |-> changed.enabled]
  BY <1>4
<1>6. changed \in ModelRow  BY <1>3, <1>5 DEF ModelRow
<1>7. ASSUME e.saw = row PROVE IsEmbedding(changed) <=> IsEmbedding(e.next)
  BY <1>2, <1>7 DEF IsEmbedding
<1> QED  BY <1>6, <1>7

LEMMA EditKeeps == TableInv /\ EditStep => TableInv'
<1> SUFFICES ASSUME TableInv, NEW a \in ModelAdmins,
        CreateAsked(a) \/ UpdateReads(a) \/ ChecksName(a) \/ ChecksLimit(a)
            \/ InsertsModel(a) \/ UpdatesModel(a)
    PROVE TableInv'
  BY DEF EditStep
<1> DEFINE e == editing[a]
<1>1. CASE CreateAsked(a)
  <2>1. PICK m \in ModelIds, next \in ModelRow : editing' = [editing EXCEPT ![a] =
            [pc |-> "name", id |-> m, new |-> TRUE, saw |-> NoModel, next |-> next]]
    BY <1>1 DEF CreateAsked
  <2> DEFINE new == [pc |-> "name", id |-> m, new |-> TRUE, saw |-> NoModel, next |-> next]
  <2>2. new \in EditRec  BY DEF EditRec, ModelCell
  <2>3. new.pc = "name" /\ new.id \in ModelIds /\ new.next \in ModelRow /\ new.new  OBVIOUS
  <2>4. UNCHANGED <<models, raced>>  BY <1>1 DEF CreateAsked
  <2> HIDE DEF new
  <2> QED  BY <2>1, <2>2, <2>3, <2>4, EditBegins DEF new
<1>2. CASE UpdateReads(a)
  <2>1. PICK m \in {i \in ModelIds : models[i] # NoModel}, next \in ModelRow :
          editing' = [editing EXCEPT ![a] =
                [pc |-> "name", id |-> m, new |-> FALSE, saw |-> models[m], next |-> next]]
    BY <1>2 DEF UpdateReads
  <2> DEFINE new == [pc |-> "name", id |-> m, new |-> FALSE, saw |-> models[m], next |-> next]
  <2>2. models[m] \in ModelRow  BY DEF TableInv, TableTyped, ModelCell
  <2>3. new \in EditRec  BY <2>2 DEF EditRec, ModelCell
  <2>4. /\ new.pc = "name" /\ new.id \in ModelIds /\ new.next \in ModelRow
        /\ new.saw \in ModelRow /\ new.saw = models[new.id]
    BY <2>2
  <2>5. UNCHANGED <<models, raced>>  BY <1>2 DEF UpdateReads
  <2> HIDE DEF new
  <2> QED  BY <2>1, <2>3, <2>4, <2>5, EditBegins DEF new
<1>3. CASE ChecksName(a)
  <2>1. ~EditAt(a, "idle") /\ UNCHANGED <<models, raced>> /\ (EditEnds(a) \/ EditTo(a, "limit"))
    BY <1>3 DEF ChecksName, EditAt
  <2> QED  BY <2>1, EditStops, EditMoves
<1>4. CASE ChecksLimit(a)
  <2>1. ~EditAt(a, "idle") /\ UNCHANGED <<models, raced>>
    BY <1>4 DEF ChecksLimit, EditAt
  <2>2. EditEnds(a) \/ (~OverEmbeddingLimit(e) /\ EditTo(a, "write"))
    BY <1>4 DEF ChecksLimit
  <2> QED  BY <2>1, <2>2, EditStops, EditMoves
<1>5. CASE InsertsModel(a)
  <2>1. EditAt(a, "write") /\ Writes(a, e.next)  BY <1>5 DEF InsertsModel
  <2>2. e.next \in ModelRow  BY <2>1 DEF TableInv, TableTyped, EditOK, EditAt
  <2> QED  BY <2>1, <2>2, EditWrites
<1>6. CASE UpdatesModel(a)
  <2>1. EditAt(a, "write") /\ ~e.new  BY <1>6 DEF UpdatesModel
  <2>2. /\ e \in EditRec /\ e.next \in ModelRow /\ e.saw \in ModelRow
        /\ models[e.id] \in ModelRow
    BY <2>1 DEF TableInv, TableTyped, EditOK, EditAt
  <2>3. CASE e.next = e.saw  BY <1>6, <2>3, EditStops DEF UpdatesModel
  <2>4. CASE e.next # e.saw
    <3> DEFINE row == Changed(e, models[e.id])
    <3>1. Writes(a, row)  BY <1>6, <2>4 DEF UpdatesModel
    <3>2. ~raced => e.saw = models[e.id]
      BY <2>1 DEF TableInv, EditCurrent, EditAt
    <3>3. row \in ModelRow /\ (~raced => (IsEmbedding(row) <=> IsEmbedding(e.next)))
      BY <2>2, <3>2, ChangedRow
    <3> HIDE DEF row
    <3> QED  BY <2>1, <3>1, <3>3, EditWrites
  <2> QED  BY <2>3, <2>4
<1> QED  BY <1>1, <1>2, <1>3, <1>4, <1>5, <1>6

-----------------------------------------------------------------------------
(* ModelConfigs: the probes and the health report *)

ProbeRec == [pc : {"idle", "resolve", "connect", "done"}, by : {"none", "test", "health"},
             checked : SUBSET Addresses, spoke : SUBSET Addresses, reachable : BOOLEAN]

\* A probe has spoken only once it is done, to what its check accepted, and
\* a probe that ended well has spoken.
ProbeOK(m) == /\ probe[m].pc \in {"idle", "resolve", "connect"}
                    => probe[m].spoke = {} /\ ~probe[m].reachable
              /\ probe[m].pc = "connect" => ~Blocked(probe[m].checked)
              /\ probe[m].spoke # {} => ~Blocked(probe[m].checked)
              /\ probe[m].spoke \subseteq probe[m].checked
              /\ probe[m].reachable => probe[m].spoke # {}

HealthOK == /\ health \in [pc : {"idle", "probing", "answered"}, listed : SUBSET ModelIds,
                           status : {"none", "healthy", "degraded", "unhealthy"}]
            /\ health.pc # "answered" => health.status = "none"
            /\ health.pc = "idle" => health = NoHealth
            /\ health.status = "healthy" =>
                  \A m \in health.listed : probe[m].pc = "done" /\ probe[m].reachable

ProbeInv == /\ probe \in [ModelIds -> ProbeRec]
            /\ \A m \in ModelIds : ProbeOK(m)
            /\ HealthOK

ModelInv == TableInv /\ ProbeInv

(* A probe at rest and one that begins satisfy the invariant. *)
LEMMA FreshProbe ==
    /\ NoProbe \in ProbeRec /\ NoProbe.pc = "idle" /\ NoProbe.spoke = {} /\ ~NoProbe.reachable
    /\ \A by \in {"test", "health"} :
          /\ StartProbe(by) \in ProbeRec /\ StartProbe(by).pc = "resolve"
          /\ StartProbe(by).spoke = {} /\ ~StartProbe(by).reachable
BY DEF NoProbe, StartProbe, ProbeRec

LEMMA ProbeInit == ModelInit => ProbeInv
<1> SUFFICES ASSUME ModelInit PROVE ProbeInv  OBVIOUS
<1>1. probe \in [ModelIds -> ProbeRec] /\ \A m \in ModelIds : probe[m] = NoProbe
  BY FreshProbe DEF ModelInit
<1>2. \A m \in ModelIds : ProbeOK(m)  BY <1>1, FreshProbe DEF ProbeOK
<1>3. HealthOK  BY DEF ModelInit, NoHealth, HealthOK
<1> QED  BY <1>1, <1>2, <1>3 DEF ProbeInv

(* One probe changes and is not one the report already found well. *)
LEMMA OneProbe ==
    ASSUME ProbeInv, NEW m \in ModelIds, NEW p \in ProbeRec,
           probe' = [probe EXCEPT ![m] = p], UNCHANGED health, ProbeOK(m)',
           m \notin health.listed \/ probe[m].pc # "done"
    PROVE  ProbeInv'
<1>1. probe' \in [ModelIds -> ProbeRec]  BY DEF ProbeInv
<1>2. \A n \in ModelIds \ {m} : probe'[n] = probe[n]  BY DEF ProbeInv
<1>3. \A n \in ModelIds : ProbeOK(n)'  BY <1>2 DEF ProbeInv, ProbeOK
<1>4. HealthOK'
  <2>1. health.status = "healthy" => m \notin health.listed  BY DEF ProbeInv, HealthOK
  <2>2. health.listed \subseteq ModelIds  BY DEF ProbeInv, HealthOK
  <2>3. health.status = "healthy" =>
            \A n \in health.listed : probe'[n].pc = "done" /\ probe'[n].reachable
    BY <1>2, <2>1, <2>2 DEF ProbeInv, HealthOK
  <2> QED  BY <2>3 DEF ProbeInv, HealthOK
<1> QED  BY <1>1, <1>3, <1>4 DEF ProbeInv

(* A probe ends without having spoken. *)
LEMMA ProbeFails ==
    ASSUME ProbeInv, NEW m \in ModelIds, probe[m].pc \in {"resolve", "connect"},
           ProbeEnds(m, FALSE), UNCHANGED health
    PROVE  ProbeInv'
<1> DEFINE p == [probe[m] EXCEPT !.pc = "done", !.reachable = FALSE]
<1>1. probe[m] \in ProbeRec /\ ProbeOK(m)  BY DEF ProbeInv
<1>2. p \in ProbeRec  BY <1>1 DEF ProbeRec
<1>3. /\ p.pc = "done" /\ p.spoke = probe[m].spoke /\ p.checked = probe[m].checked
      /\ p.reachable = FALSE
  BY <1>1 DEF ProbeRec
<1>4. probe' = [probe EXCEPT ![m] = p]  BY DEF ProbeEnds
<1> HIDE DEF p
<1>5. probe'[m] = p  BY <1>4 DEF ProbeInv
<1>6. ProbeOK(m)'  BY <1>1, <1>3, <1>5 DEF ProbeOK
<1> QED  BY <1>2, <1>4, <1>6, OneProbe

LEMMA ProbeKeeps == ProbeInv /\ ProbeStep => ProbeInv'
<1> SUFFICES ASSUME ProbeInv, NEW m \in ModelIds,
        TestConnectivity(m) \/ NotConfigured(m) \/ ResolvesTarget(m) \/ ProbesEndpoint(m)
            \/ ProbeTimesOut(m)
    PROVE ProbeInv'
  BY DEF ProbeStep
<1>0. probe[m] \in ProbeRec /\ ProbeOK(m)  BY DEF ProbeInv
<1>1. CASE TestConnectivity(m)
  <2> DEFINE p == StartProbe("test")
  <2>1. probe' = [probe EXCEPT ![m] = p] /\ UNCHANGED health /\ m \notin health.listed
    BY <1>1 DEF TestConnectivity
  <2>2. probe'[m] = p  BY <2>1 DEF ProbeInv
  <2>3. p \in ProbeRec /\ p.pc = "resolve" /\ p.spoke = {} /\ ~p.reachable  BY FreshProbe
  <2> HIDE DEF p
  <2>4. ProbeOK(m)'  BY <2>2, <2>3 DEF ProbeOK
  <2> QED  BY <2>1, <2>3, <2>4, OneProbe
<1>2. CASE NotConfigured(m)  BY <1>2, ProbeFails DEF NotConfigured
<1>3. CASE ResolvesTarget(m)
  <2>1. probe[m].pc = "resolve" /\ UNCHANGED health  BY <1>3 DEF ResolvesTarget
  <2>2. PICK answer \in SUBSET Addresses :
            \/ ProbeEnds(m, FALSE)
            \/ /\ ~Blocked(answer)
               /\ probe' = [probe EXCEPT ![m].pc = "connect", ![m].checked = answer]
    BY <1>3 DEF ResolvesTarget
  <2>3. CASE ProbeEnds(m, FALSE)  BY <2>1, <2>3, ProbeFails
  <2>4. CASE ~Blocked(answer)
              /\ probe' = [probe EXCEPT ![m].pc = "connect", ![m].checked = answer]
    <3> DEFINE p == [probe[m] EXCEPT !.pc = "connect", !.checked = answer]
    <3>1. p \in ProbeRec  BY <1>0 DEF ProbeRec
    <3>2. /\ p.pc = "connect" /\ p.spoke = probe[m].spoke /\ p.checked = answer
          /\ p.reachable = probe[m].reachable
      BY <1>0 DEF ProbeRec
    <3>3. probe' = [probe EXCEPT ![m] = p]  BY <2>4
    <3> HIDE DEF p
    <3>4. probe'[m] = p  BY <3>3 DEF ProbeInv
    <3>5. ProbeOK(m)'  BY <1>0, <2>1, <2>4, <3>2, <3>4 DEF ProbeOK
    <3>6. probe[m].pc # "done"  BY <2>1
    <3> QED  BY <2>1, <3>1, <3>3, <3>5, <3>6, OneProbe
  <2> QED  BY <2>2, <2>3, <2>4
<1>4. CASE ProbesEndpoint(m)
  <2>1. probe[m].pc = "connect" /\ UNCHANGED health  BY <1>4 DEF ProbesEndpoint
  <2>2. PICK address \in probe[m].checked, ok \in BOOLEAN :
            probe' = [probe EXCEPT ![m].pc = "done", ![m].spoke = {address}, ![m].reachable = ok]
    BY <1>4 DEF ProbesEndpoint, DialledAddresses
  <2> DEFINE p == [probe[m] EXCEPT !.pc = "done", !.spoke = {address}, !.reachable = ok]
  <2>3. address \in Addresses  BY <1>0 DEF ProbeRec
  <2>4. p \in ProbeRec  BY <1>0, <2>3 DEF ProbeRec
  <2>5. /\ p.pc = "done" /\ p.spoke = {address} /\ p.checked = probe[m].checked
        /\ p.reachable = ok
    BY <1>0 DEF ProbeRec
  <2>6. probe' = [probe EXCEPT ![m] = p]  BY <2>2
  <2> HIDE DEF p
  <2>7. probe'[m] = p  BY <2>6 DEF ProbeInv
  <2>8. ProbeOK(m)'  BY <1>0, <2>1, <2>5, <2>7 DEF ProbeOK
  <2>9. probe[m].pc # "done"  BY <2>1
  <2> QED  BY <2>1, <2>4, <2>6, <2>8, <2>9, OneProbe
<1>5. CASE ProbeTimesOut(m)  BY <1>5, ProbeFails DEF ProbeTimesOut
<1> QED  BY <1>1, <1>2, <1>3, <1>4, <1>5

LEMMA HealthKeeps == ProbeInv /\ (HealthAsked \/ HealthAnswered \/ HealthForgotten) => ProbeInv'
<1> SUFFICES ASSUME ProbeInv, HealthAsked \/ HealthAnswered \/ HealthForgotten PROVE ProbeInv'
  OBVIOUS
<1>1. CASE HealthAsked
  <2>1. health.pc = "idle" /\ health = NoHealth
    BY <1>1 DEF HealthAsked, ProbeInv, HealthOK
  <2>2. health'.pc = "probing" /\ health'.status = "none" /\ health'.listed = EnabledModels
        /\ health' \in [pc : {"idle", "probing", "answered"}, listed : SUBSET ModelIds,
                        status : {"none", "healthy", "degraded", "unhealthy"}]
    BY <1>1, <2>1 DEF HealthAsked, NoHealth, EnabledModels
  <2>3. HealthOK'  BY <2>2 DEF HealthOK
  <2>4. probe' = [m \in ModelIds |->
                    IF m \in EnabledModels THEN StartProbe("health") ELSE NoProbe]
    BY <1>1 DEF HealthAsked
  <2>5. probe' \in [ModelIds -> ProbeRec]  BY <2>4, FreshProbe
  <2>6. \A m \in ModelIds : probe'[m].pc \in {"idle", "resolve"} /\ probe'[m].spoke = {}
                            /\ ~probe'[m].reachable
    BY <2>4, FreshProbe
  <2>7. \A m \in ModelIds : ProbeOK(m)'  BY <2>6 DEF ProbeOK
  <2> QED  BY <2>3, <2>5, <2>7 DEF ProbeInv
<1>2. CASE HealthAnswered
  <2>1. health \in [pc : {"idle", "probing", "answered"}, listed : SUBSET ModelIds,
                    status : {"none", "healthy", "degraded", "unhealthy"}]
    BY DEF ProbeInv, HealthOK
  <2>2. PICK database \in BOOLEAN :
          health' = [health EXCEPT !.pc = "answered",
                                   !.status = OverallStatus(database, AllReachable)]
    BY <1>2 DEF HealthAnswered
  <2> DEFINE status == OverallStatus(database, AllReachable)
  <2>3. status \in {"healthy", "degraded", "unhealthy"} /\ (status = "healthy" => AllReachable)
    BY DEF OverallStatus
  <2> HIDE DEF status
  <2>4. /\ health'.pc = "answered" /\ health'.status = status /\ health'.listed = health.listed
        /\ health' \in [pc : {"idle", "probing", "answered"}, listed : SUBSET ModelIds,
                        status : {"none", "healthy", "degraded", "unhealthy"}]
    <3>1. health' = [health EXCEPT !.pc = "answered", !.status = status]  BY <2>2 DEF status
    <3> QED  BY <2>1, <2>3, <3>1
  <2>5. UNCHANGED probe  BY <1>2 DEF HealthAnswered
  <2>6. AllReachable => \A m \in health.listed : probe[m].pc = "done" /\ probe[m].reachable
    BY DEF AllReachable, Settled
  <2>7. HealthOK'  BY <2>3, <2>4, <2>5, <2>6 DEF HealthOK
  <2>8. \A m \in ModelIds : ProbeOK(m)'  BY <2>5 DEF ProbeInv, ProbeOK
  <2> QED  BY <2>5, <2>7, <2>8 DEF ProbeInv
<1>3. CASE HealthForgotten
  <2>1. health' = NoHealth /\ probe' = [m \in ModelIds |-> NoProbe]  BY <1>3 DEF HealthForgotten
  <2>2. HealthOK'  BY <2>1 DEF HealthOK, NoHealth
  <2>3. probe' \in [ModelIds -> ProbeRec] /\ \A m \in ModelIds : probe'[m] = NoProbe
    BY <2>1, FreshProbe
  <2>4. \A m \in ModelIds : ProbeOK(m)'  BY <2>3, FreshProbe DEF ProbeOK
  <2> QED  BY <2>2, <2>3, <2>4 DEF ProbeInv
<1> QED  BY <1>1, <1>2, <1>3

-----------------------------------------------------------------------------
(* Each half is left alone by the steps of the other. *)
LEMMA TableUntouched == TableInv /\ UNCHANGED modelTable => TableInv'
BY DEF modelTable, TableInv, TableTyped, OneEmbedding, EditOK, EditCurrent, EditAt, IsEmbedding,
       EnabledEmbeddings, EnabledModels

LEMMA ProbesUntouched == ProbeInv /\ UNCHANGED <<probe, health>> => ProbeInv'
BY DEF ProbeInv, ProbeOK, HealthOK, Blocked

(* The table of models and the probes keep their invariant: a request in    *)
(* flight has read what is stored unless requests overlapped, and a probe   *)
(* speaks only to what it checked                                           *)
(* (createModel, updateModel, probeModel, getHealth).                       *)
THEOREM ModelInvariant == ModelSpec => []ModelInv
<1>1. ModelInit => ModelInv  BY TableInit, ProbeInit DEF ModelInv
<1>2. ModelInv /\ [ModelNext]_modelVars => ModelInv'
  <2> SUFFICES ASSUME ModelInv, [ModelNext]_modelVars PROVE ModelInv'  OBVIOUS
  <2>1. CASE EditStep
    <3>1. UNCHANGED <<probe, health>>  BY <2>1 DEF EditStep
    <3> QED  BY <2>1, <3>1, EditKeeps, ProbesUntouched DEF ModelInv
  <2>2. CASE ProbeStep
    <3>1. UNCHANGED modelTable
      BY <2>2 DEF ProbeStep, TestConnectivity, NotConfigured, ResolvesTarget, ProbesEndpoint,
                  ProbeTimesOut
    <3> QED  BY <2>2, <3>1, ProbeKeeps, TableUntouched DEF ModelInv
  <2>3. CASE HealthAsked \/ HealthAnswered \/ HealthForgotten
    <3>1. UNCHANGED modelTable  BY <2>3 DEF HealthAsked, HealthAnswered, HealthForgotten
    <3> QED  BY <2>3, <3>1, HealthKeeps, TableUntouched DEF ModelInv
  <2>4. CASE UNCHANGED modelVars
    <3>1. UNCHANGED modelTable /\ UNCHANGED <<probe, health>>
      BY <2>4 DEF modelVars, modelTable
    <3> QED  BY <3>1, TableUntouched, ProbesUntouched DEF ModelInv
  <2> QED  BY <2>1, <2>2, <2>3, <2>4 DEF ModelNext
<1> QED  BY <1>1, <1>2, PTL DEF ModelSpec

(* A second enabled embedding model needs overlapping requests, a probe     *)
(* speaks to no address its check refused, and a healthy report rests on    *)
(* answers (assertEmbeddingLimit, safeFetch, getHealth).                    *)
THEOREM ModelsChecked == ModelSpec => []ModelsAreChecked
<1>1. ModelInv => ModelsAreChecked
  <2> SUFFICES ASSUME ModelInv PROVE ModelsAreChecked  OBVIOUS
  <2>1. SecondEmbeddingNeedsARace
    <3> SUFFICES ASSUME ~raced PROVE ~(Cardinality(EnabledEmbeddings) > 1)
      BY DEF SecondEmbeddingNeedsARace
    <3>1. \A m, n \in EnabledEmbeddings : m = n  BY DEF ModelInv, TableInv, OneEmbedding
    <3>2. CASE EnabledEmbeddings = {}  BY <3>2, FS_EmptySet
    <3>3. CASE EnabledEmbeddings # {}
      <4>1. PICK m \in EnabledEmbeddings : TRUE  BY <3>3
      <4>2. EnabledEmbeddings = {m}  BY <3>1, <4>1
      <4>3. Cardinality({m}) = 1  BY FS_Singleton
      <4> QED  BY <4>2, <4>3
    <3> QED  BY <3>2, <3>3
  <2>2. ProbeSpeaksToChecked
    BY DEF ModelInv, ProbeInv, ProbeOK, ProbeSpeaksToChecked, Blocked, IsUnsafe, IsAllowlisted
  <2>3. HealthyMeansAnswered
    BY DEF ModelInv, ProbeInv, HealthOK, ProbeOK, HealthyMeansAnswered
  <2> QED  BY <2>1, <2>2, <2>3 DEF ModelsAreChecked
<1> QED  BY <1>1, ModelInvariant, PTL

=============================================================================
