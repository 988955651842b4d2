----------------------------- MODULE WebSession -----------------------------
(***************************************************************************)
(* Who the web application believes is signed in (apps/web lib/auth.tsx    *)
(* and lib/api.ts): the session restored from the refresh cookie at page   *)
(* load, sign-in, sign-out, the refresh timer, the profile read anew after *)
(* a space was created or archived, and the handler that ends the session  *)
(* on any 401.  The server answers a request at one moment and the page    *)
(* handles the answer at a later one, in any order.                        *)
(***************************************************************************)
EXTENDS Naturals

CONSTANTS
    People,         \* the accounts of this browser
    MaxSignIns,     \* bound: sign-in attempts
    MaxWebFaults    \* bound: errors, and 401s of a token that has expired

VARIABLES
    cookie,     \* whose refresh cookie the browser holds
    page,       \* the state and the refs of AuthProvider; gen is sessionGenRef,
                \* which is only compared with its first value: 0, or 1 once it grew
    call,       \* the requests in flight, one of each kind
    signIns, webFaults,
    overtaken,  \* history: refreshes and profile requests in flight that were
                \* asked before the page last took or lost a session
    late,       \* history: what their answers have set since: "token", "user"
    left        \* history: signed out, and no sign-in answered since

webVars == <<cookie, page, call, signIns, webFaults, overtaken, late, left>>

None  == "none"
PageCalls == {"boot", "bootMe", "timer", "login", "loginMe", "logout", "request", "profile"}
TokenCalls == {"bootMe", "loginMe", "request", "profile"}
NoCall == [pc |-> "idle", who |-> None, gen |-> 0, answer |-> None]
Sent(who, gen) == [pc |-> "sent", who |-> who, gen |-> gen, answer |-> None]

WebInit ==
    /\ cookie \in People \cup {None}
    /\ page = [token |-> None, user |-> None, gen |-> 0, timer |-> FALSE, booting |-> TRUE]
    /\ call = [[c \in PageCalls |-> NoCall] EXCEPT !["boot"] = Sent(None, 0)]
    /\ signIns = 0 /\ webFaults = 0
    /\ overtaken = {} /\ late = {}
    /\ left = FALSE

Arrived(c) == call[c].pc = "answered"
Answer(c)  == call[c].answer
Handled(c) == [call EXCEPT ![c] = NoCall]
InFlight(c) == call[c].pc # "idle"

(* The history: the page took or lost a session; it heard an answer, which *)
(* may have come too late, or one that is only used in time.               *)
Underway == {c \in {"timer", "profile"} : call'[c].pc # "idle"}
Lost     == overtaken' = Underway /\ late' = {}
Taken    == overtaken' = Underway /\ late' = late \ {"token"}
Heard(c, field) ==
    /\ overtaken' = overtaken \ {c}
    /\ late' = IF c \in overtaken THEN late \cup {field} ELSE late
Unheard(c) == overtaken' = overtaken \ {c} /\ UNCHANGED late
SameHistory == UNCHANGED <<overtaken, late>>
LostOr(otherwise) == IF page'.token = None /\ page'.user = None THEN Lost ELSE otherwise

-----------------------------------------------------------------------------
(* The server.                                                             *)

Answers(c, a) == call' = [call EXCEPT ![c].pc = "answered", ![c].answer = a]

ServerRefreshes(c) ==
    /\ c \in {"boot", "timer"} /\ call[c].pc = "sent"
    /\ Answers(c, IF cookie = None THEN "401" ELSE cookie)
    /\ UNCHANGED <<cookie, page, signIns, webFaults, overtaken, late, left>>

ServerSignsIn ==
    /\ call["login"].pc = "sent"
    /\ \/ cookie' = call["login"].who /\ Answers("login", call["login"].who)
       \/ UNCHANGED cookie /\ Answers("login", "401")
    /\ UNCHANGED <<page, signIns, webFaults, overtaken, late, left>>

ServerSignsOut ==
    /\ call["logout"].pc = "sent"
    /\ cookie' = None /\ Answers("logout", "ok")
    /\ UNCHANGED <<page, signIns, webFaults, overtaken, late, left>>

\* A request without a token is answered 401.
ServerTells(c) ==
    /\ c \in TokenCalls /\ call[c].pc = "sent"
    /\ Answers(c, IF call[c].who = None THEN "401" ELSE call[c].who)
    /\ UNCHANGED <<cookie, page, signIns, webFaults, overtaken, late, left>>

CallFails(c) ==
    /\ call[c].pc = "sent" /\ webFaults < MaxWebFaults
    /\ webFaults' = webFaults + 1
    /\ \E a \in {"error"} \cup (IF c \in TokenCalls THEN {"401"} ELSE {}) :
          Answers(c, a)
    /\ UNCHANGED <<cookie, page, signIns, overtaken, late, left>>

-----------------------------------------------------------------------------
(* The page.                                                               *)

Cleared(p) == [p EXCEPT !.token = None, !.user = None, !.timer = FALSE, !.gen = 1]
Holding(p, token) == [p EXCEPT !.token = token, !.timer = TRUE]
IsToken(a) == a \in People

\* onUnauthorized: any 401 ends the session, except while it is restored.
Unauthorized(p) == IF p.booting \/ InFlight("boot") THEN p ELSE Cleared(p)

\* mutant: a restoration that was superseded returns before it is marked done
OnlyIfCurrent(p, c) == IF call[c].gen = page.gen THEN [p EXCEPT !.booting = FALSE] ELSE p

\* The finally block of bootstrapSession.
Restored(p, c) == [p EXCEPT !.booting = FALSE]

\* The page at /login is not guarded: it may be used while a session is shown,
\* is restored or is being left.
SignIn(who) ==
    /\ ~InFlight("login") /\ ~InFlight("loginMe")
    /\ signIns < MaxSignIns /\ signIns' = signIns + 1
    /\ page' = [page EXCEPT !.gen = 1]
    /\ call' = [call EXCEPT !["login"] = Sent(who, 0)]
    /\ UNCHANGED <<cookie, webFaults, overtaken, late, left>>

SignOut ==
    /\ page.user # None /\ page.token # None /\ ~InFlight("logout")
    /\ call' = [call EXCEPT !["logout"] = Sent(None, 0)]
    /\ UNCHANGED <<cookie, page, signIns, webFaults, overtaken, late, left>>

AsksSomething ==
    /\ page.token # None /\ ~InFlight("request")
    /\ call' = [call EXCEPT !["request"] = Sent(page.token, 0)]
    /\ UNCHANGED <<cookie, page, signIns, webFaults, overtaken, late, left>>

TimerFires ==
    /\ page.timer /\ ~InFlight("timer")
    /\ page' = [page EXCEPT !.timer = FALSE]
    /\ call' = [call EXCEPT !["timer"] = Sent(None, 0)]
    /\ UNCHANGED <<cookie, signIns, webFaults, overtaken, late, left>>

\* mutant: the answer is used whatever happened since it was asked for
AnyGeneration(c) == TRUE

SameGeneration(c) == call[c].gen = page.gen

BootRefreshed ==
    /\ Arrived("boot")
    /\ IF IsToken(Answer("boot")) /\ SameGeneration("boot")
       THEN /\ page' = Holding(page, Answer("boot"))
            /\ call' = [Handled("boot") EXCEPT !["bootMe"] = Sent(Answer("boot"), call["boot"].gen)]
            /\ Taken
       ELSE /\ page' = Restored(IF SameGeneration("boot") THEN Cleared(page) ELSE page, "boot")
            /\ call' = Handled("boot")
            /\ LostOr(SameHistory)
    /\ UNCHANGED <<cookie, signIns, webFaults, left>>

BootLearnsUser ==
    LET a == Answer("bootMe")
        p == IF a = "401" THEN Unauthorized(page) ELSE page IN
    /\ Arrived("bootMe")
    /\ page' = Restored(IF call["bootMe"].gen # p.gen THEN p
                        ELSE IF IsToken(a) THEN [p EXCEPT !.user = a] ELSE Cleared(p), "bootMe")
    /\ call' = Handled("bootMe")
    /\ LostOr(SameHistory)
    /\ UNCHANGED <<cookie, signIns, webFaults, left>>

SignInAnswered ==
    LET a == Answer("login") IN
    /\ Arrived("login")
    /\ IF IsToken(a)
       THEN /\ page' = Holding(page, a)
            /\ call' = [Handled("login") EXCEPT !["loginMe"] = Sent(a, 0)]
            /\ left' = FALSE
            /\ Taken
       ELSE /\ page' = IF a = "401" THEN Unauthorized(page) ELSE page
            /\ call' = Handled("login")
            /\ UNCHANGED left
            /\ LostOr(SameHistory)
    /\ UNCHANGED <<cookie, signIns, webFaults>>

SignInLearnsUser ==
    LET a == Answer("loginMe") IN
    /\ Arrived("loginMe")
    /\ page' = [(IF a = "401" THEN Cleared(Unauthorized(page))
                 ELSE [page EXCEPT !.user = call["loginMe"].who]) EXCEPT !.booting = FALSE]
    /\ call' = Handled("loginMe")
    /\ LostOr(UNCHANGED overtaken /\ late' = late \ {"user"})
    /\ UNCHANGED <<cookie, signIns, webFaults, left>>


AfterSignOut(p) == Cleared(p)

SignOutAnswered ==
    /\ Arrived("logout")
    /\ page' = AfterSignOut(page)
    /\ call' = Handled("logout")
    /\ left' = TRUE
    /\ Lost
    /\ UNCHANGED <<cookie, signIns, webFaults>>

\* refresh, called by the timer: whatever happened since, the token is set
\* and the timer armed again; after an error the timer is not armed.
TimerAnswered ==
    LET a == Answer("timer") IN
    /\ Arrived("timer")
    /\ page' = IF IsToken(a) THEN Holding(page, a)
               ELSE IF a = "401" THEN Unauthorized(page) ELSE page
    /\ call' = Handled("timer")
    /\ LostOr(IF IsToken(a) THEN Heard("timer", "token") ELSE Unheard("timer"))
    /\ UNCHANGED <<cookie, signIns, webFaults, left>>

\* Creating or archiving a space goes on to read the profile, with the token
\* that the page holds by then.
AsksProfile ==
    /\ IsToken(Answer("request")) /\ ~InFlight("profile")
    /\ call' = [Handled("request") EXCEPT !["profile"] = Sent(page.token, 0)]

RequestAnswered ==
    /\ Arrived("request")
    /\ page' = IF Answer("request") = "401" THEN Unauthorized(page) ELSE page
    /\ call' = Handled("request") \/ AsksProfile
    /\ LostOr(SameHistory)
    /\ UNCHANGED <<cookie, signIns, webFaults, left>>

\* refreshUser: the person is shown whatever happened since; its catch clause
\* leaves the rest of a 401 to the handler.
ProfileAnswered ==
    LET a == Answer("profile") IN
    /\ Arrived("profile")
    /\ page' = IF IsToken(a) THEN [page EXCEPT !.user = a]
               ELSE IF a = "401" THEN Unauthorized(page) ELSE page
    /\ call' = Handled("profile")
    /\ LostOr(IF IsToken(a) THEN Heard("profile", "user") ELSE Unheard("profile"))
    /\ UNCHANGED <<cookie, signIns, webFaults, left>>

-----------------------------------------------------------------------------
ServerAnswers(c) == ServerRefreshes(c) \/ ServerTells(c)
ServerStep == \/ \E c \in PageCalls : ServerAnswers(c) \/ CallFails(c)
              \/ ServerSignsIn \/ ServerSignsOut
PageStep == BootRefreshed \/ BootLearnsUser \/ SignInAnswered \/ SignInLearnsUser
    \/ SignOutAnswered \/ TimerAnswered \/ RequestAnswered \/ ProfileAnswered
PersonStep == (\E who \in People : SignIn(who)) \/ SignOut \/ AsksSomething \/ TimerFires

WebNext == ServerStep \/ PageStep \/ PersonStep

WebSpec == WebInit /\ [][WebNext]_webVars

\* Every request is answered or fails, and every answer is handled.
WebFair == /\ \A c \in PageCalls : WF_webVars(ServerAnswers(c))
           /\ WF_webVars(BootRefreshed) /\ WF_webVars(BootLearnsUser)

WebLive == WebSpec /\ WebFair

-----------------------------------------------------------------------------
(* Properties                                                              *)

\* The page shows one person and acts as another only while a sign-in is under
\* way, or after the answer to a refresh or a profile request that was asked
\* before the session the page has now: no order of restoring the session,
\* signing in and out, requests, and answers in time leads there.
SigningIn == InFlight("login") \/ InFlight("loginMe")
ActsAsWhoItShows ==
    page.token # None /\ page.user # None /\ page.token # page.user => SigningIn \/ late # {}

\* After signing out the page holds no token until a sign-in is answered, even
\* if the server could not be told - unless a refresh was under way.
SignOutForgets == left /\ "token" \notin late => page.token = None

\* Restoring the session ends, whatever the person does meanwhile: the page
\* does not stay behind its spinner.
Restoring == page.booting
RestoringEnds == Restoring ~> ~Restoring
=============================================================================
