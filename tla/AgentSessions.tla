--------------------------- MODULE AgentSessions ---------------------------
(***************************************************************************)
(* The resident agent processes of the API: agent.service.ts (slots, turns *)
(* and process supervision), session-manager.ts (the runtime sessions),    *)
(* persistent-stream-parser.ts, turn-event-queue.ts and session-mutex.ts.  *)
(*                                                                         *)
(* A conversation has at most one session; a session owns at most one     *)
(* child process, which is kept idle between turns.  Everything runs on    *)
(* one event loop: an action is the code between two awaits.  Each turn    *)
(* works on a clone of the session taken earlier (cloned.child), while the *)
(* idle timer, the LRU eviction, close() and the exit of the process       *)
(* change the session itself.                                              *)
(***************************************************************************)
EXTENDS Naturals, Sequences, FiniteSets

CONSTANTS Conversations, Turns, Processes, NoOne,
          MaxConcurrentAgents,  \* acquireSlot's limit
          MAX_QUEUE_SIZE,       \* waiting turns beyond which acquireSlot throws
          MaxReconfigs          \* bound: turns that change the options

\* NoOne is null: no conversation, turn or process.
ASSUME AgentLimits ==
    /\ NoOne \notin Conversations \cup Turns \cup Processes
    /\ MaxConcurrentAgents \in Nat /\ MAX_QUEUE_SIZE \in Nat

VARIABLES
    session,       \* SessionManager.sessions
    parser,        \* AgentService.persistentParsers: the process being read
    holders,       \* AgentService.persistentSlotHolders
    activeAgents,  \* AgentService.activeAgents
    waiting,       \* AgentService.queue: the turns in it
    turnMutex,     \* AgentService.turnMutex: the turn that holds the lock
    child,         \* the child processes, each with its stream parser
    turn,          \* calls of sendTurn
    reconfigs

agentVars == <<session, parser, holders, activeAgents, waiting, turnMutex, child, turn,
               reconfigs>>

Status == {"starting", "running", "idle", "stopping", "stopped", "failed"}

NoAgentSession == [here |-> FALSE, status |-> "stopped", child |-> NoOne, provider |-> FALSE,
                   ending |-> "no"]

NoChild == [conv |-> NoOne, life |-> "none", signalled |-> FALSE, reading |-> FALSE,
            turn |-> NoOne, exit |-> "untracked"]

NewTurn == [at |-> "new", conv |-> NoOne, child |-> NoOne, status |-> "starting", provider |-> FALSE,
            locked |-> "no", resuming |-> FALSE, got |-> "nothing", done |-> FALSE]

AgentInit ==
    /\ session = [c \in Conversations |-> NoAgentSession]
    /\ parser = [c \in Conversations |-> NoOne]
    /\ holders = {} /\ activeAgents = 0 /\ waiting = <<>>
    /\ turnMutex = [c \in Conversations |-> NoOne]
    /\ child = [p \in Processes |-> NoChild]
    /\ turn = [t \in Turns |-> NewTurn]
    /\ reconfigs = 0

Gone(p) == child[p].life \in {"exited", "killed"}

\* exitCode === null also holds of a process that a signal ended.
IsLiveProcess(p) == p # NoOne /\ child[p].life \in {"live", "killed"}

TurnAt(t, at) == turn[t].at = at
Conv(t) == turn[t].conv
TurnGoes(t, at) == turn' = [turn EXCEPT ![t].at = at]

\* child.kill: nothing happens to a process that is gone.
Signalled(ch, p) == IF p = NoOne THEN ch ELSE [ch EXCEPT ![p].signalled = TRUE]

\* PersistentStreamParser.stop and cancelActiveTurn, of the parser of process p.
StopReading(ch, p) == IF p = NoOne THEN ch ELSE [ch EXCEPT ![p].reading = FALSE, ![p].turn = NoOne]
TurnOf(p) == IF p = NoOne THEN NoOne ELSE child[p].turn
Settle(tn, t) == IF t = NoOne THEN tn ELSE [tn EXCEPT ![t].done = TRUE]

\* releaseSlot: the next waiting turn, if there is one, takes the slot over.
ReleaseSlot(tn) ==
    IF waiting = <<>>
    THEN /\ activeAgents' = IF activeAgents = 0 THEN 0 ELSE activeAgents - 1
         /\ turn' = tn /\ UNCHANGED waiting
    ELSE /\ turn' = [tn EXCEPT ![Head(waiting)].at = "granted"]
         /\ waiting' = Tail(waiting) /\ UNCHANGED activeAgents

ReleasePersistentSlot(c, tn) ==
    /\ holders' = holders \ {c}
    /\ \/ c \in holders /\ ReleaseSlot(tn)
       \/ c \notin holders /\ turn' = tn /\ UNCHANGED <<activeAgents, waiting>>

\* markIdle, and the first half of stopRuntimeSession: the child is taken
\* from the session at once, the new status follows when it has ended.
MarkIdle(c) == [session EXCEPT ![c].status = IF session[c].here THEN "idle" ELSE @]
TakeChild(c) == [session EXCEPT ![c].child = NoOne]
MarkEnded(ss, c, s) == [ss EXCEPT ![c].child = NoOne, ![c].status = IF ss[c].here THEN s ELSE @]

(***************************************************************************)
(* sendTurn up to a running process.                                       *)
(***************************************************************************)
\* A second turn of a conversation is refused with AgentSessionBusyError.
SendTurn(t, c) ==
    /\ TurnAt(t, "new") /\ session[c].ending # "closed"
    /\ \/ /\ turnMutex[c] = NoOne
          /\ turn' = [turn EXCEPT ![t].at = "session", ![t].conv = c]
          /\ turnMutex' = [turnMutex EXCEPT ![c] = t]
       \/ /\ turnMutex[c] # NoOne
          /\ turn' = [turn EXCEPT ![t].at = "busy", ![t].conv = c] /\ UNCHANGED turnMutex
    /\ UNCHANGED <<session, parser, holders, activeAgents, waiting, child, reconfigs>>

\* The caller has its answer: the lock is free, the call may be made again.
TurnEnds(t, tn) ==
    /\ turn' = [tn EXCEPT ![t] = NewTurn]
    /\ turnMutex' = [turnMutex EXCEPT ![Conv(t)] = IF @ = t THEN NoOne ELSE @]

TurnRefused(t) ==
    /\ TurnAt(t, "busy") /\ TurnEnds(t, turn)
    /\ UNCHANGED <<session, parser, holders, activeAgents, waiting, child, reconfigs>>

Cloned(t, s) == [turn EXCEPT ![t].child = s.child, ![t].status = s.status, ![t].provider = s.provider]

GetOrCreateSession(t) ==
    LET c == Conv(t)
        s == IF session[c].here THEN session[c]
             ELSE [session[c] EXCEPT !.here = TRUE, !.status = "starting", !.child = NoOne, !.provider = FALSE]
    IN /\ TurnAt(t, "session")
       /\ session' = [session EXCEPT ![c] = s]
       /\ turn' = [Cloned(t, s) EXCEPT ![t].at = "refresh"]
       /\ UNCHANGED <<parser, holders, activeAgents, waiting, turnMutex, child, reconfigs>>

\* refreshConfigIfNeeded with unchanged options, or without a process.
RefreshConfig(t) ==
    /\ TurnAt(t, "refresh") /\ TurnGoes(t, "config")
    /\ UNCHANGED <<session, parser, holders, activeAgents, waiting, turnMutex, child, reconfigs>>

\* New options end the idle process: stopPersistentProcessForRestart.
RestartForConfig(t) ==
    LET c == Conv(t) IN
    /\ TurnAt(t, "refresh") /\ reconfigs < MaxReconfigs /\ IsLiveProcess(turn[t].child)
    /\ reconfigs' = reconfigs + 1
    /\ \/ /\ turn[t].status # "idle" /\ TurnEnds(t, turn)
          /\ UNCHANGED <<session, parser, child>>
       \/ /\ turn[t].status = "idle"
          /\ child' = Signalled(StopReading(child, parser[c]), session[c].child)
          /\ parser' = [parser EXCEPT ![c] = NoOne]
          /\ session' = TakeChild(c)
          /\ turn' = [Settle(turn, TurnOf(parser[c])) EXCEPT ![t].at = "restarting"]
          /\ UNCHANGED turnMutex
    /\ UNCHANGED <<holders, activeAgents, waiting>>

\* The process has ended, or its grace period is over.
Restarted(t) ==
    LET c == Conv(t) IN
    /\ TurnAt(t, "restarting")
    /\ session' = MarkEnded(session, c, "stopped")
    /\ ReleasePersistentSlot(c, [turn EXCEPT ![t].at = "config", ![t].child = NoOne, ![t].status = "stopped"])
    /\ UNCHANGED <<parser, turnMutex, child, reconfigs>>

\* updateRuntimeConfig clones the session again, unless it was closed.
UpdateRuntimeConfig(t) ==
    LET c == Conv(t)
        tn == IF session[c].here THEN Cloned(t, session[c]) ELSE turn
        needsSpawn == \/ tn[t].child = NoOne \/ ~IsLiveProcess(tn[t].child)
                      \/ tn[t].status \in {"starting", "stopped", "failed"}
    IN /\ TurnAt(t, "config")
       /\ turn' = [tn EXCEPT ![t].at = IF needsSpawn THEN "spawn" ELSE "turn", ![t].resuming = tn[t].provider]
       /\ UNCHANGED <<session, parser, holders, activeAgents, waiting, turnMutex, child, reconfigs>>

(***************************************************************************)
(* spawnPersistentProcessOnce.                                             *)
(***************************************************************************)
\* mutant: the limit is tested one too late
OneMoreSlot == activeAgents <= MaxConcurrentAgents

SlotIsFree == activeAgents < MaxConcurrentAgents

\* acquireSlot; a full queue throws before anything was started.
AcquireSlot(t) ==
    /\ TurnAt(t, "spawn")
    /\ ~(IsLiveProcess(turn[t].child) /\ parser[Conv(t)] # NoOne)
    /\ \/ /\ SlotIsFree
          /\ activeAgents' = activeAgents + 1 /\ TurnGoes(t, "granted") /\ UNCHANGED waiting
       \/ /\ ~SlotIsFree /\ Len(waiting) < MAX_QUEUE_SIZE
          /\ waiting' = Append(waiting, t) /\ TurnGoes(t, "queued") /\ UNCHANGED activeAgents
       \/ /\ ~SlotIsFree /\ Len(waiting) >= MAX_QUEUE_SIZE
          /\ TurnGoes(t, "thrown") /\ UNCHANGED <<activeAgents, waiting>>
    /\ UNCHANGED <<session, parser, holders, turnMutex, child, reconfigs>>

AlreadyRunning(t) ==
    /\ TurnAt(t, "spawn") /\ IsLiveProcess(turn[t].child) /\ parser[Conv(t)] # NoOne
    /\ TurnGoes(t, "turn")
    /\ UNCHANGED <<session, parser, holders, activeAgents, waiting, turnMutex, child, reconfigs>>

HoldSlot(t) ==
    /\ TurnAt(t, "granted")
    /\ holders' = holders \cup {Conv(t)} /\ TurnGoes(t, "files")
    /\ UNCHANGED <<session, parser, activeAgents, waiting, turnMutex, child, reconfigs>>

\* spawn, then attachProcess up to its first await.
Launch(t, p) ==
    LET c == Conv(t) IN
    /\ TurnAt(t, "files") /\ child[p].life = "none"
    /\ child' = [child EXCEPT ![p] = [NoChild EXCEPT !.conv = c, !.life = "live"]]
    /\ session' = [session EXCEPT ![c].child = IF session[c].here THEN p ELSE @,
                                  ![c].status = IF session[c].here THEN "running" ELSE @]
    /\ turn' = [turn EXCEPT ![t].at = "attached", ![t].child = p, ![t].status = "running"]
    /\ UNCHANGED <<parser, holders, activeAgents, waiting, turnMutex, reconfigs>>

\* attachProcess has returned: the parser is registered, the exit is tracked.
StartReading(t) ==
    LET c == Conv(t) p == turn[t].child IN
    /\ TurnAt(t, "attached")
    /\ child' = [child EXCEPT ![p].reading = TRUE, ![p].exit = "tracked"]
    /\ parser' = [parser EXCEPT ![c] = p] /\ TurnGoes(t, "grace")
    /\ UNCHANGED <<session, holders, activeAgents, waiting, turnMutex, reconfigs>>

CheckEarlyProcessExit(t) ==
    /\ TurnAt(t, "grace")
    /\ \/ ~Gone(turn[t].child) /\ TurnGoes(t, "turn")
       \/ Gone(turn[t].child) /\ TurnGoes(t, "failing")
    /\ UNCHANGED <<session, parser, holders, activeAgents, waiting, turnMutex, child, reconfigs>>

\* The files cannot be written, spawn or the status update throws.
LaunchFails(t) ==
    /\ \/ TurnAt(t, "files") /\ TurnGoes(t, "failing")
       \/ TurnAt(t, "attached") /\ TurnGoes(t, "unattached")
    /\ UNCHANGED <<session, parser, holders, activeAgents, waiting, turnMutex, child, reconfigs>>

\* The catch clause: stop the parser, signal the process, free the slot.  A
\* process whose attachProcess threw is not the child of the clone.
SpawnCatch(t) ==
    LET c == Conv(t) p == turn[t].child IN
    /\ turn[t].at \in {"failing", "unattached"}
    /\ child' = Signalled(StopReading(child, parser[c]), p)
    /\ parser' = [parser EXCEPT ![c] = NoOne]
    /\ turn' = [turn EXCEPT ![t].at = "cleanup", ![t].child = IF TurnAt(t, "unattached") THEN NoOne ELSE p]
    /\ UNCHANGED <<session, holders, activeAgents, waiting, turnMutex, reconfigs>>

SpawnCleanup(t) ==
    LET c == Conv(t) IN
    /\ TurnAt(t, "cleanup")
    /\ child' = Signalled(child, session[c].child)
    /\ session' = MarkEnded(session, c, "failed")
    /\ ReleasePersistentSlot(c, [turn EXCEPT ![t].at = "thrown"])
    /\ UNCHANGED <<parser, turnMutex, reconfigs>>

\* The turn that failed before its message was written, without a process: if
\* a provider session was to be resumed, the catch clause tries once more.
Recovers(t) ==
    /\ turn[t].at \in {"unavailable", "unwritten"}
    /\ ~IsLiveProcess(turn[t].child) /\ turn[t].provider

\* spawnPersistentProcess throws on, to sendTurn, to the catch clause of the
\* locked turn, or to the recovery there, unless a provider session was to be
\* resumed; then the session starts afresh.
SpawnThrows(t) ==
    LET c == Conv(t) IN
    /\ TurnAt(t, "thrown") /\ ~turn[t].resuming
    /\ \/ turn[t].locked = "no" /\ TurnEnds(t, turn) /\ UNCHANGED <<session, child>>
       \/ turn[t].locked = "yes" /\ TurnGoes(t, "unavailable") /\ UNCHANGED <<session, child, turnMutex>>
       \/ /\ turn[t].locked = "recovering" /\ TurnEnds(t, turn)
          /\ session' = MarkEnded(session, c, "failed")
          /\ child' = Signalled(child, session[c].child)
    /\ UNCHANGED <<parser, holders, activeAgents, waiting, reconfigs>>

Resumes(t) == (TurnAt(t, "thrown") /\ turn[t].resuming) \/ Recovers(t)
LockedOf(t) == IF Recovers(t) THEN "recovering" ELSE turn[t].locked

RecoverFromResumeFailure(t) ==
    LET c == Conv(t) IN
    /\ Resumes(t) /\ session[c].here
    /\ child' = Signalled(StopReading(child, parser[c]), session[c].child)
    /\ parser' = [parser EXCEPT ![c] = NoOne]
    /\ session' = [session EXCEPT ![c].child = NoOne, ![c].status = "starting", ![c].provider = FALSE]
    /\ ReleasePersistentSlot(c, [Settle(turn, TurnOf(parser[c])) EXCEPT ![t].at = "spawn", ![t].child = NoOne,
                                  ![t].status = "starting", ![t].provider = FALSE, ![t].resuming = FALSE,
                                  ![t].locked = LockedOf(t)])
    /\ UNCHANGED <<turnMutex, reconfigs>>

RecoverFindsNoSession(t) ==
    LET c == Conv(t) IN
    /\ Resumes(t) /\ ~session[c].here
    /\ child' = StopReading(child, parser[c])
    /\ parser' = [parser EXCEPT ![c] = NoOne]
    /\ ReleasePersistentSlot(c, [Settle(turn, TurnOf(parser[c])) EXCEPT ![t].at = "thrown",
                                  ![t].resuming = FALSE, ![t].locked = LockedOf(t)])
    /\ UNCHANGED <<session, turnMutex, reconfigs>>

(***************************************************************************)
(* sendTurnToPersistentProcessLocked.                                      *)
(***************************************************************************)
Available(t) == IsLiveProcess(turn[t].child) /\ parser[Conv(t)] # NoOne

RespawnForTurn(t) ==
    /\ TurnAt(t, "turn") /\ ~Available(t) /\ turn[t].locked # "yes"
    /\ turn' = [turn EXCEPT ![t].at = "spawn", ![t].locked = "yes", ![t].resuming = turn[t].provider]
    /\ UNCHANGED <<session, parser, holders, activeAgents, waiting, turnMutex, child, reconfigs>>

\* mutant: attachProcess does not mark the session running
AttachOnly(c, p) == [session EXCEPT ![c].child = IF session[c].here THEN p ELSE @]

AttachProcess(c, p) ==
    [session EXCEPT ![c].child = IF session[c].here THEN p ELSE @,
                    ![c].status = IF session[c].here THEN "running" ELSE @]

\* createTurn before the write, so that no event is missed; attachProcess.
CreateTurn(t) ==
    LET c == Conv(t) p == parser[c] IN
    /\ TurnAt(t, "turn") /\ Available(t)
    /\ child[p].turn = NoOne /\ child[p].reading
    /\ child' = [child EXCEPT ![p].turn = t]
    /\ session' = AttachProcess(c, turn[t].child)
    /\ turn' = [turn EXCEPT ![t].at = "write", ![t].status = "running", ![t].got = "nothing", ![t].done = FALSE]
    /\ UNCHANGED <<parser, holders, activeAgents, waiting, turnMutex, reconfigs>>

TurnUnavailable(t) ==
    LET p == parser[Conv(t)] IN
    /\ TurnAt(t, "turn")
    /\ \/ ~Available(t) /\ turn[t].locked = "yes"
       \/ Available(t) /\ (child[p].turn # NoOne \/ ~child[p].reading)
    /\ TurnGoes(t, "unavailable")
    /\ UNCHANGED <<session, parser, holders, activeAgents, waiting, turnMutex, child, reconfigs>>

\* writePersistentTurn throws ("catch"), as it does on the pipe of a process
\* that is gone, or the status update before it ("unwritten").
WriteTurn(t) ==
    /\ TurnAt(t, "write")
    /\ \/ ~Gone(turn[t].child) /\ TurnGoes(t, "events")
       \/ TurnGoes(t, "unwritten") \/ TurnGoes(t, "catch")
    /\ UNCHANGED <<session, parser, holders, activeAgents, waiting, turnMutex, child, reconfigs>>

\* mutant: the active turn is left with the parser
NoCancel(ch, p) == ch

CancelActiveTurn(ch, p) == IF p = NoOne THEN ch ELSE [ch EXCEPT ![p].turn = NoOne]

\* The catch clause of a failed turn, where it does not recover: a turn that
\* was created is cancelled, the error is yielded to the caller.
TurnCatch(t) ==
    LET c == Conv(t)
        ch == IF TurnAt(t, "unavailable") THEN child ELSE CancelActiveTurn(child, parser[c])
    IN
    /\ turn[t].at \in {"unavailable", "unwritten", "catch"} /\ ~Recovers(t)
    /\ IF IsLiveProcess(turn[t].child)
       THEN session' = MarkIdle(c) /\ child' = ch
       ELSE /\ session' = MarkEnded(session, c, "failed")
            /\ child' = Signalled(ch, session[c].child)
    /\ TurnEnds(t, turn)
    /\ UNCHANGED <<parser, holders, activeAgents, waiting, reconfigs>>

\* finishPersistentTurn: the process stays, idle, for the next turn.
FinishTurn(t) ==
    IF IsLiveProcess(turn[t].child)
    THEN session' = MarkIdle(Conv(t)) /\ UNCHANGED child
    ELSE /\ session' = MarkEnded(session, Conv(t), "failed")
         /\ child' = Signalled(child, session[Conv(t)].child)

TurnCompletes(t) ==
    /\ TurnAt(t, "events") /\ turn[t].got = "terminal"
    /\ FinishTurn(t) /\ TurnEnds(t, turn)
    /\ UNCHANGED <<parser, holders, activeAgents, waiting, reconfigs>>

\* The queue was completed without a terminal event.
StreamEnds(t) ==
    /\ TurnAt(t, "events") /\ turn[t].got # "terminal" /\ turn[t].done
    /\ TurnEnds(t, turn)
    /\ UNCHANGED <<session, parser, holders, activeAgents, waiting, child, reconfigs>>

(***************************************************************************)
(* cancelPersistentTurn: the caller is gone.  The generator learns of it   *)
(* only at a yield, that is after an event.                                *)
(***************************************************************************)
CallerLeaves(t) ==
    /\ TurnAt(t, "events") /\ turn[t].got = "event"
    /\ IF IsLiveProcess(turn[t].child)
       THEN TurnGoes(t, "cancel") /\ UNCHANGED <<child, turnMutex>>
       ELSE child' = CancelActiveTurn(child, parser[Conv(t)]) /\ TurnEnds(t, turn)
    /\ UNCHANGED <<session, parser, holders, activeAgents, waiting, reconfigs>>

CancelSettles(t) ==
    /\ TurnAt(t, "cancel") /\ turn[t].done
    /\ IF IsLiveProcess(turn[t].child) THEN FinishTurn(t) ELSE UNCHANGED <<session, child>>
    /\ TurnEnds(t, turn)
    /\ UNCHANGED <<parser, holders, activeAgents, waiting, reconfigs>>

CancelExits(t) ==
    /\ turn[t].at \in {"cancel", "killing"} /\ Gone(turn[t].child)
    /\ TurnEnds(t, turn)
    /\ UNCHANGED <<session, parser, holders, activeAgents, waiting, child, reconfigs>>

CancelTimesOut(t) ==
    /\ TurnAt(t, "cancel") /\ ~turn[t].done /\ ~Gone(turn[t].child)
    /\ child' = Signalled(child, turn[t].child) /\ TurnGoes(t, "killing")
    /\ UNCHANGED <<session, parser, holders, activeAgents, waiting, turnMutex, reconfigs>>

\* SIGKILL did not end it in time: everything is cleaned up without it.
KillTimesOut(t) ==
    LET c == Conv(t) p == parser[c] IN
    /\ TurnAt(t, "killing") /\ ~Gone(turn[t].child)
    /\ child' = Signalled(StopReading(child, p), session[c].child)
    /\ parser' = [parser EXCEPT ![c] = NoOne]
    /\ session' = MarkEnded(session, c, "failed")
    /\ turnMutex' = [turnMutex EXCEPT ![c] = IF @ = t THEN NoOne ELSE @]
    /\ ReleasePersistentSlot(c, [turn EXCEPT ![t] = NewTurn])
    /\ UNCHANGED reconfigs

(***************************************************************************)
(* The child process: events, results, exits.                              *)
(***************************************************************************)
Served(t) == turn[t].at \in {"events", "cancel", "killing"}

Emits(p) ==
    LET t == child[p].turn IN
    /\ child[p].life = "live" /\ child[p].reading /\ t # NoOne /\ Served(t)
    /\ turn[t].got = "nothing" /\ turn' = [turn EXCEPT ![t].got = "event"]
    /\ session' = [session EXCEPT ![child[p].conv].provider = session[child[p].conv].here]
    /\ UNCHANGED <<parser, holders, activeAgents, waiting, turnMutex, child, reconfigs>>

\* handleLine of a result: success and error* give a terminal event, another
\* subtype none; the turn is completed in any case.
Result(p) ==
    LET t == child[p].turn IN
    /\ child[p].life = "live" /\ child[p].reading /\ t # NoOne /\ Served(t)
    /\ child' = [child EXCEPT ![p].turn = NoOne]
    /\ \E got \in {"terminal", turn[t].got} : turn' = [turn EXCEPT ![t].got = got, ![t].done = TRUE]
    /\ UNCHANGED <<session, parser, holders, activeAgents, waiting, turnMutex, reconfigs>>

\* It exits by itself or on SIGTERM with a code, or a signal ends it.
Exits(p) ==
    /\ child[p].life = "live"
    /\ \E life \in {"exited", "killed"} :
          child' = [child EXCEPT ![p].life = life, ![p].reading = FALSE, ![p].turn = NoOne]
    /\ turn' = Settle(turn, child[p].turn)
    /\ UNCHANGED <<session, parser, holders, activeAgents, waiting, turnMutex, reconfigs>>

\* trackPersistentExit: only the process that is being read is cleaned up.
\* The child that is stopped is the one the session has now.
TrackExit(p) ==
    LET c == child[p].conv IN
    /\ Gone(p) /\ child[p].exit = "tracked"
    /\ IF parser[c] = p
       THEN /\ parser' = [parser EXCEPT ![c] = NoOne]
            /\ child' = [Signalled(child, session[c].child) EXCEPT ![p].exit = "stopping"]
            /\ session' = TakeChild(c)
       ELSE child' = [child EXCEPT ![p].exit = "done"] /\ UNCHANGED <<parser, session>>
    /\ UNCHANGED <<holders, activeAgents, waiting, turnMutex, turn, reconfigs>>

TrackReleases(p) ==
    LET c == child[p].conv IN
    /\ child[p].exit = "stopping"
    /\ child' = [child EXCEPT ![p].exit = "done"]
    /\ \E s \in {"stopped", "failed"} :
          session' = [session EXCEPT ![c].status = IF session[c].here THEN s ELSE @]
    /\ ReleasePersistentSlot(c, turn)
    /\ UNCHANGED <<parser, turnMutex, reconfigs>>

\* A process that is gone and forgotten by everyone may be replaced.
Forgotten(p) == /\ Gone(p) /\ child[p].exit \in {"untracked", "done"}
                /\ \A c \in Conversations : session[c].child # p /\ parser[c] # p
                /\ \A t \in Turns : turn[t].child # p

Reap(p) ==
    /\ Forgotten(p) /\ child' = [child EXCEPT ![p] = NoChild]
    /\ UNCHANGED <<session, parser, holders, activeAgents, waiting, turnMutex, turn, reconfigs>>

(***************************************************************************)
(* The session manager's own timers, and close.                            *)
(***************************************************************************)
Evictable(c) == session[c].status = "idle"

\* sweepIdleSessions and lruEvict: the first half of stopRuntimeSession.
StopIdle(c) ==
    /\ session[c].here /\ session[c].ending = "no" /\ Evictable(c)
    /\ child' = Signalled(child, session[c].child)
    /\ session' = [TakeChild(c) EXCEPT ![c].ending = "idle"]
    /\ UNCHANGED <<parser, holders, activeAgents, waiting, turnMutex, turn, reconfigs>>

StopIdleEnds(c) ==
    /\ session[c].ending = "idle"
    /\ session' = [session EXCEPT ![c].status = IF session[c].here THEN "stopped" ELSE @, ![c].ending = "no"]
    /\ UNCHANGED <<parser, holders, activeAgents, waiting, turnMutex, child, turn, reconfigs>>

\* close: the conversation was deleted, no further turn is sent.
Close(c) ==
    /\ session[c].here /\ session[c].ending = "no"
    /\ child' = Signalled(child, session[c].child)
    /\ session' = [TakeChild(c) EXCEPT ![c].status = "stopping", ![c].ending = "closed"]
    /\ UNCHANGED <<parser, holders, activeAgents, waiting, turnMutex, turn, reconfigs>>

CloseDeletes(c) ==
    /\ session[c].ending = "closed" /\ session[c].here
    /\ session' = [session EXCEPT ![c] = [NoAgentSession EXCEPT !.ending = "closed"]]
    /\ UNCHANGED <<parser, holders, activeAgents, waiting, turnMutex, child, turn, reconfigs>>

TurnStep(t) ==
    \/ \E c \in Conversations : SendTurn(t, c)
    \/ TurnRefused(t) \/ GetOrCreateSession(t) \/ RefreshConfig(t) \/ RestartForConfig(t) \/ Restarted(t)
    \/ UpdateRuntimeConfig(t) \/ AcquireSlot(t) \/ AlreadyRunning(t) \/ HoldSlot(t)
    \/ \E p \in Processes : Launch(t, p)
    \/ StartReading(t) \/ CheckEarlyProcessExit(t) \/ LaunchFails(t) \/ SpawnCatch(t) \/ SpawnCleanup(t)
    \/ SpawnThrows(t) \/ RecoverFromResumeFailure(t) \/ RecoverFindsNoSession(t)
    \/ RespawnForTurn(t) \/ CreateTurn(t) \/ TurnUnavailable(t) \/ WriteTurn(t) \/ TurnCatch(t)
    \/ TurnCompletes(t) \/ StreamEnds(t)
    \/ CallerLeaves(t) \/ CancelSettles(t) \/ CancelExits(t) \/ CancelTimesOut(t) \/ KillTimesOut(t)

ChildStep(p) == Emits(p) \/ Result(p) \/ Exits(p) \/ TrackExit(p) \/ TrackReleases(p) \/ Reap(p)

ManagerStep(c) == StopIdle(c) \/ StopIdleEnds(c) \/ Close(c) \/ CloseDeletes(c)

AgentNext ==
    \/ \E t \in Turns : TurnStep(t)
    \/ \E p \in Processes : ChildStep(p)
    \/ \E c \in Conversations : ManagerStep(c)

AgentSpec == AgentInit /\ [][AgentNext]_agentVars

(***************************************************************************)
(* Properties.                                                             *)
(***************************************************************************)
AgentTypeOK ==
    /\ session \in [Conversations -> [here : BOOLEAN, status : Status, child : Processes \cup {NoOne},
                                      provider : BOOLEAN, ending : {"no", "idle", "closed"}]]
    /\ parser \in [Conversations -> Processes \cup {NoOne}]
    /\ holders \subseteq Conversations /\ activeAgents \in 0..MaxConcurrentAgents
    /\ turnMutex \in [Conversations -> Turns \cup {NoOne}]
    /\ \A c \in Conversations : parser[c] # NoOne => child[parser[c]].conv = c

\* A turn waits only while all slots are taken, and a turn that waits is in the
\* queue, once: the release of a slot wakes it when those before it are served.
\* The queue keeps its limit.
WaitingTurnsAreQueued ==
    /\ \A t \in Turns : TurnAt(t, "queued") => \E i \in 1..Len(waiting) : waiting[i] = t
    /\ \A i, j \in 1..Len(waiting) : TurnAt(waiting[i], "queued") /\ (i # j => waiting[i] # waiting[j])
    /\ waiting # <<>> => activeAgents = MaxConcurrentAgents
    /\ Len(waiting) <= MAX_QUEUE_SIZE

\* A parser's active turn is a turn that is still being served: none is left
\* behind for the next turn of the conversation to trip over (createTurn
\* throws on it), or to have its events delivered to.
NoTurnLeftBehind ==
    \A p \in Processes : child[p].turn # NoOne =>
        LET t == child[p].turn IN
        turn[t].at \in {"write", "events", "cancel", "killing", "catch", "unwritten"} /\ turnMutex[Conv(t)] = t

\* "LRU kill idle process; running turn 不淘汰": while a turn is served its
\* session is not one the idle sweep or the LRU eviction may stop.
ServedTurnIsNotEvicted ==
    \A c \in Conversations :
        (session[c].here /\ session[c].child # NoOne /\ session[c].ending = "no"
            /\ child[session[c].child].turn # NoOne) => ~Evictable(c)

\* The slots taken stay within the limit, a turn that waits has somebody to wake
\* it, and no process is stopped under the turn it serves.
AgentTurnsAreServed ==
    AgentTypeOK /\ WaitingTurnsAreQueued /\ NoTurnLeftBehind /\ ServedTurnIsNotEvicted

=============================================================================
