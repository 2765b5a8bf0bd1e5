---------------------------- MODULE SessionServer ----------------------------
(***************************************************************************)
(* The single-session server of apps/server/app.ts with the connection of  *)
(* gateway.ts and the maintenance gate of packages/deployment: one run at a *)
(* time is created, negotiated, attached, served and closed, by handlers    *)
(* that suspend at each await while stops, timers, socket callbacks and     *)
(* operators' drains go on.                                                *)
(*                                                                         *)
(* An action is the code between two awaits.  A run keeps its record after  *)
(* it closed, because handlers of an old run may still resume.  What the    *)
(* service says is kept as its effect on the run: "work" leaves it busy     *)
(* (pending backend work or operations), "rest" leaves nothing pending,     *)
(* "fatal" is an error, a failed response or a limit reached.  The protocol *)
(* behind that effect is DelegatedWork.                                     *)
(***************************************************************************)
EXTENDS LiveConnection, Integers, Sequences, FiniteSets

CONSTANTS
    MaxRuns,           \* bound: runs that may ever begin
    MaxWatchers,       \* bound: browser event sockets open at once
    BufferLimit,       \* pendingEvents held before the run is connected (50)
    NegotiationLimit,  \* negotiationTimeoutMs, in clock units
    IdleLimit,         \* idleLimitMs
    SessionLimit       \* sessionLimitMs

ASSUME RunsAssumption == MaxRuns \in Nat
ASSUME WatchersAssumption == MaxWatchers \in Nat
ASSUME LimitsAssumption ==
    /\ BufferLimit \in Nat \ {0}
    /\ NegotiationLimit \in Nat /\ IdleLimit \in Nat /\ SessionLimit \in Nat

VARIABLES
    runs,      \* the Run record of every run, also of those that have closed
    run,       \* the current run
    closedRun, \* the last run, once it has closed
    status,    \* status.transport, as browsers see it
    draining,  \* of the maintenance gate
    idleSeen,  \* the operator's last answer: draining and not active
    watchers,  \* browser event sockets
    shutdown   \* the server is closing (serverClosing)

vars == <<runs, run, closedRun, status, draining, idleSeen, watchers, shutdown>>

Runs == 1..MaxRuns
NoRun == 0
EventClasses == {"work", "rest", "fatal"}
Phases == {"none", "connecting", "negotiating", "attaching", "connected", "closing"}

Run ==
    [kind: {"none", "live", "simulation"},
     phase: Phases,
     linked: BOOLEAN,     \* current.connection is set
     aborted: BOOLEAN,    \* current.controller is aborted
     lost: BOOLEAN,       \* of the closeRun that closed it
     closer: {"none", "scheduled", "waiting", "done"},           \* closePromise
     opening: {"none", "token", "fetch", "resolved", "settling", "returned"},
     readying: {"none", "attaching", "late", "settling", "returned"},
     conn: Connection,
     buffer: Seq(EventClasses),                                  \* pendingEvents
     busy: BOOLEAN,       \* backend work pending, or an operation queued or running
     age: 0..SessionLimit, idle: 0..IdleLimit,   \* clock units, saturating
     final: {"none", "confirmed", "unconfirmed"}]                \* final usage

Unbegun ==
    [kind |-> "none", phase |-> "none", linked |-> FALSE, aborted |-> FALSE,
     lost |-> FALSE, closer |-> "none", opening |-> "none", readying |-> "none",
     conn |-> Created, buffer |-> <<>>, busy |-> FALSE, age |-> 0, idle |-> 0,
     final |-> "none"]

TypeOK ==
    /\ runs \in [Runs -> Run]
    /\ \A r \in Runs : Len(runs[r].buffer) <= BufferLimit
    /\ run \in Runs \cup {NoRun}
    /\ closedRun \in Runs \cup {NoRun}
    /\ status \in {"disconnected", "connecting", "connected", "closing", "error"}
    /\ draining \in BOOLEAN
    /\ idleSeen \in BOOLEAN
    /\ watchers \in 0..MaxWatchers
    /\ shutdown \in BOOLEAN

Init ==
    /\ runs = [r \in Runs |-> Unbegun]
    /\ run = NoRun
    /\ closedRun = NoRun
    /\ status = "disconnected"
    /\ draining = FALSE
    /\ idleSeen = FALSE
    /\ watchers = 0
    /\ shutdown = FALSE

Begun == {r \in Runs : runs[r].kind # "none"}
-----------------------------------------------------------------------------
(* closeRun: the first caller wins; everyone else gets the same promise *)

\* The engine stops here: nothing of this run is pending any more.  What no step
\* reads again, its clocks and its buffered events, is reset.
Closing(rec, lost) ==
    [rec EXCEPT !.phase = "closing", !.lost = lost, !.closer = "scheduled",
                !.busy = FALSE, !.age = 0, !.idle = 0, !.buffer = <<>>]

\* closeRun(current) by a step that also leaves the run's record as `rec`.
CloseRun(r, rec, lost) ==
    IF run = r /\ rec.closer = "none"
    THEN runs' = [runs EXCEPT ![r] = Closing(rec, lost)] /\ status' = "closing"
    ELSE runs' = [runs EXCEPT ![r] = rec] /\ UNCHANGED status

Update(r, rec) == runs' = [runs EXCEPT ![r] = rec] /\ UNCHANGED status

\* Mutated form: a creation in flight is not told.
AbortsNothing(c) == FALSE

\* controller.abort() while there is no connection to close yet.
AbortsCreation(c) == c.kind = "live" /\ ~c.linked

\* The closer's first half: how it ends the connection.
CloserRuns(r) ==
    LET c == runs[r] IN
    /\ c.closer = "scheduled"
    /\ Update(r, [c EXCEPT
         !.closer = "waiting",
         !.aborted = @ \/ AbortsCreation(c),
         !.conn = IF ~c.linked THEN @
                  ELSE IF c.lost THEN DeferredTerminated(@) ELSE CloseBegun(@)])
    /\ UNCHANGED <<run, closedRun, draining, idleSeen, watchers, shutdown>>

CloseResult(c) == IF c.lost \/ ~c.linked THEN "unconfirmed" ELSE CloseOutcome(c.conn)

\* Mutated form: a session.closed without usage confirms as well.
FinalUsageOfAnyReport(c) == IF CloseResult(c) \in Reports THEN "confirmed" ELSE "unconfirmed"

\* result.confirmed && result.usage !== null
FinalUsage(c) == IF CloseResult(c) = "usage" THEN "confirmed" ELSE "unconfirmed"

\* The closer's second half: only now is the reservation released.
CloserFinishes(r) ==
    LET c == runs[r] IN
    /\ c.closer = "waiting"
    /\ CloseResult(c) # "pending"
    /\ runs' = [runs EXCEPT ![r] =
                  [c EXCEPT !.closer = "done",
                            !.final = IF c.kind = "live" THEN FinalUsage(c) ELSE @]]
    /\ IF run = r
       THEN /\ status' = IF c.kind = "live" /\ c.lost THEN "error" ELSE "disconnected"
            /\ closedRun' = r
            /\ run' = NoRun
       ELSE UNCHANGED <<status, closedRun, run>>
    /\ UNCHANGED <<draining, idleSeen, watchers, shutdown>>
-----------------------------------------------------------------------------
(* begin, and the creation handler POST /api/session *)

\* The gate, the single reservation and the new run, in one synchronous step.
Begin(kind, phase) ==
    /\ ~shutdown
    /\ ~draining
    /\ run = NoRun
    /\ Cardinality(Begun) < MaxRuns
    /\ LET r == Cardinality(Begun) + 1 IN
         /\ runs' = [runs EXCEPT ![r] =
                       [Unbegun EXCEPT !.kind = kind, !.phase = phase,
                          !.opening = IF kind = "live" THEN "token" ELSE "none"]]
         /\ run' = r
    /\ closedRun' = NoRun
    /\ status' = phase
    /\ UNCHANGED <<draining, idleSeen, watchers, shutdown>>

StartSimulation == Begin("simulation", "connected")
StartLive == Begin("live", "connecting")

\* Where a handler that failed goes: it awaits the run's closing, if it is current.
Awaiting(r) == IF run = r THEN "settling" ELSE "returned"

OpenFails(r) ==
    /\ runs[r].opening \in {"token", "fetch"}
    /\ CloseRun(r, [runs[r] EXCEPT !.opening = Awaiting(r)], TRUE)
    /\ UNCHANGED <<run, closedRun, draining, idleSeen, watchers, shutdown>>

\* The credential is there; an abort meanwhile ends the creation (OpenFails).
TokenArrives(r) ==
    /\ runs[r].opening = "token"
    /\ ~runs[r].aborted
    /\ Update(r, [runs[r] EXCEPT !.opening = "fetch"])
    /\ UNCHANGED <<run, closedRun, draining, idleSeen, watchers, shutdown>>

\* The service created the session; the abort signal fails the request otherwise.
SessionCreated(r) ==
    /\ runs[r].opening = "fetch"
    /\ ~runs[r].aborted
    /\ Update(r, [runs[r] EXCEPT !.opening = "resolved"])
    /\ UNCHANGED <<run, closedRun, draining, idleSeen, watchers, shutdown>>

\* Mutated form: only the identity of the run is checked after the await.
OpenStillWantedIfCurrent(r) == run = r

OpenStillWanted(r) == run = r /\ runs[r].phase = "connecting" /\ ~runs[r].aborted

\* The creation handler resumes with a connection, perhaps one nobody wants now; one
\* created at an impossible time is linked and given up.
OpenResumes(r) ==
    LET c == runs[r] IN
    /\ c.opening = "resolved"
    /\ IF OpenStillWanted(r)
       THEN \/ Update(r, [c EXCEPT !.linked = TRUE, !.phase = "negotiating",
                                   !.opening = "returned"])
            \/ CloseRun(r, [c EXCEPT !.linked = TRUE, !.opening = "settling"], TRUE)
       ELSE CloseRun(r, [c EXCEPT !.conn = CloseBegun(@), !.opening = Awaiting(r)], TRUE)
    /\ UNCHANGED <<run, closedRun, draining, idleSeen, watchers, shutdown>>
-----------------------------------------------------------------------------
(* The readiness handler POST /api/session/ready *)

Ready(r) ==
    LET c == runs[r] IN
    /\ ~shutdown
    /\ run = r /\ c.kind = "live" /\ c.phase = "negotiating" /\ c.linked
    /\ Update(r, [c EXCEPT !.phase = "attaching", !.readying = "attaching",
                           !.conn = AttachBegun(@)])
    /\ UNCHANGED <<run, closedRun, draining, idleSeen, watchers, shutdown>>

HandshakeEnds(r) ==
    LET c == runs[r] IN
    /\ c.conn.socket = "handshaking"
    /\ \E conn \in {HandshakeOpened(c.conn), HandshakeFailed(c.conn)} :
         Update(r, [c EXCEPT !.conn = conn])
    /\ UNCHANGED <<run, closedRun, draining, idleSeen, watchers, shutdown>>

AttachContinues(r) ==
    LET c == runs[r] IN
    /\ c.conn.attach = "pending" /\ c.conn.socket \in {"open", "closed"}
    /\ Update(r, [c EXCEPT !.conn = AttachSettled(@)])
    /\ UNCHANGED <<run, closedRun, draining, idleSeen, watchers, shutdown>>

\* Mutated form: what happened while attach() was awaited is not looked at.
AttachWantedIfCurrent(r) == run = r

AttachStillWanted(r) == run = r /\ runs[r].phase = "attaching" /\ ~runs[r].aborted

\* The run is connected once its buffered events have been handled in order.
ConnectedRun(c) ==
    [c EXCEPT !.phase = "connected", !.idle = 0, !.readying = "returned", !.buffer = <<>>,
              !.busy = Len(c.buffer) > 0 /\ c.buffer[Len(c.buffer)] = "work"]

BufferedFatal(c) == \E i \in DOMAIN c.buffer : c.buffer[i] = "fatal"

\* The readiness handler resumes after attach().  Sending the first message throws
\* when the socket was lost meanwhile.
ReadyResumes(r) ==
    LET c == runs[r] IN
    /\ c.readying = "attaching" /\ c.conn.attach = "done"
    /\ IF ~AttachStillWanted(r)
       THEN Update(r, [c EXCEPT !.conn = CloseBegun(@), !.readying = "late"])
       ELSE IF c.conn.socket # "open" \/ c.conn.closing
       THEN CloseRun(r, [c EXCEPT !.readying = "settling"], TRUE)
       ELSE IF BufferedFatal(c)
       THEN CloseRun(r, [ConnectedRun(c) EXCEPT !.readying = "settling"], FALSE)
       ELSE /\ runs' = [runs EXCEPT ![r] = ConnectedRun(c)]
            /\ status' = "connected"
    /\ UNCHANGED <<run, closedRun, draining, idleSeen, watchers, shutdown>>

AttachRejected(r) ==
    LET c == runs[r] IN
    /\ c.readying = "attaching" /\ c.conn.attach = "failed"
    /\ CloseRun(r, [c EXCEPT !.readying = Awaiting(r)], TRUE)
    /\ UNCHANGED <<run, closedRun, draining, idleSeen, watchers, shutdown>>

\* `await connection.close(...)` of a late readiness handler returns, and it throws.
LateCloseReturns(r) ==
    LET c == runs[r] IN
    /\ c.readying = "late" /\ CloseOutcome(c.conn) # "pending"
    /\ CloseRun(r, [c EXCEPT !.readying = Awaiting(r)], TRUE)
    /\ UNCHANGED <<run, closedRun, draining, idleSeen, watchers, shutdown>>

\* A handler that awaited the run's closing answers its request.
HandlerReturns(r) ==
    LET c == runs[r] IN
    /\ c.closer = "done"
    /\ \/ c.opening = "settling" /\ Update(r, [c EXCEPT !.opening = "returned"])
       \/ c.readying = "settling" /\ Update(r, [c EXCEPT !.readying = "returned"])
    /\ UNCHANGED <<run, closedRun, draining, idleSeen, watchers, shutdown>>
-----------------------------------------------------------------------------
(* The service and its socket *)

\* session.closed: the connection takes it first, then the application.
ServiceCloses(r) ==
    LET c == runs[r] IN
    /\ c.conn.socket = "open"
    /\ \E report \in {"usage", "nousage"} :
         CloseRun(r, [c EXCEPT !.conn = ClosedReceived(@, report)], FALSE)
    /\ UNCHANGED <<run, closedRun, draining, idleSeen, watchers, shutdown>>

\* Mutated form: one event too many.
BufferOverfull(c) == Len(c.buffer) > BufferLimit

BufferFull(c) == Len(c.buffer) >= BufferLimit

\* Any other event while the run attaches: kept for later, up to the limit.
BufferEvent(r, class) ==
    LET c == runs[r] IN
    /\ c.conn.socket = "open" /\ run = r /\ c.phase = "attaching"
    /\ IF BufferFull(c) THEN CloseRun(r, c, TRUE)
       ELSE Update(r, [c EXCEPT !.buffer = Append(@, class)])
    /\ UNCHANGED <<run, closedRun, draining, idleSeen, watchers, shutdown>>

\* A fatal event is the service's, or one whose answer can no longer be sent.
HandleEvent(r, class) ==
    LET c == runs[r] IN
    /\ c.conn.socket = "open" /\ run = r /\ c.phase = "connected"
    /\ IF class = "fatal" THEN \E lost \in BOOLEAN : CloseRun(r, c, lost)
       ELSE Update(r, [c EXCEPT !.idle = 0, !.busy = (class = "work")])
    /\ UNCHANGED <<run, closedRun, draining, idleSeen, watchers, shutdown>>

SocketLost(r) ==
    LET c == runs[r] IN
    /\ c.conn.socket = "open"
    /\ IF ReportsLoss(c.conn) THEN CloseRun(r, [c EXCEPT !.conn = Lost(@)], TRUE)
       ELSE Update(r, [c EXCEPT !.conn = Lost(@)])
    /\ UNCHANGED <<run, closedRun, draining, idleSeen, watchers, shutdown>>

\* closeTimeoutMs passed without session.closed.
CloseTimesOut(r) ==
    LET c == runs[r] IN
    /\ c.conn.closeCall = "pending"
    /\ Update(r, [c EXCEPT !.conn = Terminated(@)])
    /\ UNCHANGED <<run, closedRun, draining, idleSeen, watchers, shutdown>>
-----------------------------------------------------------------------------
(* The timer, the browser and the operator *)

\* POST /api/command in a simulation, POST /api/activity in a live session.
Activity(r) ==
    LET c == runs[r] IN
    /\ ~shutdown
    /\ run = r /\ c.phase = "connected"
    /\ Update(r, [c EXCEPT !.idle = 0, !.busy = @ \/ c.kind = "simulation"])
    /\ UNCHANGED <<run, closedRun, draining, idleSeen, watchers, shutdown>>

\* Mutated form: the session limit is the idle clock's business too.
TimeIsUpWhenIdle(c) == c.idle >= IdleLimit

\* Session limit, negotiation limit, idle limit; pending work was touched before.
TimeIsUp(c) ==
    \/ c.age >= SessionLimit
    \/ c.kind = "live" /\ c.phase # "connected" /\ c.age >= NegotiationLimit
    \/ c.idle >= IdleLimit

\* One firing of the interval timer; the engine tick may complete the last work.
TimerTick(r) ==
    /\ ~shutdown
    /\ run = r /\ runs[r].phase # "closing"
    /\ LET c == IF runs[r].phase = "connected" /\ runs[r].busy
                THEN [runs[r] EXCEPT !.idle = 0] ELSE runs[r]
       IN IF TimeIsUp(c) THEN CloseRun(r, c, FALSE)
          ELSE \E busy \in {c.busy, FALSE} : Update(r, [c EXCEPT !.busy = busy])
    /\ UNCHANGED <<run, closedRun, draining, idleSeen, watchers, shutdown>>

\* Time that no timer reads any more (a closing run's) is left out.
AdvanceClock(r) ==
    LET c == runs[r] IN
    /\ run = r /\ c.phase # "closing"
    /\ c.age < SessionLimit \/ c.idle < IdleLimit
    /\ Update(r, [c EXCEPT !.age = IF @ < SessionLimit THEN @ + 1 ELSE @,
                           !.idle = IF @ < IdleLimit THEN @ + 1 ELSE @])
    /\ UNCHANGED <<run, closedRun, draining, idleSeen, watchers, shutdown>>

\* POST /api/stop and /api/session/close: live, simulated or still being created.
StopRequested(r) ==
    /\ ~shutdown
    /\ run = r
    /\ CloseRun(r, runs[r], FALSE)
    /\ UNCHANGED <<run, closedRun, draining, idleSeen, watchers, shutdown>>

WatcherConnects ==
    /\ ~shutdown
    /\ watchers < MaxWatchers
    /\ watchers' = watchers + 1
    /\ UNCHANGED <<runs, run, closedRun, status, draining, idleSeen, shutdown>>

\* The last event socket of the owner closes its run, except during a shutdown.
WatcherLeaves ==
    /\ watchers > 0
    /\ watchers' = watchers - 1
    /\ IF watchers = 1 /\ run # NoRun /\ ~shutdown THEN CloseRun(run, runs[run], FALSE)
       ELSE UNCHANGED <<runs, status>>
    /\ UNCHANGED <<run, closedRun, draining, idleSeen, shutdown>>

\* POST /drain closes admission and answers; GET /status answers.
Drain ==
    /\ draining' = TRUE
    /\ idleSeen' = (run = NoRun)
    /\ UNCHANGED <<runs, run, closedRun, status, watchers, shutdown>>

StatusRequest ==
    /\ idleSeen' = (draining /\ run = NoRun)
    /\ UNCHANGED <<runs, run, closedRun, status, draining, watchers, shutdown>>

Resume ==
    /\ draining' = FALSE
    /\ idleSeen' = FALSE
    /\ UNCHANGED <<runs, run, closedRun, status, watchers, shutdown>>

\* onClose: no timer and no request any more.
Shutdown ==
    /\ ~shutdown
    /\ shutdown' = TRUE
    /\ draining' = TRUE
    /\ IF run # NoRun THEN CloseRun(run, runs[run], FALSE) ELSE UNCHANGED <<runs, status>>
    /\ UNCHANGED <<run, closedRun, idleSeen, watchers>>
-----------------------------------------------------------------------------
OpeningStep(r) == OpenFails(r) \/ TokenArrives(r) \/ SessionCreated(r) \/ OpenResumes(r)

ReadyStep(r) ==
    \/ HandshakeEnds(r) \/ AttachContinues(r)
    \/ ReadyResumes(r) \/ AttachRejected(r) \/ LateCloseReturns(r)

CloserStep(r) == CloserRuns(r) \/ CloserFinishes(r)

RunStep(r) ==
    \/ OpeningStep(r)
    \/ Ready(r)
    \/ ReadyStep(r)
    \/ HandlerReturns(r)
    \/ CloserStep(r)
    \/ CloseTimesOut(r)
    \/ ServiceCloses(r)
    \/ \E class \in EventClasses : BufferEvent(r, class) \/ HandleEvent(r, class)
    \/ SocketLost(r)
    \/ Activity(r)
    \/ TimerTick(r)
    \/ AdvanceClock(r)
    \/ StopRequested(r)

Next ==
    \/ StartSimulation
    \/ StartLive
    \/ \E r \in Runs : RunStep(r)
    \/ WatcherConnects
    \/ WatcherLeaves
    \/ Drain
    \/ StatusRequest
    \/ Resume
    \/ Shutdown

Spec == Init /\ [][Next]_vars

\* What the event loop owes a run whatever the network does: resumed handlers, the
\* interval timer, the clock, the 20 s request limit, the 15 s handshake limit and
\* the close timeout.  The credential provider has no time limit: WF on OpenFails
\* would claim one, so only the steps after it are fair.
Fairness ==
    \A r \in Runs :
        /\ WF_vars(CloserRuns(r)) /\ WF_vars(CloserFinishes(r)) /\ WF_vars(CloseTimesOut(r))
        /\ WF_vars(runs[r].opening = "fetch" /\ (OpenFails(r) \/ SessionCreated(r)))
        /\ WF_vars(OpenResumes(r))
        /\ WF_vars(ReadyStep(r))
        /\ WF_vars(HandlerReturns(r))
        /\ WF_vars(TimerTick(r)) /\ WF_vars(AdvanceClock(r))

FairSpec == Spec /\ Fairness
-----------------------------------------------------------------------------
(* Properties *)

Starting == {"connecting", "negotiating", "attaching"}
StageOf(phase) == IF phase \in Starting THEN "connecting" ELSE phase

\* Browsers are told the truth whichever handler wrote the status last, and a live
\* run shown as connected has its sideband: the socket is open and handed over, and
\* every event that came early has been handled.
StatusTellsTheRun ==
    /\ IF run = NoRun THEN status \in {"disconnected", "error"}
                      ELSE status = StageOf(runs[run].phase)
    /\ \A r \in Runs :
         runs[r].phase = "connected" /\ runs[r].kind = "live"
           => /\ run = r
              /\ runs[r].conn.transport /\ runs[r].conn.socket = "open"
              /\ runs[r].buffer = <<>>

\* No socket to the service outlives its run: one that a late handshake opened for a
\* run already released is aborted, and its own continuation will end it.
NoOrphanSocket ==
    \A r \in Runs :
        runs[r].conn.socket \in {"handshaking", "open"}
          => run = r \/ (runs[r].conn.attach = "pending" /\ runs[r].conn.aborted)

\* Final usage is confirmed exactly when the service reported it on an attached
\* sideband that the run had not given up as lost, however the close raced it.
FinalUsageIsTheReport ==
    \A r \in Runs :
        LET c == runs[r] IN
        /\ c.final = "confirmed" => c.conn.report = "usage" /\ ~c.lost
        /\ c.final = "unconfirmed" /\ c.conn.transport /\ ~c.lost
             => c.conn.report # "usage"

\* An operator who was answered "draining and not active" can rely on it until the
\* next resume: nothing runs, and no creation in flight can reach the service.
DrainHolds ==
    idleSeen => /\ run = NoRun
                /\ \A r \in Runs : runs[r].opening \in {"token", "fetch"} => runs[r].aborted

\* A run that began to close never comes back, and how the first closer closed it
\* (given up as lost or not) stands.
ClosingIsFinal ==
    [][\A r \in Runs :
         runs[r].phase = "closing"
           => runs'[r].phase = "closing" /\ runs'[r].lost = runs[r].lost]_vars

\* Whoever stays silent, every run releases the reservation.
EverySessionEnds == \A r \in Runs : run = r ~> run # r

\* Every readiness request is answered, and every creation request once the
\* credential has come.
EveryHandlerAnswers ==
    \A r \in Runs :
        /\ runs[r].readying # "none" ~> runs[r].readying = "returned"
        /\ runs[r].opening = "fetch" ~> runs[r].opening = "returned"

\* The server implements the reservation it promises.
Reservation == INSTANCE SessionReservation
               WITH stage    <- IF run = NoRun THEN "free"
                                ELSE IF runs[run].phase \in Starting THEN "starting"
                                ELSE IF runs[run].phase = "connected" THEN "serving"
                                ELSE "closing",
                    admitted <- Cardinality(Begun),
                    open     <- ~draining

ImplementsReservation == Reservation!Spec
=============================================================================
