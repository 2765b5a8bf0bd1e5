------------------------------ MODULE LabClient ------------------------------
(***************************************************************************)
(* The browser page (useLab of apps/web/src/useLab.ts): connectLive with     *)
(* every point where it waits, startSimulation, end, the states the server   *)
(* feeds it, and unmounting.  A continuation that was overtaken by an end    *)
(* goes on until it notices that its token is no longer the generation.      *)
(*                                                                          *)
(* The server is what the page can tell of it; SessionServer models it.  An  *)
(* HTTP request is sent, worked on, answered or refused, and may be lost or  *)
(* given up at any of these points; one that never reached the server and    *)
(* was given up does not reach it later.                                    *)
(***************************************************************************)
EXTENDS Naturals, FiniteSets

CONSTANTS Attempts,        \* calls of connectLive
          MaxGeneration,   \* bound: starts and ends
          MaxLost,         \* bound: requests without an answer
          MaxEvents        \* bound: things that happen to a session by themselves

ASSUME ClientAssumption ==
    /\ Attempts \subseteq Nat \ {0}
    /\ {MaxGeneration, MaxLost, MaxEvents} \subseteq Nat

VARIABLES
    server,       \* the last run of the server: its kind and phase, and its source as told
    mounted, generation, locked, phase,
    liveAttempt, observed,
    shown,        \* the state of the server the page last applied
    attempts,     \* per call of connectLive: where it waits, its token, its request
    simulation,   \* the call of startSimulation
    ending,       \* the work of end()
    streams,      \* the calls whose microphone is captured
    resources,    \* the page's open media
    lastEnd,      \* history: how the last end went, until the next start
    lost, happened

pageVars == <<mounted, generation, locked, phase, liveAttempt, observed>>
mediaVars == <<streams, resources>>
bounds == <<lost, happened>>
vars == <<server, pageVars, shown, attempts, simulation, ending, mediaVars, lastEnd, bounds>>

NoEnd == [at |-> "none", request |-> "none", failed |-> FALSE, closeLive |-> FALSE,
          simulation |-> FALSE, grace |-> FALSE]
NoCall == [at |-> "none", token |-> 0, request |-> "none", run |-> 0]
NoMedia == [owner |-> 0, established |-> FALSE, sending |-> FALSE, up |-> FALSE]

Init ==
    /\ server = [run |-> 0, kind |-> "simulation", source |-> "simulation", phase |-> "none"]
    /\ mounted = TRUE /\ generation = 0 /\ locked = FALSE /\ phase = "idle"
    /\ liveAttempt = FALSE /\ observed = FALSE
    /\ shown = server
    /\ attempts = [i \in Attempts |-> NoCall]
    /\ simulation = [token |-> 0, request |-> "none"]
    /\ ending = NoEnd
    /\ streams = {} /\ resources = NoMedia
    /\ lastEnd = "none"
    /\ lost = 0 /\ happened = 0

Current(i) == mounted /\ attempts[i].token = generation
Pending(request) == request \in {"sent", "working"}
Settled(request) == request \in {"answered", "refused", "lost"}

\* stopped of the game, and liveSessionReady of the state
Stopped(s) == s.phase \in {"none", "closing"}
LiveReady(s) == s.source = "live" /\ s.phase = "connected"
-----------------------------------------------------------------------------
(* The media *)

\* Mutated form: the first permission that comes is taken.
KeepsStreamAlways(i) == TRUE

KeepsStream(i) == Current(i)

\* muteMedia: nothing is sent or measured, the connection stays.
Muted == [resources EXCEPT !.sending = FALSE]

\* disposeMedia
DisposeMedia ==
    /\ streams' = streams \ {resources.owner}
    /\ resources' = NoMedia

\* reportReady: the microphone is open exactly while everything is ready.
ReportReady(media, state) ==
    IF media.established /\ ending.at = "none"
    THEN [media EXCEPT !.sending = media.up /\ LiveReady(state)] ELSE media

Observed(state) == observed \/ (liveAttempt /\ LiveReady(state))
-----------------------------------------------------------------------------
(* end() *)

\* Mutated form: one stop is enough for a start whose answer is not there yet.
StopsOnce == FALSE

\* A start whose answer is not there yet is stopped once more after it.
StopsAgain == simulation.request # "none"

\* The synchronous part.
BeginEnd ==
    /\ ending.at = "none" /\ generation < MaxGeneration
    /\ ending' = [at |-> "stop", request |-> "sent", failed |-> FALSE,
                  closeLive |-> liveAttempt \/ shown.source = "live",
                  simulation |-> StopsAgain, grace |-> resources.established]
    /\ generation' = generation + 1
    /\ locked' = TRUE /\ lastEnd' = "none"
    /\ phase' = IF mounted' THEN "closing" ELSE phase
    /\ IF resources.established THEN resources' = Muted /\ UNCHANGED streams ELSE DisposeMedia

Stop ==
    /\ mounted /\ UNCHANGED mounted /\ BeginEnd
    /\ UNCHANGED <<server, liveAttempt, observed, shown, attempts, simulation, bounds>>

\* The server ended the run this page was connected to.
AutoEnd ==
    /\ mounted /\ liveAttempt /\ observed /\ phase \in {"connecting", "connected"} /\ Stopped(shown)
    /\ UNCHANGED mounted /\ BeginEnd
    /\ UNCHANGED <<server, liveAttempt, observed, shown, attempts, simulation, bounds>>

Unmount ==
    /\ mounted /\ mounted' = FALSE
    /\ IF ending.at # "none" THEN UNCHANGED <<ending, generation, locked, lastEnd, phase, mediaVars>>
       ELSE IF liveAttempt THEN BeginEnd
       ELSE /\ generation < MaxGeneration /\ generation' = generation + 1
            /\ DisposeMedia
            /\ UNCHANGED <<ending, locked, lastEnd, phase>>
    /\ UNCHANGED <<server, liveAttempt, observed, shown, attempts, simulation, bounds>>

AllSettled ==
    /\ \A i \in Attempts: ~Pending(attempts[i].request)
    /\ ~Pending(simulation.request)

Apply == shown' = IF mounted THEN server ELSE shown

\* An answer to the stop or the close of the end; a failed one is reported.
EndAnswered(at, next) ==
    /\ ending.at = at /\ Settled(ending.request)
    /\ ending' = [ending EXCEPT !.at = next,
                                !.request = IF next \in {"close", "stopAgain"} THEN "sent" ELSE "none",
                                !.failed = @ \/ ending.request # "answered"]
    /\ IF ending.request = "answered"
       THEN Apply /\ observed' = Observed(shown')
       ELSE UNCHANGED <<shown, observed>>

AfterStops == IF ending.closeLive THEN "close" ELSE "finish"

EndWork ==
    /\ \/ EndAnswered("stop", "settle")
       \/ /\ ending.at = "settle" /\ AllSettled
          /\ LET next == IF ending.simulation THEN "stopAgain" ELSE AfterStops IN
             ending' = [ending EXCEPT !.at = next,
                                      !.request = IF next = "finish" THEN "none" ELSE "sent"]
          /\ UNCHANGED <<shown, observed>>
       \/ EndAnswered("stopAgain", AfterStops)
       \/ EndAnswered("close", "finish")
    /\ UNCHANGED <<server, mounted, generation, locked, phase, liveAttempt, attempts, simulation,
                   mediaVars, lastEnd, bounds>>

\* The answer did not come within CLOSE_GRACE_MS.
GraceExpires ==
    /\ ending.at # "none" /\ ending.grace
    /\ ending' = [ending EXCEPT !.grace = FALSE, !.failed = TRUE]
    /\ DisposeMedia
    /\ UNCHANGED <<server, pageVars, shown, attempts, simulation, lastEnd, bounds>>

Finish ==
    /\ ending.at = "finish" /\ ending' = NoEnd
    /\ liveAttempt' = (ending.failed /\ ending.closeLive)
    /\ locked' = FALSE
    /\ phase' = IF ~mounted THEN phase ELSE IF ending.failed THEN "error" ELSE "idle"
    /\ simulation' = [simulation EXCEPT !.request = "none"]
    /\ lastEnd' = IF ending.failed THEN "failed" ELSE "clean"
    /\ DisposeMedia
    /\ UNCHANGED <<server, mounted, generation, observed, shown, attempts, bounds>>
-----------------------------------------------------------------------------
(* Starting *)

CanStart ==
    /\ mounted /\ ~locked /\ ~liveAttempt /\ shown.phase = "none"
    /\ phase \in {"idle", "error"} /\ generation < MaxGeneration

StartSimulation ==
    /\ CanStart
    /\ locked' = TRUE /\ generation' = generation + 1 /\ lastEnd' = "none"
    /\ simulation' = [token |-> generation', request |-> "sent"]
    /\ UNCHANGED <<server, mounted, phase, liveAttempt, observed, shown, attempts, ending,
                   mediaVars, bounds>>

\* Its answer, or none; overtaken by an end it leaves everything to it.
SimulationSettles ==
    /\ Settled(simulation.request) /\ mounted /\ simulation.token = generation
    /\ simulation' = [simulation EXCEPT !.request = "none"]
    /\ locked' = FALSE
    /\ IF simulation.request = "answered" THEN shown' = server /\ phase' = "idle"
       ELSE UNCHANGED <<shown, phase>>
    /\ UNCHANGED <<server, mounted, generation, liveAttempt, observed, attempts, ending, mediaVars,
                   lastEnd, bounds>>

ConnectLive(i) ==
    /\ CanStart
    /\ attempts[i].at = "none" /\ \A j \in Attempts: j < i => attempts[j].at # "none"
    /\ locked' = TRUE /\ liveAttempt' = TRUE /\ observed' = FALSE /\ lastEnd' = "none"
    /\ generation' = generation + 1 /\ phase' = "microphone"
    /\ attempts' = [attempts EXCEPT ![i] = [NoCall EXCEPT !.at = "microphone", !.token = generation']]
    /\ resources' = [NoMedia EXCEPT !.owner = i]
    /\ UNCHANGED <<server, mounted, shown, simulation, ending, streams, bounds>>

Goes(i, at, request) ==
    attempts' = [attempts EXCEPT ![i].at = at, ![i].request = request]

\* An overtaken continuation returns, or its failure is not reported.
Leaves(i) ==
    /\ Goes(i, "over", "none")
    /\ UNCHANGED <<server, pageVars, shown, simulation, ending, mediaVars, lastEnd, bounds>>

\* getUserMedia is answered, however late.
MicrophoneGranted(i) ==
    /\ attempts[i].at = "microphone"
    /\ IF KeepsStream(i)
       THEN Goes(i, "monitor", "none") /\ streams' = streams \cup {i}
       ELSE Goes(i, "over", "none") /\ UNCHANGED streams
    /\ UNCHANGED <<server, pageVars, shown, simulation, ending, resources, lastEnd, bounds>>

\* The meter is ready, then the offer and its ICE candidates are.
Prepared(i) ==
    /\ \/ attempts[i].at = "monitor" /\ Goes(i, "offer", "none") /\ phase' = "connecting"
       \/ attempts[i].at = "offer" /\ Goes(i, "exchange", "sent") /\ UNCHANGED phase
    /\ Current(i)
    /\ UNCHANGED <<server, mounted, generation, locked, liveAttempt, observed, shown, simulation,
                   ending, mediaVars, lastEnd, bounds>>

Exchanged(i) ==
    /\ attempts[i].at = "exchange" /\ attempts[i].request = "answered" /\ Current(i)
    /\ Goes(i, "connect", "none")
    /\ UNCHANGED <<server, pageVars, shown, simulation, ending, mediaVars, lastEnd, bounds>>

PeerConnected(i) ==
    /\ attempts[i].at = "connect" /\ Current(i)
    /\ Goes(i, "ready", "sent")
    /\ resources' = [resources EXCEPT !.up = TRUE]
    /\ UNCHANGED <<server, pageVars, shown, simulation, ending, streams, lastEnd, bounds>>

\* What the page shows once it applied the answer to ready: the answer, unless a
\* later state of that run came first.
AfterReady(i) ==
    IF shown.run = attempts[i].run /\ Stopped(shown) THEN shown
    ELSE [run |-> attempts[i].run, kind |-> "live", source |-> "live", phase |-> "connected"]

ReadyAnswered(i) == attempts[i].at = "ready" /\ attempts[i].request = "answered"

\* The server attached the session: the microphone is opened.
Attached(i) ==
    /\ ReadyAnswered(i) /\ Current(i)
    /\ LiveReady(AfterReady(i)) /\ resources.up
    /\ Goes(i, "serving", "none")
    /\ shown' = AfterReady(i) /\ observed' = TRUE
    /\ resources' = ReportReady([resources EXCEPT !.established = TRUE], shown')
    /\ locked' = FALSE /\ phase' = "connected"
    /\ UNCHANGED <<server, mounted, generation, liveAttempt, simulation, ending, streams, lastEnd, bounds>>

Overtaken(i) ==
    /\ attempts[i].at \notin {"none", "microphone", "over"} /\ ~Current(i)
    /\ ~Pending(attempts[i].request)
    /\ Leaves(i)

\* Permission refused, no meter, no connection, a refused or unanswered request, a
\* session that was not ready after all, or any later failure: the page ends it.
Fail(i) ==
    /\ attempts[i].at \notin {"none", "over"} /\ Current(i)
    /\ \/ attempts[i].request \in {"refused", "lost"} /\ UNCHANGED happened
       \/ ReadyAnswered(i) /\ ~LiveReady(AfterReady(i))
          /\ UNCHANGED happened
       \/ happened < MaxEvents /\ happened' = happened + 1
    /\ attempts' = IF Pending(attempts[i].request) THEN attempts
                   ELSE [attempts EXCEPT ![i].at = "over", ![i].request = "none"]
    /\ UNCHANGED mounted /\ BeginEnd
    /\ UNCHANGED <<server, liveAttempt, observed, shown, simulation, lost>>

\* The connection comes and goes while the session lasts.
PeerChanges ==
    /\ mounted /\ resources.established /\ ending.at = "none"
    /\ happened < MaxEvents /\ happened' = happened + 1
    /\ LET media == [resources EXCEPT !.up = ~@] IN
       /\ resources' = ReportReady(media, shown)
       /\ phase' = IF resources'.sending THEN "connected" ELSE IF media.up THEN phase ELSE "connecting"
    /\ UNCHANGED <<server, mounted, generation, locked, liveAttempt, observed, shown, attempts,
                   simulation, ending, streams, lastEnd, lost>>

\* A state from the feed.
Feed ==
    /\ mounted /\ shown # server
    /\ shown' = server /\ observed' = Observed(server)
    /\ resources' = ReportReady(resources, server)
    /\ UNCHANGED <<server, mounted, generation, locked, phase, liveAttempt, attempts, simulation,
                   ending, streams, lastEnd, bounds>>
-----------------------------------------------------------------------------
(* The server and the network *)

Begins(kind, to) ==
    /\ server.phase = "none"
    /\ server' = [run |-> server.run + 1, kind |-> kind, source |-> "simulation", phase |-> to]

ServeAttempt(i) ==
    LET asks(at) == attempts[i].at = at /\ attempts[i].request = "sent"
        in(stage) == server.kind = "live" /\ server.phase = stage
        works(from) == attempts[i].request = "working" /\ in(from)
    IN
    /\ \/ asks("exchange") /\ Begins("live", "connecting")
          /\ attempts' = [attempts EXCEPT ![i].request = "working", ![i].run = server'.run]
       \/ asks("ready") /\ in("negotiating")
          /\ server' = [server EXCEPT !.phase = "attaching"]
          /\ attempts' = [attempts EXCEPT ![i].request = "working"]
       \/ /\ attempts[i].at = "exchange" /\ works("connecting")
          /\ server' = [server EXCEPT !.phase = "negotiating"]
          /\ attempts' = [attempts EXCEPT ![i].request = "answered"]
       \/ /\ attempts[i].at = "ready" /\ works("attaching")
          /\ server' = [server EXCEPT !.phase = "connected", !.source = "live"]
          /\ attempts' = [attempts EXCEPT ![i].request = "answered"]
       \/ /\ \/ attempts[i].request = "working" /\ Stopped(server)
             \/ asks("exchange") /\ server.phase # "none"
             \/ asks("ready") /\ ~in("negotiating")
          /\ attempts' = [attempts EXCEPT ![i].request = "refused"]
          /\ UNCHANGED server
    /\ UNCHANGED <<pageVars, shown, simulation, ending, mediaVars, lastEnd, bounds>>

ServeSimulation ==
    /\ simulation.request = "sent"
    /\ \/ /\ Begins("simulation", "connected")
          /\ simulation' = [simulation EXCEPT !.request = "answered"]
       \/ /\ server.phase # "none" /\ UNCHANGED server
          /\ simulation' = [simulation EXCEPT !.request = "refused"]
    /\ UNCHANGED <<pageVars, shown, attempts, ending, mediaVars, lastEnd, bounds>>

\* A stop or a close is answered when the run is released.
ServeEnd ==
    /\ \/ /\ ending.request = "sent" /\ ~Stopped(server)
          /\ server' = [server EXCEPT !.phase = "closing"]
          /\ ending' = [ending EXCEPT !.request = "working"]
       \/ /\ ending.request = "sent" /\ server.phase = "closing" /\ UNCHANGED server
          /\ ending' = [ending EXCEPT !.request = "working"]
       \/ /\ Pending(ending.request) /\ server.phase = "none" /\ UNCHANGED server
          /\ ending' = [ending EXCEPT !.request = "answered"]
    /\ UNCHANGED <<pageVars, shown, attempts, simulation, mediaVars, lastEnd, bounds>>

ServerCloses ==
    /\ ~Stopped(server) /\ happened < MaxEvents
    /\ server' = [server EXCEPT !.phase = "closing"] /\ happened' = happened + 1
    /\ UNCHANGED <<pageVars, shown, attempts, simulation, ending, mediaVars, lastEnd, lost>>

\* A request the page gave up is worked on to its end.
ServerGoesOn ==
    /\ \A i \in Attempts: attempts[i].request # "working"
    /\ \/ server.phase = "connecting" /\ server' = [server EXCEPT !.phase = "negotiating"]
       \/ server.phase = "attaching"
          /\ server' = [server EXCEPT !.phase = "connected", !.source = "live"]
    /\ UNCHANGED <<pageVars, shown, attempts, simulation, ending, mediaVars, lastEnd, bounds>>

Release ==
    /\ server.phase = "closing" /\ server' = [server EXCEPT !.phase = "none"]
    /\ UNCHANGED <<pageVars, shown, attempts, simulation, ending, mediaVars, lastEnd, bounds>>

\* No answer: the network, the abort after 30 seconds or the timeout of 20.
Lose ==
    /\ lost < MaxLost /\ lost' = lost + 1
    /\ \/ \E i \in Attempts:
            /\ attempts[i].request \in {"sent", "working", "answered"}
            /\ attempts' = [attempts EXCEPT ![i].request = "lost"]
            /\ UNCHANGED <<simulation, ending>>
       \/ /\ simulation.request \in {"sent", "answered"}
          /\ simulation' = [simulation EXCEPT !.request = "lost"]
          /\ UNCHANGED <<attempts, ending>>
       \/ /\ ending.request \in {"sent", "working", "answered"}
          /\ ending' = [ending EXCEPT !.request = "lost"]
          /\ UNCHANGED <<attempts, simulation>>
    /\ UNCHANGED <<server, pageVars, shown, mediaVars, lastEnd, happened>>

Next ==
    \/ Stop \/ AutoEnd \/ Unmount \/ EndWork \/ GraceExpires \/ Finish
    \/ StartSimulation \/ SimulationSettles \/ PeerChanges \/ Feed
    \/ \E i \in Attempts:
         \/ ConnectLive(i) \/ MicrophoneGranted(i) \/ Prepared(i) \/ Exchanged(i)
         \/ PeerConnected(i) \/ Attached(i) \/ Overtaken(i) \/ Fail(i) \/ ServeAttempt(i)
    \/ ServeSimulation \/ ServeEnd \/ ServerGoesOn \/ ServerCloses \/ Release \/ Lose

Spec == Init /\ [][Next]_vars
-----------------------------------------------------------------------------
\* An end the page reports as clean is one: until it starts something again, no
\* session and no simulation it ever asked for is running, even one whose request
\* was still on its way when the user ended it.
CleanEndIsFinal == lastEnd = "clean" => Stopped(server)

\* The microphone is sent only by the call that is current and attached, to a
\* session the page was last told is connected; and no call that was overtaken
\* keeps a microphone open once the end that overtook it is through.
SilentUnlessServing ==
    /\ resources.sending =>
         /\ ending.at = "none" /\ LiveReady(shown) /\ resources.up
         /\ Current(resources.owner) /\ attempts[resources.owner].at = "serving"
    /\ streams \subseteq {resources.owner}
    /\ ending.at = "none" => \A i \in streams: Current(i)
=============================================================================
