--------------------------- MODULE LabClientProofs ---------------------------
(***************************************************************************)
(* Theorems about LabClient, for any set of calls and any bounds, and their *)
(* proofs.  One inductive invariant says which call may still act: what an  *)
(* end overtook never becomes current again, and from an end's second half  *)
(* on no request for a session is on its way.                               *)
(***************************************************************************)
EXTENDS LabClient, TLAPS

(* The type invariant *)

Requests == {"none", "sent", "working", "answered", "refused", "lost"}

ServerStates ==
    [run: Nat, kind: {"live", "simulation"}, source: {"live", "simulation"},
     phase: {"none", "connecting", "negotiating", "attaching", "connected", "closing"}]

CallStages ==
    {"none", "microphone", "monitor", "offer", "exchange", "connect", "ready", "serving", "over"}

Calls == [at: CallStages, token: Nat, request: Requests, run: Nat]

Simulations == [token: Nat, request: Requests]

Ends ==
    [at: {"none", "stop", "settle", "stopAgain", "close", "finish"}, request: Requests,
     failed: BOOLEAN, closeLive: BOOLEAN, simulation: BOOLEAN, grace: BOOLEAN]

Media == [owner: Attempts \cup {0}, established: BOOLEAN, sending: BOOLEAN, up: BOOLEAN]

TypeOK ==
    /\ server \in ServerStates /\ shown \in ServerStates
    /\ mounted \in BOOLEAN /\ locked \in BOOLEAN /\ liveAttempt \in BOOLEAN
    /\ observed \in BOOLEAN
    /\ generation \in Nat /\ lost \in Nat /\ happened \in Nat
    /\ phase \in {"idle", "microphone", "connecting", "connected", "closing", "error"}
    /\ attempts \in [Attempts -> Calls]
    /\ simulation \in Simulations
    /\ ending \in Ends
    /\ streams \subseteq Attempts
    /\ resources \in Media
    /\ lastEnd \in {"none", "clean", "failed"}

(* The inductive invariant *)

\* A call that has begun and was not overtaken.
GoesOn(i) == attempts[i].at # "none" /\ Current(i)

\* Only one start is current, it owns the media, and an end overtakes it.
Fenced ==
    /\ \A i \in Attempts : attempts[i].token <= generation
    /\ simulation.token <= generation
    /\ \A i \in Attempts : GoesOn(i) =>
         /\ attempts[i].at # "over" /\ resources.owner = i
         /\ ending.at = "none" /\ liveAttempt /\ simulation.token # generation
    /\ ending.at # "none" => locked /\ simulation.token # generation

\* Whose microphone is captured, and when it is sent.
Captured ==
    /\ streams \subseteq {resources.owner}
    /\ ~liveAttempt => streams = {}
    /\ ending.at = "none" => \A i \in streams : Current(i)
    /\ resources.established /\ ending.at = "none" =>
         resources.owner \in Attempts /\ Current(resources.owner)
           /\ attempts[resources.owner].at = "serving"
    /\ resources.sending =>
         resources.established /\ resources.up /\ ending.at = "none" /\ LiveReady(shown)

NoCallPending == \A i \in Attempts : ~Pending(attempts[i].request)

\* What an end knows about the starts it overtook, and what its answers told it.
Ended ==
    /\ ~liveAttempt => NoCallPending
    /\ ending.at # "none" =>
         /\ ~ending.closeLive => ~liveAttempt
         /\ ~ending.simulation => simulation.request = "none"
    /\ ending.at \in {"stopAgain", "close", "finish"} => AllSettled
    /\ ending.at \in {"stopAgain", "close"} /\ ending.request = "answered" => Stopped(server)
    /\ ending.at = "finish" /\ ~ending.failed => Stopped(server)
    /\ ~ending.closeLive /\ ~ending.simulation
       /\ (\/ ending.at = "stop" /\ ending.request = "answered"
           \/ ending.at = "settle" /\ ~ending.failed) => Stopped(server)
    /\ lastEnd = "clean" =>
         Stopped(server) /\ AllSettled /\ \A i \in Attempts : ~GoesOn(i)

IInv == TypeOK /\ Fenced /\ Captured /\ Ended
-----------------------------------------------------------------------------
(* Types *)

LEMMA InitTypes == Init => TypeOK
<1> SUFFICES ASSUME Init PROVE TypeOK
  OBVIOUS
<1>1. NoCall \in Calls /\ NoEnd \in Ends /\ NoMedia \in Media
  <2>1. NoCall \in Calls
    BY DEF NoCall, Calls, CallStages, Requests
  <2>2. NoEnd \in Ends
    BY DEF NoEnd, Ends, Requests
  <2>3. NoMedia \in Media
    BY DEF NoMedia, Media
  <2> QED
    BY <2>1, <2>2, <2>3
<1>2. server \in ServerStates /\ simulation \in Simulations
  BY DEF Init, ServerStates, Simulations, Requests
<1>3. attempts \in [Attempts -> Calls] /\ ending \in Ends /\ resources \in Media
  BY <1>1 DEF Init
<1>4. shown = server
  BY DEF Init
<1>5. /\ mounted \in BOOLEAN /\ locked \in BOOLEAN /\ liveAttempt \in BOOLEAN
      /\ observed \in BOOLEAN /\ generation \in Nat /\ lost \in Nat /\ happened \in Nat
      /\ phase = "idle" /\ lastEnd = "none" /\ streams \subseteq Attempts
  BY DEF Init
<1> QED
  BY <1>2, <1>3, <1>4, <1>5 DEF TypeOK

\* What changes of the calls when one goes on.
LEMMA CallTypes ==
    ASSUME TypeOK, NEW i \in Attempts, NEW at \in CallStages, NEW request \in Requests,
           Goes(i, at, request)
    PROVE  /\ attempts' \in [Attempts -> Calls]
           /\ attempts'[i].at = at /\ attempts'[i].request = request
           /\ \A j \in Attempts : attempts'[j].token = attempts[j].token
           /\ \A j \in Attempts \ {i} : attempts'[j] = attempts[j]
  BY DEF TypeOK, Calls, Goes

LEMMA MediaTypes ==
    ASSUME TypeOK, NEW media \in Media, NEW state
    PROVE  /\ ReportReady(media, state) \in Media
           /\ ReportReady(media, state).owner = media.owner
           /\ ReportReady(media, state).established = media.established
           /\ ReportReady(media, state).up = media.up
           /\ ReportReady(media, state).sending =
                IF media.established /\ ending.at = "none" THEN media.up /\ LiveReady(state)
                ELSE media.sending
<1> DEFINE b == media.up /\ LiveReady(state)
<1>1. b \in BOOLEAN
  BY DEF Media, LiveReady
<1>2. ReportReady(media, state) =
        IF media.established /\ ending.at = "none" THEN [media EXCEPT !.sending = b] ELSE media
  BY DEF ReportReady
<1> HIDE DEF b
<1>3. /\ [media EXCEPT !.sending = b] \in Media
      /\ [media EXCEPT !.sending = b].owner = media.owner
      /\ [media EXCEPT !.sending = b].established = media.established
      /\ [media EXCEPT !.sending = b].up = media.up
      /\ [media EXCEPT !.sending = b].sending = b
  BY <1>1 DEF Media
<1> QED
  BY <1>2, <1>3 DEF b

LEMMA DisposeTypes ==
    ASSUME TypeOK, DisposeMedia
    PROVE  /\ streams' = streams \ {resources.owner} /\ streams' \subseteq Attempts
           /\ resources' \in Media /\ resources'.owner = 0 /\ ~resources'.established
           /\ ~resources'.sending
  BY DEF TypeOK, DisposeMedia, NoMedia, Media

\* What every end begins with.
LEMMA BeginEndFacts ==
    ASSUME TypeOK, BeginEnd
    PROVE  /\ ending.at = "none" /\ generation' = generation + 1 /\ locked' = TRUE
           /\ lastEnd' = "none" /\ phase' \in {"closing", phase}
           /\ ending' \in Ends /\ ending'.at = "stop" /\ ending'.request = "sent"
           /\ ending'.closeLive = (liveAttempt \/ shown.source = "live")
           /\ ending'.simulation = (simulation.request # "none")
           /\ streams' \subseteq streams /\ resources' \in Media /\ ~resources'.sending
           /\ \/ resources'.owner = resources.owner
              \/ streams' = streams \ {resources.owner} /\ resources'.owner = 0
<1> DEFINE live == liveAttempt \/ shown.source = "live"
           again == StopsAgain
           grace == resources.established
<1>1. live \in BOOLEAN /\ again \in BOOLEAN /\ grace \in BOOLEAN
  BY DEF TypeOK, Media, StopsAgain
<1>2. ending' = [at |-> "stop", request |-> "sent", failed |-> FALSE, closeLive |-> live,
                 simulation |-> again, grace |-> grace]
  BY DEF BeginEnd
<1> HIDE DEF live, again, grace
<1>3. /\ ending' \in Ends /\ ending'.at = "stop" /\ ending'.request = "sent"
      /\ ending'.closeLive = live /\ ending'.simulation = again
  BY <1>1, <1>2 DEF Ends, Requests
<1>4. /\ ending.at = "none" /\ generation' = generation + 1 /\ locked' = TRUE
      /\ lastEnd' = "none" /\ phase' \in {"closing", phase}
      /\ IF resources.established THEN resources' = Muted /\ UNCHANGED streams ELSE DisposeMedia
  BY DEF BeginEnd
<1>5. Muted \in Media /\ ~Muted.sending /\ Muted.owner = resources.owner
  BY DEF TypeOK, Muted, Media
<1> HIDE DEF BeginEnd
<1>6. /\ streams' \subseteq streams /\ resources' \in Media /\ ~resources'.sending
      /\ \/ resources'.owner = resources.owner
         \/ streams' = streams \ {resources.owner} /\ resources'.owner = 0
  BY <1>4, <1>5, DisposeTypes
<1> QED
  BY <1>3, <1>4, <1>6 DEF live, again, StopsAgain


\* A step that starts nothing and ends nothing leaves what an end was told.
LEMMA EndedStays ==
    ASSUME IInv, UNCHANGED <<liveAttempt, ending, lastEnd>>,
           Stopped(server) => Stopped(server'),
           simulation.request = "none" => simulation'.request = "none",
           Pending(simulation'.request) => Pending(simulation.request),
           \A i \in Attempts : Pending(attempts'[i].request) => Pending(attempts[i].request),
           \A i \in Attempts : GoesOn(i)' => GoesOn(i)
    PROVE  Ended'
<1>1. AllSettled => AllSettled'
  BY DEF AllSettled
<1>2. NoCallPending => NoCallPending'
  BY DEF NoCallPending
<1> QED
  BY <1>1, <1>2 DEF IInv, Ended

\* A step of the server or the network leaves the page where it is.
LEMMA ElsewhereKept ==
    ASSUME IInv, UNCHANGED <<pageVars, shown, mediaVars>>,
           \A i \in Attempts : /\ attempts'[i].at = attempts[i].at
                               /\ attempts'[i].token = attempts[i].token,
           simulation'.token = simulation.token, ending'.at = ending.at
    PROVE  /\ Fenced' /\ Captured'
           /\ \A i \in Attempts : GoesOn(i)' <=> GoesOn(i)
<1>1. \A i \in Attempts : Current(i)' <=> Current(i)
  BY DEF Current, pageVars
<1>2. \A i \in Attempts : GoesOn(i)' <=> GoesOn(i)
  BY <1>1 DEF GoesOn
<1>3. Fenced'
  BY <1>2 DEF IInv, Fenced, pageVars, mediaVars
<1>4. Captured'
  BY <1>1 DEF IInv, Captured, TypeOK, pageVars, mediaVars
<1> QED
  BY <1>2, <1>3, <1>4
-----------------------------------------------------------------------------
(* A call of connectLive *)

\* Steps of a call that is current, but for the one that attaches it.
Proceeds(i) ==
    \/ MicrophoneGranted(i) /\ Current(i)
    \/ Prepared(i) \/ Exchanged(i) \/ PeerConnected(i)

LEMMA ProceedsKept == ASSUME IInv, NEW i \in Attempts, Proceeds(i) PROVE IInv'
<1> DEFINE c == attempts[i]
<1>1. /\ TypeOK /\ Current(i) /\ c.at \in {"microphone", "monitor", "offer", "exchange", "connect"}
      /\ UNCHANGED <<server, mounted, generation, locked, liveAttempt, observed, shown, simulation,
                     ending, lastEnd, bounds>>
  BY DEF Proceeds, MicrophoneGranted, Prepared, Exchanged, PeerConnected, IInv, pageVars
<1>2. PICK at \in CallStages, request \in {"none", "sent"} :
        at \notin {"none", "over", "serving"} /\ Goes(i, at, request)
  BY <1>1 DEF Proceeds, MicrophoneGranted, Prepared, Exchanged, PeerConnected, KeepsStream,
              CallStages
<1>3. /\ attempts' \in [Attempts -> Calls]
      /\ attempts'[i].at = at /\ attempts'[i].request = request
      /\ \A j \in Attempts : attempts'[j].token = attempts[j].token
      /\ \A j \in Attempts \ {i} : attempts'[j] = attempts[j]
  BY <1>1, <1>2, CallTypes DEF Requests
<1>4. GoesOn(i) /\ resources.owner = i /\ ending.at = "none" /\ liveAttempt
  BY <1>1 DEF GoesOn, IInv, Fenced
<1>5. /\ streams' \in {streams, streams \cup {i}} /\ phase' \in {phase, "connecting"}
      /\ resources' \in Media /\ resources'.owner = i
      /\ ~resources'.established /\ ~resources'.sending
  BY <1>1, <1>4 DEF Proceeds, MicrophoneGranted, Prepared, Exchanged, PeerConnected, KeepsStream,
                    mediaVars, pageVars, IInv, Captured, TypeOK, Media
<1>6. TypeOK'
  BY <1>1, <1>3, <1>5 DEF TypeOK, bounds
<1>7. \A j \in Attempts : Current(j)' <=> Current(j)
  BY <1>1, <1>3 DEF Current
<1>8. \A j \in Attempts : GoesOn(j)' <=> GoesOn(j)
  BY <1>1, <1>2, <1>3, <1>4, <1>7 DEF GoesOn
<1>9. Fenced'
  BY <1>1, <1>2, <1>3, <1>4, <1>5, <1>8 DEF IInv, Fenced
<1>10. Captured'
  BY <1>1, <1>4, <1>5, <1>7 DEF IInv, Captured, TypeOK
<1>11. Ended'
  BY <1>1, <1>4, <1>8 DEF IInv, Ended, Stopped
<1> QED
  BY <1>6, <1>9, <1>10, <1>11 DEF IInv

LEMMA AttachedKept == ASSUME IInv, NEW i \in Attempts, Attached(i) PROVE IInv'
<1> DEFINE m == [resources EXCEPT !.established = TRUE]
<1>1. /\ TypeOK /\ Current(i) /\ attempts[i].at = "ready" /\ resources.up
      /\ UNCHANGED <<server, mounted, generation, liveAttempt, simulation, ending, streams,
                     lastEnd, bounds>>
      /\ Goes(i, "serving", "none") /\ locked' = FALSE /\ phase' = "connected"
      /\ observed' = TRUE
      /\ LiveReady(AfterReady(i)) /\ shown' = AfterReady(i) /\ resources' = ReportReady(m, shown')
  BY DEF Attached, ReadyAnswered, IInv
<1>2. /\ attempts' \in [Attempts -> Calls]
      /\ attempts'[i].at = "serving" /\ attempts'[i].request = "none"
      /\ \A j \in Attempts : attempts'[j].token = attempts[j].token
      /\ \A j \in Attempts \ {i} : attempts'[j] = attempts[j]
  BY <1>1, CallTypes DEF Requests, CallStages
<1>3. GoesOn(i) /\ resources.owner = i /\ ending.at = "none" /\ liveAttempt
  BY <1>1 DEF GoesOn, IInv, Fenced
<1>4. m \in Media /\ m.owner = i /\ m.established /\ m.up
  BY <1>1, <1>3 DEF TypeOK, Media
<1> HIDE DEF m
<1>5. resources' \in Media /\ resources'.owner = i /\ resources'.established /\ resources'.up
  BY <1>1, <1>3, <1>4, MediaTypes
<1>6. shown' \in ServerStates /\ LiveReady(shown)'
  BY <1>1 DEF AfterReady, TypeOK, ServerStates, Calls, LiveReady
<1>7. TypeOK'
  BY <1>1, <1>2, <1>5, <1>6 DEF TypeOK, bounds
<1>8. \A j \in Attempts : Current(j)' <=> Current(j)
  BY <1>1, <1>2 DEF Current
<1>9. \A j \in Attempts : GoesOn(j)' <=> GoesOn(j)
  BY <1>1, <1>2, <1>3, <1>8 DEF GoesOn
<1>10. Fenced'
  BY <1>1, <1>2, <1>3, <1>5, <1>9 DEF IInv, Fenced
<1>11. Captured'
  BY <1>1, <1>2, <1>3, <1>5, <1>6, <1>8 DEF IInv, Captured, TypeOK
<1>12. Ended'
  BY <1>1, <1>3, <1>9 DEF IInv, Ended, Stopped
<1> QED
  BY <1>7, <1>10, <1>11, <1>12 DEF IInv

\* A call that was overtaken does nothing any more.
LEMMA OvertakenKept ==
    ASSUME IInv, NEW i \in Attempts, Overtaken(i) \/ (MicrophoneGranted(i) /\ ~Current(i))
    PROVE  IInv'
<1>1. /\ TypeOK /\ ~Current(i) /\ attempts[i].at # "none" /\ Goes(i, "over", "none")
      /\ UNCHANGED <<server, pageVars, shown, simulation, ending, mediaVars, lastEnd, bounds>>
  BY DEF Overtaken, Leaves, MicrophoneGranted, KeepsStream, mediaVars, IInv
<1>2. /\ attempts' \in [Attempts -> Calls]
      /\ attempts'[i].at = "over" /\ attempts'[i].request = "none"
      /\ \A j \in Attempts : attempts'[j].token = attempts[j].token
      /\ \A j \in Attempts \ {i} : attempts'[j] = attempts[j]
  BY <1>1, CallTypes DEF Requests, CallStages
<1>3. TypeOK'
  BY <1>1, <1>2 DEF TypeOK, pageVars, mediaVars, bounds
<1>4. \A j \in Attempts : Current(j)' <=> Current(j)
  BY <1>1, <1>2 DEF Current, pageVars
<1>5. \A j \in Attempts : GoesOn(j)' <=> GoesOn(j)
  BY <1>1, <1>2, <1>4 DEF GoesOn
<1>6. \A j \in Attempts : Pending(attempts'[j].request) => Pending(attempts[j].request)
  BY <1>2 DEF Pending
<1>7. Fenced'
  BY <1>1, <1>2, <1>5 DEF IInv, Fenced, pageVars, mediaVars, GoesOn
<1>8. Captured'
  BY <1>1, <1>2, <1>4 DEF IInv, TypeOK, Captured, pageVars, mediaVars
<1>9. Ended'
  BY <1>1, <1>5, <1>6, EndedStays DEF pageVars
<1> QED
  BY <1>3, <1>7, <1>8, <1>9 DEF IInv
-----------------------------------------------------------------------------
(* The server and the network *)

\* A call's request is served: nothing begins unless the request was on its way.
LEMMA ServeAttemptKept == ASSUME IInv, NEW i \in Attempts, ServeAttempt(i) PROVE IInv'
<1>1. /\ TypeOK
      /\ UNCHANGED <<pageVars, shown, simulation, ending, mediaVars, lastEnd, bounds>>
      /\ Pending(attempts[i].request)
  BY DEF ServeAttempt, IInv, Pending
<1>2. PICK request \in {"working", "answered", "refused"} :
        \/ attempts' = [attempts EXCEPT ![i].request = request]
        \/ attempts' = [attempts EXCEPT ![i].request = request, ![i].run = server'.run]
  BY DEF ServeAttempt
<1>3. server' \in ServerStates
  <2>1. \/ Begins("live", "connecting") \/ server' = server
        \/ server' = [server EXCEPT !.phase = "attaching"]
        \/ server' = [server EXCEPT !.phase = "negotiating"]
        \/ server' = [server EXCEPT !.phase = "connected", !.source = "live"]
    BY DEF ServeAttempt
  <2>2. server \in ServerStates
    BY <1>1 DEF TypeOK
  <2>3. Begins("live", "connecting") => server' \in ServerStates
    BY <2>2 DEF Begins, ServerStates
  <2>4. /\ [server EXCEPT !.phase = "attaching"] \in ServerStates
        /\ [server EXCEPT !.phase = "negotiating"] \in ServerStates
        /\ [server EXCEPT !.phase = "connected", !.source = "live"] \in ServerStates
    BY <2>2 DEF ServerStates
  <2> QED
    BY <2>1, <2>2, <2>3, <2>4
<1>4. /\ attempts' \in [Attempts -> Calls]
      /\ \A j \in Attempts : /\ attempts'[j].at = attempts[j].at
                             /\ attempts'[j].token = attempts[j].token
      /\ \A j \in Attempts : Pending(attempts'[j].request) => Pending(attempts[j].request)
  <2>1. server'.run \in Nat
    BY <1>3 DEF ServerStates
  <2> QED
    BY <1>1, <1>2, <2>1 DEF TypeOK, Calls, Requests, Pending
<1>5. TypeOK'
  BY <1>1, <1>3, <1>4 DEF TypeOK, pageVars, mediaVars, bounds
<1>6. Fenced' /\ Captured' /\ \A j \in Attempts : GoesOn(j)' <=> GoesOn(j)
  BY <1>1, <1>4, ElsewhereKept
\* Whatever may have been stopped since is stopped: a pending request forbids it.
<1>7. CASE Stopped(server) => Stopped(server')
  BY <1>1, <1>4, <1>6, <1>7, EndedStays, <1>5 DEF IInv, pageVars
<1>8. CASE ~(Stopped(server) => Stopped(server'))
  <2>1. ~AllSettled /\ ~NoCallPending
    BY <1>1 DEF AllSettled, NoCallPending
  <2> QED
    BY <1>1, <1>5, <1>6, <2>1 DEF IInv, Ended, pageVars
<1> QED
  BY <1>7, <1>8

LEMMA ServeSimulationKept == ASSUME IInv, ServeSimulation PROVE IInv'
<1>1. /\ TypeOK
      /\ UNCHANGED <<pageVars, shown, attempts, ending, mediaVars, lastEnd, bounds>>
      /\ simulation.request = "sent" /\ Pending(simulation.request)
  BY DEF ServeSimulation, IInv, Pending
<1>2. /\ simulation' \in Simulations /\ simulation'.token = simulation.token
      /\ ~Pending(simulation'.request)
  BY <1>1 DEF ServeSimulation, TypeOK, Simulations, Requests, Pending
<1>3. server' \in ServerStates
  BY <1>1 DEF ServeSimulation, Begins, TypeOK, ServerStates
<1>4. TypeOK'
  BY <1>1, <1>2, <1>3 DEF TypeOK, pageVars, mediaVars, bounds
<1>5. Fenced' /\ Captured' /\ \A j \in Attempts : GoesOn(j)' <=> GoesOn(j)
  BY <1>1, <1>2, ElsewhereKept
<1>6. ~AllSettled
  BY <1>1 DEF AllSettled
<1>7. NoCallPending => NoCallPending'
  BY <1>1 DEF NoCallPending
<1>8. Ended'
  BY <1>1, <1>6, <1>7 DEF IInv, Ended, pageVars
<1> QED
  BY <1>4, <1>5, <1>8 DEF IInv

\* The answer to an end says that the server is free.
LEMMA ServeEndKept == ASSUME IInv, ServeEnd PROVE IInv'
<1>1. /\ TypeOK
      /\ UNCHANGED <<pageVars, shown, attempts, simulation, mediaVars, lastEnd, bounds>>
  BY DEF ServeEnd, IInv
<1>2. PICK request \in {"working", "answered"} :
        ending' = [ending EXCEPT !.request = request] /\ (request = "answered" => Stopped(server))
  BY DEF ServeEnd, Stopped
<1>3. /\ ending' \in Ends /\ ending'.at = ending.at /\ ending'.request = request
      /\ ending'.failed = ending.failed /\ ending'.closeLive = ending.closeLive
      /\ ending'.simulation = ending.simulation
  BY <1>1, <1>2 DEF TypeOK, Ends, Requests
<1>4. server' \in ServerStates /\ (Stopped(server) => Stopped(server'))
  BY <1>1 DEF ServeEnd, TypeOK, ServerStates, Stopped
<1>5. TypeOK'
  BY <1>1, <1>3, <1>4 DEF TypeOK, pageVars, mediaVars, bounds
<1>6. Fenced' /\ Captured' /\ \A j \in Attempts : GoesOn(j)' <=> GoesOn(j)
  BY <1>1, <1>3, ElsewhereKept
<1>7. AllSettled' = AllSettled /\ NoCallPending' = NoCallPending
  BY <1>1 DEF AllSettled, NoCallPending
<1>8. Ended'
  BY <1>1, <1>2, <1>3, <1>4, <1>6, <1>7 DEF IInv, Ended, pageVars
<1> QED
  BY <1>5, <1>6, <1>8 DEF IInv

LEMMA ServerAloneKept == ASSUME IInv, ServerCloses \/ ServerGoesOn \/ Release PROVE IInv'
<1>1. /\ TypeOK
      /\ UNCHANGED <<pageVars, shown, attempts, simulation, ending, mediaVars, lastEnd, lost>>
  <2>1. CASE ServerCloses
    BY <2>1 DEF ServerCloses, IInv
  <2>2. CASE ServerGoesOn \/ Release
    BY <2>2 DEF ServerGoesOn, Release, IInv, bounds
  <2> QED
    BY <2>1, <2>2
<1>2. happened' \in Nat /\ server' \in ServerStates /\ (Stopped(server) => Stopped(server'))
  <2>1. happened' \in {happened, happened + 1}
    BY DEF ServerCloses, ServerGoesOn, Release, bounds
  <2>2. PICK to \in {"closing", "none", "negotiating", "connected"} :
          /\ \/ server' = [server EXCEPT !.phase = to]
             \/ server' = [server EXCEPT !.phase = to, !.source = "live"]
          /\ Stopped(server) => to = "none"
    BY DEF ServerCloses, ServerGoesOn, Release, Stopped
  <2>3. server' \in ServerStates /\ server'.phase = to
    BY <1>1, <2>2 DEF TypeOK, ServerStates
  <2> QED
    BY <1>1, <2>1, <2>2, <2>3 DEF TypeOK, Stopped
<1>3. TypeOK'
  BY <1>1, <1>2 DEF TypeOK, pageVars, mediaVars
<1>4. Fenced' /\ Captured' /\ \A j \in Attempts : GoesOn(j)' <=> GoesOn(j)
  BY <1>1, ElsewhereKept
<1>5. Ended'
  BY <1>1, <1>2, <1>4, EndedStays DEF pageVars
<1> QED
  BY <1>3, <1>4, <1>5 DEF IInv

LEMMA LoseKept == ASSUME IInv, Lose PROVE IInv'
<1>1. /\ TypeOK /\ UNCHANGED <<server, pageVars, shown, mediaVars, lastEnd, happened>>
      /\ lost' \in Nat
  BY DEF Lose, IInv, TypeOK
<1>2. CASE \E i \in Attempts : /\ attempts' = [attempts EXCEPT ![i].request = "lost"]
                               /\ UNCHANGED <<simulation, ending>>
  <2>1. /\ attempts' \in [Attempts -> Calls]
        /\ \A j \in Attempts : /\ attempts'[j].at = attempts[j].at
                               /\ attempts'[j].token = attempts[j].token
        /\ \A j \in Attempts : Pending(attempts'[j].request) => Pending(attempts[j].request)
    BY <1>1, <1>2 DEF TypeOK, Calls, Requests, Pending
  <2>2. TypeOK'
    BY <1>1, <1>2, <2>1 DEF TypeOK, pageVars, mediaVars
  <2>3. Fenced' /\ Captured' /\ \A j \in Attempts : GoesOn(j)' <=> GoesOn(j)
    BY <1>1, <1>2, <2>1, ElsewhereKept
  <2>4. Ended'
    BY <1>1, <1>2, <2>1, <2>3, EndedStays DEF pageVars
  <2> QED
    BY <2>2, <2>3, <2>4 DEF IInv
<1>3. CASE /\ simulation.request \in {"sent", "answered"}
           /\ simulation' = [simulation EXCEPT !.request = "lost"]
           /\ UNCHANGED <<attempts, ending>>
  <2>1. /\ simulation' \in Simulations /\ simulation'.token = simulation.token
        /\ simulation'.request = "lost"
    BY <1>1, <1>3 DEF TypeOK, Simulations, Requests
  <2>2. TypeOK'
    BY <1>1, <1>3, <2>1 DEF TypeOK, pageVars, mediaVars
  <2>3. Fenced' /\ Captured' /\ \A j \in Attempts : GoesOn(j)' <=> GoesOn(j)
    BY <1>1, <1>3, <2>1, ElsewhereKept
  <2>4. Ended'
    BY <1>1, <1>3, <2>1, <2>3, EndedStays DEF pageVars, Pending
  <2> QED
    BY <2>2, <2>3, <2>4 DEF IInv
<1>4. CASE /\ ending' = [ending EXCEPT !.request = "lost"]
           /\ UNCHANGED <<attempts, simulation>>
  <2>1. /\ ending' \in Ends /\ ending'.at = ending.at /\ ending'.request = "lost"
        /\ ending'.failed = ending.failed /\ ending'.closeLive = ending.closeLive
        /\ ending'.simulation = ending.simulation
    BY <1>1, <1>4 DEF TypeOK, Ends, Requests
  <2>2. TypeOK'
    BY <1>1, <1>4, <2>1 DEF TypeOK, pageVars, mediaVars
  <2>3. Fenced' /\ Captured' /\ \A j \in Attempts : GoesOn(j)' <=> GoesOn(j)
    BY <1>1, <1>4, <2>1, ElsewhereKept
  <2>4. AllSettled' = AllSettled /\ NoCallPending' = NoCallPending
    BY <1>4 DEF AllSettled, NoCallPending
  <2>5. Ended'
    BY <1>1, <1>4, <2>1, <2>3, <2>4 DEF IInv, Ended, pageVars
  <2> QED
    BY <2>2, <2>3, <2>5 DEF IInv
<1> QED
  BY <1>2, <1>3, <1>4 DEF Lose
-----------------------------------------------------------------------------
(* The end *)

\* Every step that begins an end, in the words of what it leaves.
EndBegins ==
    Stop \/ AutoEnd \/ (Unmount /\ ending.at = "none" /\ liveAttempt) \/ \E i \in Attempts : Fail(i)

LEMMA EndBeginsFacts ==
    ASSUME IInv, EndBegins
    PROVE  /\ BeginEnd
           /\ UNCHANGED <<server, liveAttempt, observed, shown, simulation, lost>>
           /\ mounted' \in BOOLEAN /\ happened' \in {happened, happened + 1}
           /\ attempts' \in [Attempts -> Calls]
           /\ \A i \in Attempts : attempts'[i].token = attempts[i].token
           /\ \A i \in Attempts : Pending(attempts'[i].request) <=> Pending(attempts[i].request)
<1>1. TypeOK
  BY DEF IInv
<1>2. CASE Stop \/ AutoEnd \/ (Unmount /\ ending.at = "none" /\ liveAttempt)
  <2>1. /\ BeginEnd
        /\ UNCHANGED <<server, liveAttempt, observed, shown, attempts, simulation, bounds>>
        /\ mounted' \in {mounted, FALSE}
    BY <1>2 DEF Stop, AutoEnd, Unmount
  <2> QED
    BY <1>1, <2>1 DEF TypeOK, bounds
<1>3. CASE \E i \in Attempts : Fail(i)
  <2>1. PICK i \in Attempts : Fail(i)
    BY <1>3
  <2>2. /\ BeginEnd /\ UNCHANGED <<server, liveAttempt, observed, shown, simulation, lost, mounted>>
        /\ happened' \in {happened, happened + 1}
        /\ \/ attempts' = attempts
           \/ /\ ~Pending(attempts[i].request)
              /\ attempts' = [attempts EXCEPT ![i].at = "over", ![i].request = "none"]
    BY <2>1 DEF Fail
  <2>3. /\ attempts' \in [Attempts -> Calls]
        /\ \A j \in Attempts : attempts'[j].token = attempts[j].token
        /\ \A j \in Attempts : Pending(attempts'[j].request) <=> Pending(attempts[j].request)
    BY <1>1, <2>2 DEF TypeOK, Calls, CallStages, Requests, Pending
  <2> QED
    BY <1>1, <2>2, <2>3 DEF TypeOK
<1> QED
  BY <1>2, <1>3 DEF EndBegins

LEMMA EndBeginsKept == ASSUME IInv, EndBegins PROVE IInv'
<1>1. /\ TypeOK /\ BeginEnd
      /\ UNCHANGED <<server, liveAttempt, observed, shown, simulation, lost>>
      /\ mounted' \in BOOLEAN /\ happened' \in {happened, happened + 1}
      /\ attempts' \in [Attempts -> Calls]
      /\ \A i \in Attempts : attempts'[i].token = attempts[i].token
      /\ \A i \in Attempts : Pending(attempts'[i].request) <=> Pending(attempts[i].request)
  BY EndBeginsFacts DEF IInv
<1>2. /\ ending.at = "none" /\ generation' = generation + 1 /\ locked' = TRUE
      /\ lastEnd' = "none" /\ phase' \in {"closing", phase}
      /\ ending' \in Ends /\ ending'.at = "stop" /\ ending'.request = "sent"
      /\ ending'.closeLive = (liveAttempt \/ shown.source = "live")
      /\ ending'.simulation = (simulation.request # "none")
      /\ streams' \subseteq streams /\ resources' \in Media /\ ~resources'.sending
      /\ \/ resources'.owner = resources.owner
         \/ streams' = streams \ {resources.owner} /\ resources'.owner = 0
  BY <1>1, BeginEndFacts
<1>3. TypeOK'
  BY <1>1, <1>2 DEF TypeOK
<1>4. \A i \in Attempts : ~Current(i)' /\ ~GoesOn(i)' /\ attempts'[i].token <= generation'
  BY <1>1, <1>2 DEF IInv, TypeOK, Calls, Fenced, Current, GoesOn
<1>5. Fenced'
  BY <1>1, <1>2, <1>4 DEF IInv, TypeOK, Simulations, Fenced
<1>6. Captured'
  BY <1>1, <1>2, <1>4 DEF IInv, Captured
<1>7. NoCallPending => NoCallPending'
  BY <1>1 DEF NoCallPending
<1>8. Ended'
  BY <1>1, <1>2, <1>7 DEF IInv, Ended
<1> QED
  BY <1>3, <1>5, <1>6, <1>8 DEF IInv

\* Leaving the page while an end goes on, or with nothing to end.
LEMMA UnmountKept == ASSUME IInv, Unmount, ~(ending.at = "none" /\ liveAttempt) PROVE IInv'
<1>1. /\ TypeOK /\ mounted' = FALSE
      /\ UNCHANGED <<server, liveAttempt, observed, shown, attempts, simulation, bounds>>
      /\ UNCHANGED <<ending, locked, lastEnd, phase>>
  BY DEF Unmount, IInv
<1>2. \/ UNCHANGED <<generation, mediaVars>> /\ ending.at # "none"
      \/ ending.at = "none" /\ ~liveAttempt /\ generation' = generation + 1 /\ DisposeMedia
  BY DEF Unmount
<1>3. /\ streams' \subseteq streams /\ resources' \in Media
      /\ generation' \in {generation, generation + 1} /\ streams' \subseteq {resources'.owner}
      /\ ending.at = "none" => streams' = {} /\ ~resources'.established
      /\ ~resources'.sending
      /\ ending.at # "none" => generation' = generation
  <2>1. CASE UNCHANGED <<generation, mediaVars>> /\ ending.at # "none"
    BY <1>1, <2>1 DEF mediaVars, IInv, TypeOK, Captured
  <2>2. CASE /\ ending.at = "none" /\ ~liveAttempt /\ generation' = generation + 1
             /\ DisposeMedia
    BY <1>1, <2>2, DisposeTypes DEF IInv, Captured
  <2> QED
    BY <1>2, <2>1, <2>2
<1>4. TypeOK'
  <2>1. streams' \subseteq Attempts /\ generation' \in Nat
    <3>1. streams \subseteq Attempts /\ generation \in Nat
      BY <1>1 DEF TypeOK
    <3> QED
      BY <1>3, <3>1
  <2> QED
    BY <1>1, <1>3, <2>1 DEF TypeOK, bounds
<1>5. \A i \in Attempts : ~Current(i)' /\ ~GoesOn(i)' /\ attempts'[i].token <= generation'
  BY <1>1, <1>3 DEF IInv, TypeOK, Calls, Fenced, Current, GoesOn
<1>6. Fenced'
  BY <1>1, <1>3, <1>5 DEF IInv, TypeOK, Simulations, Fenced
<1>7. Captured'
  <2>1. ending' = ending /\ liveAttempt' = liveAttempt /\ (~liveAttempt => streams' = {})
    BY <1>1, <1>3 DEF IInv, Captured
  <2> QED
    BY <1>3, <2>1 DEF Captured
<1>8. Ended'
  BY <1>1, <1>5, EndedStays DEF IInv, Ended
<1> QED
  BY <1>4, <1>6, <1>7, <1>8 DEF IInv

LEMMA AnsweredFacts ==
    ASSUME IInv, NEW at, NEW next \in {"settle", "close", "finish"}, EndAnswered(at, next)
    PROVE  /\ ending' \in Ends /\ ending.at = at /\ ending'.at = next
           /\ ending'.request \in {"none", "sent"}
           /\ ending'.failed = (ending.failed \/ ending.request # "answered")
           /\ ending'.closeLive = ending.closeLive /\ ending'.simulation = ending.simulation
           /\ shown' \in ServerStates /\ observed' \in BOOLEAN
<1> DEFINE request == IF next \in {"close", "stopAgain"} THEN "sent" ELSE "none"
           failed == ending.failed \/ ending.request # "answered"
<1>1. TypeOK /\ ending \in Ends /\ request \in {"none", "sent"} /\ failed \in BOOLEAN
  BY DEF IInv, TypeOK, Ends
<1>2. ending' = [ending EXCEPT !.at = next, !.request = request, !.failed = failed]
  BY <1>1 DEF EndAnswered, Ends
<1>3. shown' \in ServerStates /\ observed' \in BOOLEAN
  BY <1>1 DEF EndAnswered, Apply, Observed, LiveReady, TypeOK
<1>4. ending.at = at
  BY DEF EndAnswered
<1> HIDE DEF request
<1>5. /\ ending' \in Ends /\ ending'.at = next /\ ending'.request = request
      /\ ending'.failed = failed
      /\ ending'.closeLive = ending.closeLive /\ ending'.simulation = ending.simulation
  BY <1>1, <1>2 DEF Ends, Requests
<1> QED
  BY <1>1, <1>3, <1>4, <1>5

\* The moment when no start is on its way any more.
LEMMA SettleFacts ==
    ASSUME IInv, ending.at = "settle", AllSettled,
           LET next == IF ending.simulation THEN "stopAgain" ELSE AfterStops IN
             ending' = [ending EXCEPT !.at = next,
                                      !.request = IF next = "finish" THEN "none" ELSE "sent"]
    PROVE  /\ ending' \in Ends /\ ending'.request \in {"none", "sent"}
           /\ ending'.at = IF ending.simulation THEN "stopAgain" ELSE AfterStops
           /\ ending'.at \in {"stopAgain", "close", "finish"}
           /\ ending'.failed = ending.failed
           /\ ending'.closeLive = ending.closeLive /\ ending'.simulation = ending.simulation
<1> DEFINE next == IF ending.simulation THEN "stopAgain" ELSE AfterStops
           request == IF next = "finish" THEN "none" ELSE "sent"
<1>1. /\ ending \in Ends /\ request \in {"none", "sent"}
      /\ next \in {"stopAgain", "close", "finish"}
  BY DEF IInv, TypeOK, AfterStops
<1>2. ending' = [ending EXCEPT !.at = next, !.request = request]
  OBVIOUS
<1> HIDE DEF next, request
<1>3. /\ ending' \in Ends /\ ending'.at = next /\ ending'.request = request
      /\ ending'.failed = ending.failed
      /\ ending'.closeLive = ending.closeLive /\ ending'.simulation = ending.simulation
  BY <1>1, <1>2 DEF Ends, Requests
<1> QED
  BY <1>1, <1>3 DEF next

LEMMA EndWorkKept == ASSUME IInv, EndWork PROVE IInv'
<1>1. /\ TypeOK /\ ending.at # "none"
      /\ UNCHANGED <<server, mounted, generation, locked, phase, liveAttempt, attempts, simulation,
                     mediaVars, lastEnd, bounds>>
  BY DEF EndWork, EndAnswered, IInv
<1>2. AllSettled' = AllSettled /\ NoCallPending' = NoCallPending
  BY <1>1 DEF AllSettled, NoCallPending
<1>3. \A i \in Attempts : GoesOn(i)' <=> GoesOn(i)
  BY <1>1 DEF GoesOn, Current
<1>4. ASSUME ending' \in Ends, ending'.at # "none", shown' \in ServerStates, observed' \in BOOLEAN
      PROVE  TypeOK' /\ Fenced' /\ Captured'
  <2>1. TypeOK'
    BY <1>1, <1>4 DEF TypeOK, mediaVars, bounds
  <2>2. Fenced'
    BY <1>1, <1>3, <1>4 DEF IInv, Fenced, mediaVars
  <2>3. Captured'
    BY <1>1, <1>4 DEF IInv, Captured, mediaVars
  <2> QED
    BY <2>1, <2>2, <2>3
<1>5. CASE EndAnswered("stop", "settle")
  <2>1. /\ ending' \in Ends /\ ending.at = "stop" /\ ending'.at = "settle"
        /\ ending'.failed = (ending.failed \/ ending.request # "answered")
        /\ ending'.closeLive = ending.closeLive /\ ending'.simulation = ending.simulation
        /\ shown' \in ServerStates /\ observed' \in BOOLEAN
    BY <1>5, AnsweredFacts
  <2>2. Ended'
    BY <1>1, <1>2, <1>3, <2>1 DEF IInv, Ended
  <2> QED
    BY <1>4, <2>1, <2>2 DEF IInv
<1>6. CASE EndAnswered("stopAgain", AfterStops) \/ EndAnswered("close", "finish")
  <2>1. PICK at \in {"stopAgain", "close"}, next \in {"close", "finish"} :
          EndAnswered(at, next) /\ (next = "finish" => at = "close" \/ ~ending.closeLive)
    BY <1>6 DEF AfterStops
  <2>2. /\ ending' \in Ends /\ ending.at = at /\ ending'.at = next
        /\ ending'.request \in {"none", "sent"}
        /\ ending'.failed = (ending.failed \/ ending.request # "answered")
        /\ ending'.closeLive = ending.closeLive /\ ending'.simulation = ending.simulation
        /\ shown' \in ServerStates /\ observed' \in BOOLEAN
    BY <2>1, AnsweredFacts
  <2>3. Ended'
    BY <1>1, <1>2, <1>3, <2>1, <2>2 DEF IInv, Ended
  <2> QED
    BY <1>4, <2>1, <2>2, <2>3 DEF IInv
<1>7. CASE /\ ending.at = "settle" /\ AllSettled
           /\ LET next == IF ending.simulation THEN "stopAgain" ELSE AfterStops IN
              ending' = [ending EXCEPT !.at = next,
                                       !.request = IF next = "finish" THEN "none" ELSE "sent"]
           /\ UNCHANGED <<shown, observed>>
  <2>1. /\ ending' \in Ends /\ ending'.request \in {"none", "sent"}
        /\ ending'.at = IF ending.simulation THEN "stopAgain" ELSE AfterStops
        /\ ending'.at \in {"stopAgain", "close", "finish"}
        /\ ending'.failed = ending.failed
        /\ ending'.closeLive = ending.closeLive /\ ending'.simulation = ending.simulation
    BY <1>7, SettleFacts
  <2>2. ending'.at = "finish" => ~ending.closeLive /\ ~ending.simulation
    BY <2>1 DEF AfterStops
  <2>3. Ended'
    BY <1>1, <1>2, <1>3, <1>7, <2>1, <2>2 DEF IInv, Ended
  <2>4. shown' \in ServerStates /\ observed' \in BOOLEAN
    BY <1>1, <1>7 DEF TypeOK
  <2> QED
    BY <1>4, <2>1, <2>3, <2>4 DEF IInv
<1> QED
  BY <1>5, <1>6, <1>7 DEF EndWork

LEMMA GraceExpiresKept == ASSUME IInv, GraceExpires PROVE IInv'
<1>1. /\ TypeOK /\ ending.at # "none" /\ DisposeMedia
      /\ UNCHANGED <<server, pageVars, shown, attempts, simulation, lastEnd, bounds>>
      /\ ending' = [ending EXCEPT !.grace = FALSE, !.failed = TRUE]
  BY DEF GraceExpires, IInv
<1>2. /\ ending' \in Ends /\ ending'.at = ending.at /\ ending'.request = ending.request
      /\ ending'.failed /\ ending'.closeLive = ending.closeLive
      /\ ending'.simulation = ending.simulation
  BY <1>1 DEF TypeOK, Ends
<1>3. /\ streams' = {} /\ resources' \in Media /\ ~resources'.established /\ ~resources'.sending
  BY <1>1, DisposeTypes DEF IInv, Captured
<1>4. AllSettled' = AllSettled /\ NoCallPending' = NoCallPending
  BY <1>1 DEF AllSettled, NoCallPending
<1>5. \A i \in Attempts : GoesOn(i)' <=> GoesOn(i)
  BY <1>1 DEF GoesOn, Current, pageVars
<1>6. TypeOK'
  BY <1>1, <1>2, <1>3 DEF TypeOK, pageVars, bounds
<1>7. Fenced'
  BY <1>1, <1>2, <1>5 DEF IInv, Fenced, pageVars
<1>8. Captured'
  BY <1>3 DEF Captured
<1>9. Ended'
  BY <1>1, <1>2, <1>4, <1>5 DEF IInv, Ended, pageVars
<1> QED
  BY <1>6, <1>7, <1>8, <1>9 DEF IInv

\* An end that saw no failure leaves the server stopped and nothing on its way.
LEMMA FinishKept == ASSUME IInv, Finish PROVE IInv'
<1>1. /\ TypeOK /\ ending.at = "finish" /\ DisposeMedia /\ ending' = NoEnd
      /\ UNCHANGED <<server, mounted, generation, observed, shown, attempts, bounds>>
      /\ liveAttempt' = (ending.failed /\ ending.closeLive) /\ locked' = FALSE
      /\ phase' \in {phase, "error", "idle"}
      /\ simulation' = [simulation EXCEPT !.request = "none"]
      /\ lastEnd' = IF ending.failed THEN "failed" ELSE "clean"
  BY DEF Finish, IInv
<1>2. /\ simulation' \in Simulations /\ simulation'.token = simulation.token
      /\ simulation'.request = "none"
  BY <1>1 DEF TypeOK, Simulations, Requests
<1>3. ending' \in Ends /\ ending'.at = "none" /\ liveAttempt' \in BOOLEAN
  BY <1>1 DEF NoEnd, Ends, Requests, TypeOK
<1>4. streams' = {} /\ resources' \in Media /\ ~resources'.established /\ ~resources'.sending
  BY <1>1, DisposeTypes DEF IInv, Captured
<1>5. AllSettled /\ AllSettled' /\ NoCallPending'
  BY <1>1, <1>2 DEF IInv, Ended, AllSettled, NoCallPending, Pending
<1>6. \A i \in Attempts : ~GoesOn(i) /\ ~GoesOn(i)'
  BY <1>1 DEF IInv, Fenced, GoesOn, Current
<1>7. TypeOK'
  BY <1>1, <1>2, <1>3, <1>4 DEF TypeOK, bounds
<1>8. Fenced'
  BY <1>1, <1>2, <1>3, <1>6 DEF IInv, Fenced
<1>9. Captured'
  BY <1>4 DEF Captured
<1>10. Ended'
  BY <1>1, <1>3, <1>5, <1>6 DEF IInv, Ended
<1> QED
  BY <1>7, <1>8, <1>9, <1>10 DEF IInv
-----------------------------------------------------------------------------
(* Starting, and what comes from the feed *)

LEMMA StartSimulationKept == ASSUME IInv, StartSimulation PROVE IInv'
<1>1. /\ TypeOK /\ ending.at = "none" /\ ~liveAttempt /\ locked' = TRUE
      /\ generation' = generation + 1 /\ lastEnd' = "none"
      /\ simulation' = [token |-> generation', request |-> "sent"]
      /\ UNCHANGED <<server, mounted, phase, liveAttempt, observed, shown, attempts, ending,
                     mediaVars, bounds>>
  BY DEF StartSimulation, CanStart, IInv, Fenced
<1>2. simulation' \in Simulations /\ simulation'.token = generation + 1
  BY <1>1 DEF TypeOK, Simulations, Requests
<1>3. TypeOK'
  BY <1>1, <1>2 DEF TypeOK, mediaVars, bounds
<1>4. \A i \in Attempts : ~Current(i)' /\ ~GoesOn(i)' /\ attempts'[i].token <= generation'
  BY <1>1 DEF IInv, TypeOK, Calls, Fenced, Current, GoesOn
<1>5. Fenced'
  BY <1>1, <1>2, <1>4 DEF IInv, TypeOK, Fenced
<1>6. Captured'
  <2>1. streams = {} /\ ~resources.established /\ ~resources.sending
    BY <1>1 DEF IInv, Fenced, Captured, GoesOn
  <2> QED
    BY <1>1, <2>1 DEF Captured, mediaVars
<1>7. NoCallPending'
  BY <1>1 DEF IInv, Ended, NoCallPending
<1>8. Ended'
  BY <1>1, <1>7 DEF IInv, Ended
<1> QED
  BY <1>3, <1>5, <1>6, <1>8 DEF IInv

\* The answer to a simulation that no end overtook: no call is current meanwhile.
LEMMA SimulationSettlesKept == ASSUME IInv, SimulationSettles PROVE IInv'
<1>1. /\ TypeOK /\ simulation.token = generation /\ locked' = FALSE
      /\ simulation' = [simulation EXCEPT !.request = "none"]
      /\ shown' \in {server, shown} /\ phase' \in {phase, "idle"}
      /\ UNCHANGED <<server, mounted, generation, liveAttempt, observed, attempts, ending,
                     mediaVars, lastEnd, bounds>>
  BY DEF SimulationSettles, IInv
<1>2. simulation' \in Simulations /\ simulation'.token = generation /\ simulation'.request = "none"
  BY <1>1 DEF TypeOK, Simulations, Requests
<1>3. ending.at = "none" /\ \A i \in Attempts : ~GoesOn(i)
  BY <1>1 DEF IInv, Fenced
<1>4. \A i \in Attempts : GoesOn(i)' <=> GoesOn(i)
  BY <1>1 DEF GoesOn, Current
<1>5. ~resources.established /\ ~resources.sending
  BY <1>3 DEF IInv, Captured, GoesOn
<1>6. TypeOK'
  BY <1>1, <1>2 DEF TypeOK, mediaVars, bounds
<1>7. Fenced'
  BY <1>1, <1>2, <1>3, <1>4 DEF IInv, Fenced
<1>8. Captured'
  BY <1>1, <1>5 DEF IInv, Captured, mediaVars, Current
<1>9. Ended'
  BY <1>1, <1>2, <1>4, EndedStays DEF Pending
<1> QED
  BY <1>6, <1>7, <1>8, <1>9 DEF IInv

LEMMA ConnectLiveKept == ASSUME IInv, NEW i \in Attempts, ConnectLive(i) PROVE IInv'
<1>1. /\ TypeOK /\ ending.at = "none" /\ ~liveAttempt /\ liveAttempt' = TRUE /\ mounted
      /\ locked' = TRUE /\ observed' = FALSE /\ lastEnd' = "none" /\ phase' = "microphone"
      /\ generation' = generation + 1
      /\ attempts' = [attempts EXCEPT ![i] = [NoCall EXCEPT !.at = "microphone",
                                                            !.token = generation']]
      /\ resources' = [NoMedia EXCEPT !.owner = i]
      /\ UNCHANGED <<server, mounted, shown, simulation, ending, streams, bounds>>
  BY DEF ConnectLive, CanStart, IInv, Fenced
<1> DEFINE c == [NoCall EXCEPT !.at = "microphone", !.token = generation']
<1>2. c \in Calls /\ c.at = "microphone" /\ c.token = generation + 1 /\ c.request = "none"
  <2>1. generation' \in Nat /\ generation' = generation + 1
    BY <1>1 DEF TypeOK
  <2>2. NoCall \in Calls /\ NoCall.request = "none"
    BY DEF NoCall, Calls, CallStages, Requests
  <2> QED
    BY <2>1, <2>2 DEF Calls, CallStages
<1>3. /\ resources' \in Media /\ resources'.owner = i /\ ~resources'.established
      /\ ~resources'.sending
  BY <1>1 DEF NoMedia, Media
<1> HIDE DEF c
<1>4. /\ attempts' \in [Attempts -> Calls] /\ attempts'[i] = c
      /\ \A j \in Attempts \ {i} : attempts'[j] = attempts[j]
  BY <1>1, <1>2 DEF TypeOK, c
<1>5. streams = {}
  BY <1>1 DEF IInv, Captured
<1>6. TypeOK'
  <2>1. generation' \in Nat
    BY <1>1 DEF TypeOK
  <2>2. /\ locked' \in BOOLEAN /\ liveAttempt' \in BOOLEAN /\ observed' \in BOOLEAN
        /\ mounted' \in BOOLEAN
    BY <1>1 DEF TypeOK
  <2>3. lastEnd' \in {"none", "clean", "failed"} /\ phase' = "microphone"
    BY <1>1
  <2> QED
    BY <1>1, <1>3, <1>4, <2>1, <2>2, <2>3 DEF TypeOK, bounds
<1>7. \A j \in Attempts : attempts'[j].token <= generation' /\ (GoesOn(j)' => j = i)
  BY <1>1, <1>2, <1>4 DEF IInv, TypeOK, Calls, Fenced, GoesOn, Current
<1>8. Fenced'
  BY <1>1, <1>2, <1>3, <1>4, <1>7 DEF IInv, TypeOK, Simulations, Fenced
<1>9. Captured'
  BY <1>1, <1>3, <1>5 DEF Captured
<1>10. Ended'
  BY <1>1 DEF IInv, Ended
<1> QED
  BY <1>6, <1>8, <1>9, <1>10 DEF IInv

\* A new state or a change of the connection, reported to the media.
LEMMA ReportedKept ==
    ASSUME IInv, NEW media \in Media, NEW state \in ServerStates,
           media.owner = resources.owner, media.established = resources.established,
           media.sending = resources.sending,
           resources' = ReportReady(media, state), shown' = state,
           observed' \in BOOLEAN, happened' \in Nat, phase' \in {phase, "connected", "connecting"},
           UNCHANGED <<server, mounted, generation, locked, liveAttempt, attempts, simulation,
                       ending, streams, lastEnd, lost>>
    PROVE  IInv'
<1>1. /\ TypeOK /\ resources' \in Media /\ resources'.owner = resources.owner
      /\ resources'.established = resources.established /\ resources'.up = media.up
      /\ resources'.sending =
           IF media.established /\ ending.at = "none" THEN media.up /\ LiveReady(state)
           ELSE media.sending
  BY MediaTypes DEF IInv
<1>2. \A i \in Attempts : (Current(i)' <=> Current(i)) /\ (GoesOn(i)' <=> GoesOn(i))
  BY DEF GoesOn, Current
<1>3. TypeOK'
  BY <1>1 DEF TypeOK
<1>4. Fenced'
  BY <1>1, <1>2 DEF IInv, Fenced
<1>5. Captured'
  BY <1>1, <1>2 DEF IInv, Captured, TypeOK
<1>6. Ended'
  BY <1>2, EndedStays
<1> QED
  BY <1>3, <1>4, <1>5, <1>6 DEF IInv

LEMMA FeedKept == ASSUME IInv, Feed PROVE IInv'
<1>1. /\ resources \in Media /\ server \in ServerStates
      /\ Observed(server) \in BOOLEAN /\ happened \in Nat
  BY DEF IInv, TypeOK, Observed, LiveReady
<1> QED
  BY <1>1, ReportedKept DEF Feed, bounds

LEMMA PeerChangesKept == ASSUME IInv, PeerChanges PROVE IInv'
<1> DEFINE media == [resources EXCEPT !.up = ~@]
<1>1. /\ media \in Media /\ media.owner = resources.owner
      /\ media.established = resources.established /\ media.sending = resources.sending
  BY DEF IInv, TypeOK, Media
<1>2. resources' = ReportReady(media, shown) /\ phase' \in {phase, "connected", "connecting"}
  BY DEF PeerChanges
<1> HIDE DEF media
<1>3. shown \in ServerStates /\ observed \in BOOLEAN /\ happened' \in Nat
  BY DEF IInv, TypeOK, PeerChanges
<1> QED
  BY <1>1, <1>2, <1>3, ReportedKept DEF PeerChanges
-----------------------------------------------------------------------------
(* The theorems *)

LEMMA InitHolds == Init => IInv
<1> SUFFICES ASSUME Init PROVE IInv
  OBVIOUS
<1>1. /\ generation = 0 /\ liveAttempt = FALSE /\ streams = {} /\ lastEnd = "none"
      /\ ending.at = "none" /\ simulation.token = 0 /\ ~resources.established
      /\ ~resources.sending
      /\ \A i \in Attempts :
           attempts[i].at = "none" /\ attempts[i].token = 0 /\ attempts[i].request = "none"
  BY DEF Init, NoEnd, NoMedia, NoCall
<1>2. Fenced /\ Captured
  BY <1>1 DEF Fenced, Captured, GoesOn
<1>3. Ended
  BY <1>1 DEF Ended, NoCallPending, Pending
<1> QED
  BY <1>2, <1>3, InitTypes DEF IInv

LEMMA StepKept == IInv /\ [Next]_vars => IInv'
<1> SUFFICES ASSUME IInv, [Next]_vars PROVE IInv'
  OBVIOUS
<1>1. CASE \E i \in Attempts :
             \/ ConnectLive(i) \/ MicrophoneGranted(i) \/ Prepared(i) \/ Exchanged(i)
             \/ PeerConnected(i) \/ Attached(i) \/ Overtaken(i) \/ ServeAttempt(i)
  BY <1>1, ConnectLiveKept, ProceedsKept, OvertakenKept, AttachedKept, ServeAttemptKept
     DEF Proceeds
<1>2. CASE Stop \/ AutoEnd \/ Unmount \/ \E i \in Attempts : Fail(i)
  BY <1>2, EndBeginsKept, UnmountKept DEF EndBegins
<1>3. CASE EndWork \/ GraceExpires \/ Finish
  BY <1>3, EndWorkKept, GraceExpiresKept, FinishKept
<1>4. CASE StartSimulation \/ SimulationSettles \/ PeerChanges \/ Feed
  BY <1>4, StartSimulationKept, SimulationSettlesKept, PeerChangesKept, FeedKept
<1>5. CASE ServeSimulation \/ ServeEnd \/ ServerGoesOn \/ ServerCloses \/ Release \/ Lose
  BY <1>5, ServeSimulationKept, ServeEndKept, ServerAloneKept, LoseKept
<1>6. CASE UNCHANGED vars
  BY <1>6 DEF vars, pageVars, mediaVars, bounds, IInv, TypeOK, Fenced, Captured, Ended, GoesOn,
              Current, NoCallPending, AllSettled
<1> QED
  BY <1>1, <1>2, <1>3, <1>4, <1>5, <1>6 DEF Next

LEMMA Invariance == Spec => []IInv
  BY InitHolds, StepKept, PTL DEF Spec

\* An end reported as clean is one: until the page starts something again, nothing it
\* ever asked for runs or is on its way to run (useLab.ts end and its second stop).
THEOREM CleanEndCorrect == Spec => []CleanEndIsFinal
<1>1. IInv => CleanEndIsFinal
  BY DEF IInv, Ended, CleanEndIsFinal
<1> QED
  BY <1>1, Invariance, PTL

\* The microphone is sent only by the current, attached call to a session told as
\* connected, and no overtaken call keeps one (useLab.ts connectLive, reportReady,
\* disposeMedia).
THEOREM SilenceCorrect == Spec => []SilentUnlessServing
<1>1. IInv => SilentUnlessServing
  BY DEF IInv, Captured, SilentUnlessServing
<1> QED
  BY <1>1, Invariance, PTL
=============================================================================
