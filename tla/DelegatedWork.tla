---------------------------- MODULE DelegatedWork ----------------------------
(***************************************************************************)
(* What a connected live session does with the work the voice service      *)
(* delegates: onServiceEvent of apps/server/app.ts in phase "connected",    *)
(* with completedTool of protocol.ts, composed with the game engine it      *)
(* calls in the same synchronous step.                                     *)
(*                                                                         *)
(* The service is external: it announces delegations, streams responses    *)
(* with tool calls, waits for their outputs and a response.create, and may *)
(* say anything again.  The sideband delivers in order, after any delay;    *)
(* events that came before the run was connected are part of that delay.    *)
(***************************************************************************)
EXTENDS GameEngine

CONSTANTS
    CallLimit,      \* tool calls one run may execute (500)
    ResponseLimit,  \* completed responses one run may remember (1024)
    Repeatable,     \* the kinds of event the service may say again
    MaxResponses,   \* bound: responses the service ever begins
    MaxCalls,       \* bound: tool calls it ever asks for
    MaxExtras,      \* bound: repeated, malformed, unnamed, progress and failure events
    WireLimit       \* bound: events in flight

EventClasses == {"created", "call", "completed", "unnamed", "progress", "failed"}
Unparsable == [type |-> "unparsable"]   \* arguments that parse to no command
Requests == Commands \cup {Unparsable}
InvalidOffset == -2                     \* an offset_ms that is not a valid one
NoOrigin == -1

ASSUME LimitsAssumption == CallLimit \in Nat /\ ResponseLimit \in Nat
ASSUME RepeatableAssumption == Repeatable \subseteq EventClasses
\* The bounds end the requests before they stop the clock.
ASSUME HorizonAssumption == CommandsUntil <= MaxNow

VARIABLES
    phase,              \* "failing": the handler's last act is closeRun, see Close
    backendPending,     \* delegations the backend is believed to work on
    completedResponses, \* response ids, to recognise a repeated completion
    executed,           \* current.calls: the tool calls already answered
    continuations,      \* delegations with outputs not yet continued
    requestAt,          \* serviceOriginOffsetMs: when the creation request began
    origin,             \* external: when the service's session clock began
    created,            \* external: delegations, their true creation and offset
    responses,          \* external: every response the service began, in order
    wire,               \* external: events in flight to the server
    extras,             \* external: how many of those there were
    heard,              \* history: the responses whose completion was acted on
    outputs,            \* function_call_output items sent, per tool call
    creates             \* response.create events sent and not taken up yet

sessionVars == <<phase, backendPending, completedResponses, executed, continuations>>
serviceVars == <<requestAt, origin, created, responses, extras>>
workVars == <<vars, sessionVars, serviceVars, wire, outputs, creates, heard>>

Keys == Delegations \X CallIds

WorkTypeOK ==
    /\ TypeOK
    /\ phase \in {"connected", "failing", "closed"}
    /\ backendPending \subseteq Delegations
    /\ completedResponses \subseteq 1..MaxResponses
    /\ Cardinality(completedResponses) <= ResponseLimit
    /\ executed \subseteq Keys /\ Cardinality(executed) <= CallLimit
    /\ continuations \subseteq Delegations
    /\ requestAt \in Nat /\ origin \in Nat \cup {NoOrigin}
    /\ created \in [DOMAIN created -> [at: Nat, offset: Nat \cup {NoOffset, InvalidOffset}]]
    /\ DOMAIN created \subseteq Delegations
    /\ \A r \in DOMAIN responses :
         /\ responses[r].delegation \in DOMAIN created
         /\ responses[r].calls \in [DOMAIN responses[r].calls -> Requests]
         /\ responses[r].named \in BOOLEAN
    /\ extras \in 0..MaxExtras
    /\ outputs \in [Keys -> Nat] /\ creates \in Nat
    /\ heard \subseteq 1..MaxResponses

WorkInit ==
    /\ Init
    /\ phase = "connected"
    /\ backendPending = {} /\ completedResponses = {}
    /\ executed = {} /\ continuations = {}
    /\ requestAt = 0 /\ origin = NoOrigin
    /\ created = [d \in {} |-> 0] /\ responses = <<>>
    /\ wire = <<>> /\ extras = 0
    /\ outputs = [k \in Keys |-> 0] /\ creates = 0
    /\ heard = {}
-----------------------------------------------------------------------------
(* The service *)

Created(d) == [kind |-> "created", delegation |-> d, offset |-> created[d].offset]
Call(d, c, request) == [kind |-> "call", delegation |-> d, call |-> c, request |-> request]
\* A completion may come without a response id.  Its `response` is then the model's
\* own mark, which no handler reads.
Completed(r) == [kind |-> IF responses[r].named THEN "completed" ELSE "unnamed",
                 delegation |-> responses[r].delegation, response |-> r]
Progress(d) == [kind |-> "progress", delegation |-> d]
Failed(d) == [kind |-> "failed", delegation |-> d]

ResponsesOf(d) == {r \in DOMAIN responses : responses[r].delegation = d}
IsLatest(r) == \A q \in ResponsesOf(responses[r].delegation) : q <= r
Responding(r) == IsLatest(r) /\ ~responses[r].complete
Waiting(r) == IsLatest(r) /\ responses[r].complete /\ DOMAIN responses[r].calls # {}

MayBegin == Len(responses) < MaxResponses
Asked == {k \in (DOMAIN responses) \X CallIds : k[2] \in DOMAIN responses[k[1]].calls}

Begun(d) == [delegation |-> d, calls |-> [c \in {} |-> Unparsable], complete |-> FALSE,
             named |-> TRUE]
Says(message) == Len(wire) < WireLimit /\ wire' = Append(wire, message)

Extra == extras < MaxExtras /\ extras' = extras + 1

ServiceStep == phase = "connected" /\ UNCHANGED <<vars, sessionVars, outputs, heard>>

\* The session exists from some instant between the request and its answer on.
SessionOpens ==
    /\ ServiceStep
    /\ origin = NoOrigin
    /\ origin' = now
    /\ requestAt' \in 0..now
    /\ UNCHANGED <<created, responses, wire, extras, creates>>

\* An attested offset counts from the service's own origin.
Delegates(d) ==
    /\ ServiceStep
    /\ origin # NoOrigin
    /\ d \notin DOMAIN created
    /\ MayBegin
    /\ \E offset \in {now - origin, NoOffset, InvalidOffset} :
         /\ created' = With(created, d, [at |-> now, offset |-> offset])
         /\ Says([kind |-> "created", delegation |-> d, offset |-> offset])
         /\ IF offset = InvalidOffset THEN Extra ELSE UNCHANGED extras
    /\ responses' = Append(responses, Begun(d))
    /\ UNCHANGED <<requestAt, origin, creates>>

AsksTool(r, c, request) ==
    /\ ServiceStep
    /\ Responding(r)
    /\ Cardinality(Asked) < MaxCalls
    /\ \A q \in ResponsesOf(responses[r].delegation) : c \notin DOMAIN responses[q].calls
    /\ responses' = [responses EXCEPT ![r].calls = With(@, c, request)]
    /\ Says(Call(responses[r].delegation, c, request))
    /\ IF request = Unparsable THEN Extra ELSE UNCHANGED extras
    /\ UNCHANGED <<requestAt, origin, created, creates>>

Completes(r) ==
    /\ ServiceStep
    /\ Responding(r)
    /\ \E named \in BOOLEAN :
         /\ responses' = [responses EXCEPT ![r].complete = TRUE, ![r].named = named]
         /\ IF named THEN UNCHANGED extras ELSE Extra
    /\ Says(Completed(r)')
    /\ UNCHANGED <<requestAt, origin, created, creates>>

\* It waits for every output and for a response.create, which names no delegation.
Continues(r) ==
    /\ ServiceStep
    /\ MayBegin
    /\ Waiting(r) /\ creates > 0
    /\ \A c \in DOMAIN responses[r].calls : outputs[<<responses[r].delegation, c>>] > 0
    /\ creates' = creates - 1
    /\ responses' = Append(responses, Begun(responses[r].delegation))
    /\ UNCHANGED <<requestAt, origin, created, extras, wire>>

Streams(r) ==
    /\ ServiceStep
    /\ Responding(r)
    /\ Extra
    /\ Says(Progress(responses[r].delegation)) \/ Says(Failed(responses[r].delegation))
    /\ UNCHANGED <<requestAt, origin, created, responses, creates>>

Said ==
    {Created(d) : d \in DOMAIN created}
      \cup (UNION {{Call(responses[r].delegation, c, responses[r].calls[c]) :
                      c \in DOMAIN responses[r].calls} : r \in DOMAIN responses})
      \cup {Completed(r) : r \in {q \in DOMAIN responses : responses[q].complete}}
      \cup {Progress(d) : d \in DOMAIN created}

SaysAgain ==
    /\ ServiceStep
    /\ Extra
    /\ \E message \in Said : message.kind \in Repeatable /\ Says(message)
    /\ UNCHANGED <<requestAt, origin, created, responses, creates>>
-----------------------------------------------------------------------------
(* onServiceEvent *)

Arrives(kind, m) ==
    /\ phase = "connected"
    /\ wire # <<>> /\ m = Head(wire) /\ m.kind = kind
    /\ wire' = Tail(wire)
    /\ UNCHANGED serviceVars

\* Mutated form: an announcement is taken to have happened when it arrives.
MappedToReceipt(offset) == IF offset = NoOffset THEN NoOffset ELSE now

\* The request start is a lower bound of the service's origin.
Mapped(offset) == IF offset = NoOffset THEN NoOffset ELSE requestAt + offset

\* An offset that is not valid, or missing once a cancellation was accepted.
Unattested(offset) == offset = InvalidOffset \/ (offset = NoOffset /\ epoch > 0)

AnnouncementArrives ==
    \E m \in {Head(wire)} :
        /\ Arrives("created", m)
        /\ backendPending' = backendPending \cup {m.delegation}
        /\ IF Unattested(m.offset) THEN UNCHANGED vars
           ELSE \/ RegisterDelegation(m.delegation, Mapped(m.offset))
                \/ RepeatRegistration(m.delegation, Mapped(m.offset))
                \/ RefuseDelegation(m.delegation, Mapped(m.offset))
        /\ UNCHANGED <<phase, completedResponses, executed, continuations, outputs, creates,
                       heard>>

\* engine.dispatch, whichever way it answers.
Dispatched(d, c, command) ==
    IF c \notin DOMAIN calls
    THEN \/ DispatchRefused(c, d, command)
         \/ DispatchMove(c, d, command)
         \/ DispatchReplace(c, d, command)
         \/ command = Cancel /\ DispatchCancel(c, d)
    ELSE IF calls[c].delegation = d /\ calls[c].command = command THEN ReplayReceipt(c)
    ELSE DispatchInvalid /\ events'[Len(events')].info = "collision"

\* Mutated form: every delivery of a call is answered.
NeverExecuted(d, c) == FALSE

AlreadyExecuted(d, c) == <<d, c>> \in executed

CallsAtLimit == Cardinality(executed) >= CallLimit

CallArrives ==
    \E m \in {Head(wire)} :
        /\ Arrives("call", m)
        /\ backendPending' = backendPending \cup {m.delegation}
        /\ IF AlreadyExecuted(m.delegation, m.call)
           THEN UNCHANGED <<vars, phase, executed, continuations, outputs>>
           ELSE IF CallsAtLimit
           THEN phase' = "failing" /\ UNCHANGED <<vars, executed, continuations, outputs>>
           ELSE /\ executed' = executed \cup {<<m.delegation, m.call>>}
                /\ IF m.request = Unparsable THEN UNCHANGED vars
                   ELSE Dispatched(m.delegation, m.call, m.request)
                /\ \/ /\ outputs' = [outputs EXCEPT ![<<m.delegation, m.call>>] = @ + 1]
                      /\ continuations' = continuations \cup {m.delegation}
                      /\ UNCHANGED phase
                   \/ phase' = "failing" /\ UNCHANGED <<outputs, continuations>>
        /\ UNCHANGED <<completedResponses, creates, heard>>

\* Mutated form: a repeated completion is taken for a new one.
NeverCompleted(r) == FALSE

AlreadyCompleted(r) == r \in completedResponses

\* Mutated form: a completed response is the end of its delegation's work.
PendingWithoutCompleted(d) == backendPending \ {d}

\* A delegation that is about to be continued stays pending.
PendingAfterCompletion(d) ==
    IF d \in continuations THEN backendPending ELSE backendPending \ {d}

\* A response.create for the outputs of delegation d, or the end of its work.
EndOfResponse(d) ==
    /\ backendPending' = PendingAfterCompletion(d)
    /\ continuations' = continuations \ {d}
    /\ IF d \notin continuations THEN UNCHANGED <<phase, creates>>
       ELSE \/ creates' = creates + 1 /\ UNCHANGED phase
            \/ phase' = "failing" /\ UNCHANGED creates
    /\ UNCHANGED <<vars, executed, outputs>>

CompletionArrives ==
    \E m \in {Head(wire)} :
        /\ Arrives("completed", m)
        /\ IF AlreadyCompleted(m.response)
           THEN UNCHANGED <<vars, sessionVars, outputs, creates, heard>>
           ELSE IF Cardinality(completedResponses) >= ResponseLimit
           THEN phase' = "failing" /\ UNCHANGED <<vars, backendPending, executed, outputs, creates,
                                                  completedResponses, continuations, heard>>
           ELSE /\ completedResponses' = completedResponses \cup {m.response}
                /\ heard' = heard \cup {m.response}
                /\ EndOfResponse(m.delegation)

\* Without a valid response id, nothing tells a repeated completion from a new one,
\* and nothing is remembered or counted.
UnnamedCompletionArrives ==
    \E m \in {Head(wire)} :
        /\ Arrives("unnamed", m)
        /\ heard' = heard \cup {m.response}
        /\ EndOfResponse(m.delegation)
        /\ UNCHANGED completedResponses

ProgressArrives ==
    \E m \in {Head(wire)} :
        /\ Arrives("progress", m)
        /\ backendPending' = backendPending \cup {m.delegation}
        /\ UNCHANGED <<vars, phase, completedResponses, executed, continuations,
                       outputs, creates, heard>>

\* response.failed, response.incomplete and a nested error end the run.
FailureArrives ==
    \E m \in {Head(wire)} :
        /\ Arrives("failed", m)
        /\ backendPending' = backendPending \cup {m.delegation}
        /\ phase' = "failing"
        /\ UNCHANGED <<vars, completedResponses, executed, continuations, outputs, creates,
                       heard>>

\* closeRun, by whoever calls it: a send that threw, a limit, a stop, a lost socket.
\* It stops the engine in its caller's own step, so nothing else happens while the
\* phase is "failing".  What no step reads again is reset.
Close ==
    /\ phase \in {"connected", "failing"}
    /\ Stop
    /\ phase' = "closed"
    /\ backendPending' = {} /\ completedResponses' = {}
    /\ executed' = {} /\ continuations' = {}
    /\ created' = [d \in {} |-> 0] /\ responses' = <<>>
    /\ wire' = <<>> /\ outputs' = [k \in Keys |-> 0] /\ creates' = 0
    /\ heard' = {}
    /\ UNCHANGED <<requestAt, origin, extras>>

\* `run !== current`: an event of a run that has closed changes nothing.
LateEvent == phase = "closed" /\ UNCHANGED workVars

\* The host's interval timer and its clock.
HostStep ==
    /\ phase = "connected"
    /\ Tick \/ AdvanceClock
    /\ UNCHANGED <<sessionVars, serviceVars, wire, outputs, creates, heard>>
-----------------------------------------------------------------------------
Delivery ==
    /\ wire # <<>>
    /\ \/ AnnouncementArrives \/ CallArrives
       \/ CompletionArrives \/ UnnamedCompletionArrives
       \/ ProgressArrives \/ FailureArrives

WorkNext ==
    \/ SessionOpens
    \/ \E d \in Delegations : Delegates(d)
    \/ \E r \in DOMAIN responses :
         \/ \E c \in CallIds, request \in Requests : AsksTool(r, c, request)
         \/ Completes(r)
         \/ Continues(r)
         \/ Streams(r)
    \/ SaysAgain
    \/ Delivery
    \/ Close
    \/ LateEvent
    \/ HostStep

WorkSpec == WorkInit /\ [][WorkNext]_workVars
-----------------------------------------------------------------------------
(* Properties *)

\* Whatever the network delays, no move is pending whose delegation the service
\* created at or before the last accepted cancellation.  (The work of a replacement
\* is the cancellation's own.)  `created[d].at` is the truth the server cannot see.
NoStaleWork ==
    \A i \in PendingIn(operations) :
        calls[operations[i].call].command.type = "move"
          => created[operations[i].delegation].at > barrier

\* Every tool call that came through is answered exactly once, however often it was
\* said, and before the response it belongs to is continued.
AnsweredOnce ==
    phase = "connected" =>
        /\ \A k \in Keys : outputs[k] = IF k \in executed THEN 1 ELSE 0
        /\ \A r \in heard : \A c \in DOMAIN responses[r].calls :
             outputs[<<responses[r].delegation, c>>] = 1

\* One response.create per completed response that asked for tools: those sent are
\* the ones the service took up and the ones it has still to take up.  A completion
\* without a response id counts like any other as long as it is not repeated.
ContinuedOnce ==
    phase = "connected" =>
        creates + (Len(responses) - Cardinality(DOMAIN created))
          = Cardinality({r \in heard : DOMAIN responses[r].calls # {}})

\* The idle clock never runs out on work in progress: from the moment its
\* announcement arrived until its last response completed, a delegation is pending,
\* repeated completions and the gap before a continuation included.  It does run out
\* when a completion without a response id is repeated (Repeatable has "unnamed"):
\* nothing recognises it, and its second delivery clears a running continuation.
BusyWhileWorking ==
    phase = "connected" =>
        \A r \in DOMAIN responses :
            LET d == responses[r].delegation IN
            (Responding(r) \/ Waiting(r)) /\ Created(d) \notin {wire[i] : i \in DOMAIN wire}
              => d \in backendPending

\* Nothing is pending once the service has finished and everything it said arrived:
\* the session can go idle.
QuietWhenDone ==
    phase = "connected" /\ wire = <<>>
      /\ (\A r \in DOMAIN responses : ~Responding(r) /\ ~Waiting(r))
      => backendPending = {}
=============================================================================
