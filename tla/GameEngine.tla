----------------------------- MODULE GameEngine -----------------------------
(***************************************************************************)
(* The deterministic cargo engine of packages/game-engine/index.ts.  It    *)
(* owns no timer: a host registers delegations, dispatches calls, ticks it  *)
(* and stops it, and every operation reads one host clock.  Calls on one   *)
(* engine are synchronous, so each is one atomic action here.              *)
(*                                                                         *)
(* Data left out: the text of reasons (kept as the class that             *)
(* deriveActionMetrics tells apart), event sequence numbers (the position  *)
(* in `events`), and operation ids (the position in `operations`).         *)
(***************************************************************************)
EXTENDS Integers, Sequences, FiniteSets

CONSTANTS
    Delegations,    \* delegation ids the host may register
    CallIds,        \* call ids the host may dispatch
    Commands,       \* the parsed game commands it may carry
    Modes,          \* the experiment modes a run may be created in
    Right,          \* the right end of the track (6 in the source); left is 0
    StepInterval,   \* pacing between steps; 0 stands for an omitted stepIntervalMs
    MaxNow,         \* bound: after this the clock moves only while work is paced
    CommandsUntil,  \* bound: the host sends no request after this instant
    MaxRejections   \* bound: rejections the log may hold

Cargo == {"red", "blue"}
Destinations == {"left", "right"}
Cancel == [type |-> "cancel"]
GameCommand ==
    [type: {"move", "replace"}, cargo: Cargo, destination: Destinations] \cup {Cancel}

ASSUME RightAssumption == Right \in Nat \ {0}
ASSUME ModesAssumption == Modes \subseteq {"voice-only", "cancel-actions"}
ASSUME CommandsAssumption == Commands \subseteq GameCommand
ASSUME ClockAssumption == StepInterval \in Nat /\ MaxNow \in Nat
ASSUME BoundsAssumption == CommandsUntil \in Nat /\ MaxRejections \in Nat

VARIABLES
    mode,         \* the experiment mode, fixed when the run is created
    now,          \* the host clock, in run-relative time
    cargo,        \* the position of each piece of cargo
    operations,   \* every admitted operation, in admission order
    delegations,  \* Map: delegation id -> its epoch and creation offset
    calls,        \* Map: call id -> the request and the receipt it was given
    epoch,        \* bumped by every accepted cancellation and by stop
    stopped,      \* terminal
    barrier,      \* instant of the last accepted cancellation
    lastStepAt,   \* instant of the last committed step
    events        \* the audit log

vars == <<mode, now, cargo, operations, delegations, calls, epoch, stopped,
          barrier, lastStepAt, events>>

NoOffset == -1      \* an omitted creation offset
NoBarrier == -1     \* cancellationBarrierMs = null
NotEnded == -1      \* endedAtMs = null
NoOperation == 0    \* operationId = null

Statuses == {"queued", "running", "completed", "cancelled"}
Operation == [call: CallIds, delegation: Delegations, epoch: Nat, cargo: Cargo,
              destination: Destinations, status: Statuses,
              createdAt: Nat, endedAt: Nat \cup {NotEnded}]
Receipt == [outcome: {"queued", "cancelled", "observed-not-applied", "rejected"},
            operation: Nat]

EventKinds == {"delegation.registered", "delegation.rejected", "command.rejected",
               "operation.queued", "operation.started", "operation.step",
               "operation.completed", "operation.cancelled",
               "cancellation.accepted", "cancellation.observed", "engine.stopped"}
\* `ops` holds the operation an event names.  The consecutive operation.cancelled
\* events of one cancellation or stop are one entry that names them all.
\* `info` is the command that queued or cancelled, or the class of a refusal.
Refusals == {"late", "collision", "unregistered", "terminal", "other"}
Infos == {"move", "replace", "cancel", "engine.stopped", "none"} \cup Refusals
Event == [kind: EventKinds, at: Nat, ops: SUBSET Nat, info: Infos]
LogEntry(kind, ops, info) == [kind |-> kind, at |-> now, ops |-> ops, info |-> info]

TypeOK ==
    /\ mode \in Modes
    /\ now \in Nat
    /\ cargo \in [Cargo -> 0..Right]
    /\ operations \in Seq(Operation)
    /\ DOMAIN delegations \subseteq Delegations
    /\ delegations \in
         [DOMAIN delegations -> [epoch: Nat, offset: Nat \cup {NoOffset}]]
    /\ DOMAIN calls \subseteq CallIds
    /\ calls \in [DOMAIN calls -> [delegation: Delegations, command: Commands,
                                   receipt: Receipt]]
    /\ epoch \in Nat
    /\ stopped \in BOOLEAN
    /\ barrier \in Nat \cup {NoBarrier}
    /\ lastStepAt \in Nat
    /\ events \in Seq(Event)

Init ==
    /\ mode \in Modes
    /\ now = 0
    /\ cargo = [c \in Cargo |-> 0]
    /\ operations = <<>>
    /\ delegations = [d \in {} |-> 0]
    /\ calls = [c \in {} |-> 0]
    /\ epoch = 0
    /\ stopped = FALSE
    /\ barrier = NoBarrier
    /\ lastStepAt = 0
    /\ events = <<>>
-----------------------------------------------------------------------------
(* Helpers *)

Larger(a, b) == IF a > b THEN a ELSE b

\* Map.set
With(f, key, value) ==
    [k \in DOMAIN f \cup {key} |-> IF k = key THEN value ELSE f[k]]

Pending(o) == o.status \in {"queued", "running"}
Ended(o, status) == [o EXCEPT !.status = status, !.endedAt = now]
PendingIn(ops) == {i \in DOMAIN ops : Pending(ops[i])}

\* Mutated form: the newest pending operation is served.
IsLastPending(i) ==
    /\ i \in PendingIn(operations)
    /\ \A j \in PendingIn(operations) : j <= i

\* operations.find(isPending)
IsFirstPending(i) ==
    /\ i \in PendingIn(operations)
    /\ \A j \in PendingIn(operations) : i <= j

\* Mutated form: one cell past the right end.
TargetPastTheEnd(o) == IF o.destination = "left" THEN 0 ELSE Right + 1

Target(o) == IF o.destination = "left" THEN 0 ELSE Right

Rejections == {i \in DOMAIN events :
                 events[i].kind \in {"delegation.rejected", "command.rejected"}}
MayReject == Cardinality(Rejections) < MaxRejections
MayRequest == now <= CommandsUntil
-----------------------------------------------------------------------------
(* registerDelegation *)

\* Mutated form: the barrier is not consulted.
RefusalIgnoringBarrier(id, offset) ==
    IF stopped THEN "terminal"
    ELSE IF offset > now THEN "other"
    ELSE IF id \in DOMAIN delegations /\ delegations[id].epoch # epoch THEN "late"
    ELSE IF id \in DOMAIN delegations /\ delegations[id].offset # offset THEN "other"
    ELSE "none"

\* Why a registration is refused, in the order the source tests it.
RegistrationRefusal(id, offset) ==
    IF stopped THEN "terminal"
    ELSE IF offset > now THEN "other"
    ELSE IF offset # NoOffset /\ barrier # NoBarrier /\ offset <= barrier THEN "late"
    ELSE IF id \in DOMAIN delegations /\ delegations[id].epoch # epoch THEN "late"
    ELSE IF id \in DOMAIN delegations /\ delegations[id].offset # offset THEN "other"
    ELSE "none"

RegisterDelegation(id, offset) ==
    /\ MayRequest
    /\ RegistrationRefusal(id, offset) = "none"
    /\ id \notin DOMAIN delegations
    /\ delegations' = With(delegations, id, [epoch |-> epoch, offset |-> offset])
    /\ events' = Append(events, LogEntry("delegation.registered", {}, "none"))
    /\ UNCHANGED <<mode, now, cargo, operations, calls, epoch, stopped, barrier,
                   lastStepAt>>

\* The same registration again, in the same epoch: it returns.
RepeatRegistration(id, offset) ==
    /\ MayRequest
    /\ RegistrationRefusal(id, offset) = "none"
    /\ id \in DOMAIN delegations
    /\ UNCHANGED vars

\* The source records the refusal and throws.
RefuseDelegation(id, offset) ==
    /\ MayRequest /\ MayReject
    /\ RegistrationRefusal(id, offset) # "none"
    /\ events' = Append(events, LogEntry("delegation.rejected", {},
                                         RegistrationRefusal(id, offset)))
    /\ UNCHANGED <<mode, now, cargo, operations, delegations, calls, epoch,
                   stopped, barrier, lastStepAt>>
-----------------------------------------------------------------------------
(* dispatch *)

\* Mutated form: the running operation escapes.
InvalidatedQueued(ops) ==
    [i \in DOMAIN ops |->
        IF ops[i].status = "queued" THEN Ended(ops[i], "cancelled") ELSE ops[i]]

\* #invalidate: every pending operation ends as cancelled, where the cargo is.
Invalidated(ops) ==
    [i \in DOMAIN ops |->
        IF Pending(ops[i]) THEN Ended(ops[i], "cancelled") ELSE ops[i]]

\* Mutated form: only the running operation is reported.
CancelledEntriesOfRunning(reason) ==
    LET ops == {i \in DOMAIN operations : operations[i].status = "running"}
    IN IF ops = {} THEN <<>> ELSE <<LogEntry("operation.cancelled", ops, reason)>>

\* #emitCancelled
CancelledEntries(reason) ==
    IF PendingIn(operations) = {} THEN <<>>
    ELSE <<LogEntry("operation.cancelled", PendingIn(operations), reason)>>

\* #cancel, for a standalone cancel and for the first half of a replace: what it
\* leaves of the operations, the epoch, the barrier and what it logs.
CancelApplies == mode = "cancel-actions"
OperationsAfterCancel == IF CancelApplies THEN Invalidated(operations) ELSE operations
EpochAfterCancel == IF CancelApplies THEN epoch + 1 ELSE epoch
BarrierAfterCancel == IF CancelApplies THEN Larger(barrier, now) ELSE barrier
EntriesOfCancel(type) ==
    IF CancelApplies
    THEN <<LogEntry("cancellation.accepted", {}, type)>> \o CancelledEntries(type)
    ELSE <<LogEntry("cancellation.observed", {}, type)>>

Admitted(call, delegation, command, admissionEpoch) ==
    [call |-> call, delegation |-> delegation, epoch |-> admissionEpoch,
     cargo |-> command.cargo, destination |-> command.destination,
     status |-> "queued", createdAt |-> now, endedAt |-> NotEnded]

\* Mutated form: a delegation keeps its authority across a cancellation.
RefusalIgnoringEpoch(delegation) ==
    IF stopped THEN "terminal"
    ELSE IF delegation \notin DOMAIN delegations THEN "unregistered"
    ELSE "none"

\* Why a call that no receipt answers is refused, in the order the source tests it.
CallRefusal(delegation) ==
    IF stopped THEN "terminal"
    ELSE IF delegation \notin DOMAIN delegations THEN "unregistered"
    ELSE IF delegations[delegation].epoch # epoch THEN "late"
    ELSE "none"

Remember(call, delegation, command, outcome, operation) ==
    calls' = With(calls, call,
                  [delegation |-> delegation, command |-> command,
                   receipt |-> [outcome |-> outcome, operation |-> operation]])

\* A refusal of a well-formed call is a receipt too: a retry will meet it again.
DispatchRefused(call, delegation, command) ==
    /\ MayRequest /\ MayReject
    /\ call \notin DOMAIN calls
    /\ CallRefusal(delegation) # "none"
    /\ Remember(call, delegation, command, "rejected", NoOperation)
    /\ events' = Append(events, LogEntry("command.rejected", {}, CallRefusal(delegation)))
    /\ UNCHANGED <<mode, now, cargo, operations, delegations, epoch, stopped,
                   barrier, lastStepAt>>

DispatchCancel(call, delegation) ==
    /\ MayRequest
    /\ Cancel \in Commands
    /\ call \notin DOMAIN calls
    /\ CallRefusal(delegation) = "none"
    /\ operations' = OperationsAfterCancel
    /\ epoch' = EpochAfterCancel
    /\ barrier' = BarrierAfterCancel
    /\ events' = events \o EntriesOfCancel("cancel")
    /\ Remember(call, delegation, Cancel,
                IF CancelApplies THEN "cancelled" ELSE "observed-not-applied",
                NoOperation)
    /\ UNCHANGED <<mode, now, cargo, delegations, stopped, lastStepAt>>

\* Mutated form: a retry of an admitted call is work again.
DispatchMoveAgain(call, delegation, command) ==
    /\ MayRequest
    /\ command.type = "move"
    /\ Len(operations) < Cardinality(CallIds)
    /\ CallRefusal(delegation) = "none"
    /\ operations' = Append(operations, Admitted(call, delegation, command, epoch))
    /\ events' = Append(events, LogEntry("operation.queued", {Len(operations) + 1}, "move"))
    /\ Remember(call, delegation, command, "queued", Len(operations) + 1)
    /\ UNCHANGED <<mode, now, cargo, delegations, epoch, stopped, barrier, lastStepAt>>

DispatchMove(call, delegation, command) ==
    /\ MayRequest
    /\ command.type = "move"
    /\ call \notin DOMAIN calls
    /\ CallRefusal(delegation) = "none"
    /\ operations' = Append(operations, Admitted(call, delegation, command, epoch))
    /\ events' = Append(events, LogEntry("operation.queued", {Len(operations) + 1}, "move"))
    /\ Remember(call, delegation, command, "queued", Len(operations) + 1)
    /\ UNCHANGED <<mode, now, cargo, delegations, epoch, stopped, barrier, lastStepAt>>

\* A replacement belongs to the epoch its own cancellation opened, although the
\* delegation it came from stays in the epoch before.
DispatchReplace(call, delegation, command) ==
    /\ MayRequest
    /\ command.type = "replace"
    /\ call \notin DOMAIN calls
    /\ CallRefusal(delegation) = "none"
    /\ epoch' = EpochAfterCancel
    /\ barrier' = BarrierAfterCancel
    /\ operations' = Append(OperationsAfterCancel,
                            Admitted(call, delegation, command, EpochAfterCancel))
    /\ events' = (events \o EntriesOfCancel("replace"))
                   \o <<LogEntry("operation.queued", {Len(operations) + 1}, "replace")>>
    /\ Remember(call, delegation, command, "queued", Len(operations) + 1)
    /\ UNCHANGED <<mode, now, cargo, delegations, stopped, lastStepAt>>

\* A known call id with another request, or a request that does not parse: logged,
\* never remembered.
DispatchInvalid ==
    /\ MayRequest /\ MayReject
    /\ \E info \in (IF DOMAIN calls = {} THEN {"other"} ELSE {"collision", "other"}) :
         events' = Append(events, LogEntry("command.rejected", {}, info))
    /\ UNCHANGED <<mode, now, cargo, operations, delegations, calls, epoch,
                   stopped, barrier, lastStepAt>>

\* An exact retry is answered from the receipt, after a stop too: no work, no event.
ReplayReceipt(call) ==
    /\ MayRequest
    /\ call \in DOMAIN calls
    /\ UNCHANGED vars
-----------------------------------------------------------------------------
(* tick and stop *)

\* Mutated form: only the admission is paced from.
PacedFromAdmission(i) == now - operations[i].createdAt >= StepInterval

\* Pace from the admission or the last committed step, whichever is later.
Paced(i) ==
    now - Larger(operations[i].createdAt, lastStepAt) >= StepInterval

\* Mutated form: an operation ends only in the tick that moved its cargo.
ArrivedByStep(from, to, target) == from # target /\ to = target

Arrived(from, to, target) == to = target

\* tick() commits at most one step, of the first pending operation.
Tick ==
    /\ ~stopped
    /\ \E i \in DOMAIN operations :
         /\ IsFirstPending(i)
         /\ LET o       == operations[i]
                from    == cargo[o.cargo]
                target  == Target(o)
                to      == IF from < target THEN from + 1
                           ELSE IF from > target THEN from - 1 ELSE from
                arrived == Arrived(from, to, target)
            IN /\ from # target => Paced(i)
               /\ cargo' = [cargo EXCEPT ![o.cargo] = to]
               /\ lastStepAt' = IF from # target THEN now ELSE lastStepAt
               /\ operations' =
                    [operations EXCEPT
                       ![i] = IF arrived THEN Ended(o, "completed")
                                         ELSE [o EXCEPT !.status = "running"]]
               /\ events' =
                    events
                      \o (IF o.status = "queued"
                          THEN <<LogEntry("operation.started", {i}, "none")>> ELSE <<>>)
                      \o (IF from # target
                          THEN <<LogEntry("operation.step", {i}, "none")>> ELSE <<>>)
                      \o (IF arrived
                          THEN <<LogEntry("operation.completed", {i}, "none")>> ELSE <<>>)
    /\ UNCHANGED <<mode, now, delegations, calls, epoch, stopped, barrier>>

WaitsForPace ==
    \E i \in DOMAIN operations :
        /\ IsFirstPending(i)
        /\ cargo[operations[i].cargo] # Target(operations[i])
        /\ ~Paced(i)

\* tick() that returns early: stopped, nothing pending, or not yet due.
TickReturns ==
    /\ stopped \/ PendingIn(operations) = {} \/ WaitsForPace
    /\ UNCHANGED vars

Stop ==
    /\ ~stopped
    /\ stopped' = TRUE
    /\ epoch' = epoch + 1
    /\ operations' = Invalidated(operations)
    /\ events' = (events \o CancelledEntries("engine.stopped"))
                   \o <<LogEntry("engine.stopped", {}, "none")>>
    /\ UNCHANGED <<mode, now, cargo, delegations, calls, barrier, lastStepAt>>

AdvanceClock ==
    /\ now < MaxNow \/ WaitsForPace
    /\ now' = now + 1
    /\ UNCHANGED <<mode, cargo, operations, delegations, calls, epoch, stopped,
                   barrier, lastStepAt, events>>

Offsets == {NoOffset} \cup 0..MaxNow

Next ==
    \/ \E d \in Delegations, offset \in Offsets :
         \/ RegisterDelegation(d, offset)
         \/ RepeatRegistration(d, offset)
         \/ RefuseDelegation(d, offset)
    \/ \E call \in CallIds, d \in Delegations, command \in Commands :
         \/ DispatchMove(call, d, command)
         \/ DispatchReplace(call, d, command)
         \/ DispatchRefused(call, d, command)
    \/ \E call \in CallIds, d \in Delegations : DispatchCancel(call, d)
    \/ DispatchInvalid
    \/ \E call \in CallIds : ReplayReceipt(call)
    \/ Tick
    \/ TickReturns
    \/ Stop
    \/ AdvanceClock

Spec == Init /\ [][Next]_vars

\* The host ticks every engine on an interval timer and its clock does not stop.
FairSpec == Spec /\ WF_vars(Tick) /\ WF_vars(AdvanceClock)
-----------------------------------------------------------------------------
(* Properties *)

\* Nothing pending outlives the epoch it was admitted in: neither an accepted
\* cancellation nor a stop leaves a queued or running operation behind.
PendingIsCurrent ==
    \A i \in PendingIn(operations) : operations[i].epoch = epoch /\ ~stopped

\* Operations are served one at a time in admission order: once one has started,
\* every earlier one has ended, whatever was cancelled or replaced in between.
FifoService ==
    \A i, j \in DOMAIN operations :
        /\ i < j /\ operations[j].status \in {"running", "completed"}
             => ~Pending(operations[i])
        /\ i < j => operations[i].createdAt <= operations[j].createdAt

\* A delegation that may still authorise work was created after the last accepted
\* cancellation, if its creation time is attested at all.
CurrentDelegationsAreFresh ==
    \A d \in DOMAIN delegations :
        /\ delegations[d].epoch <= epoch
        /\ delegations[d].epoch = epoch /\ delegations[d].offset # NoOffset
             => delegations[d].offset \in (barrier + 1)..now

\* Exactly once: every operation is the work of one receipt, and every receipt that
\* says "queued" has its operation, with the request's delegation and destination.
ReceiptsMatchWork ==
    /\ \A i \in DOMAIN operations :
         LET o == operations[i] IN
         /\ o.call \in DOMAIN calls
         /\ calls[o.call].receipt = [outcome |-> "queued", operation |-> i]
         /\ calls[o.call].delegation = o.delegation
         /\ calls[o.call].command.cargo = o.cargo
         /\ calls[o.call].command.destination = o.destination
    /\ \A c \in DOMAIN calls :
         IF calls[c].receipt.outcome = "queued"
         THEN /\ calls[c].receipt.operation \in DOMAIN operations
              /\ operations[calls[c].receipt.operation].call = c
         ELSE calls[c].receipt.operation = NoOperation

EventsOf(kind) == {e \in DOMAIN events : events[e].kind = kind}
EventsNaming(kind, i) == {e \in EventsOf(kind) : i \in events[e].ops}

\* Work is admitted only from a delegation registered after every cancellation
\* accepted so far, and created after each of them when its creation is attested.
\* The one exception is the cancellation a replacement itself carries.
NoStaleAdmission ==
    \A i \in DOMAIN operations : \A q \in EventsNaming("operation.queued", i) :
        LET d      == delegations[operations[i].delegation]
            fences == {e \in EventsOf("cancellation.accepted") : e < q}
            own    == {e \in fences : events[q].info = "replace"
                                      /\ \A f \in fences : f <= e}
        IN /\ d.epoch = Cardinality(fences \ own)
           /\ d.offset # NoOffset => \A e \in fences \ own : d.offset > events[e].at

Steps(c, destination) ==
    {e \in EventsOf("operation.step") :
        \E i \in events[e].ops : /\ operations[i].cargo = c
                                 /\ operations[i].destination = destination}

\* The audit log alone explains the state: every cargo position is the net of the
\* logged steps, and every status is the last thing the log says of its operation.
LogExplainsState ==
    /\ \A c \in Cargo :
         cargo[c] = Cardinality(Steps(c, "right")) - Cardinality(Steps(c, "left"))
    /\ \A i \in DOMAIN operations :
         LET n(kind) == Cardinality(EventsNaming(kind, i)) IN
         /\ n("operation.queued") = 1
         /\ n("operation.completed") = IF operations[i].status = "completed" THEN 1 ELSE 0
         /\ n("operation.cancelled") = IF operations[i].status = "cancelled" THEN 1 ELSE 0
         /\ operations[i].status = "running" => n("operation.started") = 1
         /\ operations[i].status = "queued"
              => n("operation.started") + n("operation.step") = 0
    /\ epoch = Cardinality(EventsOf("cancellation.accepted")
                             \cup EventsOf("engine.stopped"))

\* Two steps of one run are never closer than the pacing interval, and no step is
\* closer than that to the admission of its operation: late ticks do not catch up.
PacedSteps ==
    \A e \in EventsOf("operation.step") :
        /\ \A i \in events[e].ops : events[e].at - operations[i].createdAt >= StepInterval
        /\ \A f \in EventsOf("operation.step") :
             e < f => events[f].at - events[e].at >= StepInterval

\* Whatever is queued, cancelled or replaced meanwhile, an admitted operation ends.
EveryOperationEnds ==
    \A call \in CallIds :
        (\E i \in PendingIn(operations) : operations[i].call = call)
            ~> (\A i \in PendingIn(operations) : operations[i].call # call)

JobsOf(ops) ==
    [i \in DOMAIN ops |-> [cargo |-> ops[i].cargo, destination |-> ops[i].destination]]

\* The engine implements the abstract queue: what a host sees of it, in either mode,
\* is numbered jobs served oldest first, and fences that retire them where they are.
Queue == INSTANCE ActionQueue
         WITH issued   <- JobsOf(operations),
              live     <- PendingIn(operations),
              position <- cargo,
              halted   <- stopped

ImplementsQueue == Queue!Spec
=============================================================================
