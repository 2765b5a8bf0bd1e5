-------------------------- MODULE GameEngineProofs --------------------------
(***************************************************************************)
(* Theorems about GameEngine, its audit log, and what ActionMetrics derives *)
(* from the log, for every set of ids and commands, every track length,     *)
(* pacing interval and bound.                                               *)
(*                                                                          *)
(* The state comes first.  For the log, an action may log several entries   *)
(* at once: a replacement accepts its cancellation, ends the pending work   *)
(* and queues its own.  The proofs take it apart into changes, each of      *)
(* which logs the entry that explains it (RunChanges); a property then      *)
(* needs one argument per change.                                           *)
(***************************************************************************)
EXTENDS ActionMetrics, FiniteSetTheorems, TLAPS

LEMMA OperationType ==
    ASSUME NEW o \in Operation
    PROVE  /\ o.status \in Statuses /\ o.call \in CallIds
           /\ o.delegation \in Delegations /\ o.epoch \in Nat
           /\ o.cargo \in Cargo /\ o.destination \in Destinations
           /\ o.createdAt \in Nat
  BY DEF Operation

\* Ending an operation changes its status and its end, and nothing else.
LEMMA EndedType ==
    ASSUME NEW o \in Operation, NEW status \in Statuses, now \in Nat
    PROVE  /\ Ended(o, status) \in Operation
           /\ Ended(o, status).status = status
           /\ Ended(o, status).endedAt = now
           /\ Ended(o, status).call = o.call
           /\ Ended(o, status).delegation = o.delegation
           /\ Ended(o, status).epoch = o.epoch
           /\ Ended(o, status).cargo = o.cargo
           /\ Ended(o, status).destination = o.destination
           /\ Ended(o, status).createdAt = o.createdAt
<1> DEFINE half == [o EXCEPT !.status = status]
<1>1. half \in Operation /\ half.status = status
      /\ half.call = o.call /\ half.delegation = o.delegation /\ half.epoch = o.epoch
      /\ half.cargo = o.cargo /\ half.destination = o.destination
      /\ half.createdAt = o.createdAt
  BY DEF Operation
<1>2. Ended(o, status) = [half EXCEPT !.endedAt = now]
  BY DEF Ended
<1> HIDE DEF half
<1> QED
  BY <1>1, <1>2 DEF Operation

LEMMA StartedType ==
    ASSUME NEW o \in Operation
    PROVE  LET r == [o EXCEPT !.status = "running"]
           IN /\ r \in Operation /\ r.status = "running" /\ r.endedAt = o.endedAt
              /\ r.call = o.call /\ r.delegation = o.delegation /\ r.epoch = o.epoch
              /\ r.cargo = o.cargo /\ r.destination = o.destination
              /\ r.createdAt = o.createdAt
  BY DEF Operation, Statuses

\* What the operations look like once #invalidate has passed over them.
LEMMA InvalidatedType ==
    ASSUME NEW ops \in Seq(Operation), now \in Nat
    PROVE  /\ Invalidated(ops) \in Seq(Operation)
           /\ Len(Invalidated(ops)) = Len(ops)
           /\ PendingIn(Invalidated(ops)) = {}
           /\ \A i \in 1..Len(ops) :
                LET before == ops[i]  after == Invalidated(ops)[i] IN
                /\ after.status \in {"completed", "cancelled"}
                /\ ~Pending(before) => after = before
                /\ after.status = "completed" => before.status = "completed"
                /\ after.call = before.call
                /\ after.delegation = before.delegation
                /\ after.epoch = before.epoch
                /\ after.cargo = before.cargo
                /\ after.destination = before.destination
                /\ after.createdAt = before.createdAt
<1> DEFINE inv == Invalidated(ops)
<1>1. /\ DOMAIN inv = 1..Len(ops) /\ DOMAIN ops = 1..Len(ops) /\ Len(ops) \in Nat
  BY DEF Invalidated
<1>2. \A i \in 1..Len(ops) :
        inv[i] = IF Pending(ops[i]) THEN Ended(ops[i], "cancelled") ELSE ops[i]
  BY <1>1 DEF Invalidated
<1>3. ASSUME NEW i \in 1..Len(ops)
      PROVE  /\ inv[i] \in Operation /\ ~Pending(inv[i])
             /\ inv[i].status \in {"completed", "cancelled"}
             /\ ~Pending(ops[i]) => inv[i] = ops[i]
             /\ inv[i].status = "completed" => ops[i].status = "completed"
             /\ inv[i].call = ops[i].call
             /\ inv[i].delegation = ops[i].delegation
             /\ inv[i].epoch = ops[i].epoch
             /\ inv[i].cargo = ops[i].cargo
             /\ inv[i].destination = ops[i].destination
             /\ inv[i].createdAt = ops[i].createdAt
  <2>0. ops[i] \in Operation
    BY <1>1
  <2>1. ops[i] \in Operation /\ ops[i].status \in Statuses
    BY <2>0, OperationType
  <2>2. CASE Pending(ops[i])
    <3>1. inv[i] = Ended(ops[i], "cancelled") /\ "cancelled" \in Statuses
      BY <1>2, <2>2 DEF Statuses
    <3> HIDE DEF inv
    <3> QED
      BY <2>1, <2>2, <3>1, EndedType DEF Pending
  <2>3. CASE ~Pending(ops[i])
    <3>1. inv[i] = ops[i]
      BY <1>2, <2>3
    <3> HIDE DEF inv
    <3> QED
      BY <2>1, <2>3, <3>1 DEF Pending, Statuses
  <2> QED
    BY <2>2, <2>3
<1>4. inv \in Seq(Operation) /\ Len(inv) = Len(ops)
  <2>1. inv \in [1..Len(ops) -> Operation]
    BY <1>1, <1>3 DEF Invalidated
  <2> QED
    BY <1>1, <2>1
<1> QED
  BY <1>1, <1>3, <1>4 DEF PendingIn
-----------------------------------------------------------------------------
(* Types of what the actions assign *)

LEMMA LogEntryType ==
    ASSUME now \in Nat, NEW kind \in EventKinds, NEW ops \in SUBSET Nat, NEW info \in Infos
    PROVE  LogEntry(kind, ops, info) \in Event
  BY DEF LogEntry, Event

LEMMA LoggedType ==
    ASSUME TypeOK, NEW kind \in EventKinds, NEW ops \in SUBSET Nat, NEW info \in Infos
    PROVE  Append(events, LogEntry(kind, ops, info)) \in Seq(Event)
  BY LogEntryType DEF TypeOK

LEMMA CancelledEntriesType ==
    ASSUME TypeOK, NEW reason \in Infos
    PROVE  CancelledEntries(reason) \in Seq(Event)
<1>1. PendingIn(operations) \in SUBSET Nat
  BY DEF TypeOK, PendingIn
<1>2. LogEntry("operation.cancelled", PendingIn(operations), reason) \in Event
  <2>1. "operation.cancelled" \in EventKinds /\ now \in Nat
    BY DEF EventKinds, TypeOK
  <2> QED
    BY <1>1, <2>1, LogEntryType
<1> QED
  BY <1>2 DEF CancelledEntries

LEMMA EntriesOfCancelType ==
    ASSUME TypeOK, NEW type \in Infos
    PROVE  EntriesOfCancel(type) \in Seq(Event)
<1>1. now \in Nat /\ {} \in SUBSET Nat
      /\ "cancellation.accepted" \in EventKinds /\ "cancellation.observed" \in EventKinds
  BY DEF TypeOK, EventKinds
<1>2. LogEntry("cancellation.accepted", {}, type) \in Event
  BY <1>1, LogEntryType
<1>3. LogEntry("cancellation.observed", {}, type) \in Event
  BY <1>1, LogEntryType
<1>4. CancelledEntries(type) \in Seq(Event)
  BY CancelledEntriesType
<1> QED
  BY <1>2, <1>3, <1>4 DEF EntriesOfCancel

LEMMA AdmittedType ==
    ASSUME now \in Nat, NEW call \in CallIds, NEW d \in Delegations, NEW e \in Nat,
           NEW command \in GameCommand, command.type \in {"move", "replace"}
    PROVE  /\ Admitted(call, d, command, e) \in Operation
           /\ Admitted(call, d, command, e).call = call
           /\ Admitted(call, d, command, e).delegation = d
           /\ Admitted(call, d, command, e).epoch = e
           /\ Admitted(call, d, command, e).cargo = command.cargo
           /\ Admitted(call, d, command, e).destination = command.destination
           /\ Admitted(call, d, command, e).status = "queued"
           /\ Admitted(call, d, command, e).createdAt = now
<1>1. command \in [type: {"move", "replace"}, cargo: Cargo, destination: Destinations]
  BY DEF GameCommand, Cancel
<1>2. command.cargo \in Cargo /\ command.destination \in Destinations
  BY <1>1
<1> QED
  BY <1>2 DEF Admitted, Operation, Statuses, NotEnded

LEMMA AfterCancelType ==
    ASSUME TypeOK
    PROVE  /\ OperationsAfterCancel \in Seq(Operation)
           /\ Len(OperationsAfterCancel) = Len(operations)
           /\ EpochAfterCancel \in Nat
           /\ EpochAfterCancel >= epoch
           /\ BarrierAfterCancel \in Nat \cup {NoBarrier}
  BY InvalidatedType DEF OperationsAfterCancel, EpochAfterCancel, BarrierAfterCancel,
     TypeOK, Larger, NoBarrier

LEMMA RememberType ==
    ASSUME TypeOK, NEW call \in CallIds, NEW d \in Delegations, NEW command \in Commands,
           NEW outcome \in {"queued", "cancelled", "observed-not-applied", "rejected"},
           NEW op \in Nat, Remember(call, d, command, outcome, op)
    PROVE  /\ DOMAIN calls' = DOMAIN calls \cup {call}
           /\ DOMAIN calls' \subseteq CallIds
           /\ calls' \in [DOMAIN calls' -> [delegation: Delegations, command: Commands,
                                            receipt: Receipt]]
           /\ calls'[call].receipt = [outcome |-> outcome, operation |-> op]
           /\ calls'[call].delegation = d
           /\ calls'[call].command = command
           /\ \A c \in DOMAIN calls \ {call} : calls'[c] = calls[c]
<1> DEFINE S == [delegation: Delegations, command: Commands, receipt: Receipt]
           v == [delegation |-> d, command |-> command,
                 receipt |-> [outcome |-> outcome, operation |-> op]]
<1>1. v \in S
  BY DEF Receipt
<1>2. calls \in [DOMAIN calls -> S] /\ DOMAIN calls \subseteq CallIds
  BY DEF TypeOK
<1>3. calls' = With(calls, call, v)
  BY DEF Remember
<1>4. v.receipt = [outcome |-> outcome, operation |-> op] /\ v.delegation = d
      /\ v.command = command
  OBVIOUS
<1> HIDE DEF S, v
<1>5. /\ calls' \in [DOMAIN calls' -> S] /\ DOMAIN calls' = DOMAIN calls \cup {call}
      /\ calls'[call] = v
      /\ \A c \in DOMAIN calls \ {call} : calls'[c] = calls[c]
  <2>1. /\ With(calls, call, v) \in [DOMAIN With(calls, call, v) -> S]
        /\ DOMAIN With(calls, call, v) = DOMAIN calls \cup {call}
        /\ With(calls, call, v)[call] = v
        /\ \A c \in DOMAIN calls \ {call} : With(calls, call, v)[c] = calls[c]
    BY <1>1, <1>2 DEF With
  <2> QED
    BY <1>3, <2>1
<1> QED
  BY <1>2, <1>4, <1>5 DEF S
-----------------------------------------------------------------------------
(* Type correctness *)

LEMMA TypeOfRegister ==
    ASSUME TypeOK, NEW id \in Delegations, NEW offset \in Offsets,
           RegisterDelegation(id, offset)
    PROVE  TypeOK'
<1> DEFINE S == [epoch: Nat, offset: Nat \cup {NoOffset}]
           v == [epoch |-> epoch, offset |-> offset]
<1>1. v \in S
  BY ClockAssumption DEF Offsets, TypeOK
<1>2. delegations \in [DOMAIN delegations -> S] /\ DOMAIN delegations \subseteq Delegations
  BY DEF TypeOK
<1>3. delegations' = With(delegations, id, v)
  BY DEF RegisterDelegation
<1> HIDE DEF S, v
<1>4. DOMAIN delegations' \subseteq Delegations
      /\ delegations' \in [DOMAIN delegations' -> S]
  BY <1>1, <1>2, <1>3 DEF With
<1>5. events' \in Seq(Event)
  <2>1. "delegation.registered" \in EventKinds /\ {} \in SUBSET Nat /\ "none" \in Infos
    BY DEF EventKinds, Infos
  <2> QED
    BY <2>1, LoggedType DEF RegisterDelegation
<1> QED
  BY <1>4, <1>5 DEF RegisterDelegation, TypeOK, S

LEMMA RefusalsAreText ==
    /\ \A id, offset : RegistrationRefusal(id, offset) \in Infos
    /\ \A d : CallRefusal(d) \in Infos
  BY DEF RegistrationRefusal, CallRefusal, Infos, Refusals

LEMMA TypeOfRefuse ==
    ASSUME TypeOK, NEW id \in Delegations, NEW offset \in Offsets,
           RefuseDelegation(id, offset)
    PROVE  TypeOK'
<1>1. "delegation.rejected" \in EventKinds /\ {} \in SUBSET Nat
      /\ RegistrationRefusal(id, offset) \in Infos
  BY RefusalsAreText DEF EventKinds
<1>2. events' \in Seq(Event)
  BY <1>1, LoggedType DEF RefuseDelegation
<1> QED
  BY <1>2 DEF RefuseDelegation, TypeOK

LEMMA TypeOfDispatchRefused ==
    ASSUME TypeOK, NEW call \in CallIds, NEW d \in Delegations, NEW command \in Commands,
           DispatchRefused(call, d, command)
    PROVE  TypeOK'
<1>1. "command.rejected" \in EventKinds /\ {} \in SUBSET Nat /\ CallRefusal(d) \in Infos
  BY RefusalsAreText DEF EventKinds
<1>2. events' \in Seq(Event)
  BY <1>1, LoggedType DEF DispatchRefused
<1>3. /\ DOMAIN calls' \subseteq CallIds
      /\ calls' \in [DOMAIN calls' -> [delegation: Delegations, command: Commands,
                                       receipt: Receipt]]
  BY RememberType DEF DispatchRefused, NoOperation
<1> QED
  BY <1>2, <1>3 DEF DispatchRefused, TypeOK

LEMMA TypeOfDispatchCancel ==
    ASSUME TypeOK, NEW call \in CallIds, NEW d \in Delegations, DispatchCancel(call, d)
    PROVE  TypeOK'
<1>1. events' \in Seq(Event)
  <2>1. "cancel" \in Infos /\ events \in Seq(Event)
    BY DEF Infos, TypeOK
  <2> QED
    BY <2>1, EntriesOfCancelType DEF DispatchCancel
<1>2. /\ DOMAIN calls' \subseteq CallIds
      /\ calls' \in [DOMAIN calls' -> [delegation: Delegations, command: Commands,
                                       receipt: Receipt]]
  BY RememberType DEF DispatchCancel, NoOperation
<1>3. operations' \in Seq(Operation) /\ epoch' \in Nat /\ barrier' \in Nat \cup {NoBarrier}
  BY AfterCancelType DEF DispatchCancel
<1> QED
  BY <1>1, <1>2, <1>3 DEF DispatchCancel, TypeOK

LEMMA TypeOfDispatchMove ==
    ASSUME TypeOK, NEW call \in CallIds, NEW d \in Delegations, NEW command \in Commands,
           DispatchMove(call, d, command)
    PROVE  TypeOK'
<1>1. Admitted(call, d, command, epoch) \in Operation
  BY AdmittedType, CommandsAssumption DEF DispatchMove, TypeOK
<1>2. operations' \in Seq(Operation)
  BY <1>1 DEF DispatchMove, TypeOK
<1>3. Len(operations) + 1 \in Nat
  BY DEF TypeOK
<1>4. events' \in Seq(Event)
  <2>1. "operation.queued" \in EventKinds /\ {Len(operations) + 1} \in SUBSET Nat
        /\ "move" \in Infos
    BY <1>3 DEF EventKinds, Infos
  <2> QED
    BY <2>1, LoggedType DEF DispatchMove
<1>5. /\ DOMAIN calls' \subseteq CallIds
      /\ calls' \in [DOMAIN calls' -> [delegation: Delegations, command: Commands,
                                       receipt: Receipt]]
  BY <1>3, RememberType DEF DispatchMove
<1> QED
  BY <1>2, <1>4, <1>5 DEF DispatchMove, TypeOK

LEMMA TypeOfDispatchReplace ==
    ASSUME TypeOK, NEW call \in CallIds, NEW d \in Delegations, NEW command \in Commands,
           DispatchReplace(call, d, command)
    PROVE  TypeOK'
<1>1. Admitted(call, d, command, EpochAfterCancel) \in Operation
  BY AfterCancelType, AdmittedType, CommandsAssumption DEF DispatchReplace, TypeOK
<1>2. operations' \in Seq(Operation) /\ epoch' \in Nat /\ barrier' \in Nat \cup {NoBarrier}
  BY <1>1, AfterCancelType DEF DispatchReplace
<1>3. Len(operations) + 1 \in Nat /\ now \in Nat /\ events \in Seq(Event)
  BY DEF TypeOK
<1>4. LogEntry("operation.queued", {Len(operations) + 1}, "replace") \in Event
  <2>1. "operation.queued" \in EventKinds /\ {Len(operations) + 1} \in SUBSET Nat
        /\ "replace" \in Infos
    BY <1>3 DEF EventKinds, Infos
  <2> QED
    BY <1>3, <2>1, LogEntryType
<1>5. EntriesOfCancel("replace") \in Seq(Event)
  BY EntriesOfCancelType DEF Infos
<1>6. events' \in Seq(Event)
  BY <1>3, <1>4, <1>5 DEF DispatchReplace
<1>7. /\ DOMAIN calls' \subseteq CallIds
      /\ calls' \in [DOMAIN calls' -> [delegation: Delegations, command: Commands,
                                       receipt: Receipt]]
  BY <1>3, RememberType DEF DispatchReplace
<1> QED
  BY <1>2, <1>6, <1>7 DEF DispatchReplace, TypeOK

LEMMA TypeOfDispatchInvalid ==
    ASSUME TypeOK, DispatchInvalid PROVE TypeOK'
<1>1. PICK info \in Infos : events' = Append(events, LogEntry("command.rejected", {}, info))
  BY DEF DispatchInvalid, Infos, Refusals
<1>2. "command.rejected" \in EventKinds /\ {} \in SUBSET Nat
  BY DEF EventKinds
<1>3. events' \in Seq(Event)
  BY <1>1, <1>2, LoggedType
<1> QED
  BY <1>3 DEF DispatchInvalid, TypeOK

LEMMA TypeOfStop ==
    ASSUME TypeOK, Stop PROVE TypeOK'
<1>1. operations' \in Seq(Operation)
  BY InvalidatedType DEF Stop, TypeOK
<1>2. CancelledEntries("engine.stopped") \in Seq(Event)
  BY CancelledEntriesType DEF Infos
<1>3. LogEntry("engine.stopped", {}, "none") \in Event
  <2>1. "engine.stopped" \in EventKinds /\ {} \in SUBSET Nat /\ "none" \in Infos
        /\ now \in Nat
    BY DEF EventKinds, Infos, TypeOK
  <2> QED
    BY <2>1, LogEntryType
<1>4. events' \in Seq(Event)
  BY <1>2, <1>3 DEF Stop, TypeOK
<1> QED
  BY <1>1, <1>4 DEF Stop, TypeOK

LEMMA TargetType ==
    ASSUME NEW o PROVE Target(o) \in 0..Right
  BY RightAssumption DEF Target

\* What a tick that is due does to the engine, apart from the log.
TickEffect(i, to, after) ==
    /\ ~stopped
    /\ i \in DOMAIN operations
    /\ IsFirstPending(i)
    /\ to \in 0..Right
    /\ cargo' = [cargo EXCEPT ![operations[i].cargo] = to]
    /\ after \in Operation
    /\ after.status \in {"running", "completed"}
    /\ after.call = operations[i].call
    /\ after.delegation = operations[i].delegation
    /\ after.epoch = operations[i].epoch
    /\ after.cargo = operations[i].cargo
    /\ after.destination = operations[i].destination
    /\ after.createdAt = operations[i].createdAt
    /\ operations' = [operations EXCEPT ![i] = after]
    /\ LET from == cargo[operations[i].cargo]  target == Target(operations[i]) IN
         /\ from < target => to = from + 1
         /\ from = target => to = from
         /\ from > target => to = from - 1
         /\ after.status = "completed" <=> to = target

LEMMA TickHasEffect ==
    ASSUME TypeOK, Tick
    PROVE  /\ \E i, to, after : TickEffect(i, to, after)
           /\ lastStepAt' \in Nat
           /\ events' \in Seq(Event)
           /\ UNCHANGED <<mode, now, delegations, calls, epoch, stopped, barrier>>
<1> DEFINE o(i) == operations[i]
           from(i) == cargo[o(i).cargo]
           target(i) == Target(o(i))
           to(i) == IF from(i) < target(i) THEN from(i) + 1
                    ELSE IF from(i) > target(i) THEN from(i) - 1 ELSE from(i)
           after(i) == IF Arrived(from(i), to(i), target(i)) THEN Ended(o(i), "completed")
                       ELSE [o(i) EXCEPT !.status = "running"]
<1>1. PICK i \in DOMAIN operations :
        /\ ~stopped
        /\ IsFirstPending(i)
        /\ cargo' = [cargo EXCEPT ![o(i).cargo] = to(i)]
        /\ lastStepAt' = IF from(i) # target(i) THEN now ELSE lastStepAt
        /\ operations' = [operations EXCEPT ![i] = after(i)]
        /\ events' = events
             \o (IF o(i).status = "queued"
                 THEN <<LogEntry("operation.started", {i}, "none")>> ELSE <<>>)
             \o (IF from(i) # target(i)
                 THEN <<LogEntry("operation.step", {i}, "none")>> ELSE <<>>)
             \o (IF Arrived(from(i), to(i), target(i))
                 THEN <<LogEntry("operation.completed", {i}, "none")>> ELSE <<>>)
  BY DEF Tick
<1>2. o(i) \in Operation /\ o(i).cargo \in Cargo /\ i \in Nat
  <2>1. o(i) \in Operation /\ i \in Nat
    BY DEF TypeOK
  <2> QED
    BY <2>1, OperationType
<1>3. from(i) \in 0..Right /\ target(i) \in 0..Right
  BY <1>2, TargetType DEF TypeOK
<1>4. /\ to(i) \in 0..Right
      /\ from(i) < target(i) => to(i) = from(i) + 1
      /\ from(i) = target(i) => to(i) = from(i)
      /\ from(i) > target(i) => to(i) = from(i) - 1
  BY <1>3, RightAssumption
<1>5. /\ after(i) \in Operation
      /\ after(i).status \in {"running", "completed"}
      /\ after(i).call = o(i).call
      /\ after(i).delegation = o(i).delegation
      /\ after(i).epoch = o(i).epoch
      /\ after(i).cargo = o(i).cargo
      /\ after(i).destination = o(i).destination
      /\ after(i).createdAt = o(i).createdAt
      /\ after(i).status = "completed" <=> to(i) = target(i)
  <2>1. "completed" \in Statuses /\ now \in Nat
    BY DEF Statuses, TypeOK
  <2>2. CASE Arrived(from(i), to(i), target(i))
    <3>1. after(i) = Ended(o(i), "completed") /\ to(i) = target(i)
      BY <2>2 DEF Arrived
    <3> HIDE DEF after, o, to, target
    <3> QED
      BY <1>2, <2>1, <3>1, EndedType
  <2>3. CASE ~Arrived(from(i), to(i), target(i))
    <3>1. after(i) = [o(i) EXCEPT !.status = "running"] /\ to(i) # target(i)
      BY <2>3 DEF Arrived
    <3> HIDE DEF after, o, to, target
    <3> QED
      BY <1>2, <3>1, StartedType
  <2> QED
    BY <2>2, <2>3
<1>6. \E j, cell, next : TickEffect(j, cell, next)
  <2>1. TickEffect(i, to(i), after(i))
    <3> HIDE DEF to, after
    <3> QED
      BY <1>1, <1>4, <1>5 DEF TickEffect
  <2> QED
    BY <2>1
<1>7. events' \in Seq(Event)
  <2>1. {"operation.started", "operation.step", "operation.completed"} \subseteq EventKinds
        /\ {i} \in SUBSET Nat /\ "none" \in Infos /\ now \in Nat
    BY <1>2 DEF EventKinds, Infos, TypeOK
  <2>2. /\ LogEntry("operation.started", {i}, "none") \in Event
        /\ LogEntry("operation.step", {i}, "none") \in Event
        /\ LogEntry("operation.completed", {i}, "none") \in Event
    BY <2>1, LogEntryType
  <2> DEFINE a == IF o(i).status = "queued"
                  THEN <<LogEntry("operation.started", {i}, "none")>> ELSE <<>>
             b == IF from(i) # target(i)
                  THEN <<LogEntry("operation.step", {i}, "none")>> ELSE <<>>
             c == IF Arrived(from(i), to(i), target(i))
                  THEN <<LogEntry("operation.completed", {i}, "none")>> ELSE <<>>
  <2>3. a \in Seq(Event) /\ b \in Seq(Event) /\ c \in Seq(Event)
    BY <2>2
  <2>4. events' = events \o a \o b \o c /\ events \in Seq(Event)
    BY <1>1 DEF TypeOK
  <2> HIDE DEF a, b, c
  <2> QED
    BY <2>3, <2>4
<1>8. lastStepAt' \in Nat
  BY <1>1 DEF TypeOK
<1> QED
  BY <1>6, <1>7, <1>8 DEF Tick

LEMMA TypeOfTick ==
    ASSUME TypeOK, Tick PROVE TypeOK'
<1>1. PICK i, to, after : TickEffect(i, to, after)
  BY TickHasEffect
<1>2. operations' \in Seq(Operation)
  BY <1>1 DEF TickEffect, TypeOK
<1>3. cargo' \in [Cargo -> 0..Right]
  BY <1>1 DEF TickEffect, TypeOK
<1> QED
  BY <1>2, <1>3, TickHasEffect DEF TypeOK

LEMMA TypeStep == TypeOK /\ [Next]_vars => TypeOK'
<1> SUFFICES ASSUME TypeOK, [Next]_vars PROVE TypeOK'
  OBVIOUS
<1>1. CASE \E d \in Delegations, offset \in Offsets : RegisterDelegation(d, offset)
  BY <1>1, TypeOfRegister
<1>2. CASE \E d \in Delegations, offset \in Offsets : RefuseDelegation(d, offset)
  BY <1>2, TypeOfRefuse
<1>3. CASE \E call \in CallIds, d \in Delegations, command \in Commands :
             DispatchMove(call, d, command)
  BY <1>3, TypeOfDispatchMove
<1>4. CASE \E call \in CallIds, d \in Delegations, command \in Commands :
             DispatchReplace(call, d, command)
  BY <1>4, TypeOfDispatchReplace
<1>5. CASE \E call \in CallIds, d \in Delegations, command \in Commands :
             DispatchRefused(call, d, command)
  BY <1>5, TypeOfDispatchRefused
<1>6. CASE \E call \in CallIds, d \in Delegations : DispatchCancel(call, d)
  BY <1>6, TypeOfDispatchCancel
<1>7. CASE DispatchInvalid
  BY <1>7, TypeOfDispatchInvalid
<1>8. CASE Tick
  BY <1>8, TypeOfTick
<1>9. CASE Stop
  BY <1>9, TypeOfStop
<1>10. CASE AdvanceClock
  BY <1>10 DEF AdvanceClock, TypeOK
<1>11. CASE UNCHANGED vars
  BY <1>11 DEF TypeOK, vars
<1> QED
  BY <1>1, <1>2, <1>3, <1>4, <1>5, <1>6, <1>7, <1>8, <1>9, <1>10, <1>11
     DEF Next, RepeatRegistration, ReplayReceipt, TickReturns

LEMMA InitType == Init => TypeOK
<1> SUFFICES ASSUME Init PROVE TypeOK
  OBVIOUS
<1>1. cargo \in [Cargo -> 0..Right]
  BY RightAssumption DEF Init
<1>2. operations \in Seq(Operation) /\ events \in Seq(Event)
  BY DEF Init
<1>3. /\ DOMAIN delegations = {} /\ DOMAIN calls = {}
      /\ delegations \in [DOMAIN delegations -> [epoch: Nat, offset: Nat \cup {NoOffset}]]
      /\ calls \in [DOMAIN calls -> [delegation: Delegations, command: Commands,
                                     receipt: Receipt]]
  BY DEF Init
<1> QED
  BY <1>1, <1>2, <1>3 DEF Init, TypeOK

\* Every state of the engine is well formed: positions stay on the track, receipts
\* and delegations stay maps over the ids the host used, and the log is a log.
THEOREM TypeCorrect == Spec => []TypeOK
  BY InitType, TypeStep, PTL DEF Spec
-----------------------------------------------------------------------------
(* Safety *)

\* Admissions never precede the clock: FifoService is inductive only beside it.
AdmittedInPast == \A i \in DOMAIN operations : operations[i].createdAt <= now

\* FifoService and AdmittedInPast of a sequence of operations, so that what an
\* action assigns can be spoken of before it is the next state.
Ordered(s) ==
    \A i, j \in DOMAIN s :
        /\ i < j /\ s[j].status \in {"running", "completed"} => ~Pending(s[i])
        /\ i < j => s[i].createdAt <= s[j].createdAt
Past(s) == \A i \in DOMAIN s : s[i].createdAt <= now

LEMMA AdmissionKeepsOrder ==
    ASSUME NEW s \in Seq(Operation), Ordered(s), Past(s),
           NEW o \in Operation, o.createdAt = now, o.status = "queued", now \in Nat
    PROVE  Ordered(Append(s, o)) /\ Past(Append(s, o))
<1> DEFINE t == Append(s, o)
<1>1. /\ Len(s) \in Nat /\ DOMAIN s = 1..Len(s) /\ DOMAIN t = 1..(Len(s) + 1)
      /\ t[Len(s) + 1] = o
      /\ \A i \in DOMAIN s : t[i] = s[i]
  OBVIOUS
<1> HIDE DEF t
<1>2. Past(t)
  BY <1>1 DEF Past
<1>3. ASSUME NEW i \in DOMAIN t, NEW j \in DOMAIN t, i < j
      PROVE  /\ t[j].status \in {"running", "completed"} => ~Pending(t[i])
             /\ t[i].createdAt <= t[j].createdAt
  <2>1. CASE j = Len(s) + 1
    <3>1. i \in DOMAIN s
      BY <1>1, <1>3, <2>1
    <3> QED
      BY <1>1, <2>1, <3>1 DEF Past
  <2>2. CASE j # Len(s) + 1
    <3>1. i \in DOMAIN s /\ j \in DOMAIN s
      BY <1>1, <1>3, <2>2
    <3> QED
      BY <1>1, <1>3, <3>1 DEF Ordered
  <2> QED
    BY <2>1, <2>2
<1> QED
  BY <1>2, <1>3 DEF Ordered, t

LEMMA InvalidationKeepsOrder ==
    ASSUME NEW s \in Seq(Operation), Ordered(s), Past(s), now \in Nat
    PROVE  Ordered(Invalidated(s)) /\ Past(Invalidated(s))
<1>1. /\ Len(Invalidated(s)) = Len(s) /\ DOMAIN s = 1..Len(s)
      /\ DOMAIN Invalidated(s) = 1..Len(s)
      /\ \A i \in 1..Len(s) : /\ Invalidated(s)[i].createdAt = s[i].createdAt
                              /\ ~Pending(Invalidated(s)[i])
  BY InvalidatedType DEF PendingIn
<1> QED
  BY <1>1 DEF Ordered, Past

LEMMA TickKeepsOrder ==
    ASSUME TypeOK, FifoService, AdmittedInPast, Tick
    PROVE  FifoService' /\ AdmittedInPast'
<1>1. PICK i, to, after : TickEffect(i, to, after)
  BY TickHasEffect
<1>2. /\ DOMAIN operations' = DOMAIN operations /\ i \in DOMAIN operations
      /\ operations'[i] = after /\ after.createdAt = operations[i].createdAt
      /\ \A k \in DOMAIN operations \ {i} : operations'[k] = operations[k]
      /\ DOMAIN operations = 1..Len(operations) /\ Len(operations) \in Nat
      /\ now' = now
  BY <1>1, TickHasEffect DEF TickEffect, TypeOK
<1>3. \A k \in DOMAIN operations : k < i => ~Pending(operations[k])
  BY <1>1, <1>2 DEF TickEffect, IsFirstPending, PendingIn
<1>4. Pending(operations[i])
  BY <1>1 DEF TickEffect, IsFirstPending, PendingIn
<1>5. AdmittedInPast'
  BY <1>2 DEF AdmittedInPast
<1>6. FifoService'
  BY <1>2, <1>3, <1>4 DEF FifoService
<1> QED
  BY <1>5, <1>6

\* The engine serves one operation at a time, in admission order.
THEOREM FifoCorrect == Spec => []FifoService
<1> DEFINE Inv == TypeOK /\ FifoService /\ AdmittedInPast
<1>1. ASSUME Init PROVE FifoService /\ AdmittedInPast
  BY <1>1 DEF Init, FifoService, AdmittedInPast
<1>2. ASSUME Inv, [Next]_vars PROVE (FifoService /\ AdmittedInPast)'
  <2>1. /\ operations \in Seq(Operation) /\ now \in Nat /\ epoch \in Nat
        /\ Ordered(operations) /\ Past(operations)
    BY <1>2 DEF TypeOK, FifoService, AdmittedInPast, Ordered, Past
  <2>2. ASSUME now' = now, Ordered(operations'), Past(operations')
        PROVE  (FifoService /\ AdmittedInPast)'
    BY <2>2 DEF FifoService, AdmittedInPast, Ordered, Past
  <2>3. ASSUME NEW call \in CallIds, NEW d \in Delegations, NEW command \in Commands,
               DispatchMove(call, d, command)
        PROVE  (FifoService /\ AdmittedInPast)'
    <3> DEFINE o == Admitted(call, d, command, epoch)
    <3>1. o \in Operation /\ o.createdAt = now /\ o.status = "queued"
      BY <2>1, <2>3, AdmittedType, CommandsAssumption DEF DispatchMove
    <3>2. operations' = Append(operations, o) /\ now' = now
      BY <2>3 DEF DispatchMove
    <3> HIDE DEF o
    <3> QED
      BY <2>1, <2>2, <3>1, <3>2, AdmissionKeepsOrder
  <2>4. OperationsAfterCancel \in Seq(Operation) /\ EpochAfterCancel \in Nat
        /\ Ordered(OperationsAfterCancel) /\ Past(OperationsAfterCancel)
    BY <1>2, <2>1, AfterCancelType, InvalidationKeepsOrder DEF OperationsAfterCancel
  <2>5. ASSUME NEW call \in CallIds, NEW d \in Delegations, NEW command \in Commands,
               DispatchReplace(call, d, command)
        PROVE  (FifoService /\ AdmittedInPast)'
    <3> DEFINE o == Admitted(call, d, command, EpochAfterCancel)
    <3>1. o \in Operation /\ o.createdAt = now /\ o.status = "queued"
      BY <2>1, <2>4, <2>5, AdmittedType, CommandsAssumption DEF DispatchReplace
    <3>2. operations' = Append(OperationsAfterCancel, o) /\ now' = now
      BY <2>5 DEF DispatchReplace
    <3> HIDE DEF o
    <3> QED
      BY <2>1, <2>2, <2>4, <3>1, <3>2, AdmissionKeepsOrder
  <2>6. ASSUME NEW call \in CallIds, NEW d \in Delegations, DispatchCancel(call, d)
        PROVE  (FifoService /\ AdmittedInPast)'
    BY <2>2, <2>4, <2>6 DEF DispatchCancel
  <2>7. CASE Stop
    BY <2>1, <2>2, <2>7, InvalidationKeepsOrder DEF Stop
  <2>8. CASE Tick
    BY <1>2, <2>8, TickKeepsOrder
  <2>9. CASE AdvanceClock
    <3>1. operations' = operations /\ now' = now + 1
      BY <2>9 DEF AdvanceClock
    <3>2. \A i \in DOMAIN operations : operations[i].createdAt \in Nat
      BY <2>1, OperationType
    <3> QED
      BY <1>2, <2>1, <3>1, <3>2 DEF FifoService, AdmittedInPast
  <2>10. ASSUME UNCHANGED <<operations, now>> PROVE (FifoService /\ AdmittedInPast)'
    BY <1>2, <2>10 DEF FifoService, AdmittedInPast
  <2> QED
    BY <1>2, <2>3, <2>5, <2>6, <2>7, <2>8, <2>9, <2>10
       DEF Next, vars, RegisterDelegation, RepeatRegistration, RefuseDelegation,
           DispatchRefused, DispatchInvalid, ReplayReceipt, TickReturns
<1>3. Init /\ TypeOK => Inv
  BY <1>1
<1>4. Inv /\ TypeOK' /\ [Next]_vars => Inv'
  BY <1>2
<1> QED
  BY <1>3, <1>4, TypeCorrect, PTL DEF Spec

\* A call that is not refused finds a running engine and a current delegation.
LEMMA AcceptedCall ==
    ASSUME NEW d, CallRefusal(d) = "none"
    PROVE  ~stopped /\ d \in DOMAIN delegations /\ delegations[d].epoch = epoch
  BY DEF CallRefusal

\* Every pending operation of `s` was admitted in epoch e.
PendingOf(s, e) == \A i \in PendingIn(s) : s[i].epoch = e

LEMMA PendingAfterAdmission ==
    ASSUME NEW s \in Seq(Operation), NEW e \in Nat, PendingOf(s, e),
           NEW o \in Operation, o.epoch = e
    PROVE  PendingOf(Append(s, o), e)
<1> DEFINE t == Append(s, o)
<1>1. /\ Len(s) \in Nat /\ DOMAIN s = 1..Len(s) /\ DOMAIN t = 1..(Len(s) + 1)
      /\ t[Len(s) + 1] = o
      /\ \A i \in DOMAIN s : t[i] = s[i]
  OBVIOUS
<1> HIDE DEF t
<1>2. ASSUME NEW i \in DOMAIN t, Pending(t[i]) PROVE t[i].epoch = e
  <2>1. CASE i = Len(s) + 1
    BY <1>1, <2>1
  <2>2. CASE i # Len(s) + 1
    <3>1. i \in DOMAIN s
      BY <1>1, <2>2
    <3> QED
      BY <1>1, <1>2, <3>1 DEF PendingOf, PendingIn
  <2> QED
    BY <2>1, <2>2
<1> QED
  BY <1>2 DEF PendingOf, PendingIn, t

\* After #cancel the operations still pending belong to the epoch it leaves.
LEMMA PendingAfterCancel ==
    ASSUME TypeOK, PendingIsCurrent
    PROVE  PendingOf(OperationsAfterCancel, EpochAfterCancel)
  BY InvalidatedType DEF TypeOK, PendingIsCurrent, PendingOf, OperationsAfterCancel,
     EpochAfterCancel

\* No queued or running operation survives the epoch it was admitted in: a
\* cancellation that is accepted, and a stop, leave nothing pending behind.
THEOREM PendingCorrect == Spec => []PendingIsCurrent
<1> DEFINE Inv == TypeOK /\ PendingIsCurrent
<1>1. ASSUME Init PROVE PendingIsCurrent
  BY <1>1 DEF Init, PendingIsCurrent, PendingIn
<1>2. ASSUME Inv, [Next]_vars PROVE PendingIsCurrent'
  <2>1. /\ operations \in Seq(Operation) /\ now \in Nat /\ epoch \in Nat
    BY <1>2 DEF TypeOK
  <2>2. ASSUME PendingOf(operations', epoch'), ~stopped' PROVE PendingIsCurrent'
    BY <2>2 DEF PendingOf, PendingIsCurrent
  <2>3. ASSUME NEW call \in CallIds, NEW d \in Delegations, NEW command \in Commands,
               DispatchMove(call, d, command)
        PROVE  PendingIsCurrent'
    <3> DEFINE o == Admitted(call, d, command, epoch)
    <3>0. command.type = "move" /\ command \in GameCommand
      BY <2>3, CommandsAssumption DEF DispatchMove
    <3>1. o \in Operation /\ o.epoch = epoch
      BY <2>1, <3>0, AdmittedType
    <3>2. operations' = Append(operations, o) /\ epoch' = epoch /\ ~stopped'
      BY <2>3, AcceptedCall DEF DispatchMove
    <3>3. PendingOf(operations, epoch)
      BY <1>2 DEF PendingOf, PendingIsCurrent
    <3> HIDE DEF o
    <3> QED
      BY <2>1, <2>2, <3>1, <3>2, <3>3, PendingAfterAdmission
  <2>4. OperationsAfterCancel \in Seq(Operation) /\ EpochAfterCancel \in Nat
        /\ PendingOf(OperationsAfterCancel, EpochAfterCancel)
    BY <1>2, AfterCancelType, PendingAfterCancel
  <2>5. ASSUME NEW call \in CallIds, NEW d \in Delegations, NEW command \in Commands,
               DispatchReplace(call, d, command)
        PROVE  PendingIsCurrent'
    <3> DEFINE o == Admitted(call, d, command, EpochAfterCancel)
    <3>1. o \in Operation /\ o.epoch = EpochAfterCancel
      BY <2>1, <2>4, <2>5, AdmittedType, CommandsAssumption DEF DispatchReplace
    <3>2. /\ operations' = Append(OperationsAfterCancel, o)
          /\ epoch' = EpochAfterCancel /\ ~stopped'
      BY <2>5, AcceptedCall DEF DispatchReplace
    <3> HIDE DEF o
    <3> QED
      BY <2>2, <2>4, <3>1, <3>2, PendingAfterAdmission
  <2>6. ASSUME NEW call \in CallIds, NEW d \in Delegations, DispatchCancel(call, d)
        PROVE  PendingIsCurrent'
    BY <2>2, <2>4, <2>6, AcceptedCall DEF DispatchCancel
  <2>7. CASE Stop
    BY <2>1, <2>7, InvalidatedType DEF Stop, PendingIsCurrent
  <2>8. CASE Tick
    <3>1. PICK i, to, after : TickEffect(i, to, after)
      BY <1>2, <2>8, TickHasEffect
    <3>2. /\ DOMAIN operations' = DOMAIN operations /\ operations'[i] = after
          /\ after.epoch = operations[i].epoch /\ i \in PendingIn(operations)
          /\ \A k \in DOMAIN operations \ {i} : operations'[k] = operations[k]
          /\ epoch' = epoch /\ stopped' = stopped
      BY <1>2, <2>8, <3>1, TickHasEffect DEF TickEffect, IsFirstPending
    <3> QED
      BY <1>2, <3>2 DEF PendingIsCurrent, PendingIn
  <2>9. ASSUME UNCHANGED <<operations, epoch, stopped>> PROVE PendingIsCurrent'
    BY <1>2, <2>9 DEF PendingIsCurrent
  <2> QED
    BY <1>2, <2>3, <2>5, <2>6, <2>7, <2>8, <2>9
       DEF Next, vars, RegisterDelegation, RepeatRegistration, RefuseDelegation,
           DispatchRefused, DispatchInvalid, ReplayReceipt, TickReturns, AdvanceClock
<1>3. Init /\ TypeOK => Inv
  BY <1>1
<1>4. Inv /\ TypeOK' /\ [Next]_vars => Inv'
  BY <1>2
<1> QED
  BY <1>3, <1>4, TypeCorrect, PTL DEF Spec

\* A delegation that can still authorise work was created after the last accepted
\* cancellation, whatever order registrations and cancellations arrived in.
THEOREM FreshCorrect == Spec => []CurrentDelegationsAreFresh
<1> DEFINE Inv == TypeOK /\ CurrentDelegationsAreFresh
<1>1. ASSUME Init PROVE CurrentDelegationsAreFresh
  BY <1>1 DEF Init, CurrentDelegationsAreFresh
<1>2. ASSUME Inv, [Next]_vars PROVE CurrentDelegationsAreFresh'
  <2>1. /\ now \in Nat /\ epoch \in Nat /\ barrier \in Nat \cup {NoBarrier}
        /\ \A d \in DOMAIN delegations :
             delegations[d].epoch \in Nat /\ delegations[d].offset \in Nat \cup {NoOffset}
    BY <1>2 DEF TypeOK
  <2>2. ASSUME NEW id \in Delegations, NEW offset \in Offsets, RegisterDelegation(id, offset)
        PROVE  CurrentDelegationsAreFresh'
    <3>1. /\ DOMAIN delegations' = DOMAIN delegations \cup {id}
          /\ delegations'[id] = [epoch |-> epoch, offset |-> offset]
          /\ \A d \in DOMAIN delegations \ {id} : delegations'[d] = delegations[d]
          /\ UNCHANGED <<epoch, barrier, now>>
      BY <2>2 DEF RegisterDelegation, With
    <3>2. offset # NoOffset => offset \in (barrier + 1)..now
      <4>1. offset \in Int /\ offset <= now
            /\ ~(offset # NoOffset /\ barrier # NoBarrier /\ offset <= barrier)
            /\ (offset = NoOffset \/ offset \in Nat)
        BY <2>1, <2>2, ClockAssumption
           DEF RegisterDelegation, RegistrationRefusal, Offsets, NoOffset
      <4> QED
        BY <2>1, <4>1 DEF NoBarrier
    <3>3. id \notin DOMAIN delegations
      BY <2>2 DEF RegisterDelegation
    <3>4. ASSUME NEW d \in DOMAIN delegations'
          PROVE  /\ delegations'[d].epoch <= epoch'
                 /\ delegations'[d].epoch = epoch' /\ delegations'[d].offset # NoOffset
                      => delegations'[d].offset \in (barrier' + 1)..now'
      <4>1. CASE d = id
        BY <2>1, <3>1, <3>2, <4>1
      <4>2. CASE d # id
        BY <1>2, <3>1, <4>2 DEF CurrentDelegationsAreFresh
      <4> QED
        BY <4>1, <4>2
    <3> QED
      BY <3>4 DEF CurrentDelegationsAreFresh
  <2>3. ASSUME delegations' = delegations, now' = now,
               \/ epoch' = epoch + 1
               \/ epoch' = epoch /\ barrier' = barrier
        PROVE  CurrentDelegationsAreFresh'
    BY <1>2, <2>1, <2>3 DEF CurrentDelegationsAreFresh
  <2>4. \/ EpochAfterCancel = epoch + 1
        \/ EpochAfterCancel = epoch /\ BarrierAfterCancel = barrier
    BY DEF EpochAfterCancel, BarrierAfterCancel
  <2>5. CASE AdvanceClock
    <3>1. UNCHANGED <<delegations, epoch, barrier>> /\ now' = now + 1
      BY <2>5 DEF AdvanceClock
    <3> QED
      BY <1>2, <2>1, <3>1 DEF CurrentDelegationsAreFresh
  <2>6. CASE Tick
    BY <1>2, <2>3, <2>6, TickHasEffect
  <2> QED
    BY <1>2, <2>2, <2>3, <2>4, <2>5, <2>6
       DEF Next, vars, RepeatRegistration, RefuseDelegation, DispatchRefused,
           DispatchCancel, DispatchMove, DispatchReplace, DispatchInvalid,
           ReplayReceipt, TickReturns, Stop
<1>3. Init /\ TypeOK => Inv
  BY <1>1
<1>4. Inv /\ TypeOK' /\ [Next]_vars => Inv'
  BY <1>2
<1> QED
  BY <1>3, <1>4, TypeCorrect, PTL DEF Spec
-----------------------------------------------------------------------------
(* Receipts and authority *)

\* The i-th operation is the work of its call, and of its delegation unless the call
\* is a replacement, whose work belongs to the epoch it opened.
Backed(o, i, cs, ds) ==
    /\ o.call \in DOMAIN cs
    /\ cs[o.call].receipt = [outcome |-> "queued", operation |-> i]
    /\ cs[o.call].delegation = o.delegation
    /\ cs[o.call].command.cargo = o.cargo
    /\ cs[o.call].command.destination = o.destination
    /\ o.delegation \in DOMAIN ds
    /\ cs[o.call].command.type = "move" => ds[o.delegation].epoch = o.epoch

Answered(c, s, cs) ==
    IF cs[c].receipt.outcome = "queued"
    THEN cs[c].receipt.operation \in DOMAIN s /\ s[cs[c].receipt.operation].call = c
    ELSE cs[c].receipt.operation = NoOperation

\* ReceiptsMatchWork and what it needs to be inductive, of any operations, calls and
\* delegations.
Ledger(s, cs, ds) ==
    /\ \A i \in DOMAIN s : Backed(s[i], i, cs, ds)
    /\ \A c \in DOMAIN cs : Answered(c, s, cs)

LEMMA LedgerEdited ==
    ASSUME NEW s, NEW t, NEW cs, NEW ds, Ledger(s, cs, ds), DOMAIN t = DOMAIN s,
           \A i \in DOMAIN s : /\ t[i].call = s[i].call /\ t[i].delegation = s[i].delegation
                               /\ t[i].epoch = s[i].epoch /\ t[i].cargo = s[i].cargo
                               /\ t[i].destination = s[i].destination
    PROVE  Ledger(t, cs, ds)
  BY DEF Ledger, Backed, Answered

LEMMA LedgerRegisters ==
    ASSUME NEW s, NEW cs, NEW ds, NEW ds2, Ledger(s, cs, ds),
           \A d \in DOMAIN ds : d \in DOMAIN ds2 /\ ds2[d] = ds[d]
    PROVE  Ledger(s, cs, ds2)
  BY DEF Ledger, Backed

\* A call that is answered without work.
LEMMA LedgerRemembers ==
    ASSUME NEW s, NEW cs, NEW cs2, NEW ds, NEW call, Ledger(s, cs, ds),
           call \notin DOMAIN cs, DOMAIN cs2 = DOMAIN cs \cup {call},
           \A c \in DOMAIN cs : cs2[c] = cs[c],
           cs2[call].receipt.outcome # "queued",
           cs2[call].receipt.operation = NoOperation
    PROVE  Ledger(s, cs2, ds)
<1>1. ASSUME NEW i \in DOMAIN s PROVE Backed(s[i], i, cs2, ds)
  <2>1. Backed(s[i], i, cs, ds)
    BY DEF Ledger
  <2> QED
    BY <2>1 DEF Backed
<1>2. \A c \in DOMAIN cs2 : Answered(c, s, cs2)
  BY DEF Ledger, Answered
<1> QED
  BY <1>1, <1>2 DEF Ledger

\* A call that is answered with work.
LEMMA LedgerAdmits ==
    ASSUME NEW s \in Seq(Operation), NEW cs, NEW cs2, NEW ds, NEW o \in Operation,
           Ledger(s, cs, ds),
           o.call \notin DOMAIN cs, DOMAIN cs2 = DOMAIN cs \cup {o.call},
           \A c \in DOMAIN cs : cs2[c] = cs[c],
           Backed(o, Len(s) + 1, cs2, ds)
    PROVE  Ledger(Append(s, o), cs2, ds)
<1> DEFINE t == Append(s, o)
<1>1. /\ Len(s) \in Nat /\ DOMAIN s = 1..Len(s) /\ DOMAIN t = DOMAIN s \cup {Len(s) + 1}
      /\ t[Len(s) + 1] = o /\ \A i \in DOMAIN s : t[i] = s[i]
  OBVIOUS
<1> HIDE DEF t
<1>2. ASSUME NEW i \in DOMAIN s PROVE Backed(t[i], i, cs2, ds)
  <2>1. Backed(s[i], i, cs, ds) /\ t[i] = s[i]
    BY <1>1 DEF Ledger
  <2> QED
    BY <2>1 DEF Backed
<1>3. ASSUME NEW c \in DOMAIN cs PROVE Answered(c, t, cs2)
  <2>1. Answered(c, s, cs) /\ cs2[c] = cs[c]
    BY DEF Ledger
  <2> QED
    BY <1>1, <2>1 DEF Answered
<1>4. Answered(o.call, t, cs2)
  BY <1>1 DEF Backed, Answered
<1>5. \A i \in DOMAIN t : Backed(t[i], i, cs2, ds)
  BY <1>1, <1>2
<1>6. \A c \in DOMAIN cs2 : Answered(c, t, cs2)
  BY <1>3, <1>4
<1> QED
  BY <1>5, <1>6 DEF Ledger, t

LEMMA RememberedCall ==
    ASSUME NEW call, NEW d, NEW command, NEW outcome, NEW op,
           Remember(call, d, command, outcome, op)
    PROVE  /\ DOMAIN calls' = DOMAIN calls \cup {call}
           /\ calls'[call].receipt = [outcome |-> outcome, operation |-> op]
           /\ calls'[call].delegation = d /\ calls'[call].command = command
           /\ \A c \in DOMAIN calls \ {call} : calls'[c] = calls[c]
<1> DEFINE v == [delegation |-> d, command |-> command,
                 receipt |-> [outcome |-> outcome, operation |-> op]]
<1>1. v.receipt = [outcome |-> outcome, operation |-> op] /\ v.delegation = d
      /\ v.command = command
  OBVIOUS
<1>2. calls' = With(calls, call, v)
  BY DEF Remember
<1> HIDE DEF v
<1>3. /\ DOMAIN calls' = DOMAIN calls \cup {call} /\ calls'[call] = v
      /\ \A c \in DOMAIN calls \ {call} : calls'[c] = calls[c]
  BY <1>2 DEF With
<1> QED
  BY <1>1, <1>3

Accounts ==
    /\ Ledger(operations, calls, delegations)
    /\ epoch = 0 => barrier = NoBarrier

LEMMA AccountsStep ==
    ASSUME TypeOK, Accounts, [Next]_vars PROVE Accounts'
<1>1. /\ operations \in Seq(Operation) /\ now \in Nat /\ epoch \in Nat
      /\ Ledger(operations, calls, delegations)
  BY DEF TypeOK, Accounts
<1>2. /\ Ledger(OperationsAfterCancel, calls, delegations)
      /\ OperationsAfterCancel \in Seq(Operation) /\ EpochAfterCancel \in Nat
      /\ Len(OperationsAfterCancel) = Len(operations)
      /\ EpochAfterCancel = 0 => BarrierAfterCancel = NoBarrier
  <2>1. Ledger(Invalidated(operations), calls, delegations)
    <3>1. DOMAIN operations = 1..Len(operations)
      BY <1>1
    <3>2. DOMAIN Invalidated(operations) = DOMAIN operations
      BY <1>1, InvalidatedType
    <3> QED
      BY <1>1, <3>1, <3>2, InvalidatedType, LedgerEdited
  <2>2. EpochAfterCancel = 0 => BarrierAfterCancel = NoBarrier
    BY <1>1 DEF EpochAfterCancel, BarrierAfterCancel, Accounts
  <2> QED
    BY <1>1, <2>1, <2>2, AfterCancelType DEF OperationsAfterCancel
<1>3. ASSUME NEW id \in Delegations, NEW offset \in Offsets, RegisterDelegation(id, offset)
      PROVE  Accounts'
  <2>1. /\ \A d \in DOMAIN delegations : d \in DOMAIN delegations'
                                         /\ delegations'[d] = delegations[d]
        /\ UNCHANGED <<operations, calls, epoch, barrier>>
    BY <1>3 DEF RegisterDelegation, With
  <2> QED
    BY <1>1, <2>1, LedgerRegisters DEF Accounts
<1>4. ASSUME NEW call \in CallIds, NEW d \in Delegations, NEW command \in Commands,
             DispatchMove(call, d, command)
      PROVE  Accounts'
  <2> DEFINE o == Admitted(call, d, command, epoch)
  <2>0. command.type = "move" /\ command.type \in {"move", "replace"}
        /\ command \in GameCommand
    BY <1>4, CommandsAssumption DEF DispatchMove
  <2>1. /\ o \in Operation /\ o.call = call /\ o.delegation = d /\ o.epoch = epoch
        /\ o.cargo = command.cargo /\ o.destination = command.destination
    <3>1. now \in Nat /\ epoch \in Nat
      BY <1>1
    <3>2. o \in Operation
      BY <2>0, <3>1, AdmittedType
    <3>3. /\ o.call = call /\ o.delegation = d /\ o.epoch = epoch
          /\ o.cargo = command.cargo /\ o.destination = command.destination
      BY DEF Admitted
    <3> QED
      BY <3>2, <3>3
  <2>2. /\ operations' = Append(operations, o) /\ call \notin DOMAIN calls
        /\ UNCHANGED <<delegations, epoch, barrier>>
        /\ Remember(call, d, command, "queued", Len(operations) + 1)
        /\ d \in DOMAIN delegations /\ delegations[d].epoch = epoch
    BY <1>4, AcceptedCall DEF DispatchMove
  <2>3. /\ DOMAIN calls' = DOMAIN calls \cup {call}
        /\ calls'[call].receipt = [outcome |-> "queued", operation |-> Len(operations) + 1]
        /\ calls'[call].delegation = d /\ calls'[call].command = command
        /\ \A c \in DOMAIN calls \ {call} : calls'[c] = calls[c]
    BY <2>2, RememberedCall
  <2> HIDE DEF o
  <2>4. Backed(o, Len(operations) + 1, calls', delegations)
    BY <2>1, <2>2, <2>3 DEF Backed
  <2>5. Ledger(operations', calls', delegations)
    BY <1>1, <2>1, <2>2, <2>3, <2>4, LedgerAdmits
  <2> QED
    BY <2>2, <2>5 DEF Accounts
<1>5. ASSUME NEW call \in CallIds, NEW d \in Delegations, NEW command \in Commands,
             DispatchReplace(call, d, command)
      PROVE  Accounts'
  <2> DEFINE o == Admitted(call, d, command, EpochAfterCancel)
  <2>0. command.type = "replace" /\ command \in GameCommand
    BY <1>5, CommandsAssumption DEF DispatchReplace
  <2>1. /\ o \in Operation /\ o.call = call /\ o.delegation = d
        /\ o.cargo = command.cargo /\ o.destination = command.destination
    BY <1>1, <1>2, <2>0, AdmittedType
  <2>2. /\ operations' = Append(OperationsAfterCancel, o) /\ call \notin DOMAIN calls
        /\ delegations' = delegations /\ d \in DOMAIN delegations
        /\ epoch' = EpochAfterCancel /\ barrier' = BarrierAfterCancel
        /\ Remember(call, d, command, "queued", Len(operations) + 1)
    BY <1>5, AcceptedCall DEF DispatchReplace
  <2>3. /\ DOMAIN calls' = DOMAIN calls \cup {call}
        /\ calls'[call].receipt = [outcome |-> "queued", operation |-> Len(operations) + 1]
        /\ calls'[call].delegation = d /\ calls'[call].command = command
        /\ \A c \in DOMAIN calls \ {call} : calls'[c] = calls[c]
    BY <2>2, RememberedCall
  <2> HIDE DEF o
  <2>4. Backed(o, Len(OperationsAfterCancel) + 1, calls', delegations)
    BY <1>2, <2>0, <2>1, <2>2, <2>3 DEF Backed
  <2>5. Ledger(operations', calls', delegations)
    BY <1>2, <2>1, <2>2, <2>3, <2>4, LedgerAdmits
  <2> QED
    BY <1>2, <2>2, <2>5 DEF Accounts
<1>6. ASSUME NEW call \in CallIds, NEW d \in Delegations, DispatchCancel(call, d)
      PROVE  Accounts'
  <2>1. PICK outcome \in {"cancelled", "observed-not-applied"} :
          Remember(call, d, Cancel, outcome, NoOperation)
    BY <1>6 DEF DispatchCancel
  <2>2. /\ Cancel \in Commands /\ call \notin DOMAIN calls /\ delegations' = delegations
        /\ operations' = OperationsAfterCancel
        /\ epoch' = EpochAfterCancel /\ barrier' = BarrierAfterCancel
    BY <1>6 DEF DispatchCancel
  <2>3. /\ DOMAIN calls' = DOMAIN calls \cup {call}
        /\ calls'[call].receipt = [outcome |-> outcome, operation |-> NoOperation]
        /\ \A c \in DOMAIN calls \ {call} : calls'[c] = calls[c]
    BY <2>1, RememberedCall
  <2> QED
    BY <1>2, <2>2, <2>3, LedgerRemembers DEF Accounts
<1>7. ASSUME NEW call \in CallIds, NEW d \in Delegations, NEW command \in Commands,
             DispatchRefused(call, d, command)
      PROVE  Accounts'
  <2>1. /\ Remember(call, d, command, "rejected", NoOperation) /\ call \notin DOMAIN calls
        /\ UNCHANGED <<operations, delegations, epoch, barrier>>
    BY <1>7 DEF DispatchRefused
  <2>2. /\ DOMAIN calls' = DOMAIN calls \cup {call}
        /\ calls'[call].receipt = [outcome |-> "rejected", operation |-> NoOperation]
        /\ \A c \in DOMAIN calls \ {call} : calls'[c] = calls[c]
    BY <2>1, RememberedCall
  <2> QED
    BY <1>1, <2>1, <2>2, LedgerRemembers DEF Accounts
<1>8. CASE Stop
  <2>1. Ledger(Invalidated(operations), calls, delegations)
    <3>1. DOMAIN operations = 1..Len(operations)
      BY <1>1
    <3>2. DOMAIN Invalidated(operations) = DOMAIN operations
      BY <1>1, InvalidatedType
    <3> QED
      BY <1>1, <3>1, <3>2, InvalidatedType, LedgerEdited
  <2> QED
    BY <1>1, <1>8, <2>1 DEF Stop, Accounts
<1>9. CASE Tick
  <2>1. PICK i, to, after : TickEffect(i, to, after)
    BY <1>9, TickHasEffect
  <2>2. /\ DOMAIN operations' = DOMAIN operations /\ operations'[i] = after
        /\ \A k \in DOMAIN operations \ {i} : operations'[k] = operations[k]
        /\ UNCHANGED <<calls, delegations, epoch, barrier>>
    BY <1>1, <1>9, <2>1, TickHasEffect DEF TickEffect
  <2>3. Ledger(operations', calls, delegations)
    BY <1>1, <2>1, <2>2, LedgerEdited DEF TickEffect
  <2> QED
    BY <2>2, <2>3 DEF Accounts
<1>10. ASSUME UNCHANGED <<operations, calls, delegations, epoch, barrier>>
       PROVE  Accounts'
  BY <1>10 DEF Accounts
<1> QED
  BY <1>3, <1>4, <1>5, <1>6, <1>7, <1>8, <1>9, <1>10
     DEF Next, vars, RepeatRegistration, RefuseDelegation, DispatchInvalid,
         ReplayReceipt, TickReturns, AdvanceClock

LEMMA AccountsInvariant == Spec => []Accounts
<1>1. Init => Accounts
  BY DEF Init, Accounts, Ledger
<1>2. TypeOK /\ Accounts /\ [Next]_vars => Accounts'
  BY AccountsStep
<1> QED
  BY <1>1, <1>2, TypeCorrect, PTL DEF Spec

\* Exactly once: every operation is the work of one receipt, and every receipt that
\* says "queued" has its operation, whatever is retried, cancelled or replaced.
THEOREM ReceiptsCorrect == Spec => []ReceiptsMatchWork
<1>1. Accounts => ReceiptsMatchWork
  BY DEF Accounts, Ledger, Backed, Answered, ReceiptsMatchWork
<1> QED
  BY <1>1, AccountsInvariant, PTL
-----------------------------------------------------------------------------
(* Refinement of the abstract queue *)

LEMMA JobsOfAppend ==
    ASSUME NEW s \in Seq(Operation), NEW o \in Operation
    PROVE  LET job == [cargo |-> o.cargo, destination |-> o.destination] IN
           /\ JobsOf(s) \in Seq(Queue!Jobs)
           /\ Len(JobsOf(s)) = Len(s)
           /\ job \in Queue!Jobs
           /\ JobsOf(Append(s, o)) = Append(JobsOf(s), job)
           /\ Pending(o) => PendingIn(Append(s, o)) = PendingIn(s) \cup {Len(s) + 1}
<1> DEFINE t == Append(s, o)
           job(x) == [cargo |-> x.cargo, destination |-> x.destination]
<1>1. /\ Len(s) \in Nat /\ DOMAIN s = 1..Len(s) /\ DOMAIN t = 1..(Len(s) + 1)
      /\ t[Len(s) + 1] = o
      /\ \A i \in DOMAIN s : t[i] = s[i] /\ s[i] \in Operation
  OBVIOUS
<1>2. ASSUME NEW x \in Operation PROVE job(x) \in Queue!Jobs
  <2>1. x.cargo \in Cargo /\ x.destination \in Destinations
    BY OperationType
  <2> QED
    BY <2>1 DEF Queue!Jobs, Destinations
<1> HIDE DEF t
<1>3. /\ DOMAIN JobsOf(s) = 1..Len(s)
      /\ \A i \in 1..Len(s) : JobsOf(s)[i] = job(s[i])
  BY <1>1 DEF JobsOf
<1>4. /\ DOMAIN JobsOf(t) = 1..(Len(s) + 1)
      /\ \A i \in 1..(Len(s) + 1) : JobsOf(t)[i] = job(t[i])
  BY <1>1 DEF JobsOf
<1>5. JobsOf(s) \in Seq(Queue!Jobs) /\ Len(JobsOf(s)) = Len(s)
  <2>1. \A i \in 1..Len(s) : JobsOf(s)[i] \in Queue!Jobs
    BY <1>1, <1>2, <1>3
  <2>2. JobsOf(s) \in [1..Len(s) -> Queue!Jobs]
    BY <1>3, <2>1 DEF JobsOf
  <2> QED
    BY <1>1, <2>2
<1>6. JobsOf(t) = Append(JobsOf(s), job(o))
  <2> DEFINE u == Append(JobsOf(s), job(o))
  <2>1. job(o) \in Queue!Jobs
    BY <1>2
  <2>2. /\ DOMAIN u = 1..(Len(s) + 1) /\ u[Len(s) + 1] = job(o)
        /\ \A i \in 1..Len(s) : u[i] = JobsOf(s)[i]
        /\ u \in Seq(Queue!Jobs)
    BY <1>1, <1>5, <2>1
  <2> HIDE DEF u
  <2>3. \A i \in 1..(Len(s) + 1) : JobsOf(t)[i] = u[i]
    <3> SUFFICES ASSUME NEW i \in 1..(Len(s) + 1) PROVE JobsOf(t)[i] = u[i]
      OBVIOUS
    <3>1. CASE i = Len(s) + 1
      BY <1>1, <1>4, <2>2, <3>1
    <3>2. CASE i # Len(s) + 1
      <4>1. i \in 1..Len(s)
        BY <1>1, <3>2
      <4> QED
        BY <1>1, <1>3, <1>4, <2>2, <4>1
    <3> QED
      BY <3>1, <3>2
  <2>4. JobsOf(t) = [i \in 1..(Len(s) + 1) |-> JobsOf(t)[i]]
    BY <1>1 DEF JobsOf
  <2>5. u = [i \in 1..(Len(s) + 1) |-> u[i]]
    BY <2>2
  <2> QED
    BY <2>3, <2>4, <2>5 DEF u
<1>7. Pending(o) => PendingIn(t) = PendingIn(s) \cup {Len(s) + 1}
  <2>1. \A i \in 1..Len(s) : i \in PendingIn(t) <=> i \in PendingIn(s)
    BY <1>1 DEF PendingIn
  <2>2. Pending(o) => Len(s) + 1 \in PendingIn(t)
    BY <1>1 DEF PendingIn
  <2>3. PendingIn(t) \subseteq 1..(Len(s) + 1) /\ PendingIn(s) \subseteq 1..Len(s)
    BY <1>1 DEF PendingIn
  <2> QED
    BY <1>1, <2>1, <2>2, <2>3
<1> QED
  BY <1>2, <1>5, <1>6, <1>7 DEF t

LEMMA JobsOfInvalidated ==
    ASSUME NEW s \in Seq(Operation), now \in Nat
    PROVE  JobsOf(Invalidated(s)) = JobsOf(s) /\ PendingIn(Invalidated(s)) = {}
<1>1. /\ DOMAIN Invalidated(s) = DOMAIN s /\ DOMAIN s = 1..Len(s)
      /\ PendingIn(Invalidated(s)) = {}
      /\ \A i \in 1..Len(s) : /\ Invalidated(s)[i].cargo = s[i].cargo
                              /\ Invalidated(s)[i].destination = s[i].destination
  <2>1. DOMAIN Invalidated(s) = DOMAIN s /\ DOMAIN s = 1..Len(s)
    BY DEF Invalidated
  <2> QED
    BY <2>1, InvalidatedType
<1> QED
  BY <1>1 DEF JobsOf

LEMMA ReplaceCommandJob ==
    ASSUME TypeOK, NEW call \in CallIds, NEW d \in Delegations, NEW e \in Nat,
           NEW command \in Commands, command.type \in {"move", "replace"}
    PROVE  /\ Admitted(call, d, command, e) \in Operation
           /\ Pending(Admitted(call, d, command, e))
  BY AdmittedType, CommandsAssumption DEF TypeOK, Pending

\* Every step of the engine is a step of the abstract queue or leaves it alone.
LEMMA QueueStep == TypeOK /\ [Next]_vars => [Queue!Next]_(Queue!queueVars)
<1> SUFFICES ASSUME TypeOK, [Next]_vars PROVE [Queue!Next]_(Queue!queueVars)
  OBVIOUS
<1>1. operations \in Seq(Operation) /\ now \in Nat /\ epoch \in Nat /\ Len(operations) \in Nat
  BY DEF TypeOK
<1>2. ASSUME NEW call \in CallIds, NEW d \in Delegations, NEW command \in Commands,
             DispatchMove(call, d, command)
      PROVE  Queue!Next
  <2> DEFINE o == Admitted(call, d, command, epoch)
             job == [cargo |-> o.cargo, destination |-> o.destination]
  <2>1. command.type \in {"move", "replace"}
    BY <1>2 DEF DispatchMove
  <2>2. o \in Operation /\ Pending(o)
    BY <1>1, <2>1, ReplaceCommandJob
  <2>3. /\ operations' = Append(operations, o) /\ ~stopped
        /\ UNCHANGED <<cargo, stopped>>
    BY <1>2, AcceptedCall DEF DispatchMove
  <2> HIDE DEF o
  <2>4. Queue!Submit(job)
    BY <1>1, <2>2, <2>3, JobsOfAppend DEF Queue!Submit
  <2>5. job \in Queue!Jobs
    BY <1>1, <2>2, JobsOfAppend
  <2> QED
    BY <2>4, <2>5 DEF Queue!Next
<1>3. ASSUME NEW call \in CallIds, NEW d \in Delegations, NEW command \in Commands,
             DispatchReplace(call, d, command)
      PROVE  Queue!Next
  <2> DEFINE o == Admitted(call, d, command, EpochAfterCancel)
             job == [cargo |-> o.cargo, destination |-> o.destination]
  <2>0. command.type \in {"move", "replace"}
    BY <1>3 DEF DispatchReplace
  <2>1. EpochAfterCancel \in Nat /\ OperationsAfterCancel \in Seq(Operation)
        /\ Len(OperationsAfterCancel) = Len(operations)
    BY AfterCancelType
  <2>2. o \in Operation /\ Pending(o)
    BY <2>0, <2>1, ReplaceCommandJob
  <2>3. /\ operations' = Append(OperationsAfterCancel, o) /\ ~stopped
        /\ UNCHANGED <<cargo, stopped>>
    BY <1>3, AcceptedCall DEF DispatchReplace
  <2> HIDE DEF o
  <2>4. /\ JobsOf(OperationsAfterCancel) = JobsOf(operations)
        /\ \/ PendingIn(OperationsAfterCancel) = PendingIn(operations)
           \/ PendingIn(OperationsAfterCancel) = {}
    BY <1>1, JobsOfInvalidated DEF OperationsAfterCancel
  <2>5. Queue!Submit(job) \/ Queue!Supersede(job)
    BY <1>1, <2>1, <2>2, <2>3, <2>4, JobsOfAppend DEF Queue!Submit, Queue!Supersede
  <2>6. job \in Queue!Jobs
    BY <1>1, <2>2, JobsOfAppend
  <2> QED
    BY <2>5, <2>6 DEF Queue!Next
<1>4. ASSUME NEW call \in CallIds, NEW d \in Delegations, DispatchCancel(call, d)
      PROVE  Queue!Next \/ UNCHANGED Queue!queueVars
  <2>1. /\ operations' = OperationsAfterCancel /\ ~stopped
        /\ UNCHANGED <<cargo, stopped>>
    BY <1>4, AcceptedCall DEF DispatchCancel
  <2>2. CASE CancelApplies
    <3>1. Queue!Fence
      BY <1>1, <2>1, <2>2, JobsOfInvalidated DEF Queue!Fence, OperationsAfterCancel
    <3> QED
      BY <3>1 DEF Queue!Next
  <2>3. CASE ~CancelApplies
    BY <2>1, <2>3 DEF Queue!queueVars, OperationsAfterCancel
  <2> QED
    BY <2>2, <2>3
<1>5. CASE Stop
  <2>1. Queue!Halt
    BY <1>1, <1>5, JobsOfInvalidated DEF Queue!Halt, Stop
  <2> QED
    BY <2>1 DEF Queue!Next
<1>6. CASE Tick
  <2>1. PICK i, to, after : TickEffect(i, to, after)
    BY <1>6, TickHasEffect
  <2>2. /\ i \in DOMAIN operations /\ DOMAIN operations = 1..Len(operations)
        /\ DOMAIN operations' = DOMAIN operations /\ operations'[i] = after
        /\ \A k \in DOMAIN operations \ {i} : operations'[k] = operations[k]
        /\ operations[i] \in Operation
    BY <1>1, <2>1 DEF TickEffect
  <2>3. JobsOf(operations') = JobsOf(operations)
    BY <2>1, <2>2 DEF JobsOf, TickEffect
  <2>4. PendingIn(operations') = IF to = Target(operations[i])
                                 THEN PendingIn(operations) \ {i} ELSE PendingIn(operations)
    <3>1. \A k \in DOMAIN operations \ {i} :
            k \in PendingIn(operations') <=> k \in PendingIn(operations)
      BY <2>2 DEF PendingIn
    <3>2. i \in PendingIn(operations') <=> to # Target(operations[i])
      BY <2>1, <2>2 DEF PendingIn, Pending, TickEffect
    <3>3. i \in PendingIn(operations)
      BY <2>1 DEF TickEffect, IsFirstPending
    <3>4. PendingIn(operations') \subseteq DOMAIN operations
          /\ PendingIn(operations) \subseteq DOMAIN operations
      BY <2>2 DEF PendingIn
    <3> QED
      BY <3>1, <3>2, <3>3, <3>4
  <2>5. /\ JobsOf(operations)[i].cargo = operations[i].cargo
        /\ Queue!Goal(JobsOf(operations)[i]) = Target(operations[i])
    BY <2>2 DEF JobsOf, Queue!Goal, Target
  <2>6. cargo[operations[i].cargo] \in 0..Right /\ Target(operations[i]) \in 0..Right
        /\ to \in 0..Right
    <3>1. operations[i].cargo \in Cargo
      BY <2>2, OperationType
    <3> QED
      BY <2>1, <3>1, TargetType DEF TypeOK, TickEffect
  <2>7. Queue!Oldest(i) /\ i \in PendingIn(operations)
    BY <2>1 DEF Queue!Oldest, TickEffect, IsFirstPending
  <2>8. ~stopped /\ UNCHANGED stopped
    BY <1>6, <2>1, TickHasEffect DEF TickEffect
  <2>9. LET c == JobsOf(operations)[i].cargo
            goal == Queue!Goal(JobsOf(operations)[i])
        IN /\ to \in {cargo[c] - 1, cargo[c], cargo[c] + 1}
           /\ cargo[c] < goal => to = cargo[c] + 1
           /\ cargo[c] = goal => to = cargo[c]
           /\ cargo[c] > goal => to = cargo[c] - 1
           /\ cargo' = [cargo EXCEPT ![c] = to]
    BY <2>1, <2>5, <2>6, RightAssumption DEF TickEffect
  <2>10. Queue!Serve(i)
    BY <2>3, <2>4, <2>5, <2>7, <2>8, <2>9 DEF Queue!Serve
  <2> QED
    BY <2>7, <2>10 DEF Queue!Next
<1>7. ASSUME UNCHANGED <<operations, cargo, stopped>> PROVE UNCHANGED Queue!queueVars
  BY <1>7 DEF Queue!queueVars
<1> QED
  BY <1>2, <1>3, <1>4, <1>5, <1>6, <1>7
     DEF Next, vars, RegisterDelegation, RepeatRegistration, RefuseDelegation,
         DispatchRefused, DispatchInvalid, ReplayReceipt, TickReturns, AdvanceClock

\* The engine implements the abstract queue of numbered jobs, in either mode.
THEOREM QueueRefinement == Spec => ImplementsQueue
<1>1. Init => Queue!Init
  <2> SUFFICES ASSUME Init PROVE Queue!Init
    OBVIOUS
  <2>1. JobsOf(operations) = <<>> /\ PendingIn(operations) = {}
    BY DEF Init, JobsOf, PendingIn
  <2> QED
    BY <2>1 DEF Init, Queue!Init
<1> QED
  BY <1>1, QueueStep, TypeCorrect, PTL DEF Spec, ImplementsQueue, Queue!Spec

-----------------------------------------------------------------------------
(* The log and what is derived from it *)

Intents ==
    CallsWith({"cancel", "replace"}, {"cancelled", "observed-not-applied", "queued"})
RefusedCalls == CallsWith({"move", "cancel", "replace"}, {"rejected"})

\* A run as the log is about it: the calls only as the three numbers the experiment
\* compares the log with.
Run ==
    [log |-> events, ops |-> operations, pos |-> cargo, ds |-> delegations,
     epoch |-> epoch, halted |-> stopped, barrier |-> barrier, last |-> lastStepAt,
     mode |-> mode, time |-> now, intents |-> Cardinality(Intents),
     refused |-> Cardinality(RefusedCalls), corrections |-> OperationsFrom("replace")]

Sound(x) ==
    /\ x.log \in Seq(Event)
    /\ x.ops \in Seq(Operation)
    /\ x.pos \in [Cargo -> 0..Right]
    /\ \A d \in DOMAIN x.ds : /\ x.ds[d].epoch \in Nat
                              /\ x.ds[d].offset \in Nat \cup {NoOffset}
    /\ x.epoch \in Nat
    /\ x.halted \in BOOLEAN
    /\ x.barrier \in Nat \cup {NoBarrier}
    /\ x.last \in Nat
    /\ x.mode \in {"voice-only", "cancel-actions"}
    /\ x.time \in Nat
    /\ x.intents \in Nat
    /\ x.refused \in Nat
    /\ x.corrections \subseteq DOMAIN x.ops
-----------------------------------------------------------------------------
(* The changes of a run *)

Entry(x, kind, ops, info) == [kind |-> kind, at |-> x.time, ops |-> ops, info |-> info]

SameHost(x, y)   == y.mode = x.mode /\ y.time = x.time /\ y.ds = x.ds
SameEra(x, y)    == y.epoch = x.epoch /\ y.halted = x.halted /\ y.barrier = x.barrier
SameWork(x, y)   == y.ops = x.ops /\ y.corrections = x.corrections
SameTrack(x, y)  == y.pos = x.pos /\ y.last = x.last
SameCounts(x, y) == y.intents = x.intents /\ y.refused = x.refused

\* A delegation is registered in the current epoch, later than the barrier.
Registers(x, y) ==
    /\ \E d, offset :
         /\ d \notin DOMAIN x.ds
         /\ offset # NoOffset => offset > x.barrier
         /\ y.ds = With(x.ds, d, [epoch |-> x.epoch, offset |-> offset])
    /\ y.log = Append(x.log, Entry(x, "delegation.registered", {}, "none"))
    /\ y.mode = x.mode /\ y.time = x.time /\ ~x.halted
    /\ SameEra(x, y) /\ SameWork(x, y) /\ SameTrack(x, y) /\ SameCounts(x, y)

\* A registration or a call is refused; a refused call may be remembered.
Refuses(x, y) ==
    /\ \E kind \in {"delegation.rejected", "command.rejected"}, info \in Refusals :
         /\ y.log = Append(x.log, Entry(x, kind, {}, info))
         /\ \/ y.refused = x.refused
            \/ /\ info \in {"late", "unregistered", "terminal"}
               /\ y.refused = x.refused + 1
    /\ y.intents = x.intents
    /\ SameHost(x, y) /\ SameEra(x, y) /\ SameWork(x, y) /\ SameTrack(x, y)

\* An operation is queued: for a replacement, after the cancellation it carries.
Admits(x, y) ==
    /\ \E o \in Operation, info \in {"move", "replace"} :
         /\ o.status = "queued" /\ o.epoch = x.epoch /\ o.createdAt = x.time
         /\ o.delegation \in DOMAIN x.ds
         /\ x.ds[o.delegation].epoch =
              IF info = "replace" /\ x.mode = "cancel-actions" THEN x.epoch - 1 ELSE x.epoch
         /\ y.ops = Append(x.ops, o)
         /\ y.corrections = IF info = "replace" THEN x.corrections \cup {Len(x.ops) + 1}
                                                ELSE x.corrections
         /\ y.log = Append(x.log, Entry(x, "operation.queued", {Len(x.ops) + 1}, info))
    /\ ~x.halted
    /\ SameHost(x, y) /\ SameEra(x, y) /\ SameTrack(x, y) /\ SameCounts(x, y)

\* The entry that names what a cancellation or a stop ended.
Ending(x, log, reason) ==
    IF PendingIn(x.ops) = {} THEN log
    ELSE Append(log, Entry(x, "operation.cancelled", PendingIn(x.ops), reason))

\* Every pending operation ends as cancelled; nothing else changes in any of them.
EndsPending(x, y) ==
    /\ DOMAIN y.ops = DOMAIN x.ops
    /\ \A i \in DOMAIN x.ops :
         /\ IF Pending(x.ops[i]) THEN y.ops[i].status = "cancelled"
                                 ELSE y.ops[i] = x.ops[i]
         /\ y.ops[i].cargo = x.ops[i].cargo
         /\ y.ops[i].destination = x.ops[i].destination
         /\ y.ops[i].delegation = x.ops[i].delegation
         /\ y.ops[i].epoch = x.ops[i].epoch
         /\ y.ops[i].createdAt = x.ops[i].createdAt
    /\ y.corrections = x.corrections

\* A cancellation is accepted.
Fences(x, y) ==
    /\ x.mode = "cancel-actions" /\ ~x.halted
    /\ \E info \in {"cancel", "replace"} :
         y.log = Ending(x, Append(x.log, Entry(x, "cancellation.accepted", {}, info)), info)
    /\ EndsPending(x, y)
    /\ y.epoch = x.epoch + 1 /\ y.barrier = Larger(x.barrier, x.time)
    /\ y.halted = x.halted
    /\ y.intents = x.intents + 1 /\ y.refused = x.refused
    /\ SameHost(x, y) /\ SameTrack(x, y)

\* A cancellation is observed and not applied.
Observes(x, y) ==
    /\ x.mode # "cancel-actions"
    /\ \E info \in {"cancel", "replace"} :
         y.log = Append(x.log, Entry(x, "cancellation.observed", {}, info))
    /\ y.intents = x.intents + 1 /\ y.refused = x.refused
    /\ SameHost(x, y) /\ SameEra(x, y) /\ SameWork(x, y) /\ SameTrack(x, y)

\* The i-th operation gets another status; nothing else changes in any operation.
Restates(x, y, i, status) ==
    /\ DOMAIN y.ops = DOMAIN x.ops
    /\ y.ops[i].status = status
    /\ y.ops[i].cargo = x.ops[i].cargo
    /\ y.ops[i].destination = x.ops[i].destination
    /\ y.ops[i].delegation = x.ops[i].delegation
    /\ y.ops[i].epoch = x.ops[i].epoch
    /\ y.ops[i].createdAt = x.ops[i].createdAt
    /\ \A j \in DOMAIN x.ops \ {i} : y.ops[j] = x.ops[j]
    /\ y.corrections = x.corrections

Starts(x, y) ==
    /\ \E i \in DOMAIN x.ops :
         /\ x.ops[i].status = "queued" /\ Restates(x, y, i, "running")
         /\ y.log = Append(x.log, Entry(x, "operation.started", {i}, "none"))
    /\ SameHost(x, y) /\ SameEra(x, y) /\ SameTrack(x, y) /\ SameCounts(x, y)

\* The cargo of a running operation moves one cell towards its destination, paced
\* from the admission and from the step before.
Moves(x, y) ==
    /\ \E i \in DOMAIN x.ops :
         LET o == x.ops[i] IN
         /\ o.status = "running"
         /\ x.time - o.createdAt >= StepInterval
         /\ x.time - x.last >= StepInterval
         /\ y.pos = [x.pos EXCEPT ![o.cargo] =
                       IF o.destination = "right" THEN @ + 1 ELSE @ - 1]
         /\ y.log = Append(x.log, Entry(x, "operation.step", {i}, "none"))
    /\ y.last = x.time
    /\ SameHost(x, y) /\ SameEra(x, y) /\ SameWork(x, y) /\ SameCounts(x, y)

Concludes(x, y) ==
    /\ \E i \in DOMAIN x.ops :
         /\ x.ops[i].status = "running" /\ Restates(x, y, i, "completed")
         /\ y.log = Append(x.log, Entry(x, "operation.completed", {i}, "none"))
    /\ SameHost(x, y) /\ SameEra(x, y) /\ SameTrack(x, y) /\ SameCounts(x, y)

Halts(x, y) ==
    /\ ~x.halted /\ y.halted
    /\ y.log = Append(Ending(x, x.log, "engine.stopped"),
                      Entry(x, "engine.stopped", {}, "none"))
    /\ EndsPending(x, y)
    /\ y.epoch = x.epoch + 1 /\ y.barrier = x.barrier
    /\ SameHost(x, y) /\ SameTrack(x, y) /\ SameCounts(x, y)

\* Only the clock moves, or nothing does.
Waits(x, y) ==
    /\ y.log = x.log /\ y.mode = x.mode /\ y.ds = x.ds /\ y.time >= x.time
    /\ SameEra(x, y) /\ SameWork(x, y) /\ SameTrack(x, y) /\ SameCounts(x, y)

Change(x, y) ==
    /\ Sound(x) /\ Sound(y)
    /\ \/ Registers(x, y) \/ Refuses(x, y) \/ Admits(x, y)
       \/ Fences(x, y) \/ Observes(x, y) \/ Starts(x, y) \/ Moves(x, y)
       \/ Concludes(x, y) \/ Halts(x, y) \/ Waits(x, y)
-----------------------------------------------------------------------------
(* The invariants *)

\* Every entry names operations there are.
Named(x) == \A e \in DOMAIN x.log : x.log[e].ops \subseteq DOMAIN x.ops

Spaced(x) ==
    \A e \in DOMAIN x.log : x.log[e].kind = "operation.step" =>
        /\ x.log[e].at <= x.last
        /\ \A i \in x.log[e].ops : x.log[e].at - x.ops[i].createdAt >= StepInterval
        /\ \A f \in DOMAIN x.log :
             x.log[f].kind = "operation.step" /\ e < f
               => x.log[f].at - x.log[e].at >= StepInterval

Tally(log, T) == Cardinality({e \in DOMAIN log : log[e] \in T})
Naming(kind, i) == {a \in Event : a.kind = kind /\ i \in a.ops}
OfKinds(kinds) == {a \in Event : a.kind \in kinds}
StepsOf(ops, c, destination) ==
    {a \in Event : a.kind = "operation.step"
                   /\ \E i \in a.ops : ops[i].cargo = c /\ ops[i].destination = destination}

\* What the log says of an operation of this status.
Told(log, i, status) ==
    LET n(kind) == Tally(log, Naming(kind, i)) IN
    /\ n("operation.queued") = 1
    /\ n("operation.completed") = IF status = "completed" THEN 1 ELSE 0
    /\ n("operation.cancelled") = IF status = "cancelled" THEN 1 ELSE 0
    /\ status = "running" => n("operation.started") = 1
    /\ status = "queued" => n("operation.started") + n("operation.step") = 0

Explained(x) ==
    /\ \A c \in Cargo : x.pos[c] = Tally(x.log, StepsOf(x.ops, c, "right"))
                                     - Tally(x.log, StepsOf(x.ops, c, "left"))
    /\ \A i \in DOMAIN x.ops : Told(x.log, i, x.ops[i].status)
    /\ x.epoch = Tally(x.log, OfKinds({"cancellation.accepted", "engine.stopped"}))

Accepted(log) == {e \in DOMAIN log : log[e].kind = "cancellation.accepted"}
Until(log, e) == {f \in Accepted(log) : f <= e}

\* NoStaleAdmission of one queued entry.
Fresh(x, i, q) ==
    LET d      == x.ds[x.ops[i].delegation]
        fences == {e \in Accepted(x.log) : e < q}
        own    == {e \in fences : x.log[q].info = "replace" /\ \A f \in fences : f <= e}
    IN /\ d.epoch = Cardinality(fences \ own)
       /\ d.offset # NoOffset => \A e \in fences \ own : d.offset > x.log[e].at

\* While the engine runs the epoch counts the accepted cancellations, so that a
\* delegation's epoch says which of them it has seen: it was created after those.
Fenced(x) ==
    /\ ~x.halted => x.epoch = Cardinality(Accepted(x.log))
    /\ x.mode # "cancel-actions" => Accepted(x.log) = {}
    /\ \A e \in Accepted(x.log) : x.log[e].at <= x.barrier
    /\ Accepted(x.log) # {} =>
         \E e \in Accepted(x.log) : \A f \in Accepted(x.log) : f <= e
    /\ \A d \in DOMAIN x.ds :
         /\ x.ds[d].epoch <= x.epoch
         /\ x.ds[d].offset # NoOffset =>
              \A e \in Accepted(x.log) :
                Cardinality(Until(x.log, e)) <= x.ds[d].epoch
                  => x.ds[d].offset > x.log[e].at
Unstale(x) ==
    /\ \A i \in DOMAIN x.ops : x.ops[i].delegation \in DOMAIN x.ds
    /\ \A i \in DOMAIN x.ops : \A q \in DOMAIN x.log :
         x.log[q].kind = "operation.queued" /\ i \in x.log[q].ops => Fresh(x, i, q)

Measures ==
    [pending: SUBSET Nat, targeted: SUBSET Nat, cancelled: SUBSET Nat,
     corrections: SUBSET Nat, correctionsCompleted: SUBSET Nat,
     accepted: Nat, ignored: Nat, stepsAfterCancellation: Nat,
     rejections: [Refusals -> Nat]]

\* What one pass over the log has derived, against the run it never sees.
Derived(x, m) ==
    /\ m.stepsAfterCancellation = 0
    /\ m.pending = PendingIn(x.ops)
    /\ m.cancelled = {i \in DOMAIN x.ops :
                        /\ x.ops[i].status = "cancelled"
                        /\ x.ops[i].epoch < (IF x.halted THEN x.epoch - 1 ELSE x.epoch)}
    /\ m.corrections = x.corrections
    /\ m.correctionsCompleted = {i \in x.corrections : x.ops[i].status = "completed"}
    /\ m.accepted = (IF x.mode = "cancel-actions" THEN x.intents ELSE 0)
    /\ m.ignored = (IF x.mode = "cancel-actions" THEN 0 ELSE x.intents)
    /\ x.refused <= m.rejections["late"] + m.rejections["unregistered"]
                      + m.rejections["terminal"]
    /\ m.targeted \subseteq DOMAIN x.ops
    /\ m.targeted \cap PendingIn(x.ops) = {}

Current(x) ==
    \A i \in DOMAIN x.ops :
        /\ x.ops[i].epoch <= x.epoch
        /\ Pending(x.ops[i]) => x.ops[i].epoch = x.epoch /\ ~x.halted
        /\ x.ops[i].status = "cancelled" /\ ~x.halted => x.ops[i].epoch < x.epoch
-----------------------------------------------------------------------------
(* Appending to a log *)

LEMMA EntryType ==
    ASSUME NEW x, x.time \in Nat,
           NEW kind \in EventKinds, NEW ops \in SUBSET Nat, NEW info \in Infos
    PROVE  /\ Entry(x, kind, ops, info) \in Event
           /\ Entry(x, kind, ops, info).kind = kind
           /\ Entry(x, kind, ops, info).at = x.time
           /\ Entry(x, kind, ops, info).ops = ops
           /\ Entry(x, kind, ops, info).info = info
  BY DEF Entry, Event

LEMMA LogAppend ==
    ASSUME NEW log \in Seq(Event), NEW a \in Event
    PROVE  /\ Append(log, a) \in Seq(Event)
           /\ Len(log) \in Nat /\ DOMAIN log = 1..Len(log)
           /\ Len(Append(log, a)) = Len(log) + 1
           /\ DOMAIN Append(log, a) = 1..(Len(log) + 1)
           /\ Append(log, a)[Len(log) + 1] = a
           /\ \A e \in DOMAIN log : Append(log, a)[e] = log[e] /\ log[e] \in Event
  OBVIOUS

LEMMA TallyType ==
    ASSUME NEW log \in Seq(Event), NEW T
    PROVE  /\ Tally(log, T) \in Nat
           /\ IsFiniteSet({e \in DOMAIN log : log[e] \in T})
<1>1. /\ 1 \in Int /\ Len(log) \in Int /\ DOMAIN log = 1..Len(log)
  OBVIOUS
<1>2. IsFiniteSet(DOMAIN log)
  BY <1>1, FS_Interval
<1>3. IsFiniteSet({e \in DOMAIN log : log[e] \in T})
  BY <1>2, FS_Subset
<1> QED
  BY <1>3, FS_CardinalityType DEF Tally

\* One entry more counts once, where it belongs.
LEMMA TallyAppend ==
    ASSUME NEW log \in Seq(Event), NEW a \in Event, NEW T
    PROVE  Tally(Append(log, a), T) = Tally(log, T) + (IF a \in T THEN 1 ELSE 0)
<1> DEFINE t == Append(log, a)
           n == Len(log) + 1
           old == {e \in DOMAIN log : log[e] \in T}
<1>1. /\ Len(log) \in Nat /\ DOMAIN log = 1..Len(log) /\ DOMAIN t = 1..n /\ t[n] = a
      /\ \A e \in DOMAIN log : t[e] = log[e]
  BY LogAppend
<1>2. IsFiniteSet(old) /\ Cardinality(old) \in Nat /\ Tally(log, T) = Cardinality(old)
  BY TallyType, FS_CardinalityType DEF Tally
<1> HIDE DEF t
<1>3. {e \in DOMAIN t : t[e] \in T} = IF a \in T THEN old \cup {n} ELSE old
  BY <1>1
<1>4. n \notin old
  BY <1>1
<1>5. Cardinality(old \cup {n}) = Cardinality(old) + 1
  BY <1>2, <1>4, FS_AddElement
<1>6. Tally(t, T) = Cardinality(IF a \in T THEN old \cup {n} ELSE old)
  BY <1>3 DEF Tally
<1> HIDE DEF old, n
<1> QED
  BY <1>2, <1>5, <1>6 DEF t

\* Two tests that agree on every entry of a log count the same.
LEMMA TallySame ==
    ASSUME NEW log \in Seq(Event), NEW T, NEW U,
           \A e \in DOMAIN log : log[e] \in T <=> log[e] \in U
    PROVE  Tally(log, T) = Tally(log, U)
<1>1. {e \in DOMAIN log : log[e] \in T} = {e \in DOMAIN log : log[e] \in U}
  OBVIOUS
<1> QED
  BY <1>1 DEF Tally

LEMMA TallyNone ==
    ASSUME NEW log \in Seq(Event), NEW T, \A e \in DOMAIN log : log[e] \notin T
    PROVE  Tally(log, T) = 0
<1>1. {e \in DOMAIN log : log[e] \in T} = {}
  OBVIOUS
<1> QED
  BY <1>1, FS_EmptySet DEF Tally
-----------------------------------------------------------------------------
(* What every change has in common *)

\* No change takes an operation away or rewrites what it was admitted as.
LEMMA ChangeKeepsOperations ==
    ASSUME NEW x, NEW y, Change(x, y)
    PROVE  /\ DOMAIN x.ops \subseteq DOMAIN y.ops
           /\ \A i \in DOMAIN x.ops :
                /\ y.ops[i].cargo = x.ops[i].cargo
                /\ y.ops[i].destination = x.ops[i].destination
                /\ y.ops[i].delegation = x.ops[i].delegation
                /\ y.ops[i].epoch = x.ops[i].epoch
                /\ y.ops[i].createdAt = x.ops[i].createdAt
<1>1. CASE Admits(x, y)
  <2>1. PICK o \in Operation : y.ops = Append(x.ops, o)
    BY <1>1 DEF Admits
  <2>2. x.ops \in Seq(Operation)
    BY DEF Change, Sound
  <2> QED
    BY <2>1, <2>2
<1>2. CASE Fences(x, y) \/ Halts(x, y)
  BY <1>2 DEF Fences, Halts, EndsPending
<1>3. CASE \E i \in DOMAIN x.ops : \E status : Restates(x, y, i, status)
  BY <1>3 DEF Restates
<1>4. CASE y.ops = x.ops
  BY <1>4
<1> QED
  BY <1>1, <1>2, <1>3, <1>4
     DEF Change, Registers, Refuses, Observes, Starts, Moves, Concludes, Waits, SameWork

\* The entries a change may log: dated now, about operations there are, and of the
\* kinds that matter most only by the change they stand for.
Notes(x, y) ==
    {a \in Event : /\ a.at = x.time
                   /\ a.ops \subseteq DOMAIN y.ops
                   /\ a.kind = "operation.step" => Moves(x, y)
                   /\ a.kind = "operation.queued" => Admits(x, y)
                   /\ a.kind = "cancellation.accepted" => Fences(x, y)
                   /\ a.kind = "engine.stopped" => Halts(x, y)}

GrowsBy(log, log2, S) ==
    \/ log2 = log
    \/ \E a \in S : log2 = Append(log, a)
    \/ \E a, b \in S : log2 = Append(Append(log, a), b)

LEMMA PendingNamed ==
    ASSUME NEW ops \in Seq(Operation)
    PROVE  PendingIn(ops) \subseteq DOMAIN ops /\ DOMAIN ops \subseteq Nat
  BY DEF PendingIn

LEMMA NoteType ==
    ASSUME NEW x, NEW y, x.time \in Nat, y.ops \in Seq(Operation),
           NEW kind \in EventKinds, NEW ops \in SUBSET DOMAIN y.ops, NEW info \in Infos,
           kind = "operation.step" => Moves(x, y),
           kind = "operation.queued" => Admits(x, y),
           kind = "cancellation.accepted" => Fences(x, y),
           kind = "engine.stopped" => Halts(x, y)
    PROVE  Entry(x, kind, ops, info) \in Notes(x, y)
<1>1. ops \in SUBSET Nat
  OBVIOUS
<1> QED
  BY <1>1, EntryType DEF Notes

\* A change appends at most two such entries to the log, and removes none.
LEMMA ChangeLogs ==
    ASSUME NEW x, NEW y, Change(x, y)
    PROVE  GrowsBy(x.log, y.log, Notes(x, y))
<1>1. /\ x.time \in Nat /\ x.ops \in Seq(Operation) /\ y.ops \in Seq(Operation)
      /\ x.log \in Seq(Event)
  BY DEF Change, Sound
<1>2. PendingIn(x.ops) \in SUBSET DOMAIN x.ops
  BY <1>1, PendingNamed
<1>3. {} \in SUBSET DOMAIN y.ops /\ DOMAIN x.ops \subseteq DOMAIN y.ops
  BY ChangeKeepsOperations
<1>4. CASE Registers(x, y)
  <2>1. "delegation.registered" \in EventKinds /\ "none" \in Infos
    BY DEF EventKinds, Infos
  <2>2. Entry(x, "delegation.registered", {}, "none") \in Notes(x, y)
    BY <1>1, <1>3, <2>1, NoteType
  <2> QED
    BY <1>4, <2>2 DEF Registers, GrowsBy
<1>5. CASE Refuses(x, y)
  <2>1. PICK kind \in {"delegation.rejected", "command.rejected"}, info \in Refusals :
          y.log = Append(x.log, Entry(x, kind, {}, info))
    BY <1>5 DEF Refuses
  <2>2. kind \in EventKinds /\ info \in Infos
    BY DEF EventKinds, Infos
  <2>3. Entry(x, kind, {}, info) \in Notes(x, y)
    BY <1>1, <1>3, <2>2, NoteType
  <2> QED
    BY <2>1, <2>3 DEF GrowsBy
<1>6. CASE Admits(x, y)
  <2>1. PICK o \in Operation, info \in {"move", "replace"} :
          /\ y.ops = Append(x.ops, o)
          /\ y.log = Append(x.log, Entry(x, "operation.queued", {Len(x.ops) + 1}, info))
    BY <1>6 DEF Admits
  <2>2. "operation.queued" \in EventKinds /\ info \in Infos
    BY DEF EventKinds, Infos
  <2>3. {Len(x.ops) + 1} \in SUBSET DOMAIN y.ops
    BY <1>1, <2>1
  <2>4. Entry(x, "operation.queued", {Len(x.ops) + 1}, info) \in Notes(x, y)
    BY <1>1, <1>6, <2>2, <2>3, NoteType
  <2> QED
    BY <2>1, <2>4 DEF GrowsBy
<1>7. ASSUME NEW reason \in Infos
      PROVE  Entry(x, "operation.cancelled", PendingIn(x.ops), reason) \in Notes(x, y)
  <2>1. "operation.cancelled" \in EventKinds
    BY DEF EventKinds
  <2>2. PendingIn(x.ops) \in SUBSET DOMAIN y.ops
    BY <1>2, <1>3
  <2> QED
    BY <1>1, <2>1, <2>2, NoteType
<1>8. CASE Fences(x, y)
  <2>1. PICK info \in {"cancel", "replace"} :
          y.log = Ending(x, Append(x.log, Entry(x, "cancellation.accepted", {}, info)), info)
    BY <1>8 DEF Fences
  <2>2. "cancellation.accepted" \in EventKinds /\ info \in Infos
    BY DEF EventKinds, Infos
  <2>3. Entry(x, "cancellation.accepted", {}, info) \in Notes(x, y)
    BY <1>1, <1>3, <1>8, <2>2, NoteType
  <2> QED
    BY <1>7, <2>1, <2>2, <2>3 DEF GrowsBy, Ending
<1>9. CASE Observes(x, y)
  <2>1. PICK info \in {"cancel", "replace"} :
          y.log = Append(x.log, Entry(x, "cancellation.observed", {}, info))
    BY <1>9 DEF Observes
  <2>2. "cancellation.observed" \in EventKinds /\ info \in Infos
    BY DEF EventKinds, Infos
  <2>3. Entry(x, "cancellation.observed", {}, info) \in Notes(x, y)
    BY <1>1, <1>3, <2>2, NoteType
  <2> QED
    BY <2>1, <2>3 DEF GrowsBy
<1>10. CASE Starts(x, y) \/ Moves(x, y) \/ Concludes(x, y)
  <2>1. PICK i \in DOMAIN x.ops,
             kind \in {"operation.started", "operation.step", "operation.completed"} :
          /\ y.log = Append(x.log, Entry(x, kind, {i}, "none"))
          /\ kind = "operation.step" => Moves(x, y)
    BY <1>10 DEF Starts, Moves, Concludes
  <2>2. kind \in EventKinds /\ "none" \in Infos /\ {i} \in SUBSET DOMAIN y.ops
    BY <1>3 DEF EventKinds, Infos
  <2>3. Entry(x, kind, {i}, "none") \in Notes(x, y)
    BY <1>1, <2>1, <2>2, NoteType
  <2> QED
    BY <2>1, <2>3 DEF GrowsBy
<1>11. CASE Halts(x, y)
  <2>1. "engine.stopped" \in EventKinds /\ "engine.stopped" \in Infos /\ "none" \in Infos
    BY DEF EventKinds, Infos
  <2>2. Entry(x, "engine.stopped", {}, "none") \in Notes(x, y)
    BY <1>1, <1>3, <1>11, <2>1, NoteType
  <2> QED
    BY <1>7, <1>11, <2>1, <2>2 DEF GrowsBy, Ending, Halts
<1>12. CASE Waits(x, y)
  BY <1>12 DEF Waits, GrowsBy
<1> QED
  BY <1>4, <1>5, <1>6, <1>8, <1>9, <1>10, <1>11, <1>12 DEF Change

NamedIn(log, D) == \A e \in DOMAIN log : log[e].ops \subseteq D

LEMMA NamedAppend ==
    ASSUME NEW log \in Seq(Event), NEW D, NamedIn(log, D), NEW a \in Event, a.ops \subseteq D
    PROVE  NamedIn(Append(log, a), D)
  BY LogAppend DEF NamedIn

LEMMA NamedStep ==
    ASSUME NEW x, NEW y, Change(x, y), Named(x) PROVE Named(y)
<1>1. /\ x.log \in Seq(Event) /\ NamedIn(x.log, DOMAIN y.ops)
      /\ \A a \in Notes(x, y) : a \in Event /\ a.ops \subseteq DOMAIN y.ops
  BY ChangeKeepsOperations DEF Change, Sound, Named, NamedIn, Notes
<1>2. \A a \in Notes(x, y) : /\ Append(x.log, a) \in Seq(Event)
                             /\ NamedIn(Append(x.log, a), DOMAIN y.ops)
  BY <1>1, NamedAppend, LogAppend
<1>3. \A a, b \in Notes(x, y) : NamedIn(Append(Append(x.log, a), b), DOMAIN y.ops)
  BY <1>1, <1>2, NamedAppend
<1>4. GrowsBy(x.log, y.log, Notes(x, y))
  BY ChangeLogs
<1>5. NamedIn(y.log, DOMAIN y.ops)
  BY <1>1, <1>2, <1>3, <1>4 DEF GrowsBy
<1> QED
  BY <1>5 DEF Named, NamedIn
-----------------------------------------------------------------------------
(* Pacing *)

\* Spaced of a log, some operations and an instant no step of it is later than.
SpacedIn(log, ops, last) ==
    \A e \in DOMAIN log : log[e].kind = "operation.step" =>
        /\ log[e].at <= last
        /\ \A i \in log[e].ops : log[e].at - ops[i].createdAt >= StepInterval
        /\ \A f \in DOMAIN log :
             log[f].kind = "operation.step" /\ e < f
               => log[f].at - log[e].at >= StepInterval

LEMMA SpacedQuiet ==
    ASSUME NEW log \in Seq(Event), NEW ops, NEW last, SpacedIn(log, ops, last),
           NEW a \in Event, a.kind # "operation.step"
    PROVE  SpacedIn(Append(log, a), ops, last)
<1> DEFINE t == Append(log, a)
           n == Len(log) + 1
<1>1. /\ DOMAIN t = 1..n /\ DOMAIN log = 1..(n - 1) /\ n \in Nat /\ t[n] = a
      /\ \A e \in DOMAIN log : t[e] = log[e]
  BY LogAppend
<1> HIDE DEF t, n
<1>2. \A e \in DOMAIN t : t[e].kind = "operation.step" => e \in DOMAIN log
  BY <1>1
<1> QED
  BY <1>1, <1>2 DEF SpacedIn, t

LEMMA SpacedEdited ==
    ASSUME NEW log \in Seq(Event), NEW ops, NEW ops2, NEW last,
           SpacedIn(log, ops, last), NamedIn(log, DOMAIN ops),
           \A i \in DOMAIN ops : ops2[i].createdAt = ops[i].createdAt
    PROVE  SpacedIn(log, ops2, last)
  BY DEF SpacedIn, NamedIn

LEMMA SpacedByStep ==
    ASSUME NEW log \in Seq(Event), NEW ops, NEW last \in Nat, SpacedIn(log, ops, last),
           NEW a \in Event, a.kind = "operation.step", a.at - last >= StepInterval,
           \A i \in a.ops : a.at - ops[i].createdAt >= StepInterval
    PROVE  SpacedIn(Append(log, a), ops, a.at)
<1> DEFINE t == Append(log, a)
           n == Len(log) + 1
<1>1. /\ DOMAIN t = 1..n /\ DOMAIN log = 1..(n - 1) /\ n \in Nat /\ t[n] = a
      /\ \A e \in DOMAIN log : t[e] = log[e] /\ log[e] \in Event
  BY LogAppend
<1>2. a.at \in Nat /\ \A e \in DOMAIN log : log[e].at \in Nat
  BY <1>1 DEF Event
<1> HIDE DEF t, n
<1>3. ASSUME NEW e \in DOMAIN t, t[e].kind = "operation.step"
      PROVE  /\ t[e].at <= a.at
             /\ \A i \in t[e].ops : t[e].at - ops[i].createdAt >= StepInterval
             /\ \A f \in DOMAIN t :
                  t[f].kind = "operation.step" /\ e < f => t[f].at - t[e].at >= StepInterval
  <2>1. CASE e = n
    BY <1>1, <1>2, <2>1
  <2>2. CASE e # n
    <3>1. /\ e \in DOMAIN log /\ t[e] = log[e] /\ log[e].at \in Nat /\ log[e].at <= last
      BY <1>1, <1>2, <1>3, <2>2 DEF SpacedIn
    <3>2. \A i \in t[e].ops : t[e].at - ops[i].createdAt >= StepInterval
      BY <1>3, <3>1 DEF SpacedIn
    <3>3. ASSUME NEW f \in DOMAIN t, t[f].kind = "operation.step", e < f
          PROVE  t[f].at - t[e].at >= StepInterval
      <4>1. CASE f = n
        BY <1>1, <1>2, <3>1, <4>1, ClockAssumption
      <4>2. CASE f # n
        <5>1. f \in DOMAIN log /\ t[f] = log[f]
          BY <1>1, <4>2
        <5> QED
          BY <1>3, <3>1, <3>3, <5>1 DEF SpacedIn
      <4> QED
        BY <4>1, <4>2
    <3> QED
      BY <1>2, <3>1, <3>2, <3>3, ClockAssumption
  <2> QED
    BY <2>1, <2>2
<1> QED
  BY <1>3 DEF SpacedIn, t

LEMMA SpacedStep ==
    ASSUME NEW x, NEW y, Change(x, y), Named(x), Spaced(x) PROVE Spaced(y)
<1>1. /\ x.log \in Seq(Event) /\ x.last \in Nat /\ NamedIn(x.log, DOMAIN x.ops)
      /\ SpacedIn(x.log, x.ops, x.last)
      /\ \A a \in Notes(x, y) : a \in Event
  BY DEF Change, Sound, Named, Spaced, NamedIn, SpacedIn, Notes
<1>2. SUFFICES SpacedIn(y.log, y.ops, y.last)
  BY DEF Spaced, SpacedIn
<1>3. CASE Moves(x, y)
  <2>1. PICK i \in DOMAIN x.ops :
          /\ x.time - x.ops[i].createdAt >= StepInterval
          /\ x.time - x.last >= StepInterval
          /\ y.log = Append(x.log, Entry(x, "operation.step", {i}, "none"))
    BY <1>3 DEF Moves
  <2> DEFINE a == Entry(x, "operation.step", {i}, "none")
  <2>2. a \in Event /\ a.kind = "operation.step" /\ a.at = x.time /\ a.ops = {i}
    <3>1. x.time \in Nat /\ {i} \in SUBSET Nat
      BY DEF Change, Sound
    <3>2. "operation.step" \in EventKinds /\ "none" \in Infos
      BY DEF EventKinds, Infos
    <3> QED
      BY <3>1, <3>2, EntryType
  <2> HIDE DEF a
  <2>3. SpacedIn(Append(x.log, a), x.ops, a.at)
    BY <1>1, <2>1, <2>2, SpacedByStep
  <2>4. y.log = Append(x.log, a) /\ y.ops = x.ops /\ y.last = a.at
    BY <1>3, <2>1, <2>2 DEF Moves, SameWork, a
  <2> QED
    BY <2>3, <2>4
<1>4. CASE ~Moves(x, y)
  <2>1. y.last = x.last
    BY <1>4 DEF Change, Registers, Refuses, Admits, Fences, Observes, Starts, Concludes,
       Halts, Waits, SameTrack
  <2>2. SpacedIn(x.log, y.ops, x.last)
    BY <1>1, ChangeKeepsOperations, SpacedEdited
  <2>3. \A a \in Notes(x, y) : a.kind # "operation.step"
    BY <1>4 DEF Notes
  <2>4. \A a \in Notes(x, y) : /\ Append(x.log, a) \in Seq(Event)
                               /\ SpacedIn(Append(x.log, a), y.ops, x.last)
    BY <1>1, <2>2, <2>3, SpacedQuiet, LogAppend
  <2>5. \A a, b \in Notes(x, y) : SpacedIn(Append(Append(x.log, a), b), y.ops, x.last)
    BY <1>1, <2>3, <2>4, SpacedQuiet
  <2>6. GrowsBy(x.log, y.log, Notes(x, y))
    BY ChangeLogs
  <2> QED
    BY <2>1, <2>2, <2>4, <2>5, <2>6 DEF GrowsBy
<1> QED
  BY <1>3, <1>4
-----------------------------------------------------------------------------
(* Every step of the engine is a sequence of changes *)

LEMMA RunFields ==
    /\ Run.log = events /\ Run.ops = operations /\ Run.pos = cargo /\ Run.ds = delegations
    /\ Run.epoch = epoch /\ Run.halted = stopped /\ Run.barrier = barrier
    /\ Run.last = lastStepAt /\ Run.mode = mode /\ Run.time = now
    /\ Run.intents = Cardinality(Intents) /\ Run.refused = Cardinality(RefusedCalls)
    /\ Run.corrections = OperationsFrom("replace")
  BY DEF Run

LEMMA RunFieldsNext ==
    /\ (Run').log = events' /\ (Run').ops = operations' /\ (Run').pos = cargo'
    /\ (Run').ds = delegations' /\ (Run').epoch = epoch' /\ (Run').halted = stopped'
    /\ (Run').barrier = barrier' /\ (Run').last = lastStepAt' /\ (Run').mode = mode'
    /\ (Run').time = now' /\ (Run').intents = Cardinality(Intents')
    /\ (Run').refused = Cardinality(RefusedCalls')
    /\ (Run').corrections = OperationsFrom("replace")'
  BY DEF Run

\* Finitely many calls have been answered.
CallsFinite == IsFiniteSet(DOMAIN calls)

LEMMA CallsWithFinite ==
    ASSUME CallsFinite, NEW types, NEW outcomes
    PROVE  /\ IsFiniteSet(CallsWith(types, outcomes))
           /\ Cardinality(CallsWith(types, outcomes)) \in Nat
<1>1. CallsWith(types, outcomes) \in SUBSET DOMAIN calls
  BY DEF CallsWith
<1>2. IsFiniteSet(CallsWith(types, outcomes))
  BY <1>1, FS_Subset DEF CallsFinite
<1> QED
  BY <1>2, FS_CardinalityType

LEMMA RunIsSound ==
    ASSUME TypeOK, CallsFinite PROVE Sound(Run)
<1>1. /\ events \in Seq(Event) /\ operations \in Seq(Operation)
      /\ cargo \in [Cargo -> 0..Right]
      /\ \A d \in DOMAIN delegations : /\ delegations[d].epoch \in Nat
                                       /\ delegations[d].offset \in Nat \cup {NoOffset}
  BY DEF TypeOK
<1>2. /\ epoch \in Nat /\ stopped \in BOOLEAN /\ barrier \in Nat \cup {NoBarrier}
      /\ lastStepAt \in Nat /\ now \in Nat
      /\ mode \in {"voice-only", "cancel-actions"}
  BY ModesAssumption DEF TypeOK
<1>3. Cardinality(Intents) \in Nat /\ Cardinality(RefusedCalls) \in Nat
  BY CallsWithFinite DEF Intents, RefusedCalls
<1>4. OperationsFrom("replace") \subseteq DOMAIN operations
  BY DEF OperationsFrom
<1> QED
  BY <1>1, <1>2, <1>3, <1>4, RunFields DEF Sound

LEMMA FiniteStep ==
    ASSUME TypeOK, CallsFinite, [Next]_vars PROVE CallsFinite'
<1>1. ASSUME NEW call, DOMAIN calls' = DOMAIN calls \cup {call} PROVE CallsFinite'
  BY <1>1, FS_AddElement DEF CallsFinite
<1>2. ASSUME NEW call, NEW d, NEW command, NEW outcome, NEW op,
             Remember(call, d, command, outcome, op)
      PROVE  CallsFinite'
  BY <1>1, <1>2, RememberedCall
<1>3. CASE calls' = calls
  BY <1>3 DEF CallsFinite
<1> QED
  BY <1>2, <1>3
     DEF Next, vars, RegisterDelegation, RepeatRegistration, RefuseDelegation, DispatchMove,
         DispatchReplace, DispatchRefused, DispatchCancel, DispatchInvalid, ReplayReceipt,
         Tick, TickReturns, Stop, AdvanceClock

\* What one answered call more does to the numbers of calls.
LEMMA CountRemembered ==
    ASSUME CallsFinite, NEW call, call \notin DOMAIN calls, NEW d, NEW command, NEW outcome,
           NEW op, Remember(call, d, command, outcome, op), NEW types, NEW outcomes
    PROVE  Cardinality(CallsWith(types, outcomes)') = Cardinality(CallsWith(types, outcomes))
             + (IF command.type \in types /\ outcome \in outcomes THEN 1 ELSE 0)
<1> DEFINE C == CallsWith(types, outcomes)
<1>0. /\ DOMAIN calls' = DOMAIN calls \cup {call} /\ calls'[call].command = command
      /\ calls'[call].receipt = [outcome |-> outcome, operation |-> op]
      /\ \A c \in DOMAIN calls \ {call} : calls'[c] = calls[c]
  BY RememberedCall
<1>1. /\ DOMAIN calls' = DOMAIN calls \cup {call} /\ calls'[call].command = command
      /\ calls'[call].receipt.outcome = outcome
      /\ \A c \in DOMAIN calls \ {call} : calls'[c] = calls[c]
  BY <1>0
<1>2. CallsWith(types, outcomes)' =
        IF command.type \in types /\ outcome \in outcomes THEN C \cup {call} ELSE C
  BY <1>1 DEF CallsWith
<1>3. IsFiniteSet(C) /\ Cardinality(C) \in Nat /\ call \notin C
  <2>1. call \notin C
    BY DEF CallsWith
  <2> QED
    BY <2>1, CallsWithFinite
<1>4. Cardinality(C \cup {call}) = Cardinality(C) + 1
  BY <1>3, FS_AddElement
<1> HIDE DEF C
<1>5. CASE command.type \in types /\ outcome \in outcomes
  BY <1>2, <1>4, <1>5 DEF C
<1>6. CASE ~(command.type \in types /\ outcome \in outcomes)
  BY <1>2, <1>3, <1>6 DEF C
<1> QED
  BY <1>5, <1>6

LEMMA CountsKept ==
    ASSUME calls' = calls, operations' = operations
    PROVE  /\ Cardinality(Intents') = Cardinality(Intents)
           /\ Cardinality(RefusedCalls') = Cardinality(RefusedCalls)
           /\ OperationsFrom("replace")' = OperationsFrom("replace")
  BY DEF Intents, RefusedCalls, CallsWith, OperationsFrom

\* The operations that replacements queued, when the calls only grow.
LEMMA CorrectionsKept ==
    ASSUME \A i \in DOMAIN operations : operations[i].call \in DOMAIN calls,
           \A c \in DOMAIN calls : calls'[c] = calls[c],
           DOMAIN operations' = DOMAIN operations,
           \A i \in DOMAIN operations : operations'[i].call = operations[i].call
    PROVE  OperationsFrom("replace")' = OperationsFrom("replace")
  BY DEF OperationsFrom

LEMMA CorrectionsGrow ==
    ASSUME NEW s \in Seq(Operation), DOMAIN s = DOMAIN operations,
           \A i \in DOMAIN operations : s[i].call = operations[i].call,
           \A i \in DOMAIN operations : operations[i].call \in DOMAIN calls,
           \A c \in DOMAIN calls : calls'[c] = calls[c],
           NEW o \in Operation, operations' = Append(s, o)
    PROVE  OperationsFrom("replace")' = IF calls'[o.call].command.type = "replace"
                                        THEN OperationsFrom("replace") \cup {Len(s) + 1}
                                        ELSE OperationsFrom("replace")
<1>1. /\ Len(s) \in Nat /\ DOMAIN s = 1..Len(s)
      /\ DOMAIN operations' = DOMAIN operations \cup {Len(s) + 1}
      /\ operations'[Len(s) + 1] = o
      /\ \A i \in DOMAIN operations : operations'[i] = s[i]
  OBVIOUS
<1>2. \A i \in DOMAIN operations :
        calls'[operations'[i].call].command.type = calls[operations[i].call].command.type
  BY <1>1
<1>3. Len(s) + 1 \notin DOMAIN operations
  BY <1>1
<1>4. OperationsFrom("replace")' =
        {i \in DOMAIN operations \cup {Len(s) + 1} :
           calls'[operations'[i].call].command.type = "replace"}
  BY <1>1 DEF OperationsFrom
<1>5. OperationsFrom("replace") =
        {i \in DOMAIN operations : calls'[operations'[i].call].command.type = "replace"}
  BY <1>2 DEF OperationsFrom
<1> QED
  BY <1>1, <1>3, <1>4, <1>5

LEMMA LedgerFacts ==
    ASSUME Accounts
    PROVE  /\ \A i \in DOMAIN operations : /\ operations[i].call \in DOMAIN calls
                                           /\ operations[i].delegation \in DOMAIN delegations
           /\ \A i \in DOMAIN operations : calls[operations[i].call].receipt.outcome = "queued"
<1>1. \A i \in DOMAIN operations : Backed(operations[i], i, calls, delegations)
  BY DEF Accounts, Ledger
<1>2. ASSUME NEW i \in DOMAIN operations
      PROVE  /\ operations[i].call \in DOMAIN calls
             /\ operations[i].delegation \in DOMAIN delegations
             /\ calls[operations[i].call].receipt.outcome = "queued"
  <2>1. /\ operations[i].call \in DOMAIN calls
        /\ operations[i].delegation \in DOMAIN delegations
        /\ calls[operations[i].call].receipt = [outcome |-> "queued", operation |-> i]
    BY <1>1 DEF Backed
  <2> QED
    BY <2>1
<1> QED
  BY <1>2

\* A run with the host of this state.
Variant(log, ops, pos, ep, bar, last, intents) ==
    [log |-> log, ops |-> ops, pos |-> pos, ds |-> delegations,
     epoch |-> ep, halted |-> stopped, barrier |-> bar, last |-> last,
     mode |-> mode, time |-> now, intents |-> intents,
     refused |-> Cardinality(RefusedCalls), corrections |-> OperationsFrom("replace")]

\* #invalidate ends what is pending, as a change sees it.
LEMMA InvalidatedEnds ==
    ASSUME NEW x, NEW y, x.ops \in Seq(Operation), now \in Nat,
           y.ops = Invalidated(x.ops), y.corrections = x.corrections
    PROVE  EndsPending(x, y)
<1>1. /\ DOMAIN Invalidated(x.ops) = DOMAIN x.ops /\ DOMAIN x.ops = 1..Len(x.ops)
      /\ \A i \in DOMAIN x.ops : Invalidated(x.ops)[i] =
           IF Pending(x.ops[i]) THEN Ended(x.ops[i], "cancelled") ELSE x.ops[i]
  BY DEF Invalidated
<1>2. \A i \in DOMAIN x.ops :
        /\ y.ops[i].cargo = x.ops[i].cargo
        /\ y.ops[i].destination = x.ops[i].destination
        /\ y.ops[i].delegation = x.ops[i].delegation
        /\ y.ops[i].epoch = x.ops[i].epoch
        /\ y.ops[i].createdAt = x.ops[i].createdAt
  BY <1>1, InvalidatedType
<1>3. ASSUME NEW i \in DOMAIN x.ops
      PROVE  IF Pending(x.ops[i]) THEN y.ops[i].status = "cancelled"
                                  ELSE y.ops[i] = x.ops[i]
  <2>1. x.ops[i] \in Operation /\ "cancelled" \in Statuses
    BY DEF Statuses
  <2>2. Ended(x.ops[i], "cancelled").status = "cancelled"
    BY <2>1, EndedType
  <2> QED
    BY <1>1, <2>2
<1> QED
  BY <1>1, <1>2, <1>3 DEF EndsPending

\* Both halves of #cancel: what a standalone cancellation and a replacement share.
LEMMA CancelChanges ==
    ASSUME TypeOK, CallsFinite, ~stopped, NEW type \in {"cancel", "replace"}, NEW y,
           y.log = events \o EntriesOfCancel(type), y.ops = OperationsAfterCancel,
           y.epoch = EpochAfterCancel, y.barrier = BarrierAfterCancel,
           y.intents = Run.intents + 1, y.refused = Run.refused,
           y.corrections = Run.corrections, y.halted = stopped,
           SameHost(Run, y), SameTrack(Run, y)
    PROVE  Change(Run, y)
<1>1. Sound(Run)
  BY RunIsSound
<1>2. /\ events \in Seq(Event) /\ operations \in Seq(Operation) /\ now \in Nat
      /\ type \in Infos
  BY DEF TypeOK, Infos
<1>3. Sound(y)
  <2>1. y.log \in Seq(Event)
    BY <1>2, EntriesOfCancelType
  <2>2. /\ y.ops \in Seq(Operation) /\ DOMAIN y.ops = DOMAIN operations
        /\ y.epoch \in Nat /\ y.barrier \in Nat \cup {NoBarrier}
    BY <1>2, AfterCancelType
  <2>3. y.intents \in Nat
    BY <1>1 DEF Sound
  <2>4. /\ y.pos = Run.pos /\ y.last = Run.last /\ y.mode = Run.mode /\ y.time = Run.time
        /\ y.ds = Run.ds /\ y.halted = Run.halted
    BY RunFields DEF SameHost, SameTrack
  <2> QED
    BY <1>1, <2>1, <2>2, <2>3, <2>4, RunFields DEF Sound
<1>4. CASE CancelApplies
  <2> DEFINE a == LogEntry("cancellation.accepted", {}, type)
             b == LogEntry("operation.cancelled", PendingIn(operations), type)
  <2>1. a \in Event /\ b \in Event
    <3>1. PendingIn(operations) \in SUBSET Nat /\ {} \in SUBSET Nat
      BY <1>2 DEF PendingIn
    <3>2. "cancellation.accepted" \in EventKinds /\ "operation.cancelled" \in EventKinds
      BY DEF EventKinds
    <3> QED
      BY <1>2, <3>1, <3>2, LogEntryType
  <2>2. /\ a = Entry(Run, "cancellation.accepted", {}, type)
        /\ b = Entry(Run, "operation.cancelled", PendingIn(Run.ops), type)
    BY RunFields DEF LogEntry, Entry
  <2>3. y.log = IF PendingIn(operations) = {} THEN events \o (<<a>> \o <<>>)
                ELSE events \o (<<a>> \o <<b>>)
    BY <1>4 DEF EntriesOfCancel, CancelledEntries
  <2> HIDE DEF a, b
  <2>4. y.log = IF PendingIn(operations) = {} THEN Append(events, a)
                ELSE Append(Append(events, a), b)
    <3>1. events \o (<<a>> \o <<>>) = Append(events, a)
      BY <1>2, <2>1
    <3>2. events \o (<<a>> \o <<b>>) = Append(Append(events, a), b)
      BY <1>2, <2>1
    <3> QED
      BY <2>3, <3>1, <3>2
  <2>5. y.log = Ending(Run, Append(Run.log, Entry(Run, "cancellation.accepted", {}, type)), type)
    BY <2>2, <2>4, RunFields DEF Ending
  <2>6. EndsPending(Run, y)
    BY <1>2, <1>4, RunFields, InvalidatedEnds DEF OperationsAfterCancel
  <2>7. /\ y.epoch = Run.epoch + 1 /\ y.barrier = Larger(Run.barrier, Run.time)
        /\ Run.mode = "cancel-actions" /\ ~Run.halted /\ y.halted = Run.halted
    BY <1>4, RunFields DEF CancelApplies, EpochAfterCancel, BarrierAfterCancel
  <2>8. Fences(Run, y)
    BY <2>5, <2>6, <2>7 DEF Fences
  <2> QED
    BY <1>1, <1>3, <2>8 DEF Change
<1>5. CASE ~CancelApplies
  <2> DEFINE a == LogEntry("cancellation.observed", {}, type)
  <2>1. a \in Event
    <3>1. "cancellation.observed" \in EventKinds /\ {} \in SUBSET Nat
      BY DEF EventKinds
    <3> QED
      BY <1>2, <3>1, LogEntryType
  <2>2. a = Entry(Run, "cancellation.observed", {}, type)
    BY RunFields DEF LogEntry, Entry
  <2>3. y.log = events \o <<a>>
    BY <1>5 DEF EntriesOfCancel
  <2> HIDE DEF a
  <2>4. y.log = Append(Run.log, Entry(Run, "cancellation.observed", {}, type))
    BY <1>2, <2>1, <2>2, <2>3, RunFields
  <2>5. /\ y.ops = Run.ops /\ y.epoch = Run.epoch /\ y.barrier = Run.barrier
        /\ y.halted = Run.halted /\ Run.mode # "cancel-actions"
    BY <1>5, RunFields
       DEF CancelApplies, OperationsAfterCancel, EpochAfterCancel, BarrierAfterCancel
  <2>6. Observes(Run, y)
    BY <2>4, <2>5 DEF Observes, SameEra, SameWork
  <2> QED
    BY <1>1, <1>3, <2>6 DEF Change
<1> QED
  BY <1>4, <1>5

\* The work of a call is queued on a run of this state, cancelled for it or not.
LEMMA AdmissionChanges ==
    ASSUME Sound(Run'), NEW x, Sound(x), ~stopped,
           NEW o \in Operation, NEW info \in {"move", "replace"},
           o.status = "queued", o.epoch = x.epoch, o.createdAt = now,
           o.delegation \in DOMAIN delegations,
           delegations[o.delegation].epoch =
             IF info = "replace" /\ mode = "cancel-actions" THEN x.epoch - 1 ELSE x.epoch,
           x.mode = mode, x.time = now, x.ds = delegations, x.halted = stopped,
           (Run').ops = Append(x.ops, o),
           (Run').log = Append(x.log, LogEntry("operation.queued", {Len(x.ops) + 1}, info)),
           (Run').corrections = IF info = "replace" THEN x.corrections \cup {Len(x.ops) + 1}
                                                    ELSE x.corrections,
           SameHost(x, Run'), SameEra(x, Run'), SameTrack(x, Run'), SameCounts(x, Run')
    PROVE  Change(x, Run')
<1>2. LogEntry("operation.queued", {Len(x.ops) + 1}, info)
        = Entry(x, "operation.queued", {Len(x.ops) + 1}, info)
  BY DEF LogEntry, Entry
<1> DEFINE y == Run'
<1>3. Sound(y) /\ SameHost(x, y) /\ SameEra(x, y) /\ SameTrack(x, y) /\ SameCounts(x, y)
      /\ y.ops = Append(x.ops, o)
      /\ y.log = Append(x.log, Entry(x, "operation.queued", {Len(x.ops) + 1}, info))
      /\ y.corrections = IF info = "replace" THEN x.corrections \cup {Len(x.ops) + 1}
                                             ELSE x.corrections
  BY <1>2
<1> HIDE DEF y
<1>4. Admits(x, y)
  BY <1>3 DEF Admits
<1> QED
  BY <1>3, <1>4 DEF Change, y

\* The step is a sequence of at most three changes.
Explainable == \E x, y : Change(Run, x) /\ Change(x, y) /\ Change(y, Run')

LEMMA Rests ==
    ASSUME NEW x, Sound(x) PROVE Change(x, x)
<1>1. Waits(x, x)
  BY DEF Sound, Waits, SameEra, SameWork, SameTrack, SameCounts
<1> QED
  BY <1>1 DEF Change

LEMMA OneChange ==
    ASSUME Sound(Run), Sound(Run'), Change(Run, Run') PROVE Explainable
  BY Rests DEF Explainable

LEMMA MoveChanges ==
    ASSUME TypeOK, Accounts, CallsFinite, Sound(Run), Sound(Run'),
           NEW call \in CallIds, NEW d \in Delegations, NEW command \in Commands,
           DispatchMove(call, d, command)
    PROVE  Explainable
<1> DEFINE o == Admitted(call, d, command, epoch)
<1>0. now \in Nat /\ epoch \in Nat /\ operations \in Seq(Operation)
      /\ command \in GameCommand /\ command.type = "move"
      /\ command.type \in {"move", "replace"}
  BY CommandsAssumption DEF TypeOK, DispatchMove
<1>1. /\ o \in Operation /\ o.call = call /\ o.delegation = d /\ o.epoch = epoch
      /\ o.status = "queued" /\ o.createdAt = now
  <2>1. o \in Operation
    BY <1>0, AdmittedType
  <2>2. /\ o.call = call /\ o.delegation = d /\ o.epoch = epoch
        /\ o.status = "queued" /\ o.createdAt = now
    BY DEF Admitted
  <2> QED
    BY <2>1, <2>2
<1>2. /\ operations' = Append(operations, o) /\ call \notin DOMAIN calls
      /\ events' = Append(events, LogEntry("operation.queued", {Len(operations) + 1}, "move"))
      /\ Remember(call, d, command, "queued", Len(operations) + 1)
      /\ d \in DOMAIN delegations /\ delegations[d].epoch = epoch /\ ~stopped
      /\ UNCHANGED <<mode, now, cargo, delegations, epoch, stopped, barrier, lastStepAt>>
  BY AcceptedCall DEF DispatchMove
<1> HIDE DEF o
<1>3. /\ Cardinality(Intents') = Cardinality(Intents)
      /\ Cardinality(RefusedCalls') = Cardinality(RefusedCalls)
  <2>1. Cardinality(Intents) \in Nat /\ Cardinality(RefusedCalls) \in Nat
    BY CallsWithFinite DEF Intents, RefusedCalls
  <2>2. Cardinality(Intents') = Cardinality(Intents) + 0
    <3>1. command.type \notin {"cancel", "replace"}
      BY <1>0
    <3> QED
      BY <1>2, <3>1, CountRemembered DEF Intents
  <2>3. Cardinality(RefusedCalls') = Cardinality(RefusedCalls) + 0
    BY <1>0, <1>2, CountRemembered DEF RefusedCalls
  <2> QED
    BY <2>1, <2>2, <2>3
<1>4. OperationsFrom("replace")' = OperationsFrom("replace")
  <2>0. calls'[call].command = command /\ \A c \in DOMAIN calls \ {call} : calls'[c] = calls[c]
    BY <1>2, RememberedCall
  <2>1. calls'[o.call].command.type # "replace" /\ \A c \in DOMAIN calls : calls'[c] = calls[c]
    BY <1>0, <1>1, <1>2, <2>0
  <2> QED
    BY <1>0, <1>1, <1>2, <2>1, LedgerFacts, CorrectionsGrow
<1>5. /\ SameHost(Run, Run') /\ SameEra(Run, Run') /\ SameTrack(Run, Run')
      /\ SameCounts(Run, Run')
  BY <1>2, <1>3, RunFields, RunFieldsNext DEF SameHost, SameEra, SameTrack, SameCounts
<1>6. Change(Run, Run')
  BY <1>1, <1>2, <1>4, <1>5, RunFields, RunFieldsNext, AdmissionChanges
<1> QED
  BY <1>6, OneChange

LEMMA ReplaceChanges ==
    ASSUME TypeOK, Accounts, CallsFinite, Sound(Run), Sound(Run'),
           NEW call \in CallIds, NEW d \in Delegations, NEW command \in Commands,
           DispatchReplace(call, d, command)
    PROVE  Explainable
<1> DEFINE o == Admitted(call, d, command, EpochAfterCancel)
           x == Variant(events \o EntriesOfCancel("replace"), OperationsAfterCancel, cargo,
                        EpochAfterCancel, BarrierAfterCancel, lastStepAt, Run.intents + 1)
<1>0. now \in Nat /\ epoch \in Nat /\ operations \in Seq(Operation)
      /\ command \in GameCommand /\ command.type = "replace"
      /\ command.type \in {"move", "replace"}
      /\ OperationsAfterCancel \in Seq(Operation)
      /\ Len(OperationsAfterCancel) = Len(operations) /\ EpochAfterCancel \in Nat
  BY CommandsAssumption, AfterCancelType DEF TypeOK, DispatchReplace
<1>1. /\ o \in Operation /\ o.call = call /\ o.delegation = d /\ o.epoch = EpochAfterCancel
      /\ o.status = "queued" /\ o.createdAt = now
  <2>1. o \in Operation
    BY <1>0, AdmittedType
  <2>2. /\ o.call = call /\ o.delegation = d /\ o.epoch = EpochAfterCancel
        /\ o.status = "queued" /\ o.createdAt = now
    BY DEF Admitted
  <2> QED
    BY <2>1, <2>2
<1>2. /\ operations' = Append(OperationsAfterCancel, o) /\ call \notin DOMAIN calls
      /\ events' = (events \o EntriesOfCancel("replace"))
                     \o <<LogEntry("operation.queued", {Len(operations) + 1}, "replace")>>
      /\ Remember(call, d, command, "queued", Len(operations) + 1)
      /\ d \in DOMAIN delegations /\ delegations[d].epoch = epoch /\ ~stopped
      /\ epoch' = EpochAfterCancel /\ barrier' = BarrierAfterCancel
      /\ UNCHANGED <<mode, now, cargo, delegations, stopped, lastStepAt>>
  BY AcceptedCall DEF DispatchReplace
<1>3. /\ x.log = events \o EntriesOfCancel("replace") /\ x.ops = OperationsAfterCancel
      /\ x.pos = cargo /\ x.ds = delegations /\ x.epoch = EpochAfterCancel
      /\ x.halted = stopped /\ x.barrier = BarrierAfterCancel /\ x.last = lastStepAt
      /\ x.mode = mode /\ x.time = now /\ x.intents = Run.intents + 1
      /\ x.refused = Cardinality(RefusedCalls) /\ x.corrections = OperationsFrom("replace")
  BY DEF Variant
<1> HIDE DEF o, x
<1>4. Change(Run, x)
  <2>1. SameHost(Run, x) /\ SameTrack(Run, x)
    BY <1>3, RunFields DEF SameHost, SameTrack
  <2> QED
    BY <1>2, <1>3, <2>1, RunFields, CancelChanges
<1>5. /\ Cardinality(Intents') = Cardinality(Intents) + 1
      /\ Cardinality(RefusedCalls') = Cardinality(RefusedCalls)
  <2>1. Cardinality(RefusedCalls) \in Nat
    BY CallsWithFinite DEF RefusedCalls
  <2>2. Cardinality(Intents') = Cardinality(Intents) + 1
    BY <1>0, <1>2, CountRemembered DEF Intents
  <2>3. Cardinality(RefusedCalls') = Cardinality(RefusedCalls) + 0
    BY <1>0, <1>2, CountRemembered DEF RefusedCalls
  <2> QED
    BY <2>1, <2>2, <2>3
<1>6. OperationsFrom("replace")' = OperationsFrom("replace") \cup {Len(operations) + 1}
  <2>0. calls'[call].command = command /\ \A c \in DOMAIN calls \ {call} : calls'[c] = calls[c]
    BY <1>2, RememberedCall
  <2>1. calls'[o.call].command.type = "replace" /\ \A c \in DOMAIN calls : calls'[c] = calls[c]
    BY <1>0, <1>1, <1>2, <2>0
  <2>2. /\ DOMAIN OperationsAfterCancel = DOMAIN operations
        /\ \A i \in DOMAIN operations : OperationsAfterCancel[i].call = operations[i].call
    BY <1>0, InvalidatedType DEF OperationsAfterCancel
  <2> QED
    BY <1>0, <1>1, <1>2, <2>1, <2>2, LedgerFacts, CorrectionsGrow
<1>7. /\ SameHost(x, Run') /\ SameEra(x, Run') /\ SameTrack(x, Run')
      /\ SameCounts(x, Run')
  BY <1>2, <1>3, <1>5, RunFields, RunFieldsNext DEF SameHost, SameEra, SameTrack, SameCounts
<1>8. Sound(x)
  BY <1>4 DEF Change
<1>9. (Run').log = Append(x.log, LogEntry("operation.queued", {Len(x.ops) + 1}, "replace"))
  <2> DEFINE a == LogEntry("operation.queued", {Len(x.ops) + 1}, "replace")
  <2>0. a = LogEntry("operation.queued", {Len(operations) + 1}, "replace")
    BY <1>0, <1>3
  <2>1. LogEntry("operation.queued", {Len(operations) + 1}, "replace") \in Event
    <3>1. {Len(operations) + 1} \in SUBSET Nat
      BY <1>0
    <3>2. "operation.queued" \in EventKinds /\ "replace" \in Infos
      BY DEF EventKinds, Infos
    <3> QED
      BY <1>0, <3>1, <3>2, LogEntryType
  <2>2. x.log \in Seq(Event)
    BY <1>8 DEF Sound
  <2> HIDE DEF a
  <2>3. (Run').log = x.log \o <<a>>
    BY <1>2, <1>3, <2>0, RunFieldsNext
  <2>4. x.log \o <<a>> = Append(x.log, a)
    BY <2>0, <2>1, <2>2
  <2> QED
    BY <2>3, <2>4 DEF a
<1>10. delegations[d].epoch =
         IF mode = "cancel-actions" THEN x.epoch - 1 ELSE x.epoch
  BY <1>0, <1>2, <1>3 DEF EpochAfterCancel, CancelApplies
<1>11. /\ (Run').ops = Append(x.ops, o)
       /\ (Run').corrections = x.corrections \cup {Len(x.ops) + 1}
  BY <1>0, <1>2, <1>3, <1>6, RunFieldsNext
<1>12. Change(x, Run')
  BY <1>1, <1>2, <1>3, <1>7, <1>8, <1>9, <1>10, <1>11, AdmissionChanges
<1>13. Change(Run', Run')
  BY Rests
<1> QED
  BY <1>4, <1>12, <1>13 DEF Explainable

LEMMA CancelDispatchChanges ==
    ASSUME TypeOK, Accounts, CallsFinite, Sound(Run), Sound(Run'),
           NEW call \in CallIds, NEW d \in Delegations, DispatchCancel(call, d)
    PROVE  Explainable
<1>1. PICK outcome \in {"cancelled", "observed-not-applied"} :
        Remember(call, d, Cancel, outcome, NoOperation)
  BY DEF DispatchCancel
<1>2. /\ operations' = OperationsAfterCancel /\ epoch' = EpochAfterCancel
      /\ barrier' = BarrierAfterCancel /\ events' = events \o EntriesOfCancel("cancel")
      /\ call \notin DOMAIN calls /\ ~stopped
      /\ UNCHANGED <<mode, now, cargo, delegations, stopped, lastStepAt>>
  BY AcceptedCall DEF DispatchCancel
<1>3. /\ Cardinality(Intents') = Cardinality(Intents) + 1
      /\ Cardinality(RefusedCalls') = Cardinality(RefusedCalls)
  <2>1. Cardinality(RefusedCalls) \in Nat /\ Cancel.type = "cancel"
    BY CallsWithFinite DEF RefusedCalls, Cancel
  <2>2. Cardinality(Intents') = Cardinality(Intents) + 1
    BY <1>1, <1>2, <2>1, CountRemembered DEF Intents
  <2>3. Cardinality(RefusedCalls') = Cardinality(RefusedCalls) + 0
    BY <1>1, <1>2, CountRemembered DEF RefusedCalls
  <2> QED
    BY <2>1, <2>2, <2>3
<1>4. OperationsFrom("replace")' = OperationsFrom("replace")
  <2>1. /\ DOMAIN OperationsAfterCancel = DOMAIN operations
        /\ \A i \in DOMAIN operations : OperationsAfterCancel[i].call = operations[i].call
    BY AfterCancelType, InvalidatedType DEF OperationsAfterCancel, TypeOK
  <2>2. \A c \in DOMAIN calls : calls'[c] = calls[c]
    <3>1. \A c \in DOMAIN calls \ {call} : calls'[c] = calls[c]
      BY <1>1, RememberedCall
    <3> QED
      BY <1>2, <3>1
  <2> QED
    BY <1>2, <2>1, <2>2, LedgerFacts, CorrectionsKept
<1>5. SameHost(Run, Run') /\ SameTrack(Run, Run')
  BY <1>2, RunFields, RunFieldsNext DEF SameHost, SameTrack
<1>6. Change(Run, Run')
  <2> DEFINE y == Run'
  <2>1. /\ y.log = events \o EntriesOfCancel("cancel") /\ y.ops = OperationsAfterCancel
        /\ y.epoch = EpochAfterCancel /\ y.barrier = BarrierAfterCancel
        /\ y.intents = Run.intents + 1 /\ y.refused = Run.refused
        /\ y.corrections = Run.corrections /\ y.halted = stopped
        /\ SameHost(Run, y) /\ SameTrack(Run, y)
    BY <1>2, <1>3, <1>4, <1>5, RunFields, RunFieldsNext
  <2> HIDE DEF y
  <2>2. Change(Run, y)
    BY <1>2, <2>1, CancelChanges
  <2> QED
    BY <2>2 DEF y
<1> QED
  BY <1>6, OneChange

LEMMA RegisterChanges ==
    ASSUME TypeOK, CallsFinite, Sound(Run), Sound(Run'),
           NEW id \in Delegations, NEW offset \in Offsets, RegisterDelegation(id, offset)
    PROVE  Explainable
<1>1. /\ id \notin DOMAIN delegations
      /\ delegations' = With(delegations, id, [epoch |-> epoch, offset |-> offset])
      /\ events' = Append(events, LogEntry("delegation.registered", {}, "none"))
      /\ UNCHANGED <<mode, now, cargo, operations, calls, epoch, stopped, barrier,
                     lastStepAt>>
  BY DEF RegisterDelegation
<1>2. ~stopped /\ (offset # NoOffset => offset > barrier)
  <2>1. /\ ~stopped
        /\ ~(offset # NoOffset /\ barrier # NoBarrier /\ offset <= barrier)
    BY DEF RegisterDelegation, RegistrationRefusal
  <2>2. (offset = NoOffset \/ offset \in Nat) /\ barrier \in Nat \cup {NoBarrier}
    BY ClockAssumption DEF TypeOK, Offsets
  <2> QED
    BY <2>1, <2>2 DEF NoBarrier, NoOffset
<1>3. /\ Cardinality(Intents') = Cardinality(Intents)
      /\ Cardinality(RefusedCalls') = Cardinality(RefusedCalls)
      /\ OperationsFrom("replace")' = OperationsFrom("replace")
  BY <1>1, CountsKept
<1>4. /\ SameEra(Run, Run') /\ SameWork(Run, Run') /\ SameTrack(Run, Run')
      /\ SameCounts(Run, Run')
  BY <1>1, <1>3, RunFields, RunFieldsNext DEF SameEra, SameWork, SameTrack, SameCounts
<1>5. (Run').log = Append(Run.log, Entry(Run, "delegation.registered", {}, "none"))
  BY <1>1, RunFields, RunFieldsNext DEF LogEntry, Entry
<1>6. Registers(Run, Run')
  <2>1. /\ id \notin DOMAIN Run.ds /\ (offset # NoOffset => offset > Run.barrier)
        /\ (Run').ds = With(Run.ds, id, [epoch |-> Run.epoch, offset |-> offset])
        /\ (Run').mode = Run.mode /\ (Run').time = Run.time /\ ~Run.halted
    BY <1>1, <1>2, RunFields, RunFieldsNext
  <2> QED
    BY <1>4, <1>5, <2>1 DEF Registers
<1>7. Change(Run, Run')
  BY <1>6 DEF Change
<1> QED
  BY <1>7, OneChange

LEMMA RefusalChanges ==
    ASSUME Sound(Run), Sound(Run'),
           NEW kind \in {"delegation.rejected", "command.rejected"}, NEW info \in Refusals,
           events' = Append(events, LogEntry(kind, {}, info)),
           UNCHANGED <<mode, now, cargo, operations, delegations, epoch, stopped, barrier,
                       lastStepAt>>,
           Cardinality(Intents') = Cardinality(Intents),
           \/ Cardinality(RefusedCalls') = Cardinality(RefusedCalls)
           \/ /\ info \in {"late", "unregistered", "terminal"}
              /\ Cardinality(RefusedCalls') = Cardinality(RefusedCalls) + 1,
           OperationsFrom("replace")' = OperationsFrom("replace")
    PROVE  Explainable
<1>1. /\ SameHost(Run, Run') /\ SameEra(Run, Run') /\ SameWork(Run, Run')
      /\ SameTrack(Run, Run') /\ (Run').intents = Run.intents
  BY RunFields, RunFieldsNext DEF SameHost, SameEra, SameWork, SameTrack
<1>2. (Run').log = Append(Run.log, Entry(Run, kind, {}, info))
  BY RunFields, RunFieldsNext DEF LogEntry, Entry
<1>3. \/ (Run').refused = Run.refused
      \/ /\ info \in {"late", "unregistered", "terminal"}
         /\ (Run').refused = Run.refused + 1
  BY RunFields, RunFieldsNext
<1>4. Refuses(Run, Run')
  BY <1>1, <1>2, <1>3 DEF Refuses
<1>5. Change(Run, Run')
  BY <1>4 DEF Change
<1> QED
  BY <1>5, OneChange

LEMMA RefusedDelegationChanges ==
    ASSUME Sound(Run), Sound(Run'),
           NEW id \in Delegations, NEW offset \in Offsets, RefuseDelegation(id, offset)
    PROVE  Explainable
<1>1. RegistrationRefusal(id, offset) \in Refusals
  BY DEF RefuseDelegation, RegistrationRefusal, Refusals
<1>2. /\ events' = Append(events, LogEntry("delegation.rejected", {},
                                           RegistrationRefusal(id, offset)))
      /\ UNCHANGED <<mode, now, cargo, operations, delegations, calls, epoch,
                     stopped, barrier, lastStepAt>>
  BY DEF RefuseDelegation
<1>3. /\ Cardinality(Intents') = Cardinality(Intents)
      /\ Cardinality(RefusedCalls') = Cardinality(RefusedCalls)
      /\ OperationsFrom("replace")' = OperationsFrom("replace")
  BY <1>2, CountsKept
<1> QED
  BY <1>1, <1>2, <1>3, RefusalChanges

LEMMA InvalidChanges ==
    ASSUME Sound(Run), Sound(Run'), DispatchInvalid PROVE Explainable
<1>1. PICK info \in Refusals : events' = Append(events, LogEntry("command.rejected", {}, info))
  BY DEF DispatchInvalid, Refusals
<1>2. UNCHANGED <<mode, now, cargo, operations, delegations, calls, epoch,
                  stopped, barrier, lastStepAt>>
  BY DEF DispatchInvalid
<1>3. /\ Cardinality(Intents') = Cardinality(Intents)
      /\ Cardinality(RefusedCalls') = Cardinality(RefusedCalls)
      /\ OperationsFrom("replace")' = OperationsFrom("replace")
  BY <1>2, CountsKept
<1> QED
  BY <1>1, <1>2, <1>3, RefusalChanges

LEMMA CommandTypes ==
    ASSUME NEW command \in Commands PROVE command.type \in {"move", "cancel", "replace"}
  BY CommandsAssumption DEF GameCommand, Cancel

LEMMA RefusedCallChanges ==
    ASSUME TypeOK, Accounts, CallsFinite, Sound(Run), Sound(Run'),
           NEW call \in CallIds, NEW d \in Delegations, NEW command \in Commands,
           DispatchRefused(call, d, command)
    PROVE  Explainable
<1>1. /\ call \notin DOMAIN calls /\ CallRefusal(d) # "none"
      /\ Remember(call, d, command, "rejected", NoOperation)
      /\ events' = Append(events, LogEntry("command.rejected", {}, CallRefusal(d)))
      /\ UNCHANGED <<mode, now, cargo, operations, delegations, epoch, stopped, barrier,
                     lastStepAt>>
  BY DEF DispatchRefused
<1>2. CallRefusal(d) \in {"late", "unregistered", "terminal"} /\ CallRefusal(d) \in Refusals
  BY <1>1 DEF CallRefusal, Refusals
<1>3. Cardinality(Intents') = Cardinality(Intents)
  <2>1. Cardinality(Intents) \in Nat
    BY CallsWithFinite DEF Intents
  <2>2. Cardinality(Intents') = Cardinality(Intents) + 0
    BY <1>1, CountRemembered DEF Intents
  <2> QED
    BY <2>1, <2>2
<1>4. Cardinality(RefusedCalls') = Cardinality(RefusedCalls) + 1
  BY <1>1, CommandTypes, CountRemembered DEF RefusedCalls
<1>5. OperationsFrom("replace")' = OperationsFrom("replace")
  <2>1. \A c \in DOMAIN calls \ {call} : calls'[c] = calls[c]
    BY <1>1, RememberedCall
  <2>2. \A c \in DOMAIN calls : calls'[c] = calls[c]
    BY <1>1, <2>1
  <2> QED
    BY <1>1, <2>2, LedgerFacts, CorrectionsKept
<1> QED
  BY <1>1, <1>2, <1>3, <1>4, <1>5, RefusalChanges

LEMMA StopChanges ==
    ASSUME TypeOK, Accounts, Sound(Run), Sound(Run'), Stop PROVE Explainable
<1> DEFINE b == LogEntry("operation.cancelled", PendingIn(operations), "engine.stopped")
           a == LogEntry("engine.stopped", {}, "none")
<1>1. /\ ~stopped /\ stopped' = TRUE /\ epoch' = epoch + 1
      /\ operations' = Invalidated(operations)
      /\ events' = (events \o CancelledEntries("engine.stopped")) \o <<a>>
      /\ UNCHANGED <<mode, now, cargo, delegations, calls, barrier, lastStepAt>>
  BY DEF Stop
<1>2. events \in Seq(Event) /\ operations \in Seq(Operation) /\ now \in Nat
  BY DEF TypeOK
<1>3. a \in Event /\ b \in Event
  <2>1. PendingIn(operations) \in SUBSET Nat /\ {} \in SUBSET Nat
    BY <1>2 DEF PendingIn
  <2>2. "engine.stopped" \in EventKinds /\ "operation.cancelled" \in EventKinds
        /\ "engine.stopped" \in Infos /\ "none" \in Infos
    BY DEF EventKinds, Infos
  <2> QED
    BY <1>2, <2>1, <2>2, LogEntryType
<1>4. /\ a = Entry(Run, "engine.stopped", {}, "none")
      /\ b = Entry(Run, "operation.cancelled", PendingIn(Run.ops), "engine.stopped")
  BY RunFields DEF LogEntry, Entry
<1>5. events' = (events \o (IF PendingIn(operations) = {} THEN <<>> ELSE <<b>>)) \o <<a>>
  BY <1>1 DEF CancelledEntries
<1> HIDE DEF a, b
<1>6. events' = Append(IF PendingIn(operations) = {} THEN events ELSE Append(events, b), a)
  <2>1. (events \o <<>>) \o <<a>> = Append(events, a)
    BY <1>2, <1>3
  <2>2. (events \o <<b>>) \o <<a>> = Append(Append(events, b), a)
    BY <1>2, <1>3
  <2> QED
    BY <1>5, <2>1, <2>2
<1>7. (Run').log = Append(Ending(Run, Run.log, "engine.stopped"),
                          Entry(Run, "engine.stopped", {}, "none"))
  BY <1>4, <1>6, RunFields, RunFieldsNext DEF Ending
<1>8. /\ Cardinality(Intents') = Cardinality(Intents)
      /\ Cardinality(RefusedCalls') = Cardinality(RefusedCalls)
  BY <1>1 DEF Intents, RefusedCalls, CallsWith
<1>9. OperationsFrom("replace")' = OperationsFrom("replace")
  <2>1. /\ DOMAIN operations' = DOMAIN operations
        /\ \A i \in DOMAIN operations : operations'[i].call = operations[i].call
    BY <1>1, <1>2, InvalidatedType
  <2> QED
    BY <1>1, <2>1, LedgerFacts, CorrectionsKept
<1>10. EndsPending(Run, Run')
  <2> DEFINE y == Run'
  <2>1. y.ops = Invalidated(Run.ops) /\ y.corrections = Run.corrections
        /\ Run.ops \in Seq(Operation)
    BY <1>1, <1>2, <1>9, RunFields, RunFieldsNext
  <2> HIDE DEF y
  <2>2. EndsPending(Run, y)
    BY <1>2, <2>1, InvalidatedEnds
  <2> QED
    BY <2>2 DEF y
<1>11. SameHost(Run, Run') /\ SameTrack(Run, Run') /\ SameCounts(Run, Run')
  BY <1>1, <1>8, RunFields, RunFieldsNext DEF SameHost, SameTrack, SameCounts
<1>12. Halts(Run, Run')
  BY <1>1, <1>7, <1>10, <1>11, RunFields, RunFieldsNext DEF Halts
<1>13. Change(Run, Run')
  BY <1>12 DEF Change
<1> QED
  BY <1>13, OneChange

LEMMA WaitingChanges ==
    ASSUME Sound(Run), Sound(Run'), now' \in Nat, now' >= now,
           UNCHANGED <<mode, cargo, operations, delegations, calls, epoch, stopped, barrier,
                       lastStepAt, events>>
    PROVE  Explainable
<1>1. /\ Cardinality(Intents') = Cardinality(Intents)
      /\ Cardinality(RefusedCalls') = Cardinality(RefusedCalls)
      /\ OperationsFrom("replace")' = OperationsFrom("replace")
  BY CountsKept
<1>2. Waits(Run, Run')
  BY <1>1, RunFields, RunFieldsNext DEF Waits, SameEra, SameWork, SameTrack, SameCounts
<1>3. Change(Run, Run')
  BY <1>2 DEF Change
<1> QED
  BY <1>3, OneChange

\* An operation that is already running is not rewritten by its start.
LEMMA RunningStays ==
    ASSUME NEW ops \in Seq(Operation), NEW i \in DOMAIN ops, ops[i].status = "running"
    PROVE  [ops EXCEPT ![i] = [ops[i] EXCEPT !.status = "running"]] = ops
<1>1. ops[i] \in Operation
  OBVIOUS
<1>2. [ops[i] EXCEPT !.status = "running"] = ops[i]
  BY <1>1 DEF Operation
<1> QED
  BY <1>2

LEMMA Restated ==
    ASSUME NEW x, NEW y, x.ops \in Seq(Operation), NEW i \in DOMAIN x.ops, NEW r, NEW status,
           y.ops = [x.ops EXCEPT ![i] = r], r.status = status,
           r.cargo = x.ops[i].cargo, r.destination = x.ops[i].destination,
           r.delegation = x.ops[i].delegation, r.epoch = x.ops[i].epoch,
           r.createdAt = x.ops[i].createdAt, y.corrections = x.corrections
    PROVE  Restates(x, y, i, status)
<1>1. DOMAIN y.ops = DOMAIN x.ops /\ y.ops[i] = r
      /\ \A j \in DOMAIN x.ops \ {i} : y.ops[j] = x.ops[j]
  OBVIOUS
<1> QED
  BY <1>1 DEF Restates

\* A tick starts the first pending operation, moves its cargo and completes it, as far
\* as each of these is due.
LEMMA TickChanges ==
    ASSUME TypeOK, Accounts, Sound(Run), Sound(Run'), Tick PROVE Explainable
<1> DEFINE o(i) == operations[i]
           from(i) == cargo[o(i).cargo]
           target(i) == Target(o(i))
           to(i) == IF from(i) < target(i) THEN from(i) + 1
                    ELSE IF from(i) > target(i) THEN from(i) - 1 ELSE from(i)
           started(i) == LogEntry("operation.started", {i}, "none")
           step(i) == LogEntry("operation.step", {i}, "none")
           completed(i) == LogEntry("operation.completed", {i}, "none")
<1>1. PICK i \in DOMAIN operations :
        /\ ~stopped /\ IsFirstPending(i)
        /\ from(i) # target(i) => Paced(i)
        /\ cargo' = [cargo EXCEPT ![o(i).cargo] = to(i)]
        /\ lastStepAt' = IF from(i) # target(i) THEN now ELSE lastStepAt
        /\ operations' = [operations EXCEPT
             ![i] = IF to(i) = target(i) THEN Ended(o(i), "completed")
                    ELSE [o(i) EXCEPT !.status = "running"]]
        /\ events' = events
             \o (IF o(i).status = "queued" THEN <<started(i)>> ELSE <<>>)
             \o (IF from(i) # target(i) THEN <<step(i)>> ELSE <<>>)
             \o (IF to(i) = target(i) THEN <<completed(i)>> ELSE <<>>)
  BY DEF Tick, Arrived
<1>2. UNCHANGED <<mode, now, delegations, calls, epoch, stopped, barrier>>
  BY DEF Tick
<1> DEFINE r == [o(i) EXCEPT !.status = "running"]
           s1 == [operations EXCEPT ![i] = r]
           l1 == IF o(i).status = "queued" THEN Append(events, started(i)) ELSE events
           l2 == IF from(i) # target(i) THEN Append(l1, step(i)) ELSE l1
           x == Variant(l1, s1, cargo, epoch, barrier, lastStepAt, Run.intents)
           y == Variant(l2, s1, cargo', epoch, barrier, lastStepAt', Run.intents)
           z == Run'
<1>3. /\ x.log = l1 /\ x.ops = s1 /\ x.pos = cargo /\ x.ds = delegations
      /\ x.epoch = epoch /\ x.halted = stopped /\ x.barrier = barrier
      /\ x.last = lastStepAt /\ x.mode = mode /\ x.time = now /\ x.intents = Run.intents
      /\ x.refused = Cardinality(RefusedCalls) /\ x.corrections = OperationsFrom("replace")
  BY DEF Variant
<1>4. /\ y.log = l2 /\ y.ops = s1 /\ y.pos = cargo' /\ y.ds = delegations
      /\ y.epoch = epoch /\ y.halted = stopped /\ y.barrier = barrier
      /\ y.last = lastStepAt' /\ y.mode = mode /\ y.time = now /\ y.intents = Run.intents
      /\ y.refused = Cardinality(RefusedCalls) /\ y.corrections = OperationsFrom("replace")
  BY DEF Variant
<1>5. /\ events \in Seq(Event) /\ operations \in Seq(Operation) /\ now \in Nat
      /\ lastStepAt \in Nat /\ cargo \in [Cargo -> 0..Right] /\ i \in Nat
  BY DEF TypeOK
<1>6. o(i) \in Operation /\ Pending(o(i))
  BY <1>1, <1>5 DEF IsFirstPending, PendingIn
<1>7. o(i).status \in {"queued", "running"} /\ o(i).cargo \in Cargo
      /\ o(i).destination \in {"left", "right"} /\ o(i).createdAt \in Nat
  BY <1>6, OperationType DEF Pending, Destinations
<1>8. /\ r \in Operation /\ r.status = "running"
      /\ r.call = o(i).call /\ r.delegation = o(i).delegation /\ r.epoch = o(i).epoch
      /\ r.cargo = o(i).cargo /\ r.destination = o(i).destination
      /\ r.createdAt = o(i).createdAt
  BY <1>6, StartedType
<1>9. /\ started(i) \in Event /\ step(i) \in Event /\ completed(i) \in Event
  <2>1. {i} \in SUBSET Nat /\ "none" \in Infos
        /\ "operation.started" \in EventKinds /\ "operation.step" \in EventKinds
        /\ "operation.completed" \in EventKinds
    BY <1>5 DEF EventKinds, Infos
  <2> QED
    BY <1>5, <2>1, LogEntryType
<1>10. /\ started(i) = Entry(Run, "operation.started", {i}, "none")
       /\ step(i) = Entry(x, "operation.step", {i}, "none")
       /\ completed(i) = Entry(y, "operation.completed", {i}, "none")
  BY <1>3, <1>4, RunFields DEF LogEntry, Entry
<1>11. from(i) \in 0..Right /\ target(i) = (IF o(i).destination = "left" THEN 0 ELSE Right)
  BY <1>5, <1>7 DEF Target
<1>12. events' = IF to(i) = target(i) THEN Append(l2, completed(i)) ELSE l2
  <2> DEFINE a == IF o(i).status = "queued" THEN <<started(i)>> ELSE <<>>
             b == IF from(i) # target(i) THEN <<step(i)>> ELSE <<>>
             c == IF to(i) = target(i) THEN <<completed(i)>> ELSE <<>>
  <2>1. events' = events \o a \o b \o c
    BY <1>1
  <2> HIDE DEF started, step, completed, to, from, target
  <2>2. l1 = events \o a /\ l1 \in Seq(Event)
    BY <1>5, <1>9
  <2> HIDE DEF l1, a
  <2>3. l2 = l1 \o b /\ l2 \in Seq(Event)
    <3>1. l1 \o <<step(i)>> = Append(l1, step(i)) /\ Append(l1, step(i)) \in Seq(Event)
      BY <1>9, <2>2
    <3>2. l1 \o <<>> = l1
      BY <2>2
    <3> QED
      BY <2>2, <3>1, <3>2
  <2> HIDE DEF l2, b
  <2>4. l2 \o c = IF to(i) = target(i) THEN Append(l2, completed(i)) ELSE l2
    <3>1. l2 \o <<completed(i)>> = Append(l2, completed(i))
      BY <1>9, <2>3
    <3>2. l2 \o <<>> = l2
      BY <2>3
    <3> QED
      BY <3>1, <3>2
  <2> QED
    BY <2>1, <2>2, <2>3, <2>4
<1>13. l1 \in Seq(Event) /\ l2 \in Seq(Event)
  <2> HIDE DEF started, step, completed, to, from, target
  <2>1. l1 \in Seq(Event)
    BY <1>5, <1>9
  <2> HIDE DEF l1
  <2> QED
    BY <1>9, <2>1
<1>14. s1 \in Seq(Operation) /\ DOMAIN s1 = DOMAIN operations /\ s1[i] = r
  <2> HIDE DEF r
  <2> QED
    BY <1>5, <1>8
<1>15. cargo' \in [Cargo -> 0..Right] /\ lastStepAt' \in Nat
  BY RunFieldsNext DEF Sound
<1>16. /\ Cardinality(Intents') = Cardinality(Intents)
       /\ Cardinality(RefusedCalls') = Cardinality(RefusedCalls)
  BY <1>2 DEF Intents, RefusedCalls, CallsWith
<1>17. OperationsFrom("replace")' = OperationsFrom("replace")
  <2>1. Ended(o(i), "completed").call = o(i).call
    BY <1>6, <1>5, EndedType DEF Statuses
  <2>2. /\ DOMAIN operations' = DOMAIN operations
        /\ operations'[i].call = operations[i].call
        /\ \A k \in DOMAIN operations \ {i} : operations'[k] = operations[k]
    <3> HIDE DEF r
    <3> QED
      BY <1>1, <1>8, <2>1 DEF r
  <2>3. \A k \in DOMAIN operations : operations'[k].call = operations[k].call
    BY <2>2
  <2> QED
    BY <1>2, <2>2, <2>3, LedgerFacts, CorrectionsKept
<1>18. /\ z.log = events' /\ z.ops = operations' /\ z.pos = cargo' /\ z.ds = delegations
       /\ z.epoch = epoch /\ z.halted = stopped /\ z.barrier = barrier
       /\ z.last = lastStepAt' /\ z.mode = mode /\ z.time = now
       /\ z.intents = Run.intents /\ z.refused = Cardinality(RefusedCalls)
       /\ z.corrections = OperationsFrom("replace") /\ Sound(z)
  BY <1>2, <1>16, <1>17, RunFields, RunFieldsNext
<1> HIDE DEF x, y, z
<1>19. Sound(x)
  BY <1>3, <1>13, <1>14, RunFields DEF Sound
<1>20. Sound(y)
  BY <1>4, <1>13, <1>14, <1>15, RunFields DEF Sound
<1>21. Change(Run, x)
  <2>1. CASE o(i).status = "queued"
    <3>1. Restates(Run, x, i, "running")
      <4> HIDE DEF r
      <4> QED
        BY <1>3, <1>5, <1>8, RunFields, Restated
    <3>2. x.log = Append(Run.log, Entry(Run, "operation.started", {i}, "none"))
      BY <1>3, <1>10, <2>1, RunFields
    <3>3. SameHost(Run, x) /\ SameEra(Run, x) /\ SameTrack(Run, x) /\ SameCounts(Run, x)
      BY <1>3, RunFields DEF SameHost, SameEra, SameTrack, SameCounts
    <3>4. Starts(Run, x)
      BY <2>1, <3>1, <3>2, <3>3, RunFields DEF Starts
    <3> QED
      BY <1>19, <3>4 DEF Change
  <2>2. CASE o(i).status = "running"
    <3>1. s1 = operations /\ l1 = events
      BY <1>5, <2>2, RunningStays
    <3> HIDE DEF s1, l1
    <3>2. Waits(Run, x)
      BY <1>3, <1>5, <3>1, RunFields DEF Waits, SameEra, SameWork, SameTrack, SameCounts
    <3> QED
      BY <1>19, <3>2 DEF Change
  <2> QED
    BY <1>7, <2>1, <2>2
<1>22. Change(x, y)
  <2>1. SameHost(x, y) /\ SameEra(x, y) /\ SameWork(x, y) /\ SameCounts(x, y)
    BY <1>3, <1>4 DEF SameHost, SameEra, SameWork, SameCounts
  <2>2. CASE from(i) # target(i)
    <3>1. /\ now - o(i).createdAt >= StepInterval
          /\ now - lastStepAt >= StepInterval
      BY <1>1, <1>5, <1>7, <2>2, ClockAssumption DEF Paced, Larger
    <3>2. to(i) = IF o(i).destination = "right" THEN from(i) + 1 ELSE from(i) - 1
      BY <1>7, <1>11, <2>2, RightAssumption
    <3>3. y.pos = [x.pos EXCEPT ![s1[i].cargo] =
                     IF s1[i].destination = "right" THEN @ + 1 ELSE @ - 1]
      <4>1. s1[i].cargo = o(i).cargo /\ s1[i].destination = o(i).destination
        BY <1>8, <1>14
      <4> HIDE DEF s1, r
      <4> QED
        BY <1>1, <1>3, <1>4, <3>2, <4>1
    <3>4. y.log = Append(x.log, Entry(x, "operation.step", {i}, "none")) /\ y.last = x.time
      BY <1>1, <1>3, <1>4, <1>10, <2>2
    <3>5. s1[i].status = "running" /\ s1[i].createdAt = o(i).createdAt
      BY <1>8, <1>14
    <3> HIDE DEF s1, l1, l2, r
    <3>6. Moves(x, y)
      BY <1>3, <1>14, <2>1, <3>1, <3>3, <3>4, <3>5 DEF Moves
    <3> QED
      BY <1>19, <1>20, <3>6 DEF Change
  <2>3. CASE from(i) = target(i)
    <3>1. /\ y.log = x.log /\ y.last = x.last
      BY <1>1, <1>3, <1>4, <2>3
    <3>2. cargo' = cargo
      <4>1. to(i) = from(i)
        BY <2>3, <1>11, RightAssumption
      <4> HIDE DEF to
      <4> QED
        BY <1>1, <1>5, <1>7, <4>1
    <3>3. Waits(x, y)
      BY <1>3, <1>4, <1>5, <2>1, <3>1, <3>2 DEF Waits, SameHost, SameTrack
    <3> QED
      BY <1>19, <1>20, <3>3 DEF Change
  <2> QED
    BY <2>2, <2>3
<1>23. Change(y, z)
  <2>1. SameHost(y, z) /\ SameEra(y, z) /\ SameTrack(y, z) /\ SameCounts(y, z)
    BY <1>4, <1>18 DEF SameHost, SameEra, SameTrack, SameCounts
  <2>2. CASE to(i) = target(i)
    <3> DEFINE e == Ended(o(i), "completed")
    <3>1. /\ e.status = "completed" /\ e.cargo = o(i).cargo
          /\ e.destination = o(i).destination /\ e.delegation = o(i).delegation
          /\ e.epoch = o(i).epoch /\ e.createdAt = o(i).createdAt
      BY <1>5, <1>6, EndedType DEF Statuses
    <3>2. operations' = [operations EXCEPT ![i] = e]
      BY <1>1, <2>2
    <3> HIDE DEF e, r, o
    <3>3. operations' = [s1 EXCEPT ![i] = e]
      BY <1>5, <3>2
    <3>4. Restates(y, z, i, "completed")
      BY <1>4, <1>8, <1>14, <1>18, <3>1, <3>3, Restated
    <3>5. z.log = Append(y.log, Entry(y, "operation.completed", {i}, "none"))
      BY <1>4, <1>10, <1>12, <1>18, <2>2
    <3>6. y.ops[i].status = "running" /\ i \in DOMAIN y.ops
      BY <1>4, <1>8, <1>14
    <3>7. Concludes(y, z)
      BY <2>1, <3>4, <3>5, <3>6 DEF Concludes
    <3> QED
      BY <1>18, <1>20, <3>7 DEF Change
  <2>3. CASE to(i) # target(i)
    <3>1. z.log = y.log /\ z.ops = y.ops
      BY <1>1, <1>4, <1>12, <1>18, <2>3
    <3>2. Waits(y, z)
      BY <1>4, <1>5, <1>18, <2>1, <3>1 DEF Waits, SameHost, SameWork
    <3> QED
      BY <1>18, <1>20, <3>2 DEF Change
  <2> QED
    BY <2>2, <2>3
<1> QED
  BY <1>21, <1>22, <1>23 DEF Explainable, z

\* Whatever the engine does, the log tells it change by change.
LEMMA RunChanges ==
    ASSUME TypeOK, TypeOK', Accounts, CallsFinite, Sound(Run), Sound(Run'), [Next]_vars
    PROVE  Explainable
<1>1. now \in Nat
  BY DEF TypeOK
<1>2. CASE \E d \in Delegations, offset \in Offsets : RegisterDelegation(d, offset)
  BY <1>2, RegisterChanges
<1>3. CASE \E d \in Delegations, offset \in Offsets : RefuseDelegation(d, offset)
  BY <1>3, RefusedDelegationChanges
<1>4. CASE \E call \in CallIds, d \in Delegations, command \in Commands :
             DispatchMove(call, d, command)
  BY <1>4, MoveChanges
<1>5. CASE \E call \in CallIds, d \in Delegations, command \in Commands :
             DispatchReplace(call, d, command)
  BY <1>5, ReplaceChanges
<1>6. CASE \E call \in CallIds, d \in Delegations, command \in Commands :
             DispatchRefused(call, d, command)
  BY <1>6, RefusedCallChanges
<1>7. CASE \E call \in CallIds, d \in Delegations : DispatchCancel(call, d)
  BY <1>7, CancelDispatchChanges
<1>8. CASE DispatchInvalid
  BY <1>8, InvalidChanges
<1>9. CASE Tick
  BY <1>9, TickChanges
<1>10. CASE Stop
  BY <1>10, StopChanges
<1>11. CASE AdvanceClock
  <2>1. /\ now' \in Nat /\ now' >= now
        /\ UNCHANGED <<mode, cargo, operations, delegations, calls, epoch, stopped, barrier,
                       lastStepAt, events>>
    BY <1>1, <1>11 DEF AdvanceClock
  <2> QED
    BY <2>1, WaitingChanges
<1>12. CASE UNCHANGED vars
  <2>1. /\ now' \in Nat /\ now' >= now
        /\ UNCHANGED <<mode, cargo, operations, delegations, calls, epoch, stopped, barrier,
                       lastStepAt, events>>
    BY <1>1, <1>12 DEF vars
  <2> QED
    BY <2>1, WaitingChanges
<1> QED
  BY <1>2, <1>3, <1>4, <1>5, <1>6, <1>7, <1>8, <1>9, <1>10, <1>11, <1>12
     DEF Next, RepeatRegistration, ReplayReceipt, TickReturns

\* What every step of the engine may rely on.
Grounded == TypeOK /\ Accounts /\ CallsFinite /\ Sound(Run)

LEMMA GroundedInvariant == Spec => []Grounded
<1>1. Init => CallsFinite
  BY FS_EmptySet DEF Init, CallsFinite
<1>2. TypeOK /\ CallsFinite /\ [Next]_vars => CallsFinite'
  BY FiniteStep
<1>3. TypeOK /\ CallsFinite => Sound(Run)
  BY RunIsSound
<1> QED
  BY <1>1, <1>2, <1>3, TypeCorrect, AccountsInvariant, PTL DEF Spec, Grounded

LEMMA GroundedChanges == Grounded /\ Grounded' /\ [Next]_vars => Explainable
<1> SUFFICES ASSUME Grounded, Grounded', [Next]_vars PROVE Explainable
  OBVIOUS
<1>1. TypeOK /\ Accounts /\ CallsFinite /\ Sound(Run) /\ TypeOK'
  BY DEF Grounded
<1>2. Sound(Run')
  BY DEF Grounded, Sound
<1> QED
  BY <1>1, <1>2, RunChanges

\* Paced steps: two steps of one run are never closer than the pacing interval, and no
\* step is closer than that to the admission of its operation.
THEOREM PacingCorrect == Spec => []PacedSteps
<1> DEFINE Inv == Named(Run) /\ Spaced(Run)
<1>1. Init => Inv
  BY RunFields DEF Init, Named, Spaced
<1>2. Grounded /\ Grounded' /\ Inv /\ [Next]_vars => Inv'
  <2> SUFFICES ASSUME Grounded, Grounded', Inv, [Next]_vars PROVE Inv'
    OBVIOUS
  <2>1. PICK x, y : Change(Run, x) /\ Change(x, y) /\ Change(y, Run')
    BY GroundedChanges DEF Explainable
  <2>2. Named(x) /\ Spaced(x)
    BY <2>1, NamedStep, SpacedStep
  <2>3. Named(y) /\ Spaced(y)
    BY <2>1, <2>2, NamedStep, SpacedStep
  <2>4. Named(Run') /\ Spaced(Run')
    BY <2>1, <2>3, NamedStep, SpacedStep
  <2> QED
    BY <2>4 DEF Named, Spaced
<1>3. Inv => PacedSteps
  BY RunFields DEF Spaced, PacedSteps, EventsOf
<1> QED
  BY <1>1, <1>2, <1>3, GroundedInvariant, PTL DEF Spec
-----------------------------------------------------------------------------
(* The log explains the state *)

LEMMA NamingAppend ==
    ASSUME NEW log \in Seq(Event), NEW a \in Event, NEW kind, NEW i
    PROVE  /\ Tally(log, Naming(kind, i)) \in Nat
           /\ Tally(Append(log, a), Naming(kind, i)) =
                Tally(log, Naming(kind, i)) + (IF a.kind = kind /\ i \in a.ops THEN 1 ELSE 0)
<1>1. a \in Naming(kind, i) <=> a.kind = kind /\ i \in a.ops
  BY DEF Naming
<1> QED
  BY <1>1, TallyType, TallyAppend

\* The entries an operation of one status may still get, and what they make of it.
Follows(status, kind, status2) ==
    \/ kind = "operation.started" /\ status = "queued" /\ status2 = "running"
    \/ kind = "operation.step" /\ status = "running" /\ status2 = "running"
    \/ kind = "operation.completed" /\ status = "running" /\ status2 = "completed"
    \/ kind = "operation.cancelled" /\ status \in {"queued", "running"}
         /\ status2 = "cancelled"

LEMMA ToldAppend ==
    ASSUME NEW log \in Seq(Event), NEW a \in Event, NEW i, NEW status, NEW status2,
           Told(log, i, status),
           \/ i \notin a.ops /\ status2 = status
           \/ i \in a.ops /\ Follows(status, a.kind, status2)
    PROVE  Told(Append(log, a), i, status2)
<1> DEFINE n(kind) == Tally(log, Naming(kind, i))
           m(kind) == Tally(Append(log, a), Naming(kind, i))
           one(kind) == IF a.kind = kind /\ i \in a.ops THEN 1 ELSE 0
<1>1. \A kind : n(kind) \in Nat /\ m(kind) = n(kind) + one(kind)
  BY NamingAppend
<1>2. /\ n("operation.queued") = 1
      /\ n("operation.completed") = IF status = "completed" THEN 1 ELSE 0
      /\ n("operation.cancelled") = IF status = "cancelled" THEN 1 ELSE 0
      /\ status = "running" => n("operation.started") = 1
      /\ status = "queued" => n("operation.started") + n("operation.step") = 0
  BY DEF Told
<1>3. /\ m("operation.queued") = n("operation.queued") + one("operation.queued")
      /\ m("operation.completed") = n("operation.completed") + one("operation.completed")
      /\ m("operation.cancelled") = n("operation.cancelled") + one("operation.cancelled")
      /\ m("operation.started") = n("operation.started") + one("operation.started")
      /\ m("operation.step") = n("operation.step") + one("operation.step")
      /\ n("operation.started") \in Nat /\ n("operation.step") \in Nat
  BY <1>1
<1> HIDE DEF n, m
<1>4. /\ m("operation.queued") = 1
      /\ m("operation.completed") = IF status2 = "completed" THEN 1 ELSE 0
      /\ m("operation.cancelled") = IF status2 = "cancelled" THEN 1 ELSE 0
      /\ status2 = "running" => m("operation.started") = 1
      /\ status2 = "queued" => m("operation.started") + m("operation.step") = 0
  <2>1. CASE i \notin a.ops /\ status2 = status
    BY <1>2, <1>3, <2>1
  <2>2. CASE i \in a.ops /\ Follows(status, a.kind, status2)
    <3>1. CASE a.kind = "operation.started"
      BY <1>2, <1>3, <2>2, <3>1 DEF Follows
    <3>2. CASE a.kind = "operation.step"
      BY <1>2, <1>3, <2>2, <3>2 DEF Follows
    <3>3. CASE a.kind = "operation.completed"
      BY <1>2, <1>3, <2>2, <3>3 DEF Follows
    <3>4. CASE a.kind = "operation.cancelled"
      <4>1. status # "completed" /\ status # "cancelled" /\ status2 = "cancelled"
        BY <2>2, <3>4 DEF Follows
      <4>2. /\ n("operation.queued") = 1 /\ n("operation.completed") = 0
            /\ n("operation.cancelled") = 0
        BY <1>2, <4>1
      <4> QED
        BY <1>3, <2>2, <3>4, <4>1, <4>2
    <3> QED
      BY <2>2, <3>1, <3>2, <3>3, <3>4 DEF Follows
  <2> QED
    BY <2>1, <2>2
<1> QED
  BY <1>4 DEF Told, m

\* A log that does not name an operation yet, and then queues it.
LEMMA ToldQueued ==
    ASSUME NEW log \in Seq(Event), NEW a \in Event, NEW i,
           \A e \in DOMAIN log : i \notin log[e].ops,
           a.kind = "operation.queued", i \in a.ops
    PROVE  Told(Append(log, a), i, "queued")
<1> DEFINE n(kind) == Tally(log, Naming(kind, i))
           m(kind) == Tally(Append(log, a), Naming(kind, i))
<1>1. \A kind : n(kind) = 0
  <2> SUFFICES ASSUME NEW kind PROVE n(kind) = 0
    OBVIOUS
  <2>1. \A e \in DOMAIN log : log[e] \notin Naming(kind, i)
    BY DEF Naming
  <2> QED
    BY <2>1, TallyNone
<1>2. \A kind : m(kind) = IF kind = "operation.queued" THEN 1 ELSE 0
  <2> SUFFICES ASSUME NEW kind
               PROVE  m(kind) = IF kind = "operation.queued" THEN 1 ELSE 0
    OBVIOUS
  <2>1. m(kind) = n(kind) + (IF a.kind = kind /\ i \in a.ops THEN 1 ELSE 0)
    BY NamingAppend
  <2>2. n(kind) = 0
    BY <1>1
  <2> HIDE DEF m, n
  <2> QED
    BY <2>1, <2>2
<1> HIDE DEF m, n
<1>3. /\ m("operation.queued") = 1 /\ m("operation.completed") = 0
      /\ m("operation.cancelled") = 0
      /\ m("operation.started") = 0 /\ m("operation.step") = 0
  BY <1>2
<1> QED
  BY <1>3 DEF Told, m

AllTold(log, ops) == \A i \in DOMAIN ops : Told(log, i, ops[i].status)

\* An entry that names no operation.
LEMMA AllToldQuiet ==
    ASSUME NEW log \in Seq(Event), NEW a \in Event, NEW ops, AllTold(log, ops), a.ops = {}
    PROVE  AllTold(Append(log, a), ops)
  BY ToldAppend DEF AllTold

\* The entry of what a cancellation or a stop ends.
LEMMA AllToldEnded ==
    ASSUME NEW x, NEW y, Sound(x), NEW log \in Seq(Event), NEW reason \in Infos,
           AllTold(log, x.ops), EndsPending(x, y)
    PROVE  /\ Ending(x, log, reason) \in Seq(Event)
           /\ AllTold(Ending(x, log, reason), y.ops)
<1> DEFINE a == Entry(x, "operation.cancelled", PendingIn(x.ops), reason)
<1>1. x.ops \in Seq(Operation) /\ x.time \in Nat
  BY DEF Sound
<1>2. a \in Event /\ a.kind = "operation.cancelled" /\ a.ops = PendingIn(x.ops)
  <2>1. PendingIn(x.ops) \in SUBSET Nat /\ "operation.cancelled" \in EventKinds
    BY <1>1, PendingNamed DEF EventKinds
  <2> QED
    BY <1>1, <2>1, EntryType
<1> HIDE DEF a
<1>3. CASE PendingIn(x.ops) = {}
  <2>1. Ending(x, log, reason) = log
    BY <1>3 DEF Ending
  <2>2. \A i \in DOMAIN x.ops : y.ops[i] = x.ops[i]
    BY <1>3 DEF EndsPending, PendingIn
  <2> QED
    BY <2>1, <2>2 DEF EndsPending, AllTold
<1>4. CASE PendingIn(x.ops) # {}
  <2>1. Ending(x, log, reason) = Append(log, a)
    BY <1>4 DEF Ending, a
  <2>2. ASSUME NEW i \in DOMAIN x.ops PROVE Told(Append(log, a), i, y.ops[i].status)
    <3>1. Told(log, i, x.ops[i].status)
      BY DEF AllTold
    <3>2. CASE Pending(x.ops[i])
      <4>1. i \in a.ops /\ y.ops[i].status = "cancelled"
        BY <1>2, <3>2 DEF PendingIn, EndsPending
      <4>2. Follows(x.ops[i].status, a.kind, y.ops[i].status)
        BY <1>2, <3>2, <4>1 DEF Follows, Pending
      <4> QED
        BY <1>2, <3>1, <4>1, <4>2, ToldAppend
    <3>3. CASE ~Pending(x.ops[i])
      <4>1. i \notin a.ops /\ y.ops[i].status = x.ops[i].status
        BY <1>2, <3>3 DEF PendingIn, EndsPending
      <4> QED
        BY <1>2, <3>1, <4>1, ToldAppend
    <3> QED
      BY <3>2, <3>3
  <2>3. DOMAIN y.ops = DOMAIN x.ops
    BY DEF EndsPending
  <2> QED
    BY <1>2, <2>1, <2>2, <2>3, LogAppend DEF AllTold
<1> QED
  BY <1>3, <1>4

LEMMA AllToldStep ==
    ASSUME NEW x, NEW y, Change(x, y), Named(x), AllTold(x.log, x.ops)
    PROVE  AllTold(y.log, y.ops)
<1>1. /\ x.log \in Seq(Event) /\ x.ops \in Seq(Operation) /\ x.time \in Nat /\ Sound(x)
  BY DEF Change, Sound
<1>2. \A kind \in EventKinds, info \in Infos :
        LET a == Entry(x, kind, {}, info) IN
        /\ a \in Event
        /\ Append(x.log, a) \in Seq(Event)
        /\ AllTold(Append(x.log, a), x.ops)
  <2> SUFFICES ASSUME NEW kind \in EventKinds, NEW info \in Infos
               PROVE  LET a == Entry(x, kind, {}, info) IN
                      /\ a \in Event
                      /\ Append(x.log, a) \in Seq(Event)
                      /\ AllTold(Append(x.log, a), x.ops)
    OBVIOUS
  <2> DEFINE a == Entry(x, kind, {}, info)
  <2>1. {} \in SUBSET Nat
    OBVIOUS
  <2>2. a \in Event /\ a.ops = {}
    BY <1>1, <2>1, EntryType
  <2> HIDE DEF a
  <2>3. Append(x.log, a) \in Seq(Event) /\ AllTold(Append(x.log, a), x.ops)
    BY <1>1, <2>2, AllToldQuiet, LogAppend
  <2> QED
    BY <2>2, <2>3 DEF a
<1>3. CASE Registers(x, y)
  <2>1. "delegation.registered" \in EventKinds /\ "none" \in Infos
    BY DEF EventKinds, Infos
  <2> QED
    BY <1>2, <1>3, <2>1 DEF Registers, SameWork
<1>4. CASE Refuses(x, y)
  <2>1. PICK kind \in {"delegation.rejected", "command.rejected"}, info \in Refusals :
          y.log = Append(x.log, Entry(x, kind, {}, info))
    BY <1>4 DEF Refuses
  <2>2. kind \in EventKinds /\ info \in Infos /\ y.ops = x.ops
    BY <1>4 DEF EventKinds, Infos, Refuses, SameWork
  <2> QED
    BY <1>2, <2>1, <2>2
<1>5. CASE Observes(x, y)
  <2>1. PICK info \in {"cancel", "replace"} :
          y.log = Append(x.log, Entry(x, "cancellation.observed", {}, info))
    BY <1>5 DEF Observes
  <2>2. "cancellation.observed" \in EventKinds /\ info \in Infos /\ y.ops = x.ops
    BY <1>5 DEF EventKinds, Infos, Observes, SameWork
  <2> QED
    BY <1>2, <2>1, <2>2
<1>6. CASE Admits(x, y)
  <2> DEFINE n == Len(x.ops) + 1
  <2>1. PICK o \in Operation, info \in {"move", "replace"} :
          /\ o.status = "queued" /\ y.ops = Append(x.ops, o)
          /\ y.log = Append(x.log, Entry(x, "operation.queued", {n}, info))
    BY <1>6 DEF Admits
  <2> DEFINE a == Entry(x, "operation.queued", {n}, info)
  <2>2. /\ DOMAIN y.ops = DOMAIN x.ops \cup {n} /\ n \notin DOMAIN x.ops /\ n \in Nat
        /\ y.ops[n] = o /\ \A i \in DOMAIN x.ops : y.ops[i] = x.ops[i]
    BY <1>1, <2>1
  <2> HIDE DEF n
  <2>3. a \in Event /\ a.kind = "operation.queued" /\ a.ops = {n}
    <3>1. {n} \in SUBSET Nat /\ "operation.queued" \in EventKinds /\ info \in Infos
      BY <2>2 DEF EventKinds, Infos
    <3> QED
      BY <1>1, <3>1, EntryType
  <2>4. \A e \in DOMAIN x.log : n \notin x.log[e].ops
    BY <2>2 DEF Named
  <2>5. y.log = Append(x.log, a)
    BY <2>1
  <2> HIDE DEF a
  <2>6. Told(y.log, n, "queued")
    BY <1>1, <2>3, <2>4, <2>5, ToldQueued
  <2>7. \A i \in DOMAIN x.ops : Told(y.log, i, x.ops[i].status)
    BY <1>1, <2>2, <2>3, <2>5, ToldAppend DEF AllTold
  <2> QED
    BY <2>1, <2>2, <2>6, <2>7 DEF AllTold
<1>7. CASE Fences(x, y)
  <2>1. PICK info \in {"cancel", "replace"} :
          y.log = Ending(x, Append(x.log, Entry(x, "cancellation.accepted", {}, info)), info)
    BY <1>7 DEF Fences
  <2>2. "cancellation.accepted" \in EventKinds /\ info \in Infos /\ EndsPending(x, y)
    BY <1>7 DEF EventKinds, Infos, Fences
  <2> DEFINE log == Append(x.log, Entry(x, "cancellation.accepted", {}, info))
  <2>3. log \in Seq(Event) /\ AllTold(log, x.ops)
    BY <1>2, <2>2
  <2> HIDE DEF log
  <2>4. AllTold(Ending(x, log, info), y.ops)
    BY <1>1, <2>2, <2>3, AllToldEnded
  <2> QED
    BY <2>1, <2>4 DEF log
<1>8. CASE Halts(x, y)
  <2>1. "engine.stopped" \in EventKinds /\ "engine.stopped" \in Infos /\ "none" \in Infos
        /\ EndsPending(x, y)
    BY <1>8 DEF EventKinds, Infos, Halts
  <2> DEFINE log == Ending(x, x.log, "engine.stopped")
             a == Entry(x, "engine.stopped", {}, "none")
  <2>2. log \in Seq(Event) /\ AllTold(log, y.ops)
    BY <1>1, <2>1, AllToldEnded
  <2>3. a \in Event /\ a.ops = {}
    <3>1. {} \in SUBSET Nat
      OBVIOUS
    <3> QED
      BY <1>1, <2>1, <3>1, EntryType
  <2>4. y.log = Append(log, a)
    BY <1>8 DEF Halts
  <2> HIDE DEF log, a
  <2> QED
    BY <2>2, <2>3, <2>4, AllToldQuiet
<1>9. CASE Starts(x, y) \/ Moves(x, y) \/ Concludes(x, y)
  <2>1. PICK i \in DOMAIN x.ops,
             kind \in {"operation.started", "operation.step", "operation.completed"} :
          /\ y.log = Append(x.log, Entry(x, kind, {i}, "none"))
          /\ Follows(x.ops[i].status, kind, y.ops[i].status)
          /\ DOMAIN y.ops = DOMAIN x.ops
          /\ \A j \in DOMAIN x.ops \ {i} : y.ops[j] = x.ops[j]
    BY <1>9 DEF Starts, Moves, Concludes, Restates, Follows, SameWork
  <2> DEFINE a == Entry(x, kind, {i}, "none")
  <2>2. a \in Event /\ a.kind = kind /\ a.ops = {i}
    <3>1. {i} \in SUBSET Nat /\ kind \in EventKinds /\ "none" \in Infos
      BY <1>1 DEF EventKinds, Infos
    <3> QED
      BY <1>1, <3>1, EntryType
  <2>3. y.log = Append(x.log, a)
    BY <2>1
  <2> HIDE DEF a
  <2>4. ASSUME NEW j \in DOMAIN x.ops PROVE Told(y.log, j, y.ops[j].status)
    <3>1. Told(x.log, j, x.ops[j].status)
      BY DEF AllTold
    <3>2. CASE j = i
      <4>1. j \in a.ops /\ Follows(x.ops[j].status, a.kind, y.ops[j].status)
        BY <2>1, <2>2, <3>2
      <4> QED
        BY <1>1, <2>2, <2>3, <3>1, <4>1, ToldAppend
    <3>3. CASE j # i
      <4>1. j \notin a.ops /\ y.ops[j] = x.ops[j]
        BY <2>1, <2>2, <3>3
      <4> QED
        BY <1>1, <2>2, <2>3, <3>1, <4>1, ToldAppend
    <3> QED
      BY <3>2, <3>3
  <2> QED
    BY <2>1, <2>4 DEF AllTold
<1>10. CASE Waits(x, y)
  BY <1>10 DEF Waits, SameWork
<1> QED
  BY <1>3, <1>4, <1>5, <1>6, <1>7, <1>8, <1>9, <1>10 DEF Change

\* Where the cargo is, as the log has it.
Charted(log, ops, pos) ==
    \A c \in Cargo : pos[c] = Tally(log, StepsOf(ops, c, "right"))
                                - Tally(log, StepsOf(ops, c, "left"))

LEMMA ChartedQuiet ==
    ASSUME NEW log \in Seq(Event), NEW ops, NEW pos, Charted(log, ops, pos),
           NEW a \in Event, a.kind # "operation.step"
    PROVE  Charted(Append(log, a), ops, pos)
<1>1. ASSUME NEW c, NEW destination
      PROVE  Tally(Append(log, a), StepsOf(ops, c, destination))
               = Tally(log, StepsOf(ops, c, destination))
  <2>1. a \notin StepsOf(ops, c, destination)
    BY DEF StepsOf
  <2>2. Tally(log, StepsOf(ops, c, destination)) \in Nat
    BY TallyType
  <2>3. Tally(Append(log, a), StepsOf(ops, c, destination))
          = Tally(log, StepsOf(ops, c, destination)) + 0
    BY <2>1, TallyAppend
  <2> QED
    BY <2>2, <2>3
<1> QED
  BY <1>1 DEF Charted

LEMMA ChartedByStep ==
    ASSUME NEW log \in Seq(Event), NEW ops, NEW pos \in [Cargo -> 0..Right],
           Charted(log, ops, pos), NEW a \in Event, a.kind = "operation.step",
           NEW i, a.ops = {i}, ops[i].cargo \in Cargo,
           ops[i].destination \in {"left", "right"}
    PROVE  Charted(Append(log, a), ops,
                   [pos EXCEPT ![ops[i].cargo] =
                      IF ops[i].destination = "right" THEN @ + 1 ELSE @ - 1])
<1> DEFINE n(c, destination) == Tally(log, StepsOf(ops, c, destination))
           m(c, destination) == Tally(Append(log, a), StepsOf(ops, c, destination))
           pos2 == [pos EXCEPT ![ops[i].cargo] =
                      IF ops[i].destination = "right" THEN @ + 1 ELSE @ - 1]
<1>1. \A c, destination :
        /\ n(c, destination) \in Nat
        /\ m(c, destination) = n(c, destination)
             + (IF ops[i].cargo = c /\ ops[i].destination = destination THEN 1 ELSE 0)
  <2> SUFFICES ASSUME NEW c, NEW destination
               PROVE  /\ n(c, destination) \in Nat
                      /\ m(c, destination) = n(c, destination)
                           + (IF ops[i].cargo = c /\ ops[i].destination = destination
                              THEN 1 ELSE 0)
    OBVIOUS
  <2>1. a \in StepsOf(ops, c, destination)
          <=> ops[i].cargo = c /\ ops[i].destination = destination
    BY DEF StepsOf
  <2>2. n(c, destination) \in Nat
    BY TallyType
  <2>3. m(c, destination) = n(c, destination)
          + (IF a \in StepsOf(ops, c, destination) THEN 1 ELSE 0)
    BY TallyAppend
  <2> HIDE DEF n, m
  <2> QED
    BY <2>1, <2>2, <2>3
<1>2. ASSUME NEW c \in Cargo PROVE pos2[c] = m(c, "right") - m(c, "left")
  <2>1. pos[c] = n(c, "right") - n(c, "left")
    BY DEF Charted
  <2>2. pos[c] \in Int
    OBVIOUS
  <2>3. /\ n(c, "right") \in Nat /\ n(c, "left") \in Nat
        /\ m(c, "right") = n(c, "right")
             + (IF ops[i].cargo = c /\ ops[i].destination = "right" THEN 1 ELSE 0)
        /\ m(c, "left") = n(c, "left")
             + (IF ops[i].cargo = c /\ ops[i].destination = "left" THEN 1 ELSE 0)
    BY <1>1
  <2>4. pos2[c] = IF c = ops[i].cargo
                  THEN (IF ops[i].destination = "right" THEN pos[c] + 1 ELSE pos[c] - 1)
                  ELSE pos[c]
    OBVIOUS
  <2> HIDE DEF n, m, pos2
  <2>5. CASE c # ops[i].cargo
    BY <2>1, <2>3, <2>4, <2>5
  <2>6. CASE c = ops[i].cargo /\ ops[i].destination = "right"
    BY <2>1, <2>2, <2>3, <2>4, <2>6
  <2>7. CASE c = ops[i].cargo /\ ops[i].destination = "left"
    BY <2>1, <2>2, <2>3, <2>4, <2>7
  <2> QED
    BY <2>5, <2>6, <2>7
<1> QED
  BY <1>2 DEF Charted

LEMMA ChartedStep ==
    ASSUME NEW x, NEW y, Change(x, y), Named(x), Charted(x.log, x.ops, x.pos)
    PROVE  Charted(y.log, y.ops, y.pos)
<1>1. /\ x.log \in Seq(Event) /\ NamedIn(x.log, DOMAIN x.ops) /\ x.time \in Nat
      /\ x.ops \in Seq(Operation) /\ x.pos \in [Cargo -> 0..Right]
      /\ \A a \in Notes(x, y) : a \in Event
  BY DEF Change, Sound, Named, NamedIn, Notes
<1>2. CASE Moves(x, y)
  <2>1. PICK i \in DOMAIN x.ops :
          /\ y.pos = [x.pos EXCEPT ![x.ops[i].cargo] =
                        IF x.ops[i].destination = "right" THEN @ + 1 ELSE @ - 1]
          /\ y.log = Append(x.log, Entry(x, "operation.step", {i}, "none"))
    BY <1>2 DEF Moves
  <2> DEFINE a == Entry(x, "operation.step", {i}, "none")
  <2>2. a \in Event /\ a.kind = "operation.step" /\ a.ops = {i}
    <3>1. {i} \in SUBSET Nat /\ "operation.step" \in EventKinds /\ "none" \in Infos
      BY <1>1 DEF EventKinds, Infos
    <3> QED
      BY <1>1, <3>1, EntryType
  <2>3. x.ops[i].cargo \in Cargo /\ x.ops[i].destination \in {"left", "right"}
    <3>1. x.ops[i] \in Operation
      BY <1>1
    <3> QED
      BY <3>1, OperationType DEF Destinations
  <2>4. y.log = Append(x.log, a) /\ y.ops = x.ops
    BY <1>2, <2>1 DEF Moves, SameWork
  <2> HIDE DEF a
  <2>5. Charted(Append(x.log, a), x.ops,
                [x.pos EXCEPT ![x.ops[i].cargo] =
                   IF x.ops[i].destination = "right" THEN @ + 1 ELSE @ - 1])
    BY <1>1, <2>2, <2>3, ChartedByStep
  <2> QED
    BY <2>1, <2>4, <2>5
<1>3. CASE ~Moves(x, y)
  <2>1. y.pos = x.pos
    BY <1>3 DEF Change, Registers, Refuses, Admits, Fences, Observes, Starts, Concludes,
       Halts, Waits, SameTrack
  <2>2. Charted(x.log, y.ops, x.pos)
    <3>1. \A c, destination : Tally(x.log, StepsOf(y.ops, c, destination))
                                = Tally(x.log, StepsOf(x.ops, c, destination))
      <4>1. \A i \in DOMAIN x.ops : /\ y.ops[i].cargo = x.ops[i].cargo
                                     /\ y.ops[i].destination = x.ops[i].destination
        BY ChangeKeepsOperations
      <4> SUFFICES ASSUME NEW c, NEW destination
                   PROVE  Tally(x.log, StepsOf(y.ops, c, destination))
                            = Tally(x.log, StepsOf(x.ops, c, destination))
        OBVIOUS
      <4>2. x.log \in Seq(Event) /\ NamedIn(x.log, DOMAIN x.ops)
        BY <1>1
      <4>3. \A e \in DOMAIN x.log : x.log[e] \in StepsOf(y.ops, c, destination)
                                      <=> x.log[e] \in StepsOf(x.ops, c, destination)
        BY <4>1, <4>2 DEF StepsOf, NamedIn
      <4> QED
        BY <4>2, <4>3, TallySame
    <3> QED
      BY <3>1 DEF Charted
  <2>3. \A a \in Notes(x, y) : a.kind # "operation.step"
    BY <1>3 DEF Notes
  <2>4. \A a \in Notes(x, y) : /\ Append(x.log, a) \in Seq(Event)
                               /\ Charted(Append(x.log, a), y.ops, x.pos)
    BY <1>1, <2>2, <2>3, ChartedQuiet, LogAppend
  <2>5. \A a, b \in Notes(x, y) : Charted(Append(Append(x.log, a), b), y.ops, x.pos)
    BY <1>1, <2>3, <2>4, ChartedQuiet
  <2>6. GrowsBy(x.log, y.log, Notes(x, y))
    BY ChangeLogs
  <2> QED
    BY <2>1, <2>2, <2>4, <2>5, <2>6 DEF GrowsBy
<1> QED
  BY <1>2, <1>3

\* The epoch counts what fenced: accepted cancellations and the stop.
Fencing == OfKinds({"cancellation.accepted", "engine.stopped"})

LEMMA FencingAppend ==
    ASSUME NEW log \in Seq(Event), NEW a \in Event
    PROVE  /\ Append(log, a) \in Seq(Event)
           /\ Tally(log, Fencing) \in Nat
           /\ Tally(Append(log, a), Fencing) = Tally(log, Fencing)
                + (IF a.kind \in {"cancellation.accepted", "engine.stopped"} THEN 1 ELSE 0)
<1>1. a \in Fencing <=> a.kind \in {"cancellation.accepted", "engine.stopped"}
  BY DEF Fencing, OfKinds
<1> QED
  BY <1>1, TallyType, TallyAppend, LogAppend

LEMMA EndingFences ==
    ASSUME NEW x, Sound(x), NEW log \in Seq(Event), NEW reason \in Infos
    PROVE  /\ Ending(x, log, reason) \in Seq(Event)
           /\ Tally(Ending(x, log, reason), Fencing) = Tally(log, Fencing)
<1> DEFINE a == Entry(x, "operation.cancelled", PendingIn(x.ops), reason)
<1>1. a \in Event /\ a.kind = "operation.cancelled"
  <2>1. PendingIn(x.ops) \in SUBSET Nat /\ x.time \in Nat
    BY PendingNamed DEF Sound
  <2>2. "operation.cancelled" \in EventKinds
    BY DEF EventKinds
  <2> QED
    BY <2>1, <2>2, EntryType
<1> HIDE DEF a
<1>2. Ending(x, log, reason) = IF PendingIn(x.ops) = {} THEN log ELSE Append(log, a)
  BY DEF Ending, a
<1>3. /\ Append(log, a) \in Seq(Event) /\ Tally(log, Fencing) \in Nat
      /\ Tally(Append(log, a), Fencing) = Tally(log, Fencing) + 0
  BY <1>1, FencingAppend
<1> QED
  BY <1>2, <1>3

LEMMA FencingStep ==
    ASSUME NEW x, NEW y, Change(x, y), x.epoch = Tally(x.log, Fencing)
    PROVE  y.epoch = Tally(y.log, Fencing)
<1>1. x.log \in Seq(Event) /\ x.epoch \in Nat /\ x.time \in Nat /\ Sound(x)
      /\ {} \in SUBSET Nat
      /\ \A a \in Notes(x, y) : a \in Event
  BY DEF Change, Sound, Notes
<1>2. CASE Fences(x, y)
  <2>1. PICK info \in {"cancel", "replace"} :
          y.log = Ending(x, Append(x.log, Entry(x, "cancellation.accepted", {}, info)), info)
    BY <1>2 DEF Fences
  <2> DEFINE a == Entry(x, "cancellation.accepted", {}, info)
  <2>2. a \in Event /\ a.kind = "cancellation.accepted" /\ info \in Infos
    <3>1. "cancellation.accepted" \in EventKinds /\ info \in Infos
      BY DEF EventKinds, Infos
    <3> QED
      BY <1>1, <3>1, EntryType
  <2> HIDE DEF a
  <2>3. Append(x.log, a) \in Seq(Event)
        /\ Tally(Append(x.log, a), Fencing) = Tally(x.log, Fencing) + 1
    BY <1>1, <2>2, FencingAppend
  <2>4. y.log = Ending(x, Append(x.log, a), info) /\ y.epoch = x.epoch + 1
    BY <1>2, <2>1 DEF Fences, a
  <2> QED
    BY <1>1, <2>2, <2>3, <2>4, EndingFences
<1>3. CASE Halts(x, y)
  <2> DEFINE log == Ending(x, x.log, "engine.stopped")
             a == Entry(x, "engine.stopped", {}, "none")
  <2>1. y.log = Append(log, a) /\ y.epoch = x.epoch + 1
    BY <1>3 DEF Halts
  <2>2. a \in Event /\ a.kind = "engine.stopped"
    <3>1. "engine.stopped" \in EventKinds /\ "none" \in Infos
      BY DEF EventKinds, Infos
    <3> QED
      BY <1>1, <3>1, EntryType
  <2>3. log \in Seq(Event) /\ Tally(log, Fencing) = Tally(x.log, Fencing)
    <3>1. "engine.stopped" \in Infos
      BY DEF Infos
    <3> QED
      BY <1>1, <3>1, EndingFences
  <2> HIDE DEF log, a
  <2>4. Tally(Append(log, a), Fencing) = Tally(log, Fencing) + 1
    BY <2>2, <2>3, FencingAppend
  <2> QED
    BY <2>1, <2>3, <2>4
<1>4. CASE ~Fences(x, y) /\ ~Halts(x, y)
  <2>1. y.epoch = x.epoch
    BY <1>4 DEF Change, Registers, Refuses, Admits, Observes, Starts, Moves, Concludes,
       Waits, SameEra
  <2>2. \A a \in Notes(x, y) : a.kind \notin {"cancellation.accepted", "engine.stopped"}
    BY <1>4 DEF Notes
  <2>3. \A a \in Notes(x, y) : /\ Append(x.log, a) \in Seq(Event)
                               /\ Tally(Append(x.log, a), Fencing) = x.epoch
    <3> SUFFICES ASSUME NEW a \in Notes(x, y)
                 PROVE  /\ Append(x.log, a) \in Seq(Event)
                        /\ Tally(Append(x.log, a), Fencing) = x.epoch
      OBVIOUS
    <3>1. Tally(Append(x.log, a), Fencing) = Tally(x.log, Fencing) + 0
      BY <1>1, <2>2, FencingAppend
    <3> QED
      BY <1>1, <3>1, LogAppend
  <2>4. \A a, b \in Notes(x, y) : Tally(Append(Append(x.log, a), b), Fencing) = x.epoch
    <3> SUFFICES ASSUME NEW a \in Notes(x, y), NEW b \in Notes(x, y)
                 PROVE  Tally(Append(Append(x.log, a), b), Fencing) = x.epoch
      OBVIOUS
    <3>1. Tally(Append(Append(x.log, a), b), Fencing) = Tally(Append(x.log, a), Fencing) + 0
      BY <1>1, <2>2, <2>3, FencingAppend
    <3> QED
      BY <1>1, <2>3, <3>1
  <2>5. GrowsBy(x.log, y.log, Notes(x, y))
    BY ChangeLogs
  <2> QED
    BY <2>1, <2>3, <2>4, <2>5 DEF GrowsBy
<1> QED
  BY <1>2, <1>3, <1>4

LEMMA ExplainedStep ==
    ASSUME NEW x, NEW y, Change(x, y), Named(x), Explained(x) PROVE Explained(y)
<1>1. /\ AllTold(x.log, x.ops) /\ Charted(x.log, x.ops, x.pos)
      /\ x.epoch = Tally(x.log, Fencing)
  BY DEF Explained, AllTold, Charted, Fencing
<1>2. /\ AllTold(y.log, y.ops) /\ Charted(y.log, y.ops, y.pos)
      /\ y.epoch = Tally(y.log, Fencing)
  BY <1>1, AllToldStep, ChartedStep, FencingStep
<1> QED
  BY <1>2 DEF Explained, AllTold, Charted, Fencing

\* Explained is LogExplainsState in terms of tallies.
LEMMA ExplainedState ==
    ASSUME TypeOK, Explained(Run) PROVE LogExplainsState
<1>1. /\ events \in Seq(Event)
      /\ \A e \in DOMAIN events : events[e] \in Event
  BY DEF TypeOK
<1>2. \A kind, i : Tally(events, Naming(kind, i)) = Cardinality(EventsNaming(kind, i))
  <2> SUFFICES ASSUME NEW kind, NEW i
               PROVE  Tally(events, Naming(kind, i)) = Cardinality(EventsNaming(kind, i))
    OBVIOUS
  <2>1. {e \in DOMAIN events : events[e] \in Naming(kind, i)} = EventsNaming(kind, i)
    BY <1>1 DEF EventsNaming, EventsOf, Naming
  <2> QED
    BY <2>1 DEF Tally
<1>3. \A c, destination : Tally(events, StepsOf(operations, c, destination))
                            = Cardinality(Steps(c, destination))
  <2> SUFFICES ASSUME NEW c, NEW destination
               PROVE  Tally(events, StepsOf(operations, c, destination))
                        = Cardinality(Steps(c, destination))
    OBVIOUS
  <2>1. {e \in DOMAIN events : events[e] \in StepsOf(operations, c, destination)}
          = Steps(c, destination)
    BY <1>1 DEF Steps, EventsOf, StepsOf
  <2> QED
    BY <2>1 DEF Tally
<1>4. Tally(events, OfKinds({"cancellation.accepted", "engine.stopped"}))
        = Cardinality(EventsOf("cancellation.accepted") \cup EventsOf("engine.stopped"))
  <2>1. {e \in DOMAIN events :
           events[e] \in OfKinds({"cancellation.accepted", "engine.stopped"})}
          = EventsOf("cancellation.accepted") \cup EventsOf("engine.stopped")
    BY <1>1 DEF EventsOf, OfKinds
  <2> QED
    BY <2>1 DEF Tally
<1>5. /\ \A c \in Cargo : cargo[c] = Tally(events, StepsOf(operations, c, "right"))
                                       - Tally(events, StepsOf(operations, c, "left"))
      /\ \A i \in DOMAIN operations : Told(events, i, operations[i].status)
      /\ epoch = Tally(events, OfKinds({"cancellation.accepted", "engine.stopped"}))
  BY RunFields DEF Explained
<1>6. \A c \in Cargo :
        cargo[c] = Cardinality(Steps(c, "right")) - Cardinality(Steps(c, "left"))
  BY <1>3, <1>5
<1>7. ASSUME NEW i \in DOMAIN operations
      PROVE  LET n(kind) == Cardinality(EventsNaming(kind, i)) IN
             /\ n("operation.queued") = 1
             /\ n("operation.completed") =
                  IF operations[i].status = "completed" THEN 1 ELSE 0
             /\ n("operation.cancelled") =
                  IF operations[i].status = "cancelled" THEN 1 ELSE 0
             /\ operations[i].status = "running" => n("operation.started") = 1
             /\ operations[i].status = "queued"
                  => n("operation.started") + n("operation.step") = 0
  <2>1. Told(events, i, operations[i].status)
    BY <1>5
  <2> QED
    BY <1>2, <2>1 DEF Told
<1> QED
  BY <1>4, <1>5, <1>6, <1>7 DEF LogExplainsState

\* The audit log alone explains the state: every cargo position is the net of the logged
\* steps, every status is the last thing the log says of its operation, and the epoch
\* counts the logged fences.
THEOREM LogCorrect == Spec => []LogExplainsState
<1> DEFINE Inv == Named(Run) /\ Explained(Run)
<1>1. Init => Inv
  <2> SUFFICES ASSUME Init PROVE Inv
    OBVIOUS
  <2>1. Run.log = <<>> /\ Run.ops = <<>> /\ Run.epoch = 0 /\ \A c \in Cargo : Run.pos[c] = 0
    BY RunFields DEF Init
  <2>2. \A T : Tally(<<>>, T) = 0
    <3>1. <<>> \in Seq(Event) /\ DOMAIN <<>> = {}
      OBVIOUS
    <3> QED
      BY <3>1, TallyNone
  <2> QED
    BY <2>1, <2>2 DEF Named, Explained
<1>2. Grounded /\ Grounded' /\ Inv /\ [Next]_vars => Inv'
  <2> SUFFICES ASSUME Grounded, Grounded', Inv, [Next]_vars PROVE Inv'
    OBVIOUS
  <2>1. PICK x, y : Change(Run, x) /\ Change(x, y) /\ Change(y, Run')
    BY GroundedChanges DEF Explainable
  <2>2. Named(x) /\ Explained(x)
    BY <2>1, NamedStep, ExplainedStep
  <2>3. Named(y) /\ Explained(y)
    BY <2>1, <2>2, NamedStep, ExplainedStep
  <2>4. Named(Run') /\ Explained(Run')
    BY <2>1, <2>3, NamedStep, ExplainedStep
  <2> QED
    BY <2>4 DEF Named, Explained
<1>3. Grounded /\ Inv => LogExplainsState
  BY ExplainedState DEF Grounded
<1> QED
  BY <1>1, <1>2, <1>3, GroundedInvariant, PTL DEF Spec
-----------------------------------------------------------------------------
(* No stale admission *)

LEMMA AcceptedType ==
    ASSUME NEW log \in Seq(Event)
    PROVE  /\ Accepted(log) \subseteq DOMAIN log
           /\ IsFiniteSet(Accepted(log)) /\ Cardinality(Accepted(log)) \in Nat
           /\ \A S \in SUBSET Accepted(log) :
                /\ IsFiniteSet(S) /\ Cardinality(S) \in Nat
                /\ Cardinality(S) <= Cardinality(Accepted(log))
<1>1. /\ 1 \in Int /\ Len(log) \in Int /\ DOMAIN log = 1..Len(log)
  OBVIOUS
<1>2. IsFiniteSet(DOMAIN log)
  BY <1>1, FS_Interval
<1>3. Accepted(log) \in SUBSET DOMAIN log
  BY DEF Accepted
<1>4. IsFiniteSet(Accepted(log))
  BY <1>2, <1>3, FS_Subset
<1>5. \A S \in SUBSET Accepted(log) :
        IsFiniteSet(S) /\ Cardinality(S) <= Cardinality(Accepted(log))
  BY <1>4, FS_Subset
<1> QED
  BY <1>3, <1>4, <1>5, FS_CardinalityType

LEMMA AcceptedAppend ==
    ASSUME NEW log \in Seq(Event), NEW a \in Event
    PROVE  /\ Accepted(Append(log, a)) = IF a.kind = "cancellation.accepted"
                                         THEN Accepted(log) \cup {Len(log) + 1}
                                         ELSE Accepted(log)
           /\ Len(log) + 1 \notin Accepted(log)
           /\ \A e \in DOMAIN log : Until(Append(log, a), e) = Until(log, e)
           /\ \A e \in DOMAIN log :
                {f \in Accepted(Append(log, a)) : f < e} = {f \in Accepted(log) : f < e}
<1> DEFINE t == Append(log, a)
           n == Len(log) + 1
<1>1. /\ Len(log) \in Nat /\ DOMAIN log = 1..Len(log) /\ DOMAIN t = 1..n /\ t[n] = a
      /\ \A e \in DOMAIN log : t[e] = log[e]
  BY LogAppend
<1> HIDE DEF t
<1>2. Accepted(t) = IF a.kind = "cancellation.accepted"
                    THEN Accepted(log) \cup {n} ELSE Accepted(log)
  BY <1>1 DEF Accepted
<1>3. n \notin Accepted(log) /\ \A e \in DOMAIN log : ~(n <= e)
  BY <1>1 DEF Accepted
<1>4. \A e \in DOMAIN log : Until(t, e) = Until(log, e)
  BY <1>2, <1>3 DEF Until
<1>5. \A e \in DOMAIN log : {f \in Accepted(t) : f < e} = {f \in Accepted(log) : f < e}
  BY <1>1, <1>2, <1>3
<1> QED
  BY <1>2, <1>3, <1>4, <1>5 DEF t

\* Fenced of a log and what it is compared with.
FencedIn(log, ep, halted, mo, bar, ds) ==
    /\ ~halted => ep = Cardinality(Accepted(log))
    /\ mo # "cancel-actions" => Accepted(log) = {}
    /\ \A e \in Accepted(log) : log[e].at <= bar
    /\ Accepted(log) # {} => \E e \in Accepted(log) : \A f \in Accepted(log) : f <= e
    /\ \A d \in DOMAIN ds :
         /\ ds[d].epoch <= ep
         /\ ds[d].offset # NoOffset =>
              \A e \in Accepted(log) :
                Cardinality(Until(log, e)) <= ds[d].epoch => ds[d].offset > log[e].at

LEMMA FencedQuiet ==
    ASSUME NEW log \in Seq(Event), NEW a \in Event, a.kind # "cancellation.accepted",
           NEW ep, NEW halted, NEW mo, NEW bar, NEW ds,
           FencedIn(log, ep, halted, mo, bar, ds)
    PROVE  FencedIn(Append(log, a), ep, halted, mo, bar, ds)
<1> DEFINE t == Append(log, a)
<1>1. /\ Accepted(t) = Accepted(log) /\ Accepted(log) \subseteq DOMAIN log
      /\ \A e \in DOMAIN log : t[e] = log[e] /\ Until(t, e) = Until(log, e)
  BY AcceptedAppend, AcceptedType, LogAppend
<1> HIDE DEF t
<1>2. \A e \in Accepted(log) : t[e] = log[e] /\ Until(t, e) = Until(log, e)
  BY <1>1
<1>3. FencedIn(t, ep, halted, mo, bar, ds)
  BY <1>1, <1>2 DEF FencedIn
<1> QED
  BY <1>3 DEF t

LEMMA FencedByFence ==
    ASSUME NEW log \in Seq(Event), NEW a \in Event, a.kind = "cancellation.accepted",
           NEW ep \in Nat, NEW bar \in Nat \cup {NoBarrier}, NEW ds,
           \A d \in DOMAIN ds : ds[d].epoch \in Nat,
           FencedIn(log, ep, FALSE, "cancel-actions", bar, ds)
    PROVE  FencedIn(Append(log, a), ep + 1, FALSE, "cancel-actions", Larger(bar, a.at), ds)
<1> DEFINE t == Append(log, a)
           n == Len(log) + 1
           late == Larger(bar, a.at)
<1>1. /\ Len(log) \in Nat /\ DOMAIN log = 1..Len(log) /\ t[n] = a /\ t \in Seq(Event)
      /\ \A e \in DOMAIN log : t[e] = log[e] /\ log[e] \in Event
  BY LogAppend
<1>2. /\ Accepted(t) = Accepted(log) \cup {n} /\ n \notin Accepted(log)
      /\ Accepted(log) \subseteq DOMAIN log /\ IsFiniteSet(Accepted(log))
      /\ \A e \in DOMAIN log : Until(t, e) = Until(log, e)
  BY AcceptedAppend, AcceptedType
<1>3. a.at \in Nat /\ late >= bar /\ late >= a.at /\ late \in Nat
  BY DEF Event, Larger, NoBarrier
<1>4. \A e \in DOMAIN log : log[e].at \in Nat
  BY <1>1 DEF Event
<1> HIDE DEF t, n, late
<1>5. Cardinality(Accepted(t)) = ep + 1 /\ Cardinality(Accepted(log)) = ep
  <2>1. Cardinality(Accepted(log)) = ep
    BY DEF FencedIn
  <2> QED
    BY <1>2, <2>1, FS_AddElement
<1>6. \A e \in Accepted(t) : t[e].at <= late
  <2>1. \A e \in Accepted(log) : log[e].at <= bar /\ log[e].at \in Nat
    BY <1>2, <1>4 DEF FencedIn
  <2>2. \A e \in Accepted(log) : t[e] = log[e]
    BY <1>1, <1>2
  <2> QED
    BY <1>1, <1>2, <1>3, <2>1, <2>2 DEF NoBarrier
<1>7. n \in Accepted(t) /\ \A f \in Accepted(t) : f <= n
  BY <1>1, <1>2 DEF n
<1>8. Until(t, n) = Accepted(t)
  BY <1>7 DEF Until
<1>9. ASSUME NEW d \in DOMAIN ds
      PROVE  /\ ds[d].epoch <= ep + 1
             /\ ds[d].offset # NoOffset =>
                  \A e \in Accepted(t) :
                    Cardinality(Until(t, e)) <= ds[d].epoch => ds[d].offset > t[e].at
  <2>1. ds[d].epoch <= ep /\ ds[d].epoch \in Nat
    BY DEF FencedIn
  <2>2. ASSUME ds[d].offset # NoOffset, NEW e \in Accepted(t),
               Cardinality(Until(t, e)) <= ds[d].epoch
        PROVE  ds[d].offset > t[e].at
    <3>1. e # n
      BY <1>5, <1>8, <2>1, <2>2
    <3>2. e \in Accepted(log) /\ t[e] = log[e] /\ Until(t, e) = Until(log, e)
      BY <1>1, <1>2, <3>1
    <3> QED
      BY <2>2, <3>2 DEF FencedIn
  <2> QED
    BY <2>1, <2>2
<1>10. FencedIn(t, ep + 1, FALSE, "cancel-actions", late, ds)
  BY <1>5, <1>6, <1>7, <1>9 DEF FencedIn
<1> QED
  BY <1>10 DEF t, late

LEMMA FencedByRegistration ==
    ASSUME NEW log \in Seq(Event), NEW ep \in Nat, NEW mo, NEW halted,
           NEW bar \in Nat \cup {NoBarrier}, NEW ds, FencedIn(log, ep, halted, mo, bar, ds),
           NEW d, NEW offset \in Nat \cup {NoOffset}, offset # NoOffset => offset > bar
    PROVE  FencedIn(log, ep, halted, mo, bar, With(ds, d, [epoch |-> ep, offset |-> offset]))
<1> DEFINE ds2 == With(ds, d, [epoch |-> ep, offset |-> offset])
<1>1. /\ DOMAIN ds2 = DOMAIN ds \cup {d}
      /\ ds2[d].epoch = ep /\ ds2[d].offset = offset
      /\ \A k \in DOMAIN ds \ {d} : ds2[k] = ds[k]
  BY DEF With
<1>2. \A e \in Accepted(log) : log[e].at \in Nat /\ log[e].at <= bar
  <2>1. \A e \in DOMAIN log : log[e] \in Event
    OBVIOUS
  <2>2. \A e \in DOMAIN log : log[e].at \in Nat
    BY <2>1 DEF Event
  <2>3. \A e \in Accepted(log) : e \in DOMAIN log
    BY DEF Accepted
  <2> QED
    BY <2>2, <2>3 DEF FencedIn
<1> HIDE DEF ds2
<1>3. ASSUME NEW k \in DOMAIN ds2
      PROVE  /\ ds2[k].epoch <= ep
             /\ ds2[k].offset # NoOffset =>
                  \A e \in Accepted(log) :
                    Cardinality(Until(log, e)) <= ds2[k].epoch => ds2[k].offset > log[e].at
  <2>1. CASE k = d
    BY <1>1, <1>2, <2>1 DEF NoBarrier, NoOffset
  <2>2. CASE k # d
    <3>1. k \in DOMAIN ds /\ ds2[k] = ds[k]
      BY <1>1, <2>2
    <3> QED
      BY <3>1 DEF FencedIn
  <2> QED
    BY <2>1, <2>2
<1>4. FencedIn(log, ep, halted, mo, bar, ds2)
  BY <1>3 DEF FencedIn
<1> QED
  BY <1>4 DEF ds2

LEMMA FencedStep ==
    ASSUME NEW x, NEW y, Change(x, y), Fenced(x) PROVE Fenced(y)
<1>1. /\ x.log \in Seq(Event) /\ x.epoch \in Nat /\ x.time \in Nat
      /\ x.barrier \in Nat \cup {NoBarrier} /\ Sound(x) /\ Sound(y)
      /\ \A a \in Notes(x, y) : a \in Event
      /\ FencedIn(x.log, x.epoch, x.halted, x.mode, x.barrier, x.ds)
  BY DEF Change, Sound, Notes, Fenced, FencedIn
<1>2. SUFFICES FencedIn(y.log, y.epoch, y.halted, y.mode, y.barrier, y.ds)
  BY DEF Fenced, FencedIn
<1>3. CASE Fences(x, y)
  <2>1. PICK info \in {"cancel", "replace"} :
          y.log = Ending(x, Append(x.log, Entry(x, "cancellation.accepted", {}, info)), info)
    BY <1>3 DEF Fences
  <2> DEFINE a == Entry(x, "cancellation.accepted", {}, info)
             b == Entry(x, "operation.cancelled", PendingIn(x.ops), info)
  <2>2. /\ a \in Event /\ a.kind = "cancellation.accepted" /\ a.at = x.time
        /\ b \in Event /\ b.kind = "operation.cancelled"
    <3>1. "cancellation.accepted" \in EventKinds /\ "operation.cancelled" \in EventKinds
          /\ info \in Infos /\ {} \in SUBSET Nat
      BY DEF EventKinds, Infos
    <3>2. PendingIn(x.ops) \in SUBSET Nat
      BY PendingNamed DEF Change, Sound
    <3> QED
      BY <1>1, <3>1, <3>2, EntryType
  <2>3. y.log = IF PendingIn(x.ops) = {} THEN Append(x.log, a) ELSE Append(Append(x.log, a), b)
    BY <2>1 DEF Ending
  <2> HIDE DEF a, b
  <2>4. /\ ~x.halted /\ x.mode = "cancel-actions" /\ y.mode = x.mode /\ y.ds = x.ds
        /\ y.halted = x.halted /\ y.epoch = x.epoch + 1
        /\ y.barrier = Larger(x.barrier, x.time)
    BY <1>3 DEF Fences, SameHost
  <2>5. x.halted = FALSE /\ \A d \in DOMAIN x.ds : x.ds[d].epoch \in Nat
    BY <1>1, <2>4 DEF Sound
  <2>6. /\ Append(x.log, a) \in Seq(Event)
        /\ FencedIn(Append(x.log, a), x.epoch + 1, FALSE, "cancel-actions",
                    Larger(x.barrier, a.at), x.ds)
    BY <1>1, <2>2, <2>4, <2>5, FencedByFence, LogAppend
  <2>7. FencedIn(Append(Append(x.log, a), b), x.epoch + 1, FALSE, "cancel-actions",
                 Larger(x.barrier, a.at), x.ds)
    BY <2>2, <2>6, FencedQuiet
  <2> QED
    BY <2>2, <2>3, <2>4, <2>5, <2>6, <2>7
<1>4. CASE ~Fences(x, y)
  <2>1. FencedIn(x.log, y.epoch, y.halted, y.mode, y.barrier, y.ds)
    <3>1. CASE Registers(x, y)
      <4>1. PICK d, offset :
              /\ d \notin DOMAIN x.ds
              /\ offset # NoOffset => offset > x.barrier
              /\ y.ds = With(x.ds, d, [epoch |-> x.epoch, offset |-> offset])
        BY <3>1 DEF Registers
      <4>2. d \in DOMAIN y.ds /\ y.ds[d].offset = offset
        BY <4>1 DEF With
      <4>3. offset \in Nat \cup {NoOffset}
        BY <1>1, <4>2 DEF Sound
      <4> DEFINE log == x.log
                 ep  == x.epoch
                 bar == x.barrier
                 ds  == x.ds
      <4>4. /\ log \in Seq(Event) /\ ep \in Nat /\ bar \in Nat \cup {NoBarrier}
            /\ FencedIn(log, ep, x.halted, x.mode, bar, ds)
            /\ offset # NoOffset => offset > bar
        BY <1>1, <4>1
      <4>5. y.ds = With(ds, d, [epoch |-> ep, offset |-> offset])
        BY <4>1
      <4> HIDE DEF log, ep, bar, ds
      <4>6. FencedIn(log, ep, x.halted, x.mode, bar,
                     With(ds, d, [epoch |-> ep, offset |-> offset]))
        BY <4>3, <4>4, FencedByRegistration
      <4>7. FencedIn(log, ep, x.halted, x.mode, bar, y.ds)
        BY <4>5, <4>6
      <4> QED
        BY <3>1, <4>7 DEF Registers, SameEra, log, ep, bar
    <3>2. CASE Halts(x, y)
      <4>1. /\ y.mode = x.mode /\ y.ds = x.ds /\ y.barrier = x.barrier
            /\ y.halted /\ y.epoch = x.epoch + 1
        BY <3>2 DEF Halts, SameHost
      <4>2. \A d \in DOMAIN x.ds : x.ds[d].epoch \in Nat
        BY <1>1 DEF Sound
      <4> QED
        BY <1>1, <4>1, <4>2 DEF FencedIn
    <3>3. CASE ~Registers(x, y) /\ ~Halts(x, y)
      <4>1. /\ y.mode = x.mode /\ y.ds = x.ds /\ y.barrier = x.barrier
            /\ y.halted = x.halted /\ y.epoch = x.epoch
        BY <1>4, <3>3 DEF Change, Refuses, Admits, Observes, Starts, Moves, Concludes,
           Waits, SameHost, SameEra
      <4> QED
        BY <1>1, <4>1
    <3> QED
      BY <3>1, <3>2, <3>3
  <2>2. \A a \in Notes(x, y) : a.kind # "cancellation.accepted"
    BY <1>4 DEF Notes
  <2> DEFINE F(log) == FencedIn(log, y.epoch, y.halted, y.mode, y.barrier, y.ds)
  <2>3. \A a \in Notes(x, y) : Append(x.log, a) \in Seq(Event) /\ F(Append(x.log, a))
    BY <1>1, <2>1, <2>2, FencedQuiet, LogAppend
  <2>4. \A a, b \in Notes(x, y) : F(Append(Append(x.log, a), b))
    BY <1>1, <2>2, <2>3, FencedQuiet
  <2>5. GrowsBy(x.log, y.log, Notes(x, y))
    BY ChangeLogs
  <2> QED
    BY <2>1, <2>3, <2>4, <2>5 DEF GrowsBy
<1> QED
  BY <1>3, <1>4

\* Fresh of a log, some operations and delegations.
FreshIn(log, ops, ds, i, q) ==
    LET d      == ds[ops[i].delegation]
        fences == {e \in Accepted(log) : e < q}
        own    == {e \in fences : log[q].info = "replace" /\ \A f \in fences : f <= e}
    IN /\ d.epoch = Cardinality(fences \ own)
       /\ d.offset # NoOffset => \A e \in fences \ own : d.offset > log[e].at

UnstaleIn(log, ops, ds) ==
    \A i \in DOMAIN ops : \A q \in DOMAIN log :
        log[q].kind = "operation.queued" /\ i \in log[q].ops => FreshIn(log, ops, ds, i, q)

LEMMA FreshAppend ==
    ASSUME NEW log \in Seq(Event), NEW a \in Event, NEW ops, NEW ds, NEW i,
           NEW q \in DOMAIN log, FreshIn(log, ops, ds, i, q)
    PROVE  FreshIn(Append(log, a), ops, ds, i, q)
<1> DEFINE t == Append(log, a)
           fences == {e \in Accepted(log) : e < q}
<1>1. /\ t[q] = log[q] /\ {e \in Accepted(t) : e < q} = fences
      /\ \A e \in fences : t[e] = log[e]
  BY AcceptedAppend, AcceptedType, LogAppend
<1> DEFINE own(l) == {e \in fences : l[q].info = "replace" /\ \A f \in fences : f <= e}
           d      == ds[ops[i].delegation]
<1> HIDE DEF t
<1>2. own(t) = own(log)
  BY <1>1
<1>3. /\ d.epoch = Cardinality(fences \ own(log))
      /\ d.offset # NoOffset => \A e \in fences \ own(log) : d.offset > log[e].at
  BY DEF FreshIn
<1>4. /\ d.epoch = Cardinality(fences \ own(t))
      /\ d.offset # NoOffset => \A e \in fences \ own(t) : d.offset > t[e].at
  BY <1>1, <1>2, <1>3
<1>5. FreshIn(t, ops, ds, i, q)
  BY <1>1, <1>4 DEF FreshIn
<1> QED
  BY <1>5 DEF t

LEMMA UnstaleQuiet ==
    ASSUME NEW log \in Seq(Event), NEW a \in Event, a.kind # "operation.queued",
           NEW ops, NEW ds, UnstaleIn(log, ops, ds)
    PROVE  UnstaleIn(Append(log, a), ops, ds)
<1> DEFINE t == Append(log, a)
           n == Len(log) + 1
<1>1. /\ DOMAIN log = 1..Len(log) /\ Len(log) \in Nat /\ DOMAIN t = 1..n /\ t[n] = a
      /\ \A e \in DOMAIN log : t[e] = log[e]
  BY LogAppend
<1> HIDE DEF t
<1>2. ASSUME NEW i \in DOMAIN ops, NEW q \in DOMAIN t, t[q].kind = "operation.queued",
             i \in t[q].ops
      PROVE  FreshIn(t, ops, ds, i, q)
  <2>1. q # n
    BY <1>1, <1>2
  <2>2. q \in DOMAIN log /\ log[q].kind = "operation.queued" /\ i \in log[q].ops
    BY <1>1, <1>2, <2>1
  <2>3. FreshIn(log, ops, ds, i, q)
    BY <2>2 DEF UnstaleIn
  <2> QED
    BY <2>2, <2>3, FreshAppend DEF t
<1> QED
  BY <1>2 DEF UnstaleIn, t

\* The work a request queues is fresh: its delegation has seen every fence but its own.
LEMMA AdmissionIsFresh ==
    ASSUME NEW log \in Seq(Event), NEW a \in Event, a.kind = "operation.queued",
           a.info \in {"move", "replace"},
           NEW ep \in Nat, NEW mo \in {"voice-only", "cancel-actions"}, NEW bar, NEW ds,
           FencedIn(log, ep, FALSE, mo, bar, ds),
           NEW ops, NEW i, ops[i].delegation \in DOMAIN ds,
           ds[ops[i].delegation].epoch \in Nat,
           ds[ops[i].delegation].epoch =
             IF a.info = "replace" /\ mo = "cancel-actions" THEN ep - 1 ELSE ep
    PROVE  FreshIn(Append(log, a), ops, ds, i, Len(log) + 1)
<1> DEFINE t == Append(log, a)
           n == Len(log) + 1
           d == ds[ops[i].delegation]
           own == {e \in Accepted(log) :
                     t[n].info = "replace" /\ \A f \in Accepted(log) : f <= e}
<1>1. /\ DOMAIN log = 1..Len(log) /\ Len(log) \in Nat /\ t[n] = a
      /\ \A e \in DOMAIN log : t[e] = log[e]
  BY LogAppend
<1>2. /\ Accepted(t) = Accepted(log) /\ Accepted(log) \subseteq DOMAIN log
      /\ IsFiniteSet(Accepted(log)) /\ Cardinality(Accepted(log)) \in Nat
      /\ \A S \in SUBSET Accepted(log) :
           /\ IsFiniteSet(S) /\ Cardinality(S) \in Nat
           /\ Cardinality(S) <= Cardinality(Accepted(log))
  BY AcceptedAppend, AcceptedType
<1>3. ep = Cardinality(Accepted(log)) /\ (mo # "cancel-actions" => Accepted(log) = {})
  BY DEF FencedIn
<1> HIDE DEF t, n
<1>4. {e \in Accepted(t) : e < n} = Accepted(log)
  BY <1>1, <1>2 DEF n
<1>5. d.offset # NoOffset =>
        \A e \in Accepted(log) : Cardinality(Until(log, e)) <= d.epoch => d.offset > t[e].at
  <2>1. \A e \in Accepted(log) : t[e] = log[e]
    BY <1>1, <1>2
  <2> QED
    BY <2>1 DEF FencedIn
<1>6. \A e \in Accepted(log) : Until(log, e) \in SUBSET Accepted(log)
  BY DEF Until
<1>7. /\ d.epoch = Cardinality(Accepted(log) \ own)
      /\ d.offset # NoOffset => \A e \in Accepted(log) \ own : d.offset > t[e].at
  <2>1. CASE a.info = "move" \/ mo # "cancel-actions"
    <3>1. d.epoch = ep
      BY <2>1
    <3>2. Accepted(log) \ own = Accepted(log)
      BY <1>1, <1>3, <2>1
    <3>3. \A e \in Accepted(log) : Cardinality(Until(log, e)) <= d.epoch
      BY <1>2, <1>3, <1>6, <3>1
    <3> HIDE DEF d, own
    <3> QED
      BY <1>3, <1>5, <3>1, <3>2, <3>3
  <2>2. CASE a.info = "replace" /\ mo = "cancel-actions"
    <3>1. d.epoch = ep - 1 /\ d.epoch \in Nat
      BY <2>2
    <3>2. Accepted(log) # {}
      <4>1. ep # 0
        BY <3>1
      <4> QED
        BY <1>3, <4>1, FS_EmptySet
    <3>3. PICK l \in Accepted(log) : \A f \in Accepted(log) : f <= l
      BY <3>2 DEF FencedIn
    <3>4. own = {l}
      <4>1. \A e \in Accepted(log) : e \in Nat
        BY <1>1, <1>2
      <4>2. \A e \in own : e = l
        BY <3>3, <4>1
      <4>3. l \in own
        BY <1>1, <2>2, <3>3
      <4> QED
        BY <4>2, <4>3
    <3>5. Cardinality(Accepted(log) \ {l}) = ep - 1
      BY <1>2, <1>3, FS_RemoveElement
    <3>6. ASSUME NEW e \in Accepted(log) \ {l} PROVE Cardinality(Until(log, e)) <= d.epoch
      <4>1. e < l
        BY <1>1, <1>2, <3>3, <3>6
      <4>2. Until(log, e) \in SUBSET (Accepted(log) \ {l})
        BY <1>1, <1>2, <4>1 DEF Until
      <4>3. IsFiniteSet(Accepted(log) \ {l})
        BY <1>2, FS_RemoveElement
      <4>4. Cardinality(Until(log, e)) <= Cardinality(Accepted(log) \ {l})
        BY <4>2, <4>3, FS_Subset
      <4> QED
        BY <3>1, <3>5, <4>4
    <3> HIDE DEF d, own
    <3> QED
      BY <1>5, <3>1, <3>4, <3>5, <3>6
  <2> QED
    BY <2>1, <2>2
<1>8. FreshIn(t, ops, ds, i, n)
  BY <1>4, <1>7 DEF FreshIn
<1> QED
  BY <1>8 DEF t, n

LEMMA UnstaleStep ==
    ASSUME NEW x, NEW y, Change(x, y), Named(x), Fenced(x), Unstale(x) PROVE Unstale(y)
<1>1. /\ x.log \in Seq(Event) /\ x.epoch \in Nat /\ x.time \in Nat /\ Sound(x)
      /\ x.mode \in {"voice-only", "cancel-actions"} /\ x.ops \in Seq(Operation)
      /\ \A a \in Notes(x, y) : a \in Event
      /\ FencedIn(x.log, x.epoch, x.halted, x.mode, x.barrier, x.ds)
      /\ UnstaleIn(x.log, x.ops, x.ds)
      /\ \A i \in DOMAIN x.ops : x.ops[i].delegation \in DOMAIN x.ds
  BY DEF Change, Sound, Notes, Fenced, FencedIn, Unstale, UnstaleIn, Fresh, FreshIn
<1>2. SUFFICES /\ \A i \in DOMAIN y.ops : y.ops[i].delegation \in DOMAIN y.ds
               /\ UnstaleIn(y.log, y.ops, y.ds)
  BY DEF Unstale, UnstaleIn, Fresh, FreshIn
<1>3. \A d \in DOMAIN x.ds : d \in DOMAIN y.ds /\ y.ds[d] = x.ds[d]
  <2>1. CASE Registers(x, y)
    BY <2>1 DEF Registers, With
  <2>2. CASE ~Registers(x, y)
    <3>1. y.ds = x.ds
      BY <2>2 DEF Change, Refuses, Admits, Fences, Observes, Starts, Moves, Concludes,
         Halts, Waits, SameHost
    <3> QED
      BY <3>1
  <2> QED
    BY <2>1, <2>2
<1>4. \A i \in DOMAIN x.ops : y.ops[i].delegation = x.ops[i].delegation
  BY ChangeKeepsOperations
<1>5. ASSUME NEW i \in DOMAIN x.ops, NEW q \in DOMAIN x.log,
             FreshIn(x.log, x.ops, x.ds, i, q)
      PROVE  FreshIn(x.log, y.ops, y.ds, i, q)
  <2>1. y.ds[y.ops[i].delegation] = x.ds[x.ops[i].delegation]
    BY <1>1, <1>3, <1>4
  <2> QED
    BY <1>5, <2>1 DEF FreshIn
<1>6. CASE Admits(x, y)
  <2> DEFINE n == Len(x.log) + 1
             m == Len(x.ops) + 1
  <2>1. PICK o \in Operation, info \in {"move", "replace"} :
          /\ o.delegation \in DOMAIN x.ds
          /\ x.ds[o.delegation].epoch =
               IF info = "replace" /\ x.mode = "cancel-actions" THEN x.epoch - 1 ELSE x.epoch
          /\ y.ops = Append(x.ops, o)
          /\ y.log = Append(x.log, Entry(x, "operation.queued", {m}, info))
    BY <1>6 DEF Admits
  <2> DEFINE a == Entry(x, "operation.queued", {m}, info)
  <2>2. /\ DOMAIN y.ops = DOMAIN x.ops \cup {m} /\ m \notin DOMAIN x.ops /\ m \in Nat
        /\ y.ops[m] = o /\ \A i \in DOMAIN x.ops : y.ops[i] = x.ops[i]
    BY <1>1, <2>1
  <2>3. a \in Event /\ a.kind = "operation.queued" /\ a.ops = {m} /\ a.info = info
    <3>1. {m} \in SUBSET Nat /\ "operation.queued" \in EventKinds /\ info \in Infos
      BY <2>2 DEF EventKinds, Infos
    <3> QED
      BY <1>1, <3>1, EntryType
  <2>4. y.log = Append(x.log, a) /\ y.ds = x.ds /\ ~x.halted
    BY <1>6, <2>1 DEF Admits, SameHost
  <2> HIDE DEF a, m
  <2>5. /\ DOMAIN y.log = DOMAIN x.log \cup {n} /\ y.log[n] = a
        /\ \A e \in DOMAIN x.log : y.log[e] = x.log[e]
    BY <1>1, <2>3, <2>4, LogAppend
  <2> HIDE DEF n
  <2>6. FreshIn(y.log, y.ops, y.ds, m, n)
    <3>1. FencedIn(x.log, x.epoch, FALSE, x.mode, x.barrier, x.ds)
      BY <1>1, <2>4 DEF FencedIn
    <3>2. x.ds[o.delegation].epoch \in Nat
      BY <1>1, <2>1 DEF Sound
    <3>3. y.ops[m].delegation = o.delegation
      BY <2>2
    <3>4. FreshIn(Append(x.log, a), y.ops, x.ds, m, Len(x.log) + 1)
      BY <1>1, <2>1, <2>3, <3>1, <3>2, <3>3, AdmissionIsFresh
    <3> QED
      BY <2>4, <3>4 DEF n
  <2>7. ASSUME NEW i \in DOMAIN y.ops, NEW q \in DOMAIN y.log,
               y.log[q].kind = "operation.queued", i \in y.log[q].ops
        PROVE  FreshIn(y.log, y.ops, y.ds, i, q)
    <3>1. CASE q = n
      <4>1. i = m
        BY <2>3, <2>5, <2>7, <3>1
      <4> QED
        BY <2>6, <3>1, <4>1
    <3>2. CASE q # n
      <4>1. q \in DOMAIN x.log /\ y.log[q] = x.log[q]
        BY <2>5, <3>2
      <4>2. i \in DOMAIN x.ops
        BY <2>7, <4>1 DEF Named
      <4>3. FreshIn(x.log, x.ops, x.ds, i, q)
        BY <1>1, <2>7, <4>1, <4>2 DEF UnstaleIn
      <4>4. FreshIn(x.log, y.ops, y.ds, i, q)
        BY <1>5, <4>1, <4>2, <4>3
      <4> QED
        BY <1>1, <2>3, <2>4, <4>1, <4>4, FreshAppend
    <3> QED
      BY <3>1, <3>2
  <2>8. \A i \in DOMAIN y.ops : y.ops[i].delegation \in DOMAIN y.ds
    BY <1>1, <2>1, <2>2, <2>4
  <2> QED
    BY <2>7, <2>8 DEF UnstaleIn
<1>7. CASE ~Admits(x, y)
  <2>1. DOMAIN y.ops = DOMAIN x.ops
    BY <1>7 DEF Change, Registers, Refuses, Fences, Observes, Starts, Moves, Concludes,
       Halts, Waits, SameWork, EndsPending, Restates
  <2>2. \A i \in DOMAIN y.ops : y.ops[i].delegation \in DOMAIN y.ds
    BY <1>1, <1>3, <1>4, <2>1
  <2>3. UnstaleIn(x.log, y.ops, y.ds)
    BY <1>1, <1>5, <2>1 DEF UnstaleIn
  <2>4. \A a \in Notes(x, y) : a.kind # "operation.queued"
    BY <1>7 DEF Notes
  <2>5. \A a \in Notes(x, y) : /\ Append(x.log, a) \in Seq(Event)
                               /\ UnstaleIn(Append(x.log, a), y.ops, y.ds)
    BY <1>1, <2>3, <2>4, UnstaleQuiet, LogAppend
  <2>6. \A a, b \in Notes(x, y) : UnstaleIn(Append(Append(x.log, a), b), y.ops, y.ds)
    BY <1>1, <2>4, <2>5, UnstaleQuiet
  <2>7. GrowsBy(x.log, y.log, Notes(x, y))
    BY ChangeLogs
  <2> QED
    BY <2>2, <2>3, <2>5, <2>6, <2>7 DEF GrowsBy
<1> QED
  BY <1>6, <1>7

\* Work is admitted only from a delegation registered after every cancellation accepted
\* so far, and created after each of them when its creation is attested; the one
\* exception is the cancellation a replacement itself carries.
THEOREM AdmissionCorrect == Spec => []NoStaleAdmission
<1> DEFINE Inv == Named(Run) /\ Fenced(Run) /\ Unstale(Run)
<1>1. Init => Inv
  <2> SUFFICES ASSUME Init PROVE Inv
    OBVIOUS
  <2>1. /\ Run.log = <<>> /\ Run.ops = <<>> /\ Run.epoch = 0
        /\ DOMAIN Run.ds = {} /\ DOMAIN Run.log = {} /\ DOMAIN Run.ops = {}
    BY RunFields DEF Init
  <2>2. Accepted(Run.log) = {} /\ Cardinality({}) = 0
    BY <2>1, FS_EmptySet DEF Accepted
  <2> QED
    BY <2>1, <2>2 DEF Named, Fenced, Unstale
<1>2. Grounded /\ Grounded' /\ Inv /\ [Next]_vars => Inv'
  <2> SUFFICES ASSUME Grounded, Grounded', Inv, [Next]_vars PROVE Inv'
    OBVIOUS
  <2>1. PICK x, y : Change(Run, x) /\ Change(x, y) /\ Change(y, Run')
    BY GroundedChanges DEF Explainable
  <2>2. Named(x) /\ Fenced(x) /\ Unstale(x)
    BY <2>1, NamedStep, FencedStep, UnstaleStep
  <2>3. Named(y) /\ Fenced(y) /\ Unstale(y)
    BY <2>1, <2>2, NamedStep, FencedStep, UnstaleStep
  <2>4. Named(Run') /\ Fenced(Run') /\ Unstale(Run')
    BY <2>1, <2>3, NamedStep, FencedStep, UnstaleStep
  <2> QED
    BY <2>4 DEF Named, Fenced, Unstale, Fresh
<1>3. Inv => NoStaleAdmission
  <2> SUFFICES ASSUME Inv PROVE NoStaleAdmission
    OBVIOUS
  <2>1. UnstaleIn(events, operations, delegations)
    BY RunFields DEF Unstale, UnstaleIn, Fresh, FreshIn
  <2> QED
    BY <2>1 DEF NoStaleAdmission, UnstaleIn, FreshIn, EventsNaming, EventsOf, Accepted
<1> QED
  BY <1>1, <1>2, <1>3, GroundedInvariant, PTL DEF Spec
-----------------------------------------------------------------------------
(* The pass of ActionMetrics over the log *)

\* A pass over a log, and what it ends with: there is one, and no other value for it.
IsPass(f, log) ==
    f = [n \in 0..Len(log) |-> IF n = 0 THEN NoMetrics ELSE Observe(f[n - 1], log[n])]
Passes(log, m) ==
    /\ \E f : IsPass(f, log)
    /\ \A f : IsPass(f, log) => f[Len(log)] = m

LEMMA PassEntries ==
    ASSUME NEW log \in Seq(Event), NEW f
    PROVE  IsPass(f, log) <=>
             /\ f = [n \in 0..Len(log) |-> f[n]]
             /\ f[0] = NoMetrics
             /\ \A n \in 1..Len(log) : f[n] = Observe(f[n - 1], log[n])
<1> DEFINE g == [n \in 0..Len(log) |->
                   IF n = 0 THEN NoMetrics ELSE Observe(f[n - 1], log[n])]
<1>1. /\ Len(log) \in Nat /\ DOMAIN g = 0..Len(log) /\ g[0] = NoMetrics
      /\ \A n \in 1..Len(log) : n \in 0..Len(log) /\ g[n] = Observe(f[n - 1], log[n])
      /\ \A n \in 0..Len(log) : n = 0 \/ n \in 1..Len(log)
      /\ g = [n \in 0..Len(log) |-> g[n]]
  OBVIOUS
<1> HIDE DEF g
<1>2. ASSUME f = g
      PROVE  /\ f = [n \in 0..Len(log) |-> f[n]]
             /\ f[0] = NoMetrics
             /\ \A n \in 1..Len(log) : f[n] = Observe(f[n - 1], log[n])
  BY <1>1, <1>2
<1>3. ASSUME f = [n \in 0..Len(log) |-> f[n]], f[0] = NoMetrics,
             \A n \in 1..Len(log) : f[n] = Observe(f[n - 1], log[n])
      PROVE  f = g
  <2>1. \A n \in 0..Len(log) : f[n] = g[n]
    BY <1>1, <1>3
  <2> QED
    BY <1>1, <1>3, <2>1
<1>4. IsPass(f, log) <=> f = g
  BY DEF IsPass, g
<1> QED
  BY <1>2, <1>3, <1>4

LEMMA PassOfNone == Passes(<<>>, NoMetrics)
<1>1. <<>> \in Seq(Event) /\ Len(<<>>) = 0
  OBVIOUS
<1> DEFINE f == [n \in 0..0 |-> NoMetrics]
<1>2. /\ f = [n \in 0..Len(<<>>) |-> f[n]] /\ f[0] = NoMetrics
      /\ \A n \in 1..Len(<<>>) : f[n] = Observe(f[n - 1], <<>>[n])
  OBVIOUS
<1> HIDE DEF f
<1>3. IsPass(f, <<>>)
  BY <1>1, <1>2, PassEntries
<1>4. \A h : IsPass(h, <<>>) => h[Len(<<>>)] = NoMetrics
  BY <1>1, PassEntries
<1> QED
  BY <1>3, <1>4 DEF Passes

LEMMA PassAppend ==
    ASSUME NEW log \in Seq(Event), NEW a \in Event, NEW m, Passes(log, m)
    PROVE  Passes(Append(log, a), Observe(m, a))
<1> DEFINE t == Append(log, a)
           l == Len(log)
<1>1. /\ l \in Nat /\ DOMAIN log = 1..l /\ Len(t) = l + 1 /\ t[l + 1] = a
      /\ \A n \in 1..l : t[n] = log[n]
      /\ t \in Seq(Event)
  BY LogAppend
<1> HIDE DEF t
<1>2. PICK f : IsPass(f, log)
  BY DEF Passes
<1>3. f[l] = m
  BY <1>2 DEF Passes
<1>4. /\ f[0] = NoMetrics
      /\ \A n \in 1..l : f[n] = Observe(f[n - 1], log[n])
  BY <1>2, PassEntries
<1> HIDE DEF l
<1> DEFINE g == [n \in 0..(l + 1) |-> IF n = l + 1 THEN Observe(m, a) ELSE f[n]]
<1>5. /\ g = [n \in 0..(l + 1) |-> g[n]]
      /\ g[l + 1] = Observe(m, a)
      /\ \A n \in 0..l : g[n] = f[n]
  BY <1>1
<1> HIDE DEF g
<1>6. ASSUME NEW n \in 1..(l + 1) PROVE g[n] = Observe(g[n - 1], t[n])
  <2>1. CASE n = l + 1
    <3>1. n - 1 = l /\ l \in 0..l
      BY <1>1, <2>1
    <3> QED
      BY <1>1, <1>3, <1>5, <2>1, <3>1
  <2>2. CASE n # l + 1
    <3>1. n \in 1..l /\ n \in 0..l /\ n - 1 \in 0..l
      BY <1>1, <2>2
    <3> QED
      BY <1>1, <1>4, <1>5, <3>1
  <2> QED
    BY <2>1, <2>2
<1>7. g[0] = NoMetrics
  <2>1. 0 \in 0..l
    BY <1>1
  <2> QED
    BY <1>4, <1>5, <2>1
<1>8. IsPass(g, t)
  BY <1>1, <1>5, <1>6, <1>7, PassEntries
<1>9. ASSUME NEW h, IsPass(h, t) PROVE h[l + 1] = Observe(m, a)
  <2>1. /\ h[0] = NoMetrics
        /\ \A n \in 1..(l + 1) : h[n] = Observe(h[n - 1], t[n])
    BY <1>1, <1>9, PassEntries
  <2> DEFINE k == [n \in 0..l |-> h[n]]
  <2>2. /\ k = [n \in 0..l |-> k[n]]
        /\ \A n \in 0..l : k[n] = h[n]
    OBVIOUS
  <2> HIDE DEF k
  <2>3. ASSUME NEW n \in 1..l PROVE k[n] = Observe(k[n - 1], log[n])
    <3>1. n \in 0..l /\ n - 1 \in 0..l /\ n \in 1..(l + 1)
      BY <1>1
    <3> QED
      BY <1>1, <2>1, <2>2, <3>1
  <2>4. k[0] = NoMetrics
    BY <1>1, <2>1, <2>2
  <2>5. IsPass(k, log)
    BY <2>2, <2>3, <2>4, PassEntries DEF l
  <2>6. k[l] = m
    BY <2>5 DEF Passes, l
  <2>7. l \in 0..l /\ l + 1 \in 1..(l + 1) /\ (l + 1) - 1 = l
    BY <1>1
  <2>8. h[l] = m
    BY <2>2, <2>6, <2>7
  <2> QED
    BY <1>1, <2>1, <2>7, <2>8
<1>10. Passes(t, Observe(m, a))
  BY <1>1, <1>8, <1>9 DEF Passes
<1> QED
  BY <1>10 DEF t

\* The function Metrics defines by recursion is such a pass.
LEMMA MetricsPass == ASSUME NEW m, Passes(events, m) PROVE Metrics = m
<1> DEFINE upTo ==
      CHOOSE f : f = [n \in 0..Len(events) |->
                        IF n = 0 THEN NoMetrics ELSE Observe(f[n - 1], events[n])]
<1>1. Metrics = upTo[Len(events)]
  BY Zenon DEF Metrics
<1>2. upTo = CHOOSE f : IsPass(f, events)
  BY Zenon DEF IsPass
<1> HIDE DEF upTo
<1>3. IsPass(upTo, events)
  BY <1>2 DEF Passes
<1> QED
  BY <1>1, <1>3 DEF Passes

LEMMA NoMetricsType ==
    /\ NoMetrics \in Measures
    /\ NoMetrics.pending = {} /\ NoMetrics.targeted = {} /\ NoMetrics.cancelled = {}
    /\ NoMetrics.corrections = {} /\ NoMetrics.correctionsCompleted = {}
    /\ NoMetrics.accepted = 0 /\ NoMetrics.ignored = 0
    /\ NoMetrics.stepsAfterCancellation = 0
    /\ \A class \in Refusals : NoMetrics.rejections[class] = 0
  BY DEF NoMetrics, Measures

\* What Observe makes of an entry of each kind.
SameMeasures(m, m2, fields) ==
    \A field \in {"pending", "targeted", "cancelled", "corrections", "correctionsCompleted",
                  "accepted", "ignored", "stepsAfterCancellation", "rejections"} \ fields :
        m2[field] = m[field]

LEMMA ObserveQueued ==
    ASSUME NEW m \in Measures, NEW a \in Event, a.kind = "operation.queued"
    PROVE  /\ Observe(m, a) \in Measures
           /\ SameMeasures(m, Observe(m, a), {"pending", "corrections"})
           /\ Observe(m, a).pending = m.pending \cup a.ops
           /\ Observe(m, a).corrections =
                IF a.info = "replace" THEN m.corrections \cup a.ops ELSE m.corrections
  BY DEF Observe, Measures, Event, SameMeasures

LEMMA ObserveCompleted ==
    ASSUME NEW m \in Measures, NEW a \in Event, a.kind = "operation.completed"
    PROVE  /\ Observe(m, a) \in Measures
           /\ SameMeasures(m, Observe(m, a), {"pending", "correctionsCompleted"})
           /\ Observe(m, a).pending = m.pending \ a.ops
           /\ Observe(m, a).correctionsCompleted =
                m.correctionsCompleted \cup (a.ops \cap m.corrections)
  BY DEF Observe, Measures, Event, SameMeasures

LEMMA ObserveCancelled ==
    ASSUME NEW m \in Measures, NEW a \in Event, a.kind = "operation.cancelled"
    PROVE  /\ Observe(m, a) \in Measures
           /\ SameMeasures(m, Observe(m, a), {"pending", "cancelled"})
           /\ Observe(m, a).pending = m.pending \ a.ops
           /\ Observe(m, a).cancelled =
                m.cancelled \cup (IF a.info \in {"cancel", "replace"}
                                  THEN a.ops \cap m.targeted ELSE {})
  BY DEF Observe, Measures, Event, SameMeasures, NewlyCancelled

LEMMA ObserveAccepted ==
    ASSUME NEW m \in Measures, NEW a \in Event, a.kind = "cancellation.accepted"
    PROVE  /\ Observe(m, a) \in Measures
           /\ SameMeasures(m, Observe(m, a), {"targeted", "accepted"})
           /\ Observe(m, a).targeted = m.targeted \cup m.pending
           /\ Observe(m, a).accepted = m.accepted + 1
<1> DEFINE T == m.targeted \cup m.pending
           n == m.accepted + 1
<1>1. T \in SUBSET Nat /\ n \in Nat
  BY DEF Measures
<1>2. Observe(m, a) = [m EXCEPT !.targeted = T, !.accepted = n]
  BY DEF Observe
<1> HIDE DEF T, n
<1>3. /\ [m EXCEPT !.targeted = T, !.accepted = n] \in Measures
      /\ SameMeasures(m, [m EXCEPT !.targeted = T, !.accepted = n], {"targeted", "accepted"})
      /\ [m EXCEPT !.targeted = T, !.accepted = n].targeted = T
      /\ [m EXCEPT !.targeted = T, !.accepted = n].accepted = n
  BY <1>1 DEF Measures, SameMeasures
<1> QED
  BY <1>2, <1>3 DEF T, n

LEMMA ObserveObserved ==
    ASSUME NEW m \in Measures, NEW a \in Event, a.kind = "cancellation.observed"
    PROVE  /\ Observe(m, a) \in Measures
           /\ SameMeasures(m, Observe(m, a), {"ignored"})
           /\ Observe(m, a).ignored = m.ignored + 1
  BY DEF Observe, Measures, Event, SameMeasures

LEMMA ObserveStep ==
    ASSUME NEW m \in Measures, NEW a \in Event, a.kind = "operation.step",
           a.ops \cap m.targeted = {}
    PROVE  /\ Observe(m, a) \in Measures
           /\ SameMeasures(m, Observe(m, a), {})
<1>1. Cardinality(a.ops \cap m.targeted) = 0
  BY FS_EmptySet
<1> QED
  BY <1>1 DEF Observe, Measures, Event, SameMeasures

LEMMA ObserveRejected ==
    ASSUME NEW m \in Measures, NEW a \in Event,
           a.kind \in {"command.rejected", "delegation.rejected"}, a.info \in Refusals
    PROVE  /\ Observe(m, a) \in Measures
           /\ SameMeasures(m, Observe(m, a), {"rejections"})
           /\ Observe(m, a).rejections[a.info] = m.rejections[a.info] + 1
           /\ \A class \in Refusals \ {a.info} :
                Observe(m, a).rejections[class] = m.rejections[class]
<1> DEFINE r == [m.rejections EXCEPT ![a.info] = @ + 1]
<1>1. /\ r \in [Refusals -> Nat] /\ r[a.info] = m.rejections[a.info] + 1
      /\ \A class \in Refusals \ {a.info} : r[class] = m.rejections[class]
  BY DEF Measures
<1>2. Observe(m, a) = [m EXCEPT !.rejections = r]
  BY DEF Observe, Event, Measures
<1> HIDE DEF r
<1>3. /\ [m EXCEPT !.rejections = r] \in Measures
      /\ SameMeasures(m, [m EXCEPT !.rejections = r], {"rejections"})
      /\ [m EXCEPT !.rejections = r].rejections = r
  BY <1>1 DEF Measures, SameMeasures
<1> QED
  BY <1>1, <1>2, <1>3

LEMMA ObserveOther ==
    ASSUME NEW m \in Measures, NEW a \in Event,
           a.kind \in {"delegation.registered", "operation.started", "engine.stopped"}
    PROVE  Observe(m, a) = m
  BY DEF Observe
-----------------------------------------------------------------------------
(* The measures follow the run *)

\* Pending work belongs to the epoch, and cancelled work to an earlier one.
LEMMA CurrentStep ==
    ASSUME NEW x, NEW y, Change(x, y), Current(x) PROVE Current(y)
<1>1. /\ x.epoch \in Nat /\ x.ops \in Seq(Operation) /\ y.ops \in Seq(Operation)
      /\ \A i \in DOMAIN x.ops : x.ops[i].epoch \in Nat
  <2>1. x.epoch \in Nat /\ x.ops \in Seq(Operation) /\ y.ops \in Seq(Operation)
    BY DEF Change, Sound
  <2>2. \A i \in DOMAIN x.ops : x.ops[i] \in Operation
    BY <2>1
  <2> QED
    BY <2>1, <2>2 DEF Operation
<1>2. CASE Admits(x, y)
  <2>1. PICK o \in Operation : /\ o.status = "queued" /\ o.epoch = x.epoch
                               /\ y.ops = Append(x.ops, o)
    BY <1>2 DEF Admits
  <2>2. /\ DOMAIN y.ops = DOMAIN x.ops \cup {Len(x.ops) + 1}
        /\ y.ops[Len(x.ops) + 1] = o
        /\ \A i \in DOMAIN x.ops : y.ops[i] = x.ops[i]
    BY <1>1, <2>1
  <2>3. y.epoch = x.epoch /\ ~x.halted /\ y.halted = x.halted
    BY <1>2 DEF Admits, SameEra
  <2> QED
    BY <1>1, <2>1, <2>2, <2>3 DEF Current
<1>3. CASE Fences(x, y) \/ Halts(x, y)
  <2>1. /\ ~x.halted /\ y.epoch = x.epoch + 1
        /\ DOMAIN y.ops = DOMAIN x.ops
        /\ \A i \in DOMAIN x.ops :
             /\ IF Pending(x.ops[i]) THEN y.ops[i].status = "cancelled"
                                     ELSE y.ops[i] = x.ops[i]
             /\ y.ops[i].epoch = x.ops[i].epoch
    BY <1>3 DEF Fences, Halts, EndsPending
  <2>2. ASSUME NEW i \in DOMAIN y.ops
        PROVE  ~Pending(y.ops[i]) /\ y.ops[i].epoch <= x.epoch
    BY <2>1, <2>2 DEF Pending, Current
  <2>3. ASSUME NEW i \in DOMAIN y.ops PROVE y.ops[i].epoch \in Nat
    BY <1>1, <2>1, <2>3
  <2> QED
    BY <1>1, <2>1, <2>2, <2>3 DEF Current
<1>4. CASE ~Admits(x, y) /\ ~Fences(x, y) /\ ~Halts(x, y)
  <2>1. y.epoch = x.epoch /\ y.halted = x.halted
    BY <1>4 DEF Change, Registers, Refuses, Observes, Starts, Moves, Concludes, Waits,
       SameEra
  <2>2. \/ y.ops = x.ops
        \/ \E i \in DOMAIN x.ops :
             /\ x.ops[i].status \in {"queued", "running"}
             /\ \E status \in {"running", "completed"} : Restates(x, y, i, status)
    BY <1>4 DEF Change, Registers, Refuses, Observes, Starts, Moves, Concludes, Waits,
       SameWork
  <2> QED
    BY <1>1, <2>1, <2>2 DEF Current, Restates, Pending
<1> QED
  BY <1>2, <1>3, <1>4

\* Refused requests the pass has counted in the three classes a remembered call has.
Refused(m) ==
    m.rejections["late"] + m.rejections["unregistered"] + m.rejections["terminal"]

LEMMA RefusedGrows ==
    ASSUME NEW m \in Measures, NEW m2 \in Measures, NEW info \in Refusals,
           m2.rejections[info] = m.rejections[info] + 1,
           \A class \in Refusals \ {info} : m2.rejections[class] = m.rejections[class]
    PROVE  /\ Refused(m) \in Nat /\ Refused(m2) >= Refused(m)
           /\ info \in {"late", "unregistered", "terminal"} => Refused(m2) = Refused(m) + 1
<1>1. \A class \in Refusals : m.rejections[class] \in Nat /\ m2.rejections[class] \in Nat
  BY DEF Measures
<1>2. "late" \in Refusals /\ "unregistered" \in Refusals /\ "terminal" \in Refusals
  BY DEF Refusals
<1>3. /\ m.rejections["late"] \in Nat /\ m2.rejections["late"] \in Nat
      /\ m.rejections["unregistered"] \in Nat /\ m2.rejections["unregistered"] \in Nat
      /\ m.rejections["terminal"] \in Nat /\ m2.rejections["terminal"] \in Nat
  BY <1>1, <1>2
<1>4. /\ info = "late" => m2.rejections["late"] = m.rejections["late"] + 1
      /\ info = "unregistered" =>
           m2.rejections["unregistered"] = m.rejections["unregistered"] + 1
      /\ info = "terminal" => m2.rejections["terminal"] = m.rejections["terminal"] + 1
  OBVIOUS
<1>5. /\ info # "late" => m2.rejections["late"] = m.rejections["late"]
      /\ info # "unregistered" => m2.rejections["unregistered"] = m.rejections["unregistered"]
      /\ info # "terminal" => m2.rejections["terminal"] = m.rejections["terminal"]
  BY <1>2
<1> QED
  BY <1>3, <1>4, <1>5 DEF Refused

\* Derived in terms of what a change leaves alone.
Ahead(x, m) ==
    /\ m.accepted = (IF x.mode = "cancel-actions" THEN x.intents ELSE 0)
    /\ m.ignored = (IF x.mode = "cancel-actions" THEN 0 ELSE x.intents)
    /\ x.refused <= Refused(m)

Worked(x, m) ==
    /\ m.stepsAfterCancellation = 0
    /\ m.pending = PendingIn(x.ops)
    /\ m.cancelled = {i \in DOMAIN x.ops :
                        /\ x.ops[i].status = "cancelled"
                        /\ x.ops[i].epoch < (IF x.halted THEN x.epoch - 1 ELSE x.epoch)}
    /\ m.corrections = x.corrections
    /\ m.correctionsCompleted = {i \in x.corrections : x.ops[i].status = "completed"}
    /\ m.targeted \subseteq DOMAIN x.ops
    /\ m.targeted \cap PendingIn(x.ops) = {}

LEMMA DerivedParts == ASSUME NEW x, NEW m PROVE Derived(x, m) <=> Ahead(x, m) /\ Worked(x, m)
  BY DEF Derived, Ahead, Worked, Refused

\* Nothing an entry that leaves the measures alone stands for disturbs them.
LEMMA AheadKept ==
    ASSUME NEW x, NEW y, NEW m, NEW m2, Ahead(x, m), y.mode = x.mode, SameCounts(x, y),
           SameMeasures(m, m2, {"pending", "targeted", "cancelled", "corrections",
                                "correctionsCompleted"})
    PROVE  Ahead(y, m2)
<1>1. /\ m2.accepted = m.accepted /\ m2.ignored = m.ignored
      /\ m2.rejections = m.rejections
  BY DEF SameMeasures
<1>2. Refused(m2) = Refused(m)
  BY <1>1 DEF Refused
<1> QED
  BY <1>1, <1>2 DEF Ahead, SameCounts

LEMMA WorkedKept ==
    ASSUME NEW x, NEW y, NEW m, NEW m2, Worked(x, m), SameEra(x, y), SameWork(x, y),
           SameMeasures(m, m2, {"accepted", "ignored", "rejections"})
    PROVE  Worked(y, m2)
<1>1. /\ m2.pending = m.pending /\ m2.targeted = m.targeted /\ m2.cancelled = m.cancelled
      /\ m2.corrections = m.corrections
      /\ m2.correctionsCompleted = m.correctionsCompleted
      /\ m2.stepsAfterCancellation = m.stepsAfterCancellation
  BY DEF SameMeasures
<1> QED
  BY <1>1 DEF Worked, SameEra, SameWork

\* A pass over the log derives the run.
Measured(x) == \E m \in Measures : Passes(x.log, m) /\ Derived(x, m)

LEMMA MeasuredBy ==
    ASSUME NEW x, NEW y, NEW m, x.log \in Seq(Event), Passes(x.log, m),
           NEW a \in Event, y.log = Append(x.log, a), Observe(m, a) \in Measures,
           Ahead(y, Observe(m, a)), Worked(y, Observe(m, a))
    PROVE  Measured(y)
  BY PassAppend, DerivedParts DEF Measured

LEMMA MeasuredRefusal ==
    ASSUME NEW x, NEW y, Change(x, y), Refuses(x, y),
           NEW m \in Measures, Passes(x.log, m), Ahead(x, m), Worked(x, m)
    PROVE  Measured(y)
<1>1. x.time \in Nat /\ x.log \in Seq(Event) /\ x.refused \in Nat
  BY DEF Change, Sound
<1>2. PICK kind \in {"delegation.rejected", "command.rejected"}, info \in Refusals :
        /\ y.log = Append(x.log, Entry(x, kind, {}, info))
        /\ \/ y.refused = x.refused
           \/ /\ info \in {"late", "unregistered", "terminal"}
              /\ y.refused = x.refused + 1
  BY DEF Refuses
<1> DEFINE a  == Entry(x, kind, {}, info)
           m2 == Observe(m, a)
<1>3. a \in Event /\ a.kind = kind /\ a.info = info
  <2>1. kind \in EventKinds /\ info \in Infos /\ {} \in SUBSET Nat
    BY DEF EventKinds, Infos
  <2> QED
    BY <1>1, <2>1, EntryType
<1>4. y.log = Append(x.log, a)
  BY <1>2
<1>5. /\ y.mode = x.mode /\ y.intents = x.intents /\ SameEra(x, y) /\ SameWork(x, y)
  BY DEF Refuses, SameHost
<1> HIDE DEF a
<1>6. /\ m2 \in Measures /\ SameMeasures(m, m2, {"rejections"})
      /\ m2.rejections[info] = m.rejections[info] + 1
      /\ \A class \in Refusals \ {info} : m2.rejections[class] = m.rejections[class]
  BY <1>3, ObserveRejected
<1> HIDE DEF m2
<1>7. /\ Refused(m) \in Nat /\ Refused(m2) >= Refused(m)
      /\ info \in {"late", "unregistered", "terminal"} => Refused(m2) = Refused(m) + 1
  BY <1>6, RefusedGrows
<1>8. Refused(m2) \in Nat
  BY <1>6, RefusedGrows DEF Measures, Refused, Refusals
<1>9. y.refused <= Refused(m2)
  BY <1>1, <1>2, <1>7, <1>8 DEF Ahead
<1>10. m2.accepted = m.accepted /\ m2.ignored = m.ignored
  BY <1>6 DEF SameMeasures
<1>11. Ahead(y, m2)
  BY <1>5, <1>9, <1>10 DEF Ahead
<1>12. SameMeasures(m, m2, {"accepted", "ignored", "rejections"})
  BY <1>6 DEF SameMeasures
<1>13. Worked(y, m2)
  BY <1>5, <1>12, WorkedKept
<1> QED
  BY <1>1, <1>3, <1>4, <1>6, <1>11, <1>13, MeasuredBy DEF m2

LEMMA MeasuredAdmission ==
    ASSUME NEW x, NEW y, Change(x, y), Admits(x, y),
           NEW m \in Measures, Passes(x.log, m), Ahead(x, m), Worked(x, m)
    PROVE  Measured(y)
<1> DEFINE n == Len(x.ops) + 1
<1>1. x.time \in Nat /\ x.log \in Seq(Event) /\ x.ops \in Seq(Operation)
      /\ x.corrections \subseteq DOMAIN x.ops
  BY DEF Change, Sound
<1>2. PICK o \in Operation, info \in {"move", "replace"} :
        /\ o.status = "queued"
        /\ y.ops = Append(x.ops, o)
        /\ y.corrections = IF info = "replace" THEN x.corrections \cup {n} ELSE x.corrections
        /\ y.log = Append(x.log, Entry(x, "operation.queued", {n}, info))
  BY DEF Admits
<1>3. /\ DOMAIN y.ops = DOMAIN x.ops \cup {n} /\ n \notin DOMAIN x.ops /\ n \in Nat
      /\ y.ops[n] = o /\ \A i \in DOMAIN x.ops : y.ops[i] = x.ops[i]
  BY <1>1, <1>2
<1> HIDE DEF n
<1> DEFINE a  == Entry(x, "operation.queued", {n}, info)
           m2 == Observe(m, a)
<1>4. a \in Event /\ a.kind = "operation.queued" /\ a.ops = {n} /\ a.info = info
  <2>1. {n} \in SUBSET Nat /\ "operation.queued" \in EventKinds /\ info \in Infos
    BY <1>3 DEF EventKinds, Infos
  <2> QED
    BY <1>1, <2>1, EntryType
<1>5. y.log = Append(x.log, a) /\ y.mode = x.mode /\ SameCounts(x, y) /\ SameEra(x, y)
  BY <1>2 DEF Admits, SameHost
<1> HIDE DEF a
<1>6. /\ m2 \in Measures /\ SameMeasures(m, m2, {"pending", "corrections"})
      /\ m2.pending = m.pending \cup {n}
      /\ m2.corrections = IF info = "replace" THEN m.corrections \cup {n} ELSE m.corrections
  BY <1>4, ObserveQueued
<1> HIDE DEF m2
<1>7. Ahead(y, m2)
  <2>1. SameMeasures(m, m2, {"pending", "targeted", "cancelled", "corrections",
                             "correctionsCompleted"})
    BY <1>6 DEF SameMeasures
  <2> QED
    BY <1>5, <2>1, AheadKept
<1>8. /\ m2.stepsAfterCancellation = m.stepsAfterCancellation
      /\ m2.cancelled = m.cancelled /\ m2.targeted = m.targeted
      /\ m2.correctionsCompleted = m.correctionsCompleted
  BY <1>6 DEF SameMeasures
<1>9. PendingIn(y.ops) = PendingIn(x.ops) \cup {n}
  BY <1>2, <1>3 DEF PendingIn, Pending
<1>10. y.epoch = x.epoch /\ y.halted = x.halted
  BY <1>5 DEF SameEra
<1> DEFINE ended(z, bound) ==
      {i \in DOMAIN z.ops : z.ops[i].status = "cancelled" /\ z.ops[i].epoch < bound}
<1>11. \A bound : ended(y, bound) = ended(x, bound)
  BY <1>2, <1>3
<1>12. m2.cancelled = ended(y, IF y.halted THEN y.epoch - 1 ELSE y.epoch)
  BY <1>8, <1>10, <1>11 DEF Worked
<1>13. m2.corrections = y.corrections
  BY <1>2, <1>6 DEF Worked
<1>14. m2.correctionsCompleted = {i \in y.corrections : y.ops[i].status = "completed"}
  <2>1. {i \in y.corrections : y.ops[i].status = "completed"}
          = {i \in x.corrections : x.ops[i].status = "completed"}
    BY <1>1, <1>2, <1>3
  <2> QED
    BY <1>8, <2>1 DEF Worked
<1>15. m2.targeted \subseteq DOMAIN y.ops /\ m2.targeted \cap PendingIn(y.ops) = {}
  BY <1>3, <1>8, <1>9 DEF Worked
<1>16. Worked(y, m2)
  BY <1>6, <1>8, <1>9, <1>12, <1>13, <1>14, <1>15 DEF Worked
<1> QED
  BY <1>1, <1>4, <1>5, <1>6, <1>7, <1>16, MeasuredBy DEF m2

LEMMA MeasuredObservation ==
    ASSUME NEW x, NEW y, Change(x, y), Observes(x, y),
           NEW m \in Measures, Passes(x.log, m), Ahead(x, m), Worked(x, m)
    PROVE  Measured(y)
<1>1. x.time \in Nat /\ x.log \in Seq(Event)
  BY DEF Change, Sound
<1>2. PICK info \in {"cancel", "replace"} :
        y.log = Append(x.log, Entry(x, "cancellation.observed", {}, info))
  BY DEF Observes
<1> DEFINE a  == Entry(x, "cancellation.observed", {}, info)
           m2 == Observe(m, a)
<1>3. a \in Event /\ a.kind = "cancellation.observed"
  <2>1. "cancellation.observed" \in EventKinds /\ info \in Infos /\ {} \in SUBSET Nat
    BY DEF EventKinds, Infos
  <2> QED
    BY <1>1, <2>1, EntryType
<1>4. /\ y.log = Append(x.log, a) /\ y.mode = x.mode /\ SameEra(x, y) /\ SameWork(x, y)
      /\ x.mode # "cancel-actions"
      /\ y.intents = x.intents + 1 /\ y.refused = x.refused
  BY <1>2 DEF Observes, SameHost
<1> HIDE DEF a
<1>5. /\ m2 \in Measures /\ SameMeasures(m, m2, {"ignored"})
      /\ m2.ignored = m.ignored + 1
  BY <1>3, ObserveObserved
<1> HIDE DEF m2
<1>6. /\ m2.accepted = m.accepted /\ Refused(m2) = Refused(m)
      /\ SameMeasures(m, m2, {"accepted", "ignored", "rejections"})
  BY <1>5 DEF SameMeasures, Refused
<1>7. Ahead(y, m2)
  BY <1>4, <1>5, <1>6 DEF Ahead
<1>8. Worked(y, m2)
  BY <1>4, <1>6, WorkedKept
<1> QED
  BY <1>1, <1>3, <1>4, <1>5, <1>7, <1>8, MeasuredBy DEF m2

\* An operation that starts, or the registration of a delegation: no measure changes.
LEMMA MeasuredQuietly ==
    ASSUME NEW x, NEW y, Change(x, y), Registers(x, y) \/ Starts(x, y),
           NEW m \in Measures, Passes(x.log, m), Ahead(x, m), Worked(x, m)
    PROVE  Measured(y)
<1>1. /\ x.time \in Nat /\ x.log \in Seq(Event) /\ x.ops \in Seq(Operation)
      /\ x.corrections \subseteq DOMAIN x.ops
  BY DEF Change, Sound
<1>2. PICK kind \in {"delegation.registered", "operation.started"}, ops \in SUBSET Nat :
        y.log = Append(x.log, Entry(x, kind, ops, "none"))
  <2>1. CASE Registers(x, y)
    BY <2>1 DEF Registers
  <2>2. CASE Starts(x, y)
    <3>1. PICK i \in DOMAIN x.ops :
            y.log = Append(x.log, Entry(x, "operation.started", {i}, "none"))
      BY <2>2 DEF Starts
    <3>2. {i} \in SUBSET Nat
      BY <1>1
    <3> QED
      BY <3>1, <3>2
  <2> QED
    BY <2>1, <2>2
<1> DEFINE a == Entry(x, kind, ops, "none")
<1>3. a \in Event /\ a.kind = kind
  <2>1. kind \in EventKinds /\ "none" \in Infos
    BY DEF EventKinds, Infos
  <2> QED
    BY <1>1, <2>1, EntryType
<1>4. y.log = Append(x.log, a)
  BY <1>2
<1> HIDE DEF a
<1>5. Observe(m, a) = m
  BY <1>3, ObserveOther
<1>6. /\ y.mode = x.mode /\ SameCounts(x, y)
      /\ y.epoch = x.epoch /\ y.halted = x.halted /\ y.corrections = x.corrections
  BY DEF Registers, Starts, SameHost, SameEra, SameWork, Restates
<1>7. Ahead(y, m)
  <2>1. y.intents = x.intents /\ y.refused = x.refused
    BY <1>6 DEF SameCounts
  <2> QED
    BY <1>6, <2>1 DEF Ahead
<1>8. /\ DOMAIN y.ops = DOMAIN x.ops
      /\ \A i \in DOMAIN x.ops :
           /\ y.ops[i].epoch = x.ops[i].epoch
           /\ \/ y.ops[i].status = x.ops[i].status
              \/ x.ops[i].status = "queued" /\ y.ops[i].status = "running"
  BY DEF Registers, Starts, SameWork, Restates
<1>9. PendingIn(y.ops) = PendingIn(x.ops)
  BY <1>8 DEF PendingIn, Pending
<1> DEFINE ended(z, bound) ==
      {i \in DOMAIN z.ops : z.ops[i].status = "cancelled" /\ z.ops[i].epoch < bound}
<1>10. \A bound : ended(y, bound) = ended(x, bound)
  BY <1>8
<1>11. {i \in y.corrections : y.ops[i].status = "completed"}
          = {i \in x.corrections : x.ops[i].status = "completed"}
  BY <1>1, <1>6, <1>8
<1>12. Worked(y, m)
  BY <1>6, <1>8, <1>9, <1>10, <1>11 DEF Worked
<1> QED
  BY <1>1, <1>3, <1>4, <1>5, <1>7, <1>12, MeasuredBy

\* A step moves the cargo of pending work, which no accepted cancellation targeted.
LEMMA MeasuredMove ==
    ASSUME NEW x, NEW y, Change(x, y), Moves(x, y),
           NEW m \in Measures, Passes(x.log, m), Ahead(x, m), Worked(x, m)
    PROVE  Measured(y)
<1>1. x.time \in Nat /\ x.log \in Seq(Event) /\ x.ops \in Seq(Operation)
  BY DEF Change, Sound
<1>2. PICK i \in DOMAIN x.ops :
        /\ x.ops[i].status = "running"
        /\ y.log = Append(x.log, Entry(x, "operation.step", {i}, "none"))
  BY DEF Moves
<1> DEFINE a  == Entry(x, "operation.step", {i}, "none")
           m2 == Observe(m, a)
<1>3. a \in Event /\ a.kind = "operation.step" /\ a.ops = {i}
  <2>1. "operation.step" \in EventKinds /\ "none" \in Infos /\ {i} \in SUBSET Nat
    BY <1>1 DEF EventKinds, Infos
  <2> QED
    BY <1>1, <2>1, EntryType
<1>4. /\ y.log = Append(x.log, a) /\ y.mode = x.mode /\ SameCounts(x, y)
      /\ SameEra(x, y) /\ SameWork(x, y)
  BY <1>2 DEF Moves, SameHost
<1> HIDE DEF a
<1>5. a.ops \cap m.targeted = {}
  BY <1>2, <1>3 DEF Worked, PendingIn, Pending
<1>6. m2 \in Measures /\ SameMeasures(m, m2, {})
  BY <1>3, <1>5, ObserveStep
<1> HIDE DEF m2
<1>7. Ahead(y, m2)
  <2>1. SameMeasures(m, m2, {"pending", "targeted", "cancelled", "corrections",
                             "correctionsCompleted"})
    BY <1>6 DEF SameMeasures
  <2> QED
    BY <1>4, <2>1, AheadKept
<1>8. Worked(y, m2)
  <2>1. SameMeasures(m, m2, {"accepted", "ignored", "rejections"})
    BY <1>6 DEF SameMeasures
  <2> QED
    BY <1>4, <2>1, WorkedKept
<1> QED
  BY <1>1, <1>3, <1>4, <1>6, <1>7, <1>8, MeasuredBy DEF m2

LEMMA MeasuredCompletion ==
    ASSUME NEW x, NEW y, Change(x, y), Concludes(x, y),
           NEW m \in Measures, Passes(x.log, m), Ahead(x, m), Worked(x, m)
    PROVE  Measured(y)
<1>1. /\ x.time \in Nat /\ x.log \in Seq(Event) /\ x.ops \in Seq(Operation)
      /\ x.corrections \subseteq DOMAIN x.ops
  BY DEF Change, Sound
<1>2. PICK i \in DOMAIN x.ops :
        /\ x.ops[i].status = "running" /\ Restates(x, y, i, "completed")
        /\ y.log = Append(x.log, Entry(x, "operation.completed", {i}, "none"))
  BY DEF Concludes
<1> DEFINE a  == Entry(x, "operation.completed", {i}, "none")
           m2 == Observe(m, a)
<1>3. a \in Event /\ a.kind = "operation.completed" /\ a.ops = {i}
  <2>1. "operation.completed" \in EventKinds /\ "none" \in Infos /\ {i} \in SUBSET Nat
    BY <1>1 DEF EventKinds, Infos
  <2> QED
    BY <1>1, <2>1, EntryType
<1>4. /\ y.log = Append(x.log, a) /\ y.mode = x.mode /\ SameCounts(x, y)
      /\ y.epoch = x.epoch /\ y.halted = x.halted /\ y.corrections = x.corrections
  BY <1>2 DEF Concludes, SameHost, SameEra, Restates
<1>5. /\ DOMAIN y.ops = DOMAIN x.ops /\ y.ops[i].status = "completed"
      /\ y.ops[i].epoch = x.ops[i].epoch
      /\ \A j \in DOMAIN x.ops \ {i} : y.ops[j] = x.ops[j]
  BY <1>2 DEF Restates
<1> HIDE DEF a
<1>6. /\ m2 \in Measures /\ SameMeasures(m, m2, {"pending", "correctionsCompleted"})
      /\ m2.pending = m.pending \ {i}
      /\ m2.correctionsCompleted = m.correctionsCompleted \cup ({i} \cap m.corrections)
  BY <1>3, ObserveCompleted
<1> HIDE DEF m2
<1>7. Ahead(y, m2)
  <2>1. SameMeasures(m, m2, {"pending", "targeted", "cancelled", "corrections",
                             "correctionsCompleted"})
    BY <1>6 DEF SameMeasures
  <2> QED
    BY <1>4, <2>1, AheadKept
<1>8. /\ m2.stepsAfterCancellation = m.stepsAfterCancellation
      /\ m2.cancelled = m.cancelled /\ m2.targeted = m.targeted
      /\ m2.corrections = m.corrections
  BY <1>6 DEF SameMeasures
<1>9. PendingIn(y.ops) = PendingIn(x.ops) \ {i}
  BY <1>5 DEF PendingIn, Pending
<1> DEFINE ended(z, bound) ==
      {j \in DOMAIN z.ops : z.ops[j].status = "cancelled" /\ z.ops[j].epoch < bound}
<1>10. \A bound : ended(y, bound) = ended(x, bound)
  BY <1>2, <1>5
<1>11. {j \in y.corrections : y.ops[j].status = "completed"}
          = {j \in x.corrections : x.ops[j].status = "completed"} \cup ({i} \cap x.corrections)
  BY <1>1, <1>4, <1>5
<1>12. Worked(y, m2)
  BY <1>4, <1>5, <1>6, <1>8, <1>9, <1>10, <1>11 DEF Worked
<1> QED
  BY <1>1, <1>3, <1>4, <1>6, <1>7, <1>12, MeasuredBy DEF m2

\* What the pass makes of the entry that names what ended, when there is any.
AfterEnding(x, log, reason, m, m2) ==
    /\ Ending(x, log, reason) \in Seq(Event)
    /\ Passes(Ending(x, log, reason), m2)
    /\ SameMeasures(m, m2, {"pending", "cancelled"})
    /\ m2.pending = {}
    /\ m2.cancelled = m.cancelled \cup
         (IF reason \in {"cancel", "replace"} THEN PendingIn(x.ops) \cap m.targeted ELSE {})

LEMMA MeasuredEnding ==
    ASSUME NEW x, x.time \in Nat, x.ops \in Seq(Operation), NEW log \in Seq(Event),
           NEW m \in Measures, Passes(log, m), m.pending = PendingIn(x.ops),
           NEW reason \in Infos
    PROVE  \E m2 \in Measures : AfterEnding(x, log, reason, m, m2)
<1> DEFINE P == PendingIn(x.ops)
           a == Entry(x, "operation.cancelled", P, reason)
<1>1. CASE P = {}
  <2>1. Ending(x, log, reason) = log
    BY <1>1 DEF Ending
  <2>2. SameMeasures(m, m, {"pending", "cancelled"})
    BY DEF SameMeasures
  <2>3. AfterEnding(x, log, reason, m, m)
    BY <1>1, <2>1, <2>2 DEF AfterEnding
  <2> QED
    BY <2>3
<1>2. CASE P # {}
  <2>1. "operation.cancelled" \in EventKinds /\ P \in SUBSET Nat
    BY PendingNamed DEF EventKinds
  <2>2. /\ a \in Event /\ a.kind = "operation.cancelled" /\ a.ops = P
        /\ a.info = reason
    BY <2>1, EntryType
  <2>3. Ending(x, log, reason) = Append(log, a)
    BY <1>2 DEF Ending
  <2> HIDE DEF a
  <2>4. Append(log, a) \in Seq(Event) /\ Passes(Append(log, a), Observe(m, a))
    BY <2>2, LogAppend, PassAppend
  <2>5. /\ Observe(m, a) \in Measures
        /\ SameMeasures(m, Observe(m, a), {"pending", "cancelled"})
        /\ Observe(m, a).pending = m.pending \ P
        /\ Observe(m, a).cancelled =
             m.cancelled \cup (IF reason \in {"cancel", "replace"}
                               THEN P \cap m.targeted ELSE {})
    BY <2>2, ObserveCancelled
  <2>6. m.pending \ P = {}
    OBVIOUS
  <2>7. AfterEnding(x, log, reason, m, Observe(m, a))
    BY <2>3, <2>4, <2>5, <2>6 DEF AfterEnding
  <2> QED
    BY <2>5, <2>7
<1> QED
  BY <1>1, <1>2

CancelledBefore(x, bound) ==
    {i \in DOMAIN x.ops : x.ops[i].status = "cancelled" /\ x.ops[i].epoch < bound}
Corrected(x) == {i \in x.corrections : x.ops[i].status = "completed"}

\* What a cancellation or a stop leaves of the work.
LEMMA EndedWork ==
    ASSUME NEW x, NEW y, Sound(x), EndsPending(x, y), Current(x), ~x.halted
    PROVE  /\ PendingIn(y.ops) = {}
           /\ DOMAIN y.ops = DOMAIN x.ops
           /\ CancelledBefore(y, x.epoch + 1) = CancelledBefore(x, x.epoch) \cup PendingIn(x.ops)
           /\ CancelledBefore(y, x.epoch) = CancelledBefore(x, x.epoch)
           /\ Corrected(y) = Corrected(x)
<1>1. /\ x.epoch \in Nat /\ x.ops \in Seq(Operation) /\ x.corrections \subseteq DOMAIN x.ops
  BY DEF Sound
<1>2. \A i \in DOMAIN x.ops : x.ops[i].epoch \in Nat
  <2>1. \A i \in DOMAIN x.ops : x.ops[i] \in Operation
    BY <1>1
  <2> QED
    BY <2>1 DEF Operation
<1>3. /\ DOMAIN y.ops = DOMAIN x.ops /\ y.corrections = x.corrections
      /\ \A i \in DOMAIN x.ops :
           /\ Pending(x.ops[i]) => y.ops[i].status = "cancelled"
           /\ ~Pending(x.ops[i]) => y.ops[i].status = x.ops[i].status
           /\ y.ops[i].epoch = x.ops[i].epoch
  BY DEF EndsPending
<1>4. \A i \in DOMAIN x.ops :
        /\ Pending(x.ops[i]) =>
             x.ops[i].epoch = x.epoch /\ x.ops[i].status \notin {"cancelled", "completed"}
        /\ x.ops[i].status = "cancelled" => x.ops[i].epoch < x.epoch
        /\ x.ops[i].status = "cancelled" => ~Pending(x.ops[i])
  BY DEF Current, Pending
<1>5. PendingIn(y.ops) = {}
  BY <1>3 DEF PendingIn, Pending
<1>6. PendingIn(x.ops) = {i \in DOMAIN x.ops : Pending(x.ops[i])}
  BY DEF PendingIn
<1>7. CancelledBefore(y, x.epoch + 1) = CancelledBefore(x, x.epoch) \cup PendingIn(x.ops)
  BY <1>1, <1>2, <1>3, <1>4, <1>6 DEF CancelledBefore
<1>8. CancelledBefore(y, x.epoch) = CancelledBefore(x, x.epoch)
  BY <1>1, <1>2, <1>3, <1>4 DEF CancelledBefore
<1>9. Corrected(y) = Corrected(x)
  BY <1>1, <1>3, <1>4 DEF Corrected
<1> QED
  BY <1>3, <1>5, <1>7, <1>8, <1>9

LEMMA MeasuredFence ==
    ASSUME NEW x, NEW y, Change(x, y), Fences(x, y), Current(x),
           NEW m \in Measures, Passes(x.log, m), Ahead(x, m), Worked(x, m)
    PROVE  Measured(y)
<1>1. /\ Sound(x) /\ x.time \in Nat /\ x.log \in Seq(Event) /\ x.ops \in Seq(Operation)
      /\ x.epoch \in Nat /\ ~x.halted
  BY DEF Change, Sound, Fences
<1>2. PICK info \in {"cancel", "replace"} :
        y.log = Ending(x, Append(x.log, Entry(x, "cancellation.accepted", {}, info)), info)
  BY DEF Fences
<1> DEFINE a  == Entry(x, "cancellation.accepted", {}, info)
           t  == Append(x.log, a)
           m1 == Observe(m, a)
<1>3. a \in Event /\ a.kind = "cancellation.accepted" /\ info \in Infos
  <2>1. "cancellation.accepted" \in EventKinds /\ info \in Infos /\ {} \in SUBSET Nat
    BY DEF EventKinds, Infos
  <2> QED
    BY <1>1, <2>1, EntryType
<1>4. y.log = Ending(x, t, info)
  BY <1>2
<1> HIDE DEF a
<1>5. /\ m1 \in Measures /\ SameMeasures(m, m1, {"targeted", "accepted"})
      /\ m1.targeted = m.targeted \cup m.pending
      /\ m1.accepted = m.accepted + 1
  BY <1>3, ObserveAccepted
<1>6. t \in Seq(Event) /\ Passes(t, m1)
  BY <1>1, <1>3, LogAppend, PassAppend
<1> HIDE DEF t, m1
<1>7. /\ m1.pending = PendingIn(x.ops) /\ m1.cancelled = m.cancelled
      /\ m1.corrections = m.corrections
      /\ m1.correctionsCompleted = m.correctionsCompleted
      /\ m1.ignored = m.ignored /\ m1.stepsAfterCancellation = 0
      /\ m1.rejections = m.rejections
  BY <1>5 DEF SameMeasures, Worked
<1>8. PICK m2 \in Measures : AfterEnding(x, t, info, m1, m2)
  BY <1>1, <1>3, <1>5, <1>6, <1>7, MeasuredEnding
<1>9. /\ m2.targeted = m1.targeted /\ m2.corrections = m.corrections
      /\ m2.correctionsCompleted = m.correctionsCompleted
      /\ m2.accepted = m.accepted + 1 /\ m2.ignored = m.ignored
      /\ m2.stepsAfterCancellation = 0 /\ m2.rejections = m.rejections
  BY <1>5, <1>7, <1>8 DEF SameMeasures, AfterEnding
<1>10. m2.cancelled = m.cancelled \cup PendingIn(x.ops) /\ m2.pending = {}
  BY <1>5, <1>7, <1>8 DEF Worked, AfterEnding
<1>11. /\ y.mode = x.mode /\ x.mode = "cancel-actions" /\ y.epoch = x.epoch + 1
       /\ y.halted = x.halted /\ EndsPending(x, y)
       /\ y.intents = x.intents + 1 /\ y.refused = x.refused
       /\ y.corrections = x.corrections
  BY DEF Fences, SameHost, EndsPending
<1>12. Ahead(y, m2)
  <2>1. Refused(m2) = Refused(m)
    BY <1>9 DEF Refused
  <2> QED
    BY <1>9, <1>11, <2>1 DEF Ahead
<1>13. /\ PendingIn(y.ops) = {} /\ DOMAIN y.ops = DOMAIN x.ops
       /\ CancelledBefore(y, x.epoch + 1)
            = CancelledBefore(x, x.epoch) \cup PendingIn(x.ops)
       /\ Corrected(y) = Corrected(x)
  BY <1>1, <1>11, EndedWork
<1>14. m2.cancelled = CancelledBefore(y, y.epoch)
  BY <1>1, <1>10, <1>11, <1>13 DEF Worked, CancelledBefore
<1>15. m2.targeted \subseteq DOMAIN y.ops
  BY <1>1, <1>5, <1>9, <1>13, PendingNamed DEF Worked
<1>16. ~y.halted
  BY <1>1, <1>11
<1>17. m2.corrections = y.corrections
  BY <1>9, <1>11 DEF Worked
<1>18. m2.correctionsCompleted = Corrected(y)
  BY <1>9, <1>13 DEF Worked, Corrected
<1>19. Worked(y, m2)
  BY <1>9, <1>10, <1>13, <1>14, <1>15, <1>16, <1>17, <1>18
     DEF Worked, CancelledBefore, Corrected
<1> QED
  BY <1>4, <1>8, <1>12, <1>19, DerivedParts DEF Measured, AfterEnding

LEMMA MeasuredStop ==
    ASSUME NEW x, NEW y, Change(x, y), Halts(x, y), Current(x),
           NEW m \in Measures, Passes(x.log, m), Ahead(x, m), Worked(x, m)
    PROVE  Measured(y)
<1>1. /\ Sound(x) /\ x.time \in Nat /\ x.log \in Seq(Event) /\ x.ops \in Seq(Operation)
      /\ x.epoch \in Nat /\ ~x.halted
  BY DEF Change, Sound, Halts
<1>2. "engine.stopped" \in Infos /\ m.pending = PendingIn(x.ops)
  BY DEF Infos, Worked
<1>3. PICK m2 \in Measures : AfterEnding(x, x.log, "engine.stopped", m, m2)
  BY <1>1, <1>2, MeasuredEnding
<1> DEFINE a == Entry(x, "engine.stopped", {}, "none")
           t == Ending(x, x.log, "engine.stopped")
<1>4. a \in Event /\ a.kind = "engine.stopped"
  <2>1. "engine.stopped" \in EventKinds /\ "none" \in Infos /\ {} \in SUBSET Nat
    BY DEF EventKinds, Infos
  <2> QED
    BY <1>1, <2>1, EntryType
<1>5. y.log = Append(t, a)
  BY DEF Halts
<1> HIDE DEF a, t
<1>6. Passes(y.log, m2)
  <2>1. t \in Seq(Event) /\ Passes(t, m2)
    BY <1>3 DEF t, AfterEnding
  <2>2. Observe(m2, a) = m2
    BY <1>4, ObserveOther
  <2>3. Passes(Append(t, a), Observe(m2, a))
    BY <1>4, <2>1, PassAppend
  <2> QED
    BY <1>5, <2>2, <2>3
<1>7. /\ m2.targeted = m.targeted /\ m2.corrections = m.corrections
      /\ m2.correctionsCompleted = m.correctionsCompleted
      /\ m2.stepsAfterCancellation = m.stepsAfterCancellation
  BY <1>3 DEF SameMeasures, AfterEnding
<1>8. m2.cancelled = m.cancelled /\ m2.pending = {}
  BY <1>3 DEF AfterEnding
<1>9. /\ y.mode = x.mode /\ y.epoch = x.epoch + 1 /\ y.halted /\ EndsPending(x, y)
      /\ SameCounts(x, y) /\ y.corrections = x.corrections
  BY DEF Halts, SameHost, EndsPending
<1>10. Ahead(y, m2)
  <2>1. SameMeasures(m, m2, {"pending", "targeted", "cancelled", "corrections",
                             "correctionsCompleted"})
    BY <1>3 DEF SameMeasures, AfterEnding
  <2> QED
    BY <1>9, <2>1, AheadKept
<1>11. /\ PendingIn(y.ops) = {} /\ DOMAIN y.ops = DOMAIN x.ops
       /\ CancelledBefore(y, x.epoch) = CancelledBefore(x, x.epoch)
       /\ Corrected(y) = Corrected(x)
  BY <1>1, <1>9, EndedWork
<1>12. y.epoch - 1 = x.epoch
  BY <1>1, <1>9
<1>13. m2.cancelled = CancelledBefore(y, y.epoch - 1)
  BY <1>1, <1>8, <1>11, <1>12 DEF Worked, CancelledBefore
<1>14. m2.targeted \subseteq DOMAIN y.ops
  BY <1>7, <1>11 DEF Worked
<1>15. m2.corrections = y.corrections
  BY <1>7, <1>9 DEF Worked
<1>16. m2.correctionsCompleted = Corrected(y)
  BY <1>7, <1>11 DEF Worked, Corrected
<1>17. m2.stepsAfterCancellation = 0
  BY <1>7 DEF Worked
<1>18. Worked(y, m2)
  BY <1>8, <1>9, <1>11, <1>13, <1>14, <1>15, <1>16, <1>17
     DEF Worked, CancelledBefore, Corrected
<1> QED
  BY <1>6, <1>10, <1>18, DerivedParts DEF Measured

LEMMA MeasuredStep ==
    ASSUME NEW x, NEW y, Change(x, y), Current(x), Measured(x) PROVE Measured(y)
<1>1. PICK m \in Measures : Passes(x.log, m) /\ Ahead(x, m) /\ Worked(x, m)
  BY DerivedParts DEF Measured
<1>2. CASE Waits(x, y)
  <2>1. /\ y.log = x.log /\ y.mode = x.mode /\ SameEra(x, y) /\ SameWork(x, y)
        /\ SameCounts(x, y)
    BY <1>2 DEF Waits
  <2>2. Ahead(y, m) /\ Worked(y, m)
    BY <1>1, <2>1, AheadKept, WorkedKept DEF SameMeasures
  <2> QED
    BY <1>1, <2>1, <2>2, DerivedParts DEF Measured
<1> QED
  BY <1>1, <1>2, MeasuredQuietly, MeasuredRefusal, MeasuredAdmission, MeasuredFence,
     MeasuredObservation, MeasuredMove, MeasuredCompletion, MeasuredStop DEF Change

\* The pass deriveActionMetrics makes over the audit log, which sees nothing else of a
\* run, derives exactly what the engine holds: what is pending, what cancellation ended,
\* the corrections and those that completed, and every cancel or replace answered.
THEOREM MetricsCorrect == Spec => []MetricsMatchEngine
<1> DEFINE Inv == Current(Run) /\ Measured(Run)
<1>1. Init => Inv
  <2> SUFFICES ASSUME Init PROVE Inv
    OBVIOUS
  <2>1. /\ Run.log = <<>> /\ Run.ops = <<>> /\ DOMAIN Run.ops = {}
        /\ Run.corrections = {} /\ Run.intents = 0 /\ Run.refused = 0
    <3>1. DOMAIN calls = {} /\ operations = <<>> /\ DOMAIN operations = {} /\ events = <<>>
      BY DEF Init
    <3>2. OperationsFrom("replace") = {} /\ Intents = {} /\ RefusedCalls = {}
      BY <3>1 DEF OperationsFrom, Intents, RefusedCalls, CallsWith
    <3> QED
      BY <3>1, <3>2, RunFields, FS_EmptySet
  <2>2. Current(Run)
    BY <2>1 DEF Current
  <2>3. PendingIn(Run.ops) = {}
    BY <2>1 DEF PendingIn
  <2>4. Refused(NoMetrics) = 0
    BY NoMetricsType DEF Refused, Refusals
  <2>5. Ahead(Run, NoMetrics) /\ Worked(Run, NoMetrics)
    BY <2>1, <2>3, <2>4, NoMetricsType DEF Ahead, Worked
  <2> QED
    BY <2>1, <2>2, <2>5, NoMetricsType, PassOfNone, DerivedParts DEF Measured
<1>2. Grounded /\ Grounded' /\ Inv /\ [Next]_vars => Inv'
  <2> SUFFICES ASSUME Grounded, Grounded', Inv, [Next]_vars PROVE Inv'
    OBVIOUS
  <2>1. PICK x, y : Change(Run, x) /\ Change(x, y) /\ Change(y, Run')
    BY GroundedChanges DEF Explainable
  <2>2. Current(x) /\ Measured(x)
    BY <2>1, CurrentStep, MeasuredStep
  <2>3. Current(y) /\ Measured(y)
    BY <2>1, <2>2, CurrentStep, MeasuredStep
  <2>4. Current(Run') /\ Measured(Run')
    BY <2>1, <2>3, CurrentStep, MeasuredStep
  <2> QED
    BY <2>4 DEF Current, Measured, Derived
<1>3. Inv => MetricsMatchEngine
  <2> SUFFICES ASSUME Inv PROVE MetricsMatchEngine
    OBVIOUS
  <2>1. PICK m \in Measures : Passes(events, m) /\ Derived(Run, m)
    BY RunFields DEF Measured
  <2>2. Metrics = m
    BY <2>1, MetricsPass
  <2>3. Run.intents = Cardinality(Intents) /\ Run.refused = Cardinality(RefusedCalls)
    BY RunFields
  <2> QED
    BY <2>1, <2>2, <2>3, RunFields DEF Derived, MetricsMatchEngine, Intents, RefusedCalls
<1> QED
  BY <1>1, <1>2, <1>3, GroundedInvariant, PTL DEF Spec
=============================================================================
