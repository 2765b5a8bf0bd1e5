-------------------------- MODULE DelegatedWorkProofs --------------------------
(***************************************************************************)
(* Theorems about DelegatedWork, for any delegations, calls and bounds: the *)
(* engine inside it is the engine of GameEngine, no work is stale whatever  *)
(* the network delays, and every tool call is answered once.  Then what it  *)
(* promises beyond single calls: work in progress holds the idle clock, and *)
(* every response that asked for tools is continued once.  These two rest   *)
(* on the order in which the responses of one delegation are heard of.      *)
(***************************************************************************)
EXTENDS DelegatedWork, GameEngineProofs

(* The messages in flight *)

Offer == Nat \cup {NoOffset, InvalidOffset}
CallMaps == UNION {[D -> Requests] : D \in SUBSET CallIds}
Response == [delegation: Delegations, calls: CallMaps, complete: BOOLEAN, named: BOOLEAN]
TerminalKinds == {"completed", "unnamed"}
Message ==
    [kind: {"created"}, delegation: Delegations, offset: Offer]
      \cup [kind: {"call"}, delegation: Delegations, call: CallIds, request: Requests]
      \cup [kind: TerminalKinds, delegation: Delegations, response: Nat]
      \cup [kind: {"progress", "failed"}, delegation: Delegations]

\* What the service says is so.
MeantBy(m, cr, rs) ==
    /\ m.delegation \in DOMAIN cr
    /\ m.kind = "created" => m.offset = cr[m.delegation].offset
    /\ m.kind \in TerminalKinds =>
         /\ m.response \in DOMAIN rs /\ rs[m.response].complete
         /\ rs[m.response].named <=> m.kind = "completed"
         /\ rs[m.response].delegation = m.delegation
Meant(m) == MeantBy(m, created, responses)

Carries(m, r, c) == m.kind = "call" /\ m.delegation = responses[r].delegation /\ m.call = c
Ends(m, r) == m.kind \in TerminalKinds /\ m.response = r

(* The invariant *)

\* The run's origin is no later than the service's, and offsets count from the latter.
ClockOK ==
    /\ requestAt \in Nat /\ requestAt <= now
    /\ \/ origin = NoOrigin /\ DOMAIN created = {}
       \/ origin \in Nat /\ requestAt <= origin /\ origin <= now
    /\ \A d \in DOMAIN created :
         /\ d \in Delegations /\ created[d].at \in Nat /\ created[d].at <= now
         /\ created[d].offset \in Offer
         /\ created[d].offset \in Nat => created[d].at = origin + created[d].offset

ServiceOK ==
    /\ responses \in Seq(Response)
    /\ \A r \in DOMAIN responses : responses[r].delegation \in DOMAIN created
    /\ wire \in Seq(Message)
    /\ \A i \in DOMAIN wire : Meant(wire[i])

\* The engine knows a delegation by its true offset, or from before any cancellation.
RegisteredOK ==
    IF phase = "closed" THEN stopped
    ELSE \A d \in DOMAIN delegations :
           /\ d \in DOMAIN created
           /\ IF delegations[d].offset = NoOffset THEN delegations[d].epoch = 0
              ELSE /\ created[d].offset \in Nat
                   /\ delegations[d].offset = requestAt + created[d].offset

AnswersOK ==
    /\ executed \subseteq Keys /\ outputs \in [Keys -> Nat]
    /\ heard \subseteq {r \in DOMAIN responses : responses[r].complete}
    /\ completedResponses = {r \in heard : responses[r].named}
    /\ phase = "connected" => \A k \in Keys : outputs[k] = IF k \in executed THEN 1 ELSE 0

\* A call that was not executed yet is on its way, ahead of its response's completion.
OnItsWay(r, c) ==
    /\ r \notin heard
    /\ \E i \in DOMAIN wire :
         Carries(wire[i], r, c) /\ \A j \in 1..i : ~Ends(wire[j], r)
Settled(r, c) == <<responses[r].delegation, c>> \in executed \/ OnItsWay(r, c)
InOrder ==
    phase = "connected" =>
      \A r \in DOMAIN responses : \A c \in DOMAIN responses[r].calls : Settled(r, c)

WInv == TypeOK /\ ClockOK /\ ServiceOK /\ RegisteredOK /\ AnswersOK /\ InOrder
-----------------------------------------------------------------------------
(* The engine *)

LEMMA MessageKinds ==
    ASSUME NEW m \in Message
    PROVE  /\ m.delegation \in Delegations
           /\ m.kind = "created" => m.offset \in Offer
           /\ m.kind = "call" => m.call \in CallIds /\ m.request \in Requests
           /\ m.kind \in TerminalKinds => m.response \in Nat
  BY DEF Message, TerminalKinds

LEMMA HeadMeant ==
    ASSUME ServiceOK, wire # <<>>
    PROVE  /\ 1 \in DOMAIN wire /\ Head(wire) = wire[1]
           /\ Head(wire) \in Message /\ Meant(Head(wire))
  BY DEF ServiceOK

\* A mapped offset is an instant of the past.
LEMMA MappedPast ==
    ASSUME WInv, NEW d \in DOMAIN created, created[d].offset # InvalidOffset
    PROVE  /\ Mapped(created[d].offset) # NoOffset => Mapped(created[d].offset) \in 0..now
           /\ Mapped(created[d].offset) = NoOffset <=> created[d].offset = NoOffset
<1>1. now \in Nat
  BY DEF WInv, TypeOK
<1>2. CASE created[d].offset = NoOffset
  BY <1>2 DEF Mapped
<1>3. CASE created[d].offset # NoOffset
  <2>1. created[d].offset \in Nat /\ origin \in Nat /\ requestAt <= origin
        /\ requestAt \in Nat /\ created[d].at = origin + created[d].offset
        /\ created[d].at <= now
    BY <1>3 DEF WInv, ClockOK, Offer
  <2>2. Mapped(created[d].offset) = requestAt + created[d].offset
    BY <1>3 DEF Mapped
  <2> QED
    BY <1>1, <1>3, <2>1, <2>2 DEF NoOffset
<1> QED
  BY <1>2, <1>3

LEMMA AnnouncementIsEngine ==
    ASSUME WInv, AnnouncementArrives PROVE [Next]_vars
<1> DEFINE m == Head(wire)
<1>1. /\ wire # <<>> /\ m.kind = "created"
      /\ IF Unattested(m.offset) THEN UNCHANGED vars
         ELSE \/ RegisterDelegation(m.delegation, Mapped(m.offset))
              \/ RepeatRegistration(m.delegation, Mapped(m.offset))
              \/ RefuseDelegation(m.delegation, Mapped(m.offset))
  BY DEF AnnouncementArrives, Arrives
<1>2. /\ m.delegation \in DOMAIN created /\ m.delegation \in Delegations
      /\ m.offset = created[m.delegation].offset
  BY <1>1, HeadMeant, MessageKinds DEF WInv, Meant, MeantBy
<1> HIDE DEF m
<1>3. CASE Unattested(m.offset)
  BY <1>1, <1>3
<1>4. CASE ~Unattested(m.offset)
  <2>1. m.offset # InvalidOffset
    BY <1>4 DEF Unattested
  <2>2. MayRequest => Mapped(m.offset) \in Offsets
    <3>1. MayRequest => now <= MaxNow /\ now \in Nat /\ MaxNow \in Nat
      BY HorizonAssumption, ClockAssumption, BoundsAssumption DEF MayRequest, WInv, TypeOK
    <3>2. Mapped(m.offset) # NoOffset => Mapped(m.offset) \in 0..now
      BY <1>2, <2>1, MappedPast
    <3> QED
      BY <3>1, <3>2 DEF Offsets
  <2>3. /\ RegisterDelegation(m.delegation, Mapped(m.offset)) => MayRequest
        /\ RepeatRegistration(m.delegation, Mapped(m.offset)) => MayRequest
        /\ RefuseDelegation(m.delegation, Mapped(m.offset)) => MayRequest
    BY DEF RegisterDelegation, RepeatRegistration, RefuseDelegation
  <2> QED
    BY <1>1, <1>2, <1>4, <2>2, <2>3 DEF Next
<1> QED
  BY <1>3, <1>4

LEMMA CallIsEngine == ASSUME WInv, CallArrives PROVE [Next]_vars
<1> DEFINE m == Head(wire)
<1>1. wire # <<>> /\ m.kind = "call"
  BY DEF CallArrives, Arrives
<1>2. \/ UNCHANGED vars
      \/ m.request # Unparsable /\ Dispatched(m.delegation, m.call, m.request)
  BY DEF CallArrives
<1>3. m.delegation \in Delegations /\ m.call \in CallIds /\ m.request \in Requests
  BY <1>1, HeadMeant, MessageKinds DEF WInv
<1> HIDE DEF m
<1>4. CASE m.request # Unparsable /\ Dispatched(m.delegation, m.call, m.request)
  <2>1. m.request \in Commands
    BY <1>3, <1>4 DEF Requests
  <2> QED
    BY <1>3, <1>4, <2>1 DEF Dispatched, Next
<1> QED
  BY <1>2, <1>4

\* Every step of the session is a step of its engine, or none.
LEMMA EngineStep == WInv /\ [WorkNext]_workVars => [Next]_vars
<1> SUFFICES ASSUME WInv, [WorkNext]_workVars PROVE [Next]_vars
  OBVIOUS
<1>1. CASE AnnouncementArrives \/ CallArrives
  BY <1>1, AnnouncementIsEngine, CallIsEngine
<1>2. CASE CompletionArrives \/ UnnamedCompletionArrives \/ ProgressArrives \/ FailureArrives
  BY <1>2 DEF CompletionArrives, UnnamedCompletionArrives, EndOfResponse, ProgressArrives,
     FailureArrives
<1>3. CASE Close
  BY <1>3 DEF Close, Next
<1>4. CASE HostStep
  BY <1>4 DEF HostStep, Next
<1>5. CASE LateEvent \/ UNCHANGED workVars
  BY <1>5 DEF LateEvent, workVars
<1>6. CASE ServiceStep
  BY <1>6 DEF ServiceStep
<1>7. SessionOpens \/ SaysAgain => ServiceStep
  BY DEF SessionOpens, SaysAgain
<1>8. \A d \in Delegations : Delegates(d) => ServiceStep
  BY DEF Delegates
<1>9. \A r \in DOMAIN responses :
        /\ \A c \in CallIds, request \in Requests : AsksTool(r, c, request) => ServiceStep
        /\ Completes(r) \/ Continues(r) \/ Streams(r) => ServiceStep
  BY DEF AsksTool, Completes, Continues, Streams
<1> QED
  BY <1>1, <1>2, <1>3, <1>4, <1>5, <1>6, <1>7, <1>8, <1>9 DEF WorkNext, Delivery
-----------------------------------------------------------------------------
(* How the parts of the state may change *)

\* What the service has begun is never taken back, and a response that is complete
\* stays so.
Grows ==
    /\ \A d \in DOMAIN created : d \in DOMAIN created' /\ created'[d] = created[d]
    /\ \A r \in DOMAIN responses :
         /\ r \in DOMAIN responses'
         /\ responses'[r].delegation = responses[r].delegation
         /\ responses[r].complete =>
              responses'[r].complete /\ responses'[r].named = responses[r].named

LEMMA MeantKept ==
    ASSUME Grows, NEW m, Meant(m) PROVE MeantBy(m, created', responses')
  BY DEF Grows, Meant, MeantBy

\* The service's own state after a step that says nothing, or `m`.
LEMMA ServiceSays ==
    ASSUME ServiceOK, Grows, responses' \in Seq(Response),
           \A r \in DOMAIN responses' : responses'[r].delegation \in DOMAIN created',
           \/ wire' = wire
           \/ \E m \in Message : MeantBy(m, created', responses') /\ wire' = Append(wire, m)
    PROVE  ServiceOK'
<1>1. wire \in Seq(Message) /\ \A i \in DOMAIN wire : MeantBy(wire[i], created', responses')
  BY MeantKept DEF ServiceOK
<1>2. CASE wire' = wire
  BY <1>1, <1>2 DEF ServiceOK, Meant
<1>3. ASSUME NEW m \in Message, MeantBy(m, created', responses'), wire' = Append(wire, m)
      PROVE  ServiceOK'
  <2>1. /\ wire' \in Seq(Message) /\ DOMAIN wire' = 1..(Len(wire) + 1)
        /\ DOMAIN wire = 1..Len(wire) /\ Len(wire) \in Nat
        /\ wire'[Len(wire) + 1] = m /\ \A i \in DOMAIN wire : wire'[i] = wire[i]
    BY <1>1, <1>3
  <2>2. \A i \in DOMAIN wire' : i = Len(wire) + 1 \/ i \in DOMAIN wire
    BY <2>1
  <2>3. \A i \in DOMAIN wire' : MeantBy(wire'[i], created', responses')
    BY <1>1, <1>3, <2>1, <2>2
  <2> QED
    BY <2>1, <2>3 DEF ServiceOK, Meant
<1> QED
  BY <1>2, <1>3

\* The head leaves, and everything behind it moves up.
LEMMA TailShifts ==
    ASSUME ServiceOK, wire # <<>>, wire' = Tail(wire)
    PROVE  /\ wire' \in Seq(Message)
           /\ \A i \in DOMAIN wire' : i + 1 \in DOMAIN wire /\ wire'[i] = wire[i + 1]
           /\ \A i \in DOMAIN wire : i = 1 \/ i - 1 \in DOMAIN wire'
           /\ \A i \in DOMAIN wire : i \in Nat \ {0}
  BY DEF ServiceOK

LEMMA ServiceHears ==
    ASSUME ServiceOK, wire # <<>>, wire' = Tail(wire), UNCHANGED <<created, responses>>
    PROVE  ServiceOK'
<1>1. \A i \in DOMAIN wire' : MeantBy(wire'[i], created', responses')
  BY TailShifts DEF ServiceOK, Meant
<1> QED
  BY <1>1, TailShifts DEF ServiceOK, Meant

LEMMA ServiceUnchanged ==
    ASSUME ServiceOK, UNCHANGED <<created, responses, wire>> PROVE ServiceOK'
  BY DEF ServiceOK, Meant

LEMMA SettledKept ==
    ASSUME wire \in Seq(Message), NEW r \in DOMAIN responses, NEW c, Settled(r, c),
           responses'[r].delegation = responses[r].delegation,
           UNCHANGED <<executed, heard>>,
           wire' = wire \/ \E m \in Message : wire' = Append(wire, m)
    PROVE  Settled(r, c)'
<1>1. \A i \in DOMAIN wire : i \in DOMAIN wire' /\ wire'[i] = wire[i]
                             /\ 1..i \subseteq DOMAIN wire
  OBVIOUS
<1> QED
  BY <1>1 DEF Settled, OnItsWay, Carries, Ends

LEMMA SettledHeard ==
    ASSUME ServiceOK, wire # <<>>, wire' = Tail(wire), UNCHANGED responses,
           NEW r \in DOMAIN responses, NEW c, Settled(r, c),
           executed \subseteq executed',
           \A q \in heard' \ heard : Ends(Head(wire), q),
           Carries(Head(wire), r, c) => <<responses[r].delegation, c>> \in executed'
    PROVE  Settled(r, c)'
<1>1. CASE <<responses[r].delegation, c>> \in executed'
  BY <1>1 DEF Settled
<1>2. CASE <<responses[r].delegation, c>> \notin executed'
  <2>1. PICK i \in DOMAIN wire :
          Carries(wire[i], r, c) /\ \A j \in 1..i : ~Ends(wire[j], r)
    BY <1>2 DEF Settled, OnItsWay
  <2>2. wire[1] = Head(wire) /\ i # 1 /\ i \in Nat \ {0} /\ i - 1 \in DOMAIN wire'
    BY <1>2, <2>1, HeadMeant, TailShifts
  <2>3. 1 \in 1..i /\ \A j \in 1..(i - 1) : j + 1 \in 1..i /\ j \in DOMAIN wire'
    <3>1. DOMAIN wire' = 1..Len(wire') /\ Len(wire') \in Nat
      BY TailShifts
    <3> QED
      BY <2>2, <3>1
  <2>4. r \notin heard'
    BY <1>2, <2>1, <2>2, <2>3 DEF Settled, OnItsWay
  <2>5. wire'[i - 1] = wire[i]
    BY <2>2, TailShifts
  <2>6. \A j \in 1..(i - 1) : ~Ends(wire'[j], r)
    BY <2>1, <2>3, TailShifts
  <2> QED
    BY <2>1, <2>2, <2>4, <2>5, <2>6 DEF Settled, OnItsWay, Carries, Ends
<1> QED
  BY <1>1, <1>2

LEMMA NowGrows == TypeOK /\ [Next]_vars => now' \in Nat /\ now' >= now
<1> SUFFICES ASSUME TypeOK, [Next]_vars PROVE now' = now \/ now' = now + 1
  BY DEF TypeOK
<1>1. CASE Tick
  BY <1>1, TickHasEffect
<1> QED
  BY <1>1 DEF Next, vars, RegisterDelegation, RepeatRegistration, RefuseDelegation,
     DispatchMove, DispatchReplace, DispatchRefused, DispatchCancel, DispatchInvalid,
     ReplayReceipt, TickReturns, Stop, AdvanceClock

LEMMA ClockKept ==
    ASSUME WInv, [WorkNext]_workVars, UNCHANGED <<requestAt, origin, created>>
    PROVE  ClockOK'
<1>1. now \in Nat /\ now' \in Nat /\ now' >= now
  BY EngineStep, NowGrows DEF WInv, TypeOK
<1> QED
  BY <1>1 DEF WInv, ClockOK, NoOrigin

LEMMA TypeKept == WInv /\ [WorkNext]_workVars => TypeOK'
  BY EngineStep, TypeStep DEF WInv

\* The engine's delegations are what they were, and the service's at least that.
LEMMA RegisteredKept ==
    ASSUME RegisteredOK, phase # "closed", phase' # "closed", Grows,
           UNCHANGED <<delegations, requestAt>>
    PROVE  RegisteredOK'
<1>1. ASSUME NEW d \in DOMAIN delegations
      PROVE  d \in DOMAIN created' /\ created'[d] = created[d]
  BY <1>1 DEF RegisteredOK, Grows
<1> QED
  BY <1>1 DEF RegisteredOK
-----------------------------------------------------------------------------
(* The service's steps *)

\* What is left to show of a step of the service.
LEMMA ServiceStepKeeps ==
    ASSUME WInv, ServiceStep, [WorkNext]_workVars, ServiceOK', Grows, ClockOK',
           requestAt' = requestAt \/ DOMAIN created = {},
           wire' = wire \/ \E m \in Message : wire' = Append(wire, m),
           \A r \in DOMAIN responses' : \A c \in DOMAIN responses'[r].calls :
             \/ r \in DOMAIN responses /\ c \in DOMAIN responses[r].calls
             \/ Settled(r, c)'
    PROVE  WInv'
<1>1. phase = "connected" /\ UNCHANGED <<vars, sessionVars, outputs, heard>>
  BY DEF ServiceStep
<1>2. RegisteredOK'
  <2>1. CASE requestAt' = requestAt
    BY <1>1, <2>1, RegisteredKept DEF WInv, vars, sessionVars
  <2>2. CASE DOMAIN created = {}
    BY <1>1, <2>2 DEF WInv, RegisteredOK, vars, sessionVars
  <2> QED
    BY <2>1, <2>2
<1>3. AnswersOK'
  BY <1>1 DEF WInv, AnswersOK, Grows, sessionVars
<1>4. InOrder'
  <2>1. ASSUME NEW r \in DOMAIN responses', NEW c \in DOMAIN responses'[r].calls
        PROVE  Settled(r, c)'
    <3>1. CASE r \in DOMAIN responses /\ c \in DOMAIN responses[r].calls
      <4>1. Settled(r, c) /\ responses'[r].delegation = responses[r].delegation
        BY <1>1, <3>1 DEF WInv, InOrder, Grows
      <4>2. wire \in Seq(Message) /\ UNCHANGED <<executed, heard>>
        BY <1>1 DEF WInv, ServiceOK, sessionVars
      <4> QED
        BY <3>1, <4>1, <4>2, SettledKept
    <3> QED
      BY <2>1, <3>1
  <2> QED
    BY <2>1 DEF InOrder
<1> QED
  BY <1>2, <1>3, <1>4, TypeKept DEF WInv

LEMMA BegunType ==
    ASSUME NEW d \in Delegations
    PROVE  Begun(d) \in Response /\ Begun(d).delegation = d /\ DOMAIN Begun(d).calls = {}
           /\ ~Begun(d).complete
<1>1. [c \in {} |-> Unparsable] \in [{} -> Requests] /\ {} \in SUBSET CallIds
  OBVIOUS
<1>2. [c \in {} |-> Unparsable] \in CallMaps
  BY <1>1 DEF CallMaps
<1> QED
  BY <1>2 DEF Begun, Response

LEMMA ResponseType ==
    ASSUME NEW s \in Response
    PROVE  /\ s.delegation \in Delegations /\ s.calls \in CallMaps /\ s.complete \in BOOLEAN
           /\ DOMAIN s.calls \subseteq CallIds
           /\ \A c \in DOMAIN s.calls : s.calls[c] \in Requests
  BY DEF Response, CallMaps

LEMMA AskedType ==
    ASSUME NEW s \in Response, NEW c \in CallIds, NEW request \in Requests
    PROVE  LET t == [s EXCEPT !.calls = With(s.calls, c, request)]
           IN /\ t \in Response /\ t.delegation = s.delegation /\ t.complete = s.complete
              /\ t.named = s.named
              /\ DOMAIN t.calls = DOMAIN s.calls \cup {c}
<1> DEFINE v == With(s.calls, c, request)
<1>1. PICK D \in SUBSET CallIds : s.calls \in [D -> Requests]
  BY ResponseType DEF CallMaps, Response
<1>2. v \in [D \cup {c} -> Requests] /\ DOMAIN v = DOMAIN s.calls \cup {c}
  BY <1>1 DEF With
<1>3. v \in CallMaps
  <2>1. D \cup {c} \in SUBSET CallIds
    OBVIOUS
  <2> HIDE DEF v
  <2> QED
    BY <1>2, <2>1 DEF CallMaps
<1> HIDE DEF v
<1>4. LET t == [s EXCEPT !.calls = v]
      IN t \in Response /\ t.delegation = s.delegation /\ t.complete = s.complete
         /\ t.named = s.named /\ t.calls = v
  BY <1>3 DEF Response
<1> QED
  BY <1>2, <1>4 DEF v

\* Response r becomes t, and m says that it has ended.
Closing(r, t, m) ==
    /\ ServiceStep /\ Responding(r)
    /\ responses' = [responses EXCEPT ![r] = t]
    /\ t.delegation = responses[r].delegation /\ t.calls = responses[r].calls /\ t.complete
    /\ wire' = Append(wire, m) /\ UNCHANGED <<requestAt, origin, created, creates>>
    /\ m.delegation = t.delegation /\ m.response = r
    /\ m.kind = IF t.named THEN "completed" ELSE "unnamed"

LEMMA CompletesType ==
    ASSUME WInv, NEW r \in DOMAIN responses, Completes(r)
    PROVE  \E t \in Response, m \in Message : Closing(r, t, m)
<1> DEFINE s == responses[r]
<1>1. PICK named \in BOOLEAN :
        responses' = [responses EXCEPT ![r].complete = TRUE, ![r].named = named]
  BY DEF Completes
<1> DEFINE t == [s EXCEPT !.complete = TRUE, !.named = named]
           m == Completed(r)'
<1>2. /\ ServiceStep /\ Responding(r) /\ wire' = Append(wire, m)
      /\ UNCHANGED <<requestAt, origin, created, creates>>
  BY DEF Completes, Says
<1>3. s \in Response /\ responses \in Seq(Response) /\ r \in Nat
  BY DEF WInv, ServiceOK
<1>4. /\ t \in Response /\ t.delegation = s.delegation /\ t.calls = s.calls /\ t.complete
      /\ t.delegation \in Delegations
  <2> HIDE DEF s
  <2> QED
    BY <1>3 DEF Response
<1>5. responses' = [responses EXCEPT ![r] = t]
  BY <1>1, <1>3
<1> HIDE DEF t
<1>6. responses'[r] = t
  BY <1>3, <1>5
<1>7. m = [kind |-> IF t.named THEN "completed" ELSE "unnamed",
           delegation |-> t.delegation, response |-> r]
  BY <1>6 DEF Completed
<1> HIDE DEF m
<1>8. /\ m \in Message /\ m.delegation = t.delegation /\ m.response = r
      /\ m.kind = IF t.named THEN "completed" ELSE "unnamed"
  BY <1>3, <1>4, <1>7 DEF Message, TerminalKinds
<1>9. Closing(r, t, m)
  BY <1>2, <1>4, <1>5, <1>8 DEF Closing
<1> QED
  BY <1>4, <1>8, <1>9

\* Appending a response begins it, and leaves the others as they were.
LEMMA BeginGrows ==
    ASSUME ServiceOK, NEW d \in Delegations, responses' = Append(responses, Begun(d)),
           d \in DOMAIN created',
           \A e \in DOMAIN created : e \in DOMAIN created' /\ created'[e] = created[e]
    PROVE  /\ Grows /\ responses' \in Seq(Response)
           /\ \A r \in DOMAIN responses' : responses'[r].delegation \in DOMAIN created'
           /\ \A r \in DOMAIN responses' : \A c \in DOMAIN responses'[r].calls :
                r \in DOMAIN responses /\ c \in DOMAIN responses[r].calls
<1>1. responses \in Seq(Response) /\ Begun(d) \in Response
  BY BegunType DEF ServiceOK
<1> DEFINE b == Begun(d)
<1>2. b.delegation = d /\ DOMAIN b.calls = {}
  BY BegunType
<1> HIDE DEF b
<1>3. /\ responses' \in Seq(Response)
      /\ DOMAIN responses' = DOMAIN responses \cup {Len(responses) + 1}
      /\ responses'[Len(responses) + 1] = b
      /\ \A r \in DOMAIN responses : responses'[r] = responses[r]
  BY <1>1 DEF b
<1>4. Grows
  BY <1>3 DEF Grows
<1>5. ASSUME NEW r \in DOMAIN responses', r \notin DOMAIN responses
      PROVE  responses'[r] = b
  BY <1>3, <1>5
<1>6. \A r \in DOMAIN responses' : responses'[r].delegation \in DOMAIN created'
  BY <1>2, <1>3, <1>5 DEF ServiceOK
<1>7. \A r \in DOMAIN responses' : \A c \in DOMAIN responses'[r].calls :
        r \in DOMAIN responses /\ c \in DOMAIN responses[r].calls
  BY <1>2, <1>3, <1>5
<1> QED
  BY <1>3, <1>4, <1>6, <1>7

LEMMA OpensKeeps ==
    ASSUME WInv, SessionOpens PROVE WInv'
<1>1. /\ ServiceStep /\ origin = NoOrigin /\ origin' = now /\ requestAt' \in 0..now
      /\ UNCHANGED <<created, responses, wire>> /\ now' = now /\ now \in Nat
  BY DEF SessionOpens, ServiceStep, vars, WInv, TypeOK
<1>2. DOMAIN created = {}
  BY <1>1 DEF WInv, ClockOK, NoOrigin
<1>3. ClockOK'
  BY <1>1, <1>2 DEF ClockOK
<1>4. ServiceOK' /\ Grows /\ WorkNext
  BY <1>1, ServiceUnchanged DEF WInv, Grows, WorkNext
<1> QED
  BY <1>1, <1>2, <1>3, <1>4, ServiceStepKeeps

LEMMA DelegatesKeeps ==
    ASSUME WInv, NEW d \in Delegations, Delegates(d) PROVE WInv'
<1>1. PICK offset \in {now - origin, NoOffset, InvalidOffset} :
        /\ created' = With(created, d, [at |-> now, offset |-> offset])
        /\ wire' = Append(wire, [kind |-> "created", delegation |-> d, offset |-> offset])
  BY DEF Delegates, Says
<1>2. /\ ServiceStep /\ origin # NoOrigin /\ d \notin DOMAIN created
      /\ responses' = Append(responses, Begun(d)) /\ UNCHANGED <<requestAt, origin, now>>
  BY DEF Delegates, ServiceStep, vars
<1>3. /\ origin \in Nat /\ requestAt <= origin /\ origin <= now /\ now \in Nat
      /\ requestAt \in Nat
  BY <1>2 DEF WInv, TypeOK, ClockOK
<1>4. offset \in Offer /\ (offset \in Nat => now = origin + offset)
  BY <1>3 DEF Offer, NoOffset, InvalidOffset
<1> DEFINE m == [kind |-> "created", delegation |-> d, offset |-> offset]
           entry == [at |-> now, offset |-> offset]
<1>5. /\ DOMAIN created' = DOMAIN created \cup {d} /\ created'[d] = entry
      /\ \A e \in DOMAIN created : e \in DOMAIN created' /\ created'[e] = created[e]
  BY <1>1, <1>2 DEF With
<1>6. ClockOK'
  <2>1. entry.at = now /\ entry.offset = offset
    OBVIOUS
  <2> HIDE DEF entry
  <2>2. ASSUME NEW e \in DOMAIN created'
        PROVE  /\ e \in Delegations /\ created'[e].at \in Nat /\ created'[e].at <= now
               /\ created'[e].offset \in Offer
               /\ created'[e].offset \in Nat => created'[e].at = origin + created'[e].offset
    <3>1. CASE e = d
      BY <1>3, <1>4, <1>5, <2>1, <3>1
    <3>2. CASE e # d
      BY <1>5, <3>2 DEF WInv, ClockOK
    <3> QED
      BY <3>1, <3>2
  <2> QED
    BY <1>2, <1>3, <2>2 DEF ClockOK
<1>7. m \in Message /\ MeantBy(m, created', responses')
  BY <1>4, <1>5 DEF Message, MeantBy, TerminalKinds
<1> HIDE DEF m
<1>8. wire' = Append(wire, m)
  BY <1>1 DEF m
<1>9. ServiceOK
  BY DEF WInv
<1>10. d \in DOMAIN created'
  BY <1>5
<1>11. /\ Grows /\ responses' \in Seq(Response)
       /\ \A r \in DOMAIN responses' : responses'[r].delegation \in DOMAIN created'
       /\ \A r \in DOMAIN responses' : \A c \in DOMAIN responses'[r].calls :
            r \in DOMAIN responses /\ c \in DOMAIN responses[r].calls
  BY <1>2, <1>5, <1>9, <1>10, BeginGrows
<1>12. ServiceOK' /\ WorkNext
  BY <1>7, <1>8, <1>9, <1>11, ServiceSays DEF WorkNext
<1> QED
  BY <1>2, <1>6, <1>7, <1>8, <1>11, <1>12, ServiceStepKeeps

LEMMA AsksKeeps ==
    ASSUME WInv, NEW r \in DOMAIN responses, NEW c \in CallIds, NEW request \in Requests,
           AsksTool(r, c, request)
    PROVE  WInv'
<1> DEFINE s == responses[r]
           t == [s EXCEPT !.calls = With(s.calls, c, request)]
           m == Call(s.delegation, c, request)
<1>1. /\ ServiceStep /\ Responding(r) /\ responses' = [responses EXCEPT ![r] = t]
      /\ wire' = Append(wire, m) /\ UNCHANGED <<requestAt, origin, created>>
  BY DEF AsksTool, Says
<1>2. s \in Response /\ s.delegation \in DOMAIN created /\ responses \in Seq(Response)
  BY DEF WInv, ServiceOK
<1>3. /\ t \in Response /\ t.delegation = s.delegation /\ t.complete = s.complete
      /\ t.named = s.named /\ DOMAIN t.calls = DOMAIN s.calls \cup {c}
  BY <1>2, AskedType
<1>4. m \in Message /\ MeantBy(m, created', responses')
      /\ m.kind = "call" /\ m.delegation = s.delegation /\ m.call = c
  <2>1. s.delegation \in Delegations
    BY <1>2, ResponseType
  <2> HIDE DEF s
  <2> QED
    BY <1>1, <1>2, <2>1 DEF Call, Message, MeantBy, TerminalKinds
<1>5. /\ responses' \in Seq(Response) /\ DOMAIN responses' = DOMAIN responses
      /\ responses'[r] = t /\ \A q \in DOMAIN responses \ {r} : responses'[q] = responses[q]
  <2> HIDE DEF s, t
  <2> QED
    BY <1>1, <1>2, <1>3
<1> HIDE DEF t, m
<1>6. Grows /\ \A q \in DOMAIN responses' : responses'[q].delegation \in DOMAIN created'
  BY <1>1, <1>2, <1>3, <1>5 DEF Grows, WInv, ServiceOK
<1>7. ServiceOK' /\ WorkNext /\ ClockOK'
  BY <1>1, <1>4, <1>5, <1>6, ServiceSays, ClockKept DEF WInv, WorkNext
<1>8. Settled(r, c)'
  <2>1. r \notin heard /\ UNCHANGED heard /\ ~s.complete
    BY <1>1 DEF Responding, WInv, AnswersOK, ServiceStep, sessionVars
  <2>2. /\ wire \in Seq(Message)
        /\ \A j \in DOMAIN wire : Meant(wire[j])
    BY DEF WInv, ServiceOK
  <2>3. \A j \in DOMAIN wire : ~Ends(wire[j], r)
    BY <2>1, <2>2 DEF Ends, Meant, MeantBy
  <2>4. /\ Len(wire) + 1 \in DOMAIN wire' /\ wire'[Len(wire) + 1] = m
        /\ \A j \in 1..(Len(wire) + 1) :
             wire'[j] = m \/ (j \in DOMAIN wire /\ wire'[j] = wire[j])
    BY <1>1, <1>4, <2>2
  <2>5. ~Ends(m, r)
    BY <1>4 DEF Ends, TerminalKinds
  <2>6. \A j \in 1..(Len(wire) + 1) : ~Ends(wire'[j], r)
    BY <2>3, <2>4, <2>5
  <2>7. OnItsWay(r, c)'
    BY <1>3, <1>4, <1>5, <2>1, <2>4, <2>6 DEF OnItsWay, Carries, Ends
  <2> QED
    BY <2>7 DEF Settled
<1>9. \A q \in DOMAIN responses' : \A k \in DOMAIN responses'[q].calls :
        (q \in DOMAIN responses /\ k \in DOMAIN responses[q].calls) \/ Settled(q, k)'
  BY <1>3, <1>5, <1>8
<1> QED
  BY <1>1, <1>4, <1>6, <1>7, <1>9, ServiceStepKeeps

LEMMA CompletesKeeps ==
    ASSUME WInv, NEW r \in DOMAIN responses, Completes(r) PROVE WInv'
<1> DEFINE s == responses[r]
<1>1. PICK t \in Response, m \in Message : Closing(r, t, m)
  BY CompletesType
<1>2. /\ s \in Response /\ s.delegation \in DOMAIN created /\ responses \in Seq(Response)
      /\ t.delegation = s.delegation /\ t.calls = s.calls /\ t.complete /\ ~s.complete
  BY <1>1 DEF WInv, ServiceOK, Closing, Responding
<1>3. /\ ServiceStep /\ responses' = [responses EXCEPT ![r] = t]
      /\ wire' = Append(wire, m) /\ UNCHANGED <<requestAt, origin, created>>
  BY <1>1 DEF Closing
<1>4. /\ responses' \in Seq(Response) /\ DOMAIN responses' = DOMAIN responses
      /\ responses'[r] = t /\ \A q \in DOMAIN responses \ {r} : responses'[q] = responses[q]
  <2> HIDE DEF s
  <2> QED
    BY <1>2, <1>3
<1>5. MeantBy(m, created', responses')
  BY <1>1, <1>2, <1>3, <1>4 DEF MeantBy, Closing, TerminalKinds
<1>6. Grows /\ \A q \in DOMAIN responses' : responses'[q].delegation \in DOMAIN created'
  BY <1>2, <1>3, <1>4 DEF Grows, WInv, ServiceOK
<1>7. ServiceOK' /\ WorkNext /\ ClockOK'
  BY <1>3, <1>4, <1>5, <1>6, ServiceSays, ClockKept DEF WInv, WorkNext
<1>8. \A q \in DOMAIN responses' : \A c \in DOMAIN responses'[q].calls :
        q \in DOMAIN responses /\ c \in DOMAIN responses[q].calls
  BY <1>2, <1>4
<1> QED
  BY <1>3, <1>5, <1>6, <1>7, <1>8, ServiceStepKeeps

LEMMA ContinuesKeeps ==
    ASSUME WInv, NEW r \in DOMAIN responses, Continues(r) PROVE WInv'
<1> DEFINE d == responses[r].delegation
<1>1. /\ ServiceStep /\ responses' = Append(responses, Begun(d))
      /\ UNCHANGED <<requestAt, origin, created, wire>>
  BY DEF Continues
<1>2. d \in Delegations /\ d \in DOMAIN created
  BY ResponseType DEF WInv, ServiceOK
<1> HIDE DEF d
<1>3. /\ Grows /\ responses' \in Seq(Response)
      /\ \A q \in DOMAIN responses' : responses'[q].delegation \in DOMAIN created'
      /\ \A q \in DOMAIN responses' : \A c \in DOMAIN responses'[q].calls :
           q \in DOMAIN responses /\ c \in DOMAIN responses[q].calls
  BY <1>1, <1>2, BeginGrows DEF WInv
<1>4. ServiceOK' /\ WorkNext /\ ClockOK'
  BY <1>1, <1>3, ServiceSays, ClockKept DEF WInv, WorkNext
<1> QED
  BY <1>1, <1>3, <1>4, ServiceStepKeeps

\* A step that only says something that is so already.
LEMMA SaysKeeps ==
    ASSUME WInv, ServiceStep, WorkNext, UNCHANGED <<requestAt, origin, created, responses>>,
           NEW m \in Message, Meant(m), Says(m)
    PROVE  WInv'
<1>1. Grows /\ ClockOK'
  BY ClockKept DEF Grows
<1>2. wire' = Append(wire, m) /\ MeantBy(m, created', responses')
  BY DEF Says, Meant
<1>3. ServiceOK'
  BY <1>1, <1>2, ServiceSays DEF WInv, ServiceOK
<1> QED
  BY <1>1, <1>2, <1>3, ServiceStepKeeps

LEMMA StreamsKeeps ==
    ASSUME WInv, NEW r \in DOMAIN responses, Streams(r) PROVE WInv'
<1> DEFINE d == responses[r].delegation
<1>1. d \in Delegations /\ d \in DOMAIN created
  BY ResponseType DEF WInv, ServiceOK
<1>2. /\ Progress(d) \in Message /\ Meant(Progress(d))
      /\ Failed(d) \in Message /\ Meant(Failed(d))
  <2> HIDE DEF d
  <2> QED
    BY <1>1 DEF Progress, Failed, Message, Meant, MeantBy, TerminalKinds
<1>3. /\ ServiceStep /\ UNCHANGED <<requestAt, origin, created, responses>>
      /\ Says(Progress(d)) \/ Says(Failed(d))
  BY DEF Streams
<1> HIDE DEF d
<1>4. WorkNext
  BY DEF WorkNext
<1> QED
  BY <1>2, <1>3, <1>4, SaysKeeps

LEMMA SaidMeant ==
    ASSUME WInv, NEW m \in Said PROVE m \in Message /\ Meant(m)
<1>1. ASSUME NEW d \in DOMAIN created, m = Created(d) \/ m = Progress(d)
      PROVE  m \in Message /\ Meant(m)
  BY <1>1 DEF Created, Progress, Message, Meant, MeantBy, TerminalKinds, WInv, ClockOK
<1>2. ASSUME NEW r \in DOMAIN responses
      PROVE  /\ responses[r].delegation \in Delegations
             /\ responses[r].delegation \in DOMAIN created
             /\ r \in Nat /\ responses[r] \in Response
  BY ResponseType DEF WInv, ServiceOK
<1>3. ASSUME NEW r \in DOMAIN responses, NEW c \in DOMAIN responses[r].calls,
             m = Call(responses[r].delegation, c, responses[r].calls[c])
      PROVE  m \in Message /\ Meant(m)
  <2>1. c \in CallIds /\ responses[r].calls[c] \in Requests
    BY <1>2, ResponseType
  <2> QED
    BY <1>2, <1>3, <2>1 DEF Call, Message, Meant, MeantBy, TerminalKinds
<1>4. ASSUME NEW r \in DOMAIN responses, responses[r].complete, m = Completed(r)
      PROVE  m \in Message /\ Meant(m)
  <2>1. responses[r].named \in BOOLEAN
    BY <1>2 DEF Response
  <2> QED
    BY <1>2, <1>4, <2>1 DEF Completed, Message, TerminalKinds, Meant, MeantBy
<1> DEFINE Calls(r) == {Call(responses[r].delegation, c, responses[r].calls[c]) :
                          c \in DOMAIN responses[r].calls}
           A == {Created(d) : d \in DOMAIN created}
           B == UNION {Calls(r) : r \in DOMAIN responses}
           C == {Completed(r) : r \in {q \in DOMAIN responses : responses[q].complete}}
           D == {Progress(d) : d \in DOMAIN created}
<1>5. Said = A \cup B \cup C \cup D
  BY DEF Said
<1>6. CASE m \in A \/ m \in D
  BY <1>1, <1>6
<1>7. CASE m \in B
  <2>1. PICK r \in DOMAIN responses : m \in Calls(r)
    BY <1>7
  <2> QED
    BY <1>3, <2>1
<1>8. CASE m \in C
  BY <1>4, <1>8
<1> HIDE DEF A, B, C, D
<1> QED
  BY <1>5, <1>6, <1>7, <1>8

LEMMA SaysAgainKeeps ==
    ASSUME WInv, SaysAgain PROVE WInv'
<1>1. PICK m \in Said : Says(m)
  BY DEF SaysAgain
<1>2. ServiceStep /\ UNCHANGED <<requestAt, origin, created, responses>> /\ WorkNext
  BY DEF SaysAgain, WorkNext
<1> QED
  BY <1>1, <1>2, SaidMeant, SaysKeeps
-----------------------------------------------------------------------------
(* The deliveries *)

LEMMA HearingKeeps ==
    ASSUME WInv, [WorkNext]_workVars, phase = "connected", phase' \in {"connected", "failing"},
           wire # <<>>, wire' = Tail(wire), UNCHANGED serviceVars,
           executed \subseteq executed',
           \A q \in heard' \ heard : Ends(Head(wire), q),
           phase' = "connected" =>
             \A r \in DOMAIN responses : \A c \in DOMAIN responses[r].calls :
               Carries(Head(wire), r, c) => <<responses[r].delegation, c>> \in executed',
           AnswersOK', RegisteredOK'
    PROVE  WInv'
<1>1. ServiceOK /\ UNCHANGED <<created, responses, requestAt, origin>>
  BY DEF WInv, serviceVars
<1>2. ServiceOK' /\ ClockOK' /\ TypeOK'
  BY <1>1, ServiceHears, ClockKept, TypeKept
<1>3. InOrder'
  <2>1. ASSUME phase' = "connected",
               NEW r \in DOMAIN responses, NEW c \in DOMAIN responses[r].calls
        PROVE  Settled(r, c)'
    <3>1. Settled(r, c)
      BY <2>1 DEF WInv, InOrder
    <3> QED
      BY <1>1, <2>1, <3>1, SettledHeard
  <2> QED
    BY <1>1, <2>1 DEF InOrder
<1> QED
  BY <1>2, <1>3 DEF WInv

LEMMA AnnouncementKeeps ==
    ASSUME WInv, AnnouncementArrives PROVE WInv'
<1> DEFINE m == Head(wire)
           d == m.delegation
<1>1. /\ phase = "connected" /\ wire # <<>> /\ m.kind = "created" /\ wire' = Tail(wire)
      /\ UNCHANGED serviceVars
      /\ UNCHANGED <<phase, completedResponses, heard, executed, outputs>>
      /\ IF Unattested(m.offset) THEN UNCHANGED vars
         ELSE \/ RegisterDelegation(d, Mapped(m.offset))
              \/ RepeatRegistration(d, Mapped(m.offset))
              \/ RefuseDelegation(d, Mapped(m.offset))
  BY DEF AnnouncementArrives, Arrives
<1>2. d \in DOMAIN created /\ m.offset = created[d].offset /\ m.offset \in Offer
      /\ m \in Message
  BY <1>1, HeadMeant, MessageKinds DEF WInv, Meant, MeantBy
<1> HIDE DEF m, d
<1>3. Grows /\ UNCHANGED <<created, responses, requestAt>>
  BY <1>1 DEF Grows, serviceVars
<1>4. RegisteredOK'
  <2>1. CASE UNCHANGED delegations
    BY <1>1, <1>3, <2>1, RegisteredKept DEF WInv
  <2>2. CASE ~Unattested(m.offset) /\ RegisterDelegation(d, Mapped(m.offset))
    <3> DEFINE entry == [epoch |-> epoch, offset |-> Mapped(m.offset)]
    <3>1. /\ DOMAIN delegations' = DOMAIN delegations \cup {d} /\ delegations'[d] = entry
          /\ \A e \in DOMAIN delegations \ {d} : delegations'[e] = delegations[e]
      BY <2>2 DEF RegisterDelegation, With
    <3>2. entry.epoch = epoch /\ entry.offset = Mapped(m.offset)
      OBVIOUS
    <3> HIDE DEF entry
    <3>3. m.offset # InvalidOffset /\ (m.offset = NoOffset => epoch = 0)
      <4>1. epoch \in Nat
        BY DEF WInv, TypeOK
      <4> QED
        BY <2>2, <4>1 DEF Unattested
    <3>4. Mapped(m.offset) = NoOffset <=> m.offset = NoOffset
      BY <1>2, <3>3, MappedPast
    <3>5. m.offset # NoOffset => m.offset \in Nat /\ Mapped(m.offset) = requestAt + m.offset
      BY <1>2, <3>3 DEF Mapped, Offer
    <3>6. ASSUME NEW e \in DOMAIN delegations'
          PROVE  /\ e \in DOMAIN created
                 /\ IF delegations'[e].offset = NoOffset THEN delegations'[e].epoch = 0
                    ELSE /\ created[e].offset \in Nat
                         /\ delegations'[e].offset = requestAt + created[e].offset
      <4>1. CASE e = d
        BY <1>2, <3>1, <3>2, <3>3, <3>4, <3>5, <4>1
      <4>2. CASE e # d
        BY <1>1, <3>1, <4>2 DEF WInv, RegisteredOK
      <4> QED
        BY <4>1, <4>2
    <3> QED
      BY <1>1, <1>3, <3>6 DEF RegisteredOK
  <2> QED
    BY <1>1, <2>1, <2>2 DEF RepeatRegistration, RefuseDelegation, vars
<1>5. AnswersOK'
  BY <1>1, <1>3 DEF WInv, AnswersOK
<1>6. \A r, c : ~Carries(m, r, c)
  BY <1>1 DEF Carries
<1>7. WorkNext
  BY <1>1 DEF WorkNext, Delivery
<1> QED
  BY <1>1, <1>4, <1>5, <1>6, <1>7, HearingKeeps DEF m

\* engine.dispatch registers nothing.
LEMMA DispatchedKeeps ==
    ASSUME NEW d, NEW c, NEW command, Dispatched(d, c, command)
    PROVE  delegations' = delegations
  BY DEF Dispatched, DispatchRefused, DispatchMove, DispatchReplace, DispatchCancel,
     ReplayReceipt, DispatchInvalid, vars

LEMMA CallKeeps ==
    ASSUME WInv, CallArrives PROVE WInv'
<1> DEFINE m == Head(wire)
           k == <<m.delegation, m.call>>
<1>1. /\ phase = "connected" /\ wire # <<>> /\ m.kind = "call" /\ wire' = Tail(wire)
      /\ UNCHANGED serviceVars /\ UNCHANGED <<completedResponses, heard>>
      /\ IF k \in executed THEN UNCHANGED <<vars, phase, executed, outputs>>
         ELSE \/ phase' = "failing" /\ UNCHANGED <<vars, executed, outputs>>
              \/ /\ executed' = executed \cup {k}
                 /\ UNCHANGED vars \/ Dispatched(m.delegation, m.call, m.request)
                 /\ \/ outputs' = [outputs EXCEPT ![k] = @ + 1] /\ UNCHANGED phase
                    \/ phase' = "failing" /\ UNCHANGED outputs
  BY DEF CallArrives, Arrives, AlreadyExecuted
<1>2. k \in Keys
  BY <1>1, HeadMeant, MessageKinds DEF WInv, Keys
<1>3. UNCHANGED delegations
  BY <1>1, DispatchedKeeps DEF vars
<1>4. Grows /\ UNCHANGED <<created, responses, requestAt>>
  BY <1>1 DEF Grows, serviceVars
<1>5. phase' \in {"connected", "failing"}
  BY <1>1
<1>6. RegisteredOK'
  BY <1>1, <1>3, <1>4, <1>5, RegisteredKept DEF WInv
<1>7. \A r, c : Carries(m, r, c) => <<responses[r].delegation, c>> = k
  BY DEF Carries
<1> HIDE DEF m, k
<1>8. phase' = "connected" => k \in executed'
  BY <1>1
<1>9. AnswersOK'
  <2>1. executed \subseteq Keys /\ outputs \in [Keys -> Nat]
        /\ \A key \in Keys : outputs[key] = IF key \in executed THEN 1 ELSE 0
    BY <1>1 DEF WInv, AnswersOK
  <2>2. executed' \subseteq Keys /\ outputs' \in [Keys -> Nat]
    BY <1>1, <1>2, <2>1
  <2>3. phase' = "connected" =>
          \A key \in Keys : outputs'[key] = IF key \in executed' THEN 1 ELSE 0
    BY <1>1, <1>2, <2>1
  <2> QED
    BY <1>1, <1>4, <2>2, <2>3 DEF WInv, AnswersOK
<1>10. executed \subseteq executed' /\ WorkNext
  BY <1>1 DEF WorkNext, Delivery
<1> QED
  BY <1>1, <1>5, <1>6, <1>7, <1>8, <1>9, <1>10, HearingKeeps DEF m

\* A completion, progress and a failure leave the engine, the calls and their
\* answers alone.
LEMMA OtherKeeps ==
    ASSUME WInv, wire # <<>>,
           CompletionArrives \/ UnnamedCompletionArrives \/ ProgressArrives \/ FailureArrives
    PROVE  WInv'
<1> DEFINE m == Head(wire)
<1>1. /\ phase = "connected" /\ wire' = Tail(wire) /\ m.kind # "call"
      /\ UNCHANGED serviceVars /\ UNCHANGED <<vars, executed, outputs>>
      /\ phase' \in {"connected", "failing"}
      /\ \/ UNCHANGED <<completedResponses, heard>>
         \/ /\ m.kind \in TerminalKinds /\ heard' = heard \cup {m.response}
            /\ completedResponses' = IF m.kind = "completed"
                                     THEN completedResponses \cup {m.response}
                                     ELSE completedResponses
  BY DEF CompletionArrives, UnnamedCompletionArrives, EndOfResponse, ProgressArrives,
     FailureArrives, Arrives, sessionVars, TerminalKinds
<1>2. Meant(m)
  BY HeadMeant DEF WInv
<1> HIDE DEF m
<1>3. Grows /\ UNCHANGED <<created, responses, requestAt, delegations>>
  BY <1>1 DEF Grows, serviceVars, vars
<1>4. RegisteredOK'
  BY <1>1, <1>3, RegisteredKept DEF WInv
<1>5. AnswersOK'
  BY <1>1, <1>2, <1>3 DEF WInv, AnswersOK, Meant, MeantBy
<1>6. \A q \in heard' \ heard : Ends(m, q)
  BY <1>1 DEF Ends
<1>7. \A r, c : ~Carries(m, r, c)
  BY <1>1 DEF Carries
<1>8. WorkNext
  BY DEF WorkNext, Delivery
<1> QED
  BY <1>1, <1>4, <1>5, <1>6, <1>7, <1>8, HearingKeeps DEF m
-----------------------------------------------------------------------------
(* The run and its host *)

LEMMA CloseKeeps ==
    ASSUME WInv, Close PROVE WInv'
<1>1. /\ stopped' /\ phase' = "closed" /\ requestAt' = requestAt /\ origin' = origin
      /\ now' = now /\ heard' = {} /\ executed' = {} /\ wire' = <<>>
      /\ completedResponses' = {}
      /\ created' = [d \in {} |-> 0] /\ responses' = <<>>
      /\ outputs' = [k \in Keys |-> 0]
  BY DEF Close, Stop
<1>2. DOMAIN created' = {} /\ DOMAIN responses' = {} /\ DOMAIN wire' = {}
      /\ responses' \in Seq(Response) /\ wire' \in Seq(Message)
  BY <1>1
<1>3. ClockOK'
  BY <1>1, <1>2 DEF WInv, ClockOK
<1>4. ServiceOK'
  BY <1>2 DEF ServiceOK
<1>5. AnswersOK'
  BY <1>1, <1>2 DEF AnswersOK
<1>6. TypeOK'
  <2>1. WorkNext
    BY DEF WorkNext
  <2> QED
    BY <2>1, TypeKept
<1> QED
  BY <1>1, <1>3, <1>4, <1>5, <1>6 DEF WInv, RegisteredOK, InOrder

LEMMA HostKeeps ==
    ASSUME WInv, HostStep PROVE WInv'
<1>1. /\ phase = "connected"
      /\ Tick \/ AdvanceClock
      /\ UNCHANGED <<sessionVars, serviceVars, wire, outputs, heard>>
  BY DEF HostStep
<1>2. UNCHANGED delegations
  BY <1>1, TickHasEffect DEF WInv, AdvanceClock
<1>3. WorkNext
  BY DEF WorkNext
<1>4. ServiceOK' /\ ClockOK' /\ TypeOK'
  BY <1>1, <1>3, ServiceUnchanged, ClockKept, TypeKept DEF WInv, serviceVars
<1>5. RegisteredOK'
  BY <1>1, <1>2 DEF WInv, RegisteredOK, sessionVars, serviceVars
<1>6. AnswersOK' /\ InOrder'
  BY <1>1 DEF WInv, AnswersOK, InOrder, Settled, OnItsWay, Carries, Ends,
     sessionVars, serviceVars
<1> QED
  BY <1>4, <1>5, <1>6 DEF WInv

LEMMA NothingKeeps ==
    ASSUME WInv, UNCHANGED workVars PROVE WInv'
<1>1. UNCHANGED vars /\ UNCHANGED <<sessionVars, serviceVars, wire, outputs, heard>>
  BY DEF workVars
<1>2. ServiceOK' /\ ClockOK' /\ TypeOK'
  BY <1>1, ServiceUnchanged, ClockKept, TypeKept DEF WInv, serviceVars
<1>3. RegisteredOK'
  BY <1>1 DEF WInv, RegisteredOK, sessionVars, serviceVars, vars
<1>4. AnswersOK' /\ InOrder'
  BY <1>1 DEF WInv, AnswersOK, InOrder, Settled, OnItsWay, Carries, Ends,
     sessionVars, serviceVars
<1> QED
  BY <1>2, <1>3, <1>4 DEF WInv

LEMMA WorkInitInv == WorkInit => WInv
<1> SUFFICES ASSUME WorkInit PROVE WInv
  OBVIOUS
<1>1. TypeOK
  BY InitType DEF WorkInit
<1>2. /\ DOMAIN created = {} /\ responses = <<>> /\ wire = <<>> /\ DOMAIN delegations = {}
      /\ now = 0 /\ requestAt = 0 /\ origin = NoOrigin /\ phase = "connected"
      /\ completedResponses = {} /\ heard = {} /\ executed = {} /\ outputs = [k \in Keys |-> 0]
  BY DEF WorkInit, Init
<1>3. ServiceOK /\ ClockOK /\ RegisteredOK
  BY <1>2 DEF ServiceOK, ClockOK, RegisteredOK
<1>4. AnswersOK /\ InOrder
  BY <1>2 DEF AnswersOK, InOrder
<1> QED
  BY <1>1, <1>3, <1>4 DEF WInv

LEMMA WorkStep == WInv /\ [WorkNext]_workVars => WInv'
<1> SUFFICES ASSUME WInv, [WorkNext]_workVars PROVE WInv'
  OBVIOUS
<1>1. CASE SessionOpens \/ SaysAgain
  BY <1>1, OpensKeeps, SaysAgainKeeps
<1>2. CASE \E d \in Delegations : Delegates(d)
  BY <1>2, DelegatesKeeps
<1>3. CASE \E r \in DOMAIN responses :
             \/ \E c \in CallIds, request \in Requests : AsksTool(r, c, request)
             \/ Completes(r) \/ Continues(r) \/ Streams(r)
  BY <1>3, AsksKeeps, CompletesKeeps, ContinuesKeeps, StreamsKeeps
<1>4. CASE Delivery
  BY <1>4, AnnouncementKeeps, CallKeeps, OtherKeeps DEF Delivery
<1>5. CASE Close \/ HostStep
  BY <1>5, CloseKeeps, HostKeeps
<1>6. CASE LateEvent \/ UNCHANGED workVars
  BY <1>6, NothingKeeps DEF LateEvent
<1> QED
  BY <1>1, <1>2, <1>3, <1>4, <1>5, <1>6 DEF WorkNext

LEMMA WorkInvariant == WorkSpec => []WInv
  BY WorkInitInv, WorkStep, PTL DEF WorkSpec
-----------------------------------------------------------------------------
(* Theorems *)

\* The game inside a live session is the game of GameEngine: onServiceEvent only
\* makes calls that the engine's host may make, so what is proved of the engine
\* holds here, whatever the service says and whenever it arrives.
THEOREM EngineRefinement == WorkSpec => Spec
<1>1. WorkInit => Init
  BY DEF WorkInit
<1>2. WInv /\ [WorkNext]_workVars => [Next]_vars
  BY EngineStep
<1> QED
  BY <1>1, <1>2, WorkInvariant, PTL DEF WorkSpec, Spec

\* Every tool call that came through is answered exactly once, however often it was
\* said, and before the response it belongs to is continued.
THEOREM AnsweredCorrect == WorkSpec => []AnsweredOnce
<1>1. WInv => AnsweredOnce
  <2> SUFFICES ASSUME WInv, phase = "connected" PROVE
        /\ \A k \in Keys : outputs[k] = IF k \in executed THEN 1 ELSE 0
        /\ \A r \in heard : \A c \in DOMAIN responses[r].calls :
             outputs[<<responses[r].delegation, c>>] = 1
    BY DEF AnsweredOnce
  <2>1. \A k \in Keys : outputs[k] = IF k \in executed THEN 1 ELSE 0
    BY DEF WInv, AnswersOK
  <2>2. ASSUME NEW r \in heard, NEW c \in DOMAIN responses[r].calls
        PROVE  outputs[<<responses[r].delegation, c>>] = 1
    <3>1. r \in DOMAIN responses /\ executed \subseteq Keys
      BY DEF WInv, AnswersOK
    <3>2. <<responses[r].delegation, c>> \in executed
      BY <3>1 DEF WInv, InOrder, Settled, OnItsWay
    <3> QED
      BY <2>1, <3>1, <3>2
  <2> QED
    BY <2>1, <2>2
<1> QED
  BY <1>1, WorkInvariant, PTL

\* No move is pending whose delegation the service created at or before the last
\* accepted cancellation, however late its announcement and its calls arrived: the
\* mapped offset is never later than the truth it stands for.
THEOREM NoStaleWorkCorrect == WorkSpec => []NoStaleWork
<1>1. ASSUME WInv, PendingIsCurrent, CurrentDelegationsAreFresh, Accounts
      PROVE  NoStaleWork
  <2> SUFFICES ASSUME NEW i \in PendingIn(operations),
                      calls[operations[i].call].command.type = "move"
               PROVE  created[operations[i].delegation].at > barrier
    BY DEF NoStaleWork
  <2> DEFINE d == operations[i].delegation
  <2>1. operations[i].epoch = epoch /\ ~stopped
    BY <1>1 DEF PendingIsCurrent
  <2>2. d \in DOMAIN delegations /\ delegations[d].epoch = epoch
    <3>1. i \in DOMAIN operations
      BY DEF PendingIn
    <3> QED
      BY <1>1, <2>1, <3>1 DEF Accounts, Ledger, Backed
  <2> HIDE DEF d
  <2>3. /\ d \in DOMAIN created
        /\ IF delegations[d].offset = NoOffset THEN delegations[d].epoch = 0
           ELSE /\ created[d].offset \in Nat
                /\ delegations[d].offset = requestAt + created[d].offset
    BY <1>1, <2>1, <2>2 DEF WInv, RegisteredOK
  <2>4. created[d].at \in Nat /\ barrier \in Nat \cup {NoBarrier}
    BY <1>1, <2>3 DEF WInv, ClockOK, TypeOK
  <2>5. CASE delegations[d].offset = NoOffset
    <3>1. barrier = NoBarrier
      BY <1>1, <2>2, <2>3, <2>5 DEF Accounts
    <3> QED
      BY <2>4, <3>1 DEF NoBarrier, d
  <2>6. CASE delegations[d].offset # NoOffset
    <3>1. delegations[d].offset > barrier /\ delegations[d].offset \in Int
      BY <1>1, <2>2, <2>4, <2>6 DEF CurrentDelegationsAreFresh, NoBarrier
    <3>2. created[d].at = origin + created[d].offset /\ created[d].offset \in Nat
          /\ origin \in Nat /\ requestAt \in Nat /\ requestAt <= origin
      BY <1>1, <2>3, <2>6 DEF WInv, ClockOK
    <3> QED
      BY <2>3, <2>4, <2>6, <3>1, <3>2 DEF NoBarrier, d
  <2> QED
    BY <2>5, <2>6
<1>2. WorkSpec => [](PendingIsCurrent /\ CurrentDelegationsAreFresh /\ Accounts)
  BY EngineRefinement, PendingCorrect, FreshCorrect, AccountsInvariant, PTL
<1> QED
  BY <1>1, <1>2, WorkInvariant, PTL

-----------------------------------------------------------------------------
(* The order of the responses *)

\* Response q asks for call c of delegation d.
AskedBy(rs, q, d, c) == rs[q].delegation = d /\ c \in DOMAIN rs[q].calls
Asks(q, d, c) == AskedBy(responses, q, d, c)
Earlier(p, q) == p < q /\ responses[p].delegation = responses[q].delegation
Awaits(p) == \E i \in DOMAIN wire : Ends(wire[i], p)
Working(q) == Responding(q) \/ Waiting(q)

\* Some of its calls were executed, and its completion did not arrive yet.
Started(q) ==
    /\ q \notin heard
    /\ \E c \in DOMAIN responses[q].calls : <<responses[q].delegation, c>> \in executed

\* Nothing of response q is heard of before the completion of p is.
Behind(p, q) ==
    /\ q \notin heard
    /\ \A c \in DOMAIN responses[q].calls : <<responses[q].delegation, c>> \notin executed
    /\ \E i \in DOMAIN wire :
         /\ Ends(wire[i], p)
         /\ \A j \in 1..(i - 1) :
              /\ ~Ends(wire[j], q)
              /\ \A c \in DOMAIN responses[q].calls : ~Carries(wire[j], q, c)

\* Every call that was executed or is on its way was asked for.
CallsKnown ==
    /\ \A k \in executed : \E q \in DOMAIN responses : Asks(q, k[1], k[2])
    /\ \A i \in DOMAIN wire :
         wire[i].kind = "call" =>
           \E q \in DOMAIN responses : Asks(q, wire[i].delegation, wire[i].call)

\* Only the latest response of a delegation is still going on, or asked for nothing.
OlderDone ==
    \A p, q \in DOMAIN responses :
        Earlier(p, q) => responses[p].complete /\ DOMAIN responses[p].calls # {}

Sequenced ==
    \A p, q \in DOMAIN responses : Earlier(p, q) /\ p \notin heard => Behind(p, q)

Announced ==
    \A p \in DOMAIN responses :
        responses[p].complete => p \in heard \/ Awaits(p)

\* The delegations to continue are those with outputs for a response still open.
Continued ==
    /\ \A d \in continuations : \E q \in DOMAIN responses :
         responses[q].delegation = d /\ Started(q)
    /\ \A q \in DOMAIN responses : Started(q) => responses[q].delegation \in continuations

Busy ==
    \A q \in DOMAIN responses : Working(q) =>
        LET d == responses[q].delegation IN
        d \in backendPending \/ \E i \in DOMAIN wire : wire[i] = Created(d)

\* The completed responses that asked for tools.
Asking == {r \in heard : DOMAIN responses[r].calls # {}}
Counted ==
    /\ IsFiniteSet(DOMAIN created) /\ creates \in Nat
    /\ creates + (Len(responses) - Cardinality(DOMAIN created)) = Cardinality(Asking)

OInv ==
    phase = "connected" =>
      CallsKnown /\ OlderDone /\ Sequenced /\ Announced /\ Continued /\ Busy /\ Counted
-----------------------------------------------------------------------------
(* Steps of the service *)

\* What a step of the service may do to the responses.
Extends ==
    /\ Grows
    /\ \A r \in DOMAIN responses :
         /\ DOMAIN responses[r].calls \subseteq DOMAIN responses'[r].calls
         /\ responses[r].complete => responses'[r] = responses[r]
         /\ \A c \in DOMAIN responses'[r].calls \ DOMAIN responses[r].calls :
              \A q \in DOMAIN responses : ~Asks(q, responses[r].delegation, c)
    /\ \A r \in DOMAIN responses' \ DOMAIN responses :
         /\ DOMAIN responses'[r].calls = {} /\ ~responses'[r].complete
         /\ \A p \in DOMAIN responses : Earlier(p, r)' => responses[p].complete

\* The wire after a step that says nothing, or `m`.
Longer == wire' = wire \/ \E m \in Message : wire' = Append(wire, m)

LEMMA LongerKeeps ==
    ASSUME ServiceOK, Longer
    PROVE  \A i \in DOMAIN wire :
             i \in DOMAIN wire' /\ wire'[i] = wire[i] /\ 1..i \subseteq DOMAIN wire
             /\ 1..(i - 1) \subseteq DOMAIN wire /\ i \in Nat \ {0}
  BY DEF ServiceOK, Longer

LEMMA BehindKept ==
    ASSUME ServiceOK, Longer, Extends, CallsKnown,
           UNCHANGED <<executed, heard>>,
           NEW p, NEW q \in DOMAIN responses, Behind(p, q)
    PROVE  Behind(p, q)'
<1> DEFINE d == responses[q].delegation
<1>1. responses'[q].delegation = d /\ q \in DOMAIN responses'
  BY DEF Extends, Grows
<1>2. PICK i \in DOMAIN wire :
        /\ Ends(wire[i], p)
        /\ \A j \in 1..(i - 1) :
             /\ ~Ends(wire[j], q)
             /\ \A c \in DOMAIN responses[q].calls : ~Carries(wire[j], q, c)
  BY DEF Behind
<1>3. ASSUME NEW c \in DOMAIN responses'[q].calls, c \notin DOMAIN responses[q].calls
      PROVE  /\ <<d, c>> \notin executed
             /\ \A j \in DOMAIN wire : ~Carries(wire[j], q, c)
  <2>1. \A r \in DOMAIN responses : ~Asks(r, d, c)
    BY <1>3 DEF Extends
  <2>2. <<d, c>> \notin executed
    BY <2>1 DEF CallsKnown
  <2>3. ASSUME NEW j \in DOMAIN wire, Carries(wire[j], q, c) PROVE FALSE
    <3>1. wire[j].kind = "call" /\ wire[j].delegation = d /\ wire[j].call = c
      BY <2>3 DEF Carries
    <3> QED
      BY <2>1, <3>1 DEF CallsKnown
  <2> QED
    BY <2>2, <2>3
<1> HIDE DEF d
<1>4. \A c \in DOMAIN responses'[q].calls : <<d, c>> \notin executed
  BY <1>3 DEF Behind, d
<1>5. \A j \in 1..(i - 1) : j \in DOMAIN wire /\ wire'[j] = wire[j]
  BY LongerKeeps
<1>6. \A j \in 1..(i - 1) : \A c \in DOMAIN responses'[q].calls : ~Carries(wire[j], q, c)
  BY <1>2, <1>3, <1>5
<1>7. i \in DOMAIN wire' /\ wire'[i] = wire[i]
  BY LongerKeeps
<1> QED
  BY <1>1, <1>2, <1>4, <1>5, <1>6, <1>7 DEF Behind, Ends, Carries, d

\* A new response is behind every earlier one of its delegation.
LEMMA BehindNew ==
    ASSUME WInv, Announced, Longer, Extends, UNCHANGED <<executed, heard>>,
           NEW p \in DOMAIN responses, NEW q \in DOMAIN responses', q \notin DOMAIN responses,
           Earlier(p, q)', p \notin heard
    PROVE  Behind(p, q)'
<1>1. DOMAIN responses'[q].calls = {} /\ q \notin heard
  BY DEF Extends, WInv, AnswersOK
<1>2. PICK i \in DOMAIN wire : Ends(wire[i], p)
  BY DEF Extends, Announced, Awaits
<1>3. \A j \in DOMAIN wire : ~Ends(wire[j], q)
  BY DEF WInv, ServiceOK, Meant, MeantBy, Ends
<1>4. /\ i \in DOMAIN wire' /\ wire'[i] = wire[i]
      /\ \A j \in 1..(i - 1) : j \in DOMAIN wire /\ wire'[j] = wire[j]
  BY LongerKeeps DEF WInv
<1> QED
  BY <1>1, <1>2, <1>3, <1>4 DEF Behind, Ends

\* What is left to show of a step of the service.
LEMMA OrderKept ==
    ASSUME WInv, OInv, phase = "connected", Longer, Extends,
           UNCHANGED <<executed, heard, continuations, backendPending>>,
           \A i \in DOMAIN wire' \ DOMAIN wire : wire'[i].kind = "call" =>
             \E q \in DOMAIN responses' :
               AskedBy(responses', q, wire'[i].delegation, wire'[i].call),
           OlderDone', Announced', Busy', Counted'
    PROVE  OInv'
<1>1. CallsKnown /\ Sequenced /\ Announced /\ Continued /\ ServiceOK
  BY DEF OInv, WInv
<1>2. ASSUME NEW q \in DOMAIN responses, NEW d, NEW c, Asks(q, d, c)
      PROVE  q \in DOMAIN responses' /\ AskedBy(responses', q, d, c)
  BY <1>2 DEF Extends, Grows, Asks, AskedBy
<1>3. CallsKnown'
  <2>1. ASSUME NEW k \in executed'
        PROVE  \E q \in DOMAIN responses' : AskedBy(responses', q, k[1], k[2])
    BY <1>1, <1>2 DEF CallsKnown
  <2>2. ASSUME NEW i \in DOMAIN wire', wire'[i].kind = "call"
        PROVE  \E q \in DOMAIN responses' :
                 AskedBy(responses', q, wire'[i].delegation, wire'[i].call)
    <3>1. CASE i \in DOMAIN wire
      <4>1. wire'[i] = wire[i]
        BY <1>1, <3>1, LongerKeeps
      <4>2. PICK q \in DOMAIN responses : Asks(q, wire[i].delegation, wire[i].call)
        BY <1>1, <2>2, <3>1, <4>1 DEF CallsKnown
      <4> QED
        BY <1>2, <4>1, <4>2
    <3> QED
      BY <2>2, <3>1
  <2> QED
    BY <2>1, <2>2 DEF CallsKnown, Asks, AskedBy
<1>4. Sequenced'
  <2>1. ASSUME NEW p \in DOMAIN responses', NEW q \in DOMAIN responses',
               Earlier(p, q)', p \notin heard
        PROVE  Behind(p, q)'
    <3>1. CASE p \in DOMAIN responses /\ q \in DOMAIN responses
      <4>1. Earlier(p, q)
        BY <2>1, <3>1 DEF Earlier, Extends, Grows
      <4> QED
        BY <1>1, <2>1, <3>1, <4>1, BehindKept DEF Sequenced
    <3>2. CASE p \in DOMAIN responses /\ q \notin DOMAIN responses
      BY <1>1, <2>1, <3>2, BehindNew
    <3>3. CASE p \notin DOMAIN responses
      BY <2>1, <3>3 DEF OlderDone, Extends
    <3> QED
      BY <3>1, <3>2, <3>3
  <2> QED
    BY <2>1 DEF Sequenced
<1>5. ASSUME NEW q \in DOMAIN responses
      PROVE  Started(q)' <=> Started(q)
  <2>1. responses'[q].delegation = responses[q].delegation
        /\ DOMAIN responses[q].calls \subseteq DOMAIN responses'[q].calls
    BY DEF Extends, Grows
  <2>2. ASSUME NEW c \in DOMAIN responses'[q].calls, c \notin DOMAIN responses[q].calls
        PROVE  <<responses[q].delegation, c>> \notin executed
    BY <1>1, <2>2 DEF Extends, CallsKnown
  <2> QED
    BY <2>1, <2>2 DEF Started
<1>6. ASSUME NEW q \in DOMAIN responses', q \notin DOMAIN responses
      PROVE  ~Started(q)'
  BY <1>6 DEF Extends, Started
<1>7. Continued'
  <2>1. ASSUME NEW d \in continuations'
        PROVE  \E q \in DOMAIN responses' : responses'[q].delegation = d /\ Started(q)'
    <3>1. PICK q \in DOMAIN responses : responses[q].delegation = d /\ Started(q)
      BY <1>1 DEF Continued
    <3> QED
      BY <1>5, <3>1 DEF Extends, Grows
  <2>2. ASSUME NEW q \in DOMAIN responses', Started(q)'
        PROVE  responses'[q].delegation \in continuations'
    BY <1>1, <1>5, <1>6, <2>2 DEF Extends, Grows, Continued
  <2> QED
    BY <2>1, <2>2 DEF Continued
<1> QED
  BY <1>3, <1>4, <1>7 DEF OInv

LEMMA OrderUnchanged ==
    ASSUME OInv, UNCHANGED <<phase, executed, heard, continuations,
                             backendPending, created, responses, wire, creates>>
    PROVE  OInv'
<1> SUFFICES ASSUME phase' = "connected" PROVE OInv'
  BY DEF OInv
<1>1. CallsKnown /\ OlderDone /\ Sequenced /\ Announced /\ Continued /\ Busy /\ Counted
  BY DEF OInv
<1>2. CallsKnown' /\ OlderDone' /\ Announced' /\ Counted'
  BY <1>1 DEF CallsKnown, OlderDone, Announced, Counted, Asking, Asks, AskedBy, Earlier,
     Awaits, Ends
<1>3. Sequenced'
  BY <1>1 DEF Sequenced, Behind, Earlier, Ends, Carries
<1>4. Continued'
  BY <1>1 DEF Continued, Started
<1>5. Busy'
  BY <1>1 DEF Busy, Working, Responding, Waiting, IsLatest, ResponsesOf, Created
<1> QED
  BY <1>2, <1>3, <1>4, <1>5 DEF OInv

\* A message already in flight stays there.
LEMMA WireKept ==
    ASSUME ServiceOK, Longer
    PROVE  /\ \A p : Awaits(p) => Awaits(p)'
           /\ \A m : (\E i \in DOMAIN wire : wire[i] = m) => \E i \in DOMAIN wire' : wire'[i] = m
  BY LongerKeeps DEF Awaits, Ends

\* A step that only says something.
LEMMA SaysOrder ==
    ASSUME WInv, OInv, phase = "connected",
           UNCHANGED <<executed, heard, continuations, backendPending,
                       created, responses, creates>>,
           NEW m \in Message, wire' = Append(wire, m),
           m.kind = "call" => \E q \in DOMAIN responses : Asks(q, m.delegation, m.call)
    PROVE  OInv'
<1>1. OlderDone /\ Announced /\ Busy /\ Counted /\ ServiceOK
  BY DEF OInv, WInv
<1>2. Longer /\ Extends
  BY DEF Longer, Extends, Grows
<1>3. OlderDone' /\ Counted'
  BY <1>1 DEF OlderDone, Counted, Asking, Earlier
<1>4. Announced'
  BY <1>1, <1>2, WireKept DEF Announced
<1>5. Busy'
  <2>1. ASSUME NEW q \in DOMAIN responses', Working(q)'
        PROVE  LET d == responses[q].delegation IN
               d \in backendPending \/ \E i \in DOMAIN wire' : wire'[i] = Created(d)
    <3>1. Working(q)
      BY <2>1 DEF Working, Responding, Waiting, IsLatest, ResponsesOf
    <3> QED
      BY <1>1, <1>2, <2>1, <3>1, WireKept DEF Busy
  <2> QED
    BY <2>1 DEF Busy, Created
<1>6. ASSUME NEW i \in DOMAIN wire' \ DOMAIN wire PROVE wire'[i] = m
  BY <1>1, <1>6 DEF ServiceOK
<1> QED
  BY <1>2, <1>3, <1>4, <1>5, <1>6, OrderKept DEF Asks

\* A response that is going on asks for another call, or completes.
LEMMA RewriteOrder ==
    ASSUME WInv, OInv, phase = "connected",
           UNCHANGED <<executed, heard, continuations, backendPending,
                       created, creates>>,
           NEW r \in DOMAIN responses, Responding(r), NEW t,
           responses' = [responses EXCEPT ![r] = t],
           t.delegation = responses[r].delegation,
           DOMAIN responses[r].calls \subseteq DOMAIN t.calls,
           \A c \in DOMAIN t.calls \ DOMAIN responses[r].calls :
             \A q \in DOMAIN responses : ~Asks(q, t.delegation, c),
           NEW m \in Message, wire' = Append(wire, m),
           t.complete => Ends(m, r),
           m.kind = "call" => m.delegation = t.delegation /\ m.call \in DOMAIN t.calls
    PROVE  OInv'
<1>1. /\ OlderDone /\ Announced /\ Busy /\ Counted /\ ServiceOK
      /\ responses \in Seq(Response) /\ ~responses[r].complete
  BY DEF OInv, WInv, ServiceOK, Responding
<1>2. /\ DOMAIN responses' = DOMAIN responses /\ responses'[r] = t
      /\ \A q \in DOMAIN responses \ {r} : responses'[q] = responses[q]
      /\ Len(responses') = Len(responses)
  BY <1>1
<1>3. \A q \in DOMAIN responses : responses'[q].delegation = responses[q].delegation
  BY <1>2
<1>4. Longer /\ Grows
  BY <1>1, <1>2, <1>3 DEF Longer, Grows
<1>5. Extends
  BY <1>1, <1>2, <1>4 DEF Extends
<1>6. OlderDone'
  <2>1. ASSUME NEW p \in DOMAIN responses, NEW q \in DOMAIN responses, Earlier(p, q)'
        PROVE  responses'[p] = responses[p] /\ Earlier(p, q)
    <3>1. Earlier(p, q)
      BY <1>3, <2>1 DEF Earlier
    <3>2. p = r => q <= r
      BY <3>1 DEF Responding, IsLatest, ResponsesOf, Earlier
    <3>3. p \in Nat /\ q \in Nat /\ p < q
      BY <1>1, <3>1 DEF Earlier
    <3> QED
      BY <1>2, <3>1, <3>2, <3>3
  <2> QED
    BY <1>1, <1>2, <2>1 DEF OlderDone
<1>7. Announced'
  <2>1. ASSUME t.complete PROVE Awaits(r)'
    <3>1. Len(wire) + 1 \in DOMAIN wire' /\ wire'[Len(wire) + 1] = m
      BY <1>1 DEF ServiceOK
    <3> QED
      BY <2>1, <3>1 DEF Awaits, Ends
  <2> QED
    BY <1>1, <1>2, <1>4, <2>1, WireKept DEF Announced
<1>8. Busy'
  <2>1. ASSUME NEW q \in DOMAIN responses', Working(q)'
        PROVE  LET d == responses[q].delegation IN
               d \in backendPending \/ \E i \in DOMAIN wire' : wire'[i] = Created(d)
    <3>1. Working(q)
      <4>1. IsLatest(q)
        BY <1>2, <1>3, <2>1 DEF Working, Responding, Waiting, IsLatest, ResponsesOf
      <4>2. CASE q = r
        BY <4>2 DEF Working
      <4>3. CASE q # r
        BY <1>2, <2>1, <4>1, <4>3 DEF Working, Responding, Waiting
      <4> QED
        BY <4>2, <4>3
    <3> QED
      BY <1>1, <1>2, <1>4, <2>1, <3>1, WireKept DEF Busy
  <2> QED
    BY <1>2, <1>3, <2>1 DEF Busy, Created
<1>9. Counted'
  <2>1. r \notin heard /\ heard \subseteq DOMAIN responses
    BY <1>1 DEF WInv, AnswersOK
  <2>2. \A q \in heard : responses'[q] = responses[q]
    BY <1>2, <2>1
  <2>3. Asking' = Asking
    BY <2>2 DEF Asking
  <2> QED
    BY <1>1, <1>2, <2>3 DEF Counted
<1>10. ASSUME NEW i \in DOMAIN wire' \ DOMAIN wire, wire'[i].kind = "call"
       PROVE  \E q \in DOMAIN responses' :
                AskedBy(responses', q, wire'[i].delegation, wire'[i].call)
  <2>1. wire'[i] = m
    BY <1>1, <1>10 DEF ServiceOK
  <2> QED
    BY <1>2, <1>10, <2>1 DEF AskedBy
<1> QED
  BY <1>4, <1>5, <1>6, <1>7, <1>8, <1>9, <1>10, OrderKept

\* The announcement of delegation d as `cr` records it.
Announcement(cr, d) == [kind |-> "created", delegation |-> d, offset |-> cr[d].offset]

\* A delegation's first response begins, or its next one.
LEMMA BeginOrder ==
    ASSUME WInv, OInv, phase = "connected", Longer,
           UNCHANGED <<executed, heard, continuations, backendPending>>,
           NEW d \in Delegations, responses' = Append(responses, Begun(d)),
           d \in DOMAIN created',
           \A e \in DOMAIN created : e \in DOMAIN created' /\ created'[e] = created[e],
           \A i \in DOMAIN wire' \ DOMAIN wire : wire'[i].kind # "call",
           \A p \in DOMAIN responses : responses[p].delegation = d =>
             responses[p].complete /\ DOMAIN responses[p].calls # {},
           d \in backendPending \/ \E i \in DOMAIN wire' : wire'[i] = Announcement(created', d),
           Counted'
    PROVE  OInv'
<1> DEFINE b == Begun(d)
           n == Len(responses) + 1
<1>1. /\ OlderDone /\ Announced /\ Busy /\ ServiceOK
      /\ responses \in Seq(Response) /\ b \in Response
      /\ b.delegation = d /\ DOMAIN b.calls = {} /\ ~b.complete
  BY BegunType DEF OInv, WInv, ServiceOK
<1>2. responses' = Append(responses, b)
  OBVIOUS
<1> HIDE DEF b
<1>3. /\ DOMAIN responses' = DOMAIN responses \cup {n} /\ responses'[n] = b
      /\ n \in Nat /\ \A p \in DOMAIN responses : p \in Nat /\ p < n
      /\ \A p \in DOMAIN responses : responses'[p] = responses[p]
  BY <1>1, <1>2
<1> HIDE DEF n
<1>4. Grows
  BY <1>3 DEF Grows
<1>5. ASSUME NEW p \in DOMAIN responses', NEW q \in DOMAIN responses', Earlier(p, q)'
      PROVE  /\ p \in DOMAIN responses /\ responses'[p] = responses[p]
             /\ responses[p].complete /\ DOMAIN responses[p].calls # {}
  <2>1. p \in DOMAIN responses
    BY <1>3, <1>5 DEF Earlier
  <2>2. CASE q = n
    BY <1>1, <1>3, <1>5, <2>1, <2>2 DEF Earlier
  <2>3. CASE q # n
    <3>1. q \in DOMAIN responses
      BY <1>3, <2>3
    <3> QED
      BY <1>1, <1>3, <1>5, <2>1, <3>1 DEF Earlier, OlderDone
  <2> QED
    BY <2>2, <2>3
<1>6. Extends
  <2>1. \A r \in DOMAIN responses' \ DOMAIN responses : r = n
    BY <1>3
  <2> QED
    BY <1>1, <1>3, <1>4, <1>5, <2>1 DEF Extends
<1>7. OlderDone'
  BY <1>5 DEF OlderDone
<1>8. Announced'
  BY <1>1, <1>3, WireKept DEF Announced
<1>9. Busy'
  <2>1. ASSUME NEW q \in DOMAIN responses', Working(q)'
        PROVE  \/ responses'[q].delegation \in backendPending
               \/ \E i \in DOMAIN wire' :
                    wire'[i] = Announcement(created', responses'[q].delegation)
    <3>1. CASE q = n
      BY <1>1, <1>3, <3>1
    <3>2. CASE q # n
      <4>1. q \in DOMAIN responses /\ responses'[q] = responses[q]
        BY <1>3, <3>2
      <4>2. Working(q)
        BY <1>3, <2>1, <4>1 DEF Working, Responding, Waiting, IsLatest, ResponsesOf
      <4>3. responses[q].delegation \in DOMAIN created
        BY <1>1, <4>1 DEF ServiceOK
      <4>4. Created(responses[q].delegation) = Announcement(created', responses[q].delegation)
        BY <4>3 DEF Created, Announcement
      <4> QED
        BY <1>1, <4>1, <4>2, <4>4, WireKept DEF Busy
    <3> QED
      BY <3>1, <3>2
  <2> QED
    BY <2>1 DEF Busy, Created, Announcement
<1> QED
  BY <1>6, <1>7, <1>8, <1>9, OrderKept

LEMMA UnchangedOrder ==
    ASSUME OInv, SessionOpens \/ HostStep \/ LateEvent \/ UNCHANGED workVars
    PROVE  OInv'
<1>1. UNCHANGED <<phase, executed, heard, continuations,
                  backendPending, created, responses, wire, creates>>
  BY DEF SessionOpens, HostStep, LateEvent, ServiceStep, workVars, sessionVars, serviceVars
<1> QED
  BY <1>1, OrderUnchanged

LEMMA AsksOrder ==
    ASSUME WInv, OInv, NEW r \in DOMAIN responses, NEW c \in CallIds, NEW request \in Requests,
           AsksTool(r, c, request)
    PROVE  OInv'
<1> DEFINE s == responses[r]
           t == [s EXCEPT !.calls = With(s.calls, c, request)]
           m == Call(s.delegation, c, request)
<1>1. /\ ServiceStep /\ Responding(r) /\ responses' = [responses EXCEPT ![r] = t]
      /\ wire' = Append(wire, m) /\ UNCHANGED <<created, creates>>
      /\ \A q \in ResponsesOf(s.delegation) : c \notin DOMAIN responses[q].calls
  BY DEF AsksTool, Says
<1>2. s \in Response /\ responses \in Seq(Response)
  BY DEF WInv, ServiceOK
<1>3. /\ t \in Response /\ t.delegation = s.delegation /\ t.complete = s.complete
      /\ t.named = s.named /\ DOMAIN t.calls = DOMAIN s.calls \cup {c}
  BY <1>2, AskedType
<1>4. m \in Message /\ m.kind = "call" /\ m.delegation = s.delegation /\ m.call = c
  <2>1. s.delegation \in Delegations
    BY <1>2, ResponseType
  <2> HIDE DEF s
  <2> QED
    BY <2>1 DEF Call, Message
<1>5. \A k \in DOMAIN t.calls \ DOMAIN s.calls :
        \A q \in DOMAIN responses : ~Asks(q, t.delegation, k)
  BY <1>1, <1>3 DEF Asks, AskedBy, ResponsesOf
<1>6. ~s.complete
  BY <1>1 DEF Responding
<1> HIDE DEF t, m
<1> QED
  BY <1>1, <1>3, <1>4, <1>5, <1>6, RewriteOrder DEF ServiceStep, sessionVars

LEMMA CompletesOrder ==
    ASSUME WInv, OInv, NEW r \in DOMAIN responses, Completes(r) PROVE OInv'
<1>1. PICK t \in Response, m \in Message : Closing(r, t, m)
  BY CompletesType
<1>2. Ends(m, r) /\ m.kind # "call"
  BY <1>1 DEF Closing, Ends, TerminalKinds
<1> QED
  BY <1>1, <1>2, RewriteOrder DEF Closing, ServiceStep, sessionVars

\* Completed responses are not touched by a response that begins.
LEMMA AskingKept ==
    ASSUME AnswersOK, NEW b, responses' = Append(responses, b), responses \in Seq(Response),
           UNCHANGED heard
    PROVE  Asking' = Asking /\ Len(responses') = Len(responses) + 1 /\ Len(responses) \in Nat
<1>1. \A r \in heard : responses'[r] = responses[r]
  BY DEF AnswersOK
<1>2. Asking' = Asking
  BY <1>1 DEF Asking
<1> QED
  BY <1>2

LEMMA DelegatesOrder ==
    ASSUME WInv, OInv, NEW d \in Delegations, Delegates(d) PROVE OInv'
<1>1. PICK offset \in {now - origin, NoOffset, InvalidOffset} :
        /\ created' = With(created, d, [at |-> now, offset |-> offset])
        /\ wire' = Append(wire, [kind |-> "created", delegation |-> d, offset |-> offset])
  BY DEF Delegates, Says
<1>2. /\ ServiceStep /\ origin # NoOrigin /\ d \notin DOMAIN created
      /\ responses' = Append(responses, Begun(d)) /\ UNCHANGED creates
  BY DEF Delegates
<1>3. offset \in Offer
  BY <1>2 DEF WInv, TypeOK, ClockOK, Offer
<1> DEFINE m == [kind |-> "created", delegation |-> d, offset |-> offset]
<1>4. m \in Message /\ m.kind = "created"
  BY <1>3 DEF Message
<1>5. /\ DOMAIN created' = DOMAIN created \cup {d}
      /\ \A e \in DOMAIN created : e \in DOMAIN created' /\ created'[e] = created[e]
      /\ created'[d].offset = offset
  BY <1>1, <1>2 DEF With
<1>6. m = Announcement(created', d)
  BY <1>5 DEF Announcement
<1> HIDE DEF m
<1>7. /\ Len(wire) + 1 \in DOMAIN wire' /\ wire'[Len(wire) + 1] = m
      /\ \A i \in DOMAIN wire' \ DOMAIN wire : wire'[i] = m
  BY <1>1, <1>4 DEF WInv, ServiceOK, m
<1>8. Longer
  BY <1>1, <1>4 DEF Longer, m
<1>9. \A p \in DOMAIN responses : responses[p].delegation # d
  BY <1>2 DEF WInv, ServiceOK
<1>10. Counted'
  <2>1. /\ IsFiniteSet(DOMAIN created) /\ creates \in Nat
        /\ creates + (Len(responses) - Cardinality(DOMAIN created)) = Cardinality(Asking)
    BY <1>2 DEF OInv, ServiceStep, Counted
  <2>2. /\ IsFiniteSet(DOMAIN created')
        /\ Cardinality(DOMAIN created') = Cardinality(DOMAIN created) + 1
        /\ Cardinality(DOMAIN created) \in Nat
    BY <1>2, <1>5, <2>1, FS_AddElement, FS_CardinalityType
  <2>3. Asking' = Asking /\ Len(responses') = Len(responses) + 1 /\ Len(responses) \in Nat
    BY <1>2, AskingKept DEF WInv, ServiceOK, ServiceStep, sessionVars
  <2> QED
    BY <1>2, <2>1, <2>2, <2>3 DEF Counted
<1> QED
  BY <1>2, <1>4, <1>5, <1>6, <1>7, <1>8, <1>9, <1>10, BeginOrder DEF ServiceStep, sessionVars

LEMMA ContinuesOrder ==
    ASSUME WInv, OInv, NEW r \in DOMAIN responses, Continues(r) PROVE OInv'
<1> DEFINE d == responses[r].delegation
<1>1. /\ ServiceStep /\ Waiting(r) /\ creates > 0 /\ creates' = creates - 1
      /\ responses' = Append(responses, Begun(d)) /\ UNCHANGED <<created, wire>>
  BY DEF Continues
<1>2. /\ d \in Delegations /\ d \in DOMAIN created /\ responses \in Seq(Response)
      /\ OlderDone /\ Busy /\ Counted
  BY <1>1, ResponseType DEF WInv, ServiceOK, OInv, ServiceStep
<1>3. ASSUME NEW p \in DOMAIN responses, responses[p].delegation = d
      PROVE  responses[p].complete /\ DOMAIN responses[p].calls # {}
  <2>1. CASE p = r
    BY <1>1, <2>1 DEF Waiting
  <2>2. CASE p # r
    <3>1. p <= r /\ p \in Nat /\ r \in Nat
      BY <1>1, <1>2, <1>3 DEF Waiting, IsLatest, ResponsesOf
    <3>2. Earlier(p, r)
      BY <1>3, <2>2, <3>1 DEF Earlier
    <3> QED
      BY <1>2, <3>2 DEF OlderDone
  <2> QED
    BY <2>1, <2>2
<1>4. d \in backendPending \/ \E i \in DOMAIN wire' : wire'[i] = Announcement(created', d)
  <2>1. Created(d) = Announcement(created', d)
    BY <1>1 DEF Created, Announcement
  <2> QED
    BY <1>1, <1>2, <2>1 DEF Busy, Working
<1>5. Counted'
  <2>1. Asking' = Asking /\ Len(responses') = Len(responses) + 1 /\ Len(responses) \in Nat
    BY <1>1, <1>2, AskingKept DEF WInv, ServiceStep, sessionVars
  <2>2. Cardinality(DOMAIN created) \in Nat
    BY <1>2, FS_CardinalityType DEF Counted
  <2> QED
    BY <1>1, <1>2, <2>1, <2>2 DEF Counted
<1>6. Longer /\ \A e \in DOMAIN created : e \in DOMAIN created' /\ created'[e] = created[e]
  BY <1>1 DEF Longer
<1> HIDE DEF d
<1> QED
  BY <1>1, <1>2, <1>3, <1>4, <1>5, <1>6, BeginOrder DEF ServiceStep, sessionVars

LEMMA StreamsOrder ==
    ASSUME WInv, OInv, NEW r \in DOMAIN responses, Streams(r) PROVE OInv'
<1> DEFINE d == responses[r].delegation
<1>1. d \in Delegations
  BY ResponseType DEF WInv, ServiceOK
<1> HIDE DEF d
<1>2. /\ Progress(d) \in Message /\ Progress(d).kind # "call"
      /\ Failed(d) \in Message /\ Failed(d).kind # "call"
  BY <1>1 DEF Progress, Failed, Message
<1>3. /\ ServiceStep /\ UNCHANGED <<created, responses, creates>>
      /\ wire' = Append(wire, Progress(d)) \/ wire' = Append(wire, Failed(d))
  BY DEF Streams, Says, d
<1> QED
  BY <1>2, <1>3, SaysOrder DEF ServiceStep, sessionVars

LEMMA SaysAgainOrder ==
    ASSUME WInv, OInv, SaysAgain PROVE OInv'
<1>1. PICK m \in Said : wire' = Append(wire, m)
  BY DEF SaysAgain, Says
<1>2. ServiceStep /\ UNCHANGED <<created, responses, creates>>
  BY DEF SaysAgain
<1>3. m \in Message
  BY SaidMeant
<1>4. ASSUME m.kind = "call"
      PROVE  \E q \in DOMAIN responses : Asks(q, m.delegation, m.call)
  <2>1. PICK r \in DOMAIN responses : \E c \in DOMAIN responses[r].calls :
          m = Call(responses[r].delegation, c, responses[r].calls[c])
    <3>1. m \in UNION {{Call(responses[r].delegation, c, responses[r].calls[c]) :
                           c \in DOMAIN responses[r].calls} : r \in DOMAIN responses}
      BY <1>4 DEF Said, Created, Completed, Progress
    <3> QED
      BY <3>1
  <2>2. m.delegation = responses[r].delegation /\ m.call \in DOMAIN responses[r].calls
    BY <2>1 DEF Call
  <2> QED
    BY <2>2 DEF Asks, AskedBy
<1> QED
  BY <1>1, <1>2, <1>3, <1>4, SaysOrder DEF ServiceStep, sessionVars
-----------------------------------------------------------------------------
(* Completions without a response id *)

\* Where the service repeats none of them, one that is on its way is on its way once,
\* and was not acted on yet: nothing the server keeps would tell.
SaidOnce ==
    \A i \in DOMAIN wire : wire[i].kind = "unnamed" =>
        /\ wire[i].response \notin heard
        /\ \A j \in DOMAIN wire : Ends(wire[j], wire[i].response) => j = i

LEMMA SaysOnce ==
    ASSUME WInv, WInv', SaidOnce, UNCHANGED heard, NEW m \in Message,
           wire' = Append(wire, m),
           m.kind = "unnamed" =>
             m.response \notin heard /\ \A j \in DOMAIN wire : ~Ends(wire[j], m.response)
    PROVE  SaidOnce'
<1> DEFINE n == Len(wire) + 1
<1>1. /\ wire \in Seq(Message) /\ DOMAIN wire' = DOMAIN wire \cup {n} /\ wire'[n] = m
      /\ n \notin DOMAIN wire /\ \A i \in DOMAIN wire : wire'[i] = wire[i]
  BY DEF WInv, ServiceOK
<1>2. \A i \in DOMAIN wire' : MeantBy(wire'[i], created', responses')
  BY DEF WInv, ServiceOK, Meant
<1> HIDE DEF n
<1>3. ASSUME NEW i \in DOMAIN wire', wire'[i].kind = "unnamed"
      PROVE  /\ wire'[i].response \notin heard
             /\ \A j \in DOMAIN wire' : Ends(wire'[j], wire'[i].response) => j = i
  <2>1. CASE i = n
    BY <1>1, <1>3, <2>1 DEF Ends
  <2>2. CASE i \in DOMAIN wire
    <3>1. ~Ends(m, wire[i].response)
      <4>1. CASE m.kind = "unnamed"
        BY <1>1, <1>3, <2>2, <4>1 DEF Ends, TerminalKinds
      <4>2. CASE m.kind # "unnamed"
        BY <1>1, <1>2, <1>3, <2>2, <4>2 DEF Ends, TerminalKinds, MeantBy
      <4> QED
        BY <4>1, <4>2
    <3> QED
      BY <1>1, <1>3, <2>2, <3>1 DEF SaidOnce
  <2> QED
    BY <1>1, <2>1, <2>2
<1> QED
  BY <1>3 DEF SaidOnce, Ends

LEMMA HearsOnce ==
    ASSUME WInv, SaidOnce, wire # <<>>, wire' = Tail(wire),
           \A q \in heard' \ heard : Ends(Head(wire), q)
    PROVE  SaidOnce'
<1>1. /\ ServiceOK /\ 1 \in DOMAIN wire /\ Head(wire) = wire[1]
  BY HeadMeant DEF WInv
<1>2. \A i \in DOMAIN wire' : i + 1 \in DOMAIN wire /\ wire'[i] = wire[i + 1] /\ i \in Nat \ {0}
  <2>1. wire' \in Seq(Message)
    BY <1>1, TailShifts
  <2> QED
    BY <1>1, <2>1, TailShifts
<1>3. ASSUME NEW i \in DOMAIN wire', wire'[i].kind = "unnamed"
      PROVE  /\ wire'[i].response \notin heard'
             /\ \A j \in DOMAIN wire' : Ends(wire'[j], wire'[i].response) => j = i
  <2>1. /\ wire[i + 1].response \notin heard
        /\ \A j \in DOMAIN wire : Ends(wire[j], wire[i + 1].response) => j = i + 1
    BY <1>2, <1>3 DEF SaidOnce
  <2>2. ~Ends(Head(wire), wire[i + 1].response)
    BY <1>1, <1>2, <2>1
  <2>3. ASSUME NEW j \in DOMAIN wire', Ends(wire'[j], wire'[i].response) PROVE j = i
    BY <1>2, <2>1, <2>3
  <2> QED
    BY <1>2, <2>1, <2>2, <2>3
<1> QED
  BY <1>3 DEF SaidOnce, Ends

LEMMA SaysMore ==
    ASSUME WInv, [WorkNext]_workVars, SaidOnce, WInv', "unnamed" \notin Repeatable,
           \/ \E d \in Delegations : Delegates(d)
           \/ SaysAgain
           \/ \E r \in DOMAIN responses :
                \/ \E c \in CallIds, request \in Requests : AsksTool(r, c, request)
                \/ Streams(r)
    PROVE  SaidOnce'
<1>1. PICK m : wire' = Append(wire, m) /\ m.kind # "unnamed" /\ UNCHANGED heard
  <2>1. CASE \E d \in Delegations : Delegates(d)
    BY <2>1 DEF Delegates, Says, ServiceStep
  <2>2. CASE SaysAgain
    BY <2>2 DEF SaysAgain, Says, ServiceStep
  <2>3. CASE \E r \in DOMAIN responses :
               \E c \in CallIds, request \in Requests : AsksTool(r, c, request)
    BY <2>3 DEF AsksTool, Says, ServiceStep, Call
  <2>4. CASE \E r \in DOMAIN responses : Streams(r)
    BY <2>4 DEF Streams, Says, ServiceStep, Progress, Failed
  <2> QED
    BY <2>1, <2>2, <2>3, <2>4
<1>2. m \in Message
  <2>1. wire \in Seq(Message) /\ wire' \in Seq(Message)
    BY DEF WInv, ServiceOK
  <2>2. Len(wire) + 1 \in DOMAIN wire' /\ wire'[Len(wire) + 1] = m
    BY <1>1, <2>1
  <2> QED
    BY <2>1, <2>2
<1> QED
  BY <1>1, <1>2, SaysOnce

LEMMA SaidOnceStep ==
    ASSUME WInv, SaidOnce, [WorkNext]_workVars, "unnamed" \notin Repeatable
    PROVE  SaidOnce'
<1>1. WInv'
  BY WorkStep
<1>2. CASE UNCHANGED <<wire, heard>>
  BY <1>2 DEF SaidOnce, Ends
<1>3. SessionOpens \/ HostStep \/ LateEvent \/ UNCHANGED workVars => UNCHANGED <<wire, heard>>
  BY DEF SessionOpens, HostStep, LateEvent, ServiceStep, workVars
<1>4. ASSUME NEW r \in DOMAIN responses, Continues(r) PROVE UNCHANGED <<wire, heard>>
  BY <1>4 DEF Continues, ServiceStep
<1>5. ASSUME NEW r \in DOMAIN responses, Completes(r) PROVE SaidOnce'
  <2>1. PICK t \in Response, m \in Message : Closing(r, t, m)
    BY <1>5, CompletesType
  <2>2. ~responses[r].complete /\ m.response = r /\ wire' = Append(wire, m) /\ UNCHANGED heard
    BY <2>1 DEF Closing, Responding, ServiceStep
  <2>3. r \notin heard /\ \A j \in DOMAIN wire : ~Ends(wire[j], r)
    BY <2>2 DEF WInv, AnswersOK, ServiceOK, Ends, Meant, MeantBy
  <2> QED
    BY <1>1, <2>2, <2>3, SaysOnce
<1>6. CASE Delivery
  <2>1. /\ wire # <<>> /\ wire' = Tail(wire)
        /\ \A q \in heard' \ heard : Ends(Head(wire), q)
    BY <1>6 DEF Delivery, AnnouncementArrives, CallArrives, CompletionArrives,
       UnnamedCompletionArrives, ProgressArrives, FailureArrives, Arrives, Ends, TerminalKinds
  <2> QED
    BY <2>1, HearsOnce
<1>7. CASE Close
  <2>1. DOMAIN wire' = {}
    BY <1>7 DEF Close
  <2> QED
    BY <2>1 DEF SaidOnce
<1> QED
  BY <1>1, <1>2, <1>3, <1>4, <1>5, <1>6, <1>7, SaysMore DEF WorkNext

-----------------------------------------------------------------------------
(* The deliveries *)

Hears == wire # <<>> /\ wire' = Tail(wire) /\ UNCHANGED <<created, responses>>

LEMMA HearingOrder ==
    ASSUME WInv, OInv, phase = "connected", Hears,
           executed \subseteq executed',
           \A k \in executed' \ executed :
             Head(wire).kind = "call" /\ k = <<Head(wire).delegation, Head(wire).call>>,
           heard \subseteq heard',
           \A q \in heard' \ heard : Ends(Head(wire), q),
           \A p : Ends(Head(wire), p) => p \in heard',
           Continued', Busy', Counted'
    PROVE  OInv'
<1> DEFINE m == Head(wire)
<1>1. ServiceOK /\ wire # <<>> /\ wire' = Tail(wire) /\ UNCHANGED <<created, responses>>
  BY DEF WInv, Hears
<1>2. CallsKnown /\ OlderDone /\ Sequenced /\ Announced
  BY DEF OInv
<1>3. m = wire[1] /\ 1 \in DOMAIN wire
  BY <1>1, HeadMeant
<1>4. CallsKnown'
  <2>1. \A i \in DOMAIN wire' : i + 1 \in DOMAIN wire /\ wire'[i] = wire[i + 1]
    BY <1>1, TailShifts
  <2>2. ASSUME NEW k \in executed', k \notin executed
        PROVE  \E q \in DOMAIN responses : Asks(q, k[1], k[2])
    <3>1. m.kind = "call" /\ k[1] = m.delegation /\ k[2] = m.call
      BY <2>2
    <3> QED
      BY <1>2, <1>3, <3>1 DEF CallsKnown
  <2>3. ASSUME NEW k \in executed'
        PROVE  \E q \in DOMAIN responses : Asks(q, k[1], k[2])
    BY <1>2, <2>2, <2>3 DEF CallsKnown
  <2>4. ASSUME NEW i \in DOMAIN wire', wire'[i].kind = "call"
        PROVE  \E q \in DOMAIN responses : Asks(q, wire'[i].delegation, wire'[i].call)
    BY <1>2, <2>1, <2>4 DEF CallsKnown
  <2> HIDE DEF m
  <2> QED
    BY <1>1, <2>3, <2>4 DEF CallsKnown, Asks, AskedBy
<1> HIDE DEF m
<1>5. OlderDone'
  BY <1>1, <1>2 DEF OlderDone, Earlier
<1>6. ASSUME NEW i \in DOMAIN wire, NEW p, Ends(wire[i], p), p \notin heard'
      PROVE  /\ i - 1 \in DOMAIN wire' /\ wire'[i - 1] = wire[i] /\ i \in Nat
             /\ \A j \in 1..(i - 2) : j + 1 \in 1..(i - 1) /\ j \in DOMAIN wire'
             /\ 1 \in 1..(i - 1)
  <2>1. i # 1
    BY <1>3, <1>6 DEF m
  <2>2. i - 1 \in DOMAIN wire' /\ i \in Nat \ {0}
    BY <1>1, <2>1, TailShifts
  <2>3. wire'[i - 1] = wire[i]
    BY <1>1, <2>2, TailShifts
  <2>4. DOMAIN wire' = 1..Len(wire') /\ Len(wire') \in Nat
    BY <1>1, TailShifts
  <2> QED
    BY <2>1, <2>2, <2>3, <2>4
<1>7. Sequenced'
  <2>1. ASSUME NEW p \in DOMAIN responses, NEW q \in DOMAIN responses,
               Earlier(p, q), p \notin heard'
        PROVE  Behind(p, q)'
    <3>1. Behind(p, q)
      BY <1>2, <2>1 DEF Sequenced
    <3>2. PICK i \in DOMAIN wire :
            /\ Ends(wire[i], p)
            /\ \A j \in 1..(i - 1) :
                 /\ ~Ends(wire[j], q)
                 /\ \A c \in DOMAIN responses[q].calls : ~Carries(wire[j], q, c)
      BY <3>1 DEF Behind
    <3>3. /\ i - 1 \in DOMAIN wire' /\ wire'[i - 1] = wire[i] /\ i \in Nat
          /\ \A j \in 1..(i - 2) : j + 1 \in 1..(i - 1) /\ j \in DOMAIN wire'
          /\ 1 \in 1..(i - 1)
      BY <1>6, <2>1, <3>2
    <3>4. /\ ~Ends(m, q) /\ \A c \in DOMAIN responses[q].calls : ~Carries(m, q, c)
      BY <1>3, <3>2, <3>3
    <3>5. q \notin heard'
      BY <3>1, <3>4 DEF Behind, m
    <3>6. ASSUME NEW c \in DOMAIN responses[q].calls,
                 <<responses[q].delegation, c>> \in executed'
          PROVE  FALSE
      <4>1. <<responses[q].delegation, c>> \notin executed
        BY <3>1 DEF Behind
      <4>2. m.kind = "call" /\ m.delegation = responses[q].delegation /\ m.call = c
        BY <3>6, <4>1 DEF m
      <4> QED
        BY <3>4, <4>2 DEF Carries
    <3>7. \A j \in 1..(i - 2) : wire'[j] = wire[j + 1]
      BY <1>1, <3>3, TailShifts
    <3>8. (i - 1) - 1 = i - 2
      BY <3>3
    <3>9. \A j \in 1..(i - 2) :
             /\ ~Ends(wire'[j], q)
             /\ \A c \in DOMAIN responses[q].calls : ~Carries(wire'[j], q, c)
      BY <3>2, <3>3, <3>7
    <3> QED
      BY <1>1, <3>2, <3>3, <3>5, <3>6, <3>8, <3>9 DEF Behind, Ends, Carries
  <2> QED
    BY <1>1, <2>1 DEF Sequenced, Earlier
<1>8. Announced'
  <2>1. ASSUME NEW p \in DOMAIN responses, responses[p].complete, p \notin heard'
        PROVE  \E i \in DOMAIN wire' : Ends(wire'[i], p)
    <3>1. PICK i \in DOMAIN wire : Ends(wire[i], p)
      BY <1>2, <2>1 DEF Announced, Awaits
    <3> QED
      BY <1>6, <2>1, <3>1
  <2> QED
    BY <1>1, <2>1 DEF Announced, Awaits, Ends
<1> QED
  BY <1>4, <1>5, <1>7, <1>8 DEF OInv

\* An event that ends no delegation's work, and announces no response's end.
LEMMA BusyHeard ==
    ASSUME ServiceOK, Busy, Hears, backendPending \subseteq backendPending',
           Head(wire).kind = "created" => Head(wire).delegation \in backendPending'
    PROVE  Busy'
<1>1. ASSUME NEW q \in DOMAIN responses, Working(q)
      PROVE  \/ responses[q].delegation \in backendPending'
             \/ \E i \in DOMAIN wire' : wire'[i] = Created(responses[q].delegation)
  <2>1. CASE responses[q].delegation \in backendPending
    BY <2>1
  <2>2. CASE responses[q].delegation \notin backendPending
    <3>1. PICK i \in DOMAIN wire : wire[i] = Created(responses[q].delegation)
      BY <1>1, <2>2 DEF Busy
    <3>2. CASE i = 1
      <4>1. Head(wire) = Created(responses[q].delegation)
        BY <3>1, <3>2, HeadMeant DEF Hears
      <4> QED
        BY <4>1 DEF Created
    <3>3. CASE i # 1
      <4>1. i - 1 \in DOMAIN wire' /\ i \in Nat
        BY <3>3, TailShifts DEF Hears
      <4>2. wire'[i - 1] = wire[i]
        BY <4>1, TailShifts DEF Hears
      <4> QED
        BY <3>1, <4>1, <4>2
    <3> QED
      BY <3>2, <3>3
  <2> QED
    BY <2>1, <2>2
<1>2. \A q \in DOMAIN responses : Working(q)' <=> Working(q)
  BY DEF Working, Responding, Waiting, IsLatest, ResponsesOf, Hears
<1> QED
  BY <1>1, <1>2 DEF Busy, Created, Hears

\* What is heard again, or of no call and no completion.
LEMMA QuietOrder ==
    ASSUME WInv, OInv, phase = "connected", Hears,
           UNCHANGED <<executed, heard, continuations, creates>>,
           backendPending \subseteq backendPending',
           Head(wire).kind = "created" => Head(wire).delegation \in backendPending',
           \A p : Ends(Head(wire), p) => p \in heard
    PROVE  OInv'
<1>1. Continued /\ Counted /\ Busy /\ ServiceOK
  BY DEF OInv, WInv
<1>2. Continued'
  BY <1>1 DEF Continued, Started, Hears
<1>3. Counted'
  BY <1>1 DEF Counted, Asking, Hears
<1>4. Busy'
  BY <1>1, BusyHeard
<1> QED
  BY <1>2, <1>3, <1>4, HearingOrder

LEMMA AnnouncementOrder ==
    ASSUME WInv, OInv, AnnouncementArrives \/ ProgressArrives, wire # <<>> PROVE OInv'
<1>1. /\ phase = "connected" /\ Hears /\ Head(wire).kind \in {"created", "progress"}
      /\ UNCHANGED <<executed, heard, continuations, creates>>
      /\ backendPending' = backendPending \cup {Head(wire).delegation}
  BY DEF AnnouncementArrives, ProgressArrives, Arrives, Hears, serviceVars
<1>2. \A p : ~Ends(Head(wire), p)
  BY <1>1 DEF Ends, TerminalKinds
<1> QED
  BY <1>1, <1>2, QuietOrder

\* The response a call belongs to is open until the call has been executed.
LEMMA CallOrder ==
    ASSUME WInv, OInv, CallArrives PROVE OInv'
<1> DEFINE m == Head(wire)
           k == <<m.delegation, m.call>>
<1>1. /\ phase = "connected" /\ Hears /\ m.kind = "call"
      /\ backendPending' = backendPending \cup {m.delegation}
      /\ UNCHANGED <<heard, creates>>
      /\ \/ k \in executed /\ UNCHANGED <<executed, continuations>>
         \/ phase' = "failing"
         \/ /\ k \notin executed /\ executed' = executed \cup {k}
            /\ continuations' = continuations \cup {m.delegation}
  BY DEF CallArrives, Arrives, AlreadyExecuted, Hears, serviceVars
<1>2. \A p : ~Ends(m, p)
  BY <1>1 DEF Ends, TerminalKinds
<1>3. CASE k \in executed /\ UNCHANGED <<executed, continuations>>
  BY <1>1, <1>2, <1>3, QuietOrder
<1>4. CASE phase' = "failing"
  BY <1>4 DEF OInv
<1>5. CASE k \notin executed /\ executed' = executed \cup {k}
           /\ continuations' = continuations \cup {m.delegation}
  <2>1. Continued /\ Counted /\ Busy /\ ServiceOK /\ CallsKnown
    BY <1>1 DEF OInv, WInv
  <2>2. PICK r \in DOMAIN responses : Asks(r, m.delegation, m.call)
    BY <1>1, <2>1, HeadMeant DEF CallsKnown, Hears
  <2>3. responses[r].delegation = m.delegation /\ m.call \in DOMAIN responses[r].calls
    BY <2>2 DEF Asks, AskedBy
  <2>4. r \notin heard
    <3>1. Settled(r, m.call)
      BY <1>1, <2>3 DEF WInv, InOrder
    <3> QED
      BY <1>5, <2>3, <3>1 DEF Settled, OnItsWay
  <2> HIDE DEF m
  <2>5. \A q \in DOMAIN responses : Started(q) => Started(q)'
    BY <1>1, <1>5 DEF Started, Hears
  <2>6. Started(r)'
    BY <1>1, <1>5, <2>3, <2>4 DEF Started, Hears
  <2>7. ASSUME NEW q \in DOMAIN responses, Started(q)'
        PROVE  Started(q) \/ responses[q].delegation = m.delegation
    BY <1>1, <1>5, <2>7 DEF Started, Hears
  <2>8. Continued'
    BY <1>1, <1>5, <2>1, <2>3, <2>5, <2>6, <2>7 DEF Continued, Hears
  <2>9. Counted'
    BY <1>1, <2>1 DEF Counted, Asking, Hears
  <2>10. Busy'
    BY <1>1, <2>1, BusyHeard DEF m
  <2> QED
    BY <1>1, <1>2, <1>5, <2>8, <2>9, <2>10, HearingOrder DEF m
<1> QED
  BY <1>1, <1>3, <1>4, <1>5

\* The head of the wire completes r for the first time.
Finishes(r) ==
    /\ wire # <<>> /\ Ends(Head(wire), r)
    /\ r \notin heard

\* When a completion arrives first, all calls of its response have been executed.
LEMMA FinishedIsAnswered ==
    ASSUME WInv, phase = "connected", NEW r \in DOMAIN responses, Finishes(r)
    PROVE  \A c \in DOMAIN responses[r].calls : <<responses[r].delegation, c>> \in executed
<1>1. Ends(wire[1], r) /\ \A i \in DOMAIN wire : i \in Nat \ {0}
  BY HeadMeant DEF WInv, ServiceOK, Finishes
<1>2. \A i \in DOMAIN wire : 1 \in 1..i
  BY <1>1
<1> QED
  BY <1>1, <1>2 DEF WInv, InOrder, Settled, OnItsWay

\* No other response of its delegation is started then.
LEMMA FinishedIsAlone ==
    ASSUME WInv, OInv, phase = "connected", NEW r \in DOMAIN responses, Finishes(r),
           NEW q \in DOMAIN responses, q # r, Started(q)
    PROVE  responses[q].delegation # responses[r].delegation
<1> SUFFICES ASSUME responses[q].delegation = responses[r].delegation PROVE FALSE
  OBVIOUS
<1>1. Sequenced /\ q \in Nat /\ r \in Nat
  BY DEF OInv, WInv, ServiceOK
<1>2. CASE r < q
  <2>1. Behind(r, q)
    BY <1>1, <1>2 DEF Sequenced, Earlier, Finishes
  <2> QED
    BY <2>1 DEF Behind, Started
<1>3. CASE q < r
  <2>1. Behind(q, r)
    BY <1>1, <1>3 DEF Sequenced, Earlier, Started
  <2>2. PICK i \in DOMAIN wire : Ends(wire[i], q) /\ \A j \in 1..(i - 1) : ~Ends(wire[j], r)
    BY <2>1 DEF Behind
  <2>3. Ends(wire[1], r) /\ i \in Nat \ {0}
    BY HeadMeant DEF WInv, ServiceOK, Finishes
  <2>4. i = 1
    BY <2>2, <2>3
  <2> QED
    BY <2>2, <2>3, <2>4 DEF Ends
<1> QED
  BY <1>1, <1>2, <1>3

\* Its delegation has outputs to continue with if and only if it asked for tools.
LEMMA FinishedAsks ==
    ASSUME WInv, OInv, phase = "connected", NEW r \in DOMAIN responses, Finishes(r)
    PROVE  responses[r].delegation \in continuations <=> DOMAIN responses[r].calls # {}
<1>1. Continued
  BY DEF OInv
<1>2. ASSUME DOMAIN responses[r].calls # {} PROVE responses[r].delegation \in continuations
  <2>1. Started(r)
    BY <1>2, FinishedIsAnswered DEF Started, Finishes
  <2> QED
    BY <1>1, <2>1 DEF Continued
<1>3. ASSUME responses[r].delegation \in continuations PROVE DOMAIN responses[r].calls # {}
  <2>1. PICK q \in DOMAIN responses :
          responses[q].delegation = responses[r].delegation /\ Started(q)
    BY <1>1, <1>3 DEF Continued
  <2>2. q = r
    BY <2>1, FinishedIsAlone
  <2> QED
    BY <2>1, <2>2 DEF Started
<1> QED
  BY <1>2, <1>3

\* A response that asked for nothing is the last of its delegation.
LEMMA FinishedIsQuiet ==
    ASSUME WInv, OInv, phase = "connected", NEW r \in DOMAIN responses, Finishes(r),
           DOMAIN responses[r].calls = {},
           NEW q \in DOMAIN responses, responses[q].delegation = responses[r].delegation
    PROVE  ~Working(q)
<1>1. OlderDone /\ q \in Nat /\ r \in Nat /\ responses[r].complete
  BY HeadMeant DEF OInv, WInv, ServiceOK, Finishes, Meant, MeantBy, Ends
<1>2. ~(r < q)
  BY <1>1 DEF OlderDone, Earlier
<1>3. CASE q = r
  BY <1>1, <1>3 DEF Working, Responding, Waiting
<1>4. CASE q < r
  BY <1>1, <1>4 DEF Working, Responding, Waiting, IsLatest, ResponsesOf
<1> QED
  BY <1>1, <1>2, <1>3, <1>4

LEMMA CompletionOrder ==
    ASSUME WInv, OInv, SaidOnce, CompletionArrives \/ UnnamedCompletionArrives, wire # <<>>
    PROVE  OInv'
<1> DEFINE m == Head(wire)
           r == m.response
           d == m.delegation
<1>1. /\ phase = "connected" /\ Hears /\ m.kind \in TerminalKinds
      /\ \/ /\ m.kind = "completed" /\ r \in completedResponses
            /\ UNCHANGED <<executed, heard, continuations, backendPending, creates>>
         \/ phase' = "failing"
         \/ /\ m.kind = "completed" => r \notin completedResponses
            /\ heard' = heard \cup {r}
            /\ backendPending' = PendingAfterCompletion(d)
            /\ continuations' = continuations \ {d} /\ executed' = executed
            /\ creates' = IF d \in continuations THEN creates + 1 ELSE creates
  <2>1. CASE CompletionArrives
    BY <2>1 DEF CompletionArrives, EndOfResponse, Arrives, AlreadyCompleted, Hears,
       serviceVars, sessionVars, TerminalKinds
  <2>2. CASE UnnamedCompletionArrives
    BY <2>2 DEF UnnamedCompletionArrives, EndOfResponse, Arrives, Hears, serviceVars, TerminalKinds
  <2> QED
    BY <2>1, <2>2
<1>2. /\ r \in DOMAIN responses /\ responses[r].delegation = d
      /\ \A p : Ends(m, p) <=> p = r
      /\ responses[r].named <=> m.kind = "completed"
  BY <1>1, HeadMeant DEF WInv, Meant, MeantBy, Hears, Ends
<1>3. CASE /\ r \in heard
           /\ UNCHANGED <<executed, heard, continuations, backendPending, creates>>
  BY <1>1, <1>2, <1>3, QuietOrder DEF TerminalKinds
<1>4. CASE phase' = "failing"
  BY <1>4 DEF OInv
<1>5. CASE /\ r \notin heard
           /\ heard' = heard \cup {r}
           /\ backendPending' = PendingAfterCompletion(d)
           /\ continuations' = continuations \ {d} /\ executed' = executed
           /\ creates' = IF d \in continuations THEN creates + 1 ELSE creates
  <2>1. Finishes(r) /\ Continued /\ Counted /\ Busy /\ ServiceOK
    BY <1>1, <1>2, <1>5 DEF Finishes, Hears, OInv, WInv
  <2>2. d \in continuations <=> DOMAIN responses[r].calls # {}
    BY <1>1, <1>2, <2>1, FinishedAsks
  <2>3. \A q \in DOMAIN responses \ {r} : Started(q) => responses[q].delegation # d
    BY <1>1, <1>2, <2>1, FinishedIsAlone
  <2>4. d \notin continuations =>
          \A q \in DOMAIN responses : responses[q].delegation = d => ~Working(q)
    BY <1>1, <1>2, <2>1, <2>2, FinishedIsQuiet
  <2>5. UNCHANGED responses /\ UNCHANGED created
    BY <1>1 DEF Hears
  <2> HIDE DEF m, r, d
  <2>6. Continued'
    <3>1. ASSUME NEW q \in DOMAIN responses
          PROVE  Started(q)' <=> Started(q) /\ q # r
      BY <1>5, <2>5 DEF Started
    <3>2. ASSUME NEW e \in continuations'
          PROVE  \E q \in DOMAIN responses : responses[q].delegation = e /\ Started(q)'
      <4>1. PICK q \in DOMAIN responses : responses[q].delegation = e /\ Started(q)
        BY <1>5, <2>1, <3>2 DEF Continued
      <4>2. q # r
        BY <1>2, <1>5, <3>2, <4>1
      <4> QED
        BY <3>1, <4>1, <4>2
    <3>3. ASSUME NEW q \in DOMAIN responses, Started(q)'
          PROVE  responses[q].delegation \in continuations'
      BY <1>5, <2>1, <2>3, <3>1, <3>3 DEF Continued
    <3> QED
      BY <2>5, <3>2, <3>3 DEF Continued
  <2>7. Busy'
    <3>1. ASSUME NEW q \in DOMAIN responses', Working(q)'
          PROVE  \/ responses[q].delegation \in backendPending'
                 \/ \E i \in DOMAIN wire' : wire'[i] = Created(responses[q].delegation)
      <4>1. q \in DOMAIN responses /\ Working(q)
        BY <2>5, <3>1 DEF Working, Responding, Waiting, IsLatest, ResponsesOf
      <4>2. \/ responses[q].delegation \in backendPending
            \/ \E i \in DOMAIN wire : wire[i] = Created(responses[q].delegation)
        BY <2>1, <4>1 DEF Busy
      <4>3. CASE responses[q].delegation \in backendPending
        <5>1. responses[q].delegation = d => d \in continuations
          BY <2>4, <4>1
        <5> QED
          BY <1>5, <4>3, <5>1 DEF PendingAfterCompletion
      <4>4. CASE \E i \in DOMAIN wire : wire[i] = Created(responses[q].delegation)
        <5>1. PICK i \in DOMAIN wire : wire[i] = Created(responses[q].delegation)
          BY <4>4
        <5>2. i # 1
          BY <1>1, <5>1, HeadMeant, <2>1 DEF Created, Hears, TerminalKinds, m
        <5>3. i - 1 \in DOMAIN wire' /\ i \in Nat
          BY <1>1, <2>1, <5>2, TailShifts DEF Hears
        <5>4. wire'[i - 1] = wire[i]
          BY <1>1, <2>1, <5>3, TailShifts DEF Hears
        <5> QED
          BY <5>1, <5>3, <5>4
      <4> QED
        BY <4>2, <4>3, <4>4
    <3> QED
      BY <2>5, <3>1 DEF Busy, Created
  <2>8. Counted'
    <3>1. IsFiniteSet(Asking) /\ Cardinality(Asking) \in Nat
      <4>1. Asking \subseteq 1..Len(responses) /\ Len(responses) \in Nat
        BY DEF Asking, WInv, AnswersOK, ServiceOK
      <4>2. IsFiniteSet(1..Len(responses))
        BY <4>1, FS_Interval
      <4>3. IsFiniteSet(Asking)
        BY <4>1, <4>2, FS_Subset
      <4> QED
        BY <4>3, FS_CardinalityType
    <3>2. Len(responses) \in Nat /\ Cardinality(DOMAIN created) \in Nat
      BY <2>1, FS_CardinalityType DEF Counted, ServiceOK
    <3>3. CASE d \in continuations
      <4>1. Asking' = Asking \cup {r} /\ r \notin Asking
        BY <1>5, <2>2, <2>5, <3>3 DEF Asking
      <4>2. Cardinality(Asking') = Cardinality(Asking) + 1
        BY <3>1, <4>1, FS_AddElement
      <4> QED
        BY <1>5, <2>1, <2>5, <3>2, <3>3, <4>2 DEF Counted
    <3>4. CASE d \notin continuations
      <4>1. Asking' = Asking
        BY <1>5, <2>2, <2>5, <3>4 DEF Asking
      <4> QED
        BY <1>5, <2>1, <2>5, <3>4, <4>1 DEF Counted
    <3> QED
      BY <3>3, <3>4
  <2> QED
    BY <1>1, <1>2, <1>5, <2>6, <2>7, <2>8, HearingOrder DEF m
<1>6. m.kind = "completed" => (r \in completedResponses <=> r \in heard)
  BY <1>2 DEF WInv, AnswersOK
<1>7. m.kind = "unnamed" => r \notin heard
  BY HeadMeant DEF SaidOnce, WInv
<1> QED
  BY <1>1, <1>3, <1>4, <1>5, <1>6, <1>7 DEF TerminalKinds
-----------------------------------------------------------------------------
(* The invariant *)

LEMMA WorkInitOrder == WorkInit => OInv
<1> SUFFICES ASSUME WorkInit PROVE OInv
  OBVIOUS
<1>1. /\ DOMAIN created = {} /\ responses = <<>> /\ wire = <<>> /\ creates = 0
      /\ heard = {} /\ executed = {} /\ continuations = {}
  BY DEF WorkInit
<1>2. Counted
  <2>1. Asking = {}
    BY <1>1 DEF Asking
  <2> QED
    BY <1>1, <2>1, FS_EmptySet DEF Counted
<1> QED
  BY <1>1, <1>2 DEF OInv, CallsKnown, OlderDone, Sequenced, Announced, Continued, Busy

LEMMA WorkStepOrder == WInv /\ SaidOnce /\ OInv /\ [WorkNext]_workVars => OInv'
<1> SUFFICES ASSUME WInv, SaidOnce, OInv, [WorkNext]_workVars PROVE OInv'
  OBVIOUS
<1>1. CASE SessionOpens \/ HostStep \/ LateEvent \/ UNCHANGED workVars
  BY <1>1, UnchangedOrder
<1>2. CASE \E d \in Delegations : Delegates(d)
  BY <1>2, DelegatesOrder
<1>3. CASE \E r \in DOMAIN responses :
             \/ \E c \in CallIds, request \in Requests : AsksTool(r, c, request)
             \/ Completes(r) \/ Continues(r) \/ Streams(r)
  BY <1>3, AsksOrder, CompletesOrder, ContinuesOrder, StreamsOrder
<1>4. CASE SaysAgain
  BY <1>4, SaysAgainOrder
<1>5. CASE Delivery /\ ~FailureArrives
  BY <1>5, AnnouncementOrder, CallOrder, CompletionOrder DEF Delivery
<1>6. CASE Close \/ FailureArrives
  <2>1. phase' # "connected"
    BY <1>6 DEF Close, FailureArrives
  <2> QED
    BY <2>1 DEF OInv
<1> QED
  BY <1>1, <1>2, <1>3, <1>4, <1>5, <1>6 DEF WorkNext

LEMMA OrderInvariant ==
    ASSUME "unnamed" \notin Repeatable PROVE WorkSpec => []OInv
<1>1. WorkInit => SaidOnce /\ OInv
  BY WorkInitOrder DEF WorkInit, SaidOnce
<1>2. WInv /\ SaidOnce /\ OInv /\ [WorkNext]_workVars => SaidOnce' /\ OInv'
  BY WorkStepOrder, SaidOnceStep
<1> QED
  BY <1>1, <1>2, WorkInvariant, PTL DEF WorkSpec
-----------------------------------------------------------------------------
(* Theorems *)

\* The idle clock never runs out on work in progress: from the moment its
\* announcement arrived until its last response completed, a delegation is pending,
\* repeated completions and the gap before a continuation included.  Only a repeated
\* completion without a response id could end it early, so the theorem excludes it.
THEOREM BusyCorrect ==
    ASSUME "unnamed" \notin Repeatable PROVE WorkSpec => []BusyWhileWorking
<1>1. OInv => BusyWhileWorking
  BY DEF OInv, Busy, Working, BusyWhileWorking
<1> QED
  BY <1>1, OrderInvariant, PTL

\* One response.create per completed response that asked for tools, however often
\* calls and completions with an id are said: none is lost, none is sent twice.  For
\* the same reason the theorem excludes a repeated completion without one.
THEOREM ContinuedCorrect ==
    ASSUME "unnamed" \notin Repeatable PROVE WorkSpec => []ContinuedOnce
<1>1. OInv => ContinuedOnce
  BY DEF OInv, Counted, Asking, ContinuedOnce
<1> QED
  BY <1>1, OrderInvariant, PTL
=============================================================================
