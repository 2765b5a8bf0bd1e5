------------------------ MODULE ExperimentTrialProofs ------------------------
(***************************************************************************)
(* Proofs about ExperimentTrial, for all limits in the order the runner's   *)
(* rules have them and with either contract.                                *)
(***************************************************************************)
EXTENDS ExperimentTrial, TLAPS

\* The stages in which the browser is driven, those of the second utterance, those
\* of the observation, and what finally remains.
Driving == {"configure", "idle", "start", "first", "reconfigure", "initial",
            "condition", "remote", "wait", "second", "plan", "observe", "last"}
Playing == {"acquire"} \cup Driving
Conditional == {"condition", "remote", "wait", "second"}
Observing == {"plan", "observe", "last"}
Ending == {"evidence", "cleanup", "dispose", "over"}

\* The driver is there while it is used, and what was released is free.
DriverOK ==
    /\ at \in Driving => driver = "ready"
    /\ at = "acquire" => driver = "none" /\ ~known
    /\ at = "over" => driver # "ready"
    /\ known /\ at # "over" => driver = "ready"
    /\ owned = "no" => ~held
    /\ at \in {"acquire", "configure", "idle", "start"} => owned = "no" /\ ~cutOff
    /\ at \notin {"dispose", "over"} => ~released
    /\ released => driver \in {"ready", "disposed"} /\ (held => cutOff)

\* A snapshot is the answer to the last request, unless the last one was refused
\* with no time left to ask again.
SnapshotOK ==
    /\ asked # None => asked.at <= now
    /\ snapshot # None =>
         /\ known /\ asked # None /\ snapshot.at <= now
         /\ at \in Playing => asked.ok
         /\ asked.ok => asked.at = snapshot.at
         /\ ~asked.ok /\ at = "refresh" => failure # None /\ asked.at = now
         /\ ~asked.ok /\ at \in Ending => asked.at >= Work

\* The utterances end in their order, and the observation counts from the last.
PlayOK ==
    /\ at \in Playing => failure = None /\ observed = None
    /\ initialEnd # None => initialEnd <= now
    /\ secondEnd # None => initialEnd # None /\ initialEnd <= secondEnd /\ secondEnd <= now
    /\ scenario = "normal" =>
         /\ secondEnd = None /\ at \notin Conditional
         /\ at \in Playing => condition = TRUE
    /\ at \in Playing \ Observing => secondEnd = None
    /\ at \in Conditional => initialEnd # None /\ reference # None
    /\ at \in Observing =>
         /\ condition = TRUE /\ initialEnd # None /\ reference # None
         /\ reference = LastUtteranceEnd /\ reference <= now
    /\ at = "last" => reference + Observation <= now

\* What a trial without a failure has in hand once its observation is over.
FindingOK ==
    /\ at \in {"cleanup", "dispose", "over"} => cleanupAt # None /\ cleanupAt <= now
    /\ at \notin Playing /\ failure = None =>
         /\ snapshot # None /\ ~snapshot.stopped /\ snapshot.at <= Work
         /\ condition = TRUE /\ initialEnd # None
         /\ observed # None /\ observed >= Observation
         /\ LastUtteranceEnd # None /\ snapshot.at = LastUtteranceEnd + observed
         /\ at # "refresh" => snapshot.paced
         /\ at \notin {"refresh", "evidence"} =>
              snapshot.at <= cleanupAt /\ (PcmRequired => voice)
         /\ at = "over" => now <= Deadline /\ released /\ usage

IInv == TypeOK /\ DriverOK /\ SnapshotOK /\ PlayOK /\ FindingOK

LEMMA Numbers ==
    /\ Work \in Nat /\ Deadline \in Nat /\ Observation \in Nat /\ Lag \in Nat
    /\ Disposal \in Nat /\ Margin \in Nat /\ Reserve \in Nat /\ RemoteWait \in Nat
    /\ Disposal < Margin /\ Margin < Reserve /\ Reserve < Deadline
  BY TrialAssumption DEF Work

\* The limits of the operations are instants.
LEMMA Limits ==
    /\ Smaller(Work, now + 1) = IF Work < now + 1 THEN Work ELSE now + 1
    /\ Smaller(Deadline - Margin, now + 1) =
         IF Deadline - Margin < now + 1 THEN Deadline - Margin ELSE now + 1
    /\ Deadline - Margin \in Nat /\ Deadline - Disposal \in Nat /\ Reserve - Disposal \in Nat
    /\ Deadline - Margin >= Work
BY Numbers, TrialAssumption DEF Smaller, Work

\* What ends in time ends before its limit, what is given up after it.
LEMMA InTime ==
    ASSUME now \in Nat, NEW limit \in Nat, Until(limit)
    PROVE  now' \in Nat /\ now < limit /\ now <= now' /\ now' <= limit
BY DEF Until

LEMMA TooLate ==
    ASSUME now \in Nat, NEW limit \in Nat, GivenUp(limit)
    PROVE  now' \in Nat /\ now <= now' /\ limit <= now'
BY Numbers DEF GivenUp

LEMMA Something ==
    /\ \A x \in Nat: x # None
    /\ \A x \in BOOLEAN: x # None
    /\ \A x \in Failures: x # None
    /\ \A x \in Snapshot: x # None
    /\ \A x \in Request: x # None
BY NoneAssumption

LEMMA TakenSays ==
    ASSUME now' \in Nat, NEW stopped \in BOOLEAN, NEW paced \in BOOLEAN, Taken(stopped, paced)
    PROVE  /\ snapshot' \in Snapshot /\ snapshot' # None
           /\ snapshot'.at = now' /\ snapshot'.stopped = stopped /\ snapshot'.paced = paced
           /\ asked' \in Request /\ asked' # None /\ asked'.at = now' /\ asked'.ok
           /\ known'
<1>1. snapshot' \in Snapshot BY DEF Taken, Snapshot
<1>2. snapshot'.at = now' /\ snapshot'.stopped = stopped /\ snapshot'.paced = paced BY DEF Taken
<1>3. asked' \in Request BY DEF Taken, Request
<1>4. asked'.at = now' /\ asked'.ok BY DEF Taken
<1>5. known' BY DEF Taken
<1> QED BY <1>1, <1>2, <1>3, <1>4, <1>5, Something

LEMMA NotTakenSays ==
    ASSUME now' \in Nat, NotTaken
    PROVE  /\ asked' \in Request /\ asked' # None /\ asked'.at = now' /\ ~asked'.ok
           /\ UNCHANGED <<snapshot, known>>
<1>1. asked' \in Request BY DEF NotTaken, Request
<1>2. asked'.at = now' /\ ~asked'.ok BY DEF NotTaken
<1> QED BY <1>1, <1>2, Something DEF NotTaken

LEMMA Initially == Init => IInv
<1> SUFFICES ASSUME Init PROVE IInv OBVIOUS
<1>1. TypeOK BY Numbers, Something DEF Init, TypeOK, Stages, Instant
<1>2. DriverOK BY DEF Init, DriverOK, Driving
<1>3. SnapshotOK BY DEF Init, SnapshotOK
<1>4. PlayOK BY DEF Init, PlayOK, Playing, Driving, Observing, Conditional
<1>5. FindingOK BY DEF Init, FindingOK, Playing
<1> QED BY <1>1, <1>2, <1>3, <1>4, <1>5 DEF IInv

\* An operation that is given up or fails.
LEMMA Aborts ==
    ASSUME TypeOK, NEW code \in Failures, Abort(code)
    PROVE  /\ at' = "refresh" /\ failure' \in Failures /\ failure' # None
           /\ condition' \in {None} \cup BOOLEAN
BY Something DEF Abort, TypeOK

LEMMA Codes ==
    {"driver_failed", "trial_timeout", "condition_unmet", "session_closed_early"} \subseteq Failures
BY DEF Failures

\* The outcomes of a request for a snapshot: an answer or none, and the trial ends
\* there or goes on with the answer of a session that runs.
Answered ==
    /\ snapshot' \in Snapshot /\ snapshot' # None /\ snapshot'.at = now' /\ known'
    /\ asked' \in Request /\ asked' # None /\ asked'.at = now' /\ asked'.ok
Refused ==
    /\ asked' \in Request /\ asked' # None /\ asked'.at = now' /\ ~asked'.ok
    /\ UNCHANGED <<snapshot, known>>
Broken ==
    /\ at' = "refresh" /\ failure' \in Failures /\ failure' # None
    /\ condition' \in {None} \cup BOOLEAN
Polled(next) ==
    /\ now' \in Nat /\ now <= now'
    /\ \/ Broken /\ (Answered \/ Refused)
       \/ /\ at' = next /\ UNCHANGED <<failure, condition>> /\ now' <= Work
          /\ Answered /\ ~snapshot'.stopped

LEMMA FailedPoll == ASSUME TypeOK, CaptureFails, NEW next PROVE Polled(next)
<1>1. now' \in Nat /\ now <= now' BY Numbers, InTime, TooLate DEF CaptureFails, TypeOK
<1>2. Broken BY Aborts, Codes DEF CaptureFails, Broken
<1>3. Refused BY <1>1, NotTakenSays DEF CaptureFails, Refused
<1> QED BY <1>1, <1>2, <1>3 DEF Polled

LEMMA EndedPoll ==
    ASSUME TypeOK, Until(Work), NEW stopped \in BOOLEAN, NEW paced \in BOOLEAN,
           Taken(stopped, paced), NEW code \in Failures, Abort(code), NEW next
    PROVE  Polled(next)
<1>1. now' \in Nat /\ now <= now' BY Numbers, InTime DEF TypeOK
<1>2. Broken BY Aborts DEF Broken
<1>3. Answered BY <1>1, TakenSays DEF Answered
<1> QED BY <1>1, <1>2, <1>3 DEF Polled

LEMMA GoodPoll ==
    ASSUME TypeOK, now' \in Nat, now <= now', now' <= Work,
           NEW paced \in BOOLEAN, Taken(FALSE, paced), NEW next, Go(next)
    PROVE  Polled(next)
<1>1. Answered /\ ~snapshot'.stopped BY TakenSays DEF Answered
<1> QED BY <1>1 DEF Polled, Go

LEMMA Captured ==
    ASSUME TypeOK, NEW stage, NEW next, Capture(stage, next)
    PROVE  Polled(next)
<1>1. CASE CaptureFails BY <1>1, FailedPoll
<1>2. CASE Until(Work) /\ \E paced \in BOOLEAN: Taken(TRUE, paced) /\ Abort("session_closed_early")
  BY <1>2, EndedPoll, Codes
<1>3. CASE Until(Work) /\ \E paced \in BOOLEAN: Taken(FALSE, paced) /\ Go(next)
  <2>1. now' \in Nat /\ now <= now' /\ now' <= Work BY <1>3, Numbers, InTime DEF TypeOK
  <2> QED BY <1>3, <2>1, GoodPoll
<1> QED BY <1>1, <1>2, <1>3 DEF Capture

\* What a request for a snapshot leaves as it should be.
LEMMA PolledKeeps ==
    ASSUME IInv, at \in Playing, NEW next \in Driving \cup {"refresh"}, Polled(next),
           UNCHANGED <<scenario, deviceVars, playVars, endVars, voice>>, observed' \in Instant
    PROVE  TypeOK' /\ SnapshotOK'
<1>1. snapshot' \in {None} \cup Snapshot /\ known' \in BOOLEAN /\ asked' \in {None} \cup Request
  BY DEF Polled, Answered, Refused, IInv, TypeOK
<1>2. at' \in Stages /\ now' \in Nat BY DEF Polled, Broken, Driving, Stages
<1>3. failure' \in {None} \cup Failures /\ condition' \in {None} \cup BOOLEAN
  BY DEF Polled, Broken, IInv, TypeOK
<1>4. TypeOK' BY <1>1, <1>2, <1>3 DEF IInv, TypeOK, deviceVars, playVars, endVars
<1>5. ASSUME Answered PROVE SnapshotOK'
  BY <1>5, Something DEF SnapshotOK, Answered, Polled, Snapshot, Request
<1>6. CASE Broken /\ Refused
  <2>1. at' = "refresh" /\ asked'.at = now' /\ asked' # None /\ ~asked'.ok /\ failure' # None
    BY <1>6 DEF Broken, Refused
  <2>2. ASSUME snapshot' # None PROVE known' /\ snapshot'.at <= now'
    <3>1. snapshot' = snapshot /\ snapshot \in Snapshot /\ known' = known
      BY <1>6, <2>2 DEF Refused, IInv, TypeOK
    <3>2. known /\ snapshot.at <= now /\ snapshot.at \in Nat
      BY <2>2, <3>1 DEF IInv, SnapshotOK, Snapshot
    <3> QED BY <3>1, <3>2 DEF Polled, IInv, TypeOK
  <2>3. asked'.at <= now' BY <2>1, <1>2
  <2> QED BY <1>4, <2>1, <2>2, <2>3 DEF SnapshotOK, Playing, Driving, Ending
<1> QED BY <1>4, <1>5, <1>6 DEF Polled

\* Without a request the snapshot stays the answer to the last one.
LEMMA QuietKeeps ==
    ASSUME IInv, at \in Playing, now' \in Nat, now <= now', at' \in Driving \/ Broken,
           UNCHANGED evidenceVars
    PROVE  SnapshotOK'
<1>1. asked # None => asked.at \in Nat BY DEF IInv, TypeOK, Request
<1>2. snapshot # None => snapshot.at \in Nat BY DEF IInv, TypeOK, Snapshot
<1>3. now \in Nat BY DEF IInv, TypeOK
<1> QED BY <1>1, <1>2, <1>3 DEF IInv, SnapshotOK, evidenceVars, Driving, Playing, Ending, Broken

LEMMA AcquireKeeps == ASSUME IInv, Acquire PROVE IInv'
<1>1. TypeOK'
  BY Numbers, InTime, TooLate DEF IInv, TypeOK, Stages, Failures, Acquire, Abort, Go,
     evidenceVars, playVars, endVars
<1>2. DriverOK'
  BY DEF IInv, DriverOK, Driving, Acquire, Abort, Go, evidenceVars, endVars
<1>3. SnapshotOK'
  BY Numbers, InTime, TooLate DEF IInv, SnapshotOK, TypeOK, Request, Playing, Acquire,
     evidenceVars
<1>4. PlayOK'
  BY Numbers, InTime, TooLate DEF IInv, PlayOK, TypeOK, Instant, Driving, Playing,
     Conditional, Observing, Acquire, Abort, Go, playVars
<1>5. FindingOK'
  BY Something DEF FindingOK, Failures, Driving, Playing, Acquire, Abort, Go
<1> QED BY <1>1, <1>2, <1>3, <1>4, <1>5 DEF IInv

LEMMA LateDriverKeeps == ASSUME IInv, LateDriver PROVE IInv'
<1>1. TypeOK'
  BY DEF IInv, TypeOK, LateDriver, evidenceVars, playVars, endVars
<1>2. DriverOK'
  BY DEF IInv, DriverOK, LateDriver, evidenceVars, endVars
<1>3. SnapshotOK'
  BY DEF IInv, SnapshotOK, LateDriver, evidenceVars
<1>4. PlayOK'
  BY DEF IInv, PlayOK, LastUtteranceEnd, LateDriver, playVars
<1>5. FindingOK'
  BY DEF IInv, FindingOK, LastUtteranceEnd, LateDriver, evidenceVars, playVars, endVars
<1> QED BY <1>1, <1>2, <1>3, <1>4, <1>5 DEF IInv

LEMMA PrepareKeeps == ASSUME IInv, Prepare PROVE IInv'
<1>1. TypeOK'
  BY Numbers, InTime, TooLate DEF IInv, TypeOK, Stages, Failures, Prepare, Operation,
     Abort, Go, deviceVars, evidenceVars, playVars, endVars
<1>2. DriverOK'
  BY DEF IInv, DriverOK, Driving, Prepare, Operation, Abort, Go, deviceVars, endVars
<1>3. SnapshotOK'
  BY Numbers, InTime, TooLate DEF IInv, SnapshotOK, TypeOK, Request, Driving, Playing,
     Prepare, Operation, evidenceVars
<1>4. PlayOK'
  BY Numbers, InTime, TooLate DEF IInv, PlayOK, TypeOK, Instant, Driving, Playing,
     Conditional, Observing, Prepare, Operation, Abort, Go, playVars
<1>5. FindingOK'
  BY Something DEF FindingOK, Failures, Driving, Playing, Prepare, Operation, Abort, Go
<1> QED BY <1>1, <1>2, <1>3, <1>4, <1>5 DEF IInv

LEMMA StartKeeps == ASSUME IInv, Start PROVE IInv'
<1>1. TypeOK'
  <2>1. now' \in Nat /\ at' \in Stages
    BY Numbers, Limits, InTime, TooLate DEF IInv, TypeOK, Start, Stages, Abort, Go
  <2>2. failure' \in {None} \cup Failures /\ condition' \in {None} \cup BOOLEAN
    BY Something, Aborts, Codes DEF IInv, TypeOK, Start, Go
  <2>3. driver' \in {"none", "late", "ready", "stuck", "disposed"} /\ owned' \in {"no", "asked", "yes"}
        /\ held' \in BOOLEAN
    BY DEF IInv, TypeOK, Start, deviceVars
  <2>4. cutOff' \in BOOLEAN BY DEF IInv, TypeOK, Start, Abort, deviceVars
  <2>5. scenario' = scenario /\ known' \in BOOLEAN /\ snapshot' \in {None} \cup Snapshot
        /\ asked' \in {None} \cup Request
    BY <2>1, TakenSays DEF IInv, TypeOK, Start, evidenceVars
  <2>6. initialEnd' \in Instant /\ secondEnd' \in Instant /\ reference' \in Instant
        /\ observed' \in Instant /\ cleanupAt' \in Instant
    BY <2>1 DEF IInv, TypeOK, Instant, Start, playVars, endVars
  <2>7. released' \in BOOLEAN /\ usage' \in BOOLEAN /\ voice' \in BOOLEAN
    BY DEF IInv, TypeOK, Start, endVars
  <2> QED BY <2>1, <2>2, <2>3, <2>4, <2>5, <2>6, <2>7 DEF IInv, TypeOK
<1>2. DriverOK'
  <2>1. driver' = driver /\ released' = released /\ known' = known /\ at' \in {"first", "refresh"}
    BY DEF Start, Abort, Go, evidenceVars, endVars
  <2>2. ~released /\ ~held /\ at = "start"
    BY DEF IInv, DriverOK, TypeOK, Start
  <2>3. driver = "ready" BY <2>2 DEF IInv, DriverOK, Driving
  <2>4. owned' = "no" => ~held' BY <2>2 DEF Start
  <2> QED BY <2>1, <2>2, <2>3, <2>4 DEF DriverOK
<1>3. SnapshotOK'
  BY Numbers, InTime, TooLate DEF IInv, SnapshotOK, TypeOK, Request, Driving, Playing,
     Start, evidenceVars
<1>4. PlayOK'
  BY Numbers, InTime, TooLate DEF IInv, PlayOK, TypeOK, Instant, Driving, Playing,
     Conditional, Observing, Start, Abort, Go, playVars
<1>5. FindingOK'
  BY Something DEF FindingOK, Failures, Driving, Playing, Start, Abort, Go
<1> QED BY <1>1, <1>2, <1>3, <1>4, <1>5 DEF IInv

LEMMA LateStartKeeps == ASSUME IInv, LateStart PROVE IInv'
<1>1. TypeOK'
  BY DEF IInv, TypeOK, LateStart, evidenceVars, playVars, endVars
<1>2. DriverOK'
  BY DEF IInv, DriverOK, LateStart, endVars
<1>3. SnapshotOK'
  BY DEF IInv, SnapshotOK, LateStart, evidenceVars
<1>4. PlayOK'
  BY DEF IInv, PlayOK, LastUtteranceEnd, LateStart, playVars
<1>5. FindingOK'
  BY DEF IInv, FindingOK, LastUtteranceEnd, LateStart, evidenceVars, playVars, endVars
<1> QED BY <1>1, <1>2, <1>3, <1>4, <1>5 DEF IInv

LEMMA FirstKeeps == ASSUME IInv, First PROVE IInv'
<1>a. Polled("reconfigure") /\ at = "first"
  BY Captured DEF IInv, First, Capture
<1>b. UNCHANGED <<scenario, deviceVars, playVars, endVars, voice>> BY DEF First, endVars
<1>c. observed' \in Instant
  BY DEF First, IInv, TypeOK
<1>d. TypeOK' /\ SnapshotOK' BY <1>a, <1>b, <1>c, PolledKeeps DEF Playing, Driving
<1>1. TypeOK'
  BY <1>d
<1>2. DriverOK'
  BY <1>a, <1>b DEF IInv, DriverOK, Polled, Broken, deviceVars, endVars, Driving
<1>3. SnapshotOK'
  BY <1>d
<1>4. PlayOK'
  BY <1>a, <1>b DEF First, IInv, TypeOK, PlayOK, Polled, Broken, playVars,
     LastUtteranceEnd, Instant, Playing, Driving, Conditional, Observing
<1>5. FindingOK'
  BY <1>a, <1>b DEF IInv, PlayOK, FindingOK, Polled, Broken, Playing, Driving
<1> QED BY <1>1, <1>2, <1>3, <1>4, <1>5 DEF IInv

LEMMA InitialKeeps == ASSUME IInv, Initial PROVE IInv'
<1>1. TypeOK'
  BY Numbers, InTime, TooLate DEF IInv, TypeOK, Stages, Instant, Failures, Initial,
     Operation, Abort, Go, deviceVars, evidenceVars, playVars, endVars
<1>2. DriverOK'
  BY DEF IInv, DriverOK, Driving, Initial, Operation, Abort, Go, deviceVars, endVars
<1>3. SnapshotOK'
  BY Numbers, InTime, TooLate DEF IInv, SnapshotOK, TypeOK, Request, Driving, Playing,
     Initial, Operation, evidenceVars
<1>4. PlayOK'
  BY <1>1, Numbers, Limits, Something, InTime, TooLate, TakenSays, NotTakenSays DEF IInv,
     PlayOK, LastUtteranceEnd, TypeOK, Stages, Snapshot, Request, Instant, Failures,
     Driving, Playing, Conditional, Observing, Ending, Initial, Operation, Abort, Go,
     deviceVars, evidenceVars, playVars, endVars
<1>5. FindingOK'
  BY Something DEF FindingOK, Failures, Driving, Playing, Initial, Operation, Abort, Go
<1> QED BY <1>1, <1>2, <1>3, <1>4, <1>5 DEF IInv

LEMMA WaitingIsTimed ==
    ASSUME IInv, at \in Conditional
    PROVE  ConditionDeadline \in Nat /\ ConditionDeadline <= Work
<1>1. reference \in Nat BY DEF IInv, TypeOK, PlayOK, Instant
<1>2. reference + RemoteWait \in Nat BY <1>1, Numbers
<1> QED BY <1>2, Numbers DEF ConditionDeadline, Smaller

\* Every outcome of a turn of the condition's loop: it ends the trial or goes on.
LEMMA ConditionPolls ==
    ASSUME IInv, Condition
    PROVE  (Broken /\ UNCHANGED <<now, evidenceVars>>)
              \/ \E next \in {"remote", "second", "wait"}: Polled(next)
<1>1. CASE now >= ConditionDeadline
  BY <1>1, Aborts, Codes DEF Condition, Broken, IInv
<1>2. CASE Capture("condition", "remote") BY <1>2, Captured DEF IInv
<1>3. CASE Capture("condition", "second") BY <1>3, Captured DEF IInv
<1>4. CASE Capture("condition", "wait") BY <1>4, Captured DEF IInv
<1>5. CASE Until(Work) /\ Taken(FALSE, TRUE) /\ Abort("condition_unmet")
  BY <1>5, EndedPoll, Codes DEF IInv
<1> QED BY <1>1, <1>2, <1>3, <1>4, <1>5 DEF Condition

LEMMA ConditionKeeps == ASSUME IInv, Condition PROVE IInv'
<1>1. at = "condition" /\ UNCHANGED <<scenario, deviceVars, playVars, endVars, voice, observed>>
  BY DEF Condition, endVars
<1>2. at \in Playing BY <1>1 DEF Playing, Driving
<1>3. TypeOK' /\ SnapshotOK'
  <2>1. CASE Broken /\ UNCHANGED <<now, evidenceVars>>
    <3>1. SnapshotOK' BY <1>2, <2>1, QuietKeeps DEF IInv, TypeOK
    <3>2. TypeOK'
      BY <1>1, <2>1 DEF IInv, TypeOK, Broken, Stages, deviceVars, evidenceVars, playVars,
         endVars
    <3> QED BY <3>1, <3>2
  <2>2. ASSUME NEW next \in {"remote", "second", "wait"}, Polled(next) PROVE TypeOK' /\ SnapshotOK'
    BY <1>1, <1>2, <2>2, PolledKeeps DEF Driving, IInv, TypeOK
  <2> QED BY <2>1, <2>2, ConditionPolls
<1>4. now' \in Nat /\ now <= now' /\ (Broken \/ (at' \in {"remote", "second", "wait"}
                                                  /\ UNCHANGED <<failure, condition>>))
  BY ConditionPolls DEF Polled, IInv, TypeOK
<1>5. at' \in {"refresh", "remote", "second", "wait"} BY <1>4 DEF Broken
<1>6. DriverOK'
  BY <1>1, <1>5 DEF IInv, DriverOK, deviceVars, endVars, Driving
<1>7. PlayOK'
  BY <1>1, <1>4 DEF Broken, IInv, TypeOK, PlayOK, playVars, Instant, Playing, Driving,
     Conditional, Observing
<1>8. FindingOK' BY <1>1, <1>4 DEF IInv, PlayOK, FindingOK, Broken, Playing, Driving
<1> QED BY <1>3, <1>6, <1>7, <1>8 DEF IInv

LEMMA RemoteKeeps == ASSUME IInv, Remote PROVE IInv'
<1>1. at = "remote" /\ UNCHANGED <<scenario, deviceVars, evidenceVars, playVars, endVars, voice, observed>>
  BY DEF Remote, endVars
<1>2. at \in Playing /\ at \in Conditional BY <1>1 DEF Playing, Driving, Conditional
<1>3. now' \in Nat /\ now <= now' BY <1>2, WaitingIsTimed, InTime, TooLate DEF Remote, IInv, TypeOK
<1>4. Broken \/ (at' \in {"second", "wait"} /\ UNCHANGED <<failure, condition>>)
  BY Aborts, Codes DEF Remote, Go, Broken, IInv
<1>5. at' \in {"refresh", "second", "wait"} BY <1>4 DEF Broken
<1>6. TypeOK'
  BY <1>1, <1>3, <1>4, <1>5 DEF IInv, TypeOK, Broken, Stages, deviceVars, evidenceVars,
     playVars, endVars
<1>7. SnapshotOK' BY <1>2, <1>3, <1>4, QuietKeeps, <1>1 DEF Driving
<1>8. DriverOK' BY <1>1, <1>5 DEF IInv, DriverOK, deviceVars, evidenceVars, endVars, Driving
<1>9. PlayOK'
  BY <1>1, <1>3, <1>4 DEF Broken, IInv, TypeOK, PlayOK, playVars, Instant, Playing,
     Driving, Conditional, Observing
<1>10. FindingOK' BY <1>1, <1>4 DEF IInv, PlayOK, FindingOK, Broken, Playing, Driving
<1> QED BY <1>6, <1>7, <1>8, <1>9, <1>10 DEF IInv

LEMMA WaitKeeps == ASSUME IInv, Wait PROVE IInv'
<1>1. at = "wait" /\ UNCHANGED <<scenario, deviceVars, evidenceVars, playVars, endVars, voice, observed>>
  BY DEF Wait, endVars
<1>2. at \in Playing /\ at \in Conditional BY <1>1 DEF Playing, Driving, Conditional
<1>3. now' \in Nat /\ now <= now' BY DEF Wait, IInv, TypeOK
<1>4. Broken \/ (at' \in {"condition"} /\ UNCHANGED <<failure, condition>>)
  BY Aborts, Codes DEF Wait, Go, Broken, IInv
<1>5. at' \in {"refresh", "condition"} BY <1>4 DEF Broken
<1>6. TypeOK'
  BY <1>1, <1>3, <1>4, <1>5 DEF IInv, TypeOK, Broken, Stages, deviceVars, evidenceVars,
     playVars, endVars
<1>7. SnapshotOK' BY <1>2, <1>3, <1>4, QuietKeeps, <1>1 DEF Driving
<1>8. DriverOK' BY <1>1, <1>5 DEF IInv, DriverOK, deviceVars, evidenceVars, endVars, Driving
<1>9. PlayOK'
  BY <1>1, <1>3, <1>4 DEF Broken, IInv, TypeOK, PlayOK, playVars, Instant, Playing,
     Driving, Conditional, Observing
<1>10. FindingOK' BY <1>1, <1>4 DEF IInv, PlayOK, FindingOK, Broken, Playing, Driving
<1> QED BY <1>6, <1>7, <1>8, <1>9, <1>10 DEF IInv

LEMMA SecondKeeps == ASSUME IInv, Second PROVE IInv'
<1>1. TypeOK'
  <2>1. now' \in Nat /\ at' \in Stages
    BY Numbers, Limits, InTime, TooLate DEF IInv, TypeOK, Second, Stages, Abort, Go
  <2>2. failure' \in {None} \cup Failures /\ condition' \in {None} \cup BOOLEAN
    BY Something, Aborts, Codes DEF IInv, TypeOK, Second, Go
  <2>3. driver' \in {"none", "late", "ready", "stuck", "disposed"} /\ owned' \in {"no", "asked", "yes"}
        /\ held' \in BOOLEAN
    BY DEF IInv, TypeOK, Second, deviceVars
  <2>4. cutOff' \in BOOLEAN BY DEF IInv, TypeOK, Second, Abort, deviceVars
  <2>5. scenario' = scenario /\ known' \in BOOLEAN /\ snapshot' \in {None} \cup Snapshot
        /\ asked' \in {None} \cup Request
    BY <2>1, TakenSays DEF IInv, TypeOK, Second, evidenceVars
  <2>6. initialEnd' \in Instant /\ secondEnd' \in Instant /\ reference' \in Instant
        /\ observed' \in Instant /\ cleanupAt' \in Instant
    BY <2>1 DEF IInv, TypeOK, Instant, Second, playVars, endVars
  <2>7. released' \in BOOLEAN /\ usage' \in BOOLEAN /\ voice' \in BOOLEAN
    BY DEF IInv, TypeOK, Second, endVars
  <2> QED BY <2>1, <2>2, <2>3, <2>4, <2>5, <2>6, <2>7 DEF IInv, TypeOK
<1>2. DriverOK'
  BY Something DEF IInv, TypeOK, DriverOK, SnapshotOK, Failures, Driving, Playing,
     Conditional, Observing, Ending, Second, deviceVars, evidenceVars, playVars, endVars
<1>3. SnapshotOK'
  BY <1>1, Numbers, Limits, Something, InTime, TooLate, TakenSays, NotTakenSays DEF IInv,
     DriverOK, SnapshotOK, PlayOK, FindingOK, TypeOK, Stages, Snapshot, Request, Instant,
     Failures, Driving, Playing, Conditional, Observing, Ending, Second, deviceVars,
     evidenceVars, playVars, endVars
<1>4. PlayOK'
  BY <1>1, Numbers, Limits, Something, InTime, TooLate, TakenSays, NotTakenSays DEF IInv,
     PlayOK, LastUtteranceEnd, TypeOK, Stages, Snapshot, Request, Instant, Failures,
     Driving, Playing, Conditional, Observing, Ending, Second, deviceVars, evidenceVars,
     playVars, endVars
<1>5. FindingOK'
  BY <1>1, Numbers, Limits, Something, InTime, TooLate, TakenSays, NotTakenSays DEF IInv,
     SnapshotOK, PlayOK, FindingOK, LastUtteranceEnd, TypeOK, Stages, Snapshot, Request,
     Instant, Failures, Driving, Playing, Conditional, Observing, Ending, Second,
     deviceVars, evidenceVars, playVars, endVars
<1> QED BY <1>1, <1>2, <1>3, <1>4, <1>5 DEF IInv

LEMMA PlanKeeps == ASSUME IInv, Plan PROVE IInv'
<1>1. TypeOK'
  <2>1. now' \in Nat /\ at' \in Stages
    BY Numbers, Limits, InTime, TooLate DEF IInv, TypeOK, Plan, Stages, Abort, Go
  <2>2. failure' \in {None} \cup Failures /\ condition' \in {None} \cup BOOLEAN
    BY Something, Aborts, Codes DEF IInv, TypeOK, Plan, Go
  <2>3. driver' \in {"none", "late", "ready", "stuck", "disposed"} /\ owned' \in {"no", "asked", "yes"}
        /\ held' \in BOOLEAN
    BY DEF IInv, TypeOK, Plan, deviceVars
  <2>4. cutOff' \in BOOLEAN BY DEF IInv, TypeOK, Plan, Abort, deviceVars
  <2>5. scenario' = scenario /\ known' \in BOOLEAN /\ snapshot' \in {None} \cup Snapshot
        /\ asked' \in {None} \cup Request
    BY <2>1, TakenSays DEF IInv, TypeOK, Plan, evidenceVars
  <2>6. initialEnd' \in Instant /\ secondEnd' \in Instant /\ reference' \in Instant
        /\ observed' \in Instant /\ cleanupAt' \in Instant
    BY <2>1 DEF IInv, TypeOK, Instant, Plan, playVars, endVars
  <2>7. released' \in BOOLEAN /\ usage' \in BOOLEAN /\ voice' \in BOOLEAN
    BY DEF IInv, TypeOK, Plan, endVars
  <2> QED BY <2>1, <2>2, <2>3, <2>4, <2>5, <2>6, <2>7 DEF IInv, TypeOK
<1>2. DriverOK'
  BY Something DEF IInv, TypeOK, DriverOK, SnapshotOK, Failures, Driving, Playing,
     Conditional, Observing, Ending, Plan, Abort, Go, Fits, deviceVars, evidenceVars,
     playVars, endVars
<1>3. SnapshotOK'
  BY <1>1, Numbers, Limits, Something, InTime, TooLate, TakenSays, NotTakenSays DEF IInv,
     DriverOK, SnapshotOK, PlayOK, FindingOK, TypeOK, Stages, Snapshot, Request, Instant,
     Failures, Driving, Playing, Conditional, Observing, Ending, Plan, Abort, Go, Fits,
     deviceVars, evidenceVars, playVars, endVars
<1>4. PlayOK'
  BY <1>1, Numbers, Limits, Something, InTime, TooLate, TakenSays, NotTakenSays DEF IInv,
     PlayOK, LastUtteranceEnd, TypeOK, Stages, Snapshot, Request, Instant, Failures,
     Driving, Playing, Conditional, Observing, Ending, Plan, Abort, Go, Fits, deviceVars,
     evidenceVars, playVars, endVars
<1>5. FindingOK'
  BY <1>1, Numbers, Limits, Something, InTime, TooLate, TakenSays, NotTakenSays DEF IInv,
     SnapshotOK, PlayOK, FindingOK, LastUtteranceEnd, TypeOK, Stages, Snapshot, Request,
     Instant, Failures, Driving, Playing, Conditional, Observing, Ending, Plan, Abort,
     Go, Fits, deviceVars, evidenceVars, playVars, endVars
<1> QED BY <1>1, <1>2, <1>3, <1>4, <1>5 DEF IInv

\* The turns of the observation: a request and a sleep, or the end of it.
LEMMA ObserveKeeps == ASSUME IInv, Observe PROVE IInv'
<1>1. at = "observe" /\ UNCHANGED <<scenario, deviceVars, playVars, endVars, voice, observed>>
  BY DEF Observe, endVars
<1>2. at \in Playing /\ at \in Observing BY <1>1 DEF Playing, Driving, Observing
<1>3. reference \in Nat /\ reference + Observation \in Nat
  BY <1>2, Numbers DEF IInv, TypeOK, PlayOK, Instant
<1>4. CASE now < reference + Observation
  <2>1. Polled("observe")
    <3>1. CASE CaptureFails BY <3>1, FailedPoll DEF IInv
    <3>2. CASE Until(Work) /\ Taken(TRUE, TRUE) /\ Abort("session_closed_early")
      BY <3>2, EndedPoll, Codes DEF IInv
    <3>3. CASE now' \in (now + 1)..Work /\ Taken(FALSE, TRUE) /\ Go("observe")
      <4>1. now' \in (now + 1)..Work /\ now \in Nat /\ Work \in Nat
        BY <3>3, Numbers DEF IInv, TypeOK
      <4>2. now' \in Nat /\ now <= now' /\ now' <= Work BY <4>1
      <4> QED BY <3>3, <4>2, GoodPoll DEF IInv
    <3> QED BY <1>4, <3>1, <3>2, <3>3 DEF Observe
  <2>2. TypeOK' /\ SnapshotOK' BY <1>1, <1>2, <2>1, PolledKeeps DEF Driving, IInv, TypeOK
  <2>3. DriverOK' BY <1>1, <2>1 DEF IInv, DriverOK, Polled, Broken, deviceVars, endVars, Driving
  <2>4. PlayOK'
    <3>1. now' \in Nat /\ now <= now' /\ now \in Nat
          /\ (at' = "refresh" \/ (at' = "observe" /\ UNCHANGED <<failure, condition>>))
      BY <2>1 DEF Polled, Broken, IInv, TypeOK
    <3>2. UNCHANGED <<scenario, initialEnd, secondEnd, reference, observed>> BY <1>1 DEF playVars
    <3>3. (initialEnd # None => initialEnd <= now') /\ (secondEnd # None => secondEnd <= now')
          /\ reference <= now'
      BY <1>2, <3>1 DEF IInv, TypeOK, PlayOK, Instant
    <3>4. LastUtteranceEnd' = LastUtteranceEnd BY <3>2 DEF LastUtteranceEnd
    <3>5. at \in Playing /\ at \notin Conditional BY <1>1 DEF Playing, Driving, Conditional
    <3> QED BY <1>1, <1>2, <3>1, <3>2, <3>3, <3>4, <3>5
            DEF IInv, PlayOK, Playing, Driving, Conditional, Observing
  <2>5. FindingOK' BY <1>1, <2>1 DEF IInv, PlayOK, FindingOK, Polled, Broken, Playing, Driving
  <2> QED BY <2>2, <2>3, <2>4, <2>5 DEF IInv
<1>5. CASE ~(now < reference + Observation)
  <2>1. Go("last") /\ UNCHANGED <<now, evidenceVars>> BY <1>5 DEF Observe
  <2>2. at' = "last" /\ UNCHANGED <<failure, condition>> BY <2>1 DEF Go
  <2>3. TypeOK'
    BY <1>1, <2>1, <2>2 DEF IInv, TypeOK, Stages, deviceVars, evidenceVars, playVars,
       endVars
  <2>4. SnapshotOK' BY <1>2, <2>1, <2>2, QuietKeeps DEF Driving, IInv, TypeOK
  <2>5. DriverOK' BY <1>1, <2>1, <2>2 DEF IInv, DriverOK, deviceVars, evidenceVars, endVars, Driving
  <2>6. PlayOK'
    BY <1>1, <1>3, <1>5, <2>1, <2>2 DEF IInv, TypeOK, PlayOK, playVars, LastUtteranceEnd,
       Instant,
                      Playing, Driving, Conditional, Observing
  <2>7. FindingOK' BY <1>1, <2>2 DEF IInv, PlayOK, FindingOK, Playing, Driving
  <2> QED BY <2>3, <2>4, <2>5, <2>6, <2>7 DEF IInv
<1> QED BY <1>4, <1>5

\* What has passed since an instant, at least a given time ago.
LEMMA Elapsed ==
    ASSUME NEW a \in Nat, NEW b \in Nat, NEW c \in Nat, b + c <= a
    PROVE  a - b \in Nat /\ a - b >= c /\ a = b + (a - b)
OBVIOUS

\* The last snapshot is the one the observation is measured by.
LEMMA LastKeeps == ASSUME IInv, Last PROVE IInv'
<1>1. Polled("refresh") /\ at = "last" BY Captured DEF IInv, Last, Capture
<1>2. UNCHANGED <<scenario, deviceVars, playVars, endVars, voice>> BY DEF Last, endVars
<1>3. reference \in Nat /\ reference = LastUtteranceEnd /\ reference + Observation <= now
      /\ condition = TRUE /\ initialEnd # None /\ failure = None /\ observed = None
  BY <1>1 DEF IInv, TypeOK, PlayOK, Instant, Observing, Playing, Driving
<1>4. observed' = IF failure' = None THEN now' - reference ELSE None BY <1>3 DEF Last
<1>5. now \in Nat /\ now' \in Nat /\ now <= now' BY <1>1 DEF Polled, IInv, TypeOK
<1>6. now' - reference \in Nat /\ now' - reference >= Observation /\ now' = reference + (now' - reference)
  <2>1. reference + Observation <= now' BY <1>3, <1>5, Numbers
  <2>2. reference \in Nat /\ now' \in Nat /\ Observation \in Nat BY <1>3, <1>5, Numbers
  <2> QED BY <2>1, <2>2, Elapsed
<1>7. TypeOK' /\ SnapshotOK'
  <2>1. observed' \in Instant BY <1>4, <1>6 DEF Instant
  <2> QED BY <1>1, <1>2, <2>1, PolledKeeps DEF Playing, Driving
<1>8. at' = "refresh" BY <1>1 DEF Polled, Broken
<1>9. DriverOK' BY <1>1, <1>2, <1>8 DEF IInv, DriverOK, deviceVars, endVars, Driving
<1>10. PlayOK'
  BY <1>2, <1>5, <1>8 DEF IInv, TypeOK, PlayOK, playVars, Instant, Playing, Driving,
     Conditional, Observing
<1>11. FindingOK'
  <2>1. ASSUME failure' = None
        PROVE  /\ snapshot' # None /\ ~snapshot'.stopped /\ snapshot'.at = now' /\ now' <= Work
               /\ condition' = TRUE
    BY <1>1, <1>3, <2>1 DEF Polled, Broken, Answered
  <2>2. failure' = None => observed' # None /\ LastUtteranceEnd' = reference /\ reference # None
    BY <1>2, <1>3, <1>4, <1>6, Something DEF LastUtteranceEnd, playVars
  <2> QED BY <1>2, <1>3, <1>4, <1>6, <1>8, <2>1, <2>2 DEF FindingOK, playVars
<1> QED BY <1>7, <1>9, <1>10, <1>11 DEF IInv

LEMMA RefreshKeeps == ASSUME IInv, Refresh PROVE IInv'
<1>1. TypeOK'
  <2>1. now' \in Nat /\ at' \in Stages
    BY Numbers, Limits, InTime, TooLate DEF IInv, TypeOK, Refresh, Stages, Abort, Go,
       RefreshFails
  <2>2. failure' \in {None} \cup Failures /\ condition' \in {None} \cup BOOLEAN
    BY Codes DEF IInv, TypeOK, Refresh, RefreshFails, Judged, Failures
  <2>3. driver' \in {"none", "late", "ready", "stuck", "disposed"} /\ owned' \in {"no", "asked", "yes"}
        /\ held' \in BOOLEAN
    BY DEF IInv, TypeOK, Refresh, deviceVars
  <2>4. cutOff' \in BOOLEAN BY DEF IInv, TypeOK, Refresh, Abort, deviceVars
  <2>5. scenario' = scenario /\ known' \in BOOLEAN /\ snapshot' \in {None} \cup Snapshot
        /\ asked' \in {None} \cup Request
    <3>1. CASE \E stopped, paced \in BOOLEAN: Taken(stopped, paced)
      BY <3>1, <2>1, TakenSays DEF Refresh
    <3>2. CASE RefreshFails
      <4>1. asked' = [at |-> now', ok |-> FALSE] /\ snapshot' = None /\ known' = known /\ scenario' = scenario
        BY <3>2 DEF RefreshFails, Refresh
      <4>2. asked' \in Request BY <4>1, <2>1 DEF Request
      <4> QED BY <4>1, <4>2 DEF IInv, TypeOK
    <3>3. CASE UNCHANGED evidenceVars BY <3>3 DEF evidenceVars, Refresh, IInv, TypeOK
    <3> QED BY <3>1, <3>2, <3>3 DEF Refresh
  <2>6. initialEnd' \in Instant /\ secondEnd' \in Instant /\ reference' \in Instant
        /\ observed' \in Instant /\ cleanupAt' \in Instant
    BY <2>1 DEF IInv, TypeOK, Instant, Refresh, playVars, endVars
  <2>7. released' \in BOOLEAN /\ usage' \in BOOLEAN /\ voice' \in BOOLEAN
    BY DEF IInv, TypeOK, Refresh, endVars
  <2> QED BY <2>1, <2>2, <2>3, <2>4, <2>5, <2>6, <2>7 DEF IInv, TypeOK
<1>2. DriverOK'
  BY Something DEF IInv, TypeOK, DriverOK, SnapshotOK, Failures, Driving, Playing,
     Conditional, Observing, Ending, Refresh, RefreshFails, Judged, Smaller, deviceVars,
     evidenceVars, playVars, endVars
<1>3. SnapshotOK'
  BY <1>1, Numbers, Limits, Something, InTime, TooLate, TakenSays, NotTakenSays DEF IInv,
     DriverOK, SnapshotOK, PlayOK, FindingOK, TypeOK, Stages, Snapshot, Request, Instant,
     Failures, Driving, Playing, Conditional, Observing, Ending, Refresh, RefreshFails,
     Judged, Smaller, deviceVars, evidenceVars, playVars, endVars
<1>4. PlayOK'
  BY <1>1, Numbers, Limits, Something, InTime, TooLate, TakenSays, NotTakenSays DEF IInv,
     PlayOK, LastUtteranceEnd, TypeOK, Stages, Snapshot, Request, Instant, Failures,
     Driving, Playing, Conditional, Observing, Ending, Refresh, RefreshFails, Judged,
     Smaller, deviceVars, evidenceVars, playVars, endVars
<1>5. FindingOK'
  BY <1>1, Numbers, Limits, Something, InTime, TooLate, TakenSays, NotTakenSays DEF IInv,
     SnapshotOK, PlayOK, FindingOK, LastUtteranceEnd, TypeOK, Stages, Snapshot, Request,
     Instant, Failures, Driving, Playing, Conditional, Observing, Ending, Refresh,
     RefreshFails, Judged, Smaller, deviceVars, evidenceVars, playVars, endVars
<1> QED BY <1>1, <1>2, <1>3, <1>4, <1>5 DEF IInv

LEMMA EvidenceKeeps == ASSUME IInv, Evidence PROVE IInv'
<1>1. TypeOK'
  <2>1. now' \in Nat /\ at' \in Stages
    BY Numbers, Limits, InTime, TooLate DEF IInv, TypeOK, Evidence, Stages, Abort, Go
  <2>2. failure' \in {None} \cup Failures /\ condition' \in {None} \cup BOOLEAN
    BY DEF IInv, TypeOK, Evidence, OrElse, Unmeasured, Failures
  <2>3. driver' \in {"none", "late", "ready", "stuck", "disposed"} /\ owned' \in {"no", "asked", "yes"}
        /\ held' \in BOOLEAN
    BY DEF IInv, TypeOK, Evidence, deviceVars
  <2>4. cutOff' \in BOOLEAN BY DEF IInv, TypeOK, Evidence, Abort, deviceVars
  <2>5. scenario' = scenario /\ known' \in BOOLEAN /\ snapshot' \in {None} \cup Snapshot
        /\ asked' \in {None} \cup Request
    BY <2>1, TakenSays DEF IInv, TypeOK, Evidence, evidenceVars
  <2>6. initialEnd' \in Instant /\ secondEnd' \in Instant /\ reference' \in Instant
        /\ observed' \in Instant /\ cleanupAt' \in Instant
    BY <2>1 DEF IInv, TypeOK, Instant, Evidence, playVars, endVars
  <2>7. released' \in BOOLEAN /\ usage' \in BOOLEAN /\ voice' \in BOOLEAN
    BY DEF IInv, TypeOK, Evidence, endVars
  <2> QED BY <2>1, <2>2, <2>3, <2>4, <2>5, <2>6, <2>7 DEF IInv, TypeOK
<1>2. DriverOK'
  BY Something DEF IInv, TypeOK, DriverOK, SnapshotOK, Failures, Driving, Playing,
     Conditional, Observing, Ending, Evidence, OrElse, Unmeasured, Smaller, deviceVars,
     evidenceVars, playVars, endVars
<1>3. SnapshotOK'
  BY <1>1, Numbers, Limits, Something, InTime, TooLate, TakenSays, NotTakenSays DEF IInv,
     DriverOK, SnapshotOK, PlayOK, FindingOK, TypeOK, Stages, Snapshot, Request, Instant,
     Failures, Driving, Playing, Conditional, Observing, Ending, Evidence, OrElse,
     Unmeasured, Smaller, deviceVars, evidenceVars, playVars, endVars
<1>4. PlayOK'
  BY <1>1, Numbers, Limits, Something, InTime, TooLate, TakenSays, NotTakenSays DEF IInv,
     PlayOK, LastUtteranceEnd, TypeOK, Stages, Snapshot, Request, Instant, Failures,
     Driving, Playing, Conditional, Observing, Ending, Evidence, OrElse, Unmeasured,
     Smaller, deviceVars, evidenceVars, playVars, endVars
<1>5. FindingOK'
  BY <1>1, Numbers, Limits, Something, InTime, TooLate, TakenSays, NotTakenSays DEF IInv,
     SnapshotOK, PlayOK, FindingOK, LastUtteranceEnd, TypeOK, Stages, Snapshot, Request,
     Instant, Failures, Driving, Playing, Conditional, Observing, Ending, Evidence,
     OrElse, Unmeasured, Smaller, deviceVars, evidenceVars, playVars, endVars
<1> QED BY <1>1, <1>2, <1>3, <1>4, <1>5 DEF IInv

LEMMA CleanupIsTimed == ASSUME TypeOK, cleanupAt # None PROVE CleanupLimit \in Nat
<1>1. cleanupAt \in Nat BY DEF TypeOK, Instant
<1>2. Deadline - Disposal \in Nat /\ cleanupAt + Reserve - Disposal \in Nat BY <1>1, Numbers
<1> QED BY <1>2 DEF CleanupLimit, Smaller

LEMMA CleanupKeeps == ASSUME IInv, Cleanup PROVE IInv'
<1>1. TypeOK'
  <2>1. now' \in Nat /\ at' \in Stages
    BY CleanupIsTimed, InTime, TooLate DEF IInv, TypeOK, FindingOK, Cleanup, Stages
  <2>2. failure' \in {None} \cup Failures /\ condition' \in {None} \cup BOOLEAN
    BY DEF IInv, TypeOK, Cleanup, OrElse, Failures
  <2>3. driver' \in {"none", "late", "ready", "stuck", "disposed"} /\ owned' \in {"no", "asked", "yes"}
        /\ held' \in BOOLEAN
    BY DEF IInv, TypeOK, Cleanup, deviceVars
  <2>4. cutOff' \in BOOLEAN BY DEF IInv, TypeOK, Cleanup, Abort, deviceVars
  <2>5. scenario' = scenario /\ known' \in BOOLEAN /\ snapshot' \in {None} \cup Snapshot
        /\ asked' \in {None} \cup Request
    BY <2>1, TakenSays DEF IInv, TypeOK, Cleanup, evidenceVars
  <2>6. initialEnd' \in Instant /\ secondEnd' \in Instant /\ reference' \in Instant
        /\ observed' \in Instant /\ cleanupAt' \in Instant
    BY <2>1 DEF IInv, TypeOK, Instant, Cleanup, playVars, endVars
  <2>7. released' \in BOOLEAN /\ usage' \in BOOLEAN /\ voice' \in BOOLEAN
    BY DEF IInv, TypeOK, Cleanup, endVars
  <2> QED BY <2>1, <2>2, <2>3, <2>4, <2>5, <2>6, <2>7 DEF IInv, TypeOK
<1>2. DriverOK'
  BY Something DEF IInv, TypeOK, DriverOK, SnapshotOK, Failures, Driving, Playing,
     Conditional, Observing, Ending, Cleanup, OrElse, CleanupLimit, Smaller, deviceVars,
     evidenceVars, playVars, endVars
<1>3. SnapshotOK'
  BY <1>1, Numbers, Limits, Something, InTime, TooLate, TakenSays, NotTakenSays DEF IInv,
     DriverOK, SnapshotOK, PlayOK, FindingOK, TypeOK, Stages, Snapshot, Request, Instant,
     Failures, Driving, Playing, Conditional, Observing, Ending, Cleanup, OrElse,
     CleanupLimit, Smaller, deviceVars, evidenceVars, playVars, endVars
<1>4. PlayOK'
  <2>1. at' = "dispose" /\ UNCHANGED <<scenario, playVars>> BY DEF Cleanup
  <2>2. now' \in Nat /\ now <= now'
    BY CleanupIsTimed, InTime, TooLate DEF IInv, TypeOK, FindingOK, Cleanup
  <2> QED BY <2>1, <2>2 DEF IInv, TypeOK, PlayOK, playVars, Instant, Playing, Driving, Conditional, Observing
<1>5. FindingOK'
  BY <1>1, Numbers, Limits, Something, InTime, TooLate, TakenSays, NotTakenSays DEF IInv,
     SnapshotOK, PlayOK, FindingOK, LastUtteranceEnd, TypeOK, Stages, Snapshot, Request,
     Instant, Failures, Driving, Playing, Conditional, Observing, Ending, Cleanup,
     OrElse, CleanupLimit, Smaller, deviceVars, evidenceVars, playVars, endVars
<1> QED BY <1>1, <1>2, <1>3, <1>4, <1>5 DEF IInv

LEMMA DisposeKeeps == ASSUME IInv, Dispose PROVE IInv'
<1>1. TypeOK'
  <2>1. now' \in Nat /\ at' \in Stages
    BY Numbers, Limits, InTime, TooLate DEF IInv, TypeOK, Dispose, Stages, Abort, Go
  <2>2. failure' \in {None} \cup Failures /\ condition' \in {None} \cup BOOLEAN
    BY DEF IInv, TypeOK, Dispose, OrElse, Closing, Failures
  <2>3. driver' \in {"none", "late", "ready", "stuck", "disposed"} /\ owned' \in {"no", "asked", "yes"}
        /\ held' \in BOOLEAN
    BY DEF IInv, TypeOK, Dispose, deviceVars
  <2>4. cutOff' \in BOOLEAN BY DEF IInv, TypeOK, Dispose, Abort, deviceVars
  <2>5. scenario' = scenario /\ known' \in BOOLEAN /\ snapshot' \in {None} \cup Snapshot
        /\ asked' \in {None} \cup Request
    BY <2>1, TakenSays DEF IInv, TypeOK, Dispose, evidenceVars
  <2>6. initialEnd' \in Instant /\ secondEnd' \in Instant /\ reference' \in Instant
        /\ observed' \in Instant /\ cleanupAt' \in Instant
    BY <2>1 DEF IInv, TypeOK, Instant, Dispose, playVars, endVars
  <2>7. released' \in BOOLEAN /\ usage' \in BOOLEAN /\ voice' \in BOOLEAN
    BY DEF IInv, TypeOK, Dispose, DisposalFails, endVars
  <2> QED BY <2>1, <2>2, <2>3, <2>4, <2>5, <2>6, <2>7 DEF IInv, TypeOK
<1>2. DriverOK'
  BY Something DEF IInv, TypeOK, DriverOK, SnapshotOK, Failures, Driving, Playing,
     Conditional, Observing, Ending, Dispose, OrElse, Closing, DisposalFails, deviceVars,
     evidenceVars, playVars, endVars
<1>3. SnapshotOK'
  BY <1>1, Numbers, Limits, Something, InTime, TooLate, TakenSays, NotTakenSays DEF IInv,
     DriverOK, SnapshotOK, PlayOK, FindingOK, TypeOK, Stages, Snapshot, Request, Instant,
     Failures, Driving, Playing, Conditional, Observing, Ending, Dispose, OrElse,
     Closing, DisposalFails, deviceVars, evidenceVars, playVars, endVars
<1>4. PlayOK'
  BY <1>1, Numbers, Limits, Something, InTime, TooLate, TakenSays, NotTakenSays DEF IInv,
     PlayOK, LastUtteranceEnd, TypeOK, Stages, Snapshot, Request, Instant, Failures,
     Driving, Playing, Conditional, Observing, Ending, Dispose, OrElse, Closing,
     DisposalFails, deviceVars, evidenceVars, playVars, endVars
<1>5. FindingOK'
  BY <1>1, Numbers, Limits, Something, InTime, TooLate, TakenSays, NotTakenSays DEF IInv,
     SnapshotOK, PlayOK, FindingOK, LastUtteranceEnd, TypeOK, Stages, Snapshot, Request,
     Instant, Failures, Driving, Playing, Conditional, Observing, Ending, Dispose,
     OrElse, Closing, DisposalFails, deviceVars, evidenceVars, playVars, endVars
<1> QED BY <1>1, <1>2, <1>3, <1>4, <1>5 DEF IInv

LEMMA Stutters == ASSUME IInv, UNCHANGED vars PROVE IInv'
BY DEF vars, deviceVars, evidenceVars, playVars, endVars, IInv, TypeOK, DriverOK,
   SnapshotOK, PlayOK, FindingOK, LastUtteranceEnd

LEMMA Inductive == IInv /\ [Next]_vars => IInv'
BY AcquireKeeps, LateDriverKeeps, PrepareKeeps, StartKeeps, LateStartKeeps, FirstKeeps,
   InitialKeeps, ConditionKeeps, RemoteKeeps, WaitKeeps, SecondKeeps, PlanKeeps,
   ObserveKeeps, LastKeeps, RefreshKeeps, EvidenceKeeps, CleanupKeeps, DisposeKeeps,
   Stutters DEF Next

LEMMA Invariance == Spec => []IInv
BY Initially, Inductive, PTL DEF Spec
-----------------------------------------------------------------------------
\* The last snapshot of a result is the answer to the last request for one, or there
\* was no time left to ask again (executeTrial's refresh after a failure).
THEOREM SnapshotCorrect == Spec => []SnapshotIsTheLast
<1>1. IInv => SnapshotIsTheLast
  BY DEF IInv, SnapshotOK, SnapshotIsTheLast, Ending, Playing, Driving
<1> QED BY <1>1, Invariance, PTL

\* What a result calls released is free: its browser is disposed and the server
\* holds no session of it, unless a start was given up before it asked.
THEOREM ReleaseCorrect == Spec => []ReleasedIsFree
<1>1. IInv => ReleasedIsFree BY DEF IInv, DriverOK, ReleasedIsFree
<1> QED BY <1>1, Invariance, PTL

\* parseRecordedResult accepts every result executeTrial returns, and the analysis
\* counts every completed one, whatever the limits and however late the timers.
THEOREM ResultsAreRecordable == Spec => []Recordable
<1>1. IInv => Recordable
  <2> SUFFICES ASSUME IInv, at = "over" PROVE Parses /\ (Completed => ObservationCounts)
    BY DEF Recordable
  <2>1. cleanupAt # None /\ cleanupAt \in Nat /\ cleanupAt <= now /\ now \in Nat
    BY DEF IInv, TypeOK, FindingOK, Instant
  <2>2. snapshot # None => snapshot.at <= now BY DEF IInv, SnapshotOK
  <2>3. ASSUME Completed
        PROVE  /\ snapshot # None /\ ~snapshot.stopped /\ snapshot.paced /\ snapshot.at <= Work
               /\ observed # None /\ observed >= Observation /\ condition = TRUE
               /\ LastUtteranceEnd # None /\ initialEnd # None
               /\ snapshot.at = LastUtteranceEnd + observed /\ snapshot.at <= cleanupAt
               /\ (PcmRequired => voice) /\ now <= Deadline /\ released /\ usage
               /\ (scenario = "normal" => secondEnd = None)
    BY <2>3 DEF Completed, IInv, FindingOK, PlayOK, Playing, Driving
  <2>4. ASSUME Completed
        PROVE  /\ snapshot.at - LastUtteranceEnd >= Observation
               /\ LastUtteranceEnd + observed <= cleanupAt
    <3>1. LastUtteranceEnd \in Nat /\ observed \in Nat /\ snapshot.at \in Nat
      BY <2>3, <2>4 DEF IInv, TypeOK, Instant, LastUtteranceEnd, Snapshot
    <3> QED BY <2>1, <2>3, <2>4, <3>1, Numbers
  <2>5. Parses BY <2>1, <2>2, <2>3, <2>4 DEF Parses, IInv, PlayOK
  <2>6. Completed => ObservationCounts
    BY <2>1, <2>3, <2>4 DEF ObservationCounts, GoalJudged, Completed
  <2> QED BY <2>5, <2>6
<1> QED BY <1>1, Invariance, PTL
=============================================================================
