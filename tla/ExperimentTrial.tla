--------------------------- MODULE ExperimentTrial ---------------------------
(***************************************************************************)
(* One trial of an experiment: executeTrial (scripts/run-experiments.ts)    *)
(* against its browser driver, under one deadline, and the result it        *)
(* returns, which parseRecordedResult (packages/experiments/                *)
(* runner-model.ts) must accept or the paid trial is lost.                  *)
(*                                                                          *)
(* Time is counted from the beginning of the trial in coarse units; a timer *)
(* may fire up to Lag late, and an operation that was given up may still    *)
(* take effect.                                                             *)
(***************************************************************************)
EXTENDS Naturals

CONSTANTS Deadline,     \* RUN_RULES.trialMaxMs
          Reserve,      \* RUN_RULES.cleanupReserveMs
          Margin,       \* no measurements are read this close to the deadline
          Disposal,     \* what the cleanup leaves to the disposal of the browser
          Observation,  \* RUN_RULES.observationMs
          RemoteWait,   \* RUN_RULES.remoteActiveWaitMs
          Lag,
          PcmRequired,  \* the manifest names the measured contract
          None

ASSUME TrialAssumption ==
    /\ {Deadline, Reserve, Margin, Disposal, Observation, RemoteWait, Lag} \subseteq Nat
    /\ Disposal < Margin /\ Margin < Reserve /\ Reserve < Deadline
    /\ PcmRequired \in BOOLEAN

Failures == {"trial_timeout", "condition_unmet", "session_closed_early", "driver_failed",
             "step_interval_mismatch", "snapshot_invalid", "pcm_contract_invalid",
             "pcm_evidence_unavailable", "cleanup_unconfirmed"}

VARIABLES
    now, at,
    scenario,       \* how the second utterance is timed
    driver,         \* none, late (its creation was given up), ready, stuck or disposed
    owned,          \* what the driver knows of its session
    held,           \* history: the server holds a session of this trial
    cutOff,         \* history: start() was given up before it asked for a session
    snapshot,       \* the last snapshot taken, or None
    known,          \* runId has been seen
    failure, condition,
    initialEnd, secondEnd, reference, observed,
    cleanupAt, released, usage, voice,
    asked           \* history: the last request for a snapshot

deviceVars == <<driver, owned, held, cutOff>>
evidenceVars == <<snapshot, known, asked>>
playVars == <<initialEnd, secondEnd, reference>>
endVars == <<cleanupAt, released, usage>>
vars == <<now, at, scenario, deviceVars, evidenceVars, failure, condition,
          playVars, observed, endVars, voice>>

Work == Deadline - Reserve
Stages == {"acquire", "configure", "idle", "start", "first", "reconfigure", "initial",
           "condition", "remote", "wait", "second", "plan", "observe", "last",
           "refresh", "evidence", "cleanup", "dispose", "over"}
Snapshot == [at: Nat, stopped: BOOLEAN, paced: BOOLEAN]
Request == [at: Nat, ok: BOOLEAN]
Instant == {None} \cup Nat

ASSUME NoneAssumption == None \notin Nat \cup BOOLEAN \cup Failures \cup Snapshot \cup Request

Init ==
    /\ now = 0 /\ at = "acquire"
    /\ scenario \in {"normal", "boundary", "remote"}
    /\ driver = "none" /\ owned = "no" /\ held = FALSE /\ cutOff = FALSE
    /\ snapshot = None /\ known = FALSE /\ asked = None
    /\ failure = None
    /\ condition = IF scenario = "normal" THEN TRUE ELSE None
    /\ initialEnd = None /\ secondEnd = None /\ reference = None /\ observed = None
    /\ cleanupAt = None /\ released = FALSE /\ usage = FALSE /\ voice = FALSE
-----------------------------------------------------------------------------
(* bounded: an operation ends in time, fails in time, or is given up *)

Until(limit) == now < limit /\ now' \in now..limit

\* The timer, or an answer that came after the deadline, or no time left at all.
GivenUp(limit) ==
    IF now < limit THEN now' \in limit..(limit + Lag) ELSE now' = now

Smaller(a, b) == IF a < b THEN a ELSE b

\* failureCode ??= code
OrElse(code) == IF failure = None THEN code ELSE failure

Abort(code) ==
    /\ at' = "refresh" /\ failure' = code
    /\ condition' = IF code = "condition_unmet" THEN FALSE ELSE condition

Go(stage) == at' = stage /\ UNCHANGED <<failure, condition>>

\* An operation that only moves the trial on, fails, or takes too long.
Operation(stage, next) ==
    /\ at = stage
    /\ \/ Until(Work) /\ Go(next)
       \/ Until(Work) /\ Abort("driver_failed")
       \/ GivenUp(Work) /\ Abort("trial_timeout")
-----------------------------------------------------------------------------
(* Up to the first utterance *)

Acquire ==
    /\ at = "acquire"
    /\ \/ Until(Work) /\ Go("configure") /\ driver' = "ready"
       \/ Until(Work) /\ Abort("driver_failed") /\ driver' = "none"
       \/ GivenUp(Work) /\ Abort("trial_timeout") /\ driver' \in {"late", "ready"}
    /\ UNCHANGED <<scenario, owned, held, cutOff, evidenceVars, playVars, observed, endVars, voice>>

\* Mutated form: the late continuation takes the driver over.
LateDriverAdopted ==
    /\ driver = "late" /\ driver' = "ready"
    /\ UNCHANGED <<now, at, scenario, owned, held, cutOff, evidenceVars, failure, condition,
                   playVars, observed, endVars, voice>>

\* The continuation of a creation that was given up: it disposes what it got.
LateDriver ==
    /\ driver = "late" /\ driver' = "disposed"
    /\ UNCHANGED <<now, at, scenario, owned, held, cutOff, evidenceVars, failure, condition,
                   playVars, observed, endVars, voice>>

Prepare ==
    /\ \/ Operation("configure", "idle")
       \/ Operation("idle", "start")
       \/ Operation("reconfigure", "initial")
    /\ UNCHANGED <<scenario, deviceVars, evidenceVars, playVars, observed, endVars, voice>>

\* The browser's start(): the session is asked for, then its run is read.
Start ==
    /\ at = "start"
    /\ \/ Until(Work) /\ Go("first") /\ owned' = "yes" /\ held' = TRUE /\ UNCHANGED cutOff
       \/ /\ \/ Until(Work) /\ Abort("driver_failed")
             \/ GivenUp(Work) /\ Abort("trial_timeout")
          /\ \/ owned' = "no" /\ UNCHANGED held /\ cutOff' = (failure' = "trial_timeout")
             \/ owned' \in {"asked", "yes"} /\ held' \in BOOLEAN /\ UNCHANGED cutOff
    /\ UNCHANGED <<scenario, driver, evidenceVars, playVars, observed, endVars, voice>>

\* A start that was given up goes on in the page until the browser is gone.
LateStart ==
    /\ \/ cutOff /\ owned = "no" /\ owned' = "asked" /\ held' \in BOOLEAN
       \/ owned = "asked" /\ owned' = "yes" /\ held' = held
    /\ driver = "ready" /\ at \notin {"start", "over"}
    /\ UNCHANGED <<now, at, scenario, driver, cutOff, evidenceVars, failure, condition,
                   playVars, observed, endVars, voice>>

\* recordSnapshot of a good answer; a wrong mode or run counts as a failed request.
Taken(stopped, paced) ==
    /\ snapshot' = [at |-> now', stopped |-> stopped, paced |-> paced]
    /\ known' = TRUE
    /\ asked' = [at |-> now', ok |-> TRUE]

NotTaken ==
    /\ asked' = [at |-> now', ok |-> FALSE]
    /\ UNCHANGED <<snapshot, known>>

CaptureFails ==
    /\ \/ Until(Work) /\ Abort("driver_failed")
       \/ GivenUp(Work) /\ Abort("trial_timeout")
    /\ NotTaken

\* capture: a session that has ended is an early end, with the snapshot kept.
Capture(stage, next) ==
    /\ at = stage
    /\ \/ CaptureFails
       \/ Until(Work) /\ \E paced \in BOOLEAN: Taken(TRUE, paced) /\ Abort("session_closed_early")
       \/ Until(Work) /\ \E paced \in BOOLEAN: Taken(FALSE, paced) /\ Go(next)

First ==
    /\ Capture("first", "reconfigure")
    /\ UNCHANGED <<scenario, deviceVars, playVars, observed, endVars, voice>>

Initial ==
    /\ Operation("initial", IF scenario = "normal" THEN "plan" ELSE "condition")
    /\ IF at' = "refresh" THEN UNCHANGED playVars
       ELSE initialEnd' = now' /\ reference' = now' /\ UNCHANGED secondEnd
    /\ UNCHANGED <<scenario, deviceVars, evidenceVars, observed, endVars, voice>>
-----------------------------------------------------------------------------
(* The condition of the second utterance, and the observation *)

ConditionDeadline ==
    IF scenario = "boundary" THEN Work ELSE Smaller(Work, reference + RemoteWait)

\* One turn of the loop up to the end of its capture.
Condition ==
    /\ at = "condition"
    /\ IF now >= ConditionDeadline
       THEN Abort("condition_unmet") /\ UNCHANGED <<now, evidenceVars>>
       ELSE IF scenario = "remote" THEN Capture("condition", "remote")
       ELSE \/ Capture("condition", "second")
            \/ Capture("condition", "wait")
            \* six crates arrived without the boundary having been met
            \/ Until(Work) /\ Taken(FALSE, TRUE) /\ Abort("condition_unmet")
    /\ UNCHANGED <<scenario, deviceVars, playVars, observed, endVars, voice>>

Remote ==
    /\ at = "remote"
    /\ \/ Until(ConditionDeadline) /\ (Go("second") \/ Go("wait") \/ Abort("driver_failed"))
       \/ GivenUp(ConditionDeadline)
          /\ Abort(IF ConditionDeadline < Work THEN "condition_unmet" ELSE "trial_timeout")
    /\ UNCHANGED <<scenario, deviceVars, evidenceVars, playVars, observed, endVars, voice>>

Wait ==
    /\ at = "wait"
    /\ IF now >= ConditionDeadline
       THEN Abort("condition_unmet") /\ UNCHANGED now
       ELSE now' = now + 1 /\ Go("condition")
    /\ UNCHANGED <<scenario, deviceVars, evidenceVars, playVars, observed, endVars, voice>>

Second ==
    /\ at = "second"
    /\ \/ Until(Work) /\ at' = "plan" /\ condition' = TRUE /\ UNCHANGED failure
          /\ secondEnd' = now' /\ reference' = now' /\ UNCHANGED initialEnd
       \/ /\ \/ Until(Work) /\ failure' = "driver_failed"
             \/ GivenUp(Work) /\ failure' = "trial_timeout"
          /\ at' = "refresh" /\ condition' = TRUE /\ UNCHANGED playVars
    /\ UNCHANGED <<scenario, deviceVars, evidenceVars, observed, endVars, voice>>

Fits == reference + Observation <= Work

Plan ==
    /\ at = "plan"
    /\ IF Fits THEN Go("observe") ELSE Abort("trial_timeout")
    /\ UNCHANGED <<now, scenario, deviceVars, evidenceVars, playVars, observed, endVars, voice>>

\* The loop, each turn with its sleep.
Observe ==
    /\ at = "observe"
    /\ IF now < reference + Observation
       THEN \/ CaptureFails
            \/ Until(Work) /\ Taken(TRUE, TRUE) /\ Abort("session_closed_early")
            \/ now' \in (now + 1)..Work /\ Taken(FALSE, TRUE) /\ Go("observe")
       ELSE Go("last") /\ UNCHANGED <<now, evidenceVars>>
    /\ UNCHANGED <<scenario, deviceVars, playVars, observed, endVars, voice>>

Last ==
    /\ Capture("last", "refresh")
    /\ observed' = IF failure' = None THEN now' - reference ELSE observed
    /\ UNCHANGED <<scenario, deviceVars, playVars, endVars, voice>>
-----------------------------------------------------------------------------
(* finally *)

\* The steps are judged once the observation is complete.
Judged == IF failure = None /\ snapshot # None /\ ~snapshot.paced
          THEN "step_interval_mismatch" ELSE failure

\* Mutated form: a failed last request keeps the older snapshot.
RefreshFailsKeeping ==
    /\ failure' \in {"driver_failed", "trial_timeout", "snapshot_invalid"}
    /\ asked' = [at |-> now', ok |-> FALSE]
    /\ UNCHANGED <<snapshot, known>>

RefreshFails ==
    /\ failure' \in {"driver_failed", "trial_timeout", "snapshot_invalid"}
    /\ asked' = [at |-> now', ok |-> FALSE]
    /\ snapshot' = None /\ UNCHANGED known

Refresh ==
    /\ at = "refresh" /\ at' = "evidence"
    /\ IF driver = "ready" /\ Judged # None /\ known /\ now < Work
       THEN LET limit == Smaller(Work, now + 1) IN
            \/ Until(limit) /\ failure' = Judged /\ \E stopped, paced \in BOOLEAN: Taken(stopped, paced)
            \/ (Until(limit) \/ GivenUp(limit)) /\ RefreshFails
       ELSE failure' = Judged /\ UNCHANGED <<now, evidenceVars>>
    /\ UNCHANGED <<scenario, deviceVars, condition, playVars, observed, endVars, voice>>

\* Mutated form: a trial without measurements may count.
UnmeasuredAllowed(code) == code

\* The contract is checked after the reading, whether there was one or not.
Unmeasured(code) ==
    IF PcmRequired /\ ~voice' /\ code = None THEN "pcm_evidence_unavailable" ELSE code

Evidence ==
    /\ at = "evidence" /\ at' = "cleanup"
    /\ IF driver = "ready" /\ now < Deadline - Margin
       THEN LET limit == Smaller(Deadline - Margin, now + 1) IN
            \/ Until(limit) /\ voice' = TRUE
               /\ failure' \in {failure, OrElse("pcm_contract_invalid")}
            \/ Until(limit) /\ voice' = FALSE /\ failure' = Unmeasured(failure)
            \/ Until(limit) /\ voice' = FALSE /\ failure' = "pcm_contract_invalid"
            \/ (Until(limit) \/ GivenUp(limit)) /\ voice' = FALSE
               /\ failure' = OrElse("pcm_evidence_unavailable")
       ELSE UNCHANGED <<now, voice>> /\ failure' = Unmeasured(failure)
    /\ cleanupAt' = now'
    /\ UNCHANGED <<scenario, deviceVars, evidenceVars, condition, playVars, observed, released, usage>>

CleanupLimit == Smaller(Deadline - Disposal, cleanupAt + Reserve - Disposal)

\* The browser's cleanup(): nothing was asked for, or the run of this driver is
\* stopped and the page ready again; a run it does not know it cannot release.
Cleanup ==
    /\ at = "cleanup" /\ at' = "dispose"
    /\ IF driver # "ready"
       THEN UNCHANGED <<now, failure, released, usage, held>>
       ELSE \/ /\ Until(CleanupLimit) /\ owned = "yes"
               /\ released' = TRUE /\ held' = FALSE /\ usage' \in BOOLEAN /\ UNCHANGED failure
            \/ /\ Until(CleanupLimit) /\ owned # "yes"
               /\ released' = (owned = "no") /\ usage' = FALSE /\ UNCHANGED <<held, failure>>
            \/ /\ Until(CleanupLimit) \/ GivenUp(CleanupLimit)
               /\ failure' = OrElse("cleanup_unconfirmed") /\ UNCHANGED <<released, usage, held>>
    /\ UNCHANGED <<scenario, driver, owned, cutOff, evidenceVars, condition, playVars, observed,
                   voice, cleanupAt>>

DisposalFails == released' = FALSE

\* What is still wrong after everything: too long, not released, no final usage.
Closing(code) ==
    IF code # None THEN code
    ELSE IF now' > Deadline THEN "trial_timeout"
    ELSE IF ~released' \/ ~usage THEN "cleanup_unconfirmed" ELSE None

Dispose ==
    /\ at = "dispose" /\ at' = "over"
    /\ IF driver # "ready"
       THEN UNCHANGED <<now, released, driver>> /\ failure' = Closing(failure)
       ELSE \/ /\ Until(Deadline) /\ driver' = "disposed" /\ UNCHANGED released
               /\ failure' = Closing(failure)
            \/ /\ Until(Deadline) \/ GivenUp(Deadline)
               /\ driver' = "stuck" /\ DisposalFails
               /\ failure' = Closing(OrElse("cleanup_unconfirmed"))
    /\ UNCHANGED <<scenario, owned, held, cutOff, evidenceVars, condition, playVars, observed, voice,
                   cleanupAt, usage>>

Next ==
    \/ Acquire \/ LateDriver \/ Prepare \/ Start \/ LateStart \/ First \/ Initial
    \/ Condition \/ Remote \/ Wait \/ Second \/ Plan \/ Observe \/ Last
    \/ Refresh \/ Evidence \/ Cleanup \/ Dispose

Spec == Init /\ [][Next]_vars
-----------------------------------------------------------------------------
(* The result, and what a recorded result must be like *)

TypeOK ==
    /\ now \in Nat /\ at \in Stages
    /\ scenario \in {"normal", "boundary", "remote"}
    /\ driver \in {"none", "late", "ready", "stuck", "disposed"}
    /\ owned \in {"no", "asked", "yes"} /\ held \in BOOLEAN /\ cutOff \in BOOLEAN
    /\ snapshot \in {None} \cup Snapshot /\ known \in BOOLEAN /\ asked \in {None} \cup Request
    /\ failure \in {None} \cup Failures /\ condition \in {None} \cup BOOLEAN
    /\ initialEnd \in Instant /\ secondEnd \in Instant /\ reference \in Instant
    /\ observed \in Instant /\ cleanupAt \in Instant
    /\ released \in BOOLEAN /\ usage \in BOOLEAN /\ voice \in BOOLEAN

Completed == failure = None
GoalJudged == snapshot # None /\ condition = TRUE /\ observed # None
LastUtteranceEnd == IF scenario = "normal" THEN initialEnd ELSE secondEnd

\* parseRecordedResult for a result that is not interrupted (the interrupted one
\* is RunStore's).
Parses ==
    /\ cleanupAt # None
    /\ snapshot # None => snapshot.at <= now
    /\ initialEnd # None => initialEnd <= now
    /\ secondEnd # None => initialEnd # None /\ initialEnd <= secondEnd /\ secondEnd <= now
    /\ Completed =>
         /\ snapshot # None /\ ~snapshot.stopped
         /\ observed # None /\ observed >= Observation
         /\ now <= Deadline /\ condition = TRUE /\ released /\ usage
         /\ PcmRequired => voice
         /\ LastUtteranceEnd # None /\ snapshot.at - LastUtteranceEnd >= Observation
         /\ LastUtteranceEnd + observed <= cleanupAt
         /\ scenario = "normal" => secondEnd = None

\* actionObservationCompleted: what the analysis counts as an observation.
ObservationCounts ==
    /\ failure \in {None, "cleanup_unconfirmed"}
    /\ snapshot # None /\ ~snapshot.stopped /\ snapshot.paced
    /\ GoalJudged /\ observed >= Observation
    /\ LastUtteranceEnd # None /\ initialEnd # None
    /\ snapshot.at - LastUtteranceEnd >= Observation /\ snapshot.at <= Work
    /\ LastUtteranceEnd + observed <= cleanupAt
    /\ PcmRequired => voice

\* Every result a trial returns is accepted when it is recorded, and a completed
\* one counts as an observation: no paid trial is lost to its own bookkeeping.
Recordable == at = "over" => Parses /\ (Completed => ObservationCounts)

\* A trial after which the runner goes on has left nothing behind: the server
\* holds no session of it and its browser is disposed, or will be by the late
\* continuation.  (A start that was given up before it asked is the exception:
\* nothing stops it from asking until the browser is gone.)
ReleasedIsFree ==
    at = "over" => /\ driver # "ready"
                   /\ released => driver = "disposed" /\ (held => cutOff)

\* The snapshot of a result is the answer to the last request there was; a last
\* request that failed while there was time leaves no snapshot at all.
SnapshotIsTheLast ==
    at = "over" /\ snapshot # None =>
        \/ asked.ok /\ asked.at = snapshot.at
        \/ ~asked.ok /\ asked.at >= Work

=============================================================================
