------------------------------- MODULE Release -------------------------------
(***************************************************************************)
(* deployRelease (packages/deployment/release.ts) over the operations of    *)
(* scripts/deploy-verified.ts: drain the running revision, put the new      *)
(* image in its place, verify it, admit sessions again; and when one of     *)
(* these fails, the way back.  Every operation but the update is one        *)
(* maintenance command of module Maintenance, issued and awaited.           *)
(***************************************************************************)
EXTENDS Maintenance

CONSTANTS Candidate, CandidateCommit,   \* what is to be released
          Repository,                   \* images of the candidate's repository
          Patience                      \* health checks before the deadline of waitHealthy

ASSUME ReleaseAssumption ==
    /\ Candidate \in Image /\ Candidate \in Repository
    /\ Repository \subseteq Image
    /\ Patience \in Nat
    \* Some image is built from the commit, the candidate or another.
    /\ CandidateCommit \in {CommitOf(image): image \in Image}

VARIABLES
    at,         \* the operation deployRelease awaits
    previous,   \* the healthy release it began with, and its commit
    selected,   \* the target its next pinned command names
    patience,   \* what is left of the current waitHealthy
    outcome,    \* how deployRelease ended
    seen,       \* history: the process that answered when it selected its target
    drained,    \* history: the process of the last drain it relied on
    verified    \* history: revisions whose health it proved

releaseVars == <<at, previous, selected, patience, outcome>>
historyVars == <<seen, drained, verified>>
vars == <<platformVars, meddling, operatorVars, releaseVars, historyVars>>

Stages == {"health", "drain", "update", "verify", "resume",
           "status", "redrain", "restore", "reverify", "reopen", "over"}
Outcomes == {"invalid_release", "drain_failed", "released",
             "rolled_back", "rollback_failed", "foreign_image"}
ASSUME OutcomeAssumption == None \notin Outcomes

Init ==
    /\ MaintenanceInit
    /\ at = "health" /\ outcome = None
    /\ previous = None /\ selected = None /\ patience = 0
    /\ seen = 0 /\ drained = [boot |-> 0, revision |-> 0, image |-> None]
    /\ verified = {}

\* The command each stage issues, with the pins of releaseOperations.
Command ==
    CASE at = "health" -> Asking("health", None, None, None)
      [] at = "status" -> Asking("status", None, None, None)
      [] at \in {"drain", "redrain"} -> Asking("drain", selected.revision, selected.image, None)
      [] at = "verify" -> Asking("health", None, Candidate, CandidateCommit)
      [] at = "reverify" -> Asking("health", None, previous.image, previous.commit)
      [] at \in {"resume", "reopen"} -> Asking("resume", selected.revision, selected.image, None)

Issue ==
    /\ at \notin {"update", "restore", "over"}
    /\ call = None
    /\ call' = Command
    /\ UNCHANGED <<platformVars, meddling, client, stray, releaseVars, historyVars>>

Over(result) == at' = "over" /\ outcome' = result

\* Mutated form: a failed update opens the old revision again at once.
FailedReopens ==
    \/ at = "health" /\ Over("invalid_release")
    \/ at = "drain" /\ Over("drain_failed")
    \/ at \in {"update", "verify", "resume"} /\ at' = "reopen" /\ outcome' = None
    \/ at \in {"status", "redrain", "restore", "reverify", "reopen"} /\ Over("rollback_failed")

\* What a failed operation leads to: the first ones end the release, the forward
\* ones begin the way back, and on the way back nothing may fail.
Failed ==
    \/ at = "health" /\ Over("invalid_release")
    \/ at = "drain" /\ Over("drain_failed")
    \/ at \in {"update", "verify", "resume"} /\ at' = "status" /\ outcome' = None
    \/ at \in {"status", "redrain", "restore", "reverify", "reopen"} /\ Over("rollback_failed")

\* Mutated form: whatever runs now is rolled back.
ForeignIgnored(image) == FALSE

\* An image that is neither the candidate nor the previous one is left alone.
Foreign(image) == image \notin {Candidate, previous.image}

\* Mutated form: a resume whose answer was lost is taken to have worked.
ConfirmedUnlessLost ==
    call.code = "ok" \/ (at \in {"resume", "reopen"} /\ call.code = "transport")

\* What releaseOperations and deployRelease look at again in a result.
Confirmed ==
    /\ call.code = "ok"
    /\ at \in {"drain", "redrain"} => call.state.draining /\ ~call.state.active
    /\ at \in {"resume", "reopen"} => ~call.state.draining
    /\ at = "verify" => call.target.image = Candidate /\ call.health = CandidateCommit
    /\ at = "reverify" => call.target.image = previous.image /\ call.health = previous.commit

Succeeded ==
    /\ Confirmed
    /\ \/ /\ at = "health"
          /\ previous' = [revision |-> call.target.revision, image |-> call.target.image,
                          commit |-> call.health]
          /\ selected' = call.target
          /\ IF call.target.image \in Repository
             THEN at' = "drain" /\ UNCHANGED outcome
             ELSE Over("invalid_release")
          /\ seen' = call.boot
          /\ UNCHANGED <<patience, drained, verified>>
       \/ /\ at \in {"drain", "redrain"}
          /\ at' = IF at = "drain" THEN "update" ELSE "restore"
          /\ drained' = [boot |-> call.boot, revision |-> call.target.revision,
                         image |-> call.target.image]
          /\ UNCHANGED <<previous, selected, patience, outcome, seen, verified>>
       \/ /\ at \in {"verify", "reverify"}
          /\ at' = IF at = "verify" THEN "resume" ELSE "reopen"
          /\ selected' = call.target
          /\ verified' = verified \cup {call.target.revision}
          /\ UNCHANGED <<previous, patience, outcome, seen, drained>>
       \/ /\ at \in {"resume", "reopen"}
          /\ Over(IF at = "resume" THEN "released" ELSE "rolled_back")
          /\ UNCHANGED <<previous, selected, patience, historyVars>>
       \/ /\ at = "status"
          /\ selected' = call.target
          /\ IF Foreign(call.target.image)
             THEN Over("foreign_image")
             ELSE at' = "redrain" /\ UNCHANGED outcome
          /\ seen' = call.boot
          /\ UNCHANGED <<previous, patience, drained, verified>>

\* Mutated form: every failure of a health check is waited out, for ever.
RetriesForever == at \in {"verify", "reverify"} /\ call.code # "ok"

\* waitHealthy asks again after a failure that may pass, while it has time.
Retries == at \in {"verify", "reverify"} /\ call.code \in RetryableCodes /\ patience > 0

Await ==
    /\ call # None /\ call.stage = "done"
    /\ call' = None
    /\ \/ Succeeded
       \/ /\ Retries
          /\ patience' = IF patience = 0 THEN 0 ELSE patience - 1
          /\ UNCHANGED <<at, previous, selected, outcome, historyVars>>
       \/ /\ ~Confirmed /\ ~Retries
          /\ Failed
          /\ UNCHANGED <<previous, selected, patience, historyVars>>
    /\ UNCHANGED <<platformVars, meddling, client, stray>>

\* updateImage: the CLI hands the image to ARM and does not wait.  When the CLI
\* fails or is killed, ARM may have the update, get it later, or never.
Update ==
    /\ at \in {"update", "restore"}
    /\ LET image == IF at = "update" THEN Candidate ELSE previous.image IN
       \/ /\ rollout' = Accepted(image)
          /\ at' = IF at = "update" THEN "verify" ELSE "reverify"
          /\ patience' = Patience
          /\ UNCHANGED <<late, outcome>>
       \/ /\ \/ UNCHANGED <<rollout, late>>
             \/ rollout' = Accepted(image) /\ UNCHANGED late
             \/ late' = late \cup {image} /\ UNCHANGED rollout
          /\ Failed
          /\ UNCHANGED patience
    /\ UNCHANGED <<process, meddling, operatorVars, previous, selected, historyVars>>

Controller == Issue \/ Await \/ Update

Next ==
    \/ Controller
    \/ (Platform \/ Replica \/ Operator) /\ UNCHANGED <<releaseVars, historyVars>>

Spec == Init /\ [][Next]_vars

\* Every wait of the scripts has a limit: the promise of a call settles, and its
\* continuation runs.  Of the platform nothing is assumed.
Fairness == WF_vars(Controller) /\ WF_vars(Operator /\ UNCHANGED <<releaseVars, historyVars>>)

FairSpec == Spec /\ Fairness
-----------------------------------------------------------------------------
TypeOK ==
    /\ MaintenanceTypeOK
    /\ at \in Stages
    /\ previous = None \/ previous \in [revision: 1..MaxBoot, image: Image,
                                        commit: {CommitOf(i): i \in Image}]
    /\ selected = None \/ selected \in Target
    /\ patience \in 0..Patience
    /\ outcome \in {None} \cup Outcomes /\ (outcome # None <=> at = "over")
    /\ seen \in 0..MaxBoot
    /\ drained \in [boot: 0..MaxBoot, revision: 0..MaxBoot, image: {None} \cup Image]
    /\ verified \subseteq 1..MaxBoot

\* Between a drain the controller relied on and its next command to resume, the
\* process that was drained runs no session as long as its gate is closed: the
\* update that stops it cuts nobody.  (release.ts:45-49 and 62-64; the gate is
\* memory of one process, and somebody else or a slow command may open it.)
DrainedStaysIdle ==
    at \in {"update", "verify", "restore", "reverify"} /\ drained.boot = process.boot /\ process.draining
        => ~process.active

\* A command of the controller opens a closed gate only in a revision whose
\* health this release has proved, of the image and the commit it asked for; so a
\* failed first drain is never reopened, however late its commands arrive.
OpensOnlyVerified ==
    [][(process.draining /\ ~process'.draining /\ process'.boot = process.boot /\ meddling' = meddling)
        => /\ process.revision \in verified
           /\ \/ process.image = Candidate /\ CommitOf(Candidate) = CandidateCommit
              \/ process.image = previous.image]_vars

\* What an update puts an end to is of an image the controller knows, and was drained
\* since it selected its target, in the process that answered then or a later one of
\* that revision: unless a process became ready after the drain.  Nothing looks again
\* between the drain and the update (release.ts:42-45, 61-63), so that one is replaced
\* whatever it is and whoever it serves.
ReplacesWhatItDrained ==
    at \in {"update", "restore"} =>
        /\ drained.revision = selected.revision /\ drained.boot >= seen
        /\ process.image \in {Candidate, previous.image} \/ process.boot > drained.boot

\* A release reported as done, either way, left its revision admitting sessions,
\* with the image it reports, unless somebody has deployed or will.
OutcomeHolds ==
    outcome \in {"released", "rolled_back"} /\ process.revision = selected.revision
        => /\ ~process.draining
           /\ process.image = IF outcome = "released" THEN Candidate ELSE previous.image

\* Every release ends.
Finishes == <>(at = "over")
=============================================================================
