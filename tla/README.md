# Verification of voice-action-lab

TLA+ models of the parts of voice-action-lab that keep state across calls,
awaits, messages and restarts, model-checked with TLC on small instances, with
TLAPS proofs of the results that matter for every instance.  All paths below
are relative to the repository root (`src/` here).

Reproduce, from this directory:

    tlc -workers 2 -config MCGameEngine.cfg MCGameEngine
    tlapm GameEngineProofs.tla
    tlapm SessionServerProofs.tla
    tlapm DelegatedWorkProofs.tla
    tlapm RunStoreProofs.tla
    tlapm ExperimentTrialProofs.tla
    tlapm ReleaseProofs.tla
    tlapm LabClientProofs.tla
    tlapm AudioMeasurementProofs.tla

`PROJECT.json` lists every run with its module, configuration and properties,
every theorem, the source lines behind each definition, and the hazards of the
code with the properties that cover them.

## 1. The system

A browser speaks to a voice service over WebRTC.  A small server holds the one
session there may be at a time, receives what the service delegates over a
"sideband" socket, and lets a deterministic cargo game execute it.  The
experiment asks what a spoken cancellation does to work that is queued or
running, so the repository also has a measuring browser client, an experiment
runner that persists trials, and deployment tooling that replaces the server
only while no session runs.

### Inventory

| Component (source) | State it keeps | Operations | What is hard, and what makes it correct |
|---|---|---|---|
| Game engine (`packages/game-engine/index.ts`, `packages/contracts/index.ts`) | cargo, operations, delegations, call receipts, epoch, barrier, pacing, log | `registerDelegation`, `dispatch`, `tick`, `stop`, `snapshot` | retries and late calls around a cancellation; nothing stale is admitted, nothing runs twice, FIFO service, paced steps, a log that explains the state |
| Action metrics (`packages/experiments/metrics.ts`) | none (one pass over the log) | `deriveActionMetrics` | infers from event order what the engine knows; must agree with it, also after a stop |
| Session server (`apps/server/app.ts`) | the run, its phase, controller, connection, buffered events, limits; status; browser sockets | begin, create, ready, activity, command, stop, close, timer, service events, shutdown | every await is a window for a stop, a timeout or a shutdown; one reservation, released always, never revived |
| Live gateway (`apps/server/gateway.ts`) | deferred attach, socket, close in progress, report | `open`, `attach`, `send`, `close`, `terminate`, socket callbacks | handshake against abort, close timeout against `session.closed` and loss; no orphan socket, usage confirmed only when reported |
| Delegated work (`apps/server/app.ts` 214-311, `protocol.ts`) | backendPending, completed responses, executed calls, continuations | service events while connected | duplicated and reordered events, two delegations interleaved; each call once, one continuation per response |
| Maintenance gate and listener (`packages/deployment/gate.ts`, `listener.ts`) | draining | drain, resume, status | "draining and not active" must be a fact and remain one |
| Maintenance client and release (`packages/deployment/client.ts`, `release.ts`, `scripts/deploy-verified.ts`) | phase of a release, deadline | drain, update, verify, resume, roll back | partial failure, a replaced process forgets it was draining |
| Runner store (`scripts/run-experiments.ts`, `packages/experiments/runner-model.ts`) | manifest, lock, starts, evidence, results on disk | create, resume, record, recover | a crash between any two steps; every trial has one result |
| Trial (`scripts/run-experiments.ts`, `experiment-browser.ts`) | driver, deadline, snapshots, failure | one trial with timeouts and cleanup | a driver that arrives after the deadline; a failed last snapshot |
| Schedule and aggregation (`packages/experiments/schedule.ts`, `aggregation.ts`, `output-path.ts`) | none | pure | balance of the schedule, counts of the summary |
| PCM meter and evidence (`apps/web/src/pcmWindow.ts`, `audioMeasurement*.ts`, `packages/experiments/pcm.ts`) | window, hysteresis, generation, gaps | process, reset; inspect | rounding that must not accumulate, samples of an old generation |
| Browser client (`apps/web/src/useLab.ts`, `audioActivity.ts`, `webrtc.ts`, `api.ts`) | generation, peer, microphone, last state | start, connect, stop, end, command, feed | stop racing every await of a start; answers and pushed states in any order |
| Local recording and files (`useLocalRecording.ts`, `localSession.ts`, `serverExport.ts`) | recorder, chunks | start, stop, save, load | recorder callbacks after a stop |
| Exports (`apps/server/exports.ts`, `export-store.ts`) | stored blobs | create, read, delete | an export while the next run begins |
| Authentication, configuration, UI, repository scripts, infrastructure | no protocol state | - | validation and presentation |

How they interact: the browser calls the server over HTTP and listens on an
event socket; the server calls the gateway and gets service events by callback;
service events become engine calls in the same synchronous step; one interval
timer ticks the engine and enforces the limits; an operator reaches the gate
through the loopback listener; the runner drives a browser, and the metrics read
the engine's log from what the browser exports.

## 2. The models

| Module | Models | Proofs |
|---|---|---|
| `ActionQueue` | abstract: numbered jobs served oldest first, fences retire them | refined by `GameEngine` |
| `GameEngine` | `GameEngine` class and the contracts | `GameEngineProofs` |
| `ActionMetrics` | `deriveActionMetrics`, over the engine's own log | `GameEngineProofs` |
| `SessionReservation` | abstract: one reservation, admitted only while open, always released | refined by `SessionServer` (safety half proved, the rest TLC) |
| `LiveConnection` | the gateway's connection, as operators on a record | - |
| `SessionServer` | `app.ts` with its awaits, over `LiveConnection`, the gate and the listener | `SessionServerProofs` |
| `DelegatedWork` | the connected half of `onServiceEvent` with `completedTool`, over `GameEngine` | `DelegatedWorkProofs` |
| `Maintenance` | one maintenance command: operator script, command in the replica, platform | by `ReleaseProofs` |
| `Release` | `deployRelease` and `deploy-verified`, over `Maintenance` | `ReleaseProofs` |
| `SlotLedger` | abstract: every planned trial is begun once and settled once | refined by `RunStore` |
| `RunStore` | the runner process over its directory of records | `RunStoreProofs` |
| `ExperimentTrial` | `executeTrial` with its driver and deadline, and `parseRecordedResult` | `ExperimentTrialProofs` |
| `AudioMeasurement` | the PCM meter, the worklet, the page's monitor, and `inspect` of the evidence | `AudioMeasurementProofs` |
| `LabClient` | `useLab`: `connectLive`, `startSimulation`, `end`, the state feed | `LabClientProofs` |
| `MC*` | constant values, symmetry and a view only | - |

### GameEngine

Variables are the private fields of the class: `operations`, `delegations`,
`calls`, `epoch`, `stopped`, `barrier` (`#cancellationBarrierMs`), `lastStepAt`,
`events`; `cargo`, `mode` and `now` are the state of the snapshot and the host
clock.  Calls are synchronous, so each method outcome is one action:

* `registerDelegation`: `RegisterDelegation`, `RepeatRegistration` (idempotent),
  `RefuseDelegation`; `RegistrationRefusal` tests conditions in source order.
* `dispatch`: `DispatchMove`, `DispatchReplace` (cancels first, then queues under
  the new epoch), `DispatchCancel`, `DispatchRefused` (remembered as a receipt),
  `DispatchInvalid` (not remembered), `ReplayReceipt`.
* `tick`: `Tick` commits at most one step; `TickReturns` is its early return.
* `stop`: `Stop`.  `AdvanceClock` is the host's clock.

Text is abstracted: a refusal is the class `metrics.ts` tells apart.  The
consecutive `operation.cancelled` events of one command are one log entry that
names all its operations; ids are positions.

### SessionServer and LiveConnection

JavaScript runs to completion between awaits, so an action is the code between
two awaits.  A run is a record that outlives its closing, because its handlers
may still resume: `opening` and `readying` are the program counters of `POST
/api/session` and `POST /api/session/ready`, `closer` that of `closePromise`.
`Run` keeps `phase`, `linked` (`connection`), `aborted` (`controller`), the
buffered events, and `conn`, the record `LiveConnection` operates on.  `OpenFails`
... `OpenResumes` are the creation handler, `Ready` ... `HandlerReturns` the
readiness handler, `CloserRuns` and `CloserFinishes` the two halves of
`closeRun`, `ServiceCloses`, `BufferEvent`, `HandleEvent`, `SocketLost` the
socket callbacks, `TimerTick` the interval timer, `Drain`, `StatusRequest`,
`Resume` the listener, `Shutdown` the `onClose` hook.

`EventClasses` reduces a service event to what it does to the run: it makes it
busy, it counts as activity, or it ends it.  `busy` stands for
`backendPending.size > 0` or unfinished operations.  A shutdown is never undone:
the process exits after it.

### DelegatedWork

`SessionServer` keeps of a service event only its effect; this module has the
protocol behind it.  It EXTENDS `GameEngine`, because the handler calls the engine
in its own synchronous step: an arriving event is one action that changes the
handler's sets and performs the engine's `registerDelegation` or `dispatch`
(`Dispatched` is `dispatch` in all its outcomes).  `backendPending`,
`completedResponses`, `executed` (`current.calls`) and `continuations` are the run's
fields, `outputs` and `creates` what was sent to the service.

The service is external and modelled from how the handler uses it: it opens its
session between the creation request and its answer (`requestAt`, `origin`), creates
delegations with a valid, missing or invalid offset, begins responses, asks for
tools, completes, and begins a continuation once it has all outputs and a
`response.create`, which names no delegation.  `wire` delivers in order and as late
as it likes.  `SaysAgain` repeats any earlier event.  A send that throws, an exceeded
limit and a failed response make `phase` "failing": the caller's last act is then
`closeRun`, so nothing but `Close` follows.  What `Close` leaves behind is never read
again and is reset, except the engine's own state, which the export still reads.

A completion may come without a valid response id (`responses[r].named` is FALSE): the
check for duplicates and the limit at `app.ts:266-274` are then skipped, but the end of
the handler is not, so `UnnamedCompletionArrives` continues the delegation or ends its
work like any other (`EndOfResponse`) and remembers nothing.  `heard` is history: the
responses whose completion was acted on, named or not, which is what `AnsweredOnce` and
`ContinuedOnce` count.  Left out are events without a valid `delegation_id`: all they can
do is to have a completion's response id remembered (and, at the limit, to end the run, as
a failure does), and a completion of that response that does name its delegation would
then be taken for a duplicate: the service is taken to name it in all or none of them.

### Maintenance and Release

`Maintenance` is one command on its way.  `process` is the server process of the
ready revision with its gate (`draining`) and whether a session runs; `rollout` the
image of a template whose revision is not ready yet, `late` the updates a lost CLI
call may still deliver to ARM, `meddling` what the world outside may still do.  `call`
is `runAzureMaintenance` as its caller awaits it: `Discover` is `discoverTarget`,
`Exec` opens the socket, `ReadLine` with `Verified` is `OutputVerifier.append`,
`SocketCloses` its `complete`.  `client` is the command inside the replica:
`AfterStatus` is one turn of `runMaintenanceCommand`'s loop with what the CLI prints,
`HealthChecked` is `checkRuntimeHealth`.  A command whose operator left may run on as
a member of `stray`, and then nobody reads what it prints.

`Release` EXTENDS it: `at` is the operation `deployRelease` awaits, `Command` the
command `deploy-verified` issues for it, `Await` the code after an `await`
(`Succeeded`, `Retries` of `waitHealthy`, `Failed` with the way back), `Update` the
CLI call that hands an image to ARM.  `seen`, `drained` and `verified` are history: which
process answered when the controller selected its target, which process the last drain it
relied on was of, and which revisions it proved healthy.

### RunStore and SlotLedger

`run` holds the runner processes with what each has read of the directory; `lock`,
`manifest`, `starts`, `evidence` and `results` are the files; `trials` is history.
`writeExclusiveArtifact` is two steps, `Prepares` (temporary file) and the `*Linked`
action of the record (hard link), so a process can die between them; a link that
finds a record fails the runner (`Fails`).  `Opens`, `Initializes`, `Reads`, `Interrupts`,
`Settled`, `Picks`, `Runs`, `Closes` are `openRunStore`, `initialize`, `records`,
`recoverInterruptedSlots`, the loop of `runExperiment`, `executeTrial` and `close`.
`LockRemoved` is the person who removes a lock that was left behind, without being
sure that its owner is dead.  `SlotLedger` is what the directory promises; a slot of
the ledger is a start and the word of its result.

### ExperimentTrial

`at` is the statement `executeTrial` awaits, `now` the time since the trial began.
`Until` and `GivenUp` are the outcomes of `bounded`: in time, or given up at the limit
or up to `Lag` later, with the operation perhaps still taking effect (`LateDriver`,
`LateStart`).  `driver`, `owned` and `held` tell what exists of the browser, of what it
knows of its session, and of the server's reservation.  `Judged`, `Unmeasured` and
`Closing` are the last checks in their order.  `Parses` is `parseRecordedResult`, and
`ObservationCounts` is `actionObservationCompleted`, both over the same variables.

### AudioMeasurement

Times are frame numbers.  `meter` is `PcmWindowMeter` of all directions (`Judge` is its
hysteresis, `WindowEnd` its rounding), `gate` the worklet's `enabled`, `generation` and
`failed`, `gates` and `port` the two directions of its message port, `monitor` and
`log` the page's side.  `Process` handles the frames up to the end of a window, or
half of them; `Skip` lets frames pass unseen.  `SetActive`, `Receive`, `Notified` and
`Dispose` are the monitor's.  `Inspected` is `inspect`: `Read` over the recorded events,
a recursive function, with `BadTransition`, `Voided` and `Near` for its checks.

### LabClient

`attempts` are the calls of `connectLive`: where each waits, its token, its request;
`simulation` is the call of `startSimulation`, `ending` the work of `end()`.
`generation`, `locked`, `phase`, `liveAttempt` and `observed` are the refs of the hook,
`resources` and `streams` the media, `shown` the state last applied.  `BeginEnd` is the
synchronous half of `end`, `EndWork`, `GraceExpires` and `Finish` the rest.
`MicrophoneGranted` ... `Attached` are the continuations of `connectLive`, `Overtaken`
those that find their token old, `Fail` its catch.  The server is reduced to what the
page can tell of it (`Serve*`, `ServerCloses`, `Release`); `SessionServer` is its model.

### Mutated forms

The models contain **mutated forms** beside a definition (`RefusalIgnoringBarrier`
beside `RegistrationRefusal`, and so on).  No specification uses them.  Each is the
definition with a plausible bug; with it in place TLC must find the property
named in `PROJECT.json` violated, which shows that the property can tell.

## 3. What the runs check

| Run | Instance | What it shows |
|---|---|---|
| `engine_fences` | 2 delegations, 3 calls, move right, replace to the left, cancel; clock 0..1; track of 2 steps | `PendingIsCurrent`, `FifoService`, `CurrentDelegationsAreFresh`, `ReceiptsMatchWork`, `NoStaleAdmission`, `LogExplainsState` |
| `engine_time` | pacing 2, 2 calls, both modes, one refusal, fair ticks | `PacedSteps`; `MetricsMatchEngine`: the metrics computed from the log agree with the engine that wrote it; every admitted operation ends; the engine refines `ActionQueue` |
| `session_races` | 2 consecutive runs (live or simulated), 2 browser sockets, 2 buffered events | status, sockets, usage, drain and closing under every interleaving |
| `work_protocol` | 2 delegations, 3 responses, 2 calls, limits 2 and 2, 2 events in flight, 1 extra event (a completion without an id among them, which is not repeated here), clock 0..1 | `AnsweredOnce`, `ContinuedOnce`, `BusyWhileWorking`: each call is answered once and each response continued once whatever else is repeated, and work in progress holds the idle clock; `NoStaleWork`: the move of a delegation truly created before a cancellation is never pending, whatever the delay and whether or not its offset is attested |
| `work_quiet` | 1 call that may be said again | violated: see below |
| `session_progress` | 2 runs, fairness, nobody watching | runs end, handlers answer, the server refines `SessionReservation` (with its liveness) |
| `release` | 3 images (one of another repository), 4 processes, 2 outside events, 1 stray command, 1 poll, 1 retry | see below |
| `runner_store` | 3 runners, 2 slots, measurements required | `RunOnce`, `AlwaysReadable`, `CountedWasRun`, and the directory refines `SlotLedger` |
| `trial` | deadline 10, of which 4 for the cleanup; timers up to 1 late; measurements required | `Recordable`, `ReleasedIsFree`, `SnapshotIsTheLast` |
| `browser` | 2 connection attempts, 5 starts and ends, 1 lost request, 2 events | `CleanEndIsFinal`, `SilentUnlessServing` |
| `audio_measurement` | 6 windows at 44125 Hz, 3 switches, 1 gap or failure, 1 partial chunk | `EvidenceIsAccepted`, `WindowsKeepTime` |
| `pcm_fractional` | 9 windows at 11025 Hz, the source's hysteresis (3 and 6) | violated: see below |

What the runs of the deployment, the experiments and the browser show:

* `release`: between a drain it relied on and its next command to resume, the
  process that was drained runs no session while its gate is closed, so the update
  that stops it cuts nobody (`DrainedStaysIdle`); a closed gate is opened by the
  controller, or by a command of its that runs on unheard, only in a revision it has
  verified (`OpensOnlyVerified`); the process an update puts an end to was drained in
  the process that answered when it was selected, or a later one of its revision, and is of
  an image the release knows, unless it became ready after that drain
  (`ReplacesWhatItDrained`; that exception is real, see section 5); a release reported as done, either way, left its revision
  open with the image it reports (`OutcomeHolds`); and every release ends (`Finishes`).
* `runner_store`: no slot is executed twice, whatever dies, fails or runs beside it
  after a lock was removed under its owner (`RunOnce`); the directory is at every
  moment one a runner can read (`AlwaysReadable`); what counts was executed by the
  attempt that began it, and measured (`CountedWasRun`).
* `trial`: every result a trial returns is accepted when it is recorded, and a
  completed one counts as an observation (`Recordable`); a result that says "released"
  leaves nothing behind (`ReleasedIsFree`, with one exception below); a snapshot is
  the answer to the last request there was (`SnapshotIsTheLast`).
* `browser`: after an end reported without an error nothing the page ever asked for
  is running (`CleanEndIsFinal`); the microphone is sent only by the current, attached
  call to a session last told connected, and an overtaken call keeps none
  (`SilentUnlessServing`).
* `audio_measurement`: the record of a monitor that did not fail is evidence `inspect`
  accepts (`EvidenceIsAccepted`), and in an uninterrupted record the windows count the
  time (`WindowsKeepTime`).

Two runs show a disagreement; section 5 has three more that the models allow.

`work_quiet`, with the documentation.  Any `response.event` of a
delegation puts it into `backendPending` before its content is examined
(`app.ts:277`), a repeated tool call too, although that call is then recognised as
executed.  When the repetition arrives after the last response has completed,
nothing takes the delegation out again, and the timer touches the run at every
firing: the session ends only at its ten-minute limit.  `apps/server/README.md:108`
promises that a session without audio or processing closes after 90 seconds, and
lines 147-148 expect repeated calls.

`pcm_fractional`, between the meter and the reader.  At 11025 Hz a window is 220.5
frames; the meter rounds window ends cumulatively, as `apps/web/README.md:60` says and
`pcmWindow.test.ts:36` tests at this rate.  `pcm.ts:235` compares the time since the
last activity with the number of windows times the length of the *last* window, to
0.00013 s.  Six windows are 1323 frames, six times the last one 1320 or 1326: 3
frames are 0.00027 s, every end of activity is flagged `transition_invalid`, and the
evidence is rejected.  At 44125 Hz (882.5 frames) the same difference is
within the tolerance, as `audio_measurement` shows with shorter hysteresis; the
usual rates, 44100 and 48000 Hz, divide.

### Bounds

What the bounds are and why they are enough:

* Three calls give a queue with a running, a queued and a cancelled operation and
  a replay; two delegations give one registered before and one after a
  cancellation.  Two clock instants distinguish "created before or at" from
  "after" the barrier.  A track of two steps has a start, a middle and an end, so
  an operation can be cancelled half way.  Pacing 2 makes early, exact and late
  ticks possible.  `MaxRejections` bounds only the length of the log: refusals
  change nothing else but receipts.
* `CommandsUntil` ends the requests, never the clock that paces pending work, so
  the liveness check is not of a stopped world.
* Two runs are enough for a handler of one run to resume during the next.  Two
  browser sockets distinguish the last one.  Two buffered events can be in either
  order; one more is the limit (50 in the source).  Clocks saturate at their
  limits; the session limit is above the other two, as configuration requires.
* Three responses give two interleaved delegations one of which is continued, or
  one that is continued twice.  The service can ask for more responses than the
  limit allows, so that limit is met; the limit of calls (500, the same test with the
  same way out) is met by no run, three calls being out of TLC's reach here: only the
  proofs speak of it.  An extra event is one that a
  well-behaved service need not send: repeated, malformed, unnamed, failed, or progress
  without content.  One extra event at any moment meets every recognition of
  duplicates; two events in flight let a delegation be created behind a cancellation
  that has not arrived.  The run leaves the audit log out of the states it tells apart
  (`VIEW`): no step and no property of this run depends on it, and `MaxRejections` is
  above what the instance can refuse.
* Release: four processes are the first, the candidate's, the restored one and
  one restart or foreign deployment between any two of them.  Two outside events let
  a restart meet a deployment or a resume of somebody else.  One poll distinguishes a drain that is done at once, later and never;
  one retry of a health check is followed by its timeout.
* Runner: three processes are one that dies, one that resumes and one that is let
  in by a lock removed under it.  Two slots give one that is settled while the other is
  open.  Nothing bounds the number of failures.
* Trial: the unit of time is coarse; what matters is the order of the limits
  (`Disposal < Margin < Reserve < Deadline`, as the rules of the runner have it), that
  the observation and the wait fit before the work's deadline, and that a late timer
  (`Lag`) can pass any of them by one unit.
* Browser: two calls of `connectLive` are one overtaken and one current; five
  starts and ends let a user start, end, start and end again and leave.  One request
  is lost at any of its points; two events happen by themselves (a failing peer, a
  server that closes).
* Measurement: six windows with a hysteresis of 2 and 3 hold a start, a stop and
  the beginning of the next streak, three switches a pause and a resumption.  One direction at a time: both
  are given the same frames and share nothing but the clock, and `inspect` keeps them
  apart.  The rate is chosen so that windows are not whole frames.
* Delegations and calls are interchangeable in the safety runs of the engine
  and the delegated work, runners in that of the store; the liveness runs use no symmetry.

The engine and the server never stop and their runs check for deadlock: an engine
can always be asked for a tick, the gate always answers, and an event of a closed
run is always received (and dropped).  A release that is over, runners that are gone,
a trial that is over, and a page or a measurement whose bounds are used up do stop:
only these five modules' configurations disable the check.

### Fairness

* Engine: `Tick` and the clock.  The host ticks every connected run from an
  interval timer and reads a monotonic clock.  No fairness is assumed of requests.
* Server: resumed handlers, the closer, the timer and the clock are owed by the
  event loop.  `fetch` is limited to 20 s (`gateway.ts:221`), the handshake to 15 s
  (`gateway.ts:266`), a graceful close to `closeTimeoutMs`: one of their outcomes
  must come, the model does not say which.  Nothing is assumed of the service, the
  browser, the operator, or the credential provider, which has no time limit: a
  creation request whose credential never comes is closed by the negotiation limit
  (`EverySessionEnds`) but its own answer is promised only from the fetch on
  (`EveryHandlerAnswers`).
* Release: the controller and the operator's script.  Every wait of theirs has a
  limit, and a promise that settled is continued.  Nothing is assumed of the
  platform, the replica or the listener.
* After a shutdown there is no timer; the shutdown itself closes the current run.

## 4. What is proved

`GameEngineProofs` proves, for every set of delegations, calls and commands, every
track length, pacing and bound, from the named assumptions on the constants in
`GameEngine`:

* `TypeCorrect`: `Spec => []TypeOK`.  `TypeOK` is inductive by itself; one lemma
  per action, `TickHasEffect` states what a tick does for all later proofs.
* `FifoCorrect`: `Spec => []FifoService`.  The served operation is the first
  pending one, so what precedes it has ended; admission appends at the end and
  with the current clock (`AdmissionKeepsOrder`), invalidation only ends
  operations (`InvalidationKeepsOrder`).  It is inductive with types, and needs
  that no admission instant is in the future, which the proof adds.
* `PendingCorrect`: `Spec => []PendingIsCurrent`.  Whatever raises the epoch leaves
  nothing pending but what it admits itself under the new epoch.
* `FreshCorrect`: `Spec => []CurrentDelegationsAreFresh`.  A registration of the
  current epoch is checked against the barrier; whatever raises the barrier raises
  the epoch.
* `ReceiptsCorrect`: `Spec => []ReceiptsMatchWork`.  `Ledger` says it of any
  operations, calls and delegations, so that each of an admission, a refusal, a
  registration and an edit of an operation (`LedgerAdmits`, `LedgerRemembers`,
  `LedgerRegisters`, `LedgerEdited`) is a lemma about data.  It also keeps what
  `DelegatedWorkProofs` needs: the work of a move is of its delegation's epoch.
* `QueueRefinement`: `Spec => ImplementsQueue`.  Every step maps to a step of
  `ActionQueue` or to a stutter (`QueueStep`), the state to the jobs of the
  operations (`JobsOf`) and the set of pending positions.

A second half is about the audit log, a sequence that grows by up to three entries in
one synchronous call.  `Run` is the engine as the log is about it; `RunChanges` shows once
that every step is a sequence of at most three changes, each of one entry (`Explainable`).
Every invariant is then kept change by change, with one lemma per kind of change:

* `PacingCorrect`: `Spec => []PacedSteps`, from `Spaced`: no step in the log is later than
  the engine's `lastStepAt`.
* `LogCorrect`: `Spec => []LogExplainsState`, from `Explained`, which counts entries of
  the log, and `Named`: an entry names operations there are, so a new operation has none.
* `AdmissionCorrect`: `Spec => []NoStaleAdmission`.  `Fenced` is what makes an epoch a
  statement about the log: while the engine runs it is the number of accepted
  cancellations, and a delegation of a later epoch was created after them.
* `MetricsCorrect`: `Spec => []MetricsMatchEngine`, of `ActionMetrics`.  The metrics are a
  recursive function over the log, and nothing can be proved here by induction over a log.
  The induction over steps does not need it: `Passes` says that there is a pass over the
  log and that all of them end with one value, and an appended entry takes one value to
  the next (`Observe`).  `Ahead` and `Worked` relate that value to the engine (`Derived`).

`SessionServerProofs` proves, for any number of runs and watchers and any limits
(with a buffer of at least one event):

* `TypeCorrect`: `Spec => []TypeOK`, including that no buffer of early events
  exceeds its limit.
* `NoOrphanCorrect`: `Spec => []NoOrphanSocket`.
* `DrainCorrect`: `Spec => []DrainHolds`.
* `ClosingCorrect`: `Spec => ClosingIsFinal`, an action property.

All four follow from one inductive invariant, `Inv`.  None of them is inductive:
that a released run has no socket depends on how the closer ended the connection,
on a creation that may still be on its way, and on a handshake whose abort came too
late.  `Inv` says of every run's record (`Good`) that a run not yet linked to its
connection has no socket; that once the closer has run, the creation is aborted and
the connection is `Ending` - it has no socket, or one that its own continuation will
close, or a `close()` that waits for the service or the time limit - and no longer
has one (`Gone`) when the closer is done or gave it up as lost; and of the server
(`Reserved`) that the reservation is held by the one run that has begun and has not
closed.  The proof has three layers: lemmas on the operators of `LiveConnection`
(what each leaves of a well-formed connection); `MovedGood` and the lemmas beside it,
on one record; `RecordKept`, `ClosedRunKept` and one lemma per action, on the server.
`Inv` was checked on the instance of `session_races` before it was proved.

A later section goes on from there, under the same assumptions:

* `StatusCorrect`: `Spec => []StatusTellsTheRun`.
* `FinalUsageCorrect`: `Spec => []FinalUsageIsTheReport`.

What a browser is told is written in a dozen places, before and after awaits.  The
invariant adds to `Inv` a fact about every record (`Fine`): where the creation and the
readiness handler are tells the phase of the run, so a handler that writes a stage
writes it of the run it belongs to; a live run that is connected is `Serving` (attached,
its socket open, nothing closing it); a close that settled says what had been reported
(`Told`), and a run's final usage is the answer its own closer was given.

* `ReservationCorrect`: `Spec => Reservation!Safety`, the safety half of
  `ImplementsReservation`.  The reservation is read off the status and the gate, so every
  step of the server is shown to take, hold or free it, or to leave it alone; that the
  status tells the run (`StatusCorrect`) is what makes a freed one free.  The fairness
  half stays with TLC.

`DelegatedWorkProofs` proves, for every set of delegations and calls, any limits, and a
service that may say anything again at any time, from the assumptions of `GameEngine` and
`HorizonAssumption` (the bounds end the requests before they stop the clock):

* `EngineRefinement`: `WorkSpec => Spec`.  Every step of the session is a step of its
  engine or none, so what is proved of the engine holds inside the session.  What has
  to be shown is that the handler passes only instants of the past: `MappedPast`.
* `AnsweredCorrect`: `WorkSpec => []AnsweredOnce`, whatever is repeated, completions without
  a response id included.
* `NoStaleWorkCorrect`: `WorkSpec => []NoStaleWork`.

The invariant `WInv` speaks of the messages in flight: what the wire holds is so
(`Meant`), and a tool call that was not executed yet is on its way ahead of the completion
of its response (`InOrder`).  The first fact makes a repeated message harmless, the second
is why a completion never overtakes the answers it is about.  `RegisteredOK` ties the
engine's clock to the service's: a registered offset is the true one counted from an
origin that is never later than the service's, or was not attested, and then no
cancellation had been accepted yet.  `NoStaleWork` follows from it with the engine's
`PendingIsCurrent`, `CurrentDelegationsAreFresh` and `Accounts`.

The last section of that module proves, under the same assumptions and one more, that a
completion *without a response id* is not said again (`"unnamed" \notin Repeatable`; it may
be said once, and everything else as often as the service likes).  The hypothesis cannot
be dropped: with `"unnamed"` in `Repeatable`, one delegation and one call, TLC finds a
counterexample to the first (section 5).

* `BusyCorrect`: `WorkSpec => []BusyWhileWorking`.
* `ContinuedCorrect`: `WorkSpec => []ContinuedOnce`.

Neither is about one response: the handler keeps its pending work and its continuations per
delegation, while completions are per response.  That this is enough rests on the order in
which the responses of one delegation are heard of, which `OInv` states.  A response begins
only when the earlier ones of its delegation are complete and asked for something
(`OlderDone`), so nothing of it is heard before their completions arrive (`Sequenced`).
The delegations to continue are then those with an executed call of a response that is
still open (`Continued`), at most one response each; when a completion arrives first, its
delegation is to be continued if and only if that response asked for tools
(`FinishedAsks`), and one that asked for none was the last (`FinishedIsQuiet`).

`RunStoreProofs` proves, for every set of runners, any number of slots and either
contract, from `RunStoreAssumption` and `NoneAssumption`:

* `StoreTypes`: `Spec => []TypeOK`.
* `TrialsRunOnce`: `Spec => []RunOnce`.
* `DirectoryReadable`: `Spec => []AlwaysReadable`.
* `CountedWasExecuted`: `Spec => []CountedWasRun`.
* `StoreRefinement`: `Spec => KeepsLedger`: every step maps to `Begin`, `Settle` or a
  stutter of `SlotLedger`.

None of the three invariants is inductive.  That a slot runs once depends on the
program counter of the runner that owns its start: it is in its trial only while the
start is its own and the slot has not been executed, and afterwards holds a finding
that is complete.  `IInv` is `TypeOK` with `RunnerOK` of every runner (this, that it
works on a slot only after the manifest was there, and that what it read of the results
is still what the files say) and `SlotOK` of every slot (a start before a trial, a
trial before a completed result, evidence before a result that names it, nothing
before the manifest).  `OnlyRunner` carries the steps that
change one process and no record, `ResultKeeps` and `TrialKeeps` those that link a result
or execute a trial; then there is one lemma per action.  The lock is used nowhere in the
proof: exclusion is by the links, the lock only saves a second runner its trouble.

`ExperimentTrialProofs` proves, for every order of the limits that `TrialAssumption`
allows, with or without the measurement, and timers as late as they like:

* `SnapshotCorrect`: `Spec => []SnapshotIsTheLast`.
* `ReleaseCorrect`: `Spec => []ReleasedIsFree`.
* `ResultsAreRecordable`: `Spec => []Recordable`.

`Recordable` is a statement about the last state only; it is inductive with what every
stage of the trial already has in hand: `DriverOK` (the driver is there while it is used,
and what was released is free), `SnapshotOK` (whose answer the snapshot is),
`PlayOK` (the utterances end in order and the observation counts from the last of them)
and `FindingOK` (what a trial without a failure has when its observation is over, which
is what `parseRecordedResult` asks of it).

`ReleaseProofs` proves, for any images and commits, any number of processes, polls,
retries, outside events and commands left running, from `MaintenanceAssumption`,
`ReleaseAssumption` (`Image` holds the candidate and some image of its commit), and
`NoneAssumption` and `OutcomeAssumption` (`None` is no number, call or outcome):

* `TypeCorrect`: `Spec => []TypeOK`.
* `DrainedCorrect`: `Spec => []DrainedStaysIdle`.
* `OpensCorrect`: `Spec => OpensOnlyVerified`, an action property.
* `ReplacesCorrect`: `Spec => []ReplacesWhatItDrained`.
* `OutcomeCorrect`: `Spec => []OutcomeHolds`.

What the controller concludes is about a process it cannot see, told by a command that
runs in it, over a socket that may lag behind both.  `RInv` follows that chain.  A
revision has one image and is older than the processes to come (`Names`), so what was
found once stays so (`Found`); what a command heard is of the process it ran in
(`RanThere`); every line still on the socket is so, and a line that says "closed and
free" is one of a command that has ended, about a process that stays idle while it is
closed (`Listening`).  `Strays` is about the commands without a listener: one that resumes
does so in a verified revision, and a drain is left behind only by a failed drain, which
ends the release.  So between drain and resume nothing of the release closes a gate; others
can only open one (`Calm`), and that is why an idle process stays idle.  The platform, the replica, the
operator and the controller have a lemma per action; `ControllerAside`, `CallAside`,
`ClientAside` and `StraysAside` carry the parts a step does not touch.  `Current` is a
second layer over `RInv`, for `ReplacesCorrect`: a command runs in one process, never an
earlier one than answered before it was issued, so the process that was drained is as late
as the one that was selected, and if it is still the ready one its image is the one found.

`LabClientProofs` proves, for any number of calls and any bounds, from the assumption on
the constants in `LabClient` (`ClientAssumption`):

* `CleanEndCorrect`: `Spec => []CleanEndIsFinal`.
* `SilenceCorrect`: `Spec => []SilentUnlessServing`.

Every continuation of `connectLive` asks whether its token is still the generation.
`Fenced` says what that is worth: at most one call goes on, it owns the media, and nothing
does while an end is at work.  `Captured` adds whose microphone is open, and that what is
sent is sent to a session last told as connected; `Ended` what an end has learned: from its
second stop on everything it overtook is answered, and what the server answered to a stop
is still so.  The first stop alone would not do: a request may be served after it.  The
invariant was checked on the instance of `browser` before it was proved.

`AudioMeasurementProofs` proves, for every bound, any lengths of the hysteresis and one
or two directions, from `MeasurementAssumption` (rates from 8 to 192 kHz) and
`NoneAssumption` (`None` is none of the values it stands beside):

* `TimeCorrect`: `Spec => []WindowsKeepTime`, for every rate.
* `EvidenceCorrect`: `Spec => []EvidenceIsAccepted`, assuming `Exact`: the rate is a
  multiple of 50, or as many frames as a transition has windows are within the tolerance of
  `inspect`.  With the hysteresis of the source (3 and 6) the second holds from 46154 Hz on.
  `Exact` is sufficient, not necessary, but it cannot be left out: `pcm_fractional` is a
  counterexample at 11025 Hz.

Both are about what `inspect` makes of the whole record, a recursive function again: `Reads`
says that `r` is what the reader holds after the record, as `Passes` does for the metrics.
Four parties - worklet, two queues, page - are between a window and its reader, and the
invariants follow it.  `Known` has the generations (the messages to the worklet count on from its
own, nothing on its way back is ahead of it), the windows that abut, and what the monitor
has told the reader.  `Timed` says that a record without a gap is one run of the meter, with an
origin and a first number that every window recorded or under way agrees with.
`Ordered` has the windows in the order of their numbers and times, `Timely` every streak
where the transition will say it began, and `Echoes` that the messages under way take the reader's
hysteresis to the meter's.  That a sample is not refused is then a comparison of two
equal hystereses (`HeardNotRefused`).  `Rounded` and `RoundedRun` are the arithmetic of the
rounding.  These invariants were checked with TLC at 44125 Hz and, with both directions,
at 8050 Hz.

Only model-checked: the liveness properties (`EveryOperationEnds`, `EverySessionEnds`,
`EveryHandlerAnswers`, `Finishes`, the fairness half of `ImplementsReservation`), because
fairness, `ENABLED` and leads-to are outside what the prover handles.  Every invariant and
action property of a passing run is proved.

## 5. Not modelled, and why

Validation and formatting (`config.ts`, `auth.ts`, `credentials.ts`, request
schemas, file formats), UI, check scripts and infrastructure keep no state that
survives a step.  The schedule, the aggregation and the output paths are pure
functions over data whose shape, not order, matters.  The voice service, the browser's
WebRTC stack, the file system's links and the hosting platform are external: they
appear as nondeterministic choices.  Left out of what is modelled:

* `app.ts`: exports (an export taken while the next run begins must still be of the
  closed run, `app.ts:523`).
* `useLab.ts`: `sendCommand`, the reconnection of the feed, playbacks and peer details;
  `audioActivity.ts`: how the monitor is created.  An aborted request that has not
  reached the server is taken never to reach it.  States are applied in the order
  the server had them: `applyState` compares sequences only within one run, so a
  message of an old run that arrives after an answer of the next could be shown.
* The trial: the internals of the browser driver, and `deriveVoiceMetrics`.
* `inspect`: the checks of the clock anchors (`clock_ambiguous`, `pcm.ts:171-173` and `189`)
  and of the age of the last window (line 250, a gap).  The model has one clock, in frames;
  the checks compare two, which are taken to be monotonic.
* Local recording, session files, the demo.

Disagreements between the code and what is said of it that the models allow.  The
properties of section 3 exclude them by name, and TLC shows each when the exclusion is
taken away:

* With a comment: `app.ts:267` says that a duplicate terminal event must not clear a
  still-running continuation, but only completions with a valid response id are looked up
  (line 266).  A completion without one (`server.test.ts:598` sends such a completion) that
  comes twice first continues its delegation and then, finding no continuation any more,
  takes it out of `backendPending` while the continuation runs (lines 303-306): the idle
  limit may then end the session in the middle of the work.  `BusyWhileWorking` is violated
  as soon as `Repeatable` has `"unnamed"`, which is why the instance of `work_protocol`
  and the two theorems leave it out.
* With the documentation: `packages/deployment/README.md:101-102` says that unknown
  concurrent images are never overwritten.  The controller looks at the image before its
  first drain and at the beginning of the way back, and never again before an update
  (`release.ts:42-45`, `56-63`): a deployment of somebody else that becomes ready in between
  is replaced, whatever it serves.  This is the case `process.boot > drained.boot` of
  `ReplacesWhatItDrained`; without it two processes and one outside event are a counterexample.
* With a comment: `release.ts:61` says that a new revision might already have accepted
  work and is drained before any rollback.  The revision that is drained is the one `status`
  found ready.  If the candidate becomes ready after the old revision was drained for the
  way back, it may have admitted a session by the time the update replaces it: no other
  operator is needed, only a candidate whose readiness takes longer than the wait for it.
  It is the same case: `at = "restore" => ~process.active` is violated with two processes
  and nobody else.

Behaviour the models allow, and a reader should know of:

* A CLI call that timed out may have its update applied later, over whatever was
  released since (`late`); `OutcomeHolds` speaks of the selected revision for that reason.
* A command that outlives its operator may resume a process after the drain of the
  rollback; `DrainedStaysIdle` holds while the gate is closed, and the drain that is
  relied on is not taken again.
* `verify` may find the previous revision still ready: its image does not match,
  which is retried until the deadline.  `reverify`, whose image may be that of both, can
  accept the previous process before its replacement is ready.
* A rollout of somebody else that is not ready yet is overwritten by the update as well,
  because only the ready revision is examined.
* A `start()` that was given up before it asked for a session may still ask until the
  browser is closed, when the cleanup has already found nothing to release: the one
  exception (`cutOff`) in `ReleasedIsFree`.

## 6. Plan

What would come next, in this order:

1. Proofs: that a wire event SessionServer reduces to its effect is one DelegatedWork
   handles, so that the two are one server; that `Maintenance` shows `SessionServer`'s gate.
2. `Exports`: the store of exports beside `SessionServer`.
3. `LabClient` over a feed that reorders messages of two runs, and composed with
   `SessionReservation` as its server.
4. `ExperimentTrial` as the trial of `RunStore`, in one system.
5. Schedule and aggregation as pure operators against reference definitions.
