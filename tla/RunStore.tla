------------------------------ MODULE RunStore ------------------------------
(***************************************************************************)
(* The experiment runner over its directory of records                      *)
(* (scripts/run-experiments.ts): one runner process takes the lock, begins  *)
(* or resumes a run, settles what an earlier process left open, runs one    *)
(* trial after the other and writes a report.                               *)
(*                                                                          *)
(* A record is a file of its own, installed by a hard link that never       *)
(* replaces one.  A process may die between any two of its steps, a write   *)
(* may fail, and somebody may remove a lock whose owner is still alive.     *)
(***************************************************************************)
EXTENDS Naturals, FiniteSets

CONSTANTS Runner,       \* runner processes; each runs once
          Limit,        \* trials the manifest asks for
          None,
          PcmRequired   \* the manifest's contract asks for voice measurements

ASSUME RunStoreAssumption == Limit \in Nat /\ None \notin Runner /\ PcmRequired \in BOOLEAN

Slots == 1..Limit

VARIABLES
    lock,       \* .runner.lock: None or the nonce of a runner
    manifest,   \* manifest.json is there
    occupied,   \* the directory holds something else than the lock
    starts,     \* slots/NNN.started.json: the attempt, named by its runner
    evidence,   \* evidence/NNN.pcm.json: the attempt
    results,    \* slots/NNN.result.json
    run,        \* the runner processes
    trials      \* history: how often a trial of each slot was executed

files == <<manifest, occupied, starts, evidence, results>>
vars == <<lock, files, run, trials>>

\* What executeTrial found: its verdict, whether it measured the voice, whether
\* the runner stops after it.
Finding == [status: {"completed", "failed"}, voice: BOOLEAN, last: BOOLEAN]
Result == [attempt: Runner, status: {"completed", "failed", "interrupted"}, voice: BOOLEAN]

Stages == {"new", "initialize", "manifest", "recover", "settle", "pick", "start", "trial",
           "evidence", "result", "report", "close", "gone"}

Process == [at: Stages, resume: BOOLEAN, slot: 0..Limit, prepared: BOOLEAN,
            started: [Slots -> {None} \cup Runner], results: [Slots -> {None} \cup Result],
            found: {None} \cup Finding]

\* None is none of the values it stands beside.
ASSUME NoneAssumption == None \notin Result \cup Finding \cup {"completed", "failed", "interrupted"}

Blank == [s \in Slots |-> None]

Init ==
    /\ lock = None /\ manifest = FALSE /\ occupied = FALSE
    /\ starts = Blank /\ evidence = Blank /\ results = Blank
    /\ run \in [Runner -> [at: {"new"}, resume: BOOLEAN, slot: {0}, prepared: {FALSE},
                           started: {Blank}, results: {Blank}, found: {None}]]
    /\ trials = [s \in Slots |-> 0]

Goto(r, stage) == run' = [run EXCEPT ![r].at = stage, ![r].prepared = FALSE]

\* What a runner knew and was asked for is lost with it.
Leaves(r, stage) ==
    run' = [run EXCEPT ![r] = [at |-> stage, resume |-> FALSE, slot |-> 0, prepared |-> FALSE,
                               started |-> Blank, results |-> Blank, found |-> None]]
-----------------------------------------------------------------------------
(* The store *)

\* openRunStore: the lock file is created, or the runner is turned away.
Opens(r) ==
    /\ run[r].at = "new"
    /\ IF lock = None
       THEN lock' = r /\ Goto(r, "initialize")
       ELSE Goto(r, "gone") /\ UNCHANGED lock
    /\ UNCHANGED <<files, trials>>

\* Mutated form: a run without a manifest is resumed.
InitializesLate(r) ==
    /\ run[r].at = "initialize"
    /\ Goto(r, IF run[r].resume THEN "recover"
               ELSE IF manifest \/ occupied THEN "close" ELSE "manifest")
    /\ UNCHANGED <<lock, files, trials>>

\* initialize
Initializes(r) ==
    /\ run[r].at = "initialize"
    /\ Goto(r, IF manifest THEN (IF run[r].resume THEN "recover" ELSE "close")
               ELSE IF run[r].resume \/ occupied THEN "close"
               ELSE "manifest")
    /\ UNCHANGED <<lock, files, trials>>

\* records: one listing; what it lists is installed and stays.
Reads(r) ==
    /\ run[r].at = "recover"
    /\ run' = [run EXCEPT ![r].at = "settle", ![r].started = starts, ![r].results = results]
    /\ UNCHANGED <<lock, files, trials>>

Writing == {"manifest", "settle", "start", "evidence", "result", "report"}

\* The slots recoverInterruptedSlots still has to settle.
Unsettled(p) == {s \in Slots: p.started[s] # None /\ p.results[s] = None}

IsFirst(s, S) == s \in S /\ \A t \in S: s <= t

\* The slots of the plan without a result.
Planned(p) == {s \in Slots: p.results[s] = None}

Settled(r) ==
    /\ run[r].at = "settle" /\ Unsettled(run[r]) = {}
    /\ run' = [run EXCEPT ![r].at = "pick", ![r].started = Blank]
    /\ UNCHANGED <<lock, files, trials>>

Picks(r) ==
    /\ run[r].at = "pick"
    /\ IF Planned(run[r]) = {}
       THEN Goto(r, "report")
       ELSE \E s \in Slots: /\ IsFirst(s, Planned(run[r]))
                            /\ run' = [run EXCEPT ![r].at = "start", ![r].slot = s]
    /\ UNCHANGED <<lock, files, trials>>

\* writeExclusiveArtifact up to the link: the directory of temporary files, the
\* file, its contents.  The store checks a result against the other records first.
Prepares(r) ==
    /\ run[r].at \in Writing /\ ~run[r].prepared
    /\ run[r].at = "settle" => Unsettled(run[r]) # {}
    /\ occupied' = TRUE
    /\ run' = [run EXCEPT ![r].prepared = TRUE]
    /\ UNCHANGED <<lock, manifest, starts, evidence, results, trials>>

Interruption(attempt) == [attempt |-> attempt, status |-> "interrupted", voice |-> FALSE]
Verdict(r) == [attempt |-> r, status |-> run[r].found.status, voice |-> run[r].found.voice]

\* RunStore.result: the start of this attempt and the evidence it names are there.
Supported(s, result) ==
    /\ starts[s] = result.attempt
    /\ result.voice => evidence[s] = result.attempt

\* Mutated form: the file is moved into place, over whatever is there.
Absent(entry) == TRUE

\* link() fails when the record exists.
Free(entry) == entry = None

\* After a result: the next slot, or the end of the run.
AfterResult(p) == IF p.found.last THEN "report" ELSE "pick"

Writes(r, stage) == run[r].at = stage /\ run[r].prepared

ManifestLinked(r) ==
    /\ Writes(r, "manifest") /\ ~manifest
    /\ manifest' = TRUE
    /\ Goto(r, "recover")
    /\ UNCHANGED <<lock, occupied, starts, evidence, results, trials>>

StartLinked(r) ==
    /\ Writes(r, "start") /\ Free(starts[run[r].slot])
    /\ starts' = [starts EXCEPT ![run[r].slot] = r]
    /\ Goto(r, "trial")
    /\ UNCHANGED <<lock, manifest, occupied, evidence, results, trials>>

EvidenceLinked(r) ==
    /\ Writes(r, "evidence") /\ Free(evidence[run[r].slot])
    /\ evidence' = [evidence EXCEPT ![run[r].slot] = r]
    /\ Goto(r, "result")
    /\ UNCHANGED <<lock, manifest, occupied, starts, results, trials>>

\* RunStore.result
LinksResult(s, result) ==
    /\ Free(results[s]) /\ Supported(s, result)
    /\ results' = [results EXCEPT ![s] = result]
    /\ UNCHANGED <<lock, manifest, occupied, starts, evidence, trials>>

\* One turn of recoverInterruptedSlots.
Interrupts(r) ==
    /\ Writes(r, "settle")
    /\ \E s \in Slots:
         /\ IsFirst(s, Unsettled(run[r]))
         /\ LinksResult(s, Interruption(run[r].started[s]))
         /\ run' = [run EXCEPT ![r].prepared = FALSE,
                               ![r].results[s] = Interruption(run[r].started[s])]

ResultLinked(r) ==
    /\ Writes(r, "result")
    /\ LinksResult(run[r].slot, Verdict(r))
    /\ run' = [run EXCEPT ![r].at = AfterResult(run[r]), ![r].prepared = FALSE,
                          ![r].results[run[r].slot] = Verdict(r),
                          ![r].slot = 0, ![r].found = None]

ReportLinked(r) ==
    /\ Writes(r, "report")
    /\ Goto(r, "close")
    /\ UNCHANGED <<lock, files, trials>>

Installs(r) ==
    \/ ManifestLinked(r) \/ StartLinked(r) \/ EvidenceLinked(r)
    \/ Interrupts(r) \/ ResultLinked(r) \/ ReportLinked(r)

\* The link found a record, a check failed, the disk is full, the temporary file
\* could not be removed after the link was made: the run ends.
Fails(r) ==
    /\ run[r].at \notin {"new", "close", "gone"}
    /\ Leaves(r, "close")
    /\ UNCHANGED <<lock, files, trials>>

\* close, in any case: only a lock of one's own is removed.  (What a removal
\* between its two steps would do, LockRemoved does too.)
Closes(r) ==
    /\ run[r].at = "close"
    /\ lock' = IF lock = r THEN None ELSE lock
    /\ Leaves(r, "gone")
    /\ UNCHANGED <<files, trials>>
-----------------------------------------------------------------------------
(* Trials, deaths, and the person at the machine *)

AfterTrial(found) == IF found.voice THEN "evidence" ELSE "result"

\* Mutated form: missing measurements do not fail the trial.
CompleteUnmeasured(found) == found.status = "completed" => ~found.last

\* A completed trial has what the contract asks for, and never ends the run.
Complete(found) == found.status = "completed" => ~found.last /\ (PcmRequired => found.voice)

\* executeTrial
Runs(r, found) ==
    /\ run[r].at = "trial" /\ Complete(found)
    /\ trials' = [trials EXCEPT ![run[r].slot] = @ + 1]
    /\ run' = [run EXCEPT ![r].at = AfterTrial(found), ![r].found = found]
    /\ UNCHANGED <<lock, files>>

\* A trial that throws, or whose process dies in it, has been executed all the same.
TrialBreaks(r, stage) ==
    /\ run[r].at = "trial"
    /\ trials' = [trials EXCEPT ![run[r].slot] = @ + 1]
    /\ Leaves(r, stage)
    /\ UNCHANGED <<lock, files>>

Dies(r) ==
    /\ run[r].at \notin {"new", "gone"}
    /\ Leaves(r, "gone")
    /\ UNCHANGED <<lock, files, trials>>

\* Nothing but this removes a lock that was left behind; nothing makes sure that
\* its owner is dead.
LockRemoved ==
    /\ lock # None
    /\ lock' = None
    /\ UNCHANGED <<files, run, trials>>

Step(r) ==
    \/ Opens(r) \/ Initializes(r) \/ Reads(r) \/ Settled(r) \/ Picks(r)
    \/ Prepares(r) \/ Installs(r) \/ Fails(r) \/ Closes(r)
    \/ \E found \in Finding: Runs(r, found)
    \/ TrialBreaks(r, "close")

Next ==
    \/ \E r \in Runner: Step(r) \/ Dies(r) \/ TrialBreaks(r, "gone")
    \/ LockRemoved

Spec == Init /\ [][Next]_vars
-----------------------------------------------------------------------------
TypeOK ==
    /\ lock \in {None} \cup Runner
    /\ manifest \in BOOLEAN /\ occupied \in BOOLEAN
    /\ {starts, evidence} \subseteq [Slots -> {None} \cup Runner]
    /\ results \in [Slots -> {None} \cup Result]
    /\ run \in [Runner -> Process]
    /\ trials \in [Slots -> Nat]

\* No trial is executed twice, whatever died, was resumed or ran at the same time:
\* a paid session is never spent on a slot that already had one.
RunOnce == \A s \in Slots: trials[s] <= 1

\* The directory is at every moment one that records() accepts: a result has the
\* start of its own attempt and the evidence it names, and nothing was recorded
\* before the manifest that says what it belongs to.
AlwaysReadable ==
    /\ \A s \in Slots: results[s] # None =>
          /\ starts[s] = results[s].attempt
          /\ results[s].voice => evidence[s] = results[s].attempt
    /\ ~manifest => starts = Blank /\ results = Blank /\ trials = [s \in Slots |-> 0]

\* A trial that is counted as completed was executed to its end by the attempt
\* that began it, with the measurements the manifest asks for; and what a runner
\* reports is what the files say.
CountedWasRun ==
    /\ \A s \in Slots: results[s] # None /\ results[s].status = "completed"
          => trials[s] = 1 /\ (PcmRequired => evidence[s] = results[s].attempt)
    /\ \A r \in Runner, s \in Slots: run[r].results[s] \in {None, results[s]}

\* A result and a start, once written, stay; each slot is begun once and settled once.
Ledger ==
    INSTANCE SlotLedger WITH
        Attempts <- Runner, Words <- {"completed", "failed"}, Interrupted <- "interrupted",
        ledger <- [s \in Slots |->
                     [attempt |-> starts[s],
                      word |-> IF results[s] = None THEN None ELSE results[s].status]]
KeepsLedger == Ledger!Spec
=============================================================================
