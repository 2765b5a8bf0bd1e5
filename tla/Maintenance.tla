----------------------------- MODULE Maintenance -----------------------------
(***************************************************************************)
(* One maintenance command on its way: the operator's script                *)
(* (scripts/maintenance-azure.ts) finds the replica that is ready, runs a   *)
(* command in it and judges what the command prints; the command            *)
(* (packages/deployment/client.ts and health.ts) talks to the listener of   *)
(* the server process, whose gate is memory of that process alone.          *)
(*                                                                          *)
(* The platform replaces the process whenever it likes: a restart keeps the *)
(* revision, a rollout begins a new one.  A command whose operator gave up  *)
(* may go on inside the replica, and may be slow.                           *)
(***************************************************************************)
EXTENDS Naturals, Sequences, FiniteSets, TLC

CONSTANTS Image, None,
          CommitOf(_),      \* the SOURCE_COMMIT an image is built with
          MaxBoot,          \* processes the platform starts
          Polls,            \* statuses one drain command asks for before its deadline
          MaxMeddling,      \* restarts, deployments and resumes of somebody else
          MaxStray          \* commands that outlive their operator, at one time

ASSUME MaintenanceAssumption ==
    /\ None \notin Image
    /\ {MaxBoot, Polls} \subseteq Nat \ {0}
    /\ {MaxMeddling, MaxStray} \subseteq Nat

VARIABLES
    process,    \* the server process of latestReadyRevisionName
    rollout,    \* the image of the template when its revision is not ready yet
    late,       \* images of updates the CLI lost and ARM may still apply
    meddling,   \* what the world outside may still do
    call,       \* runAzureMaintenance as the operator waits for it
    client,     \* the command running in the replica, while the operator listens
    stray       \* commands running on without a listener

platformVars == <<process, rollout, late>>
operatorVars == <<call, client, stray>>

Actions == {"drain", "resume", "status", "health"}
Status == [draining: BOOLEAN, active: BOOLEAN]
\* A revision is named by the first of its processes.
Target == [revision: 1..MaxBoot, image: Image]
Process == [revision: 1..MaxBoot, boot: 1..MaxBoot, image: Image,
            draining: BOOLEAN, active: BOOLEAN]

StatusLine(s) == [kind |-> "status", status |-> s]
HealthLine(c) == [kind |-> "health", commit |-> c]
Ready == [kind |-> "ready"]
Complaint == [kind |-> "stderr"]
Lines == {StatusLine(s): s \in Status} \cup {HealthLine(CommitOf(i)): i \in Image}
         \cup {Ready, Complaint}

\* Codes after which waitHealthy asks again, and the rest.
RetryableCodes == {"revision_mismatch", "image_mismatch", "transport"}
Codes == RetryableCodes \cup {"ok", "fatal"}

\* A pin of None asks for nothing.
Call == [action: Actions, pin: {None} \cup (1..MaxBoot), image: {None} \cup Image,
         commit: {None} \cup {CommitOf(i): i \in Image},
         stage: {"discover", "exec", "read", "closing", "done"},
         target: {None} \cup Target, boot: 0..MaxBoot,
         state: {None} \cup Status,
         health: {None} \cup {CommitOf(i): i \in Image}, code: Codes]

\* None is nothing else.
ASSUME NoneAssumption == None \notin Nat /\ None \notin Call

Client == [boot: 1..MaxBoot, action: Actions, polling: BOOLEAN, polls: 0..Polls,
           running: BOOLEAN, out: Seq(Lines)]

MaintenanceInit ==
    /\ process \in [revision: {1}, boot: {1}, image: Image,
                    draining: {FALSE}, active: BOOLEAN]
    /\ rollout = None
    /\ late = {}
    /\ meddling = MaxMeddling
    /\ call = None /\ client = None /\ stray = {}
-----------------------------------------------------------------------------
(* The server process and the platform *)

\* An admission and the end of its session, as the gate and the server allow them.
SessionBegins ==
    /\ ~process.draining /\ ~process.active
    /\ process' = [process EXCEPT !.active = TRUE]
    /\ UNCHANGED <<rollout, late, meddling, operatorVars>>

SessionEnds ==
    /\ process.active
    /\ process' = [process EXCEPT !.active = FALSE]
    /\ UNCHANGED <<rollout, late, meddling, operatorVars>>

\* Whoever runs in a process ends with it.
Replaced(p) ==
    /\ process' = p
    /\ client' = IF client = None THEN None ELSE [client EXCEPT !.running = FALSE]
    /\ stray' = {}

Fresh(revision, image) ==
    [revision |-> revision, boot |-> process.boot + 1, image |-> image,
     draining |-> FALSE, active |-> FALSE]

ProcessRestarts ==
    /\ meddling > 0 /\ meddling' = meddling - 1
    /\ process.boot < MaxBoot
    /\ Replaced(Fresh(process.revision, process.image))
    /\ UNCHANGED <<rollout, late, call>>

\* Single revision mode: the new revision is ready, the old one is stopped.
RolloutReady ==
    /\ rollout # None /\ process.boot < MaxBoot
    /\ Replaced(Fresh(process.boot + 1, rollout))
    /\ rollout' = None
    /\ UNCHANGED <<late, meddling, call>>

\* ARM takes a template: one that changes nothing makes no revision.
Accepted(image) ==
    IF rollout = None /\ process.image = image THEN None ELSE image

SomebodyDeploys(image) ==
    /\ meddling > 0 /\ meddling' = meddling - 1
    /\ rollout' = Accepted(image)
    /\ UNCHANGED <<process, late, operatorVars>>

SomebodyResumes ==
    /\ meddling > 0 /\ meddling' = meddling - 1
    /\ process.draining
    /\ process' = [process EXCEPT !.draining = FALSE]
    /\ UNCHANGED <<rollout, late, operatorVars>>

LateUpdateApplies(image) ==
    /\ image \in late
    /\ late' = late \ {image}
    /\ rollout' = Accepted(image)
    /\ UNCHANGED <<process, meddling, operatorVars>>
-----------------------------------------------------------------------------
(* The command inside the replica *)

\* The listener's answer: the gate moves first, then the status is taken.
Answered(path) ==
    [process EXCEPT !.draining = CASE path = "drain" -> TRUE
                                   [] path = "resume" -> FALSE
                                   [] OTHER -> process.draining]

StatusOf(p) == [draining |-> p.draining, active |-> p.active]

Exit(c, lines) == [c EXCEPT !.running = FALSE, !.out = @ \o lines]

Path(c) == IF c.polling THEN "status" ELSE c.action

\* Mutated form: the drain command reports ready whatever still runs.
AfterStatusHasty(c, s) ==
    IF c.action = "drain" /\ s.draining THEN Exit(c, <<StatusLine([s EXCEPT !.active = FALSE]), Ready>>)
    ELSE Exit(c, <<StatusLine(s)>>)

\* One turn of runMaintenanceCommand's loop once the status is there, with what
\* runMaintenanceCli prints.  The budget stands for the command's deadline.
AfterStatus(c, s) ==
    IF (c.action = "resume" /\ s.draining) \/ (c.action = "drain" /\ ~s.draining)
    THEN Exit(c, <<StatusLine(s), Complaint>>)
    ELSE IF c.action # "drain" THEN Exit(c, <<StatusLine(s)>>)
    ELSE IF ~s.active THEN Exit(c, <<StatusLine(s), Ready>>)
    ELSE IF c.polls = 0 THEN Exit(c, <<StatusLine(s), Complaint>>)
    ELSE [c EXCEPT !.polling = TRUE, !.polls = @ - 1, !.out = Append(@, StatusLine(s))]

\* checkRuntimeHealth: the process answers, or it does not.
HealthChecked(c) ==
    {Exit(c, <<HealthLine(CommitOf(process.image)), Ready>>), Exit(c, <<Complaint>>)}

ClientAsks ==
    /\ client # None /\ client.running
    /\ IF client.action = "health"
       THEN client' \in HealthChecked(client) /\ UNCHANGED process
       ELSE \/ /\ process' = Answered(Path(client))
               /\ client' = AfterStatus(client, StatusOf(process'))
            \* a request that fails on its way, before or after it was served
            \/ /\ process' \in {process, Answered(Path(client))}
               /\ client' = Exit(client, <<Complaint>>)
    /\ UNCHANGED <<rollout, late, meddling, call, stray>>

\* Nobody reads what a stray command prints.
StrayAsks(c) ==
    /\ c \in stray
    /\ process' = Answered(Path(c))
    /\ LET next == AfterStatus(c, StatusOf(process')) IN
         stray' = (stray \ {c}) \cup (IF next.running THEN {[next EXCEPT !.out = <<>>]} ELSE {})
    /\ UNCHANGED <<rollout, late, meddling, call, client>>

StrayEnds(c) ==
    /\ c \in stray
    /\ stray' = stray \ {c}
    /\ UNCHANGED <<platformVars, meddling, call, client>>
-----------------------------------------------------------------------------
(* The operator *)

Asking(action, pin, image, commit) ==
    [action |-> action, pin |-> pin, image |-> image, commit |-> commit,
     stage |-> "discover", target |-> None, boot |-> 0, state |-> None,
     health |-> None, code |-> "ok"]

Ended(c, code) == [c EXCEPT !.stage = "done", !.code = code]

Busy == call # None /\ call.stage # "done"

\* The socket is terminated; what runs in the replica may go on or end with it.
Leave ==
    /\ client' = None
    /\ \/ stray' = stray
       \/ /\ client # None /\ client.running /\ client.action # "health"
          /\ Cardinality(stray) < MaxStray
          /\ stray' = stray \cup {[client EXCEPT !.out = <<>>]}

\* discoverTarget
Discovered(c) ==
    IF c.pin # None /\ c.pin # process.revision THEN Ended(c, "revision_mismatch")
    ELSE IF c.image # None /\ c.image # process.image THEN Ended(c, "image_mismatch")
    ELSE [c EXCEPT !.stage = "exec",
                   !.target = [revision |-> process.revision, image |-> process.image]]

Discover ==
    /\ Busy /\ call.stage = "discover"
    /\ call' = Discovered(call)
    /\ UNCHANGED <<platformVars, meddling, client, stray>>

\* The exec path names the revision and the replica, not the process in it.
Exec ==
    /\ Busy /\ call.stage = "exec"
    /\ IF call.target.revision = process.revision
       THEN /\ call' = [call EXCEPT !.stage = "read", !.boot = process.boot]
            /\ client' = [boot |-> process.boot, action |-> call.action, polling |-> FALSE,
                          polls |-> Polls, running |-> TRUE, out |-> <<>>]
       ELSE call' = Ended(call, "transport") /\ UNCHANGED client
    /\ UNCHANGED <<platformVars, meddling, stray>>

Proved(c) == c.stage = "closing"

\* A status the action cannot print if all is well (exec_state_conflict).
Conflicting(c, s) ==
    \/ c.action = "resume" /\ s.draining
    \/ c.action = "drain" /\ (~s.draining \/ (c.state # None /\ ~c.state.active /\ s.active))

\* OutputVerifier.append for one line of output, and frames of standard error.
Verified(c, line) ==
    IF Proved(c) \/ line.kind = "stderr" THEN Ended(c, "fatal")
    ELSE IF line.kind = "ready" /\ c.action = "drain"
    THEN IF c.state # None /\ c.state.draining /\ ~c.state.active
         THEN [c EXCEPT !.stage = "closing"] ELSE Ended(c, "fatal")
    ELSE IF line.kind = "ready"
    THEN IF c.health # None THEN [c EXCEPT !.stage = "closing"] ELSE Ended(c, "fatal")
    ELSE IF line.kind = "health"
    THEN IF c.commit \notin {None, line.commit} THEN Ended(c, "fatal")
         ELSE [c EXCEPT !.health = line.commit]
    ELSE IF Conflicting(c, line.status) THEN Ended(c, "fatal")
    ELSE [c EXCEPT !.state = line.status,
                   !.stage = IF c.action = "drain" THEN "read" ELSE "closing"]

ReadLine ==
    /\ Busy /\ client # None /\ client.out # <<>>
    /\ call' = Verified(call, Head(client.out))
    /\ IF call'.stage = "done"
       THEN Leave
       ELSE client' = [client EXCEPT !.out = Tail(@)] /\ UNCHANGED stray
    /\ UNCHANGED <<platformVars, meddling>>

\* The socket closes cleanly: complete() needs the proof.
SocketCloses ==
    /\ Busy /\ client # None /\ client.out = <<>> /\ ~client.running
    /\ call' = Ended(call, IF Proved(call) THEN "ok" ELSE "fatal")
    /\ client' = None
    /\ UNCHANGED <<platformVars, meddling, stray>>

\* A refused or slow ARM call, a broken or unclosed socket, the overall deadline.
CallFails(code) ==
    /\ Busy /\ code \in {"transport", "fatal"}
    /\ call' = Ended(call, code)
    /\ Leave
    /\ UNCHANGED <<platformVars, meddling>>
-----------------------------------------------------------------------------
Platform ==
    \/ SessionBegins \/ SessionEnds \/ ProcessRestarts \/ RolloutReady \/ SomebodyResumes
    \/ \E image \in Image: SomebodyDeploys(image) \/ LateUpdateApplies(image)

Replica == ClientAsks \/ \E c \in stray: StrayAsks(c) \/ StrayEnds(c)

Operator ==
    \/ Discover \/ Exec \/ ReadLine \/ SocketCloses
    \/ \E code \in {"transport", "fatal"}: CallFails(code)

MaintenanceTypeOK ==
    /\ process \in Process
    /\ rollout \in {None} \cup Image
    /\ late \subseteq Image
    /\ meddling \in 0..MaxMeddling
    /\ call = None \/ call \in Call
    /\ client = None \/ client \in Client
    /\ \A c \in stray: c \in Client /\ c.running
=============================================================================
