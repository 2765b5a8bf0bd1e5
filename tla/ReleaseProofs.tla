---------------------------- MODULE ReleaseProofs ----------------------------
(***************************************************************************)
(* Theorems about Release, for any images, commits and numbers of polls,    *)
(* meddling and stray commands: what a drain that was relied on says of the *)
(* process, what the update replaces, and what may open a gate.             *)
(***************************************************************************)
EXTENDS Release, TLAPS

\* A status that says the process is closed and free.
Free(line) == line.kind = "status" /\ line.status.draining /\ ~line.status.active

\* The command has not failed.
Alive(c) == c.stage # "done" \/ c.code = "ok"
\* It found the replica; it ran in it; it proved what it was asked to.
Located(c) == Alive(c) /\ c.stage # "discover"
Ran(c) == Located(c) /\ c.stage # "exec"
Done(c) == Ran(c) /\ c.stage # "read"

\* The status of a drain that found nobody left.
Emptied(c) == c.state # None /\ c.state.draining /\ ~c.state.active

\* The process of boot b has no session while its gate is closed.
Idle(b) == b = process.boot /\ process.draining => ~process.active

\* The revision of the call is open, if it still runs.
Opened == process.revision = call.target.revision => ~process.draining

\* A revision has one image, and is older than the processes to come.
Names(t) ==
    /\ t.revision <= process.boot
    /\ t.revision = process.revision => t.image = process.image

\* The awaited call is the command of the stage.
Issued ==
    call # None =>
        /\ at \notin {"update", "restore", "over"}
        /\ call.action = Command.action /\ call.pin = Command.pin
        /\ call.image = Command.image /\ call.commit = Command.commit

Found ==
    call # None /\ Located(call) =>
        /\ call.target \in Target /\ Names(call.target)
        /\ call.pin # None => call.target.revision = call.pin
        /\ call.image # None => call.target.image = call.image

\* It ran in one process of the revision, and what it heard is of that process.
RanThere ==
    call # None /\ Ran(call) =>
        /\ call.boot <= process.boot
        /\ call.boot = process.boot => process.revision = call.target.revision
        /\ call.action = "drain" /\ Emptied(call) => Idle(call.boot)
        /\ call.health # None =>
             call.action = "health" /\ call.health = CommitOf(call.target.image)
        /\ Done(call) =>
             /\ call.action = "resume" => Opened
             /\ call.action = "drain" => Emptied(call)
             /\ call.action = "health" => call.health # None

Untold ==
    call # None /\ call.stage \in {"discover", "exec"} =>
        call.state = None /\ call.health = None

\* The command in the replica is the one the operator listens to.
Listening ==
    client # None =>
        /\ call # None /\ call.stage \in {"read", "closing"}
        /\ client.action = call.action /\ client.boot = call.boot
        /\ client.running => client.boot = process.boot
        /\ client.polling => client.action = "drain"
        /\ client.running /\ client.action = "drain" => ~Emptied(call)
        /\ \A i \in DOMAIN client.out :
             /\ client.out[i].kind = "health" =>
                  client.action = "health" /\ client.out[i].commit = CommitOf(call.target.image)
             /\ client.action = "health" => client.out[i].kind # "status"
             /\ client.action = "drain" /\ Free(client.out[i]) =>
                  ~client.running /\ Idle(client.boot)
             /\ client.action = "resume" /\ client.out[i].kind = "status" =>
                  client.out[i].status.draining \/ Opened

\* Whatever is verified is a release this controller may open.
MayOpen ==
    \/ process.image = Candidate /\ CommitOf(Candidate) = CandidateCommit
    \/ process.image = previous.image
Vouched ==
    \A v \in verified : v <= process.boot /\ (v = process.revision => MayOpen)

\* No drain outlives its operator but when the release has failed with it.
Strays ==
    \A c \in stray :
        /\ c.polling => c.action = "drain"
        /\ c.action = "resume" => process.revision \in verified
        /\ c.action = "drain" =>
             \/ at = "over" /\ outcome \notin {"released", "rolled_back"}
             \/ at \in {"drain", "redrain"} /\ call # None /\ ~Alive(call)

Chosen ==
    /\ at = "health" => verified = {}
    /\ at \notin {"health", "over"} =>
         /\ previous.image \in Image /\ previous.commit \in {CommitOf(i) : i \in Image}
         /\ selected \in Target /\ Names(selected)
    /\ at \in {"drain", "redrain"} => selected.image \in {Candidate, previous.image}
    /\ at \in {"resume", "reopen"} => selected.revision \in verified
    /\ at = "resume" => selected.image = Candidate
    /\ at = "reopen" => selected.image = previous.image

\* The drain relied on is of the target, one of the two images.
DrainedSelected ==
    at \in {"update", "restore"} =>
        drained.revision = selected.revision /\ drained.image \in {Candidate, previous.image}

Relied ==
    /\ at \in {"update", "verify", "restore", "reverify"} => Idle(drained.boot)
    /\ DrainedSelected

\* What a release that ended well selected last is open and of the image it reports.
Reported ==
    outcome \in {"released", "rolled_back"} =>
        /\ selected \in Target /\ Names(selected)
        /\ selected.image = IF outcome = "released" THEN Candidate ELSE previous.image
        /\ process.revision = selected.revision => ~process.draining

RInv ==
    /\ TypeOK /\ process.revision <= process.boot
    /\ Issued /\ Found /\ RanThere /\ Untold /\ Listening
    /\ Vouched /\ Strays /\ Chosen /\ Relied /\ Reported
-----------------------------------------------------------------------------
(* Types *)

Commits == {CommitOf(i) : i \in Image}

LEMMA LineKinds ==
    /\ \A s \in Status : StatusLine(s) \in Lines /\ StatusLine(s).kind = "status"
                         /\ StatusLine(s).status = s
    /\ \A i \in Image : HealthLine(CommitOf(i)) \in Lines /\ HealthLine(CommitOf(i)).kind = "health"
                        /\ HealthLine(CommitOf(i)).commit = CommitOf(i)
    /\ Ready \in Lines /\ Complaint \in Lines
    /\ Ready.kind = "ready" /\ Complaint.kind = "stderr"
    /\ \A line \in Lines : /\ line.kind = "status" => line.status \in Status
                           /\ line.kind = "health" => line.commit \in Commits
  BY DEF Lines, StatusLine, HealthLine, Ready, Complaint, Commits

LEMMA ProcessType ==
    ASSUME NEW p \in Process
    PROVE  /\ p.revision \in 1..MaxBoot /\ p.boot \in 1..MaxBoot /\ p.image \in Image
           /\ p.draining \in BOOLEAN /\ p.active \in BOOLEAN
           /\ p.revision \in Nat /\ p.boot \in Nat
           /\ StatusOf(p) \in Status
           /\ StatusOf(p).draining = p.draining /\ StatusOf(p).active = p.active
<1>1. MaxBoot \in Nat
  BY MaintenanceAssumption
<1> QED
  BY <1>1 DEF Process, StatusOf, Status

LEMMA GateType ==
    ASSUME NEW p \in Process, NEW b \in BOOLEAN
    PROVE  /\ [p EXCEPT !.draining = b] \in Process
           /\ [p EXCEPT !.active = b] \in Process
           /\ [p EXCEPT !.draining = b] = [revision |-> p.revision, boot |-> p.boot,
                 image |-> p.image, draining |-> b, active |-> p.active]
           /\ [p EXCEPT !.active = b] = [revision |-> p.revision, boot |-> p.boot,
                 image |-> p.image, draining |-> p.draining, active |-> b]
  BY DEF Process

LEMMA AnsweredType ==
    ASSUME process \in Process, NEW path
    PROVE  /\ Answered(path) \in Process
           /\ Answered(path).boot = process.boot /\ Answered(path).image = process.image
           /\ Answered(path).revision = process.revision
           /\ Answered(path).active = process.active
           /\ Answered(path).draining =
                CASE path = "drain" -> TRUE [] path = "resume" -> FALSE
                  [] OTHER -> process.draining
<1> DEFINE b == CASE path = "drain" -> TRUE [] path = "resume" -> FALSE
                  [] OTHER -> process.draining
<1>1. b \in BOOLEAN
  BY ProcessType
<1>2. Answered(path) = [process EXCEPT !.draining = b]
  BY DEF Answered
<1> HIDE DEF b
<1>3. Answered(path) = [revision |-> process.revision, boot |-> process.boot,
                        image |-> process.image, draining |-> b, active |-> process.active]
  BY <1>1, <1>2, GateType
<1>4. Answered(path) \in Process
  BY <1>1, <1>3, ProcessType DEF Process
<1> QED
  BY <1>3, <1>4 DEF b

LEMMA ClientType ==
    ASSUME NEW c \in Client
    PROVE  /\ c.boot \in 1..MaxBoot /\ c.action \in Actions /\ c.polling \in BOOLEAN
           /\ c.polls \in 0..Polls /\ c.running \in BOOLEAN /\ c.out \in Seq(Lines)
  BY DEF Client

LEMMA Exited ==
    ASSUME NEW c \in Client, NEW lines \in Seq(Lines)
    PROVE  /\ Exit(c, lines) \in Client
           /\ Exit(c, lines).action = c.action /\ Exit(c, lines).boot = c.boot
           /\ Exit(c, lines).polling = c.polling /\ ~Exit(c, lines).running
           /\ \A i \in DOMAIN Exit(c, lines).out :
                \/ i \in DOMAIN c.out /\ Exit(c, lines).out[i] = c.out[i]
                \/ \E j \in DOMAIN lines : Exit(c, lines).out[i] = lines[j]
<1> DEFINE out == c.out \o lines
<1>1. c.out \in Seq(Lines)
  BY ClientType
<1>2. out \in Seq(Lines)
  BY <1>1
<1>3. ASSUME NEW i \in DOMAIN out
      PROVE  \/ i \in DOMAIN c.out /\ out[i] = c.out[i]
             \/ \E j \in DOMAIN lines : out[i] = lines[j]
  <2>1. CASE i <= Len(c.out)
    BY <1>1, <2>1
  <2>2. CASE ~(i <= Len(c.out))
    <3>1. i - Len(c.out) \in DOMAIN lines /\ out[i] = lines[i - Len(c.out)]
      BY <1>1, <2>2
    <3> QED
      BY <3>1
  <2> QED
    BY <2>1, <2>2
<1>4. Exit(c, lines) = [c EXCEPT !.running = FALSE, !.out = out]
  BY DEF Exit
<1> HIDE DEF out
<1>5. /\ Exit(c, lines) \in Client /\ Exit(c, lines).out = out
      /\ Exit(c, lines).action = c.action /\ Exit(c, lines).boot = c.boot
      /\ Exit(c, lines).polling = c.polling /\ ~Exit(c, lines).running
  BY <1>2, <1>4 DEF Client
<1> QED
  BY <1>3, <1>5

LEMMA AfterStatusType ==
    ASSUME NEW c \in Client, NEW s \in Status
    PROVE  /\ AfterStatus(c, s) \in Client
           /\ AfterStatus(c, s).action = c.action /\ AfterStatus(c, s).boot = c.boot
           /\ AfterStatus(c, s).polling => c.polling \/ c.action = "drain"
           /\ AfterStatus(c, s).running => c.running
           /\ AfterStatus(c, s).running => c.action = "drain" /\ s.active
           /\ \A i \in DOMAIN AfterStatus(c, s).out :
                \/ i \in DOMAIN c.out /\ AfterStatus(c, s).out[i] = c.out[i]
                \/ AfterStatus(c, s).out[i] \in {StatusLine(s), Ready, Complaint}
<1> DEFINE r == AfterStatus(c, s)
           l == StatusLine(s)
           more == [c EXCEPT !.polling = TRUE, !.polls = @ - 1, !.out = Append(@, l)]
<1>1. /\ l \in Lines /\ Ready \in Lines /\ Complaint \in Lines
      /\ <<l>> \in Seq(Lines) /\ <<l, Ready>> \in Seq(Lines) /\ <<l, Complaint>> \in Seq(Lines)
  BY LineKinds
<1>2. \/ r \in {Exit(c, <<l>>), Exit(c, <<l, Ready>>), Exit(c, <<l, Complaint>>)}
      \/ r = more /\ c.action = "drain" /\ s.active /\ c.polls # 0
  BY DEF AfterStatus
<1>3. CASE r \in {Exit(c, <<l>>), Exit(c, <<l, Ready>>), Exit(c, <<l, Complaint>>)}
  <2> HIDE DEF r, l
  <2>1. ASSUME NEW lines \in Seq(Lines), r = Exit(c, lines),
               \A j \in DOMAIN lines : lines[j] \in {l, Ready, Complaint}
        PROVE  /\ r \in Client /\ r.action = c.action /\ r.boot = c.boot
               /\ r.polling = c.polling /\ ~r.running
               /\ \A i \in DOMAIN r.out :
                    \/ i \in DOMAIN c.out /\ r.out[i] = c.out[i]
                    \/ r.out[i] \in {l, Ready, Complaint}
    BY <2>1, Exited
  <2>2. /\ \A j \in DOMAIN <<l>> : <<l>>[j] = l
        /\ \A j \in DOMAIN <<l, Ready>> : <<l, Ready>>[j] \in {l, Ready}
        /\ \A j \in DOMAIN <<l, Complaint>> : <<l, Complaint>>[j] \in {l, Complaint}
    OBVIOUS
  <2>3. /\ r \in Client /\ r.action = c.action /\ r.boot = c.boot
        /\ r.polling = c.polling /\ ~r.running
        /\ \A i \in DOMAIN r.out :
             \/ i \in DOMAIN c.out /\ r.out[i] = c.out[i]
             \/ r.out[i] \in {l, Ready, Complaint}
    <3>1. CASE r = Exit(c, <<l>>)
      BY <1>1, <2>1, <2>2, <3>1
    <3>2. CASE r = Exit(c, <<l, Ready>>)
      BY <1>1, <2>1, <2>2, <3>2
    <3>3. CASE r = Exit(c, <<l, Complaint>>)
      BY <1>1, <2>1, <2>2, <3>3
    <3> QED
      BY <1>3, <3>1, <3>2, <3>3
  <2> QED
    BY <2>3 DEF r, l
<1>4. CASE r = more /\ c.action = "drain" /\ s.active /\ c.polls # 0
  <2> DEFINE out == Append(c.out, l)
  <2>1. out \in Seq(Lines) /\ c.polls - 1 \in 0..Polls
        /\ \A i \in DOMAIN out : (i \in DOMAIN c.out /\ out[i] = c.out[i]) \/ out[i] = l
    <3>1. c.out \in Seq(Lines) /\ c.polls \in 0..Polls /\ Polls \in Nat
      BY ClientType, MaintenanceAssumption
    <3> HIDE DEF l
    <3> QED
      BY <1>1, <1>4, <3>1
  <2>2. more = [c EXCEPT !.polling = TRUE, !.polls = c.polls - 1, !.out = out]
    OBVIOUS
  <2> HIDE DEF out, l, more
  <2>3. more \in Client /\ more.action = c.action /\ more.boot = c.boot
        /\ more.running = c.running /\ more.out = out
    BY <2>1, <2>2 DEF Client
  <2> HIDE DEF r
  <2> QED
    BY <1>4, <2>1, <2>3 DEF r, l
<1> QED
  BY <1>2, <1>3, <1>4

LEMMA CallType ==
    ASSUME NEW c \in Call
    PROVE  /\ c.action \in Actions /\ c.pin \in {None} \cup (1..MaxBoot)
           /\ c.image \in {None} \cup Image
           /\ c.stage \in {"discover", "exec", "read", "closing", "done"}
           /\ c.target \in {None} \cup Target /\ c.boot \in 0..MaxBoot
           /\ c.state \in {None} \cup Status /\ c.health \in {None} \cup Commits
           /\ c.code \in Codes /\ c.commit \in {None} \cup Commits
  BY DEF Call, Commits

LEMMA EndedType ==
    ASSUME NEW c \in Call, NEW code \in Codes
    PROVE  /\ Ended(c, code) \in Call
           /\ Ended(c, code).stage = "done" /\ Ended(c, code).code = code
           /\ Ended(c, code).action = c.action /\ Ended(c, code).pin = c.pin
           /\ Ended(c, code).image = c.image /\ Ended(c, code).commit = c.commit
           /\ Ended(c, code).target = c.target /\ Ended(c, code).boot = c.boot
           /\ Ended(c, code).state = c.state /\ Ended(c, code).health = c.health
  BY DEF Ended, Call
-----------------------------------------------------------------------------
(* What goes on while the controller waits *)

Stays ==
    /\ process'.boot = process.boot /\ process'.revision = process.revision
    /\ process'.image = process.image
Moves ==
    /\ process'.boot > process.boot /\ ~process'.draining
    /\ \/ process'.revision = process.revision /\ process'.image = process.image
       \/ process'.revision > process.boot
Turns ==
    /\ process' \in Process /\ process'.revision <= process'.boot
    /\ Stays \/ Moves

\* No session is begun behind a closed gate, and no gate is closed.
Calm ==
    \/ ~process'.draining
    \/ Stays /\ process.draining /\ (process'.active => process.active)

LEMMA Typed ==
    ASSUME RInv
    PROVE  /\ process \in Process /\ process.revision <= process.boot
           /\ process.revision \in Nat /\ process.boot \in Nat
           /\ process.draining \in BOOLEAN /\ process.active \in BOOLEAN
           /\ at = "over" <=> outcome # None
           /\ verified \subseteq Nat
           /\ call = None \/ call \in Call
           /\ client = None \/ client \in Client
  BY ProcessType, MaintenanceAssumption DEF RInv, TypeOK, MaintenanceTypeOK

LEMMA TargetType ==
    ASSUME NEW t \in Target
    PROVE  t.revision \in Nat /\ t.revision \in 1..MaxBoot /\ t.image \in Image
  BY MaintenanceAssumption DEF Target

LEMMA CalmKeeps ==
    ASSUME Calm, NEW b PROVE Idle(b) => Idle(b)'
  BY DEF Calm, Stays, Idle

LEMMA NamesKept ==
    ASSUME RInv, Turns, NEW t \in Target, Names(t) PROVE Names(t)'
<1>1. t.revision \in Nat /\ process.boot \in Nat /\ process'.boot \in Nat
      /\ process'.revision \in Nat
  BY Typed, TargetType, ProcessType DEF Turns
<1> QED
  BY <1>1 DEF Turns, Stays, Moves, Names

LEMMA ControllerAside ==
    ASSUME RInv, Turns, UNCHANGED <<releaseVars, historyVars>>,
           Calm \/ at \in {"drain", "redrain"}
                \/ (at = "over" /\ outcome \notin {"released", "rolled_back"})
    PROVE  Vouched' /\ Chosen' /\ Relied' /\ Reported'
<1>1. Vouched /\ Chosen /\ Relied /\ Reported
  BY DEF RInv
<1>2. /\ at' = at /\ previous' = previous /\ selected' = selected /\ outcome' = outcome
      /\ drained' = drained /\ verified' = verified
  BY DEF releaseVars, historyVars
<1>3. process.boot \in Nat /\ process'.boot \in Nat /\ process'.revision \in Nat
      /\ verified \subseteq Nat
  BY Typed, ProcessType DEF Turns
<1>4. Vouched'
  <2>1. ASSUME NEW v \in verified
        PROVE  v <= process'.boot /\ (v = process'.revision => MayOpen')
    <3>1. v <= process.boot /\ (v = process.revision => MayOpen) /\ v \in Nat
      BY <1>1, <1>3 DEF Vouched
    <3>2. CASE Stays
      BY <1>2, <3>1, <3>2 DEF Stays, MayOpen
    <3>3. CASE Moves
      BY <1>2, <1>3, <3>1, <3>3 DEF Moves, MayOpen
    <3> QED
      BY <3>2, <3>3 DEF Turns
  <2> QED
    BY <1>2, <2>1 DEF Vouched
<1>5. \A t \in Target : Names(t) => Names(t)'
  BY NamesKept
<1>6. Chosen'
  BY <1>1, <1>2, <1>5 DEF Chosen, Names
<1>7. Relied'
  <2>1. at \in {"update", "verify", "restore", "reverify"} =>
          (drained'.boot = process'.boot /\ process'.draining => ~process'.active)
    <3>1. Idle(drained.boot) /\ Calm =>
            (drained.boot = process'.boot /\ process'.draining => ~process'.active)
      BY DEF Calm, Stays, Idle
    <3> QED
      BY <1>1, <1>2, <3>1 DEF Relied
  <2>2. DrainedSelected'
    BY <1>1, <1>2 DEF Relied, DrainedSelected
  <2> QED
    BY <1>2, <2>1, <2>2 DEF Relied, Idle
<1>8. Reported'
  <2> SUFFICES ASSUME outcome \in {"released", "rolled_back"}
               PROVE  /\ selected \in Target /\ Names(selected)'
                      /\ selected.image = IF outcome = "released" THEN Candidate ELSE previous.image
                      /\ process'.revision = selected.revision => ~process'.draining
    BY <1>2 DEF Reported
  <2>1. /\ selected \in Target /\ Names(selected)
        /\ selected.image = IF outcome = "released" THEN Candidate ELSE previous.image
        /\ process.revision = selected.revision => ~process.draining
    BY <1>1 DEF Reported
  <2>2. Names(selected)'
    BY <1>2, <1>5, <2>1
  <2>3. at = "over"
    <3>1. outcome # None
      BY OutcomeAssumption DEF Outcomes
    <3> QED
      BY <3>1, Typed
  <2>4. Calm
    BY <2>3
  <2> QED
    BY <2>1, <2>2, <2>4 DEF Calm, Stays
<1> QED
  BY <1>4, <1>6, <1>7, <1>8

LEMMA CallAside ==
    ASSUME RInv, Turns, UNCHANGED <<call, releaseVars>>,
           Calm \/ call = None \/ ~Alive(call)
             \/ (call.action = "drain" /\ ~Emptied(call))
    PROVE  Issued' /\ Found' /\ RanThere' /\ Untold'
<1>1. Issued /\ Found /\ RanThere /\ Untold
  BY DEF RInv
<1>2. call' = call /\ at' = at /\ previous' = previous /\ selected' = selected
  BY DEF releaseVars
<1>3. Issued'
  <2>1. Command' = Command
    BY <1>2 DEF Command
  <2> QED
    BY <1>1, <1>2, <2>1 DEF Issued
<1>4. ASSUME call # None, Located(call)
      PROVE  call.target \in Target /\ Names(call.target)'
  BY <1>1, <1>4, NamesKept DEF Found
<1>5. Found'
  BY <1>1, <1>2, <1>4 DEF Found, Located, Alive, Names
<1>6. RanThere'
  <2> SUFFICES ASSUME call # None, Ran(call)
               PROVE  /\ call.boot <= process'.boot
                      /\ call.boot = process'.boot => process'.revision = call.target.revision
                      /\ call.action = "drain" /\ Emptied(call) =>
                           (call.boot = process'.boot /\ process'.draining => ~process'.active)
                      /\ call.action = "resume" /\ Done(call) =>
                           (process'.revision = call.target.revision => ~process'.draining)
    BY <1>1, <1>2 DEF RanThere, Ran, Located, Alive, Done, Idle, Opened, Emptied
  <2>1. /\ call.boot <= process.boot /\ call.boot \in Nat
        /\ call.boot = process.boot => process.revision = call.target.revision
        /\ call.action = "drain" /\ Emptied(call) => Idle(call.boot)
        /\ call.action = "resume" /\ Done(call) => Opened
    <3>1. call \in Call
      BY Typed
    <3>2. call.boot \in 0..MaxBoot /\ MaxBoot \in Nat
      BY <3>1, CallType, MaintenanceAssumption
    <3> QED
      BY <1>1, <3>2 DEF RanThere
  <2>2. process.boot \in Nat /\ process'.boot \in Nat
    BY Typed, ProcessType DEF Turns
  <2>3. call.boot <= process'.boot
        /\ (call.boot = process'.boot => process'.revision = call.target.revision)
    BY <2>1, <2>2 DEF Turns, Stays, Moves
  <2>4. Calm \/ (call.action = "drain" /\ ~Emptied(call))
    BY DEF Ran, Located
  <2>5. call.action = "drain" /\ Emptied(call) =>
          (call.boot = process'.boot /\ process'.draining => ~process'.active)
    BY <2>1, <2>4 DEF Calm, Stays, Idle
  <2>6. call.action = "resume" /\ Done(call) =>
          (process'.revision = call.target.revision => ~process'.draining)
    BY <2>1, <2>4 DEF Calm, Stays, Opened
  <2> QED
    BY <2>3, <2>5, <2>6
<1> QED
  BY <1>1, <1>2, <1>3, <1>5, <1>6 DEF Untold

\* The command in the replica does not move, or ends with its process.
LEMMA ClientAside ==
    ASSUME RInv, Turns, UNCHANGED call, Calm \/ call = None \/ ~Alive(call),
           \/ Stays /\ client' = client
           \/ client' = IF client = None THEN None ELSE [client EXCEPT !.running = FALSE]
    PROVE  Listening'
<1>1. Listening
  BY DEF RInv
<1> SUFFICES ASSUME client' # None PROVE Listening'
  BY DEF Listening
<1>2. client # None /\ client \in Client
  BY Typed
<1>3. /\ client'.action = client.action /\ client'.boot = client.boot
      /\ client'.polling = client.polling /\ client'.out = client.out
      /\ client'.running => client.running /\ Stays
  BY <1>2 DEF Client
<1>4. Calm
  BY <1>1, <1>2 DEF Listening, Alive
<1>5. \A b : Idle(b) => (b = process'.boot /\ process'.draining => ~process'.active)
  BY <1>4 DEF Calm, Stays, Idle
<1>6. Opened => (process'.revision = call.target.revision => ~process'.draining)
  BY <1>4 DEF Calm, Stays, Opened
<1>7. client'.running => client'.boot = process'.boot
  BY <1>1, <1>2, <1>3 DEF Listening, Stays
<1> QED
  BY <1>1, <1>2, <1>3, <1>5, <1>6, <1>7 DEF Listening, Idle, Opened, Emptied, Free

\* Strays go on with what they were told, or end.
LEMMA StraysAside ==
    ASSUME RInv, UNCHANGED <<call, releaseVars, historyVars>>,
           \/ stray' = {}
           \/ /\ Stays
              /\ \A c \in stray' : \E s \in stray :
                   c.action = s.action /\ (c.polling => s.polling \/ s.action = "drain")
    PROVE  Strays'
<1>1. at' = at /\ outcome' = outcome /\ verified' = verified
  BY DEF releaseVars, historyVars
<1>2. Strays
  BY DEF RInv
<1>3. CASE stray' = {}
  BY <1>3 DEF Strays
<1>4. CASE /\ Stays
           /\ \A c \in stray' : \E s \in stray :
                c.action = s.action /\ (c.polling => s.polling \/ s.action = "drain")
  <2>1. ASSUME NEW c \in stray'
        PROVE  /\ c.polling => c.action = "drain"
               /\ c.action = "resume" => process'.revision \in verified
               /\ c.action = "drain" =>
                    \/ at = "over" /\ outcome \notin {"released", "rolled_back"}
                    \/ at \in {"drain", "redrain"} /\ call # None /\ ~Alive(call)
    <3>1. PICK s \in stray :
            c.action = s.action /\ (c.polling => s.polling \/ s.action = "drain")
      BY <1>4
    <3> QED
      BY <1>2, <1>4, <3>1 DEF Strays, Stays
  <2> QED
    BY <1>1, <2>1 DEF Strays, Alive
<1> QED
  BY <1>3, <1>4
-----------------------------------------------------------------------------
(* The platform and the replica *)

LEMMA TypeAside ==
    ASSUME TypeOK, MaintenanceTypeOK', UNCHANGED <<releaseVars, historyVars>> PROVE TypeOK'
  BY DEF TypeOK, releaseVars, historyVars

\* A step of the platform, or a stray command.
LEMMA AsideStep ==
    ASSUME RInv, Turns, Calm, MaintenanceTypeOK',
           UNCHANGED <<call, releaseVars, historyVars>>,
           \/ Stays /\ client' = client
           \/ client' = IF client = None THEN None ELSE [client EXCEPT !.running = FALSE],
           \/ stray' = {}
           \/ /\ Stays
              /\ \A c \in stray' : \E s \in stray :
                   c.action = s.action /\ (c.polling => s.polling \/ s.action = "drain")
    PROVE  RInv'
<1>1. TypeOK' /\ process'.revision <= process'.boot
  BY TypeAside DEF RInv, Turns
<1>2. Issued' /\ Found' /\ RanThere' /\ Untold'
  BY CallAside
<1>3. Listening' /\ Strays'
  BY ClientAside, StraysAside
<1>4. Vouched' /\ Chosen' /\ Relied' /\ Reported'
  BY ControllerAside
<1> QED
  BY <1>1, <1>2, <1>3, <1>4 DEF RInv

LEMMA SameProcess ==
    ASSUME RInv, process' = process PROVE Turns /\ Stays /\ Calm
  BY Typed DEF Turns, Stays, Calm

LEMMA GateTurns ==
    ASSUME RInv, NEW b \in BOOLEAN,
           \/ process' = [process EXCEPT !.active = b] /\ (b => ~process.draining)
           \/ process' = [process EXCEPT !.draining = b] /\ ~b
    PROVE  Turns /\ Stays /\ Calm
<1>1. process \in Process /\ process.revision <= process.boot
  BY Typed
<1>2. process' \in Process /\ Stays
  <2>1. CASE process' = [process EXCEPT !.active = b]
    <3>1. process' = [revision |-> process.revision, boot |-> process.boot,
                      image |-> process.image, draining |-> process.draining, active |-> b]
      BY <1>1, <2>1, GateType
    <3> QED
      BY <1>1, <3>1, ProcessType DEF Stays, Process
  <2>2. CASE process' = [process EXCEPT !.draining = b]
    <3>1. process' = [revision |-> process.revision, boot |-> process.boot,
                      image |-> process.image, draining |-> b, active |-> process.active]
      BY <1>1, <2>2, GateType
    <3> QED
      BY <1>1, <3>1, ProcessType DEF Stays, Process
  <2> QED
    BY <2>1, <2>2
<1>3. Calm
  <2>1. CASE process' = [process EXCEPT !.active = b] /\ (b => ~process.draining)
    <3>1. process'.draining = process.draining /\ process'.active = b
      BY <1>1, <2>1, GateType
    <3> QED
      BY <1>1, <1>2, <2>1, <3>1, ProcessType DEF Calm
  <2>2. CASE process' = [process EXCEPT !.draining = b] /\ ~b
    <3>1. process'.draining = b
      BY <1>1, <2>2, GateType
    <3> QED
      BY <2>2, <3>1 DEF Calm
  <2> QED
    BY <2>1, <2>2
<1> QED
  BY <1>1, <1>2, <1>3 DEF Turns, Stays

LEMMA FreshTurns ==
    ASSUME RInv, process.boot < MaxBoot, NEW image \in Image, NEW revision,
           \/ revision = process.revision /\ image = process.image
           \/ revision = process.boot + 1,
           process' = Fresh(revision, image)
    PROVE  Turns /\ Calm
<1>1. /\ process.boot \in Nat /\ process.revision \in 1..MaxBoot /\ MaxBoot \in Nat
      /\ process.revision <= process.boot
  BY Typed, ProcessType, MaintenanceAssumption
<1>2. revision \in 1..MaxBoot /\ process.boot + 1 \in 1..MaxBoot /\ revision <= process.boot + 1
  BY <1>1
<1>3. process' = [revision |-> revision, boot |-> process.boot + 1, image |-> image,
                  draining |-> FALSE, active |-> FALSE]
  BY DEF Fresh
<1>4. process' \in Process
  BY <1>2, <1>3 DEF Process
<1> QED
  BY <1>1, <1>2, <1>3, <1>4 DEF Turns, Moves, Calm

LEMMA ClientStopped ==
    ASSUME RInv PROVE LET stopped == IF client = None THEN None
                                     ELSE [client EXCEPT !.running = FALSE] IN
                      stopped = None \/ stopped \in Client
  BY Typed DEF Client

LEMMA PlatformStep ==
    ASSUME RInv, Platform, UNCHANGED <<releaseVars, historyVars>> PROVE RInv'
<1>1. MaintenanceTypeOK /\ meddling \in Nat
  BY MaintenanceAssumption DEF RInv, TypeOK, MaintenanceTypeOK
<1>2. CASE SessionBegins \/ SessionEnds \/ SomebodyResumes
  <2>1. PICK b \in BOOLEAN :
          \/ process' = [process EXCEPT !.active = b] /\ (b => ~process.draining)
          \/ process' = [process EXCEPT !.draining = b] /\ ~b
    BY <1>2 DEF SessionBegins, SessionEnds, SomebodyResumes
  <2>2. Turns /\ Stays /\ Calm
    BY <2>1, GateTurns
  <2>3. /\ UNCHANGED <<rollout, late, call, client, stray>>
        /\ meddling' = meddling \/ (meddling > 0 /\ meddling' = meddling - 1)
    BY <1>2 DEF SessionBegins, SessionEnds, SomebodyResumes, operatorVars
  <2>4. MaintenanceTypeOK'
    BY <1>1, <2>2, <2>3, MaintenanceAssumption DEF MaintenanceTypeOK, Turns
  <2> QED
    BY <2>2, <2>3, <2>4, AsideStep
<1>3. CASE ProcessRestarts \/ RolloutReady
  <2>1. PICK revision \in Nat, image \in Image :
          /\ process.boot < MaxBoot /\ Replaced(Fresh(revision, image))
          /\ \/ revision = process.revision /\ image = process.image
             \/ revision = process.boot + 1
    <3>1. CASE ProcessRestarts
      <4>1. /\ process.boot < MaxBoot
            /\ Replaced(Fresh(process.revision, process.image))
        BY <3>1 DEF ProcessRestarts
      <4>2. process.image \in Image /\ process.revision \in Nat
        BY Typed, ProcessType
      <4> QED
        BY <4>1, <4>2
    <3>2. CASE RolloutReady
      <4>1. /\ process.boot < MaxBoot /\ rollout # None
            /\ Replaced(Fresh(process.boot + 1, rollout))
        BY <3>2 DEF RolloutReady
      <4>2. rollout \in Image /\ process.boot + 1 \in Nat
        BY <1>1, <4>1, Typed DEF MaintenanceTypeOK
      <4> QED
        BY <4>1, <4>2
    <3> QED
      BY <1>3, <3>1, <3>2
  <2>2. /\ process' = Fresh(revision, image) /\ stray' = {}
        /\ client' = IF client = None THEN None ELSE [client EXCEPT !.running = FALSE]
    BY <2>1 DEF Replaced
  <2>3. Turns /\ Calm
    BY <2>1, <2>2, FreshTurns
  <2>4. /\ UNCHANGED <<late, call>> /\ rollout' \in {rollout, None}
        /\ meddling' = meddling \/ (meddling > 0 /\ meddling' = meddling - 1)
    BY <1>3 DEF ProcessRestarts, RolloutReady
  <2>5. client' = None \/ client' \in Client
    BY <2>2, ClientStopped
  <2>6. MaintenanceTypeOK'
    BY <1>1, <2>2, <2>3, <2>4, <2>5, MaintenanceAssumption DEF MaintenanceTypeOK, Turns
  <2> QED
    BY <2>2, <2>3, <2>4, <2>6, AsideStep
<1>4. CASE \E image \in Image: SomebodyDeploys(image) \/ LateUpdateApplies(image)
  <2>1. PICK image \in Image : SomebodyDeploys(image) \/ LateUpdateApplies(image)
    BY <1>4
  <2>2. /\ UNCHANGED <<process, call, client, stray>>
        /\ rollout' = Accepted(image) /\ late' \subseteq late
        /\ meddling' = meddling \/ (meddling > 0 /\ meddling' = meddling - 1)
    BY <2>1 DEF SomebodyDeploys, LateUpdateApplies, operatorVars
  <2>3. MaintenanceTypeOK'
    BY <1>1, <2>2, MaintenanceAssumption DEF MaintenanceTypeOK, Accepted
  <2> QED
    BY <2>2, <2>3, SameProcess, AsideStep
<1> QED
  BY <1>2, <1>3, <1>4 DEF Platform

LEMMA StrayStep ==
    ASSUME RInv, NEW c \in stray, StrayAsks(c) \/ StrayEnds(c),
           UNCHANGED <<releaseVars, historyVars>>
    PROVE  RInv'
<1>1. MaintenanceTypeOK /\ c \in Client /\ Strays
  BY DEF RInv, TypeOK, MaintenanceTypeOK
<1>2. CASE StrayEnds(c)
  <2>1. UNCHANGED <<platformVars, meddling, call, client>> /\ stray' \subseteq stray
    BY <1>2 DEF StrayEnds
  <2>2. MaintenanceTypeOK'
    BY <1>1, <2>1 DEF MaintenanceTypeOK, platformVars
  <2> QED
    BY <2>1, <2>2, SameProcess, AsideStep DEF platformVars
<1>3. CASE StrayAsks(c)
  <2> DEFINE next == AfterStatus(c, StatusOf(process'))
  <2>1. /\ process' = Answered(Path(c)) /\ UNCHANGED <<rollout, late, meddling, call, client>>
        /\ stray' = (stray \ {c}) \cup (IF next.running THEN {[next EXCEPT !.out = <<>>]} ELSE {})
    BY <1>3 DEF StrayAsks
  <2>2. /\ process' \in Process /\ Stays /\ process'.active = process.active
        /\ process'.draining = CASE Path(c) = "drain" -> TRUE [] Path(c) = "resume" -> FALSE
                                 [] OTHER -> process.draining
    BY <2>1, AnsweredType, Typed DEF Stays
  <2>3. Turns
    BY <2>2, Typed DEF Turns, Stays
  <2>4. next \in Client /\ next.action = c.action
        /\ (next.polling => c.polling \/ c.action = "drain")
    BY <1>1, <2>2, AfterStatusType, ProcessType
  <2> HIDE DEF next
  <2>5. /\ [next EXCEPT !.out = <<>>] \in Client
        /\ [next EXCEPT !.out = <<>>].action = next.action
        /\ [next EXCEPT !.out = <<>>].polling = next.polling
        /\ [next EXCEPT !.out = <<>>].running = next.running
    <3>1. <<>> \in Seq(Lines)
      OBVIOUS
    <3> QED
      BY <2>4, <3>1 DEF Client
  <2>6. \A s \in stray' : s \in stray \/ (next.running /\ s = [next EXCEPT !.out = <<>>])
    BY <2>1
  <2>7. MaintenanceTypeOK'
    BY <1>1, <2>1, <2>2, <2>5, <2>6 DEF MaintenanceTypeOK
  <2>8. \A k \in stray' : \E s \in stray :
          k.action = s.action /\ (k.polling => s.polling \/ s.action = "drain")
    BY <2>4, <2>5, <2>6
  <2>9. CASE Path(c) # "drain"
    <3>1. Calm
      BY <2>2, <2>9, Typed DEF Calm
    <3> QED
      BY <2>1, <2>2, <2>3, <2>7, <2>8, <3>1, AsideStep
  <2>10. CASE Path(c) = "drain"
    <3>1. c.action = "drain"
      BY <2>10 DEF Path
    <3>2. \/ at = "over" /\ outcome \notin {"released", "rolled_back"}
          \/ at \in {"drain", "redrain"} /\ call # None /\ ~Alive(call)
      BY <1>1, <3>1 DEF Strays
    <3>3. call = None \/ ~Alive(call)
      BY <3>2 DEF RInv, Issued
    <3>4. Issued' /\ Found' /\ RanThere' /\ Untold' /\ Listening' /\ Strays'
      BY <2>1, <2>2, <2>3, <2>8, <3>3, CallAside, ClientAside, StraysAside
    <3>5. Vouched' /\ Chosen' /\ Relied' /\ Reported'
      BY <2>3, <3>2, ControllerAside
    <3>6. TypeOK' /\ process'.revision <= process'.boot
      BY <2>3, <2>7, TypeAside DEF RInv, Turns
    <3> QED
      BY <3>4, <3>5, <3>6 DEF RInv
  <2> QED
    BY <2>9, <2>10
<1> QED
  BY <1>2, <1>3

LEMMA ClientStep ==
    ASSUME RInv, ClientAsks, UNCHANGED <<releaseVars, historyVars>> PROVE RInv'
<1>1. /\ client # None /\ client.running /\ UNCHANGED <<rollout, late, meddling, call, stray>>
      /\ client \in Client /\ Listening /\ MaintenanceTypeOK
  BY Typed DEF ClientAsks, RInv, TypeOK, MaintenanceTypeOK
<1>2. /\ call # None /\ call.stage \in {"read", "closing"} /\ Ran(call) /\ Alive(call)
      /\ client.action = call.action /\ client.boot = call.boot /\ client.boot = process.boot
      /\ client.action = "drain" => ~Emptied(call)
      /\ process.revision = call.target.revision /\ process.image = call.target.image
  <2>1. /\ call # None /\ call.stage \in {"read", "closing"}
        /\ client.action = call.action /\ client.boot = call.boot /\ client.boot = process.boot
        /\ client.action = "drain" => ~Emptied(call)
    BY <1>1 DEF Listening
  <2>2. Ran(call) /\ Alive(call) /\ Located(call)
    BY <2>1 DEF Ran, Located, Alive
  <2>3. process.revision = call.target.revision
    BY <2>1, <2>2 DEF RInv, RanThere
  <2> QED
    BY <2>1, <2>2, <2>3 DEF RInv, Found, Names
\* What the command says new is of the process it runs in.
<1>3. /\ process' \in Process /\ Stays /\ Turns /\ client' \in Client
      /\ client'.action = client.action /\ client'.boot = client.boot
      /\ client'.polling => client'.action = "drain"
      /\ Calm \/ client.action = "drain"
      /\ \A i \in DOMAIN client'.out :
           \/ i \in DOMAIN client.out /\ client'.out[i] = client.out[i]
           \/ client'.out[i] \in {Ready, Complaint}
           \/ client.action = "health" /\ client'.out[i] = HealthLine(CommitOf(process.image))
           \/ /\ client.action # "health" /\ client'.out[i] = StatusLine(StatusOf(process'))
              /\ Free(client'.out[i]) => ~client'.running
  <2>1. /\ process \in Process /\ process.image \in Image /\ <<Complaint>> \in Seq(Lines)
        /\ DOMAIN <<Complaint>> = {1} /\ <<Complaint>>[1] = Complaint
    BY Typed, ProcessType, LineKinds
  <2>2. client.polling => client.action = "drain"
    BY <1>1 DEF Listening
  <2>3. /\ Exit(client, <<Complaint>>) \in Client
        /\ Exit(client, <<Complaint>>).action = client.action
        /\ Exit(client, <<Complaint>>).boot = client.boot
        /\ Exit(client, <<Complaint>>).polling = client.polling
        /\ \A i \in DOMAIN Exit(client, <<Complaint>>).out :
             \/ i \in DOMAIN client.out
                /\ Exit(client, <<Complaint>>).out[i] = client.out[i]
             \/ Exit(client, <<Complaint>>).out[i] = Complaint
    BY <1>1, <2>1, Exited
  <2>4. CASE client.action = "health"
    <3> DEFINE l == HealthLine(CommitOf(process.image))
               told == <<l, Ready>>
    <3>1. client' \in {Exit(client, told), Exit(client, <<Complaint>>)} /\ process' = process
      BY <1>1, <2>4 DEF ClientAsks, HealthChecked
    <3>2. l \in Lines /\ Ready \in Lines
      BY <2>1, LineKinds
    <3> HIDE DEF l
    <3>3. told \in Seq(Lines) /\ \A j \in DOMAIN told : told[j] \in {l, Ready}
      BY <3>2
    <3> HIDE DEF told
    <3>4. /\ Exit(client, told) \in Client
          /\ Exit(client, told).action = client.action
          /\ Exit(client, told).boot = client.boot
          /\ Exit(client, told).polling = client.polling
          /\ \A i \in DOMAIN Exit(client, told).out :
               \/ i \in DOMAIN client.out /\ Exit(client, told).out[i] = client.out[i]
               \/ Exit(client, told).out[i] \in {l, Ready}
      BY <1>1, <3>3, Exited
    <3>5. Turns /\ Stays /\ Calm /\ process' \in Process
      BY <2>1, <3>1, SameProcess
    <3>6. CASE client' = Exit(client, told)
      BY <2>2, <2>4, <3>4, <3>5, <3>6 DEF l
    <3>7. CASE client' = Exit(client, <<Complaint>>)
      BY <2>2, <2>3, <3>5, <3>7
    <3> QED
      BY <3>1, <3>6, <3>7
  <2>5. CASE client.action # "health"
    <3> DEFINE s == StatusOf(process')
               r == AfterStatus(client, s)
    <3>1. \/ process' = Answered(Path(client)) /\ client' = r
          \/ /\ process' \in {process, Answered(Path(client))}
             /\ client' = Exit(client, <<Complaint>>)
      BY <1>1, <2>5 DEF ClientAsks
    <3>2. /\ Answered(Path(client)) \in Process
          /\ Answered(Path(client)).boot = process.boot
          /\ Answered(Path(client)).image = process.image
          /\ Answered(Path(client)).revision = process.revision
          /\ Answered(Path(client)).active = process.active
          /\ Path(client) # "drain" => Answered(Path(client)).draining \in {process.draining, FALSE}
      BY <2>1, AnsweredType
    <3>3. process' \in Process /\ Stays
      BY <2>1, <3>1, <3>2 DEF Stays
    <3>4. Turns
      BY <3>3, Typed DEF Turns, Stays
    <3>5. Calm \/ client.action = "drain"
      <4>1. Path(client) = "drain" => client.action = "drain"
        BY DEF Path
      <4> QED
        BY <2>1, <3>1, <3>2, <3>3, <4>1, ProcessType DEF Calm
    <3>6. s \in Status /\ StatusLine(s).status = s
      BY <3>3, ProcessType, LineKinds
    <3>7. /\ r \in Client /\ r.action = client.action /\ r.boot = client.boot
          /\ r.polling => client.polling \/ client.action = "drain"
          /\ r.running => s.active
          /\ \A i \in DOMAIN r.out :
               \/ i \in DOMAIN client.out /\ r.out[i] = client.out[i]
               \/ r.out[i] \in {StatusLine(s), Ready, Complaint}
      BY <1>1, <3>6, AfterStatusType
    <3> HIDE DEF s, r
    <3>8. CASE client' = r
      <4>1. Free(StatusLine(s)) => ~r.running
        BY <3>6, <3>7 DEF Free
      <4> QED
        BY <2>2, <2>5, <3>3, <3>4, <3>5, <3>7, <3>8, <4>1 DEF s
    <3>9. CASE client' = Exit(client, <<Complaint>>)
      BY <2>2, <2>3, <3>3, <3>4, <3>5, <3>9
    <3> QED
      BY <3>1, <3>8, <3>9 DEF r
  <2> QED
    BY <2>4, <2>5
<1>4. Issued' /\ Found' /\ RanThere' /\ Untold'
  BY <1>1, <1>2, <1>3, CallAside
<1>5. Vouched' /\ Chosen' /\ Relied' /\ Reported'
  <2>1. client.action = "drain" => at \in {"drain", "redrain"}
    BY <1>2 DEF RInv, Issued, Command, Asking, TypeOK, Stages
  <2> QED
    BY <1>3, <2>1, ControllerAside
<1>6. Strays'
  BY <1>1, <1>3, StraysAside
<1>7. Listening'
  <2>1. client'.running => client'.boot = process'.boot
    BY <1>2, <1>3 DEF Stays
  <2>2. ASSUME NEW i \in DOMAIN client'.out
        PROVE  /\ client'.out[i].kind = "health" =>
                    /\ client'.action = "health"
                    /\ client'.out[i].commit = CommitOf(call.target.image)
               /\ client'.action = "health" => client'.out[i].kind # "status"
               /\ client'.action = "drain" /\ Free(client'.out[i]) =>
                    /\ ~client'.running
                    /\ client'.boot = process'.boot /\ process'.draining => ~process'.active
               /\ client'.action = "resume" /\ client'.out[i].kind = "status" =>
                    \/ client'.out[i].status.draining
                    \/ process'.revision = call.target.revision => ~process'.draining
    <3>1. process.image \in Image /\ StatusOf(process') \in Status
          /\ StatusOf(process').draining = process'.draining
          /\ StatusOf(process').active = process'.active
      BY <1>3, Typed, ProcessType
    <3>2. CASE i \in DOMAIN client.out /\ client'.out[i] = client.out[i]
      <4>1. /\ client.out[i].kind = "health" =>
                 client.action = "health" /\ client.out[i].commit = CommitOf(call.target.image)
            /\ client.action = "health" => client.out[i].kind # "status"
            /\ ~(client.action = "drain" /\ Free(client.out[i]))
            /\ client.action = "resume" /\ client.out[i].kind = "status" =>
                 client.out[i].status.draining \/ Opened
        BY <1>1, <3>2 DEF Listening
      <4>2. client.action = "resume" /\ Opened =>
              (process'.revision = call.target.revision => ~process'.draining)
        BY <1>3 DEF Calm, Stays, Opened
      <4> QED
        BY <1>3, <3>2, <4>1, <4>2
    <3>3. CASE client'.out[i] \in {Ready, Complaint}
      BY <3>3, LineKinds DEF Free
    <3>4. CASE client.action = "health" /\ client'.out[i] = HealthLine(CommitOf(process.image))
      BY <1>2, <1>3, <3>1, <3>4, LineKinds DEF Free
    <3>5. CASE /\ client.action # "health" /\ client'.out[i] = StatusLine(StatusOf(process'))
               /\ Free(client'.out[i]) => ~client'.running
      <4>1. client'.out[i].kind = "status" /\ client'.out[i].status = StatusOf(process')
        BY <3>1, <3>5, LineKinds
      <4> QED
        BY <1>3, <3>1, <3>5, <4>1 DEF Free
    <3> QED
      BY <1>3, <3>2, <3>3, <3>4, <3>5
  <2> QED
    BY <1>1, <1>2, <1>3, <2>1, <2>2 DEF Listening, Idle, Opened, Free, Emptied
<1>8. TypeOK' /\ process'.revision <= process'.boot
  <2>1. MaintenanceTypeOK'
    BY <1>1, <1>3 DEF MaintenanceTypeOK
  <2> QED
    BY <1>3, <2>1, TypeAside DEF RInv, Turns
<1> QED
  BY <1>4, <1>5, <1>6, <1>7, <1>8 DEF RInv
-----------------------------------------------------------------------------
(* The operator *)

LEMMA CommandFacts ==
    ASSUME RInv, call # None
    PROVE  /\ at \notin {"update", "restore", "over"} /\ call \in Call
           /\ call.action = "drain" <=> at \in {"drain", "redrain"}
           /\ call.action = "resume" <=> at \in {"resume", "reopen"}
           /\ call.action = "health" <=> at \in {"health", "verify", "reverify"}
           /\ at \in {"drain", "redrain", "resume", "reopen"} =>
                call.pin = selected.revision /\ call.image = selected.image
           /\ at = "verify" => call.image = Candidate /\ call.commit = CandidateCommit
           /\ at = "reverify" => call.image = previous.image /\ call.commit = previous.commit
  BY Typed DEF RInv, Issued, Command, Asking, TypeOK, Stages

\* While a command is on its way no stray drain is left.
LEMMA NoStrayDrain ==
    ASSUME RInv, call # None => Alive(call), at # "over", NEW c \in stray
    PROVE  c.action # "drain"
  BY DEF RInv, Strays

LEMMA OperatorAside ==
    ASSUME RInv, UNCHANGED <<platformVars, meddling, releaseVars, historyVars>>,
           call # None, call' \in Call, call'.action = call.action, call'.pin = call.pin,
           call'.image = call.image, call'.commit = call.commit,
           client' = None \/ client' \in Client,
           \A c \in stray' : c \in Client /\ c.running
    PROVE  /\ TypeOK' /\ process'.revision <= process'.boot
           /\ Issued' /\ Vouched' /\ Chosen' /\ Relied' /\ Reported'
           /\ process' = process /\ UNCHANGED <<releaseVars, historyVars>>
<1>1. process' = process /\ Turns /\ Stays /\ Calm
  BY SameProcess DEF platformVars
<1>2. MaintenanceTypeOK'
  <2>1. MaintenanceTypeOK /\ UNCHANGED <<process, rollout, late, meddling>>
    BY DEF RInv, TypeOK, platformVars
  <2> QED
    BY <2>1 DEF MaintenanceTypeOK
<1>3. TypeOK' /\ process'.revision <= process'.boot
  BY <1>1, <1>2, TypeAside DEF RInv, Turns
<1>4. Vouched' /\ Chosen' /\ Relied' /\ Reported'
  BY <1>1, ControllerAside
<1>5. Issued'
  <2>1. Command' = Command /\ at' = at
    BY DEF releaseVars, Command
  <2> QED
    BY <2>1 DEF RInv, Issued
<1> QED
  BY <1>1, <1>3, <1>4, <1>5

\* A command on its way that goes on: what is left to show of the step.
LEMMA GoesOn ==
    ASSUME RInv, UNCHANGED <<platformVars, meddling, stray, releaseVars, historyVars>>,
           Busy, call' \in Call, call'.action = call.action, call'.pin = call.pin,
           call'.image = call.image, call'.commit = call.commit,
           client' = None \/ client' \in Client,
           Found', RanThere', Untold', Listening'
    PROVE  RInv'
<1>1. /\ TypeOK' /\ process'.revision <= process'.boot
      /\ Issued' /\ Vouched' /\ Chosen' /\ Relied' /\ Reported' /\ process' = process
      /\ UNCHANGED <<at, verified>>
  BY OperatorAside DEF RInv, TypeOK, MaintenanceTypeOK, Busy, releaseVars, historyVars
<1>2. Strays'
  <2>1. \A c \in stray : c.action # "drain"
    BY NoStrayDrain, CommandFacts DEF Busy, Alive
  <2> QED
    BY <1>1, <2>1 DEF RInv, Strays
<1> QED
  BY <1>1, <1>2 DEF RInv

\* A command that fails; what runs in the replica may outlive it.
LEMMA CallDies ==
    ASSUME RInv, UNCHANGED <<platformVars, meddling, releaseVars, historyVars>>,
           Busy, NEW failed \in Call, failed.stage = "done", failed.code # "ok",
           failed.action = call.action, failed.pin = call.pin, failed.image = call.image,
           failed.commit = call.commit, call' = failed,
           client' = None,
           \/ stray' = stray
           \/ /\ client # None /\ client.running /\ client.action # "health"
              /\ stray' = stray \cup {[client EXCEPT !.out = <<>>]}
    PROVE  RInv'
<1> DEFINE left == [client EXCEPT !.out = <<>>]
<1>1. client # None =>
        /\ left \in Client /\ left.running = client.running
        /\ left.action = client.action /\ left.polling = client.polling
  <2>1. <<>> \in Seq(Lines)
    OBVIOUS
  <2> QED
    BY <2>1, Typed DEF Client
<1> HIDE DEF left
<1>2. \A c \in stray' : c \in stray \/ (client # None /\ client.running /\ c = left)
  BY DEF left
<1>3. \A c \in stray' : c \in Client /\ c.running
  BY <1>1, <1>2 DEF RInv, TypeOK, MaintenanceTypeOK
<1>4. /\ TypeOK' /\ process'.revision <= process'.boot
      /\ Issued' /\ Vouched' /\ Chosen' /\ Relied' /\ Reported' /\ process' = process
      /\ UNCHANGED <<at, verified>>
  BY <1>3, OperatorAside DEF Busy, releaseVars, historyVars
<1>5. ~Alive(failed) /\ Found' /\ RanThere' /\ Untold' /\ Listening'
  BY DEF Found, RanThere, Untold, Listening, Ran, Located, Alive
<1>6. call' # None
  BY NoneAssumption
<1>7. Strays'
  <2>1. ASSUME NEW c \in stray
        PROVE  /\ c.polling => c.action = "drain"
               /\ c.action = "resume" => process.revision \in verified
               /\ c.action # "drain"
    BY NoStrayDrain, CommandFacts DEF RInv, Strays, Busy, Alive
  <2>2. ASSUME client # None, client.running
        PROVE  /\ left.polling => left.action = "drain"
               /\ left.action = "resume" => process.revision \in verified
               /\ left.action = "drain" => at \in {"drain", "redrain"}
    <3>1. /\ call # None /\ call.stage \in {"read", "closing"} /\ client.action = call.action
          /\ call.boot = process.boot /\ (client.polling => client.action = "drain")
      BY <2>2 DEF RInv, Listening
    <3>2. Ran(call) /\ Located(call)
      BY <3>1 DEF Ran, Located, Alive
    <3>3. process.revision = call.target.revision
          /\ (call.pin # None => call.target.revision = call.pin)
      BY <3>1, <3>2 DEF RInv, RanThere, Found
    <3>4. call.action = "resume" => process.revision \in verified
      <4> SUFFICES ASSUME call.action = "resume" PROVE process.revision \in verified
        OBVIOUS
      <4>1. at \in {"resume", "reopen"} /\ call.pin = selected.revision
        BY <3>1, CommandFacts
      <4>2. selected \in Target /\ selected.revision \in verified
        BY <4>1 DEF RInv, Chosen
      <4>3. selected.revision # None
        BY <4>2, TargetType, NoneAssumption
      <4> QED
        BY <3>3, <4>1, <4>2, <4>3
    <3>5. call.action = "drain" => at \in {"drain", "redrain"}
      BY <3>1, CommandFacts
    <3> QED
      BY <1>1, <2>2, <3>1, <3>4, <3>5
  <2> QED
    BY <1>2, <1>4, <1>5, <1>6, <2>1, <2>2 DEF Strays
<1> QED
  BY <1>4, <1>5, <1>7 DEF RInv

LEMMA EndedDies ==
    ASSUME RInv, UNCHANGED <<platformVars, meddling, releaseVars, historyVars>>, Busy,
           NEW code \in Codes \ {"ok"}, call' = Ended(call, code),
           Leave \/ (client' = None /\ stray' = stray)
    PROVE  RInv'
<1>1. call \in Call
  BY Typed DEF Busy
<1> DEFINE failed == Ended(call, code)
<1>2. /\ failed \in Call /\ failed.stage = "done" /\ failed.code # "ok"
      /\ failed.action = call.action /\ failed.pin = call.pin /\ failed.image = call.image
      /\ failed.commit = call.commit
  <2>1. code \in Codes /\ code # "ok"
    OBVIOUS
  <2> QED
    BY <1>1, <2>1, EndedType
<1>3. /\ client' = None
      /\ \/ stray' = stray
         \/ /\ client # None /\ client.running /\ client.action # "health"
            /\ stray' = stray \cup {[client EXCEPT !.out = <<>>]}
  BY DEF Leave
<1> HIDE DEF failed
<1> QED
  BY <1>2, <1>3, CallDies DEF failed

LEMMA DiscoverStep ==
    ASSUME RInv, Discover, UNCHANGED <<releaseVars, historyVars>> PROVE RInv'
<1>1. /\ Busy /\ call # None /\ call.stage = "discover" /\ call' = Discovered(call)
      /\ UNCHANGED <<platformVars, meddling, client, stray>> /\ call \in Call
  BY Typed DEF Discover, Busy
<1>2. client = None
  BY <1>1 DEF RInv, Listening
<1>3. CASE call' = Ended(call, "revision_mismatch") \/ call' = Ended(call, "image_mismatch")
  BY <1>1, <1>2, <1>3, EndedDies DEF Codes, RetryableCodes
<1>4. CASE /\ ~(call.pin # None /\ call.pin # process.revision)
           /\ ~(call.image # None /\ call.image # process.image)
           /\ call' = [call EXCEPT !.stage = "exec",
                         !.target = [revision |-> process.revision, image |-> process.image]]
  <2> DEFINE t == [revision |-> process.revision, image |-> process.image]
  <2>1. t \in Target /\ Names(t) /\ t.revision = process.revision /\ t.image = process.image
    BY Typed, ProcessType DEF Target, Names
  <2> HIDE DEF t
  <2>2. /\ call' \in Call /\ call'.target = t /\ call'.stage = "exec"
        /\ call'.action = call.action /\ call'.pin = call.pin /\ call'.image = call.image
        /\ call'.commit = call.commit /\ call'.state = call.state /\ call'.health = call.health
    <3>1. call' = [call EXCEPT !.stage = "exec", !.target = t]
      BY <1>4 DEF t
    <3> QED
      BY <1>1, <2>1, <3>1 DEF Call
  <2>3. Untold'
    BY <1>1, <2>2 DEF RInv, Untold
  <2>4. process' = process
    BY <1>1 DEF platformVars
  <2>5. Found'
    BY <1>4, <2>1, <2>2, <2>4 DEF Found, Names
  <2>6. RanThere' /\ Listening'
    BY <1>1, <1>2, <2>2 DEF RanThere, Listening, Ran, Located
  <2> QED
    BY <1>1, <1>2, <2>2, <2>3, <2>5, <2>6, GoesOn
<1> QED
  BY <1>1, <1>3, <1>4 DEF Discovered

LEMMA ExecStep ==
    ASSUME RInv, Exec, UNCHANGED <<releaseVars, historyVars>> PROVE RInv'
<1>1. /\ Busy /\ call # None /\ call.stage = "exec"
      /\ UNCHANGED <<platformVars, meddling, stray>> /\ call \in Call
  BY Typed DEF Exec, Busy
<1>2. client = None
  BY <1>1 DEF RInv, Listening
<1>3. CASE call' = Ended(call, "transport") /\ UNCHANGED client
  BY <1>1, <1>2, <1>3, EndedDies DEF Codes, RetryableCodes
<1>4. CASE /\ call.target.revision = process.revision
           /\ call' = [call EXCEPT !.stage = "read", !.boot = process.boot]
           /\ client' = [boot |-> process.boot, action |-> call.action, polling |-> FALSE,
                         polls |-> Polls, running |-> TRUE, out |-> <<>>]
  <2>1. process.boot \in 0..MaxBoot /\ process.boot \in 1..MaxBoot /\ process.boot \in Nat
    BY Typed, ProcessType, MaintenanceAssumption
  <2>2. /\ call' \in Call /\ call'.target = call.target /\ call'.stage = "read"
        /\ call'.action = call.action /\ call'.pin = call.pin /\ call'.image = call.image
        /\ call'.commit = call.commit /\ call'.state = call.state /\ call'.health = call.health
        /\ call'.boot = process.boot
    BY <1>1, <1>4, <2>1 DEF Call
  <2>3. /\ client' \in Client /\ client'.out = <<>> /\ client'.boot = process.boot
        /\ client'.action = call.action /\ ~client'.polling
    <3>1. <<>> \in Seq(Lines) /\ Polls \in 0..Polls /\ call.action \in Actions
      BY <1>1, CallType, MaintenanceAssumption
    <3> QED
      BY <1>4, <2>1, <3>1 DEF Client
  <2>4. call.state = None /\ call.health = None
    BY <1>1 DEF RInv, Untold
  <2>5. process' = process
    BY <1>1 DEF platformVars
  <2>6. Found'
    <3>1. Located(call)
      BY <1>1 DEF Located, Alive
    <3> QED
      BY <1>1, <2>2, <2>5, <3>1 DEF RInv, Found, Names
  <2>7. RanThere'
    BY <1>4, <2>1, <2>2, <2>4, <2>5 DEF RanThere, Emptied, Done
  <2>8. Untold'
    BY <2>2 DEF Untold
  <2>9. Listening'
    <3>1. DOMAIN client'.out = {} /\ call' # None
      BY <2>2, <2>3, NoneAssumption
    <3> QED
      BY <2>2, <2>3, <2>4, <2>5, <3>1 DEF Listening, Emptied
  <2> QED
    BY <1>1, <2>2, <2>3, <2>6, <2>7, <2>8, <2>9, GoesOn
<1> QED
  BY <1>3, <1>4 DEF Exec

\* What one line of output makes of the call.
LEMMA VerifiedType ==
    ASSUME NEW c \in Call, c.stage \in {"read", "closing"}, NEW line \in Lines
    PROVE  LET v == Verified(c, line) IN
           /\ v \in Call /\ v.action = c.action /\ v.pin = c.pin /\ v.image = c.image
           /\ v.commit = c.commit /\ v.target = c.target /\ v.boot = c.boot
           /\ \/ v = Ended(c, "fatal")
              \/ /\ v.stage \in {"read", "closing"} /\ c.stage = "read"
                 /\ v.state = c.state /\ v.health = c.health /\ line.kind = "ready"
                 /\ IF c.action = "drain" THEN Emptied(c) ELSE c.health # None
              \/ /\ v.stage = "read" /\ c.stage = "read"
                 /\ v.state = c.state /\ line.kind = "health" /\ v.health = line.commit
              \/ /\ v.stage \in {"read", "closing"} /\ c.stage = "read"
                 /\ v.health = c.health /\ line.kind = "status" /\ v.state = line.status
                 /\ ~Conflicting(c, line.status)
                 /\ v.stage = "closing" => c.action # "drain"
<1>1. /\ line.kind \in {"stderr", "ready", "health", "status"}
      /\ line.kind = "status" => line.status \in Status
      /\ line.kind = "health" => line.commit \in Commits
  BY LineKinds DEF Lines, StatusLine, HealthLine, Ready, Complaint
<1>2. "fatal" \in Codes
  BY DEF Codes
<1>3. CASE Verified(c, line) = Ended(c, "fatal")
  <2> DEFINE failed == Ended(c, "fatal")
  <2>1. /\ failed \in Call /\ failed.action = c.action /\ failed.pin = c.pin
        /\ failed.image = c.image /\ failed.commit = c.commit
        /\ failed.target = c.target /\ failed.boot = c.boot
    BY <1>2, EndedType
  <2> HIDE DEF failed
  <2>2. Verified(c, line) = failed
    BY <1>3 DEF failed
  <2> QED
    BY <2>1, <2>2 DEF failed
<1>4. CASE /\ Verified(c, line) = [c EXCEPT !.stage = "closing"]
           /\ c.stage # "closing" /\ line.kind = "ready"
           /\ IF c.action = "drain" THEN Emptied(c) ELSE c.health # None
  BY <1>4 DEF Call
<1>5. CASE /\ Verified(c, line) = [c EXCEPT !.health = line.commit]
           /\ c.stage # "closing" /\ line.kind = "health"
  <2>1. line.commit \in Commits
    BY <1>1, <1>5
  <2> QED
    BY <1>5, <2>1 DEF Call, Commits
<1>6. CASE /\ Verified(c, line) = [c EXCEPT !.state = line.status,
                                     !.stage = IF c.action = "drain" THEN "read" ELSE "closing"]
           /\ c.stage # "closing" /\ line.kind = "status" /\ ~Conflicting(c, line.status)
  <2>1. line.status \in Status
    BY <1>1, <1>6
  <2> QED
    BY <1>6, <2>1 DEF Call
<1> QED
  BY <1>1, <1>3, <1>4, <1>5, <1>6 DEF Verified, Proved, Emptied

LEMMA Heard ==
    ASSUME NEW out \in Seq(Lines), out # <<>>
    PROVE  /\ Head(out) \in Lines /\ Head(out) = out[1] /\ 1 \in DOMAIN out
           /\ Tail(out) \in Seq(Lines)
           /\ \A i \in DOMAIN Tail(out) : i + 1 \in DOMAIN out /\ Tail(out)[i] = out[i + 1]
  OBVIOUS

LEMMA ReadLineStep ==
    ASSUME RInv, ReadLine, UNCHANGED <<releaseVars, historyVars>> PROVE RInv'
<1>1. /\ Busy /\ client # None /\ client.out # <<>> /\ call' = Verified(call, Head(client.out))
      /\ UNCHANGED <<platformVars, meddling>> /\ call # None /\ call \in Call
      /\ client \in Client
  BY Typed DEF ReadLine, Busy, platformVars
<1>2. Listening /\ Found /\ RanThere
  BY DEF RInv
<1>3. /\ call.stage \in {"read", "closing"} /\ client.action = call.action
      /\ client.boot = call.boot
  BY <1>1, <1>2 DEF Listening
<1> DEFINE line == Head(client.out)
           rest == Tail(client.out)
<1>4. /\ line \in Lines /\ line = client.out[1] /\ 1 \in DOMAIN client.out
      /\ rest \in Seq(Lines)
      /\ \A i \in DOMAIN rest : i + 1 \in DOMAIN client.out /\ rest[i] = client.out[i + 1]
  BY <1>1, ClientType, Heard
<1> HIDE DEF line, rest
<1>5. /\ call' \in Call /\ call'.action = call.action /\ call'.pin = call.pin
      /\ call'.image = call.image /\ call'.commit = call.commit
      /\ call'.target = call.target /\ call'.boot = call.boot
      /\ \/ call' = Ended(call, "fatal")
         \/ /\ call'.stage \in {"read", "closing"} /\ call.stage = "read"
            /\ call'.state = call.state /\ call'.health = call.health /\ line.kind = "ready"
            /\ IF call.action = "drain" THEN Emptied(call) ELSE call.health # None
         \/ /\ call'.stage = "read" /\ call.stage = "read"
            /\ call'.state = call.state /\ line.kind = "health" /\ call'.health = line.commit
         \/ /\ call'.stage \in {"read", "closing"} /\ call.stage = "read"
            /\ call'.health = call.health /\ line.kind = "status" /\ call'.state = line.status
            /\ ~Conflicting(call, line.status)
            /\ call'.stage = "closing" => call.action # "drain"
  <2>1. call' = Verified(call, line)
    BY <1>1 DEF line
  <2> QED
    BY <1>1, <1>3, <1>4, <2>1, VerifiedType
<1>6. CASE call' = Ended(call, "fatal")
  <2>1. "fatal" \in Codes \ {"ok"} /\ call'.stage = "done"
    BY <1>1, <1>6, EndedType DEF Codes
  <2>2. Leave
    BY <2>1 DEF ReadLine
  <2> QED
    BY <1>1, <1>6, <2>1, <2>2, EndedDies
<1>7. CASE call' # Ended(call, "fatal")
  <2>1. call'.stage \in {"read", "closing"} /\ call.stage = "read"
    BY <1>5, <1>7
  <2>2. /\ UNCHANGED stray /\ client' \in Client /\ client'.out = rest
        /\ client'.action = client.action /\ client'.boot = client.boot
        /\ client'.running = client.running /\ client'.polling = client.polling
    <3>1. client' = [client EXCEPT !.out = rest] /\ UNCHANGED stray
      BY <2>1 DEF ReadLine, rest
    <3> QED
      BY <1>1, <1>4, <3>1 DEF Client
  <2>3. process' = process /\ at' = at /\ previous' = previous /\ selected' = selected
    BY <1>1 DEF platformVars, releaseVars
  <2>4. call' # None
    BY <1>5, NoneAssumption
  <2>5. Located(call) /\ Ran(call)
    BY <2>1 DEF Located, Alive, Ran
  <2>6. /\ line.kind = "health" =>
             call.action = "health" /\ line.commit = CommitOf(call.target.image)
        /\ call.action = "health" => line.kind # "status"
        /\ call.action = "drain" /\ Free(line) => ~client.running /\ Idle(client.boot)
        /\ call.action = "resume" /\ line.kind = "status" => line.status.draining \/ Opened
    BY <1>1, <1>2, <1>3, <1>4 DEF Listening
  <2>7. Found'
    BY <1>1, <1>2, <1>5, <2>3, <2>5 DEF Found, Names
  <2>8. call.action = "drain" /\ Emptied(call)' => Idle(call.boot) /\ ~client.running
    <3>1. CASE call'.state = call.state
      BY <1>1, <1>2, <1>3, <2>5, <3>1 DEF Emptied, Listening, RanThere
    <3>2. CASE line.kind = "status" /\ call'.state = line.status
      BY <1>3, <2>6, <3>2 DEF Emptied, Free
    <3> QED
      BY <1>5, <1>7, <3>1, <3>2
  <2>9. RanThere'
    <3>1. /\ call.boot <= process.boot
          /\ call.boot = process.boot => process.revision = call.target.revision
          /\ call.health # None =>
               call.action = "health" /\ call.health = CommitOf(call.target.image)
      BY <1>1, <1>2, <2>5 DEF RanThere
    <3>2. call'.health # None =>
            call.action = "health" /\ call'.health = CommitOf(call.target.image)
      BY <1>5, <1>7, <2>6, <3>1
    <3>3. Done(call)' =>
            /\ call.action = "resume" => Opened
            /\ call.action = "drain" => Emptied(call)'
            /\ call.action = "health" => call'.health # None
      <4> SUFFICES ASSUME Done(call)'
                   PROVE  /\ call.action = "resume" => Opened
                          /\ call.action = "drain" => Emptied(call)'
                          /\ call.action = "health" => call'.health # None
        OBVIOUS
      <4>1. call'.stage = "closing"
        BY <2>1 DEF Done
      <4>2. CASE /\ call'.state = call.state /\ call'.health = call.health /\ line.kind = "ready"
                 /\ IF call.action = "drain" THEN Emptied(call) ELSE call.health # None
        BY <3>1, <4>2 DEF Emptied
      <4>3. CASE /\ call'.health = call.health /\ line.kind = "status" /\ call'.state = line.status
                 /\ ~Conflicting(call, line.status) /\ call.action # "drain"
        BY <2>6, <4>3 DEF Conflicting
      <4> QED
        BY <1>5, <1>7, <4>1, <4>2, <4>3
    <3> QED
      BY <1>3, <1>5, <2>3, <2>8, <3>1, <3>2, <3>3 DEF RanThere, Idle, Opened, Emptied
  <2>10. Untold'
    BY <2>1 DEF Untold
  <2>11. Listening'
    <3>1. /\ client.running => client.boot = process.boot
          /\ client.polling => client.action = "drain"
      BY <1>1, <1>2 DEF Listening
    <3>2. client.running /\ client.action = "drain" => ~Emptied(call)'
      BY <1>3, <2>8
    <3>3. ASSUME NEW i \in DOMAIN rest
          PROVE  /\ rest[i].kind = "health" =>
                      client.action = "health" /\ rest[i].commit = CommitOf(call.target.image)
                 /\ client.action = "health" => rest[i].kind # "status"
                 /\ client.action = "drain" /\ Free(rest[i]) =>
                      ~client.running /\ Idle(client.boot)
                 /\ client.action = "resume" /\ rest[i].kind = "status" =>
                      rest[i].status.draining \/ Opened
      <4>1. i + 1 \in DOMAIN client.out /\ rest[i] = client.out[i + 1]
        BY <1>4
      <4> QED
        BY <1>1, <1>2, <4>1 DEF Listening
    <3> QED
      BY <1>3, <1>5, <2>1, <2>2, <2>3, <2>4, <3>1, <3>2, <3>3
      DEF Listening, Idle, Opened, Free, Emptied
  <2> QED
    BY <1>1, <1>5, <2>2, <2>7, <2>9, <2>10, <2>11, GoesOn
<1> QED
  BY <1>6, <1>7

LEMMA SocketClosesStep ==
    ASSUME RInv, SocketCloses, UNCHANGED <<releaseVars, historyVars>> PROVE RInv'
<1>1. /\ Busy /\ client # None /\ client' = None
      /\ call' = Ended(call, IF Proved(call) THEN "ok" ELSE "fatal")
      /\ UNCHANGED <<platformVars, meddling, stray>> /\ call # None /\ call \in Call
  BY Typed DEF SocketCloses, Busy
<1>2. CASE ~Proved(call)
  <2>1. "fatal" \in Codes \ {"ok"} /\ call' = Ended(call, "fatal")
    BY <1>1, <1>2 DEF Codes
  <2> QED
    BY <1>1, <2>1, EndedDies
<1>3. CASE Proved(call)
  <2>1. "ok" \in Codes /\ call' = Ended(call, "ok")
    BY <1>1, <1>3 DEF Codes
  <2>2. /\ call' \in Call /\ call'.stage = "done" /\ call'.code = "ok"
        /\ call'.action = call.action /\ call'.pin = call.pin /\ call'.image = call.image
        /\ call'.commit = call.commit /\ call'.target = call.target /\ call'.boot = call.boot
        /\ call'.state = call.state /\ call'.health = call.health
    BY <1>1, <2>1, EndedType
  <2>3. Done(call) /\ Ran(call) /\ Located(call)
    BY <1>3 DEF Proved, Done, Ran, Located, Alive
  <2>4. process' = process
    BY <1>1 DEF platformVars
  <2>5. Found'
    BY <1>1, <2>2, <2>3, <2>4 DEF RInv, Found, Names
  <2>6. RanThere'
    BY <1>1, <2>2, <2>3, <2>4 DEF RInv, RanThere, Idle, Opened, Emptied
  <2>7. Untold' /\ Listening'
    BY <1>1, <2>2 DEF Untold, Listening
  <2> QED
    BY <1>1, <2>2, <2>5, <2>6, <2>7, GoesOn
<1> QED
  BY <1>2, <1>3

LEMMA OperatorStep ==
    ASSUME RInv, Operator, UNCHANGED <<releaseVars, historyVars>> PROVE RInv'
<1>1. ASSUME NEW code \in {"transport", "fatal"}, CallFails(code) PROVE RInv'
  <2>1. code \in Codes \ {"ok"}
    BY DEF Codes, RetryableCodes
  <2> QED
    BY <1>1, <2>1, EndedDies DEF CallFails
<1> QED
  BY <1>1, DiscoverStep, ExecStep, ReadLineStep, SocketClosesStep DEF Operator
-----------------------------------------------------------------------------
(* The controller *)

LEMMA CommandType ==
    ASSUME RInv, at \notin {"update", "restore", "over"}
    PROVE  /\ Command \in Call /\ Command.stage = "discover"
           /\ Command.state = None /\ Command.health = None
<1>1. ASSUME NEW a \in Actions, NEW p \in {None} \cup (1..MaxBoot), NEW i \in {None} \cup Image,
             NEW m \in {None} \cup Commits
      PROVE  /\ Asking(a, p, i, m) \in Call /\ Asking(a, p, i, m).stage = "discover"
             /\ Asking(a, p, i, m).state = None /\ Asking(a, p, i, m).health = None
  <2>1. 0 \in 0..MaxBoot /\ "ok" \in Codes
    BY MaintenanceAssumption DEF Codes
  <2> QED
    BY <2>1 DEF Asking, Call, Commits
<1>2. at \in Stages
  BY DEF RInv, TypeOK
<1>3. CASE at \in {"health", "status"}
  BY <1>1, <1>3 DEF Command, Actions
<1>4. CASE at \in {"drain", "redrain", "resume", "reopen"}
  <2>1. selected.revision \in 1..MaxBoot /\ selected.image \in Image
    BY <1>4, TargetType DEF RInv, Chosen
  <2>2. Command = Asking(IF at \in {"drain", "redrain"} THEN "drain" ELSE "resume",
                         selected.revision, selected.image, None)
    BY <1>4 DEF Command
  <2> QED
    BY <1>1, <2>1, <2>2 DEF Actions
<1>5. CASE at = "verify"
  <2>1. Candidate \in Image /\ CandidateCommit \in Commits
    BY ReleaseAssumption DEF Commits
  <2>2. Command = Asking("health", None, Candidate, CandidateCommit)
    BY <1>5 DEF Command
  <2> QED
    BY <1>1, <2>1, <2>2 DEF Actions
<1>6. CASE at = "reverify"
  <2>1. previous.image \in Image /\ previous.commit \in Commits
    BY <1>6 DEF RInv, Chosen, Commits
  <2>2. Command = Asking("health", None, previous.image, previous.commit)
    BY <1>6 DEF Command
  <2> QED
    BY <1>1, <2>1, <2>2 DEF Actions
<1> QED
  BY <1>2, <1>3, <1>4, <1>5, <1>6 DEF Stages

LEMMA IssueStep ==
    ASSUME RInv, Issue PROVE RInv'
<1>1. /\ at \notin {"update", "restore", "over"} /\ call = None /\ call' = Command
      /\ UNCHANGED <<platformVars, meddling, client, stray, releaseVars, historyVars>>
  BY DEF Issue
<1>2. /\ call' \in Call /\ call'.stage = "discover"
      /\ call'.state = None /\ call'.health = None
  BY <1>1, CommandType
<1>3. client = None
  BY <1>1 DEF RInv, Listening
<1>4. Turns /\ Calm /\ process' = process
  BY <1>1, SameProcess DEF platformVars
<1>5. Vouched' /\ Chosen' /\ Relied' /\ Reported'
  BY <1>1, <1>4, ControllerAside
<1>6. TypeOK' /\ process'.revision <= process'.boot
  <2>1. MaintenanceTypeOK'
    BY <1>1, <1>2 DEF RInv, TypeOK, MaintenanceTypeOK, platformVars
  <2> QED
    BY <1>1, <1>4, <2>1, TypeAside DEF RInv, Turns
<1>7. Issued'
  <2>1. Command' = Command /\ at' = at
    BY <1>1 DEF Command, releaseVars
  <2> QED
    BY <1>1, <2>1 DEF Issued
<1>8. Found' /\ RanThere' /\ Untold' /\ Listening'
  BY <1>1, <1>2, <1>3 DEF Found, RanThere, Untold, Listening, Ran, Located
<1>9. Strays'
  <2>1. \A c \in stray : c.action # "drain"
    BY <1>1, NoStrayDrain
  <2>2. at' = at /\ stray' = stray /\ verified' = verified
    BY <1>1 DEF releaseVars, historyVars
  <2> QED
    BY <1>4, <2>1, <2>2 DEF RInv, Strays
<1> QED
  BY <1>5, <1>6, <1>7, <1>8, <1>9 DEF RInv

\* Once the controller has its answer, only its own variables are left to judge.
LEMMA Settled ==
    ASSUME RInv, UNCHANGED <<process, client, stray>>, client = None, call' = None, at # "over",
           TypeOK', Vouched', Chosen', Relied', Reported',
           verified \subseteq verified',
           \/ call = None \/ Alive(call) \/ at \notin {"drain", "redrain"}
           \/ at' = "over" /\ outcome' \notin {"released", "rolled_back"}
    PROVE  RInv'
<1>1. process'.revision <= process'.boot
  BY DEF RInv
<1>2. Issued' /\ Found' /\ RanThere' /\ Untold' /\ Listening'
  BY DEF Issued, Found, RanThere, Untold, Listening
<1>3. Strays'
  BY DEF RInv, Strays
<1> QED
  BY <1>1, <1>2, <1>3 DEF RInv

LEMMA FailedStep ==
    ASSUME RInv, UNCHANGED <<process, client, stray, previous, selected, historyVars>>,
           client = None, call' = None, at # "over", Failed, MaintenanceTypeOK',
           patience' \in 0..Patience
    PROVE  RInv'
<1>1. /\ \/ at' = "status" /\ outcome' = None /\ at \in {"update", "verify", "resume"}
         \/ /\ at' = "over" /\ outcome' \in {"invalid_release", "drain_failed", "rollback_failed"}
            /\ at \notin {"update", "verify", "resume"}
      /\ drained' = drained /\ verified' = verified /\ seen' = seen
  BY DEF Failed, Over, historyVars
<1>2. /\ None \notin {"released", "rolled_back"}
      /\ None \notin {"invalid_release", "drain_failed", "rollback_failed"}
  BY OutcomeAssumption DEF Outcomes
<1>3. TypeOK'
  BY <1>1, <1>2 DEF RInv, TypeOK, Stages, Outcomes
<1>4. Vouched'
  BY <1>1 DEF RInv, Vouched, MayOpen
<1>5. Chosen'
  BY <1>1 DEF RInv, Chosen, Names
<1>6. Relied' /\ Reported'
  BY <1>1, <1>2 DEF Relied, DrainedSelected, Reported
<1> QED
  BY <1>1, <1>3, <1>4, <1>5, <1>6, Settled

LEMMA SucceededStep ==
    ASSUME RInv, Succeeded, call # None, call.stage = "done", call' = None,
           UNCHANGED <<platformVars, meddling, client, stray>>
    PROVE  RInv'
<1>1. /\ call \in Call /\ at \notin {"update", "restore", "over"} /\ client = None
      /\ call.code = "ok" /\ process' = process
      /\ client' = client /\ stray' = stray /\ Confirmed
  BY CommandFacts DEF RInv, Listening, Succeeded, Confirmed, platformVars
<1>2. Alive(call) /\ Located(call) /\ Ran(call) /\ Done(call)
  BY <1>1 DEF Alive, Located, Ran, Done
<1>3. /\ call.target \in Target /\ Names(call.target)
      /\ call.pin # None => call.target.revision = call.pin
      /\ call.image # None => call.target.image = call.image
  BY <1>2 DEF RInv, Found
<1>4. /\ call.target.revision \in 1..MaxBoot /\ call.target.image \in Image
      /\ call.boot \in 0..MaxBoot /\ call.health \in {None} \cup Commits
  BY <1>1, <1>3, TargetType, CallType
<1>5. MaintenanceTypeOK'
  BY <1>1 DEF RInv, TypeOK, MaintenanceTypeOK, platformVars
<1>6. outcome = None /\ None \notin {"released", "rolled_back", "invalid_release", "foreign_image"}
  BY <1>1, Typed, OutcomeAssumption DEF Outcomes
<1>7. /\ TypeOK /\ Vouched /\ Chosen /\ Relied /\ Reported
      /\ verified \subseteq Nat
  BY Typed DEF RInv
<1>8. at \in {"drain", "redrain", "resume", "reopen"} =>
        /\ call.target.revision = selected.revision /\ call.target.image = selected.image
        /\ selected \in Target
  <2> SUFFICES ASSUME at \in {"drain", "redrain", "resume", "reopen"}
               PROVE  /\ call.target.revision = selected.revision
                      /\ call.target.image = selected.image
                      /\ selected \in Target
    OBVIOUS
  <2>1. call.pin = selected.revision /\ call.image = selected.image
    BY CommandFacts
  <2>2. selected \in Target
    BY <1>7 DEF Chosen
  <2>3. selected.revision # None /\ selected.image # None
    BY <2>2, TargetType, NoneAssumption, MaintenanceAssumption
  <2> QED
    BY <1>3, <2>1, <2>2, <2>3
<1>9. CASE /\ at = "health"
           /\ previous' = [revision |-> call.target.revision, image |-> call.target.image,
                           commit |-> call.health]
           /\ selected' = call.target
           /\ IF call.target.image \in Repository
              THEN at' = "drain" /\ UNCHANGED outcome
              ELSE Over("invalid_release")
           /\ seen' = call.boot
           /\ UNCHANGED <<patience, drained, verified>>
  <2>1. call.action = "health" /\ verified = {}
    BY <1>7, <1>9, CommandFacts DEF Chosen
  <2>2. call.health \in Commits
    BY <1>2, <1>4, <2>1 DEF RInv, RanThere
  <2>3. /\ verified' = verified /\ drained' = drained /\ seen' = call.boot
        /\ \/ at' = "drain" /\ outcome' = None
           \/ at' = "over" /\ outcome' = "invalid_release"
    BY <1>6, <1>9 DEF historyVars, Over
  <2>4. previous' \in [revision: 1..MaxBoot, image: Image, commit: Commits]
        /\ previous'.image = call.target.image /\ previous'.commit = call.health
    BY <1>4, <1>9, <2>2
  <2>5. TypeOK'
    BY <1>3, <1>4, <1>5, <1>6, <1>7, <1>9, <2>3, <2>4 DEF TypeOK, Stages, Outcomes, Commits
  <2>6. Vouched'
    BY <2>1, <2>3 DEF Vouched
  <2>8. Chosen'
    BY <1>1, <1>3, <1>4, <1>9, <2>2, <2>3, <2>4 DEF Chosen, Names, Commits
  <2>9. Relied' /\ Reported'
    BY <1>6, <2>3 DEF Relied, DrainedSelected, Reported
  <2> QED
    BY <1>1, <1>2, <2>3, <2>5, <2>6, <2>8, <2>9, Settled
<1>10. CASE /\ at \in {"drain", "redrain"}
            /\ at' = IF at = "drain" THEN "update" ELSE "restore"
            /\ drained' = [boot |-> call.boot, revision |-> call.target.revision,
                           image |-> call.target.image]
            /\ UNCHANGED <<previous, selected, patience, outcome, seen, verified>>
  <2>1. Idle(call.boot)
    <3>1. call.action = "drain" /\ Emptied(call)
      BY <1>2, <1>10, CommandFacts DEF RInv, RanThere
    <3> QED
      BY <1>2, <3>1 DEF RInv, RanThere
  <2>2. at' \in {"update", "restore"} /\ drained'.boot = call.boot
        /\ drained'.revision = selected.revision /\ drained'.image = selected.image
    BY <1>8, <1>10
  <2>3. drained' \in [boot: 0..MaxBoot, revision: 0..MaxBoot, image: {None} \cup Image]
    <3>1. call.target.revision \in 0..MaxBoot
      BY <1>4, MaintenanceAssumption
    <3> QED
      BY <1>4, <1>10, <3>1
  <2>4. TypeOK'
    BY <1>5, <1>6, <1>7, <1>10, <2>2, <2>3 DEF TypeOK, Stages
  <2>5. Vouched' /\ Chosen' /\ Reported'
    BY <1>1, <1>6, <1>7, <1>10, <2>2 DEF Vouched, MayOpen, Chosen, Names, Reported
  <2>6. Relied'
    BY <1>1, <1>7, <1>10, <2>1, <2>2 DEF Relied, DrainedSelected, Idle, Chosen
  <2> QED
    BY <1>1, <1>2, <1>10, <2>4, <2>5, <2>6, Settled
<1>11. CASE /\ at \in {"verify", "reverify"}
            /\ at' = IF at = "verify" THEN "resume" ELSE "reopen"
            /\ selected' = call.target
            /\ verified' = verified \cup {call.target.revision}
            /\ UNCHANGED <<previous, patience, outcome, seen, drained>>
  <2>1. call.health = CommitOf(call.target.image)
    <3>1. call.action = "health"
      BY <1>11, CommandFacts
    <3> QED
      BY <1>2, <3>1 DEF RInv, RanThere
  <2>2. \/ at = "verify" /\ call.target.image = Candidate
           /\ CommitOf(Candidate) = CandidateCommit
        \/ at = "reverify" /\ call.target.image = previous.image
    BY <1>1, <1>11, <2>1 DEF Confirmed
  <2>3. TypeOK'
    BY <1>3, <1>4, <1>5, <1>6, <1>7, <1>11 DEF TypeOK, Stages
  <2>4. Vouched'
    <3>1. ASSUME NEW v \in verified'
          PROVE  v <= process.boot /\ (v = process.revision => MayOpen)
      <4>1. CASE v \in verified
        BY <1>7, <4>1 DEF Vouched
      <4>2. CASE v = call.target.revision
        BY <1>3, <2>2, <4>2 DEF Names, MayOpen
      <4> QED
        BY <1>11, <3>1, <4>1, <4>2
    <3> QED
      BY <1>1, <1>11, <3>1 DEF Vouched, MayOpen
  <2>5. Chosen'
    BY <1>1, <1>3, <1>7, <1>11, <2>2 DEF Chosen, Names
  <2>6. Relied' /\ Reported'
    BY <1>6, <1>11 DEF Relied, DrainedSelected, Reported
  <2> QED
    BY <1>1, <1>2, <1>11, <2>3, <2>4, <2>5, <2>6, Settled
<1>12. CASE /\ at \in {"resume", "reopen"}
            /\ Over(IF at = "resume" THEN "released" ELSE "rolled_back")
            /\ UNCHANGED <<previous, selected, patience, historyVars>>
  <2>1. /\ at' = "over" /\ outcome' = IF at = "resume" THEN "released" ELSE "rolled_back"
        /\ verified' = verified /\ drained' = drained /\ seen' = seen
    BY <1>12 DEF Over, historyVars
  <2>2. TypeOK'
    BY <1>5, <1>6, <1>7, <1>12, <2>1 DEF TypeOK, Stages, Outcomes
  <2>3. Vouched' /\ Chosen' /\ Relied'
    BY <1>1, <1>7, <1>12, <2>1 DEF Vouched, MayOpen, Chosen, Relied, DrainedSelected
  <2>4. Reported'
    <3>1. Opened
      BY <1>2, <1>12, CommandFacts DEF RInv, RanThere
    <3>2. Names(selected)
      BY <1>3, <1>8, <1>12 DEF Names
    <3>3. selected.image = IF at = "resume" THEN Candidate ELSE previous.image
      BY <1>7, <1>12 DEF Chosen
    <3> QED
      BY <1>1, <1>8, <1>12, <2>1, <3>1, <3>2, <3>3 DEF Reported, Names, Opened
  <2> QED
    BY <1>1, <1>2, <2>1, <2>2, <2>3, <2>4, Settled
<1>13. CASE /\ at = "status"
            /\ selected' = call.target
            /\ IF Foreign(call.target.image)
               THEN Over("foreign_image")
               ELSE at' = "redrain" /\ UNCHANGED outcome
            /\ seen' = call.boot
            /\ UNCHANGED <<previous, patience, drained, verified>>
  <2>1. /\ verified' = verified /\ drained' = drained /\ seen' = call.boot
        /\ \/ /\ at' = "redrain" /\ outcome' = None
              /\ call.target.image \in {Candidate, previous.image}
           \/ at' = "over" /\ outcome' = "foreign_image"
    BY <1>6, <1>13 DEF historyVars, Over, Foreign
  <2>2. TypeOK'
    BY <1>3, <1>4, <1>5, <1>6, <1>7, <1>13, <2>1 DEF TypeOK, Stages, Outcomes
  <2>3. Vouched'
    BY <1>1, <1>7, <1>13, <2>1 DEF Vouched, MayOpen
  <2>4. Chosen'
    BY <1>1, <1>3, <1>7, <1>13, <2>1 DEF Chosen, Names
  <2>5. Relied' /\ Reported'
    BY <1>6, <2>1 DEF Relied, DrainedSelected, Reported
  <2> QED
    BY <1>1, <1>2, <2>1, <2>2, <2>3, <2>4, <2>5, Settled
<1> QED
  BY <1>9, <1>10, <1>11, <1>12, <1>13 DEF Succeeded

LEMMA AwaitStep ==
    ASSUME RInv, Await PROVE RInv'
<1>1. /\ call # None /\ call.stage = "done" /\ call' = None
      /\ UNCHANGED <<platformVars, meddling, client, stray>>
      /\ process' = process /\ client' = client /\ stray' = stray
  BY DEF Await, platformVars
<1>2. client = None /\ at \notin {"update", "restore", "over"}
  BY <1>1, CommandFacts DEF RInv, Listening
<1>3. MaintenanceTypeOK'
  BY <1>1 DEF RInv, TypeOK, MaintenanceTypeOK, platformVars
<1>4. CASE Succeeded
  BY <1>1, <1>4, SucceededStep
<1>5. CASE /\ Retries
           /\ patience' = IF patience = 0 THEN 0 ELSE patience - 1
           /\ UNCHANGED <<at, previous, selected, outcome, historyVars>>
  <2>1. at \in {"verify", "reverify"} /\ patience' \in 0..Patience
        /\ verified' = verified /\ drained' = drained /\ seen' = seen
    <3>1. patience \in 0..Patience /\ Patience \in Nat
      BY ReleaseAssumption DEF RInv, TypeOK
    <3> QED
      BY <1>5, <3>1 DEF Retries, historyVars
  <2>2. TypeOK'
    BY <1>3, <1>5, <2>1 DEF RInv, TypeOK
  <2>3. Vouched' /\ Chosen'
    BY <1>1, <1>5, <2>1 DEF RInv, Vouched, MayOpen, Chosen, Names
  <2>4. Relied' /\ Reported'
    BY <1>1, <1>5, <2>1 DEF RInv, Relied, DrainedSelected, Idle, Reported, Names
  <2> QED
    BY <1>1, <1>2, <2>1, <2>2, <2>3, <2>4, Settled
<1>6. CASE /\ ~Confirmed /\ ~Retries /\ Failed
           /\ UNCHANGED <<previous, selected, patience, historyVars>>
  <2>1. patience' \in 0..Patience
    BY <1>6 DEF RInv, TypeOK
  <2> QED
    BY <1>1, <1>2, <1>3, <1>6, <2>1, FailedStep
<1> QED
  BY <1>4, <1>5, <1>6 DEF Await

LEMMA UpdateStep ==
    ASSUME RInv, Update PROVE RInv'
<1> DEFINE image == IF at = "update" THEN Candidate ELSE previous.image
<1>1. /\ at \in {"update", "restore"}
      /\ UNCHANGED <<process, meddling, operatorVars, previous, selected, historyVars>>
      /\ call' = call /\ client' = client /\ stray' = stray
      /\ verified' = verified /\ drained' = drained /\ seen' = seen
  BY DEF Update, operatorVars, historyVars
<1>2. call = None /\ client = None
  BY <1>1 DEF RInv, Issued, Listening
<1>3. image \in Image /\ rollout \in {None} \cup Image
  BY <1>1, ReleaseAssumption DEF RInv, Chosen, TypeOK, MaintenanceTypeOK
<1>4. MaintenanceTypeOK'
  <2>1. rollout' \in {rollout, Accepted(image)} /\ late' \subseteq late \cup {image}
    BY DEF Update
  <2> HIDE DEF image
  <2> QED
    BY <1>1, <1>3, <2>1 DEF RInv, TypeOK, MaintenanceTypeOK, Accepted
<1>5. CASE /\ at' = IF at = "update" THEN "verify" ELSE "reverify"
           /\ patience' = Patience /\ UNCHANGED outcome
  <2>1. patience' \in 0..Patience
    BY <1>5, ReleaseAssumption
  <2>2. TypeOK'
    BY <1>1, <1>4, <1>5, <2>1 DEF RInv, TypeOK, Stages
  <2>3. Vouched' /\ Chosen'
    BY <1>1, <1>5 DEF RInv, Vouched, MayOpen, Chosen, Names
  <2>4. Relied' /\ Reported'
    BY <1>1, <1>5 DEF RInv, Relied, DrainedSelected, Idle, Reported, Names
  <2> QED
    BY <1>1, <1>2, <2>2, <2>3, <2>4, Settled
<1>6. CASE Failed /\ UNCHANGED patience
  <2>1. patience' \in 0..Patience
    BY <1>6 DEF RInv, TypeOK
  <2> QED
    BY <1>1, <1>2, <1>4, <1>6, <2>1, FailedStep
<1> QED
  BY <1>5, <1>6 DEF Update
-----------------------------------------------------------------------------
LEMMA RInvInit == Init => RInv
<1> SUFFICES ASSUME Init PROVE RInv
  OBVIOUS
<1>1. 1 \in 1..MaxBoot /\ 0 \in 0..MaxBoot /\ MaxMeddling \in 0..MaxMeddling /\ 0 \in 0..Patience
  BY MaintenanceAssumption, ReleaseAssumption
<1>2. /\ seen = 0 /\ process \in Process /\ process.revision = 1 /\ process.boot = 1
      /\ call = None /\ client = None /\ stray = {} /\ rollout = None /\ late = {}
      /\ meddling = MaxMeddling
      /\ at = "health" /\ outcome = None /\ verified = {}
      /\ previous = None /\ selected = None /\ patience = 0
      /\ drained = [boot |-> 0, revision |-> 0, image |-> None]
  BY <1>1 DEF Init, MaintenanceInit, Process
<1>3. TypeOK
  BY <1>1, <1>2 DEF TypeOK, MaintenanceTypeOK, Stages
<1>4. None \notin {"released", "rolled_back"}
  BY OutcomeAssumption DEF Outcomes
<1>5. Issued /\ Found /\ RanThere /\ Untold /\ Listening
  BY <1>2 DEF Issued, Found, RanThere, Untold, Listening
<1>6. Vouched /\ Strays /\ Chosen
  BY <1>2 DEF Vouched, Strays, Chosen
<1>7. Relied /\ Reported
  BY <1>2, <1>4 DEF Relied, DrainedSelected, Reported
<1> QED
  BY <1>2, <1>3, <1>5, <1>6, <1>7 DEF RInv

LEMMA RInvStutters ==
    ASSUME RInv, UNCHANGED vars PROVE RInv'
<1>1. /\ UNCHANGED <<process, rollout, late, meddling, call, client, stray>>
      /\ UNCHANGED <<at, previous, selected, patience, outcome, seen, drained, verified>>
  BY DEF vars, platformVars, operatorVars, releaseVars, historyVars
<1>2. TypeOK' /\ process'.revision <= process'.boot
  BY <1>1 DEF RInv, TypeOK, MaintenanceTypeOK
<1>3. Issued' /\ Found' /\ Untold'
  BY <1>1 DEF RInv, Issued, Command, Found, Located, Alive, Names, Untold
<1>4. RanThere' /\ Listening'
  BY <1>1 DEF RInv, RanThere, Ran, Located, Alive, Done, Idle, Opened, Emptied, Listening, Free
<1>5. Vouched' /\ Strays' /\ Chosen' /\ Relied' /\ Reported'
  BY <1>1 DEF RInv, Vouched, MayOpen, Strays, Alive, Chosen, Relied, DrainedSelected, Idle,
              Reported, Names
<1> QED
  BY <1>2, <1>3, <1>4, <1>5 DEF RInv

LEMMA RInvNext == RInv /\ [Next]_vars => RInv'
<1> SUFFICES ASSUME RInv, Next \/ UNCHANGED vars PROVE RInv'
  OBVIOUS
<1>1. CASE Controller
  BY <1>1, IssueStep, AwaitStep, UpdateStep DEF Controller
<1>2. CASE Platform /\ UNCHANGED <<releaseVars, historyVars>>
  BY <1>2, PlatformStep
<1>3. CASE Replica /\ UNCHANGED <<releaseVars, historyVars>>
  BY <1>3, ClientStep, StrayStep DEF Replica
<1>4. CASE Operator /\ UNCHANGED <<releaseVars, historyVars>>
  BY <1>4, OperatorStep
<1>5. CASE UNCHANGED vars
  BY <1>5, RInvStutters
<1> QED
  BY <1>1, <1>2, <1>3, <1>4, <1>5 DEF Next

LEMMA ReleaseInvariant == Spec => []RInv
  BY RInvInit, RInvNext, PTL DEF Spec

-----------------------------------------------------------------------------
(* Which process was drained *)

\* Time runs forward from the answer that selected the target to the drain: the drain
\* relied on is of a process as late as the one that gave that answer.
Current ==
    /\ seen <= process.boot
    /\ call # None /\ Ran(call) => seen <= call.boot
    /\ at \in {"update", "restore"} =>
         /\ seen <= drained.boot /\ drained.boot <= process.boot
         /\ drained.boot = process.boot => process.image = drained.image

LEMMA Boots ==
    ASSUME RInv
    PROVE  /\ process.boot \in Nat /\ seen \in Nat /\ drained.boot \in Nat
           /\ call # None => call.boot \in Nat
<1>1. (call = None \/ call \in Call) /\ TypeOK
  BY Typed DEF RInv
<1>2. call # None => call.boot \in 0..MaxBoot
  BY <1>1, CallType
<1>3. seen \in 0..MaxBoot /\ drained.boot \in 0..MaxBoot
  BY <1>1 DEF TypeOK
<1> QED
  BY <1>2, <1>3, Typed, MaintenanceAssumption

LEMMA OutsideMoves ==
    ASSUME RInv, Platform \/ Replica
    PROVE  call' = call /\ (Stays \/ process'.boot > process.boot)
<1>1. process \in Process /\ process.boot \in Nat
  BY Typed
<1>2. ASSUME NEW path, process' = Answered(path) PROVE Stays
  BY <1>1, <1>2, AnsweredType DEF Stays
<1>3. CASE SessionBegins \/ SessionEnds \/ SomebodyResumes
  <2>1. PICK b \in BOOLEAN :
          \/ process' = [process EXCEPT !.active = b] /\ (b => ~process.draining)
          \/ process' = [process EXCEPT !.draining = b] /\ ~b
    BY <1>3 DEF SessionBegins, SessionEnds, SomebodyResumes
  <2> QED
    BY <1>3, <2>1, GateTurns DEF SessionBegins, SessionEnds, SomebodyResumes, operatorVars
<1>4. CASE ProcessRestarts \/ RolloutReady
  <2>1. PICK revision, image : process' = Fresh(revision, image)
    BY <1>4 DEF ProcessRestarts, RolloutReady, Replaced
  <2>2. process'.boot = process.boot + 1
    BY <2>1 DEF Fresh
  <2> QED
    BY <1>1, <1>4, <2>2 DEF ProcessRestarts, RolloutReady
<1>5. CASE \E image \in Image : SomebodyDeploys(image) \/ LateUpdateApplies(image)
  BY <1>5 DEF SomebodyDeploys, LateUpdateApplies, operatorVars, Stays
<1>6. CASE ClientAsks
  <2>1. process' = process \/ process' = Answered(Path(client))
    BY <1>6 DEF ClientAsks
  <2> QED
    BY <1>2, <1>6, <2>1 DEF ClientAsks, Stays
<1>7. CASE \E c \in stray : StrayAsks(c) \/ StrayEnds(c)
  <2>1. PICK c \in stray : StrayAsks(c) \/ StrayEnds(c)
    BY <1>7
  <2> QED
    BY <1>2, <2>1 DEF StrayAsks, StrayEnds, platformVars, Stays
<1> QED
  BY <1>3, <1>4, <1>5, <1>6, <1>7 DEF Platform, Replica

\* A command that runs keeps the process it was started in.
LEMMA OperatorRuns ==
    ASSUME RInv, Operator, Ran(call)'
    PROVE  call # None /\ (call'.boot = process.boot \/ (Ran(call) /\ call'.boot = call.boot))
<1>1. call # None /\ call.stage # "done" /\ call \in Call
  BY Typed DEF Operator, Discover, Exec, ReadLine, SocketCloses, CallFails, Busy
<1>2. ASSUME NEW code \in Codes, call' = Ended(call, code)
      PROVE code = "ok" /\ call'.boot = call.boot
  BY <1>1, <1>2, EndedType DEF Ran, Located, Alive
<1>3. {"revision_mismatch", "image_mismatch", "transport", "fatal", "ok"} \subseteq Codes
  BY DEF Codes, RetryableCodes
<1>4. CASE Discover
  <2>1. call'.stage = "exec"
    <3>1. \/ call' = Ended(call, "revision_mismatch") \/ call' = Ended(call, "image_mismatch")
          \/ call' = [call EXCEPT !.stage = "exec",
                                  !.target = [revision |-> process.revision,
                                              image |-> process.image]]
      BY <1>4 DEF Discover, Discovered
    <3> QED
      BY <1>1, <1>2, <1>3, <3>1 DEF Call
  <2> QED
    BY <2>1 DEF Ran
<1>5. CASE Exec
  <2>1. call' = [call EXCEPT !.stage = "read", !.boot = process.boot]
    BY <1>2, <1>3, <1>5 DEF Exec
  <2> QED
    BY <1>1, <2>1 DEF Call
<1>6. CASE ReadLine \/ SocketCloses
  <2>1. client # None /\ call.stage \in {"read", "closing"} /\ client \in Client
    BY <1>6, Typed DEF ReadLine, SocketCloses, RInv, Listening
  <2>2. Ran(call)
    BY <2>1 DEF Ran, Located, Alive
  <2>3. CASE SocketCloses
    BY <1>1, <1>2, <1>3, <2>2, <2>3 DEF SocketCloses
  <2>4. CASE ReadLine
    <3>1. client.out \in Seq(Lines) /\ client.out # <<>> /\ call' = Verified(call, Head(client.out))
      BY <2>1, <2>4 DEF ReadLine, Client
    <3>2. Head(client.out) \in Lines
      BY <3>1, Heard
    <3> QED
      BY <1>1, <2>1, <2>2, <3>1, <3>2, VerifiedType
  <2> QED
    BY <1>6, <2>3, <2>4
<1>7. CASE \E code \in {"transport", "fatal"} : CallFails(code)
  BY <1>2, <1>3, <1>7 DEF CallFails
<1> QED
  BY <1>4, <1>5, <1>6, <1>7 DEF Operator

LEMMA AwaitCurrent ==
    ASSUME RInv, Current, Await PROVE Current'
<1>1. /\ call # None /\ call.stage = "done" /\ call' = None /\ process' = process
      /\ at \notin {"update", "restore"}
  BY CommandFacts DEF Await, platformVars
<1>2. CASE /\ at' \notin {"update", "restore"} /\ seen' = seen
  BY <1>1, <1>2 DEF Current
<1>3. CASE Succeeded
  <2>1. Ran(call) /\ Located(call) /\ seen <= call.boot
    BY <1>1, <1>3 DEF Succeeded, Confirmed, Ran, Located, Alive, Current
  <2>2. /\ call.boot <= process.boot
        /\ call.boot = process.boot => process.image = call.target.image
    BY <1>1, <2>1 DEF RInv, RanThere, Found, Names
  <2>3. CASE at' \in {"update", "restore"}
    <3>1. /\ drained' = [boot |-> call.boot, revision |-> call.target.revision,
                         image |-> call.target.image]
          /\ seen' = seen
      BY <1>3, <2>3 DEF Succeeded, Over
    <3> QED
      BY <1>1, <2>1, <2>2, <3>1 DEF Current
  <2>4. CASE at' \notin {"update", "restore"}
    <3>1. seen' = seen \/ seen' = call.boot
      BY <1>3 DEF Succeeded, historyVars
    <3> QED
      BY <1>1, <2>2, <2>4, <3>1 DEF Current
  <2> QED
    BY <2>3, <2>4
<1>4. CASE Retries /\ UNCHANGED <<at, previous, selected, outcome, historyVars>>
  BY <1>1, <1>2, <1>4 DEF historyVars
<1>5. CASE Failed /\ UNCHANGED <<previous, selected, patience, historyVars>>
  BY <1>2, <1>5 DEF Failed, Over, historyVars
<1> QED
  BY <1>3, <1>4, <1>5 DEF Await

LEMMA CurrentNext ==
    ASSUME RInv, Current, [Next]_vars PROVE Current'
<1> USE DEF Current
<1>1. CASE Issue
  <2>1. /\ at \notin {"update", "restore", "over"} /\ UNCHANGED <<process, at, seen>>
        /\ call' = Command
    BY <1>1 DEF Issue, platformVars, releaseVars, historyVars
  <2>2. call'.stage = "discover"
    BY <2>1 DEF Command, Asking, RInv, TypeOK, Stages
  <2> QED
    BY <2>1, <2>2 DEF Ran, Located
<1>2. CASE Await
  BY <1>2, AwaitCurrent
<1>3. CASE Update
  <2>1. at' \notin {"update", "restore"} /\ UNCHANGED <<process, call, seen>>
    BY <1>3 DEF Update, Failed, Over, operatorVars, historyVars
  <2> QED
    BY <2>1 DEF Ran, Located, Alive
<1>4. CASE (Platform \/ Replica) /\ UNCHANGED <<releaseVars, historyVars>>
  <2>1. call' = call /\ (Stays \/ process'.boot > process.boot)
        /\ UNCHANGED <<at, seen, drained>> /\ process.boot \in Nat /\ seen \in Nat
        /\ drained.boot \in Nat
    BY <1>4, OutsideMoves, Boots DEF releaseVars, historyVars
  <2>2. Ran(call)' = Ran(call)
    BY <2>1 DEF Ran, Located, Alive
  <2>3. process'.boot \in Nat
    <3>1. RInv'
      BY <1>4, RInvNext DEF Next
    <3>2. process' \in Process
      BY <3>1 DEF RInv, TypeOK, MaintenanceTypeOK, Process
    <3> QED
      BY <3>2, ProcessType, MaintenanceAssumption
  <2> QED
    BY <2>1, <2>2, <2>3 DEF Stays
<1>5. CASE Operator /\ UNCHANGED <<releaseVars, historyVars>>
  <2>1. process' = process /\ UNCHANGED <<at, seen, drained>>
    BY <1>5 DEF Operator, Discover, Exec, ReadLine, SocketCloses, CallFails, platformVars,
                releaseVars, historyVars
  <2>2. Ran(call)' => seen <= call'.boot
    BY <1>5, OperatorRuns
  <2> QED
    BY <2>1, <2>2
<1>6. CASE UNCHANGED vars
  <2>1. UNCHANGED <<process, call, at, seen, drained>>
    BY <1>6 DEF vars, platformVars, operatorVars, releaseVars, historyVars
  <2> QED
    BY <2>1 DEF Ran, Located, Alive
<1> QED
  BY <1>1, <1>2, <1>3, <1>4, <1>5, <1>6 DEF Next, Controller
-----------------------------------------------------------------------------
\* Every variable keeps its type, whatever the images and however long it goes on:
\* an outcome is set exactly when deployRelease (release.ts) is over.
THEOREM TypeCorrect == Spec => []TypeOK
<1>1. RInv => TypeOK
  BY DEF RInv
<1> QED
  BY <1>1, ReleaseInvariant, PTL

\* From the drain deployRelease relied on to its next resume, the process that was
\* drained has no session as long as its gate is closed, though others may restart
\* it, open it, and though commands of earlier operations may run late.
THEOREM DrainedCorrect == Spec => []DrainedStaysIdle
<1>1. RInv => DrainedStaysIdle
  BY DEF RInv, Relied, Idle, DrainedStaysIdle
<1> QED
  BY <1>1, ReleaseInvariant, PTL

\* What an update puts an end to was drained after the answer that selected it, and is
\* of an image the release knows, unless it became ready after the drain
\* (release.ts:42-49, 61-64).
THEOREM ReplacesCorrect == Spec => []ReplacesWhatItDrained
<1>1. Init => Current
  <2> SUFFICES ASSUME Init PROVE Current
    OBVIOUS
  <2>1. seen = 0 /\ call = None /\ at = "health" /\ process.boot = 1
    BY DEF Init, MaintenanceInit
  <2> QED
    BY <2>1 DEF Current
<1>2. RInv /\ Current => ReplacesWhatItDrained
  <2> SUFFICES ASSUME RInv, Current, at \in {"update", "restore"}
               PROVE  /\ drained.revision = selected.revision /\ drained.boot >= seen
                      /\ \/ process.image \in {Candidate, previous.image}
                         \/ process.boot > drained.boot
    BY DEF ReplacesWhatItDrained
  <2>1. /\ drained.revision = selected.revision
        /\ drained.image \in {Candidate, previous.image}
    BY DEF RInv, Relied, DrainedSelected
  <2> QED
    BY <2>1, Boots DEF Current
<1>3. RInv /\ Current /\ [Next]_vars => Current'
  BY CurrentNext
<1> QED
  BY <1>1, <1>2, <1>3, ReleaseInvariant, PTL DEF Spec

\* A release that ended well left the revision it selected open, with the image it
\* reports, whatever commands of its own are still under way.
THEOREM OutcomeCorrect == Spec => []OutcomeHolds
<1>1. RInv => OutcomeHolds
  <2> SUFFICES ASSUME RInv, outcome \in {"released", "rolled_back"},
                      process.revision = selected.revision
               PROVE  /\ ~process.draining
                      /\ process.image = IF outcome = "released" THEN Candidate
                                         ELSE previous.image
    BY DEF OutcomeHolds
  <2> QED
    BY DEF RInv, Reported, Names
<1> QED
  BY <1>1, ReleaseInvariant, PTL

\* Commands open a gate, those of the operator and those left running alike, only in
\* a revision the release has verified, of an image it may open.
LEMMA OpensStep ==
    ASSUME RInv, Next, process.draining, ~process'.draining, process'.boot = process.boot,
           meddling' = meddling
    PROVE  process.revision \in verified /\ MayOpen
<1>1. process \in Process /\ process.boot \in Nat /\ meddling \in Nat /\ Vouched
  BY Typed, MaintenanceAssumption DEF RInv, TypeOK, MaintenanceTypeOK
<1>2. process' # process
  OBVIOUS
<1>3. ~Controller /\ ~Operator
  BY <1>2 DEF Controller, Issue, Await, Update, Operator, Discover, Exec, ReadLine, SocketCloses,
              CallFails, platformVars
<1>4. ~Platform
  <2>1. ~SessionBegins
    BY DEF SessionBegins
  <2>2. ~SessionEnds
    <3>1. process' = [process EXCEPT !.active = FALSE] => process'.draining = process.draining
      BY <1>1, GateType
    <3> QED
      BY <3>1 DEF SessionEnds
  <2>3. ~ProcessRestarts /\ ~SomebodyResumes
    BY <1>1 DEF ProcessRestarts, SomebodyResumes
  <2>4. ~RolloutReady
    BY <1>1 DEF RolloutReady, Replaced, Fresh
  <2>5. ASSUME NEW image PROVE ~SomebodyDeploys(image) /\ ~LateUpdateApplies(image)
    BY <1>2 DEF SomebodyDeploys, LateUpdateApplies
  <2> QED
    BY <2>1, <2>2, <2>3, <2>4, <2>5 DEF Platform
<1>5. PICK path : process' = Answered(path) /\ path = "resume" /\
                  \/ client # None /\ client.running /\ path = Path(client)
                  \/ \E c \in stray : path = Path(c)
  <2>1. ASSUME NEW path, process' = Answered(path) PROVE path = "resume"
    BY <1>1, <2>1, AnsweredType
  <2>2. CASE ClientAsks
    <3>1. client # None /\ client.running /\ process' \in {process, Answered(Path(client))}
      BY <2>2 DEF ClientAsks
    <3> QED
      BY <1>2, <2>1, <3>1
  <2>3. CASE \E c \in stray : StrayAsks(c)
    BY <2>1, <2>3 DEF StrayAsks
  <2>4. CASE \E c \in stray : StrayEnds(c)
    BY <1>2, <2>4 DEF StrayEnds, platformVars
  <2> QED
    BY <1>3, <1>4, <2>2, <2>3, <2>4 DEF Next, Replica
<1>6. process.revision \in verified
  <2>1. CASE client # None /\ client.running /\ Path(client) = "resume"
    <3>1. /\ call # None /\ call.stage \in {"read", "closing"} /\ client.action = call.action
          /\ call.boot = process.boot
      BY <2>1 DEF RInv, Listening
    <3>2. Ran(call) /\ Located(call) /\ call.action = "resume"
      BY <2>1, <3>1 DEF Ran, Located, Alive, Path
    <3>3. at \in {"resume", "reopen"} /\ call.pin = selected.revision
      BY <3>1, <3>2, CommandFacts
    <3>4. selected \in Target /\ selected.revision \in verified
      BY <3>3 DEF RInv, Chosen
    <3>5. selected.revision # None
      BY <3>4, TargetType, NoneAssumption
    <3>6. process.revision = call.target.revision /\ call.target.revision = call.pin
      BY <3>1, <3>2, <3>3, <3>5 DEF RInv, RanThere, Found
    <3> QED
      BY <3>3, <3>4, <3>6
  <2>2. CASE \E c \in stray : Path(c) = "resume"
    BY <2>2 DEF RInv, Strays, Path
  <2> QED
    BY <1>5, <2>1, <2>2
<1> QED
  BY <1>1, <1>6 DEF Vouched

\* A command of the release opens a closed gate only where the release has proved
\* the health of the revision, of an image and commit it asked for, so a failed
\* first drain is never reopened (release.ts:45-49, 54-76).
THEOREM OpensCorrect == Spec => OpensOnlyVerified
<1>1. RInv /\ [Next]_vars =>
        [(process.draining /\ ~process'.draining /\ process'.boot = process.boot
             /\ meddling' = meddling)
          => /\ process.revision \in verified
             /\ \/ process.image = Candidate /\ CommitOf(Candidate) = CandidateCommit
                \/ process.image = previous.image]_vars
  BY OpensStep DEF MayOpen
<1> QED
  BY <1>1, ReleaseInvariant, PTL DEF Spec, OpensOnlyVerified
=============================================================================
