---------------------------- MODULE RunStoreProofs ----------------------------
(***************************************************************************)
(* Proofs about RunStore, for any number of runners and of planned trials.  *)
(***************************************************************************)
EXTENDS RunStore, TLAPS

\* Stages of a runner that has a slot in hand, and of one that has the manifest.
WithSlot == {"start", "trial", "evidence", "result"}
WithManifest == {"recover", "settle", "pick", "report"} \cup WithSlot

\* What a runner relies on: its slot is begun by itself and was not executed
\* before its trial, and what it read in the records is still there.
RunnerOK(r) ==
    /\ run[r].at \in WithSlot => run[r].slot \in Slots
    /\ run[r].at \in WithManifest => manifest
    /\ run[r].at = "trial" => starts[run[r].slot] = r /\ trials[run[r].slot] = 0
    /\ run[r].at \in {"evidence", "result"} =>
          /\ starts[run[r].slot] = r /\ trials[run[r].slot] = 1
          /\ run[r].found # None /\ Complete(run[r].found)
    /\ \A s \in Slots: run[r].results[s] \in {None, results[s]}

\* What the records of a slot say of it.
SlotOK(s) ==
    /\ trials[s] \in {0, 1}
    /\ starts[s] = None => trials[s] = 0
    /\ results[s] # None =>
          /\ starts[s] = results[s].attempt
          /\ results[s].voice => evidence[s] = results[s].attempt
          /\ results[s].status = "completed" => trials[s] = 1 /\ (PcmRequired => results[s].voice)
    /\ ~manifest => starts[s] = None /\ results[s] = None /\ trials[s] = 0

IInv ==
    /\ TypeOK
    /\ \A r \in Runner: RunnerOK(r)
    /\ \A s \in Slots: SlotOK(s)

-----------------------------------------------------------------------------
(* How the record of one runner changes *)

LEMMA BlankType == Blank \in [Slots -> {None}]
BY DEF Blank

\* One runner moves on; all others are as they were.
LEMMA MovesOn ==
    ASSUME TypeOK, NEW r \in Runner, NEW stage \in Stages, Goto(r, stage)
    PROVE  /\ run' \in [Runner -> Process]
           /\ \A q \in Runner \ {r}: run'[q] = run[q]
           /\ run'[r].at = stage /\ run'[r].slot = run[r].slot
           /\ run'[r].results = run[r].results /\ run'[r].found = run[r].found
<1>1. run \in [Runner -> Process] BY DEF TypeOK
<1>2. run[r] \in Process BY <1>1
<1> DEFINE p == [[run[r] EXCEPT !.at = stage] EXCEPT !.prepared = FALSE]
<1>3. run' = [run EXCEPT ![r] = p] BY <1>1, <1>2 DEF Goto, Process
<1>4. p \in Process BY <1>2 DEF Process
<1>5. p.at = stage /\ p.slot = run[r].slot /\ p.results = run[r].results /\ p.found = run[r].found
  BY <1>2 DEF Process
<1> HIDE DEF p
<1> QED BY <1>1, <1>3, <1>4, <1>5

\* A runner that ends keeps nothing.
LEMMA LeavesAll ==
    ASSUME TypeOK, NEW r \in Runner, NEW stage \in Stages, Leaves(r, stage)
    PROVE  /\ run' \in [Runner -> Process]
           /\ \A q \in Runner \ {r}: run'[q] = run[q]
           /\ run'[r].at = stage /\ run'[r].results = Blank
<1>1. run \in [Runner -> Process] BY DEF TypeOK
<1> DEFINE p == [at |-> stage, resume |-> FALSE, slot |-> 0, prepared |-> FALSE,
                 started |-> Blank, results |-> Blank, found |-> None]
<1>2. run' = [run EXCEPT ![r] = p] BY DEF Leaves
<1>3. p \in Process BY BlankType, RunStoreAssumption DEF Process
<1>4. p.at = stage /\ p.results = Blank OBVIOUS
<1> HIDE DEF p
<1> QED BY <1>1, <1>2, <1>3, <1>4
-----------------------------------------------------------------------------
(* The invariant is inductive *)

LEMMA Initially == Init => IInv
<1> SUFFICES ASSUME Init PROVE IInv OBVIOUS
<1>1. Blank \in [Slots -> {None} \cup Runner] /\ Blank \in [Slots -> {None} \cup Result]
  BY BlankType
<1>2. 0 \in 0..Limit BY RunStoreAssumption
<1>3. ASSUME NEW r \in Runner
      PROVE  run[r] \in Process /\ run[r].at = "new" /\ run[r].results = Blank
  BY <1>1, <1>2 DEF Init, Process, Stages
<1>4. TypeOK
  <2>1. run \in [Runner -> Process] BY <1>3 DEF Init
  <2>2. trials \in [Slots -> Nat] BY DEF Init
  <2> QED BY <1>1, <2>1, <2>2 DEF Init, TypeOK
<1>5. \A r \in Runner: RunnerOK(r)
  BY <1>3, BlankType DEF RunnerOK, WithSlot, WithManifest, Init
<1>6. \A s \in Slots: SlotOK(s)
  BY BlankType DEF SlotOK, Init, Blank
<1> QED BY <1>4, <1>5, <1>6 DEF IInv

\* A step of one runner that leaves the files and the trials as they are.
LEMMA OnlyRunner ==
    ASSUME IInv, NEW r \in Runner,
           run' \in [Runner -> Process],
           \A q \in Runner \ {r}: run'[q] = run[q],
           lock' \in {None} \cup Runner, occupied' \in BOOLEAN,
           UNCHANGED <<manifest, starts, evidence, results, trials>>,
           RunnerOK(r)'
    PROVE  IInv'
<1>1. TypeOK' BY DEF IInv, TypeOK
<1>2. ASSUME NEW q \in Runner, q # r PROVE RunnerOK(q)'
  BY <1>2 DEF IInv, RunnerOK
<1>3. ASSUME NEW s \in Slots PROVE SlotOK(s)'
  BY DEF IInv, SlotOK
<1> QED BY <1>1, <1>2, <1>3 DEF IInv

\* A runner that ends needs nothing.
LEMMA LeavingIsOK ==
    ASSUME NEW r \in Runner, TypeOK, NEW stage \in {"close", "gone"}, Leaves(r, stage)
    PROVE  RunnerOK(r)'
<1>1. run'[r].at = stage /\ run'[r].results = Blank BY LeavesAll DEF Stages
<1> QED BY <1>1, BlankType DEF RunnerOK, WithSlot, WithManifest

\* A runner that has read nothing of the records has nothing to rely on.
LEMMA IdleIsOK ==
    ASSUME NEW r \in Runner, IInv, NEW stage \in Stages \ WithManifest, Goto(r, stage),
           UNCHANGED results
    PROVE  RunnerOK(r)'
<1>1. run'[r].at = stage /\ run'[r].results = run[r].results
  BY MovesOn DEF IInv
<1> QED BY <1>1 DEF RunnerOK, WithSlot, WithManifest, IInv

LEMMA OpensKeeps == ASSUME IInv, NEW r \in Runner, Opens(r) PROVE IInv'
<1>1. PICK stage \in {"initialize", "gone"}: Goto(r, stage) BY DEF Opens
<1>2. stage \in Stages \ WithManifest BY DEF Stages, WithManifest, WithSlot
<1>3. RunnerOK(r)' BY <1>1, <1>2, IdleIsOK DEF Opens, files
<1> QED BY <1>1, <1>2, <1>3, MovesOn, OnlyRunner DEF Opens, files, IInv, TypeOK

LEMMA InitializesKeeps == ASSUME IInv, NEW r \in Runner, Initializes(r) PROVE IInv'
<1>1. UNCHANGED <<lock, manifest, occupied, starts, evidence, results, trials>>
  BY DEF Initializes, files
<1>2. PICK stage \in {"recover", "close", "manifest"}: Goto(r, stage) /\ (stage = "recover" => manifest)
  BY DEF Initializes
<1>3. stage \in Stages BY DEF Stages
<1>4. run' \in [Runner -> Process] /\ (\A q \in Runner \ {r}: run'[q] = run[q])
      /\ run'[r].at = stage /\ run'[r].results = run[r].results
  BY <1>2, <1>3, MovesOn DEF IInv
<1>5. RunnerOK(r)' BY <1>1, <1>2, <1>4 DEF RunnerOK, WithSlot, WithManifest, IInv
<1> QED BY <1>1, <1>4, <1>5, OnlyRunner DEF IInv, TypeOK

LEMMA ReadsKeeps == ASSUME IInv, NEW r \in Runner, Reads(r) PROVE IInv'
<1>1. UNCHANGED <<lock, manifest, occupied, starts, evidence, results, trials>>
  BY DEF Reads, files
<1> DEFINE p == [run[r] EXCEPT !.at = "settle", !.started = starts, !.results = results]
<1>2. run \in [Runner -> Process] /\ run[r] \in Process BY DEF IInv, TypeOK
<1>3. run' = [run EXCEPT ![r] = p] BY <1>2 DEF Reads, Process
<1>4. p \in Process /\ p.at = "settle" /\ p.results = results
  BY <1>2 DEF Process, Stages, IInv, TypeOK
<1> HIDE DEF p
<1>5. run'[r].at = "settle" /\ run'[r].results = results BY <1>2, <1>3, <1>4
<1>6. manifest BY DEF Reads, IInv, RunnerOK, WithManifest
<1>7. RunnerOK(r)' BY <1>1, <1>5, <1>6 DEF RunnerOK, WithSlot, WithManifest
<1> QED BY <1>1, <1>2, <1>3, <1>4, <1>7, OnlyRunner DEF IInv, TypeOK

LEMMA SettledKeeps == ASSUME IInv, NEW r \in Runner, Settled(r) PROVE IInv'
<1>1. UNCHANGED <<lock, manifest, occupied, starts, evidence, results, trials>>
  BY DEF Settled, files
<1> DEFINE p == [run[r] EXCEPT !.at = "pick", !.started = Blank]
<1>2. run \in [Runner -> Process] /\ run[r] \in Process BY DEF IInv, TypeOK
<1>3. run' = [run EXCEPT ![r] = p] BY <1>2 DEF Settled, Process
<1>4. p \in Process /\ p.at = "pick" /\ p.results = run[r].results
  BY <1>2, BlankType DEF Process, Stages
<1> HIDE DEF p
<1>5. run'[r].at = "pick" /\ run'[r].results = run[r].results BY <1>2, <1>3, <1>4
<1>6. RunnerOK(r)' BY <1>1, <1>5 DEF RunnerOK, WithSlot, WithManifest, IInv, Settled
<1> QED BY <1>1, <1>2, <1>3, <1>4, <1>6, OnlyRunner DEF IInv, TypeOK

LEMMA PicksKeeps == ASSUME IInv, NEW r \in Runner, Picks(r) PROVE IInv'
<1>1. UNCHANGED <<lock, manifest, occupied, starts, evidence, results, trials>>
  BY DEF Picks, files
<1>2. run \in [Runner -> Process] /\ run[r] \in Process BY DEF IInv, TypeOK
<1>3. manifest BY DEF Picks, IInv, RunnerOK, WithManifest
<1>4. CASE Goto(r, "report")
  <2>1. run' \in [Runner -> Process] /\ (\A q \in Runner \ {r}: run'[q] = run[q])
        /\ run'[r].at = "report" /\ run'[r].results = run[r].results
    BY <1>4, MovesOn DEF IInv, Stages
  <2>2. RunnerOK(r)' BY <1>1, <1>3, <2>1 DEF RunnerOK, WithSlot, WithManifest, IInv
  <2> QED BY <1>1, <2>1, <2>2, OnlyRunner DEF IInv, TypeOK
<1>5. ASSUME NEW s \in Slots, run' = [run EXCEPT ![r].at = "start", ![r].slot = s]
      PROVE  IInv'
  <2> DEFINE p == [run[r] EXCEPT !.at = "start", !.slot = s]
  <2>1. run' = [run EXCEPT ![r] = p] BY <1>2, <1>5 DEF Process
  <2>2. p \in Process /\ p.at = "start" /\ p.slot = s /\ p.results = run[r].results
    <3>1. s \in 0..Limit BY RunStoreAssumption DEF Slots
    <3> QED BY <1>2, <3>1 DEF Process, Stages
  <2> HIDE DEF p
  <2>3. run'[r].at = "start" /\ run'[r].slot = s /\ run'[r].results = run[r].results
    BY <1>2, <2>1, <2>2
  <2>4. RunnerOK(r)' BY <1>1, <1>3, <2>3 DEF RunnerOK, WithSlot, WithManifest, IInv
  <2> QED BY <1>1, <1>2, <2>1, <2>2, <2>4, OnlyRunner DEF IInv, TypeOK
<1> QED BY <1>4, <1>5 DEF Picks

LEMMA PreparesKeeps == ASSUME IInv, NEW r \in Runner, Prepares(r) PROVE IInv'
<1>1. UNCHANGED <<lock, manifest, starts, evidence, results, trials>> /\ occupied' = TRUE
  BY DEF Prepares
<1> DEFINE p == [run[r] EXCEPT !.prepared = TRUE]
<1>2. run \in [Runner -> Process] /\ run[r] \in Process BY DEF IInv, TypeOK
<1>3. run' = [run EXCEPT ![r] = p] BY <1>2 DEF Prepares, Process
<1>4. p \in Process /\ p.at = run[r].at /\ p.slot = run[r].slot
      /\ p.results = run[r].results /\ p.found = run[r].found
  BY <1>2 DEF Process
<1> HIDE DEF p
<1>5. run'[r].at = run[r].at /\ run'[r].slot = run[r].slot
      /\ run'[r].results = run[r].results /\ run'[r].found = run[r].found
  BY <1>2, <1>3, <1>4
<1>6. RunnerOK(r)' BY <1>1, <1>5 DEF RunnerOK, IInv
<1> QED BY <1>1, <1>2, <1>3, <1>4, <1>6, OnlyRunner DEF IInv, TypeOK

LEMMA EndsKeep ==
    ASSUME IInv, NEW r \in Runner, NEW stage \in {"close", "gone"}, Leaves(r, stage),
           UNCHANGED <<files, trials>>, lock' \in {lock, None}
    PROVE  IInv'
<1>1. run' \in [Runner -> Process] /\ (\A q \in Runner \ {r}: run'[q] = run[q])
  BY LeavesAll DEF IInv, Stages
<1>2. RunnerOK(r)' BY LeavingIsOK DEF IInv
<1> QED BY <1>1, <1>2, OnlyRunner DEF IInv, TypeOK, files

\* The manifest is linked while there is none: nothing was recorded before it.
LEMMA ManifestKeeps == ASSUME IInv, NEW r \in Runner, ManifestLinked(r) PROVE IInv'
<1>1. UNCHANGED <<lock, occupied, starts, evidence, results, trials>> /\ manifest' = TRUE
  BY DEF ManifestLinked
<1>2. run' \in [Runner -> Process] /\ (\A q \in Runner \ {r}: run'[q] = run[q])
      /\ run'[r].at = "recover" /\ run'[r].results = run[r].results
  BY MovesOn DEF ManifestLinked, IInv, Stages
<1>3. TypeOK' BY <1>1, <1>2 DEF IInv, TypeOK
<1>4. ASSUME NEW q \in Runner PROVE RunnerOK(q)'
  BY <1>1, <1>2 DEF IInv, RunnerOK, WithSlot, WithManifest
<1>5. ASSUME NEW s \in Slots PROVE SlotOK(s)'
  BY <1>1 DEF IInv, SlotOK
<1> QED BY <1>3, <1>4, <1>5 DEF IInv

\* A start is linked where there is none: nobody has executed this slot.
LEMMA StartKeeps == ASSUME IInv, NEW r \in Runner, StartLinked(r) PROVE IInv'
<1> DEFINE s == run[r].slot
<1>1. /\ UNCHANGED <<lock, manifest, occupied, evidence, results, trials>>
      /\ starts' = [starts EXCEPT ![s] = r] /\ starts[s] = None /\ run[r].at = "start"
  BY DEF StartLinked, Free, Writes
<1>2. run' \in [Runner -> Process] /\ (\A q \in Runner \ {r}: run'[q] = run[q])
      /\ run'[r].at = "trial" /\ run'[r].slot = s /\ run'[r].results = run[r].results
  BY MovesOn DEF StartLinked, IInv, Stages
<1>3. s \in Slots /\ manifest BY <1>1 DEF IInv, RunnerOK, WithSlot, WithManifest
<1>4. TypeOK' BY <1>1, <1>2 DEF IInv, TypeOK
<1> HIDE DEF s
<1>5. \A t \in Slots: starts'[t] = IF t = s THEN r ELSE starts[t]
  BY <1>1 DEF IInv, TypeOK
<1>6. trials[s] = 0 /\ results[s] = None
  <2>1. SlotOK(s) BY <1>3 DEF IInv
  <2>2. results[s] # None => results[s].attempt \in Runner BY <1>3 DEF IInv, TypeOK, Result
  <2> QED BY <1>1, <2>1, <2>2, RunStoreAssumption DEF SlotOK
<1>7. ASSUME NEW q \in Runner PROVE RunnerOK(q)'
  <2>1. CASE q = r
    BY <1>1, <1>2, <1>3, <1>5, <1>6, <2>1 DEF IInv, RunnerOK, WithSlot, WithManifest
  <2>2. CASE q # r
    <3>1. run'[q] = run[q] /\ RunnerOK(q) BY <1>2, <2>2 DEF IInv
    <3>2. run[q].at \in {"trial", "evidence", "result"} => run[q].slot # s
      BY <3>1, <1>1, RunStoreAssumption DEF RunnerOK
    <3> QED BY <1>1, <1>5, <3>1, <3>2 DEF RunnerOK, WithSlot, WithManifest
  <2> QED BY <2>1, <2>2
<1>8. ASSUME NEW t \in Slots PROVE SlotOK(t)'
  <2>1. SlotOK(t) BY DEF IInv
  <2> QED BY <1>1, <1>3, <1>5, <1>6, <2>1 DEF SlotOK
<1> QED BY <1>4, <1>7, <1>8 DEF IInv

LEMMA EvidenceKeeps == ASSUME IInv, NEW r \in Runner, EvidenceLinked(r) PROVE IInv'
<1> DEFINE s == run[r].slot
<1>1. /\ UNCHANGED <<lock, manifest, occupied, starts, results, trials>>
      /\ evidence' = [evidence EXCEPT ![s] = r] /\ evidence[s] = None /\ run[r].at = "evidence"
  BY DEF EvidenceLinked, Free, Writes
<1>2. run' \in [Runner -> Process] /\ (\A q \in Runner \ {r}: run'[q] = run[q])
      /\ run'[r].at = "result" /\ run'[r].slot = s /\ run'[r].results = run[r].results
      /\ run'[r].found = run[r].found
  BY MovesOn DEF EvidenceLinked, IInv, Stages
<1>3. TypeOK' BY <1>1, <1>2 DEF IInv, TypeOK
<1>4. \A t \in Slots: evidence'[t] = IF t = s THEN r ELSE evidence[t]
  BY <1>1 DEF IInv, TypeOK
<1> HIDE DEF s
<1>5. RunnerOK(r) BY DEF IInv
<1>6. ASSUME NEW q \in Runner PROVE RunnerOK(q)'
  <2>1. CASE q = r
    <3>1. run[r].slot = s BY DEF s
    <3> QED BY <1>1, <1>2, <1>5, <2>1, <3>1 DEF RunnerOK, WithSlot, WithManifest
  <2>2. CASE q # r
    BY <1>1, <1>2, <2>2 DEF IInv, RunnerOK
  <2> QED BY <2>1, <2>2
<1>7. ASSUME NEW t \in Slots PROVE SlotOK(t)'
  <2>1. SlotOK(t) BY DEF IInv
  <2>2. results[t] # None => results[t].attempt \in Runner BY DEF IInv, TypeOK, Result
  <2> QED BY <1>1, <1>4, <2>1, <2>2, RunStoreAssumption DEF SlotOK
<1> QED BY <1>3, <1>6, <1>7 DEF IInv

\* A result of the attempt that began the slot is linked where there is none.
LEMMA ResultKeeps ==
    ASSUME IInv, NEW r \in Runner, NEW s \in Slots, NEW result \in Result,
           LinksResult(s, result),
           result.status = "completed" => trials[s] = 1 /\ (PcmRequired => result.voice),
           run' \in [Runner -> Process],
           \A q \in Runner \ {r}: run'[q] = run[q],
           run'[r].at \in {"settle", "report", "pick"}, manifest,
           run'[r].results = [run[r].results EXCEPT ![s] = result]
    PROVE  IInv'
<1>1. /\ UNCHANGED <<lock, manifest, occupied, starts, evidence, trials>>
      /\ results' = [results EXCEPT ![s] = result] /\ results[s] = None
      /\ Supported(s, result)
  BY DEF LinksResult, Free
<1>2. TypeOK' BY <1>1 DEF IInv, TypeOK
<1>3. \A t \in Slots: results'[t] = IF t = s THEN result ELSE results[t]
  BY <1>1 DEF IInv, TypeOK
<1>4. \A t \in Slots: run'[r].results[t] = IF t = s THEN result ELSE run[r].results[t]
  <2>1. run[r].results \in [Slots -> {None} \cup Result] BY DEF IInv, TypeOK, Process
  <2> QED BY <2>1
<1>5. result # None BY NoneAssumption
<1>6. ASSUME NEW q \in Runner PROVE RunnerOK(q)'
  <2>1. RunnerOK(q) BY DEF IInv
  <2>2. CASE q = r
    <3>1. \A t \in Slots: run'[r].results[t] \in {None, results'[t]}
      BY <1>3, <1>4, <2>1, <2>2 DEF RunnerOK
    <3> QED BY <1>1, <2>2, <3>1 DEF RunnerOK, WithSlot, WithManifest
  <2>3. CASE q # r
    <3>1. run'[q] = run[q] BY <2>3
    <3>2. \A t \in Slots: run[q].results[t] \in {None, results'[t]}
      BY <1>1, <1>3, <2>1 DEF RunnerOK
    <3> QED BY <1>1, <2>1, <3>1, <3>2 DEF RunnerOK
  <2> QED BY <2>2, <2>3
<1>7. ASSUME NEW t \in Slots PROVE SlotOK(t)'
  <2>1. SlotOK(t) BY DEF IInv
  <2> QED BY <1>1, <1>3, <1>5, <2>1 DEF SlotOK, Supported
<1> QED BY <1>2, <1>6, <1>7 DEF IInv

LEMMA InterruptsKeeps == ASSUME IInv, NEW r \in Runner, Interrupts(r) PROVE IInv'
<1>1. PICK s \in Slots:
        /\ IsFirst(s, Unsettled(run[r]))
        /\ LinksResult(s, Interruption(run[r].started[s]))
        /\ run' = [run EXCEPT ![r].prepared = FALSE,
                              ![r].results[s] = Interruption(run[r].started[s])]
  BY DEF Interrupts
<1> DEFINE result == Interruption(run[r].started[s])
<1>2. run \in [Runner -> Process] /\ run[r] \in Process BY DEF IInv, TypeOK
<1>3. run[r].started[s] \in Runner
  BY <1>1, <1>2 DEF IsFirst, Unsettled, Process
<1>4. result \in Result /\ result.status # "completed"
  BY <1>3 DEF Result, Interruption
<1> HIDE DEF result
<1> DEFINE p == [run[r] EXCEPT !.prepared = FALSE, !.results = [@ EXCEPT ![s] = result]]
<1>5. run' = [run EXCEPT ![r] = p] BY <1>1, <1>2 DEF Process, result
<1>6. p \in Process /\ p.at = run[r].at /\ p.results = [run[r].results EXCEPT ![s] = result]
  <2>1. [run[r].results EXCEPT ![s] = result] \in [Slots -> {None} \cup Result]
    BY <1>2, <1>4 DEF Process
  <2> QED BY <1>2, <2>1 DEF Process
<1> HIDE DEF p
<1>7. run'[r].at = "settle" /\ run'[r].results = [run[r].results EXCEPT ![s] = result]
  BY <1>2, <1>5, <1>6 DEF Interrupts, Writes
<1>8. manifest BY DEF IInv, RunnerOK, WithManifest, Interrupts, Writes
<1>9. LinksResult(s, result) BY <1>1 DEF result
<1> QED BY <1>2, <1>4, <1>5, <1>6, <1>7, <1>8, <1>9, ResultKeeps

LEMMA ResultLinkedKeeps == ASSUME IInv, NEW r \in Runner, ResultLinked(r) PROVE IInv'
<1> DEFINE s == run[r].slot
           result == Verdict(r)
           stage == AfterResult(run[r])
<1>1. run[r].at = "result" /\ LinksResult(s, result)
      /\ run' = [run EXCEPT ![r].at = stage, ![r].prepared = FALSE,
                            ![r].results[s] = result, ![r].slot = 0, ![r].found = None]
  BY DEF ResultLinked, Writes
<1>2. run \in [Runner -> Process] /\ run[r] \in Process BY DEF IInv, TypeOK
<1>3. s \in Slots /\ manifest /\ trials[s] = 1 /\ run[r].found \in Finding /\ Complete(run[r].found)
  BY <1>1, <1>2 DEF IInv, RunnerOK, WithSlot, WithManifest, Process
<1>4. result \in Result /\ (result.status = "completed" => (PcmRequired => result.voice))
  BY <1>3 DEF Result, Verdict, Finding, Complete
<1>5. stage \in {"report", "pick"} BY DEF AfterResult
<1> HIDE DEF result, stage, s
<1> DEFINE p == [run[r] EXCEPT !.at = stage, !.prepared = FALSE,
                              !.results = [@ EXCEPT ![s] = result], !.slot = 0, !.found = None]
<1>6. run' = [run EXCEPT ![r] = p] BY <1>1, <1>2 DEF Process
<1>7. p \in Process /\ p.at = stage /\ p.results = [run[r].results EXCEPT ![s] = result]
  <2>1. [run[r].results EXCEPT ![s] = result] \in [Slots -> {None} \cup Result]
    BY <1>2, <1>4 DEF Process
  <2>2. 0 \in 0..Limit BY RunStoreAssumption
  <2> QED BY <1>2, <1>5, <2>1, <2>2 DEF Process, Stages
<1> HIDE DEF p
<1>8. run'[r].at = stage /\ run'[r].results = [run[r].results EXCEPT ![s] = result]
  BY <1>2, <1>6, <1>7
<1>9. run' \in [Runner -> Process] /\ (\A q \in Runner \ {r}: run'[q] = run[q])
  BY <1>2, <1>6, <1>7
<1>10. run'[r].at \in {"settle", "report", "pick"} BY <1>5, <1>8
<1> QED BY <1>1, <1>3, <1>4, <1>8, <1>9, <1>10, ResultKeeps

LEMMA ReportKeeps == ASSUME IInv, NEW r \in Runner, ReportLinked(r) PROVE IInv'
<1>1. UNCHANGED <<lock, manifest, occupied, starts, evidence, results, trials>> /\ Goto(r, "close")
  BY DEF ReportLinked, files
<1>2. RunnerOK(r)' BY <1>1, IdleIsOK DEF Stages, WithManifest, WithSlot
<1> QED BY <1>1, <1>2, MovesOn, OnlyRunner DEF IInv, TypeOK, Stages
-----------------------------------------------------------------------------
(* Trials *)

\* The trial of a slot that was not executed before, by the runner that began it.
LEMMA TrialKeeps ==
    ASSUME IInv, NEW r \in Runner, run[r].at = "trial",
           UNCHANGED <<lock, files>>,
           trials' = [trials EXCEPT ![run[r].slot] = @ + 1],
           run' \in [Runner -> Process],
           \A q \in Runner \ {r}: run'[q] = run[q],
           RunnerOK(r)'
    PROVE  IInv'
<1> DEFINE s == run[r].slot
<1>1. UNCHANGED <<manifest, occupied, starts, evidence, results>> BY DEF files
<1>2. s \in Slots /\ manifest /\ starts[s] = r /\ trials[s] = 0
  BY DEF IInv, RunnerOK, WithSlot, WithManifest
<1>3. trials \in [Slots -> Nat] /\ trials' = [trials EXCEPT ![s] = @ + 1] BY DEF IInv, TypeOK
<1> HIDE DEF s
<1>4. \A t \in Slots: trials'[t] = IF t = s THEN 1 ELSE trials[t] BY <1>2, <1>3
<1>5. TypeOK'
  <2>1. trials' \in [Slots -> Nat] BY <1>2, <1>3
  <2> QED BY <1>1, <2>1 DEF IInv, TypeOK
<1>6. ASSUME NEW q \in Runner, q # r PROVE RunnerOK(q)'
  <2>1. run'[q] = run[q] /\ RunnerOK(q) BY <1>6 DEF IInv
  <2>2. run[q].at \in {"trial", "evidence", "result"} => run[q].slot \in Slots /\ run[q].slot # s
    BY <1>2, <1>6, <2>1 DEF RunnerOK, WithSlot
  <2> QED BY <1>1, <1>4, <2>1, <2>2 DEF RunnerOK, WithSlot, WithManifest
<1>7. ASSUME NEW t \in Slots PROVE SlotOK(t)'
  <2>1. SlotOK(t) BY DEF IInv
  <2>2. starts[s] # None BY <1>2, RunStoreAssumption
  <2> QED BY <1>1, <1>2, <1>4, <2>1, <2>2 DEF SlotOK
<1> QED BY <1>5, <1>6, <1>7 DEF IInv

LEMMA RunsKeeps ==
    ASSUME IInv, NEW r \in Runner, NEW found \in Finding, Runs(r, found)
    PROVE  IInv'
<1> DEFINE stage == AfterTrial(found)
           p == [run[r] EXCEPT !.at = stage, !.found = found]
<1>1. run \in [Runner -> Process] /\ run[r] \in Process BY DEF IInv, TypeOK
<1>2. run' = [run EXCEPT ![r] = p] BY <1>1 DEF Runs, Process
<1>3. stage \in {"evidence", "result"} BY DEF AfterTrial
<1> HIDE DEF stage
<1>4. p \in Process /\ p.at = stage /\ p.found = found /\ p.slot = run[r].slot
      /\ p.results = run[r].results
  BY <1>1, <1>3 DEF Process, Stages
<1> HIDE DEF p
<1>5. run'[r].at = stage /\ run'[r].found = found /\ run'[r].slot = run[r].slot
      /\ run'[r].results = run[r].results
  BY <1>1, <1>2, <1>4
<1>6. /\ run[r].at = "trial" /\ Complete(found) /\ UNCHANGED <<lock, files>>
      /\ trials' = [trials EXCEPT ![run[r].slot] = @ + 1]
  BY DEF Runs
<1>7. RunnerOK(r) /\ trials \in [Slots -> Nat] BY DEF IInv, TypeOK
<1>8. run[r].slot \in Slots /\ trials'[run[r].slot] = 1
  BY <1>6, <1>7 DEF RunnerOK, WithSlot
<1>9. RunnerOK(r)'
  <2>1. found # None BY NoneAssumption
  <2> QED BY <1>3, <1>5, <1>6, <1>7, <1>8, <2>1
        DEF RunnerOK, WithSlot, WithManifest, files, Complete
<1> QED BY <1>1, <1>2, <1>4, <1>6, <1>9, TrialKeeps

LEMMA BreakKeeps ==
    ASSUME IInv, NEW r \in Runner, NEW stage \in {"close", "gone"}, TrialBreaks(r, stage)
    PROVE  IInv'
<1>1. run' \in [Runner -> Process] /\ (\A q \in Runner \ {r}: run'[q] = run[q])
  BY LeavesAll DEF IInv, Stages, TrialBreaks
<1>2. RunnerOK(r)' BY LeavingIsOK DEF IInv, TrialBreaks
<1> QED BY <1>1, <1>2, TrialKeeps DEF TrialBreaks
-----------------------------------------------------------------------------
LEMMA StepKeeps == ASSUME IInv, NEW r \in Runner, Step(r) PROVE IInv'
<1>1. CASE Opens(r) BY <1>1, OpensKeeps
<1>2. CASE Initializes(r) BY <1>2, InitializesKeeps
<1>3. CASE Reads(r) BY <1>3, ReadsKeeps
<1>4. CASE Settled(r) BY <1>4, SettledKeeps
<1>5. CASE Picks(r) BY <1>5, PicksKeeps
<1>6. CASE Prepares(r) BY <1>6, PreparesKeeps
<1>7. CASE Installs(r)
  BY <1>7, ManifestKeeps, StartKeeps, EvidenceKeeps, InterruptsKeeps, ResultLinkedKeeps,
     ReportKeeps DEF Installs
<1>8. CASE Fails(r) BY <1>8, EndsKeep DEF Fails
<1>9. CASE Closes(r) BY <1>9, EndsKeep DEF Closes
<1>10. CASE \E found \in Finding: Runs(r, found) BY <1>10, RunsKeeps
<1>11. CASE TrialBreaks(r, "close") BY <1>11, BreakKeeps
<1> QED BY <1>1, <1>2, <1>3, <1>4, <1>5, <1>6, <1>7, <1>8, <1>9, <1>10, <1>11 DEF Step

LEMMA Inductive == IInv /\ [Next]_vars => IInv'
<1> SUFFICES ASSUME IInv, [Next]_vars PROVE IInv' OBVIOUS
<1>1. ASSUME NEW r \in Runner, Step(r) PROVE IInv' BY <1>1, StepKeeps
<1>2. ASSUME NEW r \in Runner, Dies(r) PROVE IInv' BY <1>2, EndsKeep DEF Dies
<1>3. ASSUME NEW r \in Runner, TrialBreaks(r, "gone") PROVE IInv' BY <1>3, BreakKeeps
<1>4. CASE LockRemoved
  <2>1. UNCHANGED <<manifest, occupied, starts, evidence, results, run, trials>> /\ lock' = None
    BY <1>4 DEF LockRemoved, files
  <2> QED BY <2>1 DEF IInv, TypeOK, RunnerOK, SlotOK
<1>5. CASE UNCHANGED vars
  <2>1. UNCHANGED <<lock, manifest, occupied, starts, evidence, results, run, trials>>
    BY <1>5 DEF vars, files
  <2> QED BY <2>1 DEF IInv, TypeOK, RunnerOK, SlotOK
<1> QED BY <1>1, <1>2, <1>3, <1>4, <1>5 DEF Next

LEMMA Invariance == Spec => []IInv
BY Initially, Inductive, PTL DEF Spec
-----------------------------------------------------------------------------
\* Every reachable state of the directory and of the runners is of the declared
\* types, for any number of runners and of planned trials.
THEOREM StoreTypes == Spec => []TypeOK
<1>1. IInv => TypeOK BY DEF IInv
<1> QED BY <1>1, Invariance, PTL

\* No trial is executed twice, whoever dies, resumes, or runs beside another after a
\* lock was removed: the start, linked where there is none, is the right to run it.
THEOREM TrialsRunOnce == Spec => []RunOnce
<1>1. IInv => RunOnce BY DEF IInv, SlotOK, RunOnce, TypeOK
<1> QED BY <1>1, Invariance, PTL

\* The directory is readable after every step of every runner, so that a run can
\* always be resumed: a crash never leaves a result without what it stands on.
THEOREM DirectoryReadable == Spec => []AlwaysReadable
<1>1. IInv => AlwaysReadable
  <2> SUFFICES ASSUME IInv PROVE AlwaysReadable OBVIOUS
  <2>1. ASSUME ~manifest PROVE starts = Blank /\ results = Blank /\ trials = [s \in Slots |-> 0]
    BY <2>1 DEF IInv, SlotOK, TypeOK, Blank
  <2> QED BY <2>1 DEF IInv, SlotOK, AlwaysReadable
<1> QED BY <1>1, Invariance, PTL

\* What counts as completed was executed, by the attempt that began it, with the
\* measurements the manifest asks for; what runners know of results is in the files.
THEOREM CountedWasExecuted == Spec => []CountedWasRun
<1>1. IInv => CountedWasRun BY DEF IInv, SlotOK, RunnerOK, CountedWasRun
<1> QED BY <1>1, Invariance, PTL
-----------------------------------------------------------------------------
(* The files as a ledger *)

Entry(s) ==
    [attempt |-> starts[s], word |-> IF results[s] = None THEN None ELSE results[s].status]
Entries == [s \in Slots |-> Entry(s)]

LEMMA LedgerInit == Init => Ledger!Init
BY DEF Init, Blank, Ledger!Init, Ledger!Open

\* A start of a slot that was not begun.
LEMMA LedgerBegins ==
    ASSUME IInv, NEW r \in Runner, NEW s \in Slots, starts[s] = None,
           starts' = [starts EXCEPT ![s] = r], UNCHANGED results
    PROVE  Ledger!Next
<1>1. results[s] = None
  <2>1. SlotOK(s) BY DEF IInv
  <2>2. results[s] # None => results[s].attempt \in Runner BY DEF IInv, TypeOK, Result
  <2> QED BY <2>1, <2>2, RunStoreAssumption DEF SlotOK
<1>2. \A t \in Slots: starts'[t] = IF t = s THEN r ELSE starts[t] BY DEF IInv, TypeOK
<1>3. Entry(s) = [attempt |-> None, word |-> None] BY <1>1 DEF Entry
<1>4. Entry(s)' = [Entry(s) EXCEPT !.attempt = r] BY <1>1, <1>2 DEF Entry
<1>5. \A t \in Slots \ {s}: Entry(t)' = Entry(t) BY <1>2 DEF Entry
<1>6. Entries' = [Entries EXCEPT ![s].attempt = r]
  <2>1. Entries' = [t \in Slots |-> Entry(t)'] BY DEF Entries
  <2> HIDE DEF Entries
  <2>2. Entries = [t \in Slots |-> Entry(t)] BY DEF Entries
  <2> QED BY <1>4, <1>5, <2>1, <2>2
<1>7. Ledger!Begin(s, r)
  BY <1>3, <1>6 DEF Ledger!Begin, Ledger!Open, Entries, Entry
<1> QED BY <1>7 DEF Ledger!Next

\* A result of the attempt that began the slot, which was not settled.
LEMMA LedgerSettles ==
    ASSUME IInv, NEW s \in Slots, NEW result \in Result, LinksResult(s, result)
    PROVE  Ledger!Next
<1>1. results[s] = None /\ starts[s] = result.attempt /\ UNCHANGED starts
      /\ results' = [results EXCEPT ![s] = result]
  BY DEF LinksResult, Free, Supported
<1>2. \A t \in Slots: results'[t] = IF t = s THEN result ELSE results[t]
  BY <1>1 DEF IInv, TypeOK
<1>3. result # None /\ result.attempt # None /\ result.status \in {"completed", "failed", "interrupted"}
  BY NoneAssumption, RunStoreAssumption DEF Result
<1>4. Entry(s).attempt # None /\ Entry(s).word = None BY <1>1, <1>3 DEF Entry
<1>5. Entry(s)' = [Entry(s) EXCEPT !.word = result.status] BY <1>1, <1>2, <1>3 DEF Entry
<1>6. \A t \in Slots \ {s}: Entry(t)' = Entry(t) BY <1>1, <1>2 DEF Entry
<1>7. Entries' = [Entries EXCEPT ![s].word = result.status]
  <2>1. Entries' = [t \in Slots |-> Entry(t)'] BY DEF Entries
  <2>2. Entries = [t \in Slots |-> Entry(t)] BY DEF Entries
  <2> HIDE DEF Entries
  <2> QED BY <1>5, <1>6, <2>1, <2>2
<1>8. Ledger!Settle(s, result.status)
  BY <1>4, <1>7 DEF Ledger!Settle, Entries, Entry
<1> QED BY <1>3, <1>8 DEF Ledger!Next

LEMMA LedgerStep == IInv /\ [Next]_vars => [Ledger!Next]_Entries
<1> SUFFICES ASSUME IInv, [Next]_vars PROVE Ledger!Next \/ UNCHANGED Entries OBVIOUS
<1>1. CASE UNCHANGED <<starts, results>> BY <1>1 DEF Entries, Entry
<1>2. ASSUME NEW r \in Runner, StartLinked(r) PROVE Ledger!Next
  <2>1. run[r].slot \in Slots
    BY <1>2 DEF StartLinked, Writes, IInv, RunnerOK, WithSlot
  <2> QED BY <1>2, <2>1, LedgerBegins DEF StartLinked, Free
<1>3. ASSUME NEW r \in Runner, Interrupts(r) PROVE Ledger!Next
  <2>1. PICK s \in Slots: /\ IsFirst(s, Unsettled(run[r]))
                          /\ LinksResult(s, Interruption(run[r].started[s]))
    BY <1>3 DEF Interrupts
  <2>2. run[r] \in Process BY DEF IInv, TypeOK
  <2>3. run[r].started[s] \in Runner BY <2>1, <2>2 DEF IsFirst, Unsettled, Process
  <2>4. Interruption(run[r].started[s]) \in Result BY <2>3 DEF Interruption, Result
  <2> QED BY <2>1, <2>4, LedgerSettles
<1>4. ASSUME NEW r \in Runner, ResultLinked(r) PROVE Ledger!Next
  <2>1. run[r] \in Process BY DEF IInv, TypeOK
  <2>2. run[r].slot \in Slots /\ run[r].found \in Finding
    BY <1>4, <2>1 DEF ResultLinked, Writes, IInv, RunnerOK, WithSlot, Process
  <2>3. Verdict(r) \in Result BY <2>2 DEF Verdict, Finding, Result
  <2> QED BY <1>4, <2>2, <2>3, LedgerSettles DEF ResultLinked
<1>5. ASSUME NEW r \in Runner, Step(r) PROVE Ledger!Next \/ UNCHANGED <<starts, results>>
  <2>1. CASE Installs(r)
    BY <1>2, <1>3, <1>4, <2>1
       DEF Installs, ManifestLinked, EvidenceLinked, ReportLinked, files
  <2>2. CASE ~Installs(r)
    BY <1>5, <2>2 DEF Step, Opens, Initializes, Reads, Settled, Picks, Prepares, Fails, Closes,
                      Runs, TrialBreaks, files
  <2> QED BY <2>1, <2>2
<1> QED BY <1>1, <1>5 DEF Next, Dies, TrialBreaks, LockRemoved, files, vars

\* Whatever the runners do and whenever they die, the directory is a ledger: every
\* planned trial is begun once and settled once, and nothing written is rewritten.
THEOREM StoreRefinement == Spec => KeepsLedger
<1>1. IInv /\ [Next]_vars => [Ledger!Next]_Entries BY LedgerStep
<1> QED BY <1>1, LedgerInit, Invariance, PTL DEF Spec, KeepsLedger, Ledger!Spec, Entries, Entry
=============================================================================
